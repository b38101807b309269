------------------------------ MODULE Bootstrap ------------------------------
(***************************************************************************)
(* The bootstrap of one TigerBeetleCluster: how the operator decides that  *)
(* a cluster is new, formats the data file of every replica exactly once,  *)
(* and then lets the StatefulSet start the replicas.                       *)
(*                                                                         *)
(* The Reconcile handler is cut at every call to the API server.  Between  *)
(* two of its steps users, the garbage collector, the Job and StatefulSet  *)
(* controllers, the pods and the informers behind the operator's cache all *)
(* move, and the operator may crash.  Objects are what the API server      *)
(* stores; cTbc, cMark and cJob are the operator's cache of them, which    *)
(* lags behind.  An owner, label or uid of 0 stands for an absent object.  *)
(*                                                                         *)
(* Left out: two active operators (leader election is on), external        *)
(* replicas, invalid specs, the format pods a deleted Job leaves behind    *)
(* (a Job and its pod go together).                                        *)
(***************************************************************************)
EXTENDS Integers, FiniteSets

CONSTANTS
    N,              \* spec.replicas, immutable
    MaxUid,         \* bound: how often the cluster object may be created
    MaxUserOps,     \* bound: the other operations of users
    MaxFaults,      \* bound: failed calls, crashes, failed Jobs, lost volumes
    MaxTotal,       \* bound: operations of users and faults together
    Assumed         \* what is assumed of users and of the informers' lag:
                    \* "StatusFirst"      the last marker only goes once the
                    \*                    status says what it says
                    \* "CaughtUp"         and the cache knows it too, as it knows
                    \*                    of a deletion before the name is used
                    \*                    again
                    \* "JobsCollected"    no format Job is left when the name
                    \*                    is used again
                    \* "MarkersCollected" nor ConfigMap, StatefulSet or pods
                    \* "RestoreFirst"     volumes are restored before the
                    \*                    cluster is created, not meanwhile

ASSUME NAssumption == N \in Nat \ {0}
ASSUME BoundsAssumption ==
    {MaxUid, MaxUserOps, MaxFaults, MaxTotal} \subseteq Nat
ASSUME AssumedAssumption ==
    Assumed \subseteq {"StatusFirst", "CaughtUp", "JobsCollected",
                       "MarkersCollected", "RestoreFirst"}

Ordinals == 0 .. N - 1

VARIABLES
    \* What the API server stores.
    tbc,            \* the TigerBeetleCluster: uid, status.bootstrapped, the
                    \* adopt-existing-data annotation, a deletion timestamp
    cm,             \* the ConfigMap: its owner and its bootstrapped marker
    sts,            \* the owner of the StatefulSet
    pvc,            \* per ordinal: bootstrap-uid label, what the volume holds
    job,            \* per ordinal: owner and state of the format Job
    pods,           \* the ordinals that have a replica pod
    running,        \* those whose TigerBeetle process has started
    \* The operator's cache and work queue.
    cTbc, cMark, cJob, queue,
    \* The running Reconcile call.
    pc,             \* the next call to the API server
    me,             \* its copy of the TigerBeetleCluster
    orig,           \* status.bootstrapped as it was read
    scan,           \* its local variables
    \* History, which no action of the system reads.
    ran,            \* ordinals that may have run since no data file existed
    booted,         \* uids whose bootstrap marker was ever written
    formatted,      \* ordinals that held a data file in this cluster's life
    lastUid,        \* the last uid given out
    \* Bounds.
    ops, faults

api   == <<tbc, cm, sts, pvc, job, pods, running>>
cache == <<cTbc, cMark, cJob, queue>>
rec   == <<pc, me, orig, scan>>
ghost == <<ran, booted, formatted, lastUid>>
bound == <<ops, faults>>
vars  == <<api, cache, rec, ghost, bound>>

-----------------------------------------------------------------------------
(* Types *)

Uids == 0 .. MaxUid

Clusters   == [uid : Uids, bootstrapped : BOOLEAN, adopt : BOOLEAN, deleting : BOOLEAN]
ConfigMaps == [owner : Uids, bootstrapped : BOOLEAN]
Claims     == [label : Uids, state : {"absent", "empty", "formatted", "data"}]
Jobs       == [owner : Uids, state : {"none", "pending", "running", "complete", "failed"}]
Marks      == [cm : BOOLEAN, sts : BOOLEAN, pods : BOOLEAN]

NoCluster   == [uid |-> 0, bootstrapped |-> FALSE, adopt |-> FALSE, deleting |-> FALSE]
NoConfigMap == [owner |-> 0, bootstrapped |-> FALSE]
NoClaim     == [label |-> 0, state |-> "absent"]
NoJob       == [owner |-> 0, state |-> "none"]

Stages == {"idle", "gateCached", "gateConfigMap", "gateStatefulSet",
           "gatePods", "applyUnmarked", "getPVC", "createPVC", "formatJobs",
           "applyMarked", "applyStatefulSet", "listJobs", "deleteJobs", "patchStatus"}

Outcomes == {"none", "waiting", "stalled", "formatting", "error", "running"}

Scans == [k : Ordinals, foreign : BOOLEAN, missing : BOOLEAN, succeeded : 0 .. N,
          failed : BOOLEAN, doomed : SUBSET Ordinals, outcome : Outcomes]
Ended(outcome) == [k |-> 0, foreign |-> FALSE, missing |-> FALSE, succeeded |-> 0,
                   failed |-> FALSE, doomed |-> {}, outcome |-> outcome]
NewScan == Ended("none")

TypeOK ==
    /\ tbc \in Clusters /\ cm \in ConfigMaps /\ sts \in Uids
    /\ pvc \in [Ordinals -> Claims] /\ job \in [Ordinals -> Jobs]
    /\ pods \subseteq Ordinals /\ running \subseteq pods
    /\ cTbc \in Clusters /\ cMark \in Marks /\ cJob \in [Ordinals -> Jobs]
    /\ queue \in BOOLEAN
    /\ pc \in Stages /\ me \in Clusters /\ orig \in BOOLEAN /\ scan \in Scans
    /\ ran \subseteq Ordinals /\ booted \subseteq Uids
    /\ formatted \subseteq Ordinals /\ lastUid \in Uids
    /\ ops \in 0 .. MaxUserOps /\ faults \in 0 .. MaxFaults

-----------------------------------------------------------------------------
(* State functions *)

Exists(i)   == pvc[i].state # "absent"
HasFile(i)  == pvc[i].state \in {"formatted", "data"}
Files       == {i \in Ordinals : HasFile(i)}
InUse(i)    == i \in pods \/ job[i].state = "running"   \* pvc-protection
Unfinished(i) == job[i].state \in {"pending", "running"}

\* The markers isBootstrapped looks for next to status.bootstrapped, and how
\* the API server answers for them.
CmMarks == cm.owner # 0 /\ cm.bootstrapped
LiveMarks == [cm |-> CmMarks, sts |-> sts # 0, pods |-> pods # {}]
Marked == CmMarks \/ sts # 0 \/ pods # {}

\* A copy of the cluster that no longer shows, or does not show yet, that its
\* bootstrap was completed.
Blind(c) == c.uid # 0 /\ ~c.bootstrapped /\ c.uid \in booted

\* A Job's copy tells the operator how the Job ended, or that it has not.
Told(j) == IF j.state = "running" THEN [j EXCEPT !.state = "pending"] ELSE j
LiveJobs == [i \in Ordinals |-> Told(job[i])]

CachesInSync == cTbc = tbc /\ cMark = LiveMarks /\ cJob = LiveJobs

\* The last marker is only removed, by whomever, when the cluster, or the
\* copies a decision may still be taken from, no longer need it.
MarkersKept ==
    Marked' \/ /\ "StatusFirst" \in Assumed => ~Blind(tbc)
               /\ "CaughtUp" \in Assumed => ~Blind(cTbc) /\ ~Blind(me)

\* What is left of `ran` once some data file is gone.
RanAfter(files) == IF files = {} THEN {} ELSE ran

-----------------------------------------------------------------------------
(* Initially there is no cluster; volumes may have been restored from a    *)
(* backup, and replicas may have run on any of that data.                  *)

Init ==
    /\ tbc = NoCluster /\ cm = NoConfigMap /\ sts = 0
    /\ \E restored \in SUBSET Ordinals :
         /\ pvc = [i \in Ordinals |->
                IF i \in restored THEN [label |-> 0, state |-> "data"] ELSE NoClaim]
         /\ ran = IF restored = {} THEN {} ELSE Ordinals
    /\ job = [i \in Ordinals |-> NoJob]
    /\ pods = {} /\ running = {}
    /\ cTbc = NoCluster /\ cMark = [cm |-> FALSE, sts |-> FALSE, pods |-> FALSE]
    /\ cJob = job /\ queue = FALSE
    /\ pc = "idle" /\ me = NoCluster /\ orig = FALSE /\ scan = NewScan
    /\ booted = {} /\ formatted = {} /\ lastUid = 0
    /\ ops = 0 /\ faults = 0

-----------------------------------------------------------------------------
(* Reconcile *)

Goto(stage) == pc' = stage /\ scan' = NewScan

\* Leave reconcile(); the status patch is always still made.
Finish(outcome) == pc' = "patchStatus" /\ scan' = Ended(outcome)

Budget == ops + faults < MaxTotal
Fault == Budget /\ faults < MaxFaults /\ faults' = faults + 1 /\ UNCHANGED ops

\* The cached cluster is gone or is being deleted: nothing to do.
SkipReconcile ==
    /\ pc = "idle" /\ queue /\ (cTbc.uid = 0 \/ cTbc.deleting)
    /\ queue' = FALSE
    /\ UNCHANGED <<api, cTbc, cMark, cJob, rec, ghost, bound>>

BeginReconcile ==
    /\ pc = "idle" /\ queue /\ cTbc.uid # 0 /\ ~cTbc.deleting
    /\ queue' = FALSE
    /\ me' = cTbc /\ orig' = cTbc.bootstrapped
    /\ Goto("gateCached")
    /\ UNCHANGED <<api, cTbc, cMark, cJob, ghost, bound>>

\* ensureServices, where some Service has no address yet.
ServicesWait ==
    /\ pc = "gateCached"
    /\ Finish("waiting")
    /\ Fault
    /\ UNCHANGED <<api, cache, me, orig, ghost>>

\* Then isBootstrapped with the cached client: a marker there is believed.
GateCached ==
    /\ pc = "gateCached"
    /\ Goto(IF me.bootstrapped \/ cMark.cm \/ cMark.sts \/ cMark.pods
            THEN "applyMarked" ELSE "gateConfigMap")
    /\ UNCHANGED <<api, cache, me, orig, ghost, bound>>

\* isBootstrapped with the APIReader, one request at a time.
GateConfigMap_Bug ==            \* the live ConfigMap is not looked at
    /\ pc = "gateConfigMap"
    /\ Goto("gateStatefulSet")
    /\ UNCHANGED <<api, cache, me, orig, ghost, bound>>

GateConfigMap ==
    /\ pc = "gateConfigMap"
    /\ Goto(IF CmMarks THEN "applyMarked" ELSE "gateStatefulSet")
    /\ UNCHANGED <<api, cache, me, orig, ghost, bound>>

GateStatefulSet ==
    /\ pc = "gateStatefulSet"
    /\ Goto(IF sts # 0 THEN "applyMarked" ELSE "gatePods")
    /\ UNCHANGED <<api, cache, me, orig, ghost, bound>>

GatePods ==
    /\ pc = "gatePods"
    /\ Goto(IF pods # {} THEN "applyMarked" ELSE "applyUnmarked")
    /\ UNCHANGED <<api, cache, me, orig, ghost, bound>>

\* The ConfigMap of a cluster that is being bootstrapped carries no marker.
ApplyUnmarked ==
    /\ pc = "applyUnmarked"
    /\ cm' = [owner |-> me.uid, bootstrapped |-> FALSE]
    /\ Goto("getPVC")
    /\ UNCHANGED <<tbc, sts, pvc, job, pods, running, cache, me, orig, ghost, bound>>

\* A PVC that this cluster's bootstrap did not label.
IsForeign_Bug(i) == Exists(i) /\ pvc[i].label \notin {0, me.uid}
IsForeign(i) == Exists(i) /\ pvc[i].label # me.uid

JudgeClaims_FormatsAnyway(s) == Goto("createPVC")
JudgeClaims_AdoptsUnasked(s) == Goto(IF s.foreign THEN "applyMarked" ELSE "createPVC")

\* What bootstrap does about the PVCs it has seen.  Existing data is never
\* formatted, and is adopted only on request and only whole.
JudgeClaims(s) ==
    \/ s.foreign /\ (~me.adopt \/ s.missing) /\ Finish("stalled")
    \/ s.foreign /\ me.adopt /\ ~s.missing /\ Goto("applyMarked")
    \/ ~s.foreign /\ Goto("createPVC")

\* bootstrap: which data PVCs exist, and whose are they?
ClaimSeen == [k |-> scan.k + 1,
              missing |-> scan.missing \/ ~Exists(scan.k),
              foreign |-> scan.foreign \/ IsForeign(scan.k),
              succeeded |-> 0, failed |-> FALSE, doomed |-> {}, outcome |-> "none"]

GetPVC_Bug ==                   \* one ordinal too many
    /\ pc = "getPVC"
    /\ IF scan.k < N THEN pc' = pc /\ scan' = ClaimSeen ELSE JudgeClaims(ClaimSeen)
    /\ UNCHANGED <<api, cache, me, orig, ghost, bound>>

GetPVC ==
    /\ pc = "getPVC"
    /\ IF scan.k + 1 < N THEN pc' = pc /\ scan' = ClaimSeen ELSE JudgeClaims(ClaimSeen)
    /\ UNCHANGED <<api, cache, me, orig, ghost, bound>>

\* AlreadyExists is not an error: a PVC that is there is left as it is.
CreatePVC ==
    /\ pc = "createPVC"
    /\ pvc' = IF Exists(scan.k) THEN pvc
              ELSE [pvc EXCEPT ![scan.k] = [label |-> me.uid, state |-> "empty"]]
    /\ IF scan.k + 1 = N THEN Goto("formatJobs")
       ELSE pc' = pc /\ scan' = [scan EXCEPT !.k = @ + 1]
    /\ UNCHANGED <<tbc, cm, sts, job, pods, running, cache, me, orig, ghost, bound>>

JudgeJobs_OrFailed(s) ==
    IF s.failed \/ s.succeeded = N THEN Goto("applyMarked") ELSE Finish("formatting")
JudgeJobs_OffByOne(s) ==
    IF s.succeeded >= N - 1 THEN Goto("applyMarked") ELSE Finish("formatting")

\* What bootstrap does about the Jobs.  While some are unfinished nothing is
\* requeued: the watch on Jobs brings the operator back.
JudgeJobs(s) ==
    \/ s.failed /\ Finish("stalled")
    \/ ~s.failed /\ s.succeeded < N /\ Finish("formatting")
    \/ ~s.failed /\ s.succeeded = N /\ Goto("applyMarked")

\* jobCondition of the cached Job; whose Job it is does not matter.
Succeeded_AnyJob(i) == cJob[i].state # "none"
Succeeded(i) == cJob[i].state = "complete"

JobSeen == [k |-> scan.k + 1, missing |-> FALSE, foreign |-> FALSE,
            succeeded |-> IF Succeeded(scan.k) THEN scan.succeeded + 1 ELSE scan.succeeded,
            failed |-> scan.failed \/ cJob[scan.k].state = "failed",
            doomed |-> {}, outcome |-> "none"]

\* A Job missing from the cache is created (AlreadyExists again is not an
\* error) and not counted.
FormatJob ==
    /\ pc = "formatJobs"
    /\ job' = IF cJob[scan.k].state = "none" /\ job[scan.k].state = "none"
              THEN [job EXCEPT ![scan.k] = [owner |-> me.uid, state |-> "pending"]]
              ELSE job
    /\ IF scan.k + 1 < N THEN pc' = pc /\ scan' = JobSeen ELSE JudgeJobs(JobSeen)
    /\ UNCHANGED <<tbc, cm, sts, pvc, pods, running, cache, me, orig, ghost, bound>>

\* The marker is persisted before the StatefulSet exists.
ApplyMarked ==
    /\ pc = "applyMarked"
    /\ cm' = [owner |-> me.uid, bootstrapped |-> TRUE]
    /\ me' = [me EXCEPT !.bootstrapped = TRUE]
    /\ booted' = booted \union {me.uid}
    /\ Goto("applyStatefulSet")
    /\ UNCHANGED <<tbc, sts, pvc, job, pods, running, cache, orig,
                   ran, formatted, lastUid, bound>>

ApplyStatefulSet ==
    /\ pc = "applyStatefulSet"
    /\ sts' = me.uid
    /\ Goto("listJobs")
    /\ UNCHANGED <<tbc, cm, pvc, job, pods, running, cache, me, orig, ghost, bound>>

\* deleteFormatJobs: the cached Jobs this cluster controls are listed once, ...
ToDelete(i) == cJob[i].state # "none" /\ cJob[i].owner = me.uid

ListJobs ==
    /\ pc = "listJobs"
    /\ LET listed == {i \in Ordinals : ToDelete(i)} IN
       IF listed = {} THEN Finish("running")
       ELSE pc' = "deleteJobs" /\ scan' = [NewScan EXCEPT !.doomed = listed]
    /\ UNCHANGED <<api, cache, me, orig, ghost, bound>>

\* ... and deleted one by one, by name; one that is gone already is no error.
DeleteJobs ==
    /\ pc = "deleteJobs"
    /\ \E i \in scan.doomed :
         /\ job' = [job EXCEPT ![i] = NoJob]
         /\ IF scan.doomed = {i} THEN Finish("running")
            ELSE pc' = pc /\ scan' = [scan EXCEPT !.doomed = @ \ {i}]
    /\ UNCHANGED <<tbc, cm, sts, pvc, pods, running, cache, me, orig, ghost, bound>>

\* Is the cluster enqueued again when this call ends?
Requeue_Bug == scan.outcome \in {"waiting", "stalled"}
Requeue ==
    \/ tbc.uid = 0
    \/ scan.outcome \in {"waiting", "stalled", "error"}
    \/ scan.outcome = "running" /\ running # Ordinals

\* A merge patch against the copy that was read, addressed by name: it sets
\* bootstrapped only when this call learnt it.
PatchStatus ==
    /\ pc = "patchStatus"
    /\ tbc' = IF tbc.uid # 0 /\ me.bootstrapped /\ ~orig
              THEN [tbc EXCEPT !.bootstrapped = TRUE] ELSE tbc
    /\ queue' = (queue \/ Requeue)
    /\ me' = NoCluster /\ orig' = FALSE
    /\ Goto("idle")
    /\ UNCHANGED <<cm, sts, pvc, job, pods, running, cTbc, cMark, cJob, ghost, bound>>

StatusPatchFails ==
    /\ pc = "patchStatus"
    /\ queue' = TRUE
    /\ me' = NoCluster /\ orig' = FALSE
    /\ Goto("idle")
    /\ Fault
    /\ UNCHANGED <<api, cTbc, cMark, cJob, ghost>>

\* Any other call fails: reconcile returns its error.
ApiError ==
    /\ pc \notin {"idle", "patchStatus"}
    /\ Finish("error")
    /\ Fault
    /\ UNCHANGED <<api, cache, me, orig, ghost>>

Reconcile ==
    \/ SkipReconcile \/ BeginReconcile \/ ServicesWait
    \/ GateCached \/ GateConfigMap \/ GateStatefulSet \/ GatePods
    \/ ApplyUnmarked \/ GetPVC \/ CreatePVC \/ FormatJob
    \/ ApplyMarked \/ ApplyStatefulSet \/ ListJobs \/ DeleteJobs
    \/ PatchStatus \/ StatusPatchFails \/ ApiError

-----------------------------------------------------------------------------
(* The operator's process: informers, work queue, crashes *)

SyncCluster ==
    /\ cTbc # tbc
    /\ cTbc' = tbc /\ queue' = TRUE
    /\ UNCHANGED <<api, cMark, cJob, rec, ghost, bound>>

\* ConfigMap and StatefulSet events are watched and enqueue the cluster.
SyncConfigMap ==
    /\ cMark.cm # CmMarks
    /\ cMark' = [cMark EXCEPT !.cm = CmMarks] /\ queue' = TRUE
    /\ UNCHANGED <<api, cTbc, cJob, rec, ghost, bound>>

SyncStatefulSet ==
    /\ cMark.sts # (sts # 0)
    /\ cMark' = [cMark EXCEPT !.sts = (sts # 0)] /\ queue' = TRUE
    /\ UNCHANGED <<api, cTbc, cJob, rec, ghost, bound>>

\* Pods are cached because they are listed, but are not watched for.
SyncPods ==
    /\ cMark.pods # (pods # {})
    /\ cMark' = [cMark EXCEPT !.pods = (pods # {})]
    /\ UNCHANGED <<api, cTbc, cJob, queue, rec, ghost, bound>>

SyncJob(i) ==
    /\ cJob[i] # LiveJobs[i]
    /\ cJob' = [cJob EXCEPT ![i] = LiveJobs[i]] /\ queue' = TRUE
    /\ UNCHANGED <<api, cTbc, cMark, rec, ghost, bound>>

\* Anything else that enqueues the cluster: the periodic resync, a condition
\* that changed, an event of a Service.  (The queue is read when idle, so an
\* event during a reconcile is the same as one right after it.)
OtherEvent ==
    /\ pc = "idle" /\ ~queue /\ queue' = TRUE
    /\ UNCHANGED <<api, cTbc, cMark, cJob, rec, ghost, bound>>

\* The operator stops anywhere; the next one starts on a fresh cache.
Crash ==
    /\ pc # "idle"
    /\ cTbc' = tbc /\ cMark' = LiveMarks /\ cJob' = LiveJobs /\ queue' = TRUE
    /\ me' = NoCluster /\ orig' = FALSE
    /\ Goto("idle")
    /\ Fault
    /\ UNCHANGED <<api, ghost>>

Operator ==
    \/ SyncCluster \/ SyncConfigMap \/ SyncStatefulSet \/ SyncPods
    \/ \E i \in Ordinals : SyncJob(i)
    \/ OtherEvent \/ Crash

-----------------------------------------------------------------------------
(* Kubernetes and the pods                                                 *)

Note(i) == formatted' = formatted \union {i}

\* The Job controller starts the format pod once its volume can be mounted.
RunFormatPod(i) ==
    /\ job[i].state = "pending" /\ Exists(i)
    /\ job' = [job EXCEPT ![i].state = "running"]
    /\ UNCHANGED <<tbc, cm, sts, pvc, pods, running, cache, rec, ghost, bound>>

\* The init helper's format: an existing data file is left alone.
FormatWrites(i) ==
    /\ job[i].state = "running" /\ Exists(i) /\ ~HasFile(i)
    /\ pvc' = [pvc EXCEPT ![i].state = "formatted"]
    /\ Note(i)
    /\ UNCHANGED <<tbc, cm, sts, job, pods, running, cache, rec, ran, booted, lastUid, bound>>

JobCompletes(i) ==
    /\ job[i].state = "running" /\ HasFile(i)
    /\ job' = [job EXCEPT ![i].state = "complete"]
    /\ UNCHANGED <<tbc, cm, sts, pvc, pods, running, cache, rec, ghost, bound>>

\* Past its backoffLimit.
JobFails(i) ==
    /\ Unfinished(i)
    /\ job' = [job EXCEPT ![i].state = "failed"]
    /\ Fault
    /\ UNCHANGED <<tbc, cm, sts, pvc, pods, running, cache, rec, ghost>>

\* The StatefulSet controller; its volumeClaimTemplate has no bootstrap-uid.
StsCreatesPod(i) ==
    /\ sts # 0 /\ i \notin pods
    /\ pods' = pods \union {i}
    /\ pvc' = IF Exists(i) THEN pvc
              ELSE [pvc EXCEPT ![i] = [label |-> 0, state |-> "empty"]]
    /\ UNCHANGED <<tbc, cm, sts, job, running, cache, rec, ghost, bound>>

ReplicaStarts(i) ==
    /\ i \in pods \ running /\ HasFile(i)
    /\ running' = running \union {i}
    /\ ran' = ran \union {i}
    /\ pvc' = [pvc EXCEPT ![i].state = "data"]
    /\ UNCHANGED <<tbc, cm, sts, job, pods, cache, rec, booted, formatted, lastUid, bound>>

\* The recover init container: never a format, and out of all the others.
ReplicaRecovers(i) ==
    /\ i \in pods \ running /\ ~HasFile(i)
    /\ N > 1 /\ Ordinals \ {i} \subseteq running
    /\ pvc' = [pvc EXCEPT ![i].state = "data"]
    /\ Note(i)
    /\ UNCHANGED <<tbc, cm, sts, job, pods, running, cache, rec, ran, booted, lastUid, bound>>

\* A pod without its StatefulSet ends; with it, it may be evicted.
PodGone(i) ==
    /\ i \in pods
    /\ pods' = pods \ {i} /\ running' = running \ {i}
    /\ IF sts = 0 THEN UNCHANGED bound ELSE Fault
    /\ UNCHANGED <<tbc, cm, sts, pvc, job, cache, rec, ghost>>
    /\ MarkersKept

\* The volume is lost with its node and comes back empty.
VolumeLost(i) ==
    /\ HasFile(i) /\ i \notin running /\ job[i].state # "running"
    /\ pvc' = [pvc EXCEPT ![i].state = "empty"]
    /\ ran' = RanAfter(Files \ {i})
    /\ Fault
    /\ UNCHANGED <<tbc, cm, sts, job, pods, running, cache, rec, booted, formatted, lastUid>>

\* An object that goes before the cache ever showed it is still an event: the
\* informer delivers its creation and its deletion.
Deleted(cached) == queue' = (queue \/ ~cached)

\* The garbage collector removes what a deleted cluster owned.
Orphaned(owner) == owner # 0 /\ (owner # tbc.uid \/ tbc.deleting)

GcConfigMap ==
    /\ Orphaned(cm.owner)
    /\ cm' = NoConfigMap
    /\ Deleted(cMark.cm)
    /\ UNCHANGED <<tbc, sts, pvc, job, pods, running, cTbc, cMark, cJob, rec, ghost, bound>>
    /\ MarkersKept

GcStatefulSet ==
    /\ Orphaned(sts)
    /\ sts' = 0
    /\ Deleted(cMark.sts)
    /\ UNCHANGED <<tbc, cm, pvc, job, pods, running, cTbc, cMark, cJob, rec, ghost, bound>>
    /\ MarkersKept

GcJob(i) ==
    /\ Orphaned(job[i].owner)
    /\ job' = [job EXCEPT ![i] = NoJob]
    /\ Deleted(cJob[i].state # "none")
    /\ UNCHANGED <<tbc, cm, sts, pvc, pods, running, cTbc, cMark, cJob, rec, ghost, bound>>

\* A foreground deletion ends when nothing is owned any more.
FinishDelete ==
    /\ tbc.deleting
    /\ tbc.uid \notin {cm.owner, sts} \union {job[i].owner : i \in Ordinals}
    /\ tbc' = NoCluster
    /\ UNCHANGED <<cm, sts, pvc, job, pods, running, cache, rec, ghost, bound>>

Kubernetes ==
    \/ \E i \in Ordinals :
         \/ RunFormatPod(i) \/ FormatWrites(i) \/ JobCompletes(i) \/ JobFails(i)
         \/ StsCreatesPod(i) \/ ReplicaStarts(i) \/ ReplicaRecovers(i)
         \/ PodGone(i) \/ VolumeLost(i) \/ GcJob(i)
    \/ GcConfigMap \/ GcStatefulSet \/ FinishDelete

-----------------------------------------------------------------------------
(* Users *)

UserOp == Budget /\ ops < MaxUserOps /\ ops' = ops + 1 /\ UNCHANGED faults

CreateCluster(adopt) ==
    /\ tbc.uid = 0 /\ lastUid < MaxUid
    /\ "CaughtUp" \in Assumed => CachesInSync /\ pc = "idle"
    /\ "JobsCollected" \in Assumed => job = [i \in Ordinals |-> NoJob] /\ cJob = job
    /\ "MarkersCollected" \in Assumed =>
         cm = NoConfigMap /\ sts = 0 /\ pods = {} /\ cMark = LiveMarks
    /\ lastUid' = lastUid + 1
    /\ tbc' = [uid |-> lastUid + 1, bootstrapped |-> FALSE, adopt |-> adopt,
               deleting |-> FALSE]
    /\ formatted' = Files
    /\ UNCHANGED <<cm, sts, pvc, job, pods, running, cache, rec, ran, booted, bound>>

\* The adopt-existing-data annotation is set.
AnnotateAdopt ==
    /\ tbc.uid # 0 /\ ~tbc.adopt
    /\ tbc' = [tbc EXCEPT !.adopt = TRUE]
    /\ UserOp
    /\ UNCHANGED <<cm, sts, pvc, job, pods, running, cache, rec, ghost>>

\* In the background, or waiting for its dependents.  The last cluster stays.
DeleteCluster ==
    /\ tbc.uid # 0 /\ ~tbc.deleting /\ tbc.uid < MaxUid
    /\ tbc' \in {NoCluster, [tbc EXCEPT !.deleting = TRUE]}
    /\ UserOp
    /\ UNCHANGED <<cm, sts, pvc, job, pods, running, cache, rec, ghost>>

DeleteConfigMap ==
    /\ cm.owner # 0
    /\ cm' = NoConfigMap
    /\ UserOp
    /\ Deleted(cMark.cm)
    /\ UNCHANGED <<tbc, sts, pvc, job, pods, running, cTbc, cMark, cJob, rec, ghost>>
    /\ MarkersKept

\* With or without --cascade=orphan: its pods may stay for as long as they like.
DeleteStatefulSet ==
    /\ sts # 0
    /\ sts' = 0
    /\ UserOp
    /\ Deleted(cMark.sts)
    /\ UNCHANGED <<tbc, cm, pvc, job, pods, running, cTbc, cMark, cJob, rec, ghost>>
    /\ MarkersKept

\* What the Stalled condition asks for after a failed Job.
DeleteJob(i) ==
    /\ job[i].state # "none"
    /\ job' = [job EXCEPT ![i] = NoJob]
    /\ UserOp
    /\ Deleted(cJob[i].state # "none")
    /\ UNCHANGED <<tbc, cm, sts, pvc, pods, running, cTbc, cMark, cJob, rec, ghost>>

DeletePVC(i) ==
    /\ Exists(i) /\ ~InUse(i)
    /\ pvc' = [pvc EXCEPT ![i] = NoClaim]
    /\ ran' = RanAfter(Files \ {i})
    /\ UserOp
    /\ UNCHANGED <<tbc, cm, sts, job, pods, running, cache, rec, booted, formatted, lastUid>>

\* A PVC with the data of an older cluster appears under the replica's name.
RestoreVolume(i) ==
    /\ ~Exists(i)
    /\ "RestoreFirst" \in Assumed =>
         /\ tbc.uid = 0 /\ cTbc.uid = 0 /\ pc = "idle"
         /\ \A j \in Ordinals : job[j].state = "none"
    /\ pvc' = [pvc EXCEPT ![i] = [label |-> 0, state |-> "data"]]
    /\ ran' = Ordinals
    /\ UserOp
    /\ UNCHANGED <<tbc, cm, sts, job, pods, running, cache, rec, booted, formatted, lastUid>>

Users ==
    \/ \E adopt \in BOOLEAN : CreateCluster(adopt)
    \/ AnnotateAdopt \/ DeleteCluster \/ DeleteConfigMap \/ DeleteStatefulSet
    \/ \E i \in Ordinals : DeleteJob(i) \/ DeletePVC(i) \/ RestoreVolume(i)

-----------------------------------------------------------------------------

Next == Reconcile \/ Operator \/ Kubernetes \/ Users

Spec == Init /\ [][Next]_vars

\* The work queue's only worker keeps going; so do the informers, the garbage
\* collector, and the controllers with their pods, each group as a whole.
\* Users, faults and the events of OtherEvent owe nothing.
Fairness ==
    /\ WF_vars(Reconcile)
    /\ WF_vars(\/ SyncCluster \/ SyncConfigMap \/ SyncStatefulSet \/ SyncPods
               \/ \E i \in Ordinals : SyncJob(i))
    /\ WF_vars(\/ GcConfigMap \/ GcStatefulSet \/ FinishDelete
               \/ \E i \in Ordinals : GcJob(i))
    /\ WF_vars(\E i \in Ordinals :
                 \/ RunFormatPod(i) \/ FormatWrites(i) \/ JobCompletes(i)
                 \/ StsCreatesPod(i) \/ ReplicaStarts(i) \/ ReplicaRecovers(i))

FairSpec == Spec /\ Fairness

-----------------------------------------------------------------------------
(* Safety *)

\* The bootstrap phase: from the gate's last answer to the end of the Jobs.
Unmarked == pc \in {"applyUnmarked", "getPVC", "createPVC", "formatJobs"}

\* An already bootstrapped cluster never looks new: no reconcile gets past the
\* gate (isBootstrapped, cached and live) for a cluster whose marker was ever
\* written, however stale its copy and whatever markers have since gone.
GateSound == Unmarked => me.uid \notin booted

\* No format Job is still to run or running while a StatefulSet or replica
\* pods exist: formatting ends before replicas may start (reconcile, 166-182).
NoFormatJobBesideReplicas ==
    (\E i \in Ordinals : Unfinished(i)) => sts = 0 /\ pods = {}

\* A format Job is only ever given a PVC that this bootstrap made, or none
\* (bootstrap: "refuses to touch PVCs that this TigerBeetleCluster did not
\* create").
RefusesForeignPVCs == [][
    \A i \in Ordinals :
        job[i].state = "none" /\ job'[i].state = "pending" /\ Exists(i)
            => pvc[i].label = me.uid ]_vars

\* status.bootstrapped means that every replica has been formatted, unless the
\* cluster was told to adopt data: a data file has existed for each of them in
\* the life of this very cluster object (types.go).
BootstrappedMeansFormatted ==
    tbc.bootstrapped /\ ~tbc.adopt => formatted = Ordinals

\* What is promised about the data files: a file is formatted only for a
\* replica that has not run on the data that is still there.
Content == [i \in Ordinals |-> IF HasFile(i) THEN pvc[i].state ELSE "none"]
Data == INSTANCE ReplicaData WITH file <- Content, ran <- ran
DataSafe == Data!Spec

-----------------------------------------------------------------------------
(* Liveness *)

Settled ==
    /\ tbc.bootstrapped /\ running = Ordinals /\ sts = tbc.uid
    /\ \A i \in Ordinals : job[i].state = "none"

\* What only a user can end: there is no cluster, a Job failed, there is data
\* the cluster may not use, or a lost replica cannot be rebuilt.
NeedsUser ==
    \/ tbc.uid = 0 \/ tbc.deleting
    \/ \E i \in Ordinals : job[i].state = "failed"
    \/ /\ ~tbc.bootstrapped
       /\ \E i \in Ordinals : Exists(i) /\ pvc[i].label # tbc.uid
       /\ ~tbc.adopt \/ \E i \in Ordinals : ~Exists(i)
    \/ \E i \in Ordinals : tbc.bootstrapped /\ ~HasFile(i) /\ Files # Ordinals \ {i}
    \/ N = 1 /\ tbc.bootstrapped /\ Files = {}

\* A PVC that vanishes under a Job nobody has scheduled yet: PVCs are not
\* watched and a reconcile that waits for Jobs is not repeated, so only an
\* unrelated event brings the PVC back.
WaitsForEvent == \E i \in Ordinals : job[i].state = "pending" /\ ~Exists(i)

\* Once users and faults leave the cluster alone, its bootstrap comes to an
\* end: no wake-up of the operator is lost between two reconciles (bootstrap
\* returns without a requeue and relies on the watches of SetupWithManager).
BootstrapSettles == <>[](Settled \/ NeedsUser \/ WaitsForEvent)
=============================================================================
