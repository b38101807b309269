--------------------------- MODULE BootstrapSafety ---------------------------
(***************************************************************************)
(* More proofs about Bootstrap, for any number of replicas and any bounds: *)
(* formatting is over before replicas run, volumes of others are not       *)
(* formatted, status.bootstrapped tells the truth, and Bootstrap           *)
(* implements ReplicaData.  All but the second rest on one inductive       *)
(* invariant (SafeInv) and on everything that is assumed of users and of   *)
(* the informers' lag; the second needs less of both (ClaimsKnown).        *)
(***************************************************************************)
EXTENDS BootstrapProofs

-----------------------------------------------------------------------------
(* The inductive invariant *)

\* The last cluster's bootstrap was not completed yet.
Unbooted == lastUid \notin booted

\* The markers are the last cluster's own: before its bootstrap is completed
\* nothing, live or cached, says that it was.
MarkersTrue ==
    /\ tbc.uid = 0 => tbc = NoCluster
    /\ Unbooted =>
         /\ ~Marked /\ ~cMark.cm /\ ~cMark.sts /\ ~cMark.pods
         /\ ~tbc.bootstrapped /\ ~cTbc.bootstrapped /\ ~me.bootstrapped
    /\ pc \in {"applyStatefulSet", "listJobs", "deleteJobs"} => ~Unbooted

\* A Job that the cache shows complete does not run again: it is created anew
\* only once the cache shows that it is gone.
JobsStayDone == \A i \in Ordinals :
    cJob[i].state = "complete" => job[i].state \in {"complete", "none"}

\* When the operator may mark the cluster, no Job is unfinished; the loop over
\* the Jobs establishes it one by one, and who adopts has not begun to format.
FormattingOver ==
    /\ ~Unbooted \/ pc = "applyMarked" => \A i \in Ordinals : ~Unfinished(i)
    /\ pc = "formatJobs" /\ scan.succeeded = scan.k =>
         \A i \in Ordinals : i < scan.k => ~Unfinished(i)
    /\ pc = "getPVC" /\ scan.foreign => \A i \in Ordinals : job[i].state = "none"

\* Somebody still acts for the last cluster, ...
Attached ==
    \/ tbc.uid # 0 \/ cTbc.uid # 0 \/ pc # "idle"
    \/ \E i \in Ordinals : job[i].state # "none"

\* ... and its bootstrap has made something already, or is about to.
Begun ==
    \/ pc \in {"createPVC", "formatJobs"}
    \/ \E i \in Ordinals : \/ job[i].state # "none"
                           \/ Exists(i) /\ pvc[i].label = lastUid

\* A bootstrap that has begun is alone: all claims are its own, and no replica
\* has run on what they hold.
BootstrapAlone ==
    /\ \A i \in Ordinals : pvc[i].label <= lastUid
    /\ Attached /\ Unbooted /\ Begun =>
         /\ \A i \in Ordinals : Exists(i) => pvc[i].label = lastUid
         /\ ran = {}
    /\ pc = "getPVC" /\ ~scan.foreign =>
         \A i \in Ordinals : i < scan.k => ~IsForeign(i)

\* The history fits the volumes.
RanFits ==
    /\ Files = {} => ran = {}
    /\ \A i \in running : i \in ran /\ pvc[i].state = "data"

SafeInv ==
    /\ GateInv /\ MarkersTrue /\ JobsStayDone /\ FormattingOver
    /\ BootstrapAlone /\ RanFits

\* While the cluster exists, what is complete has been formatted in its life, and
\* adoption, once asked for, stays so.
FormattedFits ==
    tbc.uid # 0 =>
      /\ Files \subseteq formatted
      /\ cTbc.adopt \/ me.adopt => tbc.adopt
      /\ \A i \in Ordinals :
           job[i].state = "complete" \/ cJob[i].state = "complete" => i \in formatted
      /\ pc = "formatJobs" /\ scan.succeeded = scan.k =>
           \A i \in Ordinals : i < scan.k => i \in formatted
      /\ ~tbc.adopt /\ (~Unbooted \/ pc = "applyMarked") => formatted = Ordinals

\* All that is assumed of users and of the informers' lag.
AllAssumed ==
    {"StatusFirst", "CaughtUp", "JobsCollected", "MarkersCollected", "RestoreFirst"}
        \subseteq Assumed

-----------------------------------------------------------------------------
(* Lemmas *)

\* Whoever acts, acts for the last cluster, and in the bootstrap phase for one
\* whose bootstrap was not completed.
LEMMA ActsForLast ==
    ASSUME GateInv
    PROVE  /\ tbc.uid \in {0, lastUid} /\ cTbc.uid \in {0, lastUid}
           /\ pc # "idle" => me.uid = lastUid /\ me.uid # 0
           /\ pc = "idle" => me = NoCluster
           /\ Unmarked => Unbooted
           /\ lastUid + 1 \notin booted
<1>1. lastUid \in Int
  BY BoundsAssumption DEF GateInv, Types, TypeOK, Uids
<1>2. QED
  BY <1>1 DEF GateInv, CopiesRecent, GateSound, Unbooted, Unmarked

\* The absent objects, and a Job as the operator is told of it.
LEMMA Absent ==
    /\ NoCluster.uid = 0 /\ ~NoCluster.bootstrapped /\ ~NoCluster.adopt
    /\ NoJob.state = "none" /\ NoClaim.state = "absent" /\ NoConfigMap.owner = 0
    /\ ~NoConfigMap.bootstrapped
    /\ \A j \in Jobs : \A s \in {"none", "complete", "failed"} :
         Told(j).state = s <=> j.state = s
  BY DEF NoCluster, NoJob, NoClaim, NoConfigMap, Told, Jobs

\* What is written to a volume, and what a claim that is made, changes.
LEMMA StateChange ==
    ASSUME Types, NEW i \in Ordinals, NEW s, pvc' = [pvc EXCEPT ![i].state = s]
    PROVE  /\ \A j \in Ordinals : pvc'[j].label = pvc[j].label
           /\ \A j \in Ordinals \ {i} : pvc'[j] = pvc[j]
           /\ pvc'[i].state = s
  BY DEF Types, TypeOK, Claims

\* The same of a claim that is made or removed.
LEMMA ClaimChange ==
    ASSUME Types, NEW i \in Ordinals, NEW c, pvc' = [pvc EXCEPT ![i] = c]
    PROVE  pvc'[i] = c /\ \A j \in Ordinals \ {i} : pvc'[j] = pvc[j]
  BY DEF Types, TypeOK

-----------------------------------------------------------------------------
(* MarkersTrue *)

\* Before the first cluster there is no marker.
LEMMA MarkersInit == Init => MarkersTrue
  BY Absent DEF Init, MarkersTrue, Unbooted, Marked, CmMarks

\* Steps that leave the markers, live and cached, and the cluster alone.
LEMMA MarkersFrame ==
    ASSUME SafeInv, UNCHANGED <<tbc, cTbc, cMark, booted, lastUid>>,
           me' \in {me, cTbc, NoCluster},
           cm' = cm \/ ~cm'.bootstrapped, sts' \in {sts, 0}, pods' \subseteq pods,
           pc' = pc \/ pc' \notin {"applyStatefulSet", "listJobs", "deleteJobs"}
    PROVE  MarkersTrue'
  BY Absent DEF SafeInv, MarkersTrue, Unbooted, Marked, CmMarks

\* Nobody marks the cluster but ApplyMarked.
LEMMA MarkersNext ==
    ASSUME AllAssumed, SafeInv, Next
    PROVE  MarkersTrue'
<1> USE ActsForLast, Absent DEF SafeInv
<1>1. ASSUME Reconcile PROVE MarkersTrue'
  <2>1. CASE SkipReconcile \/ BeginReconcile \/ ServicesWait \/ ApiError
    BY <2>1, MarkersFrame DEF SkipReconcile, BeginReconcile, ServicesWait, ApiError,
                              Goto, Finish, api, cache, rec, ghost
  <2>2. CASE GateCached \/ GateConfigMap \/ GateStatefulSet \/ GatePods \/ GetPVC
    BY <2>2, MarkersFrame DEF GateCached, GateConfigMap, GateStatefulSet, GatePods,
                              GetPVC, JudgeClaims, Goto, Finish, api, cache, ghost
  <2>3. CASE ApplyUnmarked \/ CreatePVC \/ FormatJob
    BY <2>3, MarkersFrame DEF ApplyUnmarked, CreatePVC, FormatJob, JudgeJobs,
                              Goto, Finish, cache, ghost
  <2>4. CASE ApplyMarked \/ ApplyStatefulSet
    BY <2>4 DEF ApplyMarked, ApplyStatefulSet, MarkersTrue, Unbooted, Goto, cache, ghost
  <2>5. CASE ListJobs \/ DeleteJobs
    <3>1. ~Unbooted
      BY <2>5 DEF ListJobs, DeleteJobs, MarkersTrue
    <3>2. UNCHANGED <<tbc, booted, lastUid>>
      BY <2>5 DEF ListJobs, DeleteJobs, api, ghost
    <3>3. QED
      BY <3>1, <3>2 DEF MarkersTrue, Unbooted
  <2>6. CASE PatchStatus
    BY <2>6 DEF PatchStatus, MarkersTrue, Unbooted, Marked, CmMarks, Goto, ghost
  <2>7. CASE StatusPatchFails
    BY <2>7, MarkersFrame DEF StatusPatchFails, Goto, api, ghost
  <2>8. QED
    BY <1>1, <2>1, <2>2, <2>3, <2>4, <2>5, <2>6, <2>7 DEF Reconcile
<1>2. ASSUME Operator PROVE MarkersTrue'
  <2>1. CASE SyncCluster \/ SyncConfigMap \/ SyncStatefulSet \/ SyncPods \/ Crash
    BY <2>1 DEF SyncCluster, SyncConfigMap, SyncStatefulSet, SyncPods, Crash, Goto,
                LiveMarks, MarkersTrue, Unbooted, Marked, CmMarks, api, rec, ghost,
                GateInv, Types, TypeOK, Marks
  <2>2. CASE OtherEvent
    BY <2>2, MarkersFrame DEF OtherEvent, api, rec, ghost
  <2>3. ASSUME NEW i \in Ordinals, SyncJob(i) PROVE MarkersTrue'
    BY <2>3, MarkersFrame DEF SyncJob, api, rec, ghost
  <2>4. QED
    BY <1>2, <2>1, <2>2, <2>3 DEF Operator
<1>3. ASSUME Kubernetes PROVE MarkersTrue'
  <2> USE DEF cache, rec, ghost
  <2>1. ASSUME NEW i \in Ordinals,
               \/ RunFormatPod(i) \/ FormatWrites(i) \/ JobCompletes(i) \/ JobFails(i)
               \/ ReplicaStarts(i) \/ ReplicaRecovers(i) \/ VolumeLost(i) \/ GcJob(i)
               \/ PodGone(i)
        PROVE  MarkersTrue'
    BY <2>1, MarkersFrame DEF RunFormatPod, FormatWrites, JobCompletes, JobFails,
                              ReplicaStarts, ReplicaRecovers, VolumeLost, GcJob, PodGone
  <2>2. ASSUME NEW i \in Ordinals, StsCreatesPod(i) PROVE MarkersTrue'
    BY <2>2 DEF StsCreatesPod, MarkersTrue, Unbooted, Marked
  <2>3. CASE GcConfigMap \/ GcStatefulSet
    BY <2>3, MarkersFrame DEF GcConfigMap, GcStatefulSet
  <2>4. CASE FinishDelete
    BY <2>4 DEF FinishDelete, MarkersTrue, Unbooted, Marked, CmMarks
  <2>5. QED
    BY <1>3, <2>1, <2>2, <2>3, <2>4 DEF Kubernetes
<1>4. ASSUME Users PROVE MarkersTrue'
  <2> USE DEF cache, rec, ghost
  <2>1. ASSUME NEW adopt \in BOOLEAN, CreateCluster(adopt) PROVE MarkersTrue'
    <3>1. /\ cm = NoConfigMap /\ sts = 0 /\ pods = {} /\ cMark = LiveMarks
          /\ cTbc = NoCluster /\ me = NoCluster /\ pc = "idle"
      BY <2>1 DEF CreateCluster, CachesInSync, AllAssumed, MarkersTrue
    <3>2. ~Marked' /\ ~cMark'.cm /\ ~cMark'.sts /\ ~cMark'.pods
      BY <2>1, <3>1 DEF CreateCluster, Marked, CmMarks, LiveMarks
    <3>3. tbc'.uid # 0 /\ ~tbc'.bootstrapped
      BY <2>1, BoundsAssumption DEF CreateCluster, GateInv, Types, TypeOK, Uids
    <3>4. QED
      BY <2>1, <3>1, <3>2, <3>3 DEF CreateCluster, MarkersTrue
  <2>2. CASE AnnotateAdopt \/ DeleteCluster
    BY <2>2 DEF AnnotateAdopt, DeleteCluster, MarkersTrue, Unbooted, Marked, CmMarks,
                GateInv, Types, TypeOK, Clusters
  <2>3. CASE DeleteConfigMap \/ DeleteStatefulSet
    BY <2>3, MarkersFrame DEF DeleteConfigMap, DeleteStatefulSet
  <2>4. ASSUME NEW i \in Ordinals, DeleteJob(i) \/ DeletePVC(i) \/ RestoreVolume(i)
        PROVE  MarkersTrue'
    BY <2>4, MarkersFrame DEF DeleteJob, DeletePVC, RestoreVolume
  <2>5. QED
    BY <1>4, <2>1, <2>2, <2>3, <2>4 DEF Users
<1>5. QED
  BY <1>1, <1>2, <1>3, <1>4 DEF Next

-----------------------------------------------------------------------------
(* JobsStayDone *)

\* Initially there are no Jobs.
LEMMA JobsInit == Init => JobsStayDone
  BY Absent DEF Init, JobsStayDone

\* Steps that leave the Jobs alone, live and cached.
LEMMA JobsFrame ==
    ASSUME SafeInv, UNCHANGED <<job, cJob>>
    PROVE  JobsStayDone'
  BY DEF SafeInv, JobsStayDone

\* A Job that is done is deleted or stays as it is.
LEMMA JobsNext ==
    ASSUME SafeInv, Next
    PROVE  JobsStayDone'
<1> USE Absent DEF SafeInv, GateInv, Types, TypeOK
<1>1. ASSUME Reconcile PROVE JobsStayDone'
  <2>1. CASE FormatJob
    BY <2>1 DEF FormatJob, JobsStayDone, cache
  <2>2. CASE DeleteJobs
    BY <2>2 DEF DeleteJobs, JobsStayDone, cache
  <2>3. CASE ~FormatJob /\ ~DeleteJobs
    BY <1>1, <2>3, JobsFrame
       DEF Reconcile, SkipReconcile, BeginReconcile, ServicesWait, ApiError, GateCached,
           GateConfigMap, GateStatefulSet, GatePods, GetPVC, ApplyUnmarked, CreatePVC,
           ApplyMarked, ApplyStatefulSet, ListJobs, PatchStatus, StatusPatchFails, api, cache
  <2>4. QED
    BY <2>1, <2>2, <2>3
<1>2. ASSUME Operator PROVE JobsStayDone'
  <2>1. CASE SyncCluster \/ SyncConfigMap \/ SyncStatefulSet \/ SyncPods \/ OtherEvent
    BY <2>1, JobsFrame DEF SyncCluster, SyncConfigMap, SyncStatefulSet, SyncPods,
                           OtherEvent, api
  <2>2. CASE Crash
    BY <2>2 DEF Crash, LiveJobs, JobsStayDone, api
  <2>3. ASSUME NEW i \in Ordinals, SyncJob(i) PROVE JobsStayDone'
    BY <2>3 DEF SyncJob, LiveJobs, JobsStayDone, api
  <2>4. QED
    BY <1>2, <2>1, <2>2, <2>3 DEF Operator
<1>3. ASSUME Kubernetes PROVE JobsStayDone'
  <2> USE DEF cache
  <2>1. ASSUME NEW i \in Ordinals,
               RunFormatPod(i) \/ JobCompletes(i) \/ JobFails(i) \/ GcJob(i)
        PROVE  JobsStayDone'
    BY <2>1 DEF RunFormatPod, JobCompletes, JobFails, GcJob, Unfinished, JobsStayDone
  <2>2. ASSUME NEW i \in Ordinals,
               \/ FormatWrites(i) \/ StsCreatesPod(i) \/ ReplicaStarts(i)
               \/ ReplicaRecovers(i) \/ PodGone(i) \/ VolumeLost(i)
        PROVE  JobsStayDone'
    BY <2>2, JobsFrame DEF FormatWrites, StsCreatesPod, ReplicaStarts, ReplicaRecovers,
                           PodGone, VolumeLost
  <2>3. CASE GcConfigMap \/ GcStatefulSet \/ FinishDelete
    BY <2>3, JobsFrame DEF GcConfigMap, GcStatefulSet, FinishDelete
  <2>4. QED
    BY <1>3, <2>1, <2>2, <2>3 DEF Kubernetes
<1>4. ASSUME Users PROVE JobsStayDone'
  <2> USE DEF cache
  <2>1. ASSUME NEW adopt \in BOOLEAN, CreateCluster(adopt) PROVE JobsStayDone'
    BY <2>1, JobsFrame DEF CreateCluster
  <2>2. CASE AnnotateAdopt \/ DeleteCluster \/ DeleteConfigMap \/ DeleteStatefulSet
    BY <2>2, JobsFrame DEF AnnotateAdopt, DeleteCluster, DeleteConfigMap, DeleteStatefulSet
  <2>3. ASSUME NEW i \in Ordinals, DeletePVC(i) \/ RestoreVolume(i) PROVE JobsStayDone'
    BY <2>3, JobsFrame DEF DeletePVC, RestoreVolume
  <2>4. ASSUME NEW i \in Ordinals, DeleteJob(i) PROVE JobsStayDone'
    BY <2>4 DEF DeleteJob, JobsStayDone
  <2>5. QED
    BY <1>4, <2>1, <2>2, <2>3, <2>4 DEF Users
<1>5. QED
  BY <1>1, <1>2, <1>3, <1>4 DEF Next

-----------------------------------------------------------------------------
(* Nobody but FormatJob starts a Job *)

JobsShrink == \A i \in Ordinals :
    /\ job[i].state = "none" => job'[i].state = "none"
    /\ Unfinished(i)' => Unfinished(i)

\* A Job is created by FormatJob alone; all others let it go on, end it or delete it.
LEMMA OnlyFormatJob ==
    ASSUME Types, Next
    PROVE  FormatJob \/ JobsShrink
<1> USE Absent DEF Types, TypeOK
<1>0. UNCHANGED job => JobsShrink
  BY DEF JobsShrink, Unfinished
<1>1. ASSUME Reconcile PROVE FormatJob \/ JobsShrink
  <2>1. CASE DeleteJobs
    BY <2>1 DEF DeleteJobs, JobsShrink, Unfinished
  <2>2. CASE ~FormatJob /\ ~DeleteJobs
    BY <1>0, <1>1, <2>2
       DEF Reconcile, SkipReconcile, BeginReconcile, ServicesWait, ApiError, GateCached,
           GateConfigMap, GateStatefulSet, GatePods, GetPVC, ApplyUnmarked, CreatePVC,
           ApplyMarked, ApplyStatefulSet, ListJobs, PatchStatus, StatusPatchFails, api
  <2>3. QED
    BY <2>1, <2>2
<1>2. ASSUME Operator PROVE JobsShrink
  BY <1>0, <1>2 DEF Operator, SyncCluster, SyncConfigMap, SyncStatefulSet, SyncPods,
                    SyncJob, OtherEvent, Crash, api
<1>3. ASSUME Kubernetes PROVE JobsShrink
  <2>1. ASSUME NEW i \in Ordinals,
               RunFormatPod(i) \/ JobCompletes(i) \/ JobFails(i) \/ GcJob(i)
        PROVE  JobsShrink
    BY <2>1 DEF RunFormatPod, JobCompletes, JobFails, GcJob, JobsShrink, Unfinished
  <2>2. ASSUME NEW i \in Ordinals,
               \/ FormatWrites(i) \/ StsCreatesPod(i) \/ ReplicaStarts(i)
               \/ ReplicaRecovers(i) \/ PodGone(i) \/ VolumeLost(i)
        PROVE  JobsShrink
    BY <1>0, <2>2 DEF FormatWrites, StsCreatesPod, ReplicaStarts, ReplicaRecovers,
                      PodGone, VolumeLost
  <2>3. CASE GcConfigMap \/ GcStatefulSet \/ FinishDelete
    BY <1>0, <2>3 DEF GcConfigMap, GcStatefulSet, FinishDelete
  <2>4. QED
    BY <1>3, <2>1, <2>2, <2>3 DEF Kubernetes
<1>4. ASSUME Users PROVE JobsShrink
  <2>1. ASSUME NEW i \in Ordinals, DeleteJob(i) PROVE JobsShrink
    BY <2>1 DEF DeleteJob, JobsShrink, Unfinished
  <2>2. CASE ~\E i \in Ordinals : DeleteJob(i)
    BY <1>0, <1>4, <2>2 DEF Users, CreateCluster, AnnotateAdopt, DeleteCluster,
           DeleteConfigMap, DeleteStatefulSet, DeletePVC, RestoreVolume
  <2>3. QED
    BY <2>1, <2>2
<1>5. QED
  BY <1>1, <1>2, <1>3, <1>4 DEF Next

-----------------------------------------------------------------------------
(* FormattingOver *)

\* Initially there are no Jobs.
LEMMA OverInit == Init => FormattingOver
  BY Absent DEF Init, FormattingOver, Unfinished

\* Steps that start no Job, mark nothing and leave the loops alone, or start one
\* from the beginning.
LEMMA OverFrame ==
    ASSUME SafeInv, UNCHANGED <<booted, lastUid>>, JobsShrink,
           \/ UNCHANGED <<pc, scan>>
           \/ \E s \in {"gateCached", "gateConfigMap", "gateStatefulSet", "gatePods",
                        "applyUnmarked", "getPVC", "createPVC", "formatJobs",
                        "applyStatefulSet", "listJobs", "deleteJobs", "idle"} : Goto(s)
           \/ pc' \in {"createPVC", "deleteJobs", "patchStatus"}
    PROVE  FormattingOver'
<1>1. \A i \in Ordinals : ~(i < 0)
  BY NAssumption DEF Ordinals
<1>2. QED
  BY <1>1 DEF SafeInv, FormattingOver, JobsShrink, Unbooted, Goto, NewScan, Ended

\* The loop over the claims: who sees a claim of somebody else has no Jobs.
LEMMA OverGetPVC ==
    ASSUME SafeInv, GetPVC
    PROVE  FormattingOver'
<1> USE ActsForLast DEF SafeInv
<1>1. pc = "getPVC" /\ Unbooted /\ Attached /\ me.uid = lastUid
  BY DEF GetPVC, Unmarked, Attached
<1>2. scan.k \in Ordinals
  BY <1>1, NAssumption DEF GateInv, Types, TypeOK, IndexOK, Scans, Ordinals
<1>3. ClaimSeen.foreign => \A i \in Ordinals : job[i].state = "none"
  <2>1. CASE scan.foreign
    BY <1>1, <2>1 DEF FormattingOver
  <2>2. CASE IsForeign(scan.k)
    BY <1>1, <1>2, <2>2 DEF IsForeign, BootstrapAlone, Begun
  <2>3. QED
    BY <2>1, <2>2 DEF ClaimSeen
<1>4. UNCHANGED <<job, booted, lastUid>>
  BY DEF GetPVC, api, ghost
<1>5. CASE scan.k + 1 < N
  BY <1>1, <1>3, <1>4, <1>5 DEF GetPVC, FormattingOver, Unbooted
<1>6. CASE ~(scan.k + 1 < N) /\ ClaimSeen.foreign
  <2>1. pc' \notin {"getPVC", "formatJobs"} /\ \A i \in Ordinals : ~Unfinished(i)'
    BY <1>3, <1>4, <1>6 DEF GetPVC, JudgeClaims, Goto, Finish, Unfinished
  <2>2. QED
    BY <1>1, <1>4, <2>1 DEF FormattingOver, Unbooted
<1>7. CASE ~(scan.k + 1 < N) /\ ~ClaimSeen.foreign
  <2>1. pc' = "createPVC"
    BY <1>7 DEF GetPVC, JudgeClaims, Goto
  <2>2. QED
    BY <1>1, <1>4, <2>1 DEF FormattingOver, Unbooted
<1>8. QED
  BY <1>5, <1>6, <1>7

\* The loop over the Jobs: those it counted are done.
LEMMA OverFormatJob ==
    ASSUME SafeInv, FormatJob
    PROVE  FormattingOver'
<1> USE ActsForLast DEF SafeInv
<1>1. pc = "formatJobs" /\ Unbooted /\ UNCHANGED <<booted, lastUid>>
  BY DEF FormatJob, Unmarked, ghost
<1>2. /\ scan.k \in Ordinals /\ scan.k \in Int /\ scan.succeeded \in Int
      /\ scan.succeeded <= scan.k /\ N \in Int /\ Ordinals \subseteq Int
  BY <1>1, NAssumption DEF GateInv, Types, TypeOK, IndexOK, Scans, Ordinals
<1>3. JobSeen.k = scan.k + 1
  BY DEF JobSeen
<1>4. ASSUME JobSeen.succeeded = JobSeen.k, NEW i \in Ordinals, i < JobSeen.k
      PROVE  ~Unfinished(i)'
  <2>1. cJob[scan.k].state = "complete" /\ scan.succeeded = scan.k
    BY <1>2, <1>3, <1>4 DEF JobSeen, Succeeded
  <2>2. UNCHANGED job
    BY <2>1 DEF FormatJob
  <2>3. ~Unfinished(i)
    <3>1. CASE i < scan.k
      BY <1>1, <2>1, <3>1 DEF FormattingOver
    <3>2. CASE i = scan.k
      BY <2>1, <3>2 DEF JobsStayDone, Unfinished
    <3>3. QED
      BY <1>2, <1>3, <1>4, <3>1, <3>2
  <2>4. QED
    BY <2>2, <2>3 DEF Unfinished
<1>5. CASE scan.k + 1 < N
  BY <1>1, <1>4, <1>5 DEF FormatJob, FormattingOver, Unbooted
<1>6. CASE ~(scan.k + 1 < N)
  <2>1. JobSeen.k = N /\ \A i \in Ordinals : i < N
    BY <1>2, <1>3, <1>6, NAssumption DEF Ordinals
  <2>2. \/ pc' = "patchStatus"
        \/ pc' = "applyMarked" /\ \A i \in Ordinals : ~Unfinished(i)'
    BY <1>4, <1>6, <2>1 DEF FormatJob, JudgeJobs, Goto, Finish
  <2>3. QED
    BY <1>1, <2>2 DEF FormattingOver, Unbooted
<1>7. QED
  BY <1>5, <1>6

\* No Job is started when another gets to the marker.
LEMMA OverNext ==
    ASSUME AllAssumed, SafeInv, Next
    PROVE  FormattingOver'
<1>1. CASE FormatJob
  BY <1>1, OverFormatJob
<1> SUFFICES ASSUME JobsShrink PROVE FormattingOver'
  BY <1>1, OnlyFormatJob DEF SafeInv, GateInv
<1> USE ActsForLast, Absent DEF SafeInv
<1>2. ASSUME Reconcile PROVE FormattingOver'
  <2>1. CASE SkipReconcile \/ BeginReconcile \/ ServicesWait \/ ApiError
    BY <2>1, OverFrame DEF SkipReconcile, BeginReconcile, ServicesWait, ApiError,
                           Finish, rec, ghost
  <2>2. CASE GateCached \/ GateConfigMap \/ GateStatefulSet \/ GatePods
    <3>1. UNCHANGED <<job, booted, lastUid>>
      BY <2>2 DEF GateCached, GateConfigMap, GateStatefulSet, GatePods, api, ghost
    <3>2. CASE Goto("applyMarked")
      <4>1. ~Unbooted
        BY <2>2, <3>2 DEF GateCached, GateConfigMap, GateStatefulSet, GatePods, Goto,
                          MarkersTrue, Marked
      <4>2. QED
        BY <3>1, <3>2, <4>1 DEF FormattingOver, Unfinished, Goto
    <3>3. CASE ~Goto("applyMarked")
      BY <2>2, <3>1, <3>3, OverFrame
         DEF GateCached, GateConfigMap, GateStatefulSet, GatePods
    <3>4. QED
      BY <3>2, <3>3
  <2>3. CASE GetPVC
    BY <2>3, OverGetPVC
  <2>4. CASE ApplyUnmarked \/ CreatePVC \/ ApplyStatefulSet \/ ListJobs \/ DeleteJobs
    BY <2>4, OverFrame DEF ApplyUnmarked, CreatePVC, ApplyStatefulSet, ListJobs, DeleteJobs,
                           Finish, ghost
  <2>5. CASE ApplyMarked
    BY <2>5 DEF ApplyMarked, FormattingOver, Unfinished, Goto
  <2>6. CASE PatchStatus \/ StatusPatchFails
    BY <2>6, OverFrame DEF PatchStatus, StatusPatchFails, ghost
  <2>7. QED
    BY <1>1, <1>2, <2>1, <2>2, <2>3, <2>4, <2>5, <2>6 DEF Reconcile
<1>3. ASSUME Operator PROVE FormattingOver'
  <2>1. UNCHANGED <<booted, lastUid>> /\ (UNCHANGED <<pc, scan>> \/ Goto("idle"))
    BY <1>3 DEF Operator, SyncCluster, SyncConfigMap, SyncStatefulSet, SyncPods, SyncJob,
                OtherEvent, Crash, rec, ghost
  <2>2. QED
    BY <2>1, OverFrame
<1>4. ASSUME Kubernetes PROVE FormattingOver'
  <2>1. UNCHANGED <<booted, lastUid, pc, scan>>
    BY <1>4 DEF Kubernetes, RunFormatPod, FormatWrites, JobCompletes, JobFails,
                StsCreatesPod, ReplicaStarts, ReplicaRecovers, PodGone, VolumeLost,
                GcJob, GcConfigMap, GcStatefulSet, FinishDelete, ghost, rec
  <2>2. QED
    BY <2>1, OverFrame
<1>5. ASSUME Users PROVE FormattingOver'
  <2>1. ASSUME NEW adopt \in BOOLEAN, CreateCluster(adopt) PROVE FormattingOver'
    BY <2>1 DEF CreateCluster, AllAssumed, FormattingOver, Unbooted, rec
  <2>2. CASE ~\E adopt \in BOOLEAN : CreateCluster(adopt)
    BY <1>5, <2>2, OverFrame
       DEF Users, AnnotateAdopt, DeleteCluster, DeleteConfigMap, DeleteStatefulSet,
           DeleteJob, DeletePVC, RestoreVolume, rec, ghost
  <2>3. QED
    BY <2>1, <2>2
<1>6. QED
  BY <1>2, <1>3, <1>4, <1>5 DEF Next

-----------------------------------------------------------------------------
(* BootstrapAlone *)

\* No claim appears or changes hands.
ClaimsShrink == \A i \in Ordinals :
    /\ Exists(i)' => Exists(i)
    /\ pvc'[i].label \in {0, pvc[i].label}
    /\ Exists(i)' => pvc'[i].label = pvc[i].label

\* Before the first cluster nobody acts, and restored claims bear no label.
LEMMA AloneInit == Init => BootstrapAlone
<1> SUFFICES ASSUME Init PROVE BootstrapAlone
  OBVIOUS
<1>1. ~Attached
  BY Absent DEF Init, Attached
<1>2. \A i \in Ordinals : pvc[i].label <= lastUid
  BY DEF Init, NoClaim
<1>3. QED
  BY <1>1, <1>2 DEF BootstrapAlone, Init

\* Steps that only take away, and do not begin a bootstrap.
LEMMA AloneFrame ==
    ASSUME SafeInv, UNCHANGED <<booted, lastUid>>, ran' \subseteq ran,
           ClaimsShrink, JobsShrink,
           tbc'.uid \in {0, tbc.uid}, cTbc'.uid \in {cTbc.uid, tbc.uid},
           pc' # "idle" => pc # "idle" \/ cTbc.uid # 0,
           \/ UNCHANGED <<pc, scan, me>>
           \/ Goto("getPVC")
           \/ pc' \notin {"getPVC", "createPVC", "formatJobs"}
    PROVE  BootstrapAlone'
<1> USE DEF SafeInv
<1>1. \A i \in Ordinals : pvc'[i].label <= lastUid'
  <2>1. lastUid \in Int /\ 0 <= lastUid
    BY BoundsAssumption DEF GateInv, Types, TypeOK, Uids
  <2>2. QED
    BY <2>1 DEF BootstrapAlone, ClaimsShrink
<1>2. Attached' => Attached
  BY DEF Attached, JobsShrink
<1>3. Begun' => Begun
  BY DEF Begun, ClaimsShrink, JobsShrink, Goto
<1>4. Attached' /\ Unbooted' /\ Begun' =>
        (\A i \in Ordinals : Exists(i)' => pvc'[i].label = lastUid') /\ ran' = {}
  BY <1>2, <1>3 DEF BootstrapAlone, Unbooted, ClaimsShrink
<1>5. pc' = "getPVC" /\ ~scan'.foreign =>
        \A i \in Ordinals : i < scan'.k => ~IsForeign(i)'
  <2>1. CASE UNCHANGED <<pc, scan, me>>
    BY <2>1 DEF BootstrapAlone, IsForeign, ClaimsShrink
  <2>2. CASE Goto("getPVC")
    BY <2>2, NAssumption DEF Goto, NewScan, Ended, Ordinals
  <2>3. QED
    BY <2>1, <2>2
<1>6. QED
  BY <1>1, <1>4, <1>5 DEF BootstrapAlone

\* The loop over the claims: if it saw no foreign one, there is none, and what
\* exists is either this bootstrap's, which is alone then, or holds nothing.
LEMMA AloneGetPVC ==
    ASSUME SafeInv, GetPVC
    PROVE  BootstrapAlone'
<1> USE ActsForLast DEF SafeInv
<1>1. pc = "getPVC" /\ Unbooted /\ Attached /\ me.uid = lastUid
  BY DEF GetPVC, Unmarked, Attached
<1>2. UNCHANGED <<pvc, job, me, booted, lastUid, ran, tbc, cTbc>>
  BY DEF GetPVC, api, cache, ghost
<1>3. scan.k \in Int /\ scan.k < N /\ N \in Int /\ Ordinals \subseteq Int
  BY <1>1, NAssumption DEF GateInv, Types, TypeOK, IndexOK, Scans, Ordinals
<1>4. ~ClaimSeen.foreign => \A i \in Ordinals : i < ClaimSeen.k => ~IsForeign(i)
  <2> SUFFICES ASSUME ~ClaimSeen.foreign, NEW i \in Ordinals, i < ClaimSeen.k
               PROVE  ~IsForeign(i)
    OBVIOUS
  <2>1. ~scan.foreign /\ ~IsForeign(scan.k)
    BY DEF ClaimSeen
  <2>2. i < scan.k \/ i = scan.k
    BY <1>3 DEF ClaimSeen
  <2>3. QED
    BY <1>1, <2>1, <2>2 DEF BootstrapAlone
<1>5. \A i \in Ordinals : pvc'[i].label <= lastUid'
  BY <1>2 DEF BootstrapAlone
<1>6. ASSUME pc' \notin {"createPVC", "formatJobs"} PROVE BootstrapAlone'
  <2>1. Attached' => Attached
    BY <1>1
  <2>2. Begun' => Begun
    BY <1>2, <1>6 DEF Begun, Exists
  <2>3. pc' = "getPVC" => scan' = ClaimSeen
    BY <1>1 DEF GetPVC, JudgeClaims, Goto, Finish
  <2>4. \A i \in Ordinals : IsForeign(i)' <=> IsForeign(i)
    BY <1>2 DEF IsForeign, Exists
  <2>5. QED
    BY <1>1, <1>2, <1>4, <1>5, <2>1, <2>2, <2>3, <2>4 DEF BootstrapAlone, Unbooted, Exists
<1>7. ASSUME pc' = "createPVC" PROVE BootstrapAlone'
  <2>1. ~(scan.k + 1 < N) /\ ~ClaimSeen.foreign
    BY <1>1, <1>7 DEF GetPVC, JudgeClaims, Goto, Finish
  <2>2. \A i \in Ordinals : ~IsForeign(i)
    BY <1>3, <1>4, <2>1 DEF ClaimSeen, Ordinals
  <2>3. ran = {}
    <3>1. CASE \E i \in Ordinals : Exists(i)
      BY <1>1, <2>2, <3>1 DEF IsForeign, BootstrapAlone, Begun
    <3>2. CASE \A i \in Ordinals : ~Exists(i)
      BY <3>2 DEF RanFits, Files, HasFile, Exists
    <3>3. QED
      BY <3>1, <3>2
  <2>4. \A i \in Ordinals : Exists(i) => pvc[i].label = lastUid
    BY <1>1, <2>2 DEF IsForeign
  <2>5. QED
    BY <1>2, <1>5, <1>7, <2>3, <2>4 DEF BootstrapAlone, Exists
<1>8. pc' # "formatJobs"
  BY <1>1 DEF GetPVC, JudgeClaims, Goto, Finish
<1>9. QED
  BY <1>6, <1>7, <1>8

\* The loops that make claims and Jobs make them for the bootstrap itself.
LEMMA AloneMaking ==
    ASSUME SafeInv, CreatePVC \/ FormatJob
    PROVE  BootstrapAlone'
<1> USE ActsForLast DEF SafeInv
<1>1. /\ pc \in {"createPVC", "formatJobs"} /\ Attached /\ Unbooted /\ Begun
      /\ me.uid = lastUid
  BY DEF CreatePVC, FormatJob, Unmarked, Attached, Begun
<1>2. UNCHANGED <<booted, lastUid, ran>> /\ pc' # "getPVC"
  BY DEF CreatePVC, FormatJob, JudgeJobs, Goto, Finish, ghost
<1>3. /\ \A i \in Ordinals : Exists(i) => pvc[i].label = lastUid
      /\ ran = {}
  BY <1>1 DEF BootstrapAlone
<1>4. \A i \in Ordinals : /\ Exists(i)' => pvc'[i].label = lastUid
                          /\ pvc'[i].label \in {lastUid, pvc[i].label}
  BY <1>1, <1>3 DEF CreatePVC, FormatJob, Exists, GateInv, Types, TypeOK
<1>5. lastUid \in Int
  BY BoundsAssumption DEF GateInv, Types, TypeOK, Uids
<1>6. QED
  BY <1>2, <1>3, <1>4, <1>5 DEF BootstrapAlone

\* Nobody else joins a bootstrap that has begun.
LEMMA AloneNext ==
    ASSUME AllAssumed, SafeInv, Next
    PROVE  BootstrapAlone'
<1>1. CASE FormatJob
  BY <1>1, AloneMaking
<1> SUFFICES ASSUME JobsShrink PROVE BootstrapAlone'
  BY <1>1, OnlyFormatJob DEF SafeInv, GateInv
<1> USE ActsForLast, Absent DEF SafeInv
<1>2. UNCHANGED pvc => ClaimsShrink
  BY DEF ClaimsShrink, Exists
<1>3. ASSUME Reconcile PROVE BootstrapAlone'
  <2>1. CASE SkipReconcile \/ BeginReconcile \/ ServicesWait \/ ApiError
    BY <1>2, <2>1, AloneFrame
       DEF SkipReconcile, BeginReconcile, ServicesWait, ApiError, Goto, Finish,
           api, cache, rec, ghost
  <2>2. CASE GateCached \/ GateConfigMap \/ GateStatefulSet \/ GatePods
    BY <1>2, <2>2, AloneFrame
       DEF GateCached, GateConfigMap, GateStatefulSet, GatePods, Goto, api, cache, ghost
  <2>3. CASE ApplyUnmarked \/ ApplyStatefulSet \/ ListJobs \/ DeleteJobs
    BY <1>2, <2>3, AloneFrame
       DEF ApplyUnmarked, ApplyStatefulSet, ListJobs, DeleteJobs, Goto, Finish, api, cache, ghost
  <2>4. CASE GetPVC \/ CreatePVC
    BY <2>4, AloneGetPVC, AloneMaking
  <2>5. CASE ApplyMarked
    BY <2>5 DEF ApplyMarked, BootstrapAlone, Unbooted, Goto
  <2>6. CASE PatchStatus
    <3>1. tbc'.uid = tbc.uid
      BY <2>6 DEF PatchStatus, GateInv, Types, TypeOK, Clusters
    <3>2. QED
      BY <1>2, <2>6, <3>1, AloneFrame DEF PatchStatus, Goto, ghost
  <2>7. CASE StatusPatchFails
    BY <1>2, <2>7, AloneFrame DEF StatusPatchFails, Goto, api, ghost
  <2>8. QED
    BY <1>1, <1>3, <2>1, <2>2, <2>3, <2>4, <2>5, <2>6, <2>7 DEF Reconcile
<1>4. ASSUME Operator PROVE BootstrapAlone'
  <2>1. /\ UNCHANGED <<api, booted, lastUid, ran>> /\ cTbc' \in {cTbc, tbc}
        /\ UNCHANGED <<pc, scan, me>> \/ Goto("idle")
    BY <1>4 DEF Operator, SyncCluster, SyncConfigMap, SyncStatefulSet, SyncPods, SyncJob,
                OtherEvent, Crash, rec, ghost
  <2>2. QED
    BY <1>2, <2>1, AloneFrame DEF api, Goto
<1>5. ASSUME Kubernetes PROVE BootstrapAlone'
  <2> USE DEF cache, rec, ghost
  <2>1. ASSUME NEW i \in Ordinals,
               \/ RunFormatPod(i) \/ JobCompletes(i) \/ JobFails(i) \/ GcJob(i)
               \/ PodGone(i)
        PROVE  BootstrapAlone'
    BY <1>2, <2>1, AloneFrame DEF RunFormatPod, JobCompletes, JobFails, GcJob, PodGone
  <2>2. ASSUME NEW i \in Ordinals, FormatWrites(i) \/ VolumeLost(i)
        PROVE  BootstrapAlone'
    <3>1. ran' \subseteq ran
      BY <2>2 DEF FormatWrites, VolumeLost, RanAfter
    <3>2. Exists(i) /\ \E s : pvc' = [pvc EXCEPT ![i].state = s]
      BY <2>2 DEF FormatWrites, VolumeLost, Exists, HasFile
    <3>3. ClaimsShrink
      BY <3>2, StateChange DEF ClaimsShrink, Exists, GateInv
    <3>4. QED
      BY <2>2, <3>1, <3>3, AloneFrame DEF FormatWrites, VolumeLost
  <2>3. ASSUME NEW i \in Ordinals,
               StsCreatesPod(i) \/ ReplicaStarts(i) \/ ReplicaRecovers(i)
        PROVE  BootstrapAlone'
    <3>1. ~Unbooted
      BY <2>3 DEF StsCreatesPod, ReplicaStarts, ReplicaRecovers, MarkersTrue, Marked
    <3>2. UNCHANGED <<booted, lastUid, pc>> /\ pc # "getPVC"
      BY <2>3, <3>1 DEF StsCreatesPod, ReplicaStarts, ReplicaRecovers, Unmarked
    <3>3. \A j \in Ordinals : pvc'[j].label \in {0, pvc[j].label}
      <4>1. CASE StsCreatesPod(i)
        BY <4>1, ClaimChange DEF StsCreatesPod, GateInv
      <4>2. CASE ReplicaStarts(i) \/ ReplicaRecovers(i)
        BY <4>2, StateChange DEF ReplicaStarts, ReplicaRecovers, GateInv
      <4>3. QED
        BY <2>3, <4>1, <4>2
    <3>4. lastUid \in Int /\ 0 <= lastUid
      BY BoundsAssumption DEF GateInv, Types, TypeOK, Uids
    <3>5. QED
      BY <3>1, <3>2, <3>3, <3>4 DEF BootstrapAlone, Unbooted
  <2>4. CASE GcConfigMap \/ GcStatefulSet \/ FinishDelete
    BY <1>2, <2>4, AloneFrame DEF GcConfigMap, GcStatefulSet, FinishDelete
  <2>5. QED
    BY <1>5, <2>1, <2>2, <2>3, <2>4 DEF Kubernetes
<1>6. ASSUME Users PROVE BootstrapAlone'
  <2> USE DEF cache, rec, ghost
  <2>1. ASSUME NEW adopt \in BOOLEAN, CreateCluster(adopt) PROVE BootstrapAlone'
    <3>1. \A i \in Ordinals : job[i].state = "none"
      BY <2>1 DEF CreateCluster, AllAssumed
    <3>2. lastUid \in Int /\ \A i \in Ordinals : pvc[i].label \in Int
      BY BoundsAssumption DEF GateInv, Types, TypeOK, Uids, Claims
    <3>3. \A i \in Ordinals : pvc'[i].label < lastUid'
      BY <2>1, <3>2 DEF CreateCluster, BootstrapAlone
    <3>4. pc' = "idle"
      BY <2>1 DEF CreateCluster, AllAssumed
    <3>5. ~Begun'
      BY <2>1, <3>1, <3>2, <3>3, <3>4 DEF CreateCluster, Begun
    <3>6. QED
      BY <2>1, <3>2, <3>3, <3>4, <3>5 DEF BootstrapAlone, CreateCluster
  <2>2. CASE AnnotateAdopt \/ DeleteCluster
    <3>1. tbc'.uid \in {0, tbc.uid}
      BY <2>2 DEF AnnotateAdopt, DeleteCluster, GateInv, Types, TypeOK, Clusters
    <3>2. QED
      BY <1>2, <2>2, <3>1, AloneFrame DEF AnnotateAdopt, DeleteCluster
  <2>3. CASE DeleteConfigMap \/ DeleteStatefulSet \/ \E i \in Ordinals : DeleteJob(i)
    BY <1>2, <2>3, AloneFrame DEF DeleteConfigMap, DeleteStatefulSet, DeleteJob
  <2>4. ASSUME NEW i \in Ordinals, DeletePVC(i) PROVE BootstrapAlone'
    <3>1. ClaimsShrink /\ ran' \subseteq ran
      BY <2>4 DEF DeletePVC, NoClaim, RanAfter, Exists, ClaimsShrink,
                  GateInv, Types, TypeOK
    <3>2. QED
      BY <2>4, <3>1, AloneFrame DEF DeletePVC
  <2>5. ASSUME NEW i \in Ordinals, RestoreVolume(i) PROVE BootstrapAlone'
    <3>1. ~Attached' /\ pc' = "idle"
      BY <2>5 DEF RestoreVolume, AllAssumed, Attached
    <3>2. \A j \in Ordinals : pvc'[j].label \in {0, pvc[j].label}
      BY <2>5 DEF RestoreVolume, GateInv, Types, TypeOK
    <3>3. lastUid \in Int /\ 0 <= lastUid
      BY BoundsAssumption DEF GateInv, Types, TypeOK, Uids
    <3>4. QED
      BY <2>5, <3>1, <3>2, <3>3 DEF RestoreVolume, BootstrapAlone
  <2>6. QED
    BY <1>6, <2>1, <2>2, <2>3, <2>4, <2>5 DEF Users
<1>7. QED
  BY <1>3, <1>4, <1>5, <1>6 DEF Next

-----------------------------------------------------------------------------
(* RanFits *)

\* Initially replicas may have run on restored volumes only.
LEMMA RanInit == Init => RanFits
<1> SUFFICES ASSUME Init PROVE RanFits
  OBVIOUS
<1>1. PICK restored \in SUBSET Ordinals :
        /\ pvc = [i \in Ordinals |->
               IF i \in restored THEN [label |-> 0, state |-> "data"] ELSE NoClaim]
        /\ ran = IF restored = {} THEN {} ELSE Ordinals
  BY DEF Init
<1>2. \A i \in restored : HasFile(i)
  BY <1>1 DEF HasFile
<1>3. QED
  BY <1>1, <1>2 DEF RanFits, Files, Init

\* Steps that leave the history, the files and the claims in use alone.
LEMMA RanFrame ==
    ASSUME SafeInv, ran' = ran, running' \subseteq running,
           \A i \in Ordinals : HasFile(i) => HasFile(i)' /\ pvc'[i] = pvc[i]
    PROVE  RanFits'
<1>1. running \subseteq Ordinals
  BY DEF SafeInv, GateInv, Types, TypeOK
<1>2. Files \subseteq Files'
  BY DEF Files
<1>3. QED
  BY <1>1, <1>2 DEF SafeInv, RanFits, HasFile

\* Steps that take a file away from a replica that is not running.
LEMMA RanLoses ==
    ASSUME SafeInv, NEW i \in Ordinals \ running,
           ran' = RanAfter(Files \ {i}), running' = running,
           ~HasFile(i)', \A j \in Ordinals \ {i} : pvc'[j] = pvc[j]
    PROVE  RanFits'
<1>1. Files' = Files \ {i}
  BY DEF Files, HasFile
<1>2. running \subseteq Files \ {i}
  BY DEF SafeInv, GateInv, Types, TypeOK, RanFits, Files, HasFile
<1>3. \A j \in running : pvc'[j] = pvc[j]
  BY DEF SafeInv, GateInv, Types, TypeOK
<1>4. QED
  BY <1>1, <1>2, <1>3 DEF SafeInv, RanFits, RanAfter

\* A replica that runs keeps its data, and the history ends with the last file.
LEMMA RanNext ==
    ASSUME SafeInv, Next
    PROVE  RanFits'
<1>0. UNCHANGED <<pvc, ran, running>> => RanFits'
  BY RanFrame DEF HasFile
<1>1. ASSUME Reconcile PROVE RanFits'
  <2>1. CASE CreatePVC
    <3>1. \A i \in Ordinals : HasFile(i) => HasFile(i)' /\ pvc'[i] = pvc[i]
      BY <2>1 DEF CreatePVC, HasFile, Exists, SafeInv, GateInv, Types, TypeOK
    <3>2. QED
      BY <2>1, <3>1, RanFrame DEF CreatePVC, ghost
  <2>2. CASE ~CreatePVC
    BY <1>0, <1>1, <2>2
       DEF Reconcile, SkipReconcile, BeginReconcile, ServicesWait, ApiError, GateCached,
           GateConfigMap, GateStatefulSet, GatePods, GetPVC, ApplyUnmarked, FormatJob,
           ApplyMarked, ApplyStatefulSet, ListJobs, DeleteJobs, PatchStatus, StatusPatchFails,
           api, ghost
  <2>3. QED
    BY <2>1, <2>2
<1>2. ASSUME Operator PROVE RanFits'
  BY <1>0, <1>2 DEF Operator, SyncCluster, SyncConfigMap, SyncStatefulSet, SyncPods,
                    SyncJob, OtherEvent, Crash, api, ghost
<1>3. ASSUME Kubernetes PROVE RanFits'
  <2> USE DEF ghost
  <2>1. ASSUME NEW i \in Ordinals,
               RunFormatPod(i) \/ JobCompletes(i) \/ JobFails(i) \/ GcJob(i)
        PROVE  RanFits'
    BY <1>0, <2>1 DEF RunFormatPod, JobCompletes, JobFails, GcJob
  <2>2. ASSUME NEW i \in Ordinals, FormatWrites(i) \/ ReplicaRecovers(i) PROVE RanFits'
    <3>1. /\ ~HasFile(i) /\ UNCHANGED <<ran, running>>
          /\ \E s \in {"formatted", "data"} : pvc' = [pvc EXCEPT ![i].state = s]
      BY <2>2 DEF FormatWrites, ReplicaRecovers
    <3>2. \A j \in Ordinals : HasFile(j) => HasFile(j)' /\ pvc'[j] = pvc[j]
      BY <3>1, StateChange DEF HasFile, SafeInv, GateInv
    <3>3. QED
      BY <3>1, <3>2, RanFrame
  <2>3. ASSUME NEW i \in Ordinals, StsCreatesPod(i) PROVE RanFits'
    <3>1. \A j \in Ordinals : HasFile(j) => HasFile(j)' /\ pvc'[j] = pvc[j]
      BY <2>3, ClaimChange DEF StsCreatesPod, HasFile, Exists, SafeInv, GateInv
    <3>2. QED
      BY <2>3, <3>1, RanFrame DEF StsCreatesPod
  <2>4. ASSUME NEW i \in Ordinals, ReplicaStarts(i) PROVE RanFits'
    <3>1. pvc'[i].state = "data" /\ \A j \in Ordinals \ {i} : pvc'[j] = pvc[j]
      BY <2>4, StateChange DEF ReplicaStarts, SafeInv, GateInv
    <3>2. i \in Files'
      BY <3>1 DEF Files, HasFile
    <3>3. running \subseteq Ordinals
      BY DEF SafeInv, GateInv, Types, TypeOK
    <3>4. QED
      BY <2>4, <3>1, <3>2, <3>3 DEF ReplicaStarts, SafeInv, RanFits
  <2>5. ASSUME NEW i \in Ordinals, PodGone(i) PROVE RanFits'
    BY <2>5, RanFrame DEF PodGone, HasFile
  <2>6. ASSUME NEW i \in Ordinals, VolumeLost(i) PROVE RanFits'
    <3>1. pvc'[i].state = "empty" /\ \A j \in Ordinals \ {i} : pvc'[j] = pvc[j]
      BY <2>6, StateChange DEF VolumeLost, SafeInv, GateInv
    <3>2. QED
      BY <2>6, <3>1, RanLoses DEF VolumeLost, HasFile
  <2>7. CASE GcConfigMap \/ GcStatefulSet \/ FinishDelete
    BY <1>0, <2>7 DEF GcConfigMap, GcStatefulSet, FinishDelete
  <2>8. QED
    BY <1>3, <2>1, <2>2, <2>3, <2>4, <2>5, <2>6, <2>7 DEF Kubernetes
<1>4. ASSUME Users PROVE RanFits'
  <2>1. ASSUME NEW adopt \in BOOLEAN, CreateCluster(adopt) PROVE RanFits'
    BY <1>0, <2>1 DEF CreateCluster
  <2>2. CASE AnnotateAdopt \/ DeleteCluster \/ DeleteConfigMap \/ DeleteStatefulSet
    BY <1>0, <2>2 DEF AnnotateAdopt, DeleteCluster, DeleteConfigMap, DeleteStatefulSet,
                      ghost
  <2>3. ASSUME NEW i \in Ordinals, DeleteJob(i) PROVE RanFits'
    BY <1>0, <2>3 DEF DeleteJob, ghost
  <2>4. ASSUME NEW i \in Ordinals, DeletePVC(i) PROVE RanFits'
    <3>1. i \notin running
      BY <2>4 DEF DeletePVC, InUse, SafeInv, GateInv, Types, TypeOK
    <3>2. ~HasFile(i)' /\ \A j \in Ordinals \ {i} : pvc'[j] = pvc[j]
      BY <2>4, Absent DEF DeletePVC, HasFile, SafeInv, GateInv, Types, TypeOK
    <3>3. QED
      BY <2>4, <3>1, <3>2, RanLoses DEF DeletePVC
  <2>5. ASSUME NEW i \in Ordinals, RestoreVolume(i) PROVE RanFits'
    <3>1. pvc'[i].state = "data" /\ \A j \in Ordinals \ {i} : pvc'[j] = pvc[j]
      BY <2>5 DEF RestoreVolume, SafeInv, GateInv, Types, TypeOK
    <3>2. i \in Files'
      BY <3>1 DEF Files, HasFile
    <3>3. running \subseteq Ordinals
      BY DEF SafeInv, GateInv, Types, TypeOK
    <3>4. QED
      BY <2>5, <3>1, <3>2, <3>3 DEF RestoreVolume, SafeInv, RanFits
  <2>6. QED
    BY <1>4, <2>1, <2>2, <2>3, <2>4, <2>5 DEF Users
<1>5. QED
  BY <1>1, <1>2, <1>3, <1>4 DEF Next

-----------------------------------------------------------------------------
(* The invariant holds *)

\* The invariant holds initially.
LEMMA SafeInit == Init => SafeInv
  BY GateInit, MarkersInit, JobsInit, OverInit, AloneInit, RanInit DEF SafeInv

\* Every step preserves it.
LEMMA SafeNext ==
    ASSUME AllAssumed, SafeInv, [Next]_vars
    PROVE  SafeInv'
<1>1. GateInv'
  BY GateNext DEF SafeInv, AllAssumed
<1>2. CASE Next
  BY <1>1, <1>2, MarkersNext, JobsNext, OverNext, AloneNext, RanNext DEF SafeInv
<1>3. CASE UNCHANGED vars
  BY <1>1, <1>3 DEF vars, api, cache, rec, ghost, SafeInv, MarkersTrue, Unbooted, Marked,
        CmMarks, JobsStayDone, FormattingOver, Unfinished, BootstrapAlone, Attached,
        Begun, Exists, IsForeign, RanFits, Files, HasFile
<1>4. QED
  BY <1>2, <1>3

\* So it holds in every reachable state.
LEMMA SafeAlways ==
    ASSUME AllAssumed
    PROVE  Spec => []SafeInv
<1>1. SafeInv /\ [Next]_vars => SafeInv'
  BY SafeNext
<1>2. QED
  BY <1>1, SafeInit, PTL DEF Spec

\* Formatting ends before replicas may start: as long as a format Job is still to
\* run or running there is neither StatefulSet nor replica pod.
THEOREM FormattingEndsFirst ==
    ASSUME AllAssumed
    PROVE  Spec => []NoFormatJobBesideReplicas
<1>1. SafeInv => NoFormatJobBesideReplicas
  BY DEF SafeInv, FormattingOver, MarkersTrue, Marked, NoFormatJobBesideReplicas
<1>2. QED
  BY <1>1, SafeAlways, PTL

-----------------------------------------------------------------------------
(* The claims, as long as nobody restores a volume meanwhile.  Nothing else    *)
(* is assumed: also an operator with a stale cache refuses the claims of       *)
(* others.                                                                     *)

\* Past the gate nobody but the operator makes claims, and those that the check
\* has seen, or that were made since, are its own.
ClaimsKnown ==
    /\ pc = "gatePods" \/ Unmarked => sts = 0
    /\ Unmarked => pods = {}
    /\ pc = "getPVC" /\ ~scan.foreign => \A i \in Ordinals : i < scan.k => ~IsForeign(i)
    /\ pc \in {"createPVC", "formatJobs"} => \A i \in Ordinals : ~IsForeign(i)

\* Steps that add no foreign claim, StatefulSet or pod to a bootstrap that goes
\* on as it is, or that leave it.
LEMMA ClaimsFrame ==
    ASSUME ClaimsKnown,
           sts' = sts \/ sts' = 0, pods' \subseteq pods,
           \A i \in Ordinals : IsForeign(i)' => IsForeign(i),
           UNCHANGED <<pc, scan>> \/ pc' \notin {"gatePods", "applyUnmarked", "getPVC",
                                                 "createPVC", "formatJobs"}
    PROVE  ClaimsKnown'
  BY DEF ClaimsKnown, Unmarked

\* The check of the claims, one by one.
LEMMA ClaimsChecked ==
    ASSUME Types, ClaimsKnown, GetPVC
    PROVE  ClaimsKnown'
<1>1. pc = "getPVC" /\ sts = 0 /\ pods = {} /\ UNCHANGED <<sts, pods, pvc, me>>
  BY DEF GetPVC, ClaimsKnown, Unmarked, api
<1>2. scan.k \in Ordinals /\ \A i \in Ordinals : i < scan.k + 1 <=> i < scan.k \/ i = scan.k
  BY <1>1, NAssumption DEF Types, IndexOK, TypeOK, Scans, Ordinals
<1>3. ~ClaimSeen.foreign => \A i \in Ordinals : i < scan.k + 1 => ~IsForeign(i)
  BY <1>1, <1>2 DEF ClaimSeen, ClaimsKnown
<1>4. CASE scan.k + 1 < N
  <2>1. pc' = "getPVC" /\ scan'.foreign = ClaimSeen.foreign /\ scan'.k = scan.k + 1
    BY <1>1, <1>4 DEF GetPVC, ClaimSeen
  <2>2. QED
    BY <1>1, <1>3, <2>1 DEF ClaimsKnown, Unmarked, IsForeign, Exists
<1>5. CASE ~(scan.k + 1 < N)
  <2>1. \A i \in Ordinals : i < scan.k + 1
    BY <1>2, <1>5, NAssumption DEF Ordinals
  <2>2. pc' \in {"patchStatus", "applyMarked"} \/ (pc' = "createPVC" /\ ~ClaimSeen.foreign)
    BY <1>5 DEF GetPVC, JudgeClaims, Finish, Goto
  <2>3. QED
    BY <1>1, <1>3, <2>1, <2>2 DEF ClaimsKnown, Unmarked, IsForeign, Exists
<1>6. QED
  BY <1>4, <1>5

\* What the check found stays true while the bootstrap lasts.
LEMMA ClaimsNext ==
    ASSUME "RestoreFirst" \in Assumed, Types, ClaimsKnown, [Next]_vars
    PROVE  ClaimsKnown'
<1> USE DEF Types, TypeOK
<1>1. ASSUME Reconcile PROVE ClaimsKnown'
  <2>1. CASE SkipReconcile \/ BeginReconcile \/ ServicesWait \/ GateCached \/ GateConfigMap
    BY <2>1, ClaimsFrame DEF SkipReconcile, BeginReconcile, ServicesWait, GateCached,
       GateConfigMap, Goto, Finish, api, rec, IsForeign, Exists, ClaimsKnown, Unmarked
  <2>2. CASE GateStatefulSet \/ GatePods \/ ApplyUnmarked
    <3>1. \A i \in Ordinals : ~(i < 0)
      BY NAssumption DEF Ordinals
    <3>2. QED
      BY <2>2, <3>1 DEF GateStatefulSet, GatePods, ApplyUnmarked, Goto, NewScan, Ended,
         api, ClaimsKnown, Unmarked
  <2>3. CASE GetPVC
    BY <2>3, ClaimsChecked
  <2>4. CASE CreatePVC
    <3>1. pc' \in {"createPVC", "formatJobs"} /\ pc = "createPVC"
          /\ UNCHANGED <<sts, pods, me>>
      BY <2>4 DEF CreatePVC, Goto
    <3>2. \A i \in Ordinals : pvc'[i] = pvc[i] \/ pvc'[i].label = me.uid
      BY <2>4 DEF CreatePVC
    <3>3. QED
      BY <3>1, <3>2 DEF ClaimsKnown, Unmarked, IsForeign, Exists
  <2>5. CASE FormatJob
    <3>1. pc = "formatJobs" /\ pc' \in {"formatJobs", "patchStatus", "applyMarked"}
          /\ UNCHANGED <<sts, pods, pvc, me>>
      BY <2>5 DEF FormatJob, JudgeJobs, Finish, Goto
    <3>2. QED
      BY <3>1 DEF ClaimsKnown, Unmarked, IsForeign, Exists
  <2>6. CASE ApplyMarked \/ ApplyStatefulSet \/ ListJobs \/ DeleteJobs \/ PatchStatus
             \/ StatusPatchFails \/ ApiError
    <3>1. pc' \notin {"gatePods", "applyUnmarked", "getPVC", "createPVC", "formatJobs"}
      BY <2>6 DEF ApplyMarked, ApplyStatefulSet, ListJobs, DeleteJobs, PatchStatus,
                  StatusPatchFails, ApiError, Finish, Goto
    <3>2. QED
      BY <3>1 DEF ClaimsKnown, Unmarked
  <2>7. QED
    BY <1>1, <2>1, <2>2, <2>3, <2>4, <2>5, <2>6 DEF Reconcile
<1>2. ASSUME Operator PROVE ClaimsKnown'
  <2>1. CASE Crash
    BY <2>1 DEF Crash, Goto, ClaimsKnown, Unmarked
  <2>2. CASE Operator /\ ~Crash
    BY <2>2, ClaimsFrame DEF Operator, SyncCluster, SyncConfigMap, SyncStatefulSet, SyncPods,
       SyncJob, OtherEvent, api, rec, IsForeign, Exists
  <2>3. QED
    BY <1>2, <2>1, <2>2
<1>3. ASSUME Kubernetes PROVE ClaimsKnown'
  <2>1. ASSUME NEW i \in Ordinals, StsCreatesPod(i) PROVE ClaimsKnown'
    <3>1. sts # 0 /\ UNCHANGED <<sts, pc, scan>>
      BY <2>1 DEF StsCreatesPod, rec
    <3>2. QED
      BY <3>1 DEF ClaimsKnown, Unmarked
  <2>2. ASSUME NEW i \in Ordinals, ReplicaRecovers(i) \/ ReplicaStarts(i) PROVE ClaimsKnown'
    <3>1. pods # {} /\ UNCHANGED <<sts, pods, pc, scan>>
      BY <2>2 DEF ReplicaRecovers, ReplicaStarts, rec
    <3>2. QED
      BY <3>1 DEF ClaimsKnown, Unmarked
  <2>3. ASSUME NEW i \in Ordinals, FormatWrites(i) \/ VolumeLost(i) PROVE ClaimsKnown'
    <3>1. \A j \in Ordinals : IsForeign(j)' => IsForeign(j)
      BY <2>3 DEF FormatWrites, VolumeLost, IsForeign, Exists, HasFile, rec, Claims
    <3>2. UNCHANGED <<sts, pods, pc, scan>>
      BY <2>3 DEF FormatWrites, VolumeLost, rec
    <3>3. QED
      BY <3>1, <3>2, ClaimsFrame
  <2>4. ASSUME NEW i \in Ordinals,
               RunFormatPod(i) \/ JobCompletes(i) \/ JobFails(i) \/ PodGone(i) \/ GcJob(i)
        PROVE  ClaimsKnown'
    BY <2>4, ClaimsFrame DEF RunFormatPod, JobCompletes, JobFails, PodGone, GcJob, rec,
       IsForeign, Exists
  <2>5. CASE GcConfigMap \/ GcStatefulSet \/ FinishDelete
    BY <2>5, ClaimsFrame DEF GcConfigMap, GcStatefulSet, FinishDelete, rec, IsForeign, Exists
  <2>6. QED
    BY <1>3, <2>1, <2>2, <2>3, <2>4, <2>5 DEF Kubernetes
<1>4. ASSUME Users PROVE ClaimsKnown'
  <2>1. ASSUME NEW i \in Ordinals, DeletePVC(i) PROVE ClaimsKnown'
    <3>1. \A j \in Ordinals : IsForeign(j)' => IsForeign(j)
      BY <2>1, Absent DEF DeletePVC, IsForeign, Exists, rec
    <3>2. QED
      BY <2>1, <3>1, ClaimsFrame DEF DeletePVC, rec
  <2>2. ASSUME NEW i \in Ordinals, RestoreVolume(i) PROVE ClaimsKnown'
    BY <2>2 DEF RestoreVolume, rec, ClaimsKnown, Unmarked
  <2>3. ASSUME NEW adopt \in BOOLEAN, CreateCluster(adopt) PROVE ClaimsKnown'
    BY <2>3, ClaimsFrame DEF CreateCluster, rec, IsForeign, Exists
  <2>4. CASE AnnotateAdopt \/ DeleteCluster \/ DeleteConfigMap \/ DeleteStatefulSet
             \/ \E i \in Ordinals : DeleteJob(i)
    BY <2>4, ClaimsFrame DEF AnnotateAdopt, DeleteCluster, DeleteConfigMap, DeleteStatefulSet,
       DeleteJob, rec, IsForeign, Exists
  <2>5. QED
    BY <1>4, <2>1, <2>2, <2>3, <2>4 DEF Users
<1>5. CASE UNCHANGED vars
  BY <1>5, ClaimsFrame DEF vars, api, rec, IsForeign, Exists
<1>6. QED
  BY <1>1, <1>2, <1>3, <1>4, <1>5 DEF Next

\* A format Job is only ever given a PVC that this bootstrap made, or none: what
\* the check of the claims found is still true when the Jobs are created.
THEOREM ForeignClaimsRefused ==
    ASSUME "RestoreFirst" \in Assumed
    PROVE  Spec => RefusesForeignPVCs
<1> DEFINE Refuses == \A i \in Ordinals :
             job[i].state = "none" /\ job'[i].state = "pending" /\ Exists(i)
                 => pvc[i].label = me.uid
<1>1. ASSUME Types, ClaimsKnown, [Next]_vars PROVE Refuses
  <2>1. CASE FormatJob
    <3>1. pc = "formatJobs"
      BY <2>1 DEF FormatJob
    <3>2. QED
      BY <1>1, <3>1 DEF ClaimsKnown, IsForeign
  <2>2. CASE Next /\ ~FormatJob
    BY <1>1, <2>2, OnlyFormatJob DEF JobsShrink
  <2>3. CASE UNCHANGED vars
    BY <2>3 DEF vars, api
  <2>4. QED
    BY <1>1, <2>1, <2>2, <2>3
<1>2. Types /\ ClaimsKnown /\ [Next]_vars => [Refuses]_vars
  BY <1>1
<1>3. Init => ClaimsKnown
  BY DEF Init, ClaimsKnown, Unmarked
<1>4. Types /\ ClaimsKnown /\ [Next]_vars => ClaimsKnown'
  BY ClaimsNext
<1>5. QED
  BY <1>2, <1>3, <1>4, TypesAlways, PTL DEF Spec, RefusesForeignPVCs

-----------------------------------------------------------------------------
(* FormattedFits *)

\* Initially there is no cluster.
LEMMA FormattedInit == Init => FormattedFits
  BY Absent DEF Init, FormattedFits

\* Steps of a cluster's life that note every file they make and mark nothing.
LEMMA FormattedFrame ==
    ASSUME SafeInv, FormattedFits, UNCHANGED <<booted, lastUid>>,
           tbc'.uid # 0 => tbc.uid # 0 /\ (tbc.adopt => tbc'.adopt),
           cTbc' \in {cTbc, tbc}, me' \in {me, cTbc, NoCluster},
           formatted \subseteq formatted', formatted' \subseteq Ordinals,
           Files' \subseteq Files \union formatted',
           \A i \in Ordinals :
             job'[i].state = "complete" \/ cJob'[i].state = "complete"
               => \/ job[i].state = "complete" \/ cJob[i].state = "complete"
                  \/ HasFile(i),
           \/ UNCHANGED <<pc, scan>>
           \/ \E s \in Stages \ {"applyMarked"} : Goto(s)
           \/ pc' \notin {"formatJobs", "applyMarked"}
    PROVE  FormattedFits'
<1> SUFFICES ASSUME tbc'.uid # 0, tbc.uid # 0
             PROVE  FormattedFits'
  BY DEF FormattedFits
<1>1. Files' \subseteq formatted' /\ (cTbc'.adopt \/ me'.adopt => tbc'.adopt)
  BY Absent DEF FormattedFits
<1>2. \A i \in Ordinals :
        job'[i].state = "complete" \/ cJob'[i].state = "complete" => i \in formatted'
  BY DEF FormattedFits, Files
<1>3. pc' = "formatJobs" /\ scan'.succeeded = scan'.k =>
        \A i \in Ordinals : i < scan'.k => i \in formatted'
  <2>1. \A i \in Ordinals : ~(i < 0)
    BY NAssumption DEF Ordinals
  <2>2. QED
    BY <2>1 DEF FormattedFits, Goto, NewScan, Ended
<1>4. ~tbc'.adopt /\ (~Unbooted' \/ pc' = "applyMarked") => formatted' = Ordinals
  BY DEF FormattedFits, Unbooted, Goto
<1>5. QED
  BY <1>1, <1>2, <1>3, <1>4 DEF FormattedFits

\* The loop over the Jobs: those it counted have formatted their volume.
LEMMA FormattedFormatJob ==
    ASSUME SafeInv, FormattedFits, FormatJob
    PROVE  FormattedFits'
<1> SUFFICES ASSUME tbc.uid # 0 PROVE FormattedFits'
  BY DEF FormattedFits, FormatJob
<1> USE DEF SafeInv, GateInv, Types, TypeOK
<1>1. /\ pc = "formatJobs"
      /\ UNCHANGED <<tbc, pvc, cTbc, me, cJob, formatted, booted, lastUid>>
  BY DEF FormatJob, cache, ghost
<1>2. /\ scan.k \in Ordinals /\ scan.k \in Int /\ scan.succeeded \in Int
      /\ scan.succeeded <= scan.k /\ N \in Int /\ Ordinals \subseteq Int
  BY <1>1, NAssumption DEF IndexOK, Scans, Ordinals
<1>3. JobSeen.k = scan.k + 1
  BY DEF JobSeen
<1>4. ASSUME JobSeen.succeeded = JobSeen.k, NEW i \in Ordinals, i < JobSeen.k
      PROVE  i \in formatted
  <2>1. cJob[scan.k].state = "complete" /\ scan.succeeded = scan.k
    BY <1>2, <1>3, <1>4 DEF JobSeen, Succeeded
  <2>2. i < scan.k \/ i = scan.k
    BY <1>2, <1>3, <1>4
  <2>3. QED
    BY <1>1, <1>2, <2>1, <2>2 DEF FormattedFits
<1>5. /\ Files' \subseteq formatted' /\ (cTbc'.adopt \/ me'.adopt => tbc'.adopt)
      /\ \A i \in Ordinals :
           job'[i].state = "complete" \/ cJob'[i].state = "complete" => i \in formatted'
  <2>1. \A i \in Ordinals : job'[i].state = "complete" => job[i].state = "complete"
    BY DEF FormatJob
  <2>2. Files' = Files
    BY <1>1 DEF Files, HasFile
  <2>3. QED
    BY <1>1, <2>1, <2>2 DEF FormattedFits
<1>6. CASE scan.k + 1 < N
  <2>1. pc' = "formatJobs" /\ scan' = JobSeen
    BY <1>1, <1>6 DEF FormatJob
  <2>2. ~tbc.adopt /\ ~Unbooted => formatted = Ordinals
    BY DEF FormattedFits
  <2>3. QED
    BY <1>1, <1>4, <1>5, <2>1, <2>2 DEF FormattedFits, Unbooted
<1>7. CASE ~(scan.k + 1 < N)
  <2>1. JobSeen.k = N /\ \A i \in Ordinals : i < N
    BY <1>2, <1>3, <1>7, NAssumption DEF Ordinals
  <2>2. \/ pc' = "patchStatus"
        \/ pc' = "applyMarked" /\ JobSeen.succeeded = JobSeen.k
    BY <1>7, <2>1 DEF FormatJob, JudgeJobs, Goto, Finish
  <2>3. JobSeen.succeeded = JobSeen.k => formatted = Ordinals
    BY <1>4, <2>1
  <2>4. ~tbc.adopt /\ ~Unbooted => formatted = Ordinals
    BY DEF FormattedFits
  <2>5. QED
    BY <1>1, <1>5, <2>2, <2>3, <2>4 DEF FormattedFits, Unbooted
<1>8. QED
  BY <1>6, <1>7

\* Reconcile gets to the marker when it is there, on request, or after the Jobs.
LEMMA FormattedReconcile ==
    ASSUME SafeInv, FormattedFits, Reconcile
    PROVE  FormattedFits'
<1> USE ActsForLast, Absent DEF SafeInv, GateInv, Types, TypeOK
<1>0. UNCHANGED pvc => Files' = Files
  BY DEF Files, HasFile
<1>1. CASE SkipReconcile \/ BeginReconcile \/ ServicesWait \/ ApiError
  <2>1. "gateCached" \in Stages \ {"applyMarked"}
    BY DEF Stages
  <2>2. QED
    BY <1>0, <1>1, <2>1, FormattedFrame
       DEF SkipReconcile, BeginReconcile, ServicesWait, ApiError, Finish,
           api, cache, rec, ghost
<1>2. CASE GateCached \/ GateConfigMap \/ GateStatefulSet \/ GatePods
  <2>1. UNCHANGED <<api, cache, me, ghost>>
    BY <1>2 DEF GateCached, GateConfigMap, GateStatefulSet, GatePods
  <2>2. CASE Goto("applyMarked")
    <3>1. ~Unbooted
      BY <1>2, <2>2 DEF GateCached, GateConfigMap, GateStatefulSet, GatePods, Goto,
                        MarkersTrue, Marked
    <3>2. QED
      BY <1>0, <2>1, <2>2, <3>1 DEF FormattedFits, Goto, Unbooted, api, cache, ghost
  <2>3. CASE ~Goto("applyMarked")
    <3>1. pc' \notin {"formatJobs", "applyMarked"}
      BY <1>2, <2>3 DEF GateCached, GateConfigMap, GateStatefulSet, GatePods, Goto
    <3>2. QED
      BY <1>0, <2>1, <3>1, FormattedFrame DEF api, cache, ghost
  <2>4. QED
    BY <2>2, <2>3
<1>3. CASE GetPVC
  <2>1. UNCHANGED <<api, cache, me, ghost>> /\ pc' # "formatJobs"
    BY <1>3 DEF GetPVC, JudgeClaims, Goto, Finish
  <2>2. CASE pc' = "applyMarked"
    <3>1. me.adopt
      BY <1>3, <2>2 DEF GetPVC, JudgeClaims, Goto, Finish
    <3>2. QED
      BY <1>0, <2>1, <2>2, <3>1 DEF FormattedFits, api, cache, ghost
  <2>3. CASE pc' # "applyMarked"
    BY <1>0, <2>1, <2>3, FormattedFrame DEF api, cache, ghost
  <2>4. QED
    BY <2>2, <2>3
<1>4. CASE FormatJob
  BY <1>4, FormattedFormatJob
<1>5. CASE CreatePVC
  <2>1. Files' = Files
    BY <1>5 DEF CreatePVC, Files, HasFile, Exists
  <2>2. "formatJobs" \in Stages \ {"applyMarked"}
    BY DEF Stages
  <2>3. QED
    BY <1>5, <2>1, <2>2, FormattedFrame DEF CreatePVC, cache, ghost
<1>6. CASE ApplyUnmarked \/ ApplyStatefulSet
  BY <1>0, <1>6, FormattedFrame DEF ApplyUnmarked, ApplyStatefulSet, Goto, cache, ghost
<1>7. CASE ApplyMarked
  <2>1. me'.adopt = me.adopt /\ pc' = "applyStatefulSet" /\ pc = "applyMarked"
    BY <1>7 DEF ApplyMarked, Goto, Clusters
  <2>2. QED
    BY <1>0, <1>7, <2>1 DEF ApplyMarked, FormattedFits, cache
<1>8. CASE ListJobs \/ DeleteJobs
  <2>1. \A i \in Ordinals : job'[i].state = "complete" => job[i].state = "complete"
    BY <1>8 DEF ListJobs, DeleteJobs, api
  <2>2. QED
    BY <1>0, <1>8, <2>1, FormattedFrame DEF ListJobs, DeleteJobs, Finish, api, cache, ghost
<1>9. CASE PatchStatus
  <2>1. tbc'.uid = tbc.uid /\ tbc'.adopt = tbc.adopt /\ pc' = "idle"
    BY <1>9 DEF PatchStatus, Goto, Clusters
  <2>2. QED
    BY <1>0, <1>9, <2>1, FormattedFrame DEF PatchStatus, ghost
<1>10. CASE StatusPatchFails
  BY <1>0, <1>10, FormattedFrame DEF StatusPatchFails, Goto, api, ghost
<1>11. QED
  BY <1>1, <1>2, <1>3, <1>4, <1>5, <1>6, <1>7, <1>8, <1>9, <1>10 DEF Reconcile

\* What is made during a cluster's life is noted, whoever makes it.
LEMMA FormattedNext ==
    ASSUME AllAssumed, SafeInv, FormattedFits, Next
    PROVE  FormattedFits'
<1> USE ActsForLast, Absent DEF SafeInv, GateInv, Types, TypeOK
<1>0. UNCHANGED pvc => Files' = Files
  BY DEF Files, HasFile
<1>1. CASE Reconcile
  BY <1>1, FormattedReconcile
<1>2. CASE Operator
  <2>1. \A i \in Ordinals : cJob'[i] \in {cJob[i], LiveJobs[i]}
    BY <1>2 DEF Operator, SyncCluster, SyncConfigMap, SyncStatefulSet, SyncPods, SyncJob,
                OtherEvent, Crash, LiveJobs
  <2>2. \A i \in Ordinals : LiveJobs[i].state = "complete" <=> job[i].state = "complete"
    BY DEF LiveJobs
  <2>3. /\ UNCHANGED <<api, formatted, booted, lastUid>> /\ cTbc' \in {cTbc, tbc}
        /\ \/ UNCHANGED <<pc, scan, me>>
           \/ me' = NoCluster /\ pc' = "idle"
    BY <1>2 DEF Operator, SyncCluster, SyncConfigMap, SyncStatefulSet, SyncPods, SyncJob,
                OtherEvent, Crash, Goto, rec, ghost
  <2>4. QED
    BY <1>0, <2>1, <2>2, <2>3, FormattedFrame DEF api
<1>3. CASE Kubernetes
  <2> USE DEF cache, rec, ghost
  <2>1. ASSUME NEW i \in Ordinals,
               RunFormatPod(i) \/ JobCompletes(i) \/ JobFails(i) \/ GcJob(i)
        PROVE  FormattedFits'
    <3>1. \A j \in Ordinals : job'[j].state = "complete" =>
                                job[j].state = "complete" \/ HasFile(j)
      <4>1. CASE RunFormatPod(i) \/ JobFails(i) \/ GcJob(i)
        <5>1. \E f \in {job[i], NoJob} : \E s \in {"running", "failed", "none"} :
                job' = [job EXCEPT ![i] = [f EXCEPT !.state = s]]
          BY <4>1 DEF RunFormatPod, JobFails, GcJob, NoJob
        <5>2. QED
          BY <5>1 DEF Jobs, NoJob
      <4>2. CASE JobCompletes(i)
        BY <4>2 DEF JobCompletes
      <4>3. QED
        BY <2>1, <4>1, <4>2
    <3>2. QED
      BY <1>0, <2>1, <3>1, FormattedFrame DEF RunFormatPod, JobCompletes, JobFails, GcJob
  <2>2. ASSUME NEW i \in Ordinals, FormatWrites(i) \/ ReplicaRecovers(i)
        PROVE  FormattedFits'
    <3>1. /\ \A j \in Ordinals \ {i} : pvc'[j] = pvc[j]
          /\ formatted' = formatted \union {i}
      BY <2>2, StateChange DEF FormatWrites, ReplicaRecovers, Note
    <3>2. Files' \subseteq Files \union formatted'
      BY <3>1 DEF Files, HasFile
    <3>3. QED
      BY <2>2, <3>1, <3>2, FormattedFrame DEF FormatWrites, ReplicaRecovers
  <2>3. ASSUME NEW i \in Ordinals, StsCreatesPod(i) \/ ReplicaStarts(i) \/ VolumeLost(i)
        PROVE  FormattedFits'
    <3>1. \A j \in Ordinals : HasFile(j)' => HasFile(j)
      <4>1. CASE StsCreatesPod(i)
        BY <4>1 DEF StsCreatesPod, HasFile
      <4>2. CASE ReplicaStarts(i) \/ VolumeLost(i)
        BY <4>2, StateChange DEF ReplicaStarts, VolumeLost, HasFile
      <4>3. QED
        BY <2>3, <4>1, <4>2
    <3>2. Files' \subseteq Files
      BY <3>1 DEF Files
    <3>3. QED
      BY <2>3, <3>2, FormattedFrame DEF StsCreatesPod, ReplicaStarts, VolumeLost
  <2>4. ASSUME NEW i \in Ordinals, PodGone(i) PROVE FormattedFits'
    BY <1>0, <2>4, FormattedFrame DEF PodGone
  <2>5. CASE GcConfigMap \/ GcStatefulSet
    BY <1>0, <2>5, FormattedFrame DEF GcConfigMap, GcStatefulSet
  <2>6. CASE FinishDelete
    BY <2>6 DEF FinishDelete, FormattedFits
  <2>7. QED
    BY <1>3, <2>1, <2>2, <2>3, <2>4, <2>5, <2>6 DEF Kubernetes
<1>4. CASE Users
  <2> USE DEF cache, rec, ghost
  <2>1. ASSUME NEW adopt \in BOOLEAN, CreateCluster(adopt) PROVE FormattedFits'
    <3>1. /\ cTbc = NoCluster /\ me = NoCluster /\ pc = "idle"
          /\ \A i \in Ordinals : job[i].state = "none" /\ cJob[i].state = "none"
      BY <2>1 DEF CreateCluster, CachesInSync, AllAssumed, MarkersTrue
    <3>2. ~(~Unbooted' \/ pc' = "applyMarked") /\ pc' # "formatJobs"
      BY <2>1, <3>1 DEF CreateCluster, Unbooted
    <3>3. Files' \subseteq formatted'
      BY <1>0, <2>1 DEF CreateCluster
    <3>4. QED
      BY <2>1, <3>1, <3>2, <3>3 DEF CreateCluster, FormattedFits
  <2>2. CASE AnnotateAdopt \/ DeleteCluster
    <3>1. tbc'.uid # 0 => tbc.uid # 0 /\ (tbc.adopt => tbc'.adopt)
      BY <2>2 DEF AnnotateAdopt, DeleteCluster, Clusters
    <3>2. QED
      BY <1>0, <2>2, <3>1, FormattedFrame DEF AnnotateAdopt, DeleteCluster
  <2>3. CASE DeleteConfigMap \/ DeleteStatefulSet
    BY <1>0, <2>3, FormattedFrame DEF DeleteConfigMap, DeleteStatefulSet
  <2>4. ASSUME NEW i \in Ordinals, DeleteJob(i) PROVE FormattedFits'
    <3>1. \A j \in Ordinals : job'[j].state = "complete" => job[j].state = "complete"
      BY <2>4 DEF DeleteJob
    <3>2. QED
      BY <1>0, <2>4, <3>1, FormattedFrame DEF DeleteJob
  <2>5. ASSUME NEW i \in Ordinals, DeletePVC(i) PROVE FormattedFits'
    <3>1. \A j \in Ordinals : HasFile(j)' => HasFile(j)
      BY <2>5 DEF DeletePVC, HasFile
    <3>2. Files' \subseteq Files
      BY <3>1 DEF Files
    <3>3. QED
      BY <2>5, <3>2, FormattedFrame DEF DeletePVC
  <2>6. ASSUME NEW i \in Ordinals, RestoreVolume(i) PROVE FormattedFits'
    BY <2>6 DEF RestoreVolume, AllAssumed, FormattedFits
  <2>7. QED
    BY <1>4, <2>1, <2>2, <2>3, <2>4, <2>5, <2>6 DEF Users
<1>5. QED
  BY <1>1, <1>2, <1>3, <1>4 DEF Next

\* status.bootstrapped means that every replica has been formatted in the life of
\* this cluster object, unless it was told to adopt data.
THEOREM BootstrappedTellsTruth ==
    ASSUME AllAssumed
    PROVE  Spec => []BootstrappedMeansFormatted
<1> DEFINE Inv == SafeInv /\ FormattedFits
<1>1. Init => Inv
  BY SafeInit, FormattedInit
<1>2. Inv /\ [Next]_vars => Inv'
  <2> SUFFICES ASSUME Inv, [Next]_vars PROVE FormattedFits'
    BY SafeNext
  <2>1. CASE UNCHANGED vars
    BY <2>1 DEF vars, api, cache, rec, ghost, FormattedFits, Files, HasFile, Unbooted
  <2>2. QED
    BY <2>1, FormattedNext
<1>3. Inv => BootstrappedMeansFormatted
  BY Absent DEF SafeInv, MarkersTrue, FormattedFits, BootstrappedMeansFormatted
<1>4. QED
  BY <1>1, <1>2, <1>3, PTL DEF Spec

-----------------------------------------------------------------------------
(* Bootstrap implements ReplicaData *)

\* What the volumes hold, as ReplicaData sees it.
LEMMA ContentOf ==
    /\ DOMAIN Content = Ordinals
    /\ \A i \in Ordinals :
         Content[i] = IF HasFile(i) THEN pvc[i].state ELSE "none"
  BY DEF Content

\* A change of one volume is a change of its content; of the others nothing is seen.
LEMMA ContentChange ==
    ASSUME NEW i \in Ordinals, \A j \in Ordinals \ {i} : pvc'[j] = pvc[j]
    PROVE  Content' = [Content EXCEPT
               ![i] = IF HasFile(i)' THEN pvc'[i].state ELSE "none"]
  BY DEF Content, HasFile

\* A claim without a file comes or goes unseen.
LEMMA ContentSame ==
    ASSUME \A i \in Ordinals : \/ pvc'[i] = pvc[i]
                               \/ ~HasFile(i) /\ ~HasFile(i)'
    PROVE  Content' = Content
  BY DEF Content, HasFile

\* Only what nobody has run on is formatted, see BootstrapAlone.
LEMMA FormatIsFormat ==
    ASSUME SafeInv, NEW i \in Ordinals, FormatWrites(i)
    PROVE  Data!Format(i)
<1>1. i \notin ran
  <2>1. Unbooted
    BY DEF SafeInv, FormattingOver, FormatWrites, Unfinished
  <2>2. job[i].state # "none"
    BY DEF FormatWrites
  <2>3. QED
    BY <2>1, <2>2 DEF SafeInv, BootstrapAlone, Attached, Begun
<1>2. Content[i] = "none" /\ ran' = ran
  BY ContentOf DEF FormatWrites
<1>3. /\ \A j \in Ordinals \ {i} : pvc'[j] = pvc[j]
      /\ pvc'[i].state = "formatted"
  BY StateChange DEF FormatWrites, SafeInv, GateInv
<1>4. Content' = [Content EXCEPT ![i] = "formatted"]
  BY <1>3, ContentChange DEF HasFile
<1>5. QED
  BY <1>1, <1>2, <1>4 DEF Data!Format

\* TigerBeetle starts on a data file.
LEMMA StartIsStart ==
    ASSUME SafeInv, NEW i \in Ordinals, ReplicaStarts(i)
    PROVE  Data!Start(i)
<1>1. Content[i] # "none" /\ ran' = ran \union {i}
  BY ContentOf DEF ReplicaStarts, HasFile
<1>2. /\ \A j \in Ordinals \ {i} : pvc'[j] = pvc[j]
      /\ pvc'[i].state = "data"
  BY StateChange DEF ReplicaStarts, SafeInv, GateInv
<1>3. Content' = [Content EXCEPT ![i] = "data"]
  BY <1>2, ContentChange DEF HasFile
<1>4. QED
  BY <1>1, <1>3 DEF Data!Start

\* A lost file is rebuilt while all others run, so they have data.
LEMMA RecoverIsRecover ==
    ASSUME SafeInv, NEW i \in Ordinals, ReplicaRecovers(i)
    PROVE  Data!Recover(i)
<1>1. Content[i] = "none" /\ ran' = ran
  BY ContentOf DEF ReplicaRecovers
<1>2. Ordinals # {i}
  <2>1. 0 \in Ordinals /\ 1 \in Ordinals
    BY NAssumption DEF ReplicaRecovers, Ordinals
  <2>2. QED
    BY <2>1
<1>3. ASSUME NEW j \in Ordinals \ {i} PROVE Content[j] = "data" /\ j \in ran
  BY <1>3, ContentOf DEF ReplicaRecovers, SafeInv, RanFits, HasFile
<1>4. /\ \A j \in Ordinals \ {i} : pvc'[j] = pvc[j]
      /\ pvc'[i].state = "data"
  BY StateChange DEF ReplicaRecovers, SafeInv, GateInv
<1>5. Content' = [Content EXCEPT ![i] = "data"]
  BY <1>4, ContentChange DEF HasFile
<1>6. QED
  BY <1>1, <1>2, <1>3, <1>5 DEF Data!Recover

\* With the last file the history ends; without a file nothing is lost.
LEMMA LossIsLose ==
    ASSUME SafeInv, NEW i \in Ordinals, ran' = RanAfter(Files \ {i}),
           ~HasFile(i)', \A j \in Ordinals \ {i} : pvc'[j] = pvc[j]
    PROVE  IF HasFile(i) THEN Data!Lose(i) ELSE Content' = Content /\ ran' = ran
<1>1. CASE HasFile(i)
  <2>1. Content' = [Content EXCEPT ![i] = "none"]
    BY ContentChange
  <2>2. Data!Lost' <=> Files \ {i} = {}
    <3>1. \A j \in Ordinals : Content'[j] = "none" <=> j \notin Files \ {i}
      BY <2>1, ContentOf DEF Files, HasFile
    <3>2. Data!Lost' <=> \A j \in Ordinals : Content'[j] = "none"
      BY DEF Data!Lost
    <3>3. Files \subseteq Ordinals
      BY DEF Files
    <3>4. QED
      BY <3>1, <3>2, <3>3
  <2>3. Content[i] # "none"
    BY <1>1, ContentOf DEF HasFile
  <2>4. QED
    BY <1>1, <2>1, <2>2, <2>3 DEF Data!Lose, RanAfter
<1>2. CASE ~HasFile(i)
  <2>1. Files \ {i} = Files
    BY <1>2 DEF Files
  <2>2. ran' = ran
    BY <2>1 DEF RanAfter, SafeInv, RanFits
  <2>3. QED
    BY <1>2, <2>2, ContentSame
<1>3. QED
  BY <1>1, <1>2

\* A volume that comes back counts as one that every replica has run on.
LEMMA RestoreIsRestore ==
    ASSUME SafeInv, NEW i \in Ordinals, RestoreVolume(i)
    PROVE  Data!Restore(i)
<1>1. Content[i] = "none" /\ ran' = Ordinals
  BY ContentOf DEF RestoreVolume, Exists, HasFile
<1>2. /\ \A j \in Ordinals \ {i} : pvc'[j] = pvc[j]
      /\ pvc'[i].state = "data"
  BY DEF RestoreVolume, SafeInv, GateInv, Types, TypeOK
<1>3. Content' = [Content EXCEPT ![i] = "data"]
  BY <1>2, ContentChange DEF HasFile
<1>4. QED
  BY <1>1, <1>3 DEF Data!Restore

\* Every step of Bootstrap is one of ReplicaData or changes nothing it knows.
LEMMA DataNext ==
    ASSUME SafeInv, [Next]_vars
    PROVE  [Data!Next]_(Data!vars)
<1>0. UNCHANGED <<pvc, ran>> => UNCHANGED Data!vars
  BY ContentSame DEF Data!vars
<1>1. ASSUME Reconcile PROVE UNCHANGED Data!vars
  <2>1. CASE CreatePVC
    <3>1. \A i \in Ordinals : pvc'[i] = pvc[i] \/ (~HasFile(i) /\ ~HasFile(i)')
      BY <2>1 DEF CreatePVC, HasFile, Exists, SafeInv, GateInv, Types, TypeOK
    <3>2. QED
      BY <2>1, <3>1, ContentSame DEF CreatePVC, ghost, Data!vars
  <2>2. CASE ~CreatePVC
    BY <1>0, <1>1, <2>2
       DEF Reconcile, SkipReconcile, BeginReconcile, ServicesWait, ApiError, GateCached,
           GateConfigMap, GateStatefulSet, GatePods, GetPVC, ApplyUnmarked, FormatJob,
           ApplyMarked, ApplyStatefulSet, ListJobs, DeleteJobs, PatchStatus, StatusPatchFails,
           api, ghost
  <2>3. QED
    BY <2>1, <2>2
<1>2. ASSUME Operator PROVE UNCHANGED Data!vars
  BY <1>0, <1>2 DEF Operator, SyncCluster, SyncConfigMap, SyncStatefulSet, SyncPods,
                    SyncJob, OtherEvent, Crash, api, ghost
<1>3. ASSUME Kubernetes PROVE Data!Next \/ UNCHANGED Data!vars
  <2> USE DEF ghost
  <2>1. ASSUME NEW i \in Ordinals, RunFormatPod(i) \/ JobCompletes(i) \/ JobFails(i)
                                   \/ GcJob(i) \/ PodGone(i)
        PROVE  UNCHANGED Data!vars
    BY <1>0, <2>1 DEF RunFormatPod, JobCompletes, JobFails, GcJob, PodGone
  <2>2. ASSUME NEW i \in Ordinals, FormatWrites(i) \/ ReplicaStarts(i) \/ ReplicaRecovers(i)
        PROVE  Data!Next
    BY <2>2, FormatIsFormat, StartIsStart, RecoverIsRecover DEF Data!Next
  <2>3. ASSUME NEW i \in Ordinals, StsCreatesPod(i) PROVE UNCHANGED Data!vars
    <3>1. \A j \in Ordinals : pvc'[j] = pvc[j] \/ (~HasFile(j) /\ ~HasFile(j)')
      BY <2>3 DEF StsCreatesPod, HasFile, Exists, SafeInv, GateInv, Types, TypeOK
    <3>2. QED
      BY <2>3, <3>1, ContentSame DEF StsCreatesPod, Data!vars
  <2>4. ASSUME NEW i \in Ordinals, VolumeLost(i) PROVE Data!Next
    <3>1. pvc'[i].state = "empty" /\ \A j \in Ordinals \ {i} : pvc'[j] = pvc[j]
      BY <2>4, StateChange DEF VolumeLost, SafeInv, GateInv
    <3>2. Data!Lose(i)
      BY <2>4, <3>1, LossIsLose DEF VolumeLost, HasFile
    <3>3. QED
      BY <3>2 DEF Data!Next
  <2>5. CASE GcConfigMap \/ GcStatefulSet \/ FinishDelete
    BY <1>0, <2>5 DEF GcConfigMap, GcStatefulSet, FinishDelete
  <2>6. QED
    BY <1>3, <2>1, <2>2, <2>3, <2>4, <2>5 DEF Kubernetes
<1>4. ASSUME Users PROVE Data!Next \/ UNCHANGED Data!vars
  <2> USE DEF ghost
  <2>1. ASSUME NEW i \in Ordinals, DeletePVC(i) PROVE Data!Next \/ UNCHANGED Data!vars
    <3>1. ~HasFile(i)' /\ \A j \in Ordinals \ {i} : pvc'[j] = pvc[j]
      BY <2>1, Absent DEF DeletePVC, HasFile, SafeInv, GateInv, Types, TypeOK
    <3>2. Data!Lose(i) \/ UNCHANGED Data!vars
      BY <2>1, <3>1, LossIsLose DEF DeletePVC, Data!vars
    <3>3. QED
      BY <3>2 DEF Data!Next
  <2>2. ASSUME NEW i \in Ordinals, RestoreVolume(i) PROVE Data!Next
    BY <2>2, RestoreIsRestore DEF Data!Next
  <2>3. CASE ~\E i \in Ordinals : DeletePVC(i) \/ RestoreVolume(i)
    BY <1>0, <1>4, <2>3 DEF Users, CreateCluster, AnnotateAdopt, DeleteCluster,
           DeleteConfigMap, DeleteStatefulSet, DeleteJob
  <2>4. QED
    BY <2>1, <2>2, <2>3
<1>5. CASE UNCHANGED vars
  BY <1>0, <1>5 DEF vars, api, ghost
<1>6. QED
  BY <1>1, <1>2, <1>3, <1>4, <1>5 DEF Next

\* The initial volumes are ones ReplicaData may start with.
LEMMA DataInit == Init => Data!Init
<1> SUFFICES ASSUME Init PROVE Data!Init
  OBVIOUS
<1>1. PICK restored \in SUBSET Ordinals :
        /\ pvc = [i \in Ordinals |->
               IF i \in restored THEN [label |-> 0, state |-> "data"] ELSE NoClaim]
        /\ ran = IF restored = {} THEN {} ELSE Ordinals
  BY DEF Init
<1>2. \A i \in Ordinals : HasFile(i) <=> i \in restored
  BY <1>1 DEF HasFile, NoClaim
<1>3. \A i \in Ordinals : Content[i] = IF i \in restored THEN "data" ELSE "none"
  BY <1>1, <1>2, ContentOf
<1>4. Content \in [Ordinals -> {"none", "data"}]
  BY <1>3 DEF Content
<1>5. Data!Lost <=> restored = {}
  BY <1>3 DEF Data!Lost
<1>6. QED
  BY <1>1, <1>4, <1>5 DEF Data!Init

\* Bootstrap implements ReplicaData: a data file is formatted only for a replica
\* that has not run on the data that is still there, started only where there is
\* one, and recovered only out of all the others.
THEOREM DataIsSafe ==
    ASSUME AllAssumed
    PROVE  Spec => DataSafe
<1>1. SafeInv /\ [Next]_vars => [Data!Next]_(Data!vars)
  BY DataNext
<1>2. QED
  BY <1>1, DataInit, SafeAlways, PTL DEF Spec, DataSafe, Data!Spec
=============================================================================
