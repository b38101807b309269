-------------------------------- MODULE Status --------------------------------
(***************************************************************************)
(* What the operator tells of a cluster: conditions, phase, observed       *)
(* generation and current image.                                           *)
(*                                                                         *)
(* Every reconcile ends in setStatus, which rewrites the copy of the       *)
(* status that the reconcile began with, and in a patch of the fields in   *)
(* which the result differs from that copy; the conditions are one field.  *)
(* The copy is from a cache and may be older than what is stored, even     *)
(* than what the operator itself has written last.                         *)
(*                                                                         *)
(* A spec is its image.  Why replicas are not ready is as much of the      *)
(* world as the conditions tell apart (Rollout and Recovery have the       *)
(* rest).  Left out: messages, events, transition times, the condition     *)
(* Bootstrapped, which repeats a field, and Services that have no IP yet.  *)
(***************************************************************************)
EXTENDS Integers

CONSTANTS
    Images,         \* what users write
    Invalid,        \* the specs among them that the operator cannot work with
    MaxEdits,       \* bound: changes of the spec
    MaxFaults       \* bound: replicas that fail, failed calls, crashes

ASSUME ImagesAssumption == Invalid \subseteq Images /\ Invalid # Images
ASSUME BoundsAssumption == MaxEdits \in Nat /\ MaxFaults \in Nat

None == "none"
ASSUME NoneAssumption == None \notin Images

VARIABLES
    cluster, cached,    \* the TigerBeetleCluster, and the operator's cached copy
    jobs,               \* the format Jobs
    applied, rollout,   \* the StatefulSet: what it runs and how far it has got
    pods,               \* the replicas; "stuck" is for a user to resolve
    queue, pc,          \* the operator: work queue and next step,
    orig, now,          \* the copy it began with, the status as it is rewritten,
    found,              \* the reasons found
    faults,
    complete,           \* history: generations whose rollout was seen complete
    verdict,            \* history: the last outcome written that was no error
    mixed               \* history: the status is a patch on what was not read

world   == <<jobs, applied, rollout, pods>>
rec     == <<pc, orig, now, found>>
history == <<complete, verdict, mixed>>
vars    == <<cluster, cached, world, queue, rec, faults, history>>

-----------------------------------------------------------------------------

Generations == 0 .. MaxEdits + 1
Reasons == {"ReplicaFailing", "InvalidSpec", "Stalled", "NotStalled", "ReconcileError",
            "Bootstrapping", "Starting", "Recovering", "RolloutInProgress",
            "ReplicaUnavailable", "AllReplicasReady", "Reconciled"}

Condition(value, reason, gen) == [value |-> value, reason |-> reason, gen |-> gen]
Absent == Condition(FALSE, None, 0)
Conditions == [value : BOOLEAN, reason : Reasons \union {None}, gen : Generations]
Phases == {None, "Bootstrapping", "Starting", "Upgrading", "Ready", "Degraded"}

Statuses ==
    [conds : [ready : Conditions, reconciling : Conditions, stalled : Conditions],
     phase : Phases, observed : Generations, bootstrapped : BOOLEAN,
     image : Images \union {None}]
NoStatus ==
    [conds |-> [ready |-> Absent, reconciling |-> Absent, stalled |-> Absent],
     phase |-> None, observed |-> 0, bootstrapped |-> FALSE, image |-> None]

\* The reasons that a reconcile gives for Ready and for Reconciling.
Findings == [ready : Reasons, reconciling : Reasons]

Clusters == [gen : Generations \ {0}, spec : Images, status : Statuses]
Nothing == [ready |-> None, reconciling |-> None]
NoCluster == [gen |-> 1, spec |-> CHOOSE i \in Images : TRUE, status |-> NoStatus]

\* A status speaks of no generation that users have not made, and has a phase
\* as soon as it has conditions.
TypeOK ==
    /\ cluster \in Clusters /\ cached \in Clusters /\ orig \in Clusters
    /\ now \in Statuses /\ found \in Findings \union {Nothing}
    /\ LET status == cluster.status IN
         /\ status.observed <= cluster.gen
         /\ status.conds.ready.gen <= cluster.gen
         /\ (status.phase = None) = (status.conds.ready = Absent)
    /\ jobs \in {"none", "running", "complete"} /\ applied \in Images \union {None}
    /\ rollout \in {"pending", "running", "done"}
    /\ pods \in {"ready", "starting", "recovering", "failing", "stuck"}
    /\ queue \in BOOLEAN /\ pc \in {"idle", "apply", "observe", "patch"}
    /\ faults \in 0 .. MaxFaults
    /\ complete \subseteq Generations /\ verdict \in {None, "Ready", "Unready", "Degraded"}
    /\ mixed \in BOOLEAN

Init ==
    /\ \E i \in Images : cluster = [gen |-> 1, spec |-> i, status |-> NoStatus]
    /\ cached = cluster
    /\ jobs = "none" /\ applied = None /\ rollout = "pending" /\ pods = "starting"
    /\ queue = TRUE /\ pc = "idle" /\ orig = NoCluster /\ now = NoStatus /\ found = Nothing
    /\ faults = 0 /\ complete = {} /\ verdict = None /\ mixed = FALSE

Fault == faults < MaxFaults /\ faults' = faults + 1

-----------------------------------------------------------------------------
(* The operator *)

BeginReconcile ==
    /\ pc = "idle" /\ queue
    /\ queue' = FALSE /\ pc' = "apply"
    /\ orig' = cached /\ now' = cached.status
    /\ UNCHANGED <<cluster, cached, world, found, faults, history>>

Found(ready, reconciling) ==
    found' = [ready |-> ready, reconciling |-> reconciling] /\ pc' = "patch"

RefuseSpec ==
    /\ pc = "apply" /\ orig.spec \in Invalid
    /\ Found("InvalidSpec", "Stalled")
    /\ UNCHANGED <<cluster, cached, world, queue, orig, now, faults, history>>

StillFormatting ==
    /\ pc = "apply" /\ orig.spec \notin Invalid /\ jobs # "complete"
    /\ jobs' = "running"
    /\ Found("Bootstrapping", "Bootstrapping")
    /\ UNCHANGED <<cluster, cached, applied, rollout, pods, queue, orig, now, faults, history>>

ApplyStatefulSet ==
    /\ pc = "apply" /\ orig.spec \notin Invalid /\ jobs = "complete"
    /\ now' = [now EXCEPT !.bootstrapped = TRUE]
    /\ applied' = orig.spec
    /\ rollout' = IF applied = orig.spec THEN rollout ELSE "pending"
    /\ pc' = "observe"
    /\ UNCHANGED <<cluster, cached, jobs, pods, queue, orig, found, faults, history>>

\* observeReplicas.  The StatefulSet and the pods are read at one moment.
AllReady_Bug == pods = "ready"
AllReady == rollout = "done" /\ pods = "ready"

\* notReadyReasons
ReadyReason == IF rollout # "done" /\ orig.status.image # None THEN "RolloutInProgress"
               ELSE "ReplicaUnavailable"
NotReady ==
    CASE pods = "failing"           -> Found("ReplicaFailing", "ReplicaFailing")
      [] pods = "recovering"        -> Found(ReadyReason, "Recovering")
      [] OTHER -> Found(ReadyReason, IF orig.status.image = None THEN "Starting" ELSE ReadyReason)

Observe ==
    /\ pc = "observe"
    /\ now' = [now EXCEPT !.image = IF AllReady THEN orig.spec ELSE @]
    /\ CASE pods = "stuck" -> Found("ReplicaFailing", "Stalled")      \* needsAction
         [] AllReady       -> Found("AllReplicasReady", "Reconciled")
         [] OTHER          -> NotReady
    /\ complete' = IF rollout = "done" THEN complete \union {orig.gen} ELSE complete
    /\ UNCHANGED <<cluster, cached, world, queue, orig, faults, verdict, mixed>>

\* A call fails.
ApiError ==
    /\ pc \in {"apply", "observe"} /\ orig.spec \notin Invalid
    /\ Found("ReconcileError", "ReconcileError")
    /\ Fault
    /\ UNCHANGED <<cluster, cached, world, queue, orig, now, history>>

\* The conditions that setStatus makes of the outcome.  An error that may pass
\* leaves Ready alone.
TheConditions(ready, reconciling, stalled) ==
    [ready       |-> Condition(ready, found.ready, orig.gen),
     reconciling |-> Condition(reconciling, found.reconciling, orig.gen),
     stalled     |-> Condition(stalled, IF stalled THEN found.ready ELSE "NotStalled", orig.gen)]
WhileReconciling == TheConditions(FALSE, TRUE, FALSE)

AfterError_Unready == WhileReconciling
AfterError == IF now.conds.ready = Absent THEN WhileReconciling
              ELSE [WhileReconciling EXCEPT !.ready = now.conds.ready]

Error   == found.ready = "ReconcileError"
Stalled == found.reconciling = "Stalled"
Ready   == found.ready = "AllReplicasReady"

NewConditions ==
    IF Error THEN AfterError
    ELSE IF Stalled THEN TheConditions(FALSE, FALSE, TRUE)
    ELSE IF Ready THEN TheConditions(TRUE, FALSE, FALSE)
    ELSE WhileReconciling

PhaseAfterError_Bug == now.phase
PhaseAfterError == IF now.phase = None THEN "Bootstrapping" ELSE now.phase

NewPhase ==
    IF Error THEN PhaseAfterError
    ELSE IF Stalled THEN "Degraded"
    ELSE IF Ready THEN "Ready"
    ELSE IF found.ready = "Bootstrapping" THEN "Bootstrapping"
    ELSE IF orig.status.image \in {None, orig.spec} THEN "Starting"
    ELSE "Upgrading"

NewStatus ==
    [now EXCEPT !.conds = NewConditions, !.phase = NewPhase,
                !.observed = IF Error THEN @ ELSE orig.gen]

\* Otherwise the next reconcile is left to an event.
Requeue == found.ready \notin {"Bootstrapping", "AllReplicasReady"}

EndReconcile == pc' = "idle" /\ orig' = NoCluster /\ now' = NoStatus /\ found' = Nothing

PatchStatus ==
    /\ pc = "patch"
    /\ cluster' = [cluster EXCEPT !.status =
         [field \in DOMAIN NoStatus |->
            IF NewStatus[field] = orig.status[field] THEN @[field] ELSE NewStatus[field]]]
    /\ queue' = (queue \/ Requeue)
    /\ verdict' = IF Error THEN verdict
                  ELSE IF Stalled THEN "Degraded"
                  ELSE IF Ready THEN "Ready" ELSE "Unready"
    /\ mixed' = \/ orig.status # cluster.status
                \/ mixed /\ Error
    /\ EndReconcile
    /\ UNCHANGED <<cached, world, faults, complete>>

StatusPatchFails ==
    /\ pc = "patch"
    /\ queue' = TRUE
    /\ EndReconcile /\ Fault
    /\ UNCHANGED <<cluster, cached, world, history>>

Crash ==
    /\ pc # "idle"
    /\ cached' = cluster /\ queue' = TRUE
    /\ EndReconcile /\ Fault
    /\ UNCHANGED <<cluster, world, history>>

\* The TigerBeetleCluster is watched, its status too.
Sync_Bug ==                     \* only a new generation wakes the operator
    /\ cached # cluster
    /\ cached' = cluster /\ queue' = (queue \/ cached.gen # cluster.gen)
    /\ UNCHANGED <<cluster, world, rec, faults, history>>

Sync ==
    /\ cached # cluster
    /\ cached' = cluster /\ queue' = TRUE
    /\ UNCHANGED <<cluster, world, rec, faults, history>>

Reconcile ==
    \/ BeginReconcile \/ RefuseSpec \/ StillFormatting \/ ApplyStatefulSet
    \/ Observe \/ PatchStatus

Operator == Reconcile \/ ApiError \/ StatusPatchFails \/ Crash \/ Sync

-----------------------------------------------------------------------------
(* The replicas and users *)

OutsideOperator == UNCHANGED <<cached, rec, history>>

\* The last format Job completes.
FormatDone ==
    /\ jobs = "running"
    /\ jobs' = "complete" /\ queue' = TRUE
    /\ UNCHANGED <<cluster, applied, rollout, pods, faults>> /\ OutsideOperator

\* The StatefulSet replaces a pod, and its status says so.
RolloutStarts ==
    /\ applied # None /\ rollout = "pending"
    /\ rollout' = "running" /\ pods' = "starting" /\ queue' = TRUE
    /\ UNCHANGED <<cluster, jobs, applied, faults>> /\ OutsideOperator

RolloutDone ==
    /\ rollout = "running" /\ pods = "ready"
    /\ rollout' = "done" /\ queue' = TRUE
    /\ UNCHANGED <<cluster, jobs, applied, pods, faults>> /\ OutsideOperator

\* The number of ready replicas changes, which the StatefulSet's status tells.
PodsBecomeReady ==
    /\ applied # None /\ pods # "ready"
    /\ pods' = "ready" /\ queue' = TRUE
    /\ UNCHANGED <<cluster, jobs, applied, rollout, faults>> /\ OutsideOperator

PodStopsBeingReady ==
    /\ pods = "ready"
    /\ pods' = "starting" /\ queue' = TRUE
    /\ Fault
    /\ UNCHANGED <<cluster, jobs, applied, rollout>> /\ OutsideOperator

\* Why a pod is not ready changes without an event that wakes the operator.
PodsGetWorse ==
    /\ applied # None
    /\ \/ pods = "starting" /\ pods' \in {"failing", "recovering"}
       \/ pods \in {"failing", "recovering"} /\ pods' = "stuck"
    /\ UNCHANGED <<cluster, jobs, applied, rollout, queue, faults>> /\ OutsideOperator

EditSpec(i) ==
    /\ i # cluster.spec /\ cluster.gen <= MaxEdits
    /\ cluster' = [cluster EXCEPT !.spec = i, !.gen = @ + 1]
    /\ UNCHANGED <<world, queue, faults>> /\ OutsideOperator

Next ==
    \/ Operator
    \/ FormatDone \/ RolloutStarts \/ RolloutDone
    \/ PodsBecomeReady \/ PodStopsBeingReady \/ PodsGetWorse
    \/ \E i \in Images : EditSpec(i)

Spec == Init /\ [][Next]_vars

\* Nothing is assumed of the replicas: they may stay as they are for good.
FairSpec == Spec /\ WF_vars(Reconcile) /\ WF_vars(Sync)

-----------------------------------------------------------------------------
(* Properties *)

\* What the health check of argocd-health-check.md makes of the status.
Health ==
    LET conds == cluster.status.conds
    IN  IF cluster.status.observed < cluster.gen THEN "Progressing"
        ELSE IF conds.stalled.value THEN "Degraded"
        ELSE IF conds.reconciling.value THEN "Progressing"
        ELSE IF conds.ready.value THEN "Healthy"
        ELSE "Progressing"

\* A cluster looks Healthy only after a reconcile of its latest spec has seen the
\* rollout of it complete, however stale the copies are that the patches were
\* made from (setStatus, argocd-health-check.md).
HealthySound == Health = "Healthy" => cluster.gen \in complete

\* Conditions never contradict each other: a stalled cluster is neither Ready nor
\* Reconciling, and one that is neither stalled nor Reconciling is Ready.
OneVerdict ==
    LET conds == cluster.status.conds
    IN  conds.ready # Absent =>
          IF conds.stalled.value THEN ~conds.reconciling.value /\ ~conds.ready.value
          ELSE conds.reconciling.value \/ conds.ready.value

\* However many reconciles fail on the way, Ready and phase stay what the last
\* one that did not fail has found, unless the status was patched from a copy
\* older than itself (setStatus: "keep Ready and phase as they were").
HealthKept ==
    ~mixed /\ verdict # None =>
        /\ cluster.status.conds.ready.value = (verdict = "Ready")
        /\ (cluster.status.phase = "Ready") = (verdict = "Ready")
        /\ (cluster.status.phase = "Degraded") = (verdict = "Degraded")

\* Once users and faults leave the cluster alone, its status tells the truth,
\* although the copies that were patched may have been stale and pods wake nobody.
Truth ==
    IF cluster.spec \in Invalid \/ pods = "stuck" THEN "Degraded"
    ELSE IF applied = cluster.spec /\ AllReady THEN "Healthy"
    ELSE "Progressing"
StatusArrives == <>[](Health = Truth)
=============================================================================
