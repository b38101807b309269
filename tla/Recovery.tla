------------------------------- MODULE Recovery -------------------------------
(***************************************************************************)
(* The recovery of replicas that lost their data file, after bootstrap.    *)
(*                                                                         *)
(* The recover init container of a pod finds the data file missing.  With  *)
(* recoveryPolicy Manual it waits until the operator has annotated its     *)
(* pod, which the operator does once a user has listed the pod's UID in    *)
(* the approve-recovery annotation of the TigerBeetleCluster.  The         *)
(* operator lists pods from its cache, which lags behind, and is not woken *)
(* by them: it comes back because a reconcile that left something to do    *)
(* is requeued, or because the StatefulSet's status has changed.           *)
(*                                                                         *)
(* Pods are the incarnations of the one pod name each ordinal has; a uid   *)
(* of 0 stands for no pod.  Left out: rollouts (Rollout), pods that fail   *)
(* for other reasons than a missing data file, external replicas, and how  *)
(* the status is patched (Status): here its report is written as it is.    *)
(***************************************************************************)
EXTENDS Integers, FiniteSets

CONSTANTS
    Sizes,          \* what spec.replicas may be
    Policies,       \* what spec.recoveryPolicy may be
    MaxUid,         \* bound: pods ever created
    MaxFaults,      \* bound: pods and files lost, failed calls, crashes
    Assumed         \* what is assumed of pods:
                    \* "PodsCurrent"  a pod's name is not used again before the
                    \*                operator has seen its predecessor go
                    \* "OneLossEach"  a pod that has recovered is replaced
                    \*                before its data file is lost again

ASSUME SizesAssumption == Sizes \subseteq Nat \ {0} /\ IsFiniteSet(Sizes)
ASSUME PoliciesAssumption == Policies \subseteq {"Automatic", "Manual"}
ASSUME BoundsAssumption ==
    MaxUid \in Nat /\ MaxFaults \in Nat /\ \A n \in Sizes : n <= MaxUid
ASSUME AssumedAssumption == Assumed \subseteq {"PodsCurrent", "OneLossEach"}

Ordinals == UNION {0 .. n - 1 : n \in Sizes}
Uids == 0 .. MaxUid

VARIABLES
    replicas,       \* spec.replicas, immutable
    policy,         \* spec.recoveryPolicy, which nobody changes
    \* What the API server and the volumes hold.
    pod,            \* per ordinal: uid, the recovery-approved annotation, the
                    \* kubelet's copy of it, and how far the pod has come
    file,           \* the ordinals that have their data file
    ready,          \* status.readyReplicas of the StatefulSet
    anno,           \* the UIDs in the approve-recovery annotation
    awaiting,       \* the UIDs the Stalled condition asks to approve
    dataLost,       \* whether it says that the only replica's data is lost
    \* The operator's cache and queue, and the running Reconcile call.
    cPod, cAnno, queue,
    pc, me, seen, k, allReady,
    \* History.
    listed,         \* UIDs a user has ever listed
    spent,          \* UIDs of pods that have recovered their data file
    lastUid, faults

spec    == <<replicas, policy>>
cluster == <<spec, pod, file, ready, anno, lastUid>>
status  == <<awaiting, dataLost>>
cache   == <<cPod, cAnno, queue>>
rec     == <<pc, me, seen, k, allReady>>
ghost   == <<listed, spent>>
vars    == <<cluster, status, cache, rec, ghost, faults>>

-----------------------------------------------------------------------------

Steps == {"pending", "recover", "recovering", "ready"}
Pods  == [uid : Uids, approved : BOOLEAN, info : BOOLEAN, step : Steps]
Views == [uid : Uids, approved : BOOLEAN, recovering : BOOLEAN, ready : BOOLEAN]
NoPod == [uid |-> 0, approved |-> FALSE, info |-> FALSE, step |-> "pending"]

Replicas  == 0 .. replicas - 1
Exists(i) == pod[i].uid # 0
Waits(i)  == pod[i].step = "recover"
ReadyPods == {i \in Ordinals : pod[i].step = "ready"}

\* What a pod's object shows: annotations, and whether the recover init
\* container is running (initContainerStartedAt) or the pod ready (podReady).
View(p) == [uid |-> p.uid, approved |-> p.approved,
            recovering |-> p.step \in {"recover", "recovering"}, ready |-> p.step = "ready"]

\* A view belongs to a pod that exists, and a pod is not ready while it recovers.
TypeOK ==
    /\ replicas \in Sizes /\ policy \in Policies
    /\ pod \in [Ordinals -> Pods] /\ file \subseteq Replicas /\ ready \in 0 .. replicas
    /\ anno \subseteq Uids /\ awaiting \subseteq Uids \ {0} /\ dataLost \in BOOLEAN
    /\ cPod \in [Ordinals -> Views] /\ cAnno \subseteq Uids /\ queue \in BOOLEAN
    /\ pc \in {"idle", "applyStatefulSet", "list", "approve", "observe"}
    /\ me \subseteq Uids /\ seen \in [Ordinals -> Views] /\ k \in 0 .. replicas
    /\ allReady \in BOOLEAN
    /\ listed \subseteq Uids /\ spent \subseteq Uids
    /\ lastUid \in Uids /\ faults \in 0 .. MaxFaults

\* A cluster that has just become ready, seen by an operator at rest.
Init ==
    /\ replicas \in Sizes /\ policy \in Policies
    /\ pod = [i \in Ordinals |-> IF i \notin Replicas THEN NoPod ELSE
                [uid |-> i + 1, approved |-> FALSE, info |-> FALSE, step |-> "ready"]]
    /\ file = Replicas /\ ready = replicas /\ lastUid = replicas
    /\ anno = {} /\ awaiting = {} /\ dataLost = FALSE
    /\ cPod = [i \in Ordinals |-> View(pod[i])] /\ cAnno = {} /\ queue = FALSE
    /\ pc = "idle" /\ me = {} /\ seen = cPod /\ k = 0 /\ allReady = TRUE
    /\ listed = {} /\ spent = {} /\ faults = 0

Fault == faults < MaxFaults /\ faults' = faults + 1

-----------------------------------------------------------------------------
(* The operator *)

BeginReconcile ==
    /\ pc = "idle" /\ queue
    /\ queue' = FALSE /\ me' = cAnno /\ pc' = "applyStatefulSet"
    /\ UNCHANGED <<cluster, status, cPod, cAnno, seen, k, allReady, ghost, faults>>

\* The answer to the patch carries the StatefulSet's status.
ApplyStatefulSet ==
    /\ pc = "applyStatefulSet"
    /\ allReady' = (ready = replicas) /\ pc' = "list"
    /\ UNCHANGED <<cluster, status, cache, me, seen, k, ghost, faults>>

ListPods ==
    /\ pc = "list"
    /\ seen' = cPod /\ k' = 0
    /\ pc' = IF policy = "Manual" /\ replicas > 1 THEN "approve" ELSE "observe"
    /\ UNCHANGED <<cluster, status, cache, me, allReady, ghost, faults>>

\* A listed pod that waits and is not annotated yet.
ToApprove_Bug(p) == me # {} /\ p.recovering /\ ~p.approved
ToApprove(p) == p.uid \in me /\ p.recovering /\ ~p.approved

\* reconcile returns an error: the Stalled condition is taken back, and the
\* work queue tries again.
ReconcileError ==
    /\ pc' = "idle" /\ queue' = TRUE
    /\ awaiting' = {} /\ dataLost' = FALSE

\* approveRecoveries, one pod at a time.  The patch names the pod, and leaves
\* the pod that has the name by then in the operator's list.
ApprovePod ==
    /\ pc = "approve" /\ k < replicas
    /\ \/ /\ ~ToApprove(seen[k])
          /\ k' = k + 1
          /\ UNCHANGED <<pod, status, seen, pc, queue>>
       \/ /\ ToApprove(seen[k]) /\ Exists(k)
          /\ pod' = [pod EXCEPT ![k].approved = TRUE]
          /\ seen' = [seen EXCEPT ![k] = View(pod'[k])]
          /\ k' = k + 1
          /\ UNCHANGED <<status, pc, queue>>
       \/ /\ ToApprove(seen[k]) /\ ~Exists(k)
          /\ ReconcileError
          /\ UNCHANGED <<pod, seen, k>>
    /\ UNCHANGED <<file, ready, anno, spec, lastUid, cPod, cAnno, me, allReady, ghost, faults>>

ApprovedAll ==
    /\ pc = "approve" /\ k = replicas
    /\ pc' = "observe"
    /\ UNCHANGED <<cluster, status, cache, me, seen, k, allReady, ghost, faults>>

\* observeReplicas: the pods that wait for an approval.
Awaiting_Bug == {seen[i].uid : i \in {j \in Replicas : ~seen[j].ready /\ ~seen[j].approved}}
Awaiting == IF replicas = 1 \/ policy # "Manual" THEN {} ELSE
            {seen[i].uid : i \in {j \in Replicas : seen[j].recovering /\ ~seen[j].approved}}
LostForGood == replicas = 1 /\ \E i \in Replicas : seen[i].recovering

Requeue_Bug == Awaiting # {} \/ LostForGood
Requeue == Awaiting # {} \/ LostForGood \/ ~allReady

\* observeReplicas and needsAction, and how Reconcile ends.
Observe ==
    /\ pc = "observe"
    /\ awaiting' = (IF LostForGood THEN {} ELSE Awaiting) /\ dataLost' = LostForGood
    /\ queue' = (queue \/ Requeue)
    /\ pc' = "idle"
    /\ UNCHANGED <<cluster, cPod, cAnno, me, seen, k, allReady, ghost, faults>>

\* Any call fails.
ApiError ==
    /\ pc # "idle"
    /\ ReconcileError
    /\ Fault
    /\ UNCHANGED <<cluster, cPod, cAnno, me, seen, k, allReady, ghost>>

SyncPods ==
    /\ cPod # [i \in Ordinals |-> View(pod[i])]
    /\ cPod' = [i \in Ordinals |-> View(pod[i])]
    /\ UNCHANGED <<cluster, status, cAnno, queue, rec, ghost, faults>>

\* The TigerBeetleCluster is watched.
SyncCluster ==
    /\ cAnno # anno
    /\ cAnno' = anno /\ queue' = TRUE
    /\ UNCHANGED <<cluster, status, cPod, rec, ghost, faults>>

\* A new operator starts on a fresh cache.
Crash ==
    /\ pc # "idle"
    /\ cPod' = [i \in Ordinals |-> View(pod[i])] /\ cAnno' = anno
    /\ pc' = "idle" /\ queue' = TRUE
    /\ Fault
    /\ UNCHANGED <<cluster, status, me, seen, k, allReady, ghost>>

Reconcile ==
    BeginReconcile \/ ApplyStatefulSet \/ ListPods \/ ApprovePod \/ ApprovedAll \/ Observe

Operator == Reconcile \/ ApiError \/ SyncPods \/ SyncCluster \/ Crash

-----------------------------------------------------------------------------
(* The pods, and what happens to them *)

UnchangedOperator == UNCHANGED <<status, cache, rec>>

\* The StatefulSet controller.
CreatePod(i) ==
    /\ i \in Replicas /\ ~Exists(i) /\ lastUid < MaxUid
    /\ "PodsCurrent" \in Assumed =>
         cPod[i].uid = 0 /\ (pc \in {"approve", "observe"} => seen[i].uid = 0)
    /\ lastUid' = lastUid + 1
    /\ pod' = [pod EXCEPT ![i] = [NoPod EXCEPT !.uid = lastUid + 1]]
    /\ UNCHANGED <<file, ready, anno, spec, ghost, faults>> /\ UnchangedOperator

\* The StatefulSet's status is watched.
StatefulSetStatus ==
    /\ ready # Cardinality(ReadyPods)
    /\ ready' = Cardinality(ReadyPods) /\ queue' = TRUE
    /\ UNCHANGED <<pod, file, anno, spec, lastUid, status, cPod, cAnno, rec, ghost, faults>>

\* The recover init container starts; with a data file it is done at once, and
\* the replica starts.
StartPod(i) ==
    /\ Exists(i) /\ pod[i].step = "pending"
    /\ pod' = [pod EXCEPT ![i].step = IF i \in file THEN "ready" ELSE "recover"]
    /\ UNCHANGED <<file, ready, anno, spec, lastUid, ghost, faults>> /\ UnchangedOperator

RefreshInfo_Bug(i) ==           \* the helper reads its annotations only once
    /\ pod[i].info # pod[i].approved /\ pod[i].step = "pending"
    /\ pod' = [pod EXCEPT ![i].info = pod[i].approved]
    /\ UNCHANGED <<file, ready, anno, spec, lastUid, ghost, faults>> /\ UnchangedOperator

\* The kubelet refreshes the downward API volume, which the helper reads again.
RefreshInfo(i) ==
    /\ pod[i].info # pod[i].approved
    /\ pod' = [pod EXCEPT ![i].info = pod[i].approved]
    /\ UNCHANGED <<file, ready, anno, spec, lastUid, ghost, faults>> /\ UnchangedOperator

MayRecover_Bug(p) == replicas > 1 /\ p.info
MayRecover(p) == replicas > 1 /\ (policy # "Manual" \/ p.info)

\* recoverReplica gets past waitForApproval; the only replica waits for ever.
BeginRecover(i) ==
    /\ Waits(i) /\ MayRecover(pod[i])
    /\ pod' = [pod EXCEPT ![i].step = "recovering"]
    /\ UNCHANGED <<file, ready, anno, spec, lastUid, ghost, faults>> /\ UnchangedOperator

\* `tigerbeetle recover`, retried until the other replicas are healthy.
Recover(i) ==
    /\ pod[i].step = "recovering" /\ Replicas \ {i} \subseteq ReadyPods
    /\ file' = file \union {i}
    /\ pod' = [pod EXCEPT ![i].step = "ready"]
    /\ spent' = spent \union {pod[i].uid}
    /\ UNCHANGED <<ready, anno, spec, lastUid, listed, faults>> /\ UnchangedOperator

\* A pod is evicted or deleted, and maybe its volume with it.
LosePod(i) ==
    /\ Exists(i) /\ lastUid + Cardinality({j \in Replicas : ~Exists(j)}) < MaxUid
    /\ pod' = [pod EXCEPT ![i] = NoPod]
    /\ file' \in {file, file \ {i}}
    /\ Fault
    /\ UNCHANGED <<ready, anno, spec, lastUid, ghost>> /\ UnchangedOperator

\* A node restarts without the data on its disk: its pods are the same.
RestartWithoutData(i) ==
    /\ Exists(i) /\ i \in file
    /\ "OneLossEach" \in Assumed => pod[i].uid \notin spent
    /\ file' = file \ {i}
    /\ pod' = [pod EXCEPT ![i].step = "pending", ![i].info = pod[i].approved]
    /\ Fault
    /\ UNCHANGED <<ready, anno, spec, lastUid, ghost>> /\ UnchangedOperator

\* What ReplicaDataLost asks for: the volume comes back, for the next pod.
RestoreVolume(i) ==
    /\ i \in Replicas \ file /\ ~Exists(i)
    /\ file' = file \union {i}
    /\ Fault
    /\ UNCHANGED <<pod, ready, anno, spec, lastUid, ghost>> /\ UnchangedOperator

\* The command of the Stalled condition, which overwrites the annotation.
UserApproves ==
    /\ awaiting # {} /\ anno # awaiting
    /\ anno' = awaiting /\ listed' = listed \union awaiting
    /\ UNCHANGED <<pod, file, ready, spec, lastUid, spent, faults>> /\ UnchangedOperator

Next ==
    \/ Operator \/ StatefulSetStatus \/ UserApproves
    \/ \E i \in Ordinals :
         \/ CreatePod(i) \/ StartPod(i) \/ RefreshInfo(i) \/ BeginRecover(i) \/ Recover(i)
         \/ LosePod(i) \/ RestartWithoutData(i) \/ RestoreVolume(i)

Spec == Init /\ [][Next]_vars

\* The operator, its informers, the controllers, the kubelets and the pods keep
\* going.  Users and faults owe nothing.
FairSpec ==
    /\ Spec
    /\ WF_vars(Reconcile) /\ WF_vars(SyncPods) /\ WF_vars(SyncCluster)
    /\ WF_vars(StatefulSetStatus)
    /\ \A i \in Ordinals :
         /\ WF_vars(CreatePod(i)) /\ WF_vars(StartPod(i)) /\ WF_vars(RefreshInfo(i))
         /\ WF_vars(BeginRecover(i)) /\ WF_vars(Recover(i))

-----------------------------------------------------------------------------
(* Properties *)

\* With recoveryPolicy Manual a pod recovers only if a user has listed it, and
\* an annotation that is left in place never approves a later pod or a later
\* loss (approve-recovery annotation).
ApprovedOnly == [][
    \A i \in Ordinals : policy = "Manual" /\ BeginRecover(i)
        => pod[i].uid \in listed \ spent ]_vars

\* A pod that waits for an approval is reported with its UID, so that a user
\* knows what to approve (observeReplicas, needsAction), although no event of
\* a pod wakes the operator.
WaitingIsReported ==
    \A i \in Ordinals :
        Waits(i) /\ policy = "Manual" /\ replicas > 1
            ~> ~Waits(i) \/ pod[i].approved \/ pod[i].uid \in awaiting

\* An approval arrives: a pod that a user has listed, and that stays listed,
\* gets past waitForApproval.
ApprovalArrives ==
    \A i \in Ordinals :
        Waits(i) /\ pod[i].uid \in anno ~> ~Waits(i) \/ pod[i].uid \notin anno

\* With recoveryPolicy Automatic a lost replica comes back by itself, as long as
\* the others are there to recover from.
RecoversAlone ==
    <>[](policy = "Automatic" /\ replicas > 1
            => ReadyPods = Replicas \/ Cardinality(Replicas \ file) > 1)

\* The loss of the only copy is reported in the end, and the report is taken
\* back once a restored volume has let the replica start (ReplicaDataLost).
LossIsReported ==
    <>[](replicas = 1 => (dataLost <=> \E i \in Replicas : Waits(i)))
=============================================================================
