-------------------------------- MODULE Rollout --------------------------------
(***************************************************************************)
(* Changes of the spec rolling through the replicas, and the pods that     *)
(* would block them.                                                       *)
(*                                                                         *)
(* The StatefulSet controller replaces ready pods from the highest ordinal *)
(* down, and is not relied on to replace a pod that does not become ready. *)
(* The operator deletes such a pod when it has been on an outdated         *)
(* revision for long and reports a failure (stuckPod): it is unschedulable *)
(* or a container of it waits for a listed reason (podFailure).  A pod     *)
(* that runs without ever becoming ready reports none, and is left alone.  *)
(* The operator knows the StatefulSet's status from the answer to its own  *)
(* patch, and the pods from its cache, which lags.                         *)
(*                                                                         *)
(* A pod template is its revision: reverting a change gives the old        *)
(* revision back.  Left out: minReadySeconds, lost data files (Recovery).  *)
(***************************************************************************)
EXTENDS Integers, FiniteSets

CONSTANTS
    N,              \* spec.replicas
    Templates,      \* what the spec may say
    Broken,         \* those whose pods cannot run, and say so in time
    Silent,         \* those whose pods run, but never become ready
    Faults,         \* what goes wrong: "fail", a pod stops being ready or
                    \* starts to wait; "run", it runs again for a while;
                    \* "evict", "api" (a call fails), "crash" (the operator)
    MaxEdits,       \* bound: changes of the spec
    MaxFaults       \* bound: faults

Unfit == Broken \union Silent

ASSUME NAssumption == N \in Nat \ {0}
ASSUME TemplatesAssumption == Unfit \subseteq Templates /\ Unfit # Templates
ASSUME BoundsAssumption == MaxEdits \in Nat /\ MaxFaults \in Nat
ASSUME FaultsAssumption == Faults \subseteq {"fail", "run", "evict", "api", "crash"}

Ordinals == 0 .. N - 1
Uids == 1 .. 3

VARIABLES
    want,           \* the TigerBeetleCluster's template, as it is cached
    image,          \* status.currentImage: the template it is of
    template,       \* the StatefulSet's
    stat,           \* its status
    pod, cPod,      \* the pods, and the cached ones
    queue, pc, me,  \* the operator: work queue, next step, its template
    answer, seen,   \* the status and the pods that it read
    edits, faults

stateful == <<want, image, template, stat>>
cache    == <<cPod, queue>>
rec      == <<pc, me, answer, seen>>
bound    == <<edits, faults>>
vars     == <<stateful, pod, cache, rec, bound>>

-----------------------------------------------------------------------------

\* A pod that is not ready reports a failure (waiting, failing) or does not
\* (starting, unready), and has not been unready (starting, waiting) or has been
\* (unready, failing) for as long as stuckPodRestartAfter, which is also
\* replicaFailingStallAfter.
Steps == {"gone", "starting", "waiting", "unready", "failing", "ready", "terminating"}
Unready == {"starting", "waiting", "unready", "failing"}
Pods == [uid : Uids, rev : Templates, step : Steps]
Stats == [observed : BOOLEAN, update : Templates, current : Templates,
          updated : 0 .. N, ready : 0 .. N]

\* Pods of an unfit template are never ready, and the StatefulSet keeps the
\* template that a call has applied for as long as the call runs.
TypeOK ==
    /\ {want, image, template, me} \subseteq Templates
    /\ stat \in Stats /\ answer \in Stats
    /\ \A pods \in {pod, cPod, seen} :
         /\ pods \in [Ordinals -> Pods]
         /\ \A i \in Ordinals : pods[i].step = "ready" => pods[i].rev \notin Unfit
    /\ queue \in BOOLEAN
    /\ pc \in {"idle", "applyStatefulSet", "list", "restart", "observe"}
    /\ pc \in {"list", "restart", "observe"} => template = me
    /\ edits \in 0 .. MaxEdits /\ faults \in 0 .. MaxFaults

AllOf(t) == [observed |-> TRUE, update |-> t, current |-> t, updated |-> N, ready |-> N]

\* What local variables hold when no Reconcile call runs.
Unused == CHOOSE t \in Templates : TRUE
NoPod == [uid |-> 1, rev |-> Unused, step |-> "gone"]
NoPods == [i \in Ordinals |-> NoPod]

\* The pods are ready on a template, or have been until a rollout of an unfit one
\* got stuck at the highest of them.
StuckPod(t) == [uid |-> 1, rev |-> t,
                step |-> IF t \in Broken THEN "failing" ELSE "unready"]

Init ==
    /\ \E good \in Templates \ Unfit, stuck \in BOOLEAN :
         \E t \in IF stuck THEN Unfit ELSE {good} :
            /\ want = t /\ image = good /\ template = t
            /\ pod = [i \in Ordinals |->
                        IF stuck /\ i = N - 1 THEN StuckPod(t)
                        ELSE [uid |-> 1, rev |-> good, step |-> "ready"]]
            /\ stat = IF stuck THEN [observed |-> TRUE, update |-> t, current |-> good,
                                      updated |-> 1, ready |-> N - 1]
                      ELSE AllOf(t)
            /\ queue = stuck
    /\ cPod = pod /\ me = Unused /\ answer = AllOf(Unused) /\ seen = NoPods
    /\ pc = "idle"
    /\ edits = 0 /\ faults = 0

Fault(kind) ==
    /\ kind \in Faults /\ faults < MaxFaults
    /\ faults' = faults + 1 /\ UNCHANGED edits

-----------------------------------------------------------------------------
(* The operator *)

BeginReconcile ==
    /\ pc = "idle" /\ queue
    /\ queue' = FALSE /\ me' = want /\ pc' = "applyStatefulSet"
    /\ UNCHANGED <<stateful, pod, cPod, answer, seen, bound>>

ApplyStatefulSet_Bug ==         \* not while an earlier rollout is in progress
    /\ pc = "applyStatefulSet"
    /\ template' = IF stat.current = stat.update THEN me ELSE template
    /\ stat' = IF template' = template THEN stat ELSE [stat EXCEPT !.observed = FALSE]
    /\ answer' = stat'
    /\ pc' = "list"
    /\ UNCHANGED <<want, image, pod, cache, me, seen, bound>>

\* A template that differs is a new generation, which the status does not
\* cover yet.
ApplyStatefulSet ==
    /\ pc = "applyStatefulSet"
    /\ template' = me
    /\ stat' = IF template = me THEN stat ELSE [stat EXCEPT !.observed = FALSE]
    /\ answer' = stat'
    /\ pc' = "list"
    /\ UNCHANGED <<want, image, pod, cache, me, seen, bound>>

ListPods ==
    /\ pc = "list"
    /\ seen' = cPod /\ pc' = "restart"
    /\ UNCHANGED <<stateful, pod, cache, me, answer, bound>>

\* stuckPod: pods on another revision than the update revision that report a
\* failure and have been unready for long, none while the status lags or some pod
\* is terminating.
Outdated(i) == seen[i].step = "failing" /\ seen[i].rev # answer.update

Stuck_UnobservedToo == IF \E i \in Ordinals : seen[i].step = "terminating" THEN {}
                       ELSE {i \in Ordinals : Outdated(i)}
Stuck_RolloutOnly == IF ~answer.observed \/ answer.current = answer.update THEN {}
                     ELSE {i \in Ordinals : Outdated(i)}
Stuck ==
    IF ~answer.observed \/ \E i \in Ordinals : seen[i].step = "terminating" THEN {}
    ELSE {i \in Ordinals : Outdated(i)}

EndReconcile == pc' = "idle" /\ me' = Unused /\ answer' = AllOf(Unused) /\ seen' = NoPods
ReconcileError == EndReconcile /\ queue' = TRUE

\* The precondition of the deletion.
SamePod(i) == pod[i].uid = seen[i].uid /\ pod[i].step # "gone"

NoneStuck ==
    /\ pc = "restart" /\ Stuck = {}
    /\ pc' = "observe"
    /\ UNCHANGED <<stateful, pod, cache, me, answer, seen, bound>>

\* restartStuckPod deletes the highest of them.  It does not mind that the pod
\* is gone; that another pod has its name is an error.
RestartStuckPod(i) ==
    /\ pc = "restart" /\ i \in Stuck /\ \A j \in Stuck : j <= i
    /\ \/ /\ SamePod(i)
          /\ pod' = [pod EXCEPT ![i].step = "terminating"]
          /\ pc' = "observe" /\ UNCHANGED <<queue, me, answer, seen>>
       \/ /\ ~SamePod(i) /\ pod[i].step = "gone"
          /\ pc' = "observe" /\ UNCHANGED <<pod, queue, me, answer, seen>>
       \/ /\ ~SamePod(i) /\ pod[i].step # "gone"
          /\ ReconcileError /\ UNCHANGED pod
    /\ UNCHANGED <<stateful, cPod, bound>>

\* observeReplicas
RolloutInProgress_Bug ==
    answer.updated # N \/ answer.current # answer.update
RolloutInProgress ==
    ~answer.observed \/ answer.updated # N \/ answer.current # answer.update
AllReady == ~RolloutInProgress /\ answer.ready = N
Stalled == \E i \in Ordinals : seen[i].step = "failing"

Requeue == Stalled \/ ~AllReady

Observe ==
    /\ pc = "observe"
    /\ image' = IF AllReady THEN me ELSE image
    /\ queue' = (queue \/ Requeue)
    /\ EndReconcile
    /\ UNCHANGED <<want, template, stat, pod, cPod, bound>>

\* A call fails.
ApiError ==
    /\ pc # "idle"
    /\ ReconcileError
    /\ Fault("api")
    /\ UNCHANGED <<stateful, pod, cPod>>

Crash ==
    /\ pc # "idle"
    /\ cPod' = pod
    /\ ReconcileError
    /\ Fault("crash")
    /\ UNCHANGED <<stateful, pod>>

\* Pods are cached, but wake nobody.
SyncPods ==
    /\ cPod # pod
    /\ cPod' = pod
    /\ UNCHANGED <<stateful, pod, queue, rec, bound>>

Reconcile ==
    \/ BeginReconcile \/ ApplyStatefulSet \/ ListPods
    \/ NoneStuck \/ \E i \in Ordinals : RestartStuckPod(i)
    \/ Observe

Operator == Reconcile \/ ApiError \/ Crash \/ SyncPods

-----------------------------------------------------------------------------
(* The StatefulSet controller, the pods, the clock and users *)

PodStep(i, p) ==
    /\ pod' = [pod EXCEPT ![i] = p]
    /\ UNCHANGED <<stateful, cache, rec>>

Updated  == {i \in Ordinals : pod[i].step # "gone" /\ pod[i].rev = template}
Ready    == {i \in Ordinals : pod[i].step = "ready"}
Status == [observed |-> TRUE, update |-> template,
           current |-> IF Updated = Ordinals /\ Ready = Ordinals THEN template ELSE stat.current,
           updated |-> Cardinality(Updated), ready |-> Cardinality(Ready)]

\* The StatefulSet's status is watched.
StatefulSetStatus ==
    /\ stat # Status
    /\ stat' = Status /\ queue' = TRUE
    /\ UNCHANGED <<want, image, template, pod, cPod, rec, bound>>

\* One pod at a time, after all above it are ready on the new revision.
ReplacePod(i) ==
    /\ stat.observed
    /\ pod[i].step \notin {"gone", "terminating"} /\ pod[i].rev # template
    /\ \A j \in Ordinals : j > i => j \in Updated \intersect Ready
    /\ PodStep(i, [pod[i] EXCEPT !.step = "terminating"])
    /\ UNCHANGED bound

\* UIDs are unique: a new pod has none that some copy of a pod of its name has.
NewUid(i) == CHOOSE uid \in Uids : uid \notin {cPod[i].uid, seen[i].uid}

CreatePod(i) ==
    /\ stat.observed
    /\ pod[i].step = "gone"
    /\ PodStep(i, [uid |-> NewUid(i), rev |-> template, step |-> "starting"])
    /\ UNCHANGED bound

PodTerminates(i) ==
    /\ pod[i].step = "terminating"
    /\ PodStep(i, NoPod)
    /\ UNCHANGED bound

PodBecomesReady(i) ==
    /\ pod[i].step \in Unready /\ pod[i].rev \notin Unfit
    /\ PodStep(i, [pod[i] EXCEPT !.step = "ready"])
    /\ UNCHANGED bound

\* A pod stops being ready, with or without a reason that is reported.
PodFails(i) ==
    /\ pod[i].step = "ready"
    /\ \E step \in {"starting", "waiting"} : PodStep(i, [pod[i] EXCEPT !.step = step])
    /\ Fault("fail")

\* A container begins to wait for one of podFailureReasons, or the pod is found
\* to be unschedulable.
PodWaits(i) ==
    /\ \/ pod[i].step = "starting" /\ PodStep(i, [pod[i] EXCEPT !.step = "waiting"])
       \/ pod[i].step = "unready" /\ PodStep(i, [pod[i] EXCEPT !.step = "failing"])
    /\ IF pod[i].rev \in Broken THEN UNCHANGED bound ELSE Fault("fail")

\* It runs again for a while.
PodRuns(i) ==
    /\ \/ pod[i].step = "waiting" /\ PodStep(i, [pod[i] EXCEPT !.step = "starting"])
       \/ pod[i].step = "failing" /\ PodStep(i, [pod[i] EXCEPT !.step = "unready"])
    /\ Fault("run")

Evict(i) ==
    /\ pod[i].step \notin {"gone", "terminating"}
    /\ PodStep(i, [pod[i] EXCEPT !.step = "terminating"])
    /\ Fault("evict")

\* Every copy of a pod says since when it has been unready.
Aged(p) == IF p.step = "starting" THEN [p EXCEPT !.step = "unready"]
           ELSE IF p.step = "waiting" THEN [p EXCEPT !.step = "failing"] ELSE p
TimePasses(i) ==
    /\ \E p \in {pod[i], cPod[i], seen[i]} : Aged(p) # p
    /\ pod' = [pod EXCEPT ![i] = Aged(@)]
    /\ cPod' = [cPod EXCEPT ![i] = Aged(@)]
    /\ seen' = [seen EXCEPT ![i] = Aged(@)]
    /\ UNCHANGED <<stateful, queue, pc, me, answer, bound>>

\* Nothing else reads the spec: the change happens when it is cached.
EditSpec(t) ==
    /\ t # want /\ edits < MaxEdits
    /\ want' = t /\ queue' = TRUE /\ edits' = edits + 1
    /\ UNCHANGED <<image, template, stat, pod, cPod, rec, faults>>

Next ==
    \/ Operator \/ StatefulSetStatus
    \/ \E i \in Ordinals :
         \/ ReplacePod(i) \/ CreatePod(i) \/ PodTerminates(i) \/ PodBecomesReady(i)
         \/ PodFails(i) \/ PodWaits(i) \/ PodRuns(i) \/ Evict(i) \/ TimePasses(i)
    \/ \E t \in Templates : EditSpec(t)

Spec == Init /\ [][Next]_vars

\* The StatefulSet controller is only relied on to replace a pod that is ready,
\* and the pods of a broken template to report their failure.
FairSpec ==
    /\ Spec
    /\ WF_vars(Reconcile) /\ WF_vars(SyncPods)
    /\ WF_vars(StatefulSetStatus)
    /\ \A i \in Ordinals :
         /\ WF_vars(ReplacePod(i) /\ i \in Ready)
         /\ WF_vars(CreatePod(i)) /\ WF_vars(PodTerminates(i))
         /\ WF_vars(TimePasses(i))
         /\ WF_vars(PodWaits(i) /\ pod[i].rev \in Broken)
         /\ WF_vars(PodBecomesReady(i) /\ pod[i].rev = template)

-----------------------------------------------------------------------------
(* Properties *)

Deletes(i) == RestartStuckPod(i) /\ pod'[i] # pod[i]

\* The operator never deletes a pod that already has the template it has just
\* applied, whatever happened to the pods and the status since they were read
\* (stuckPod and the UID precondition of restartStuckPod).
NeverDeletesUpdated == [][\A i \in Ordinals : Deletes(i) => pod[i].rev # template]_vars

\* The operator deletes no pod while another one is terminating: pods are
\* replaced one at a time (operations.md, stuckPod).
OneAtATime ==
    [][\A i \in Ordinals : Deletes(i) => \A j \in Ordinals : pod[j].step # "terminating"]_vars

\* status.currentImage changes when a rollout is complete: no pod runs anything
\* but the new image by then (types.go).
ImageMeansAll ==
    [][image' # image => \A i \in Ordinals : pod[i].step = "gone" \/ pod[i].rev = image']_vars

\* A pod that an earlier spec made and that is not ready, but reports no failure:
\* podFailure is silent about it for as long as its containers run.
Quiet(i) == pod[i].step = "unready" /\ pod[i].rev # template

\* A fix in the spec reaches every replica whose pod is ready or reports a
\* failure, in whatever mix an earlier spec has left them; what stays behind are
\* the pods that report none, and the ready ones below them, which the
\* StatefulSet controller does not come to (stuckPod, podFailure).
FixArrives ==
    <>[](\/ want \in Unfit
         \/ /\ \A i \in Ordinals :
                 \/ i \in Updated \intersect Ready
                 \/ Quiet(i)
                 \/ i \in Ready /\ \E j \in Ordinals : j > i /\ Quiet(j)
            /\ image = want \/ \E i \in Ordinals : Quiet(i))
=============================================================================
