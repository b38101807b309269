----------------------------- MODULE RolloutProofs -----------------------------
(***************************************************************************)
(* Proofs about rollouts, for every number of replicas, every set of       *)
(* templates and of unfit ones, and  any number of edits, failing pods,    *)
(* evictions, failed calls and crashes.                                    *)
(*                                                                         *)
(* The operator decides on copies: a status that it got when it applied    *)
(* the StatefulSet, and pods from a cache that lags.  Both properties say  *)
(* that the copies are good enough.  A copy that has a pod's UID has its   *)
(* revision (RevKnown), and a status that has observed the template names  *)
(* it (UpdateKnown), so that a pod found on another revision is on another *)
(* one when it is deleted.  Once every pod was on the template, no pod of  *)
(* another one comes as long as the template stays (CountKnown).           *)
(***************************************************************************)
EXTENDS Rollout, FiniteSetTheorems, TLAPS

\* A Reconcile call that has applied its template.
Applied == pc \in {"list", "restart", "observe"}

\* A copy of a pod is of the pod that exists, or has another UID.
RevKnown ==
    \A i \in Ordinals : \A copy \in {cPod[i], seen[i]} :
        copy.uid = pod[i].uid /\ copy.step # "gone" /\ pod[i].step # "gone"
            => copy.rev = pod[i].rev

\* What a status says of the template, if it covers it.
UpdateKnown ==
    /\ stat.observed => stat.update = template
    /\ Applied /\ answer.observed => answer.update = template

\* No pod is on another template.
AllOnTemplate == \A i \in Ordinals : pod[i].step = "gone" \/ pod[i].rev = template

\* A status that has seen every pod on the template is right ever after.
CountKnown ==
    /\ stat.observed /\ stat.updated = N => AllOnTemplate
    /\ Applied /\ answer.observed /\ answer.updated = N => AllOnTemplate

RolloutInv == TypeOK /\ RevKnown /\ UpdateKnown /\ CountKnown

-----------------------------------------------------------------------------
(* Lemmas about the operators *)

\* There is a replica, and there is a template whose pods run.
LEMMA SomeTemplate ==
    /\ IsFiniteSet(Ordinals) /\ Cardinality(Ordinals) = N /\ N \in Nat /\ N - 1 \in Ordinals
    /\ Unused \in Templates /\ NoPod \in Pods /\ NoPods \in [Ordinals -> Pods]
    /\ \A t \in Templates : AllOf(t) \in Stats
<1>1. N \in Nat /\ N > 0
    BY NAssumption
<1>2. IsFiniteSet(Ordinals) /\ Cardinality(Ordinals) = N /\ N - 1 \in Ordinals
    <2>1. IsFiniteSet(0 .. N - 1) /\ Cardinality(0 .. N - 1) = N
        BY <1>1, FS_Interval
    <2> QED
        BY <1>1, <2>1 DEF Ordinals
<1>3. Unused \in Templates
    <2>1. \E t \in Templates : TRUE
        BY TemplatesAssumption
    <2> QED
        BY <2>1 DEF Unused
<1>4. NoPod \in Pods /\ NoPods \in [Ordinals -> Pods]
    BY <1>3 DEF NoPod, NoPods, Pods, Uids, Steps
<1>5. \A t \in Templates : AllOf(t) \in Stats
    BY <1>1 DEF AllOf, Stats
<1> QED
    BY <1>1, <1>2, <1>3, <1>4, <1>5

\* The numbers of a status are numbers of replicas, and it counts as many as
\* there are only if every replica is one of them.
LEMMA Counts ==
    ASSUME NEW S \in SUBSET Ordinals
    PROVE Cardinality(S) \in 0 .. N /\ (Cardinality(S) = N => S = Ordinals)
<1>1. IsFiniteSet(S) /\ Cardinality(S) <= N /\ (Cardinality(S) = N => S = Ordinals)
    BY SomeTemplate, FS_Subset
<1>2. Cardinality(S) \in Nat
    BY <1>1, FS_CardinalityType
<1> QED
    BY <1>1, <1>2, NAssumption

\* The controller's own status is true of the pods (StatefulSetStatus).
LEMMA StatusIsTrue ==
    ASSUME TypeOK
    PROVE /\ Status \in Stats /\ Status.observed /\ Status.update = template
          /\ Status.updated = N => AllOnTemplate
<1>1. Updated \in SUBSET Ordinals /\ Ready \in SUBSET Ordinals
    BY DEF Updated, Ready
<1>2. Cardinality(Updated) \in 0 .. N /\ Cardinality(Ready) \in 0 .. N
    BY <1>1, Counts
<1>3. template \in Templates /\ stat.current \in Templates
    BY DEF TypeOK, Stats
<1>4. Status \in Stats
    BY <1>2, <1>3 DEF Status, Stats
<1>5. Status.updated = N => AllOnTemplate
    <2>1. Status.updated = Cardinality(Updated)
        BY DEF Status
    <2>2. Updated = Ordinals => AllOnTemplate
        BY DEF Updated, AllOnTemplate
    <2> QED
        BY <1>1, <2>1, <2>2, Counts
<1> QED
    BY <1>4, <1>5 DEF Status

\* A new pod's UID is no other copy's (CreatePod).
LEMMA NewUidIsNew ==
    ASSUME NEW i \in Ordinals
    PROVE NewUid(i) \in Uids /\ NewUid(i) \notin {cPod[i].uid, seen[i].uid}
<1>1. \E uid \in Uids : uid \notin {cPod[i].uid, seen[i].uid}
    BY DEF Uids
<1> QED
    BY <1>1 DEF NewUid

\* An older copy of a pod shows the same pod (TimePasses).
LEMMA AgedPod ==
    ASSUME NEW p \in Pods
    PROVE /\ Aged(p) \in Pods /\ Aged(p).uid = p.uid /\ Aged(p).rev = p.rev
          /\ Aged(p).step = "gone" <=> p.step = "gone"
          /\ Aged(p).step = "ready" <=> p.step = "ready"
BY DEF Aged, Pods, Steps

-----------------------------------------------------------------------------
(* What may become of a pod *)

\* The pods that a copy of the pods may hold.
GoodPods(pods) ==
    /\ pods \in [Ordinals -> Pods]
    /\ \A i \in Ordinals : pods[i].step = "ready" => pods[i].rev \notin Unfit

\* p is the pod itself, further on, or a new one of the current template.
Succeeds(i, p) ==
    /\ p \in Pods /\ (p.step = "ready" => p.rev \notin Unfit)
    /\ p.step # "gone" =>
         \/ pod[i].step # "gone" /\ p.uid = pod[i].uid /\ p.rev = pod[i].rev
         \/ p.uid \notin {cPod[i].uid, seen[i].uid} /\ p.rev = template

\* The pod of one ordinal moves on, and at most one of a pod's copies changes,
\* for nothing that can be mistaken for the pod.
LEMMA PodMoves ==
    ASSUME RolloutInv, NEW i \in Ordinals, NEW p \in Pods, Succeeds(i, p),
           pod' = [pod EXCEPT ![i] = p]
    PROVE /\ GoodPods(pod')
          /\ cPod' = cPod /\ seen' \in {seen, NoPods} => RevKnown'
          /\ AllOnTemplate /\ template' = template => AllOnTemplate'
<1>1. pod' \in [Ordinals -> Pods] /\ pod'[i] = p /\ \A j \in Ordinals \ {i} : pod'[j] = pod[j]
    BY DEF RolloutInv, TypeOK
<1>2. GoodPods(pod')
    BY <1>1 DEF GoodPods, Succeeds, RolloutInv, TypeOK
<1>3. ASSUME cPod' = cPod, seen' \in {seen, NoPods}
      PROVE RevKnown'
    <2> SUFFICES ASSUME NEW j \in Ordinals, NEW copy \in {cPod[j], seen[j], NoPods[j]},
                        copy.uid = pod'[j].uid, copy.step # "gone", pod'[j].step # "gone"
                 PROVE copy.rev = pod'[j].rev
        BY <1>3 DEF RevKnown
    <2>1. copy \in {cPod[j], seen[j]}
        BY DEF NoPods, NoPod
    <2>2. CASE j = i
        BY <1>1, <2>1, <2>2 DEF Succeeds, RolloutInv, RevKnown
    <2>3. CASE j # i
        BY <1>1, <2>1, <2>3 DEF RolloutInv, RevKnown
    <2> QED
        BY <2>2, <2>3
<1>4. ASSUME AllOnTemplate, template' = template
      PROVE AllOnTemplate'
    BY <1>1, <1>4 DEF Succeeds, AllOnTemplate
<1> QED
    BY <1>2, <1>3, <1>4

\* What the controller, the kubelets and evictions do to a pod.
PodAction(i) ==
    \/ ReplacePod(i) \/ CreatePod(i) \/ PodTerminates(i) \/ PodBecomesReady(i)
    \/ PodFails(i) \/ PodWaits(i) \/ PodRuns(i) \/ Evict(i)

LEMMA PodActions ==
    ASSUME RolloutInv, NEW i \in Ordinals, PodAction(i)
    PROVE /\ \E p \in Pods : Succeeds(i, p) /\ PodStep(i, p)
          /\ edits' \in 0 .. MaxEdits /\ faults' \in 0 .. MaxFaults
<1>1. pod[i] \in Pods /\ (pod[i].step = "ready" => pod[i].rev \notin Unfit)
    BY DEF RolloutInv, TypeOK
<1>2. edits' \in 0 .. MaxEdits /\ faults' \in 0 .. MaxFaults
    BY BoundsAssumption DEF PodAction, ReplacePod, CreatePod, PodTerminates, PodBecomesReady,
       PodFails, PodWaits, PodRuns, Evict, Fault, bound, RolloutInv, TypeOK
<1>3. CASE CreatePod(i)
    <2> DEFINE p == [uid |-> NewUid(i), rev |-> template, step |-> "starting"]
    <2>1. p \in Pods /\ Succeeds(i, p)
        BY NewUidIsNew DEF Pods, Steps, Succeeds, RolloutInv, TypeOK
    <2> QED
        BY <1>2, <1>3, <2>1 DEF CreatePod
<1>4. CASE PodTerminates(i)
    <2>1. Succeeds(i, NoPod)
        BY SomeTemplate DEF Succeeds, NoPod
    <2> QED
        BY <1>2, <1>4, <2>1, SomeTemplate DEF PodTerminates
<1>5. CASE \/ ReplacePod(i) \/ PodBecomesReady(i) \/ PodFails(i)
           \/ PodWaits(i) \/ PodRuns(i) \/ Evict(i)
    <2>1. PICK step \in {"terminating", "ready"} \union Unready :
             /\ PodStep(i, [pod[i] EXCEPT !.step = step])
             /\ pod[i].step # "gone"
             /\ step = "ready" => pod[i].rev \notin Unfit
        BY <1>5 DEF ReplacePod, PodBecomesReady, PodFails, PodWaits, PodRuns, Evict, Unready
    <2> DEFINE p == [pod[i] EXCEPT !.step = step]
    <2>2. p \in Pods /\ p.uid = pod[i].uid /\ p.rev = pod[i].rev /\ p.step = step
        BY <1>1 DEF Pods, Steps, Unready
    <2>3. Succeeds(i, p)
        BY <2>1, <2>2 DEF Succeeds
    <2> QED
        BY <1>2, <2>1, <2>2, <2>3
<1> QED
    BY <1>3, <1>4, <1>5 DEF PodAction

-----------------------------------------------------------------------------
(* The invariant *)

\* A rollout starts with pods that are ready on a template, or with one that is
\* stuck (Init).
LEMMA RolloutInit == Init => RolloutInv
<1> SUFFICES ASSUME Init
             PROVE RolloutInv
    OBVIOUS
<1> DEFINE GoodPod(t) == [uid |-> 1, rev |-> t, step |-> "ready"]
           StuckStat(t, good) == [observed |-> TRUE, update |-> t, current |-> good,
                                  updated |-> 1, ready |-> N - 1]
<1>0. PICK good \in Templates \ Unfit, stuck \in BOOLEAN :
            \E t \in IF stuck THEN Unfit ELSE {good} :
                /\ want = t /\ image = good /\ template = t
                /\ pod = [i \in Ordinals |->
                            IF stuck /\ i = N - 1 THEN StuckPod(t) ELSE GoodPod(good)]
                /\ stat = IF stuck THEN StuckStat(t, good) ELSE AllOf(t)
                /\ queue = stuck
    BY DEF Init
<1>1. PICK t \in IF stuck THEN Unfit ELSE {good} :
            /\ want = t /\ image = good /\ template = t
            /\ pod = [i \in Ordinals |->
                        IF stuck /\ i = N - 1 THEN StuckPod(t) ELSE GoodPod(good)]
            /\ stat = IF stuck THEN StuckStat(t, good) ELSE AllOf(t)
            /\ queue = stuck
    BY <1>0
<1>2. t \in Templates /\ good \in Templates /\ (~stuck => t = good)
    BY TemplatesAssumption
<1>3. stat \in Stats /\ stat.update = template /\ (stat.updated = N => ~stuck \/ N = 1)
    BY <1>1, <1>2, SomeTemplate, NAssumption DEF AllOf, Stats
<1>4. GoodPods(pod)
    <2>1. /\ StuckPod(t) \in Pods /\ StuckPod(t).step # "ready"
          /\ GoodPod(good) \in Pods /\ GoodPod(good).rev = good
        BY <1>2 DEF StuckPod, Pods, Uids, Steps
    <2>2. pod \in [Ordinals -> Pods]
        BY <1>1, <2>1
    <2> QED
        BY <1>1, <2>1, <2>2 DEF GoodPods
<1>5. cPod = pod /\ seen = NoPods /\ me = Unused /\ answer = AllOf(Unused) /\ pc = "idle"
    /\ edits = 0 /\ faults = 0
    BY DEF Init
<1>6. GoodPods(seen)
    BY <1>5, SomeTemplate DEF GoodPods, NoPods, NoPod
<1>7. TypeOK
    BY <1>1, <1>2, <1>3, <1>4, <1>5, <1>6, SomeTemplate, BoundsAssumption DEF TypeOK, GoodPods
<1>8. RevKnown
    BY <1>5 DEF RevKnown, NoPods, NoPod
<1>9. stat.updated = N => AllOnTemplate
    <2>1. CASE ~stuck
        BY <1>1, <1>2, <2>1 DEF AllOnTemplate
    <2>2. CASE N = 1
        <3>1. Ordinals = {N - 1}
            BY <2>2 DEF Ordinals
        <3> QED
            BY <1>1, <1>2, <3>1 DEF AllOnTemplate, StuckPod
    <2> QED
        BY <1>3, <2>1, <2>2
<1> QED
    BY <1>3, <1>5, <1>7, <1>8, <1>9 DEF RolloutInv, UpdateKnown, CountKnown, Applied

\* Every step keeps the invariant.
LEMMA RolloutStep == RolloutInv /\ [Next]_vars => RolloutInv'
<1> SUFFICES ASSUME RolloutInv, [Next]_vars
             PROVE RolloutInv'
    OBVIOUS
<1> USE DEF RolloutInv
<1>0. GoodPods(pod) /\ GoodPods(cPod) /\ GoodPods(seen) /\ GoodPods(NoPods)
    BY SomeTemplate DEF TypeOK, GoodPods, NoPods, NoPod
<1>1. CASE BeginReconcile
    BY <1>1 DEF BeginReconcile, stateful, bound, TypeOK, RevKnown, UpdateKnown, CountKnown,
       Applied, AllOnTemplate
<1>2. CASE ApplyStatefulSet
    <2> USE <1>2 DEF ApplyStatefulSet, cache, bound
    <2>1. stat' \in Stats /\ answer' = stat' /\ template' = me /\ me' = me /\ pc' = "list"
        BY DEF TypeOK, Stats
    <2>2. TypeOK'
        BY <2>1 DEF TypeOK
    <2>3. RevKnown'
        BY DEF RevKnown
    <2>4. stat'.observed => stat' = stat /\ template' = template
        BY DEF TypeOK, Stats
    <2>5. UpdateKnown' /\ CountKnown'
        BY <2>1, <2>4 DEF UpdateKnown, CountKnown, AllOnTemplate
    <2> QED
        BY <2>2, <2>3, <2>5
<1>3. CASE ListPods
    BY <1>3 DEF ListPods, stateful, cache, bound, TypeOK, RevKnown, UpdateKnown, CountKnown,
       Applied, AllOnTemplate
<1>4. CASE NoneStuck
    BY <1>4 DEF NoneStuck, stateful, cache, bound, TypeOK, RevKnown, UpdateKnown, CountKnown,
       Applied, AllOnTemplate
<1>5. ASSUME NEW i \in Ordinals, RestartStuckPod(i)
      PROVE RolloutInv'
    <2> USE <1>5 DEF RestartStuckPod
    <2>1. UNCHANGED <<stateful, cPod, bound>> /\ pc = "restart"
        OBVIOUS
    <2>2. \/ pc' = "observe" /\ UNCHANGED <<queue, me, answer, seen>>
          \/ ReconcileError
        OBVIOUS
    <2>3. GoodPods(pod') /\ RevKnown' /\ (AllOnTemplate => AllOnTemplate')
        <3>1. CASE UNCHANGED pod
            BY <1>0, <2>1, <2>2, <3>1 DEF ReconcileError, EndReconcile, NoPods, NoPod,
               GoodPods, RevKnown, AllOnTemplate, stateful
        <3>2. CASE SamePod(i) /\ pod' = [pod EXCEPT ![i].step = "terminating"]
            <4> DEFINE p == [pod[i] EXCEPT !.step = "terminating"]
            <4>1. p \in Pods /\ p.uid = pod[i].uid /\ p.rev = pod[i].rev
                  /\ p.step = "terminating"
                BY DEF TypeOK, Pods, Steps
            <4>2. Succeeds(i, p)
                BY <3>2, <4>1 DEF Succeeds, SamePod
            <4>3. pod' = [pod EXCEPT ![i] = p] /\ seen' \in {seen, NoPods} /\ template' = template
                BY <2>1, <2>2, <3>2 DEF ReconcileError, EndReconcile, stateful
            <4> HIDE DEF p
            <4> QED
                BY <2>1, <4>1, <4>2, <4>3, PodMoves
        <3> QED
            BY <3>1, <3>2
    <2>4. TypeOK'
        BY <1>0, <2>1, <2>2, <2>3, SomeTemplate DEF TypeOK, GoodPods, ReconcileError,
           EndReconcile, stateful, bound
    <2>5. UpdateKnown' /\ CountKnown'
        BY <2>1, <2>2, <2>3 DEF UpdateKnown, CountKnown, Applied, ReconcileError,
           EndReconcile, stateful
    <2> QED
        BY <2>3, <2>4, <2>5
<1>6. CASE Observe \/ ApiError \/ Crash
    <2>1. /\ EndReconcile /\ UNCHANGED <<want, template, stat, pod>>
          /\ cPod' \in {cPod, pod} /\ image' \in {image, me} /\ queue' \in BOOLEAN
        BY <1>6 DEF Observe, ApiError, Crash, ReconcileError, stateful, TypeOK, Requeue, Stalled
    <2>2. edits' \in 0 .. MaxEdits /\ faults' \in 0 .. MaxFaults
        BY <1>6, BoundsAssumption DEF Observe, ApiError, Crash, Fault, bound, TypeOK
    <2>3. TypeOK'
        BY <1>0, <2>1, <2>2, SomeTemplate DEF TypeOK, EndReconcile, GoodPods
    <2>4. RevKnown'
        BY <2>1 DEF EndReconcile, RevKnown, NoPods, NoPod
    <2>5. UpdateKnown' /\ CountKnown'
        BY <2>1 DEF EndReconcile, UpdateKnown, CountKnown, Applied, AllOnTemplate
    <2> QED
        BY <2>3, <2>4, <2>5
<1>7. CASE SyncPods
    BY <1>7 DEF SyncPods, stateful, rec, bound, TypeOK, RevKnown, UpdateKnown, CountKnown,
       Applied, AllOnTemplate
<1>8. CASE StatefulSetStatus
    <2>1. stat' = Status /\ queue' = TRUE
        BY <1>8 DEF StatefulSetStatus
    <2>2. UNCHANGED <<want, image, template, pod, cPod, rec, bound>>
        BY <1>8 DEF StatefulSetStatus
    <2>3. TypeOK' /\ RevKnown'
        BY <2>1, <2>2, StatusIsTrue DEF TypeOK, RevKnown, rec, bound
    <2>4. UpdateKnown' /\ CountKnown'
        BY <2>1, <2>2, StatusIsTrue DEF UpdateKnown, CountKnown, Applied, AllOnTemplate, rec
    <2> QED
        BY <2>3, <2>4
<1>9. ASSUME NEW i \in Ordinals, PodAction(i)
      PROVE RolloutInv'
    <2>1. PICK p \in Pods : Succeeds(i, p) /\ PodStep(i, p)
        BY <1>9, PodActions
    <2>2. pod' = [pod EXCEPT ![i] = p] /\ UNCHANGED <<stateful, cache, rec>>
        BY <2>1 DEF PodStep
    <2>3. GoodPods(pod') /\ RevKnown' /\ (AllOnTemplate => AllOnTemplate')
        BY <2>1, <2>2, PodMoves DEF stateful, cache, rec
    <2>4. edits' \in 0 .. MaxEdits /\ faults' \in 0 .. MaxFaults
        BY <1>9, PodActions
    <2>5. TypeOK'
        BY <2>2, <2>3, <2>4 DEF TypeOK, GoodPods, stateful, cache, rec
    <2>6. UpdateKnown' /\ CountKnown'
        BY <2>2, <2>3 DEF UpdateKnown, CountKnown, Applied, stateful, rec
    <2> QED
        BY <2>3, <2>5, <2>6
<1>10. ASSUME NEW i \in Ordinals, TimePasses(i)
       PROVE RolloutInv'
    <2>1. UNCHANGED <<stateful, queue, pc, me, answer, bound>>
        BY <1>10 DEF TimePasses
    <2>2. /\ pod' = [pod EXCEPT ![i] = Aged(pod[i])]
          /\ cPod' = [cPod EXCEPT ![i] = Aged(cPod[i])]
          /\ seen' = [seen EXCEPT ![i] = Aged(seen[i])]
        BY <1>10 DEF TimePasses
    <2>3. ASSUME NEW old, NEW new, GoodPods(old), new = [old EXCEPT ![i] = Aged(old[i])]
          PROVE /\ GoodPods(new)
                /\ \A j \in Ordinals : /\ new[j].uid = old[j].uid /\ new[j].rev = old[j].rev
                                       /\ new[j].step = "gone" <=> old[j].step = "gone"
        <3>1. old[i] \in Pods
            BY <2>3 DEF GoodPods
        <3>2. /\ new \in [Ordinals -> Pods] /\ new[i] = Aged(old[i])
              /\ \A j \in Ordinals \ {i} : new[j] = old[j]
            BY <2>3, <3>1, AgedPod DEF GoodPods
        <3> QED
            BY <2>3, <3>1, <3>2, AgedPod DEF GoodPods
    <2>4. GoodPods(pod') /\ GoodPods(cPod') /\ GoodPods(seen')
        <3>1. GoodPods(pod')
            BY <1>0, <2>2, <2>3
        <3>2. GoodPods(cPod')
            BY <1>0, <2>2, <2>3
        <3>3. GoodPods(seen')
            BY <1>0, <2>2, <2>3
        <3> QED
            BY <3>1, <3>2, <3>3
    <2>5. \A j \in Ordinals :
            /\ pod'[j].uid = pod[j].uid /\ pod'[j].rev = pod[j].rev
            /\ pod'[j].step = "gone" <=> pod[j].step = "gone"
            /\ cPod'[j].uid = cPod[j].uid /\ cPod'[j].rev = cPod[j].rev
            /\ cPod'[j].step = "gone" <=> cPod[j].step = "gone"
            /\ seen'[j].uid = seen[j].uid /\ seen'[j].rev = seen[j].rev
            /\ seen'[j].step = "gone" <=> seen[j].step = "gone"
        <3>1. ASSUME NEW j \in Ordinals
              PROVE /\ pod'[j].uid = pod[j].uid /\ pod'[j].rev = pod[j].rev
                    /\ pod'[j].step = "gone" <=> pod[j].step = "gone"
            BY <1>0, <2>2, <2>3
        <3>2. ASSUME NEW j \in Ordinals
              PROVE /\ cPod'[j].uid = cPod[j].uid /\ cPod'[j].rev = cPod[j].rev
                    /\ cPod'[j].step = "gone" <=> cPod[j].step = "gone"
            BY <1>0, <2>2, <2>3
        <3>3. ASSUME NEW j \in Ordinals
              PROVE /\ seen'[j].uid = seen[j].uid /\ seen'[j].rev = seen[j].rev
                    /\ seen'[j].step = "gone" <=> seen[j].step = "gone"
            BY <1>0, <2>2, <2>3
        <3> QED
            BY <3>1, <3>2, <3>3
    <2>6. TypeOK'
        BY <2>1, <2>4 DEF TypeOK, GoodPods, stateful, bound
    <2>7. RevKnown'
        BY <2>5 DEF RevKnown
    <2>8. UpdateKnown' /\ CountKnown'
        BY <2>1, <2>5 DEF UpdateKnown, CountKnown, Applied, AllOnTemplate, stateful
    <2> QED
        BY <2>6, <2>7, <2>8
<1>11. ASSUME NEW t \in Templates, EditSpec(t)
       PROVE RolloutInv'
    <2>1. UNCHANGED <<image, template, stat, pod, cPod, rec, faults>> /\ want' = t /\ queue' = TRUE
        BY <1>11 DEF EditSpec
    <2>2. edits' \in 0 .. MaxEdits
        BY <1>11, BoundsAssumption DEF EditSpec, TypeOK
    <2> QED
        BY <2>1, <2>2 DEF rec, TypeOK, RevKnown, UpdateKnown, CountKnown, Applied, AllOnTemplate
<1>12. CASE UNCHANGED vars
    BY <1>12 DEF vars, stateful, cache, rec, bound, TypeOK, RevKnown, UpdateKnown, CountKnown,
       Applied, AllOnTemplate
<1> QED
    BY <1>1, <1>2, <1>3, <1>4, <1>5, <1>6, <1>7, <1>8, <1>9, <1>10, <1>11, <1>12
       DEF Next, Operator, Reconcile, PodAction

\* The copies that the operator decides on are good enough, whatever happened
\* since they were made.
THEOREM CopiesAreGood == Spec => []RolloutInv
<1>1. Init => RolloutInv
    BY RolloutInit
<1>2. RolloutInv /\ [Next]_vars => RolloutInv'
    BY RolloutStep
<1> QED
    BY <1>1, <1>2, PTL DEF Spec

\* Every variable keeps its type, the pods of an unfit template are never
\* ready, and the StatefulSet keeps the template that a running call applied.
THEOREM RolloutTyped == Spec => []TypeOK
<1>1. RolloutInv => TypeOK
    BY DEF RolloutInv
<1> QED
    BY <1>1, CopiesAreGood, PTL

-----------------------------------------------------------------------------
(* What the operator does with what it knows *)

\* restartStuckPod deletes no pod that has the template that was just applied:
\* with the UID it read, the pod still has the outdated revision it read.
THEOREM UpdatedPodsAreSafe == Spec => NeverDeletesUpdated
<1>1. ASSUME RolloutInv, NEW i \in Ordinals, Deletes(i)
      PROVE pod[i].rev # template
    <2>1. pc = "restart" /\ i \in Stuck /\ pod' # pod
        BY <1>1 DEF Deletes, RestartStuckPod
    <2>2. SamePod(i)
        BY <1>1, <2>1 DEF Deletes, RestartStuckPod
    <2>3. answer.observed /\ seen[i].step = "failing" /\ seen[i].rev # answer.update
        BY <2>1 DEF Stuck, Outdated
    <2>4. answer.update = template
        BY <1>1, <2>1, <2>3 DEF RolloutInv, UpdateKnown, Applied
    <2>5. seen[i].rev = pod[i].rev
        BY <1>1, <2>2, <2>3 DEF RolloutInv, RevKnown, SamePod
    <2> QED
        BY <2>3, <2>4, <2>5
<1>2. RolloutInv /\ [Next]_vars
        => [\A i \in Ordinals : Deletes(i) => pod[i].rev # template]_vars
    BY <1>1
<1> QED
    BY <1>2, CopiesAreGood, PTL DEF Spec, NeverDeletesUpdated

\* status.currentImage changes only to an image that all pods run, because the
\* rollout was complete when the StatefulSet's status said so, and the template
\* has been kept since (observeReplicas).
THEOREM CurrentImageIsComplete == Spec => ImageMeansAll
<1>1. ASSUME RolloutInv, [Next]_vars, image' # image, NEW i \in Ordinals
      PROVE pod[i].step = "gone" \/ pod[i].rev = image'
    <2>1. Observe
        BY <1>1 DEF Next, Operator, Reconcile, BeginReconcile, ApplyStatefulSet, ListPods,
           NoneStuck, RestartStuckPod, ApiError, Crash, SyncPods, StatefulSetStatus,
           ReplacePod, CreatePod, PodTerminates, PodBecomesReady, PodFails, PodWaits,
           PodRuns, Evict, PodStep, TimePasses, EditSpec, stateful, vars
    <2>2. AllReady /\ image' = me /\ pc = "observe"
        BY <1>1, <2>1 DEF Observe
    <2>3. answer.observed /\ answer.updated = N
        BY <2>2 DEF AllReady, RolloutInProgress
    <2>4. AllOnTemplate /\ template = me
        BY <1>1, <2>2, <2>3 DEF RolloutInv, TypeOK, CountKnown, Applied
    <2> QED
        BY <2>2, <2>4 DEF AllOnTemplate
<1>2. RolloutInv /\ [Next]_vars =>
        [image' # image => \A i \in Ordinals : pod[i].step = "gone" \/ pod[i].rev = image']_vars
    BY <1>1
<1> QED
    BY <1>2, CopiesAreGood, PTL DEF Spec, ImageMeansAll
=============================================================================
