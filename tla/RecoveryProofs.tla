---------------------------- MODULE RecoveryProofs ----------------------------
(***************************************************************************)
(* Proofs about recovery, for every number of replicas, both policies and  *)
(* any number of pods, losses, failed calls and crashes.                   *)
(*                                                                         *)
(* That a pod recovers by hand only once a user has listed its UID         *)
(* (ApprovedOnly) needs the whole way of the approval: the UID goes from   *)
(* the annotation to the cache, to the call, from there as an annotation   *)
(* to the pod that has the name then, and with the kubelet to the helper.  *)
(* Every station only has what the one before had (Approvals), and the pod *)
(* is still the one that was read (PodsCurrent, the first assumption).     *)
(* That the approval is not used twice needs that a pod that has recovered *)
(* stays as it is until it is replaced (SpentIsOver, the second one).      *)
(***************************************************************************)
EXTENDS Recovery, FiniteSetTheorems, TLAPS

\* Only replicas have pods, whose UIDs are their own and were given out.
Incarnations ==
    /\ \A i \in Ordinals : ~Exists(i) => pod[i] = NoPod
    /\ \A i \in Ordinals : Exists(i) => i \in Replicas /\ pod[i].uid <= lastUid
    /\ \A i, j \in Ordinals : Exists(i) /\ pod[i].uid = pod[j].uid => i = j

\* Pods that a view says to recover exist.
Recovering ==
    \A view \in {cPod, seen} : \A i \in Ordinals : view[i].recovering => view[i].uid # 0

TypeInv == TypeOK /\ Incarnations /\ Recovering

\* Somebody has looked at the pods for this call.
Looked == pc \in {"approve", "observe"}

\* Until a pod's name is used again, what was seen under it is the pod.
Current ==
    \A i \in Ordinals : Exists(i) =>
        /\ cPod[i].uid \in {0, pod[i].uid}
        /\ Looked => seen[i].uid \in {0, pod[i].uid}

\* The way of an approval, from the user to the recover init container.
Approvals ==
    /\ 0 \notin listed /\ anno \subseteq listed /\ cAnno \subseteq listed /\ me \subseteq listed
    /\ \A i \in Ordinals :
         /\ pod[i].approved => pod[i].uid \in listed
         /\ pod[i].info => pod[i].approved

\* Who has recovered exists no more, or is ready.
SpentIsOver ==
    /\ spent \subseteq 1 .. lastUid
    /\ \A i \in Ordinals : pod[i].uid \in spent => pod[i].step = "ready"

ApprovalInv == TypeInv /\ Current /\ Approvals /\ SpentIsOver

-----------------------------------------------------------------------------
(* Lemmas about the operators *)

\* The replicas are ordinals, and there are as many of them as the spec says.
LEMMA ReplicasAre ==
    ASSUME TypeOK
    PROVE /\ replicas \in Nat \ {0} /\ replicas <= MaxUid /\ Replicas \subseteq Ordinals
          /\ \A S \in SUBSET Replicas : Cardinality(S) \in 0 .. replicas
<1>1. replicas \in Sizes /\ replicas \in Nat \ {0} /\ replicas <= MaxUid
    BY SizesAssumption, BoundsAssumption DEF TypeOK
<1>2. Replicas \subseteq Ordinals
    BY <1>1 DEF Replicas, Ordinals
<1>3. ASSUME NEW S \in SUBSET Replicas
      PROVE Cardinality(S) \in 0 .. replicas
    <2>1. IsFiniteSet(Replicas) /\ Cardinality(Replicas) = replicas
        <3>1. IsFiniteSet(0 .. replicas - 1) /\ Cardinality(0 .. replicas - 1) = replicas
            BY <1>1, FS_Interval
        <3> QED
            BY <3>1 DEF Replicas
    <2>2. IsFiniteSet(S) /\ Cardinality(S) <= replicas
        BY <2>1, FS_Subset
    <2> QED
        BY <1>1, <2>2, FS_CardinalityType
<1> QED
    BY <1>1, <1>2, <1>3

\* What a pod's object shows (View).
LEMMA ViewShows ==
    ASSUME NEW p \in Pods
    PROVE /\ View(p) \in Views /\ View(p).uid = p.uid
          /\ View(p).recovering => p.step \in {"recover", "recovering"}
<1>1. p.uid \in Uids /\ p.approved \in BOOLEAN
    BY DEF Pods
<1>2. (p.step \in {"recover", "recovering"}) \in BOOLEAN /\ (p.step = "ready") \in BOOLEAN
    OBVIOUS
<1> QED
    BY <1>1, <1>2 DEF View, Views

\* No pod shows nothing, and is a possible value.
LEMMA NoPodIs == NoPod \in Pods /\ NoPod.uid = 0 /\ NoPod.step = "pending"
                 /\ ~NoPod.approved /\ ~NoPod.info
BY BoundsAssumption DEF NoPod, Pods, Uids, Steps

\* A list of the pods as they are.
Listed == [i \in Ordinals |-> View(pod[i])]

LEMMA ListShows ==
    ASSUME TypeInv
    PROVE /\ Listed \in [Ordinals -> Views]
          /\ \A i \in Ordinals : Listed[i].uid = pod[i].uid
          /\ \A i \in Ordinals : Listed[i].recovering => Listed[i].uid # 0
<1>1. ASSUME NEW i \in Ordinals
      PROVE /\ Listed[i] \in Views /\ Listed[i].uid = pod[i].uid
            /\ Listed[i].recovering => pod[i].uid # 0
    <2>1. pod[i] \in Pods /\ Listed[i] = View(pod[i])
        BY DEF TypeInv, TypeOK, Listed
    <2>2. pod[i].uid = 0 => pod[i].step = "pending"
        BY NoPodIs DEF TypeInv, Incarnations, Exists
    <2> QED
        BY <2>1, <2>2, ViewShows
<1> QED
    BY <1>1 DEF Listed

-----------------------------------------------------------------------------
(* What may become of a pod *)

\* The pod itself, further on, or none, or a new one.
Succeeds(i, p) ==
    /\ p \in Pods /\ lastUid' \in {lastUid, lastUid + 1} /\ UNCHANGED spec
    /\ \/ Exists(i) /\ p.uid = pod[i].uid
       \/ p = NoPod
       \/ i \in Replicas /\ p.uid = lastUid + 1 /\ lastUid' = lastUid + 1

\* The pod of one ordinal moves on: names and UIDs stay in order.
LEMMA PodMoves ==
    ASSUME TypeInv, NEW i \in Ordinals, NEW p, Succeeds(i, p), pod' = [pod EXCEPT ![i] = p]
    PROVE /\ pod' \in [Ordinals -> Pods] /\ pod'[i] = p
          /\ \A j \in Ordinals : j # i => pod'[j] = pod[j]
          /\ Incarnations'
<1>1. /\ pod' \in [Ordinals -> Pods] /\ pod'[i] = p
      /\ \A j \in Ordinals : j # i => pod'[j] = pod[j]
    BY DEF TypeInv, TypeOK, Succeeds
<1>2. lastUid \in Nat /\ \A j \in Ordinals : pod[j].uid \in Nat /\ pod'[j].uid \in Nat
    BY <1>1, BoundsAssumption DEF TypeInv, TypeOK, Pods, Uids
<1>3. Replicas' = Replicas
    BY DEF Succeeds, spec, Replicas
<1>4. ASSUME NEW j \in Ordinals
      PROVE /\ ~Exists(j)' => pod'[j] = NoPod
            /\ Exists(j)' => j \in Replicas /\ pod'[j].uid <= lastUid'
    <2>1. CASE j = i
        BY <1>1, <1>2, <2>1, NoPodIs DEF Succeeds, Exists, TypeInv, Incarnations
    <2>2. CASE j # i
        BY <1>1, <1>2, <2>2 DEF Succeeds, Exists, TypeInv, Incarnations
    <2> QED
        BY <2>1, <2>2
<1>5. ASSUME NEW j \in Ordinals, NEW l \in Ordinals, Exists(j)', pod'[j].uid = pod'[l].uid
      PROVE j = l
    <2>1. \A m \in Ordinals : Exists(m) => pod[m].uid <= lastUid
        BY DEF TypeInv, Incarnations
    <2>2. \A m, n \in Ordinals : Exists(m) /\ pod[m].uid = pod[n].uid => m = n
        BY DEF TypeInv, Incarnations
    <2>3. CASE j # i /\ l # i
        BY <1>1, <1>5, <2>2, <2>3 DEF Exists
    <2>4. CASE j = i /\ l # i
        BY <1>1, <1>2, <1>5, <2>1, <2>2, <2>4, NoPodIs DEF Exists, Succeeds
    <2>5. CASE j # i /\ l = i
        BY <1>1, <1>2, <1>5, <2>1, <2>2, <2>5, NoPodIs DEF Exists, Succeeds
    <2> QED
        BY <2>3, <2>4, <2>5
<1> QED
    BY <1>1, <1>3, <1>4, <1>5 DEF Incarnations, Exists

\* Names and UIDs stay in order while the pods stay the same.
LEMMA PodsStay ==
    ASSUME TypeInv, UNCHANGED <<pod, lastUid, spec>>
    PROVE Incarnations'
BY DEF TypeInv, Incarnations, Exists, Replicas, spec

\* What the controller, the kubelet, the helper and misfortune do to a pod.
PodAction(i) ==
    \/ CreatePod(i) \/ StartPod(i) \/ RefreshInfo(i) \/ BeginRecover(i) \/ Recover(i)
    \/ LosePod(i) \/ RestartWithoutData(i)

\* The same pod, with its annotation, of which the kubelet may have a newer
\* copy, or a pod that nobody has approved or seen.
Bears(i, p) ==
    \/ /\ Exists(i) /\ p.uid = pod[i].uid
       /\ p.approved = pod[i].approved /\ p.info \in {pod[i].info, pod[i].approved}
    \/ /\ ~p.approved /\ ~p.info
       /\ p.uid # 0 => /\ p.uid = lastUid + 1
                       /\ "PodsCurrent" \in Assumed =>
                            cPod[i].uid = 0 /\ (Looked => seen[i].uid = 0)

\* A pod that has recovered is ready until it is lost.
Rests(i, p) ==
    \/ spent' = spent /\ (Exists(i) /\ p.uid = pod[i].uid /\ p.uid \in spent
                            /\ pod[i].step = "ready" => p.step = "ready")
    \/ Exists(i) /\ p.uid = pod[i].uid /\ spent' = spent \union {p.uid} /\ p.step = "ready"

LEMMA PodActions ==
    ASSUME TypeInv, NEW i \in Ordinals, PodAction(i)
    PROVE /\ \E p \in Pods :
                /\ Succeeds(i, p) /\ Bears(i, p) /\ pod' = [pod EXCEPT ![i] = p]
                /\ "OneLossEach" \in Assumed => Rests(i, p)
          /\ file' \subseteq Replicas /\ lastUid' \in Uids /\ faults' \in 0 .. MaxFaults
          /\ spent' \subseteq Uids
          /\ UNCHANGED <<ready, anno, spec, listed>> /\ UnchangedOperator
<1>1. /\ pod[i] \in Pods /\ pod[i].uid \in Uids /\ file \subseteq Replicas
      /\ lastUid \in Uids /\ lastUid \in Nat /\ MaxUid \in Nat
      /\ faults \in 0 .. MaxFaults /\ spent \subseteq Uids
    BY BoundsAssumption DEF TypeInv, TypeOK, Pods, Uids
<1>2. pod[i].step # "pending" => Exists(i)
    BY NoPodIs DEF TypeInv, Incarnations
<1>3. Exists(i) => i \in Replicas
    BY DEF TypeInv, Incarnations
<1>4. UNCHANGED <<ready, anno, spec, listed>> /\ UnchangedOperator
    BY DEF PodAction, CreatePod, StartPod, RefreshInfo, BeginRecover, Recover, LosePod,
       RestartWithoutData, ghost
<1>5. faults' \in 0 .. MaxFaults
    <2>1. faults' = faults \/ (faults < MaxFaults /\ faults' = faults + 1)
        BY DEF PodAction, CreatePod, StartPod, RefreshInfo, BeginRecover, Recover,
           LosePod, RestartWithoutData, Fault
    <2> QED
        BY <1>1, <2>1, BoundsAssumption
<1>6. lastUid' \in Uids /\ lastUid' \in {lastUid, lastUid + 1}
    <2>1. lastUid' = lastUid \/ (lastUid < MaxUid /\ lastUid' = lastUid + 1)
        BY DEF PodAction, CreatePod, StartPod, RefreshInfo, BeginRecover, Recover,
           LosePod, RestartWithoutData
    <2> QED
        BY <1>1, <2>1 DEF Uids
<1>7. file' \subseteq Replicas
    BY <1>1, <1>2, <1>3 DEF PodAction, CreatePod, StartPod, RefreshInfo, BeginRecover,
       Recover, LosePod, RestartWithoutData
<1>8. spent' = spent \/ spent' = spent \union {pod[i].uid}
    BY DEF PodAction, CreatePod, StartPod, RefreshInfo, BeginRecover, Recover, LosePod,
       RestartWithoutData, ghost
<1>9. ASSUME NEW p \in Pods, Exists(i), p.uid = pod[i].uid, p.approved = pod[i].approved,
             p.info \in {pod[i].info, pod[i].approved}
      PROVE Succeeds(i, p) /\ Bears(i, p)
    BY <1>4, <1>6, <1>9 DEF Succeeds, Bears
<1>10. CASE CreatePod(i)
    <2> DEFINE p == [NoPod EXCEPT !.uid = lastUid + 1]
    <2>1. /\ p \in Pods /\ p.uid = lastUid + 1 /\ ~p.approved /\ ~p.info
          /\ lastUid' = lastUid + 1 /\ i \in Replicas /\ ~Exists(i) /\ spent' = spent
          /\ pod' = [pod EXCEPT ![i] = p]
        BY <1>1, <1>6, <1>10, NoPodIs DEF CreatePod, Pods, ghost
    <2>2. "PodsCurrent" \in Assumed => cPod[i].uid = 0 /\ (Looked => seen[i].uid = 0)
        BY <1>10 DEF CreatePod, Looked
    <2>3. Succeeds(i, p) /\ Bears(i, p) /\ Rests(i, p)
        BY <1>4, <1>6, <2>1, <2>2 DEF Succeeds, Bears, Rests
    <2> QED
        BY <1>4, <1>5, <1>6, <1>7, <2>1, <2>3, <1>1
<1>11. CASE LosePod(i)
    <2>1. pod' = [pod EXCEPT ![i] = NoPod] /\ spent' = spent
        BY <1>11 DEF LosePod, ghost
    <2>2. Succeeds(i, NoPod) /\ Bears(i, NoPod) /\ Rests(i, NoPod)
        BY <1>4, <1>6, <2>1, NoPodIs DEF Succeeds, Bears, Rests, Exists
    <2> QED
        BY <1>1, <1>4, <1>5, <1>6, <1>7, <2>1, <2>2, NoPodIs
<1>12. CASE StartPod(i) \/ BeginRecover(i)
    <2>1. PICK step \in Steps : pod' = [pod EXCEPT ![i].step = step]
        BY <1>12 DEF StartPod, BeginRecover, Steps
    <2>2. Exists(i) /\ pod[i].step # "ready" /\ spent' = spent
        BY <1>2, <1>12 DEF StartPod, BeginRecover, Waits, ghost
    <2> DEFINE p == [pod[i] EXCEPT !.step = step]
    <2>3. p \in Pods /\ p.uid = pod[i].uid /\ p.approved = pod[i].approved /\ p.info = pod[i].info
        BY <1>1 DEF Pods
    <2>4. Rests(i, p)
        BY <2>2 DEF Rests
    <2> QED
        BY <1>1, <1>4, <1>5, <1>6, <1>7, <1>9, <2>1, <2>2, <2>3, <2>4
<1>13. CASE RefreshInfo(i)
    <2> DEFINE p == [pod[i] EXCEPT !.info = pod[i].approved]
    <2>1. /\ pod' = [pod EXCEPT ![i] = p] /\ spent' = spent
          /\ pod[i].info # pod[i].approved
        BY <1>13 DEF RefreshInfo, ghost
    <2>2. Exists(i)
        <3>1. NoPod.info = NoPod.approved
            BY DEF NoPod
        <3> QED
            BY <2>1, <3>1 DEF TypeInv, Incarnations
    <2>3. /\ p \in Pods /\ p.uid = pod[i].uid /\ p.approved = pod[i].approved
          /\ p.info = pod[i].approved /\ p.step = pod[i].step
        BY <1>1 DEF Pods
    <2>4. Rests(i, p)
        BY <2>1, <2>3 DEF Rests
    <2> QED
        BY <1>1, <1>4, <1>5, <1>6, <1>7, <1>9, <2>1, <2>2, <2>3, <2>4
<1>14. CASE Recover(i)
    <2> DEFINE p == [pod[i] EXCEPT !.step = "ready"]
    <2>1. /\ pod' = [pod EXCEPT ![i] = p] /\ spent' = spent \union {pod[i].uid}
          /\ Exists(i)
        BY <1>2, <1>14 DEF Recover
    <2>2. /\ p \in Pods /\ p.uid = pod[i].uid /\ p.approved = pod[i].approved
          /\ p.info = pod[i].info /\ p.step = "ready"
        BY <1>1 DEF Pods, Steps
    <2>3. Rests(i, p)
        BY <2>1, <2>2 DEF Rests
    <2> QED
        BY <1>1, <1>4, <1>5, <1>6, <1>7, <1>8, <1>9, <2>1, <2>2, <2>3
<1>15. CASE RestartWithoutData(i)
    <2> DEFINE p == [pod[i] EXCEPT !.step = "pending", !.info = pod[i].approved]
    <2>1. /\ pod' = [pod EXCEPT ![i] = p] /\ spent' = spent /\ Exists(i)
          /\ "OneLossEach" \in Assumed => pod[i].uid \notin spent
        BY <1>1, <1>15 DEF RestartWithoutData, ghost, Pods, TypeInv, TypeOK
    <2>2. /\ p \in Pods /\ p.uid = pod[i].uid /\ p.approved = pod[i].approved
          /\ p.info = pod[i].approved
        BY <1>1 DEF Pods, Steps
    <2>3. "OneLossEach" \in Assumed => Rests(i, p)
        BY <2>1, <2>2 DEF Rests
    <2> QED
        BY <1>1, <1>4, <1>5, <1>6, <1>7, <1>9, <2>1, <2>2, <2>3
<1> QED
    BY <1>10, <1>11, <1>12, <1>13, <1>14, <1>15 DEF PodAction

\* The pod that ApprovePod annotates, if it annotates one, and the views that
\* it leaves (approveRecoveries).
LEMMA Approves ==
    ASSUME TypeInv, ApprovePod
    PROVE /\ k \in Replicas /\ k \in Ordinals
          /\ \/ /\ pod' = pod /\ k' \in {k, k + 1}
                /\ seen' = seen /\ pc' \in {pc, "idle"}
             \/ /\ Exists(k) /\ seen[k].uid \in me /\ pc' = pc /\ k' = k + 1
                /\ \E p \in Pods :
                     /\ pod' = [pod EXCEPT ![k] = p]
                     /\ Succeeds(k, p) /\ p.uid = pod[k].uid /\ p.approved
                     /\ p.info = pod[k].info /\ p.step = pod[k].step
                     /\ seen' = [seen EXCEPT ![k] = View(p)]
<1>1. k \in Replicas /\ k \in Ordinals
    BY ReplicasAre DEF ApprovePod, Replicas, TypeInv, TypeOK
<1>2. CASE ToApprove(seen[k]) /\ Exists(k)
    <2> DEFINE p == [pod[k] EXCEPT !.approved = TRUE]
    <2>1. pod[k] \in Pods /\ pod \in [Ordinals -> Pods]
        BY <1>1 DEF TypeInv, TypeOK
    <2>2. /\ p \in Pods /\ p.uid = pod[k].uid /\ p.approved
          /\ p.info = pod[k].info /\ p.step = pod[k].step
        BY <2>1 DEF Pods
    <2>3. /\ pod' = [pod EXCEPT ![k] = p] /\ seen' = [seen EXCEPT ![k] = View(pod'[k])]
          /\ k' = k + 1 /\ pc' = pc /\ UNCHANGED <<spec, lastUid>>
        BY <1>2 DEF ApprovePod
    <2>4. pod'[k] = p
        BY <1>1, <2>1, <2>3
    <2>5. Succeeds(k, p)
        BY <1>2, <2>2, <2>3 DEF Succeeds
    <2>6. seen[k].uid \in me
        BY <1>2 DEF ToApprove
    <2> QED
        BY <1>1, <1>2, <2>2, <2>3, <2>4, <2>5, <2>6
<1>3. CASE ~(ToApprove(seen[k]) /\ Exists(k))
    BY <1>1, <1>3 DEF ApprovePod, ReconcileError
<1> QED
    BY <1>2, <1>3

-----------------------------------------------------------------------------
(* Types, names and UIDs *)

\* A cluster that has just become ready (Init).
LEMMA TypeInit == Init => TypeInv
<1> SUFFICES ASSUME Init
             PROVE TypeInv
    OBVIOUS
<1>1. replicas \in Nat \ {0} /\ replicas <= MaxUid /\ MaxUid \in Nat /\ MaxFaults \in Nat
    BY SizesAssumption, BoundsAssumption DEF Init
<1>2. Replicas \subseteq Ordinals /\ Replicas = 0 .. replicas - 1
    BY <1>1 DEF Init, Replicas, Ordinals
<1>3. ASSUME NEW i \in Ordinals
      PROVE /\ i \in Replicas => /\ pod[i] \in Pods /\ pod[i].uid = i + 1
                                 /\ pod[i].step = "ready"
            /\ i \notin Replicas => pod[i] = NoPod
    BY <1>1, <1>2 DEF Init, Pods, Steps, Uids
<1>4. pod \in [Ordinals -> Pods]
    BY <1>3, NoPodIs DEF Init
<1>5. Incarnations
    <2>1. \A i \in Ordinals : Exists(i) <=> i \in Replicas
        BY <1>2, <1>3, NoPodIs DEF Exists
    <2>2. lastUid = replicas /\ \A i \in Replicas : i \in 0 .. replicas - 1
        BY <1>2 DEF Init
    <2>3. \A i \in Ordinals : Exists(i) => i \in Replicas /\ pod[i].uid <= lastUid
        BY <1>1, <1>3, <2>1, <2>2
    <2>4. ASSUME NEW i \in Ordinals, NEW j \in Ordinals, Exists(i), pod[i].uid = pod[j].uid
          PROVE i = j
        <3>1. Exists(j)
            BY <2>4 DEF Exists
        <3> QED
            BY <1>1, <1>3, <2>1, <2>2, <2>4, <3>1
    <2> QED
        BY <1>3, <2>1, <2>3, <2>4 DEF Incarnations
<1>6. cPod = Listed /\ seen = cPod
    BY DEF Init, Listed
<1>7. ASSUME NEW i \in Ordinals
      PROVE Listed[i] \in Views /\ ~Listed[i].recovering
    <2>1. pod[i].step \notin {"recover", "recovering"}
        BY <1>3, NoPodIs
    <2> QED
        BY <1>4, <2>1, ViewShows DEF Listed
<1>8. Listed \in [Ordinals -> Views]
    BY <1>7 DEF Listed
<1>9. TypeOK
    <2>1. pod \in [Ordinals -> Pods] /\ cPod \in [Ordinals -> Views] /\ seen \in [Ordinals -> Views]
        BY <1>4, <1>6, <1>8
    <2>2. ready \in 0 .. replicas /\ k \in 0 .. replicas /\ faults \in 0 .. MaxFaults
          /\ lastUid \in Uids
        BY <1>1 DEF Init, Uids
    <2>3. dataLost = FALSE /\ queue = FALSE /\ allReady = TRUE
        BY DEF Init
    <2> QED
        BY <2>1, <2>2, <2>3 DEF Init, TypeOK
<1>10. Recovering
    BY <1>6, <1>7 DEF Recovering
<1> QED
    BY <1>5, <1>9, <1>10 DEF TypeInv

\* The UIDs that Observe reports are those of pods that exist (observeReplicas).
LEMMA AwaitingTyped ==
    ASSUME TypeInv
    PROVE Awaiting \subseteq Uids \ {0}
<1>1. ASSUME NEW i \in Replicas, seen[i].recovering
      PROVE seen[i].uid \in Uids \ {0}
    <2>1. i \in Ordinals
        BY ReplicasAre DEF TypeInv
    <2> QED
        BY <1>1, <2>1 DEF TypeInv, TypeOK, Recovering, Views
<1> QED
    BY <1>1 DEF Awaiting

\* Every step keeps types, names and UIDs.
LEMMA TypeStep == TypeInv /\ [Next]_vars => TypeInv'
<1> SUFFICES ASSUME TypeInv, [Next]_vars
             PROVE TypeInv'
    OBVIOUS
<1>0. replicas \in Nat \ {0} /\ TypeOK /\ Recovering /\ MaxFaults \in Nat
    BY ReplicasAre, BoundsAssumption DEF TypeInv
<1>same. ASSUME UNCHANGED <<pod, lastUid, spec>>, TypeOK', Recovering'
      PROVE TypeInv'
    BY <1>same, PodsStay DEF TypeInv
<1>fault. ASSUME faults' = faults \/ Fault
      PROVE faults' \in 0 .. MaxFaults
    <2>1. faults' = faults \/ (faults < MaxFaults /\ faults' = faults + 1)
        BY <1>fault DEF Fault
    <2> QED
        BY <1>0, <2>1 DEF TypeOK
<1>1. CASE BeginReconcile \/ ApplyStatefulSet \/ ApprovedAll
    BY <1>0, <1>1, <1>same DEF BeginReconcile, ApplyStatefulSet, ApprovedAll, cluster, spec,
       status, cache, ghost, TypeOK, Recovering, Replicas
<1>2. CASE ListPods
    BY <1>0, <1>2, <1>same DEF ListPods, cluster, spec, status, cache, ghost, TypeOK,
       Recovering, Replicas
<1>3. CASE Observe
    <2>1. awaiting' \subseteq Uids \ {0} /\ dataLost' \in BOOLEAN /\ queue' \in BOOLEAN
        BY <1>0, <1>3, AwaitingTyped DEF Observe, LostForGood, Requeue, TypeOK
    <2> QED
        BY <1>0, <1>3, <1>same, <2>1 DEF Observe, cluster, spec, ghost, TypeOK, Recovering,
           Replicas
<1>4. CASE ApiError
    BY <1>0, <1>4, <1>same, <1>fault DEF ApiError, ReconcileError, cluster, spec, ghost, TypeOK,
       Recovering, Replicas
<1>5. CASE SyncPods \/ Crash
    <2>1. cPod' = Listed /\ faults' \in 0 .. MaxFaults
        BY <1>5, <1>fault DEF SyncPods, Crash, Listed
    <2>2. UNCHANGED <<cluster, status, me, seen, k, allReady, ghost>>
        BY <1>5 DEF SyncPods, Crash, rec
    <2>3. cAnno' \in {cAnno, anno} /\ queue' \in {queue, TRUE} /\ pc' \in {pc, "idle"}
        BY <1>5 DEF SyncPods, Crash, rec
    <2> QED
        BY <1>0, <1>same, <2>1, <2>2, <2>3, ListShows DEF cluster, spec, status, ghost, TypeOK,
           Recovering, Replicas
<1>6. CASE SyncCluster
    BY <1>0, <1>6, <1>same DEF SyncCluster, cluster, spec, status, rec, ghost, TypeOK,
       Recovering, Replicas
<1>7. CASE ApprovePod
    <2>1. UNCHANGED <<file, ready, anno, spec, lastUid, cPod, cAnno, me, allReady, ghost, faults>>
        BY <1>7 DEF ApprovePod
    <2>2. /\ awaiting' \in {awaiting, {}} /\ dataLost' \in {dataLost, FALSE}
          /\ queue' \in {queue, TRUE} /\ k < replicas
        BY <1>7 DEF ApprovePod, ReconcileError, status
    <2>3. k' \in 0 .. replicas /\ pc' \in {pc, "idle"}
        BY <1>0, <1>7, <2>2, Approves DEF TypeOK
    <2>4. CASE pod' = pod /\ seen' = seen
        BY <1>0, <1>same, <2>1, <2>2, <2>3, <2>4 DEF spec, ghost, TypeOK, Recovering, Replicas
    <2>5. CASE ~(pod' = pod /\ seen' = seen)
        <3>1. PICK p \in Pods :
                /\ Exists(k) /\ k \in Ordinals /\ pod' = [pod EXCEPT ![k] = p]
                /\ Succeeds(k, p) /\ p.uid = pod[k].uid
                /\ seen' = [seen EXCEPT ![k] = View(p)]
            BY <1>7, <2>5, Approves
        <3>2. pod' \in [Ordinals -> Pods] /\ Incarnations'
            BY <3>1, PodMoves
        <3>3. View(p) \in Views /\ View(p).uid # 0
            BY <3>1, ViewShows DEF Exists
        <3>4. seen' \in [Ordinals -> Views] /\ Recovering'
            BY <1>0, <2>1, <3>1, <3>3 DEF TypeOK, Recovering
        <3>5. TypeOK'
            BY <1>0, <2>1, <2>2, <2>3, <3>2, <3>4 DEF spec, ghost, TypeOK, Replicas
        <3> QED
            BY <3>2, <3>4, <3>5 DEF TypeInv
    <2> QED
        BY <2>4, <2>5
<1>8. CASE StatefulSetStatus
    <2>1. ready' = Cardinality(ReadyPods)
        BY <1>8 DEF StatefulSetStatus
    <2>2. ReadyPods \in SUBSET Replicas
        BY NoPodIs DEF ReadyPods, TypeInv, Incarnations
    <2>3. ready' \in 0 .. replicas
        BY <1>0, <2>1, <2>2, ReplicasAre
    <2> QED
        BY <1>0, <1>8, <1>same, <2>3 DEF StatefulSetStatus, spec, status, rec, ghost, TypeOK,
           Recovering, Replicas
<1>9. CASE UserApproves
    BY <1>0, <1>9, <1>same DEF UserApproves, UnchangedOperator, spec, status, cache, rec,
       TypeOK, Recovering, Replicas
<1>10. ASSUME NEW i \in Ordinals, RestoreVolume(i)
       PROVE TypeInv'
    <2>1. file' \subseteq Replicas /\ faults' \in 0 .. MaxFaults
        BY <1>0, <1>10, <1>fault DEF RestoreVolume, TypeOK
    <2> QED
        BY <1>0, <1>10, <1>same, <2>1 DEF RestoreVolume, UnchangedOperator, spec, status, cache,
           rec, ghost, TypeOK, Recovering, Replicas
<1>11. ASSUME NEW i \in Ordinals, PodAction(i)
       PROVE TypeInv'
    <2>1. PICK p \in Pods : Succeeds(i, p) /\ pod' = [pod EXCEPT ![i] = p]
        BY <1>11, PodActions
    <2>2. /\ file' \subseteq Replicas /\ lastUid' \in Uids /\ faults' \in 0 .. MaxFaults
          /\ spent' \subseteq Uids
          /\ UNCHANGED <<ready, anno, spec, listed>> /\ UnchangedOperator
        BY <1>11, PodActions
    <2>3. pod' \in [Ordinals -> Pods] /\ Incarnations'
        BY <2>1, PodMoves
    <2>4. TypeOK' /\ Recovering'
        BY <1>0, <2>2, <2>3 DEF UnchangedOperator, spec, status, cache, rec, TypeOK,
           Recovering, Replicas
    <2> QED
        BY <2>3, <2>4 DEF TypeInv
<1>12. CASE UNCHANGED vars
    BY <1>0, <1>12, <1>same DEF vars, cluster, spec, status, cache, rec, ghost, TypeOK,
       Recovering, Replicas
<1> QED
    BY <1>1, <1>2, <1>3, <1>4, <1>5, <1>6, <1>7, <1>8, <1>9, <1>10, <1>11, <1>12
       DEF Next, Operator, Reconcile, PodAction

\* Every variable keeps its type, only replicas have pods, each pod has a UID of
\* its own, and a pod that a view says to recover exists.
THEOREM PodsAreTheirOwn == Spec => []TypeInv
<1> QED
    BY TypeInit, TypeStep, PTL DEF Spec

\* Every variable keeps its type, whatever is assumed of pods.
THEOREM RecoveryTyped == Spec => []TypeOK
<1>1. TypeInv => TypeOK
    BY DEF TypeInv
<1> QED
    BY <1>1, PodsAreTheirOwn, PTL

-----------------------------------------------------------------------------
(* The way of an approval *)

\* Nobody has approved anything yet (Init).
LEMMA ApprovalInit == Init => ApprovalInv
<1> SUFFICES ASSUME Init
             PROVE ApprovalInv
    OBVIOUS
<1>1. TypeInv
    BY TypeInit
<1>2. cPod = Listed /\ pc = "idle"
    BY DEF Init, Listed
<1>3. Current
    BY <1>1, <1>2, ListShows DEF Current, Looked
<1>4. \A i \in Ordinals : ~pod[i].approved /\ ~pod[i].info
    BY NoPodIs DEF Init
<1>5. Approvals /\ SpentIsOver
    BY <1>4 DEF Init, Approvals, SpentIsOver
<1> QED
    BY <1>1, <1>3, <1>5 DEF ApprovalInv

\* Nothing about the pods changes, and what is copied was there before.
LEMMA ApprovalsStay ==
    ASSUME ApprovalInv, TypeInv', UNCHANGED <<pod, lastUid, spent>>,
           cPod' \in {cPod, Listed}, (seen' = seen /\ (Looked' => Looked)) \/ seen' = cPod,
           listed \subseteq listed', 0 \notin listed', anno' \subseteq listed',
           cAnno' \in {cAnno, anno}, me' \in {me, cAnno}
    PROVE ApprovalInv'
<1>1. Current'
    <2> SUFFICES ASSUME NEW i \in Ordinals, Exists(i)'
                 PROVE /\ cPod'[i].uid \in {0, pod[i].uid}
                       /\ Looked' => seen'[i].uid \in {0, pod[i].uid}
        BY DEF Current
    <2>1. Exists(i) /\ TypeInv
        BY DEF Exists, ApprovalInv
    <2> QED
        BY <2>1, ListShows DEF ApprovalInv, Current
<1>2. Approvals'
    BY DEF ApprovalInv, Approvals
<1>3. SpentIsOver'
    BY DEF ApprovalInv, SpentIsOver
<1> QED
    BY <1>1, <1>2, <1>3 DEF ApprovalInv

\* The pod of one ordinal moves on, and the operator looks away or sees it.
LEMMA ApprovalsMove ==
    ASSUME ApprovalInv, TypeInv', NEW i \in Ordinals, NEW p \in Pods,
           Succeeds(i, p), pod' = [pod EXCEPT ![i] = p],
           UNCHANGED <<listed, anno, cAnno, me, cPod, pc>>,
           seen' = seen \/ seen' = [seen EXCEPT ![i] = View(p)],
           p.approved => p.uid \in listed, p.info => p.approved,
           p.uid \in {0, pod[i].uid} \/ (cPod[i].uid = 0 /\ (Looked => seen[i].uid = 0)),
           Rests(i, p)
    PROVE ApprovalInv'
<1>1. /\ pod'[i] = p /\ \A j \in Ordinals : j # i => pod'[j] = pod[j]
      /\ TypeInv /\ Current /\ Approvals /\ SpentIsOver
    BY PodMoves DEF ApprovalInv
<1>2. /\ \A j \in Ordinals : j # i => seen'[j] = seen[j]
      /\ seen'[i].uid \in {seen[i].uid, p.uid}
    BY ViewShows DEF ApprovalInv, TypeInv, TypeOK
<1>3. Current'
    <2> SUFFICES ASSUME NEW j \in Ordinals, Exists(j)'
                 PROVE /\ cPod[j].uid \in {0, pod'[j].uid}
                       /\ Looked => seen'[j].uid \in {0, pod'[j].uid}
        BY DEF Current, Looked
    <2>1. CASE j # i
        BY <1>1, <1>2, <2>1 DEF Current, Exists
    <2>2. CASE j = i
        BY <1>1, <1>2, <2>2 DEF Current, Exists
    <2> QED
        BY <2>1, <2>2
<1>4. Approvals'
    BY <1>1 DEF Approvals
<1>5. SpentIsOver'
    <2>1. lastUid \in Nat /\ lastUid' \in Nat /\ lastUid <= lastUid' /\ pod[i].uid \in Nat
        BY <1>1, BoundsAssumption DEF Succeeds, TypeInv, TypeOK, Uids, Pods
    <2>2. \A j \in Ordinals : j # i /\ Exists(i) => pod[j].uid # pod[i].uid
        BY <1>1 DEF TypeInv, Incarnations
    <2>3. spent' \subseteq 1 .. lastUid'
        <3>1. Exists(i) => pod[i].uid \in 1 .. lastUid
            BY <1>1, <2>1 DEF TypeInv, Incarnations, Exists
        <3>2. spent' = spent \/ (Exists(i) /\ spent' = spent \union {pod[i].uid})
            BY DEF Rests
        <3>3. 1 .. lastUid \subseteq 1 .. lastUid'
            BY <2>1
        <3> QED
            BY <1>1, <3>1, <3>2, <3>3 DEF SpentIsOver
    <2>4. ASSUME NEW j \in Ordinals, pod'[j].uid \in spent'
          PROVE pod'[j].step = "ready"
        <3>1. CASE j # i
            BY <1>1, <2>2, <2>4, <3>1 DEF SpentIsOver, Rests
        <3>2. CASE j = i
            <4>1. p.uid \in spent \/ p.step = "ready"
                BY <1>1, <2>4, <3>2 DEF Rests
            <4>2. CASE p.uid \in spent
                <5>1. p.uid # 0 /\ p.uid # lastUid + 1
                    BY <1>1, <2>1, <4>2 DEF SpentIsOver
                <5>2. Exists(i) /\ p.uid = pod[i].uid
                    BY <5>1, NoPodIs DEF Succeeds
                <5> QED
                    BY <1>1, <3>2, <4>2, <5>2 DEF SpentIsOver, Rests
            <4> QED
                BY <1>1, <3>2, <4>1, <4>2
        <3> QED
            BY <3>1, <3>2
    <2> QED
        BY <2>3, <2>4 DEF SpentIsOver
<1> QED
    BY <1>1, <1>3, <1>4, <1>5 DEF ApprovalInv

\* Every step keeps the way of the approvals.
LEMMA ApprovalStep ==
    ASSUME "PodsCurrent" \in Assumed, "OneLossEach" \in Assumed
    PROVE ApprovalInv /\ [Next]_vars => ApprovalInv'
<1> SUFFICES ASSUME ApprovalInv, [Next]_vars
             PROVE ApprovalInv'
    OBVIOUS
<1>0. TypeInv /\ TypeInv'
    BY TypeStep DEF ApprovalInv
<1>same. ASSUME UNCHANGED <<pod, lastUid, ghost, anno>>,
             cPod' \in {cPod, Listed}, (seen' = seen /\ (Looked' => Looked)) \/ seen' = cPod,
             cAnno' \in {cAnno, anno}, me' \in {me, cAnno}
      PROVE ApprovalInv'
    <2>1. listed' = listed /\ spent' = spent /\ 0 \notin listed /\ anno \subseteq listed
        BY <1>same DEF ghost, ApprovalInv, Approvals
    <2> QED
        BY <1>0, <1>same, <2>1, ApprovalsStay
<1>1. CASE BeginReconcile \/ ApplyStatefulSet \/ ListPods
    BY <1>1, <1>same DEF BeginReconcile, ApplyStatefulSet, ListPods, Looked, cluster, status, cache
<1>2. CASE ApprovedAll \/ Observe \/ ApiError
    BY <1>2, <1>same DEF ApprovedAll, Observe, ApiError, ReconcileError, Looked, cluster,
       status, cache
<1>3. CASE SyncPods \/ SyncCluster \/ Crash
    BY <1>3, <1>same DEF SyncPods, SyncCluster, Crash, Listed, Looked, cluster, status, rec
<1>4. CASE ApprovePod
    <2>1. UNCHANGED <<listed, spent, anno, cAnno, me, cPod, lastUid>> /\ pc = "approve"
        BY <1>4 DEF ApprovePod, ghost
    <2>2. CASE pod' = pod /\ seen' = seen
        BY <1>same, <2>1, <2>2 DEF ghost, Looked
    <2>3. CASE ~(pod' = pod /\ seen' = seen)
        <3>1. /\ k \in Ordinals /\ Exists(k) /\ seen[k].uid \in me /\ pc' = pc
              /\ \E p \in Pods :
                   /\ pod' = [pod EXCEPT ![k] = p]
                   /\ Succeeds(k, p) /\ p.uid = pod[k].uid /\ p.approved
                   /\ p.info = pod[k].info /\ p.step = pod[k].step
                   /\ seen' = [seen EXCEPT ![k] = View(p)]
            BY <1>0, <1>4, <2>3, Approves
        <3>2. PICK p \in Pods :
                 /\ pod' = [pod EXCEPT ![k] = p]
                 /\ Succeeds(k, p) /\ p.uid = pod[k].uid /\ p.approved
                 /\ p.info = pod[k].info /\ p.step = pod[k].step
                 /\ seen' = [seen EXCEPT ![k] = View(p)]
            BY <3>1
        <3>3. seen[k].uid \in listed /\ seen[k].uid # 0
            BY <3>1 DEF ApprovalInv, Approvals
        <3>4. seen[k].uid = pod[k].uid
            BY <2>1, <3>1, <3>3 DEF ApprovalInv, Current, Looked
        <3>5. Rests(k, p)
            BY <2>1, <3>2 DEF Rests
        <3> QED
            BY <1>0, <2>1, <3>1, <3>2, <3>3, <3>4, <3>5, ApprovalsMove
    <2> QED
        BY <2>2, <2>3
<1>5. CASE StatefulSetStatus
    BY <1>5, <1>same DEF StatefulSetStatus, Looked, rec
<1>6. CASE UserApproves
    <2>1. /\ anno' = awaiting /\ listed' = listed \union awaiting
          /\ UNCHANGED <<pod, lastUid, spent, cPod, cAnno, seen, me, pc>>
        BY <1>6 DEF UserApproves, UnchangedOperator, cache, rec
    <2>2. 0 \notin awaiting /\ 0 \notin listed
        BY <1>0 DEF TypeInv, TypeOK, ApprovalInv, Approvals
    <2> QED
        BY <1>0, <2>1, <2>2, ApprovalsStay DEF Looked
<1>7. ASSUME NEW i \in Ordinals, RestoreVolume(i)
      PROVE ApprovalInv'
    BY <1>7, <1>same DEF RestoreVolume, UnchangedOperator, Looked, cache, rec
<1>8. ASSUME NEW i \in Ordinals, PodAction(i)
      PROVE ApprovalInv'
    <2>1. PICK p \in Pods :
            Succeeds(i, p) /\ Bears(i, p) /\ pod' = [pod EXCEPT ![i] = p] /\ Rests(i, p)
        BY <1>0, <1>8, PodActions
    <2>2. UNCHANGED <<listed, anno, cAnno, me, cPod, pc, seen>>
        BY <1>0, <1>8, PodActions DEF UnchangedOperator, cache, rec
    <2>3. (p.approved => p.uid \in listed) /\ (p.info => p.approved)
        BY <2>1 DEF Bears, ApprovalInv, Approvals
    <2>4. p.uid \in {0, pod[i].uid} \/ (cPod[i].uid = 0 /\ (Looked => seen[i].uid = 0))
        BY <2>1 DEF Bears
    <2> QED
        BY <1>0, <2>1, <2>2, <2>3, <2>4, ApprovalsMove
<1>9. CASE UNCHANGED vars
    BY <1>9, <1>same DEF vars, cluster, status, cache, rec, Looked
<1> QED
    BY <1>1, <1>2, <1>3, <1>4, <1>5, <1>6, <1>7, <1>8, <1>9
       DEF Next, Operator, Reconcile, PodAction

\* As long as names are not used again too soon, and pods are replaced once they
\* have recovered, an approval only travels to the pod that it names.
THEOREM ApprovalsTravel ==
    ASSUME "PodsCurrent" \in Assumed, "OneLossEach" \in Assumed
    PROVE Spec => []ApprovalInv
<1>1. Init => ApprovalInv
    BY ApprovalInit
<1>2. ApprovalInv /\ [Next]_vars => ApprovalInv'
    BY ApprovalStep
<1> QED
    BY <1>1, <1>2, PTL DEF Spec

\* With recoveryPolicy Manual a pod begins to recover only if a user has listed
\* its UID, and not with the approval of an earlier loss (waitForApproval,
\* approveRecoveries).
THEOREM RecoversOnlyApproved ==
    ASSUME "PodsCurrent" \in Assumed, "OneLossEach" \in Assumed
    PROVE Spec => ApprovedOnly
<1>1. ASSUME ApprovalInv, NEW i \in Ordinals, policy = "Manual", BeginRecover(i)
      PROVE pod[i].uid \in listed \ spent
    <2>1. pod[i].info /\ pod[i].step = "recover"
        BY <1>1 DEF BeginRecover, Waits, MayRecover
    <2>2. pod[i].uid \in listed
        BY <1>1, <2>1 DEF ApprovalInv, Approvals
    <2>3. pod[i].uid \notin spent
        BY <1>1, <2>1 DEF ApprovalInv, SpentIsOver
    <2> QED
        BY <2>2, <2>3
<1>2. ApprovalInv /\ [Next]_vars
        => [\A i \in Ordinals : policy = "Manual" /\ BeginRecover(i)
                => pod[i].uid \in listed \ spent]_vars
    BY <1>1
<1> QED
    BY <1>2, ApprovalsTravel, PTL DEF Spec, ApprovedOnly
=============================================================================
