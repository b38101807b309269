----------------------------- MODULE StatusProofs -----------------------------
(***************************************************************************)
(* Proofs about the status, for every set of images, any number of edits   *)
(* and of faults.                                                          *)
(*                                                                         *)
(* The status is patched field by field, from a copy that may be older     *)
(* than what is stored, so a status may be a mixture of what different     *)
(* reconciles have found.  What makes it sound all the same is that the    *)
(* copies only get newer: a reconcile of some generation follows only on   *)
(* reconciles of it and of older ones (CopiesOld), so that conditions are  *)
(* never older than the observed generation beside them (Fresh).           *)
(***************************************************************************)
EXTENDS Status, TLAPS

\* A status tells of no generation that its copy of the spec does not know, and
\* has a phase as soon as it has conditions.
Told(c) ==
    LET status == c.status IN
    /\ status.observed <= c.gen
    /\ status.conds.ready.gen <= c.gen /\ status.conds.reconciling.gen <= c.gen
    /\ (status.phase = None) = (status.conds.ready = Absent)

\* Copy c is not newer than copy d.
NotNewer(c, d) ==
    /\ c.gen <= d.gen
    /\ c.status.conds.reconciling.gen <= d.status.conds.reconciling.gen
    /\ c.status.phase # None => d.status.phase # None

\* Nothing has been stored of a generation that the copy does not know.
Latest(c) ==
    cluster.status.observed <= c.gen /\ cluster.status.conds.reconciling.gen <= c.gen

\* A reconcile begins with the cached copy, and the cache is behind; but since
\* the cache only gets newer, neither is behind in what the operator has stored.
CopiesOld ==
    /\ Told(cluster) /\ Told(cached) /\ Told(orig)
    /\ NotNewer(orig, cached) /\ NotNewer(cached, cluster)
    /\ Latest(cached) /\ (pc # "idle" => Latest(orig))

\* Until it ends, a reconcile has not touched what setStatus rewrites, and it
\* ends with one outcome.
Untouched ==
    /\ pc # "idle" =>
         /\ now.conds = orig.status.conds /\ now.phase = orig.status.phase
         /\ now.observed = orig.status.observed
    /\ pc = "patch" => found \in Findings /\ (Error \/ Ready => ~Stalled)

TypeInv == TypeOK /\ CopiesOld /\ Untouched

-----------------------------------------------------------------------------
(* What setStatus makes of an outcome *)

CondSets == [ready : Conditions, reconciling : Conditions, stalled : Conditions]
LooksReady(conds) == conds.ready.value /\ ~conds.reconciling.value /\ ~conds.stalled.value

\* A condition with a reason is there.
LEMMA ConditionIs ==
    ASSUME NEW value \in BOOLEAN, NEW reason \in Reasons, NEW gen \in Generations
    PROVE LET c == Condition(value, reason, gen)
          IN  c \in Conditions /\ c # Absent /\ c.value = value /\ c.gen = gen
<1>1. None \notin Reasons
    BY DEF None, Reasons
<1> QED
    BY <1>1 DEF Condition, Conditions, Absent

\* The conditions of an outcome are of the generation that was read.
LEMMA TheConditionsAre ==
    ASSUME NEW ready \in BOOLEAN, NEW reconciling \in BOOLEAN, NEW stalled \in BOOLEAN,
           found \in Findings, orig.gen \in Generations
    PROVE LET conds == TheConditions(ready, reconciling, stalled)
          IN  /\ conds \in CondSets
              /\ conds.ready # Absent /\ conds.ready.value = ready /\ conds.ready.gen = orig.gen
              /\ conds.reconciling.value = reconciling /\ conds.reconciling.gen = orig.gen
              /\ conds.stalled.value = stalled
<1>1. found.ready \in Reasons /\ found.reconciling \in Reasons /\ "NotStalled" \in Reasons
    BY DEF Findings, Reasons
<1>2. (IF stalled THEN found.ready ELSE "NotStalled") \in Reasons
    BY <1>1
<1> QED
    BY <1>1, <1>2, ConditionIs DEF TheConditions, CondSets

\* The conditions that a reconcile ends with.  Only one that has found all
\* replicas ready makes them look so.
LEMMA NewConditionsAre ==
    ASSUME TypeInv, pc = "patch"
    PROVE /\ NewConditions \in CondSets
          /\ NewConditions.ready # Absent /\ NewConditions.ready.gen <= orig.gen
          /\ NewConditions.reconciling.gen = orig.gen
          /\ IF NewConditions.stalled.value
             THEN ~NewConditions.reconciling.value /\ ~NewConditions.ready.value
             ELSE NewConditions.reconciling.value \/ NewConditions.ready.value
          /\ LooksReady(NewConditions) => Ready /\ NewConditions.ready.gen = orig.gen
          /\ Error /\ orig.status.conds.ready # Absent =>
               NewConditions.ready = orig.status.conds.ready
          /\ ~Error => (NewConditions.ready.value <=> Ready)
<1>1. /\ found \in Findings /\ (Error \/ Ready => ~Stalled) /\ (Error => ~Ready)
      /\ orig \in Clusters /\ orig.gen \in Generations /\ orig.gen \in Int
      /\ now.conds = orig.status.conds /\ now.conds \in CondSets
      /\ now.conds.ready.gen <= orig.gen
    BY BoundsAssumption DEF TypeInv, TypeOK, Untouched, CopiesOld, Told, Clusters, Statuses, CondSets,
        Generations, Error, Ready
<1>2. CASE Error
    <2>1. WhileReconciling \in CondSets /\ WhileReconciling.ready # Absent
        BY <1>1, TheConditionsAre DEF WhileReconciling
    <2>2. /\ WhileReconciling.ready.gen = orig.gen /\ ~WhileReconciling.ready.value
          /\ WhileReconciling.reconciling.value /\ WhileReconciling.reconciling.gen = orig.gen
          /\ ~WhileReconciling.stalled.value
        BY <1>1, TheConditionsAre DEF WhileReconciling
    <2>3. CASE now.conds.ready = Absent
        <3>1. NewConditions = WhileReconciling
            BY <1>1, <1>2, <2>3 DEF NewConditions, AfterError
        <3> QED
            BY <1>1, <1>2, <2>1, <2>2, <2>3, <3>1 DEF LooksReady
    <2>4. CASE now.conds.ready # Absent
        <3>1. NewConditions = [WhileReconciling EXCEPT !.ready = now.conds.ready]
            BY <1>1, <1>2, <2>4 DEF NewConditions, AfterError
        <3>2. /\ NewConditions \in CondSets /\ NewConditions.ready = now.conds.ready
              /\ NewConditions.reconciling = WhileReconciling.reconciling
              /\ NewConditions.stalled = WhileReconciling.stalled
            BY <1>1, <2>1, <3>1 DEF CondSets
        <3> QED
            BY <1>1, <1>2, <2>2, <2>4, <3>2 DEF LooksReady
    <2> QED
        BY <2>3, <2>4
<1>3. CASE ~Error
    <2>1. CASE Stalled
        <3>1. NewConditions = TheConditions(FALSE, FALSE, TRUE) /\ ~Ready
            BY <1>1, <1>3, <2>1 DEF NewConditions
        <3>2. /\ NewConditions \in CondSets /\ NewConditions.ready # Absent
              /\ ~NewConditions.ready.value /\ NewConditions.ready.gen = orig.gen
              /\ ~NewConditions.reconciling.value /\ NewConditions.reconciling.gen = orig.gen
              /\ NewConditions.stalled.value
            BY <1>1, <3>1, TheConditionsAre
        <3>3. NewConditions.ready.gen <= orig.gen
            BY <1>1, <3>2
        <3> QED
            BY <1>1, <1>3, <3>1, <3>2, <3>3 DEF LooksReady, Error, Ready, Stalled
    <2>2. CASE Ready
        <3>1. NewConditions = TheConditions(TRUE, FALSE, FALSE)
            BY <1>1, <1>3, <2>2 DEF NewConditions
        <3>2. /\ NewConditions \in CondSets /\ NewConditions.ready # Absent
              /\ NewConditions.ready.value /\ NewConditions.ready.gen = orig.gen
              /\ ~NewConditions.reconciling.value /\ NewConditions.reconciling.gen = orig.gen
              /\ ~NewConditions.stalled.value
            BY <1>1, <3>1, TheConditionsAre
        <3>3. NewConditions.ready.gen <= orig.gen
            BY <1>1, <3>2
        <3> QED
            BY <1>1, <1>3, <2>2, <3>1, <3>2, <3>3 DEF LooksReady, Error, Ready, Stalled
    <2>3. CASE ~Stalled /\ ~Ready
        <3>1. NewConditions = TheConditions(FALSE, TRUE, FALSE)
            BY <1>1, <1>3, <2>3 DEF NewConditions, WhileReconciling
        <3>2. /\ NewConditions \in CondSets /\ NewConditions.ready # Absent
              /\ ~NewConditions.ready.value /\ NewConditions.ready.gen = orig.gen
              /\ NewConditions.reconciling.value /\ NewConditions.reconciling.gen = orig.gen
              /\ ~NewConditions.stalled.value
            BY <1>1, <3>1, TheConditionsAre
        <3>3. NewConditions.ready.gen <= orig.gen
            BY <1>1, <3>2
        <3> QED
            BY <1>1, <1>3, <2>3, <3>1, <3>2, <3>3 DEF LooksReady, Error, Ready, Stalled
    <2> QED
        BY <2>1, <2>2, <2>3
<1> QED
    BY <1>2, <1>3

\* The phase that a reconcile ends with.
LEMMA NewPhaseIs ==
    ASSUME TypeInv, pc = "patch"
    PROVE /\ NewPhase \in Phases /\ NewPhase # None
          /\ Error /\ orig.status.phase # None => NewPhase = orig.status.phase
          /\ ~Error => /\ NewPhase = "Ready" <=> Ready
                       /\ NewPhase = "Degraded" <=> Stalled
<1>1. /\ now.phase = orig.status.phase /\ now.phase \in Phases
      /\ Error \/ Ready => ~Stalled
    BY DEF TypeInv, TypeOK, Untouched, Statuses
<1> QED
    BY <1>1 DEF NewPhase, PhaseAfterError, Phases, None, Error, Ready, Stalled

\* The status that a reconcile ends with, as a whole.
LEMMA NewStatusIs ==
    ASSUME TypeInv, pc = "patch"
    PROVE /\ NewStatus \in Statuses
          /\ NewStatus.conds = NewConditions /\ NewStatus.phase = NewPhase
          /\ NewStatus.observed = IF Error THEN orig.status.observed ELSE orig.gen
<1>1. /\ now \in Statuses /\ now.observed = orig.status.observed /\ orig.gen \in Generations
    BY DEF TypeInv, TypeOK, Untouched, Clusters
<1>2. NewConditions \in CondSets /\ NewPhase \in Phases
    BY NewConditionsAre, NewPhaseIs
<1> DEFINE observed == IF Error THEN now.observed ELSE orig.gen
<1>3. NewStatus = [now EXCEPT !.conds = NewConditions, !.phase = NewPhase, !.observed = observed]
    BY DEF NewStatus
<1>4. observed \in Generations
    BY <1>1 DEF Statuses
<1> HIDE DEF observed
<1>5. /\ NewStatus \in Statuses /\ NewStatus.conds = NewConditions
      /\ NewStatus.phase = NewPhase /\ NewStatus.observed = observed
    BY <1>1, <1>2, <1>3, <1>4 DEF Statuses, CondSets
<1> QED
    BY <1>1, <1>5 DEF observed

\* The patch writes the fields that differ from the copy that was read.
LEMMA PatchIs ==
    ASSUME TypeInv, PatchStatus
    PROVE /\ cluster' \in Clusters /\ cluster'.gen = cluster.gen
          /\ \A field \in DOMAIN NoStatus :
               cluster'.status[field] = IF NewStatus[field] = orig.status[field]
                                        THEN cluster.status[field] ELSE NewStatus[field]
          /\ cluster'.status = [field \in DOMAIN NoStatus |-> cluster'.status[field]]
<1> DEFINE patched == [field \in DOMAIN NoStatus |->
             IF NewStatus[field] = orig.status[field] THEN cluster.status[field] ELSE NewStatus[field]]
<1>1. cluster \in Clusters /\ NewStatus \in Statuses /\ pc = "patch"
    BY NewStatusIs DEF PatchStatus, TypeInv, TypeOK
<1>2. cluster' = [cluster EXCEPT !.status = patched]
    BY DEF PatchStatus
<1>3. DOMAIN NoStatus = {"conds", "phase", "observed", "bootstrapped", "image"}
    BY DEF NoStatus
<1>4. patched \in Statuses
    <2>1. /\ patched = [conds |-> patched.conds, phase |-> patched.phase, observed |-> patched.observed,
                        bootstrapped |-> patched.bootstrapped, image |-> patched.image]
        BY <1>3
    <2>2. /\ patched.conds \in {cluster.status.conds, NewStatus.conds}
          /\ patched.phase \in {cluster.status.phase, NewStatus.phase}
          /\ patched.observed \in {cluster.status.observed, NewStatus.observed}
          /\ patched.bootstrapped \in {cluster.status.bootstrapped, NewStatus.bootstrapped}
          /\ patched.image \in {cluster.status.image, NewStatus.image}
        BY <1>3
    <2>3. cluster.status \in Statuses
        BY <1>1 DEF Clusters
    <2> HIDE DEF patched
    <2> QED
        BY <1>1, <2>1, <2>2, <2>3 DEF Statuses
<1> HIDE DEF patched
<1>5. cluster' \in Clusters /\ cluster'.gen = cluster.gen /\ cluster'.status = patched
    BY <1>1, <1>2, <1>4 DEF Clusters
<1> QED
    BY <1>5 DEF patched

\* So conditions, phase and observed generation are what the reconcile ends
\* with, or what they were if it ends as it began.
LEMMA PatchedFields ==
    ASSUME TypeInv, PatchStatus
    PROVE LET old == cluster.status
              new == cluster'.status
          IN  /\ new.conds = IF NewConditions = orig.status.conds THEN old.conds ELSE NewConditions
              /\ new.phase = IF NewPhase = orig.status.phase THEN old.phase ELSE NewPhase
              /\ new.observed = IF Error \/ orig.gen = orig.status.observed
                                THEN old.observed ELSE orig.gen
<1>1. {"conds", "phase", "observed"} \subseteq DOMAIN NoStatus
    BY DEF NoStatus
<1>2. pc = "patch"
    BY DEF PatchStatus
<1> QED
    BY <1>1, <1>2, PatchIs, NewStatusIs

-----------------------------------------------------------------------------
(* Types, and the age of copies *)

\* What the operator has between two reconciles is older than everything.
LEMMA NoClusterIs ==
    /\ NoStatus \in Statuses /\ NoCluster \in Clusters
    /\ Told(NoCluster) /\ \A c \in Clusters : NotNewer(NoCluster, c)
<1>1. 1 \in Generations /\ 0 \in Generations /\ Generations \subseteq Nat
    BY BoundsAssumption DEF Generations
<1>2. (CHOOSE i \in Images : TRUE) \in Images
    <2>1. \E i \in Images : TRUE
        BY ImagesAssumption
    <2> QED
        BY <2>1
<1>3. Absent \in Conditions
    BY <1>1 DEF Absent, Condition, Conditions
<1>4. NoStatus \in Statuses
    BY <1>1, <1>3 DEF NoStatus, Statuses, Phases
<1>5. NoCluster \in Clusters
    BY <1>1, <1>2, <1>4 DEF NoCluster, Clusters
<1>6. NoCluster.gen = 1 /\ NoCluster.status = NoStatus
    BY DEF NoCluster
<1>7. /\ NoStatus.conds.ready = Absent /\ NoStatus.conds.reconciling = Absent
      /\ NoStatus.phase = None /\ NoStatus.observed = 0 /\ Absent.gen = 0
    BY DEF NoStatus, Absent, Condition
<1>8. Told(NoCluster)
    BY <1>6, <1>7 DEF Told
<1>9. ASSUME NEW c \in Clusters PROVE NotNewer(NoCluster, c)
    <2>1. c.gen \in Nat \ {0} /\ c.status.conds.reconciling.gen \in Nat
        BY BoundsAssumption DEF Clusters, Statuses, Conditions, Generations
    <2> QED
        BY <1>6, <1>7, <2>1 DEF NotNewer
<1> QED
    BY <1>4, <1>5, <1>8, <1>9

\* The numbers in a copy.
LEMMA CopyTypes ==
    ASSUME NEW c \in Clusters
    PROVE /\ c.gen \in Nat \ {0} /\ c.status \in Statuses
          /\ c.status.observed \in Nat /\ c.status.phase \in Phases
          /\ c.status.conds \in CondSets
          /\ c.status.conds.ready.gen \in Nat /\ c.status.conds.reconciling.gen \in Nat
BY BoundsAssumption DEF Clusters, Statuses, Conditions, CondSets, Generations

\* Age is an order.
LEMMA OlderStill ==
    ASSUME NEW c \in Clusters, NEW d \in Clusters, NEW e \in Clusters,
           NotNewer(c, d), NotNewer(d, e)
    PROVE NotNewer(c, e) /\ NotNewer(c, c)
BY CopyTypes DEF NotNewer

\* What a patch stores is newer than what it replaces, and tells of nothing
\* that the reconcile did not know.
LEMMA PatchIsNewer ==
    ASSUME TypeInv, PatchStatus
    PROVE NotNewer(cluster, cluster') /\ Told(cluster')
<1>1. pc = "patch" /\ cluster \in Clusters /\ cached \in Clusters /\ orig \in Clusters
    BY DEF PatchStatus, TypeInv, TypeOK
<1>2. /\ Told(cluster) /\ Told(cached) /\ Told(orig)
      /\ NotNewer(orig, cached) /\ NotNewer(cached, cluster) /\ Latest(orig)
    BY <1>1 DEF TypeInv, CopiesOld
<1>3. NotNewer(orig, cluster)
    BY <1>1, <1>2, OlderStill
<1>4. cluster'.gen = cluster.gen /\ cluster' \in Clusters
    BY PatchIs
<1>5. /\ cluster'.status.conds \in {cluster.status.conds, NewConditions}
      /\ cluster'.status.phase \in {cluster.status.phase, NewPhase}
      /\ cluster'.status.observed \in {cluster.status.observed, orig.gen}
    BY PatchedFields
<1>6. /\ NewConditions.ready # Absent /\ NewConditions.ready.gen <= orig.gen
      /\ NewConditions.reconciling.gen = orig.gen /\ NewConditions.ready.gen \in Nat
      /\ NewPhase # None
    BY <1>1, NewConditionsAre, NewPhaseIs, BoundsAssumption DEF CondSets, Conditions, Generations
<1>7. cluster'.status.phase # None
    BY <1>3, <1>6, PatchedFields DEF NotNewer
<1>8. cluster'.status.conds.ready # Absent
    <2>1. CASE NewConditions = orig.status.conds
        <3>1. orig.status.phase # None
            BY <1>2, <1>6, <2>1 DEF Told
        <3>2. cluster.status.conds.ready # Absent
            BY <1>2, <1>3, <3>1 DEF Told, NotNewer
        <3> QED
            BY <2>1, <3>2, PatchedFields
    <2>2. CASE NewConditions # orig.status.conds
        BY <1>6, <2>2, PatchedFields
    <2> QED
        BY <2>1, <2>2
<1>9. /\ cluster.gen \in Nat /\ orig.gen \in Nat
      /\ cluster.status.observed <= cluster.gen /\ orig.gen <= cluster.gen
      /\ cluster.status.conds.ready.gen <= cluster.gen
      /\ cluster.status.conds.reconciling.gen <= orig.gen
    BY <1>1, <1>2, <1>3, CopyTypes DEF Told, NotNewer, Latest
<1>10. Told(cluster')
    BY <1>1, <1>4, <1>5, <1>6, <1>7, <1>8, <1>9, CopyTypes DEF Told
<1>11. NotNewer(cluster, cluster')
    BY <1>1, <1>4, <1>5, <1>6, <1>7, <1>9, CopyTypes DEF NotNewer
<1> QED
    BY <1>10, <1>11

\* Nothing is older than the copies are, whoever takes a step.
LEMMA CopiesNext == TypeInv /\ [Next]_vars => CopiesOld'
<1> SUFFICES ASSUME TypeInv, [Next]_vars PROVE CopiesOld'
    OBVIOUS
<1>1. /\ Told(cluster) /\ Told(cached) /\ Told(orig)
      /\ NotNewer(orig, cached) /\ NotNewer(cached, cluster)
      /\ Latest(cached) /\ (pc # "idle" => Latest(orig))
      /\ cluster \in Clusters /\ cached \in Clusters /\ orig \in Clusters
    BY DEF TypeInv, TypeOK, CopiesOld
<1>2. Latest(cluster)
    BY <1>1, CopyTypes DEF Latest, NotNewer
<1>3. CASE BeginReconcile
    <2>1. orig' = cached /\ pc' = "apply" /\ UNCHANGED <<cluster, cached>>
        BY <1>3 DEF BeginReconcile
    <2> QED
        BY <1>1, <2>1, CopyTypes DEF CopiesOld, Latest, Told, NotNewer
<1>4. CASE PatchStatus
    <2>1. NotNewer(cluster, cluster') /\ Told(cluster') /\ cluster' \in Clusters
        BY <1>4, PatchIsNewer, PatchIs
    <2>2. pc' = "idle" /\ orig' = NoCluster /\ cached' = cached
        BY <1>4 DEF PatchStatus, EndReconcile
    <2>3. NotNewer(cached, cluster')
        BY <1>1, <2>1, OlderStill
    <2>4. cluster'.status.observed <= cached.gen /\ cluster'.status.conds.reconciling.gen <= cached.gen
        <3>1. pc = "patch" /\ orig.gen <= cached.gen
            BY <1>1, <1>4 DEF PatchStatus, NotNewer
        <3>2. /\ cluster'.status.conds \in {cluster.status.conds, NewConditions}
              /\ cluster'.status.observed \in {cluster.status.observed, orig.gen}
              /\ NewConditions.reconciling.gen = orig.gen
            BY <1>4, <3>1, PatchedFields, NewConditionsAre
        <3> QED
            BY <1>1, <3>1, <3>2 DEF Latest
    <2> QED
        BY <1>1, <2>1, <2>2, <2>3, <2>4, NoClusterIs DEF CopiesOld, Latest
<1>5. CASE StatusPatchFails \/ Crash
    <2>1. pc' = "idle" /\ orig' = NoCluster /\ cluster' = cluster /\ cached' \in {cached, cluster}
        BY <1>5 DEF StatusPatchFails, Crash, EndReconcile
    <2> QED
        BY <1>1, <1>2, <2>1, NoClusterIs, CopyTypes DEF CopiesOld, Latest, Told, NotNewer
<1>6. CASE Sync
    <2>1. cached' = cluster /\ UNCHANGED <<cluster, orig, pc>>
        BY <1>6 DEF Sync, rec
    <2> QED
        BY <1>1, <1>2, <2>1, CopyTypes DEF CopiesOld, Latest, Told, NotNewer
<1>7. CASE RefuseSpec \/ StillFormatting \/ ApplyStatefulSet \/ Observe \/ ApiError
    <2>1. pc # "idle" /\ UNCHANGED <<cluster, cached, orig>>
        BY <1>7 DEF RefuseSpec, StillFormatting, ApplyStatefulSet, Observe, ApiError
    <2> QED
        BY <1>1, <2>1 DEF CopiesOld, Latest
<1>8. ASSUME NEW i \in Images, EditSpec(i) PROVE CopiesOld'
    <2>1. /\ cluster'.gen = cluster.gen + 1 /\ cluster'.status = cluster.status
          /\ UNCHANGED <<cached, orig, pc>>
        BY <1>1, <1>8 DEF EditSpec, OutsideOperator, rec, Clusters
    <2> QED
        BY <1>1, <2>1, CopyTypes DEF CopiesOld, Told, NotNewer, Latest
<1>9. CASE FormatDone \/ RolloutStarts \/ RolloutDone
           \/ PodsBecomeReady \/ PodStopsBeingReady \/ PodsGetWorse \/ UNCHANGED vars
    <2>1. UNCHANGED <<cluster, cached, orig, pc>>
        BY <1>9 DEF FormatDone, RolloutStarts, RolloutDone, PodsBecomeReady,
            PodStopsBeingReady, PodsGetWorse, OutsideOperator, rec, vars
    <2> QED
        BY <1>1, <2>1 DEF CopiesOld, Latest
<1> QED
    BY <1>3, <1>4, <1>5, <1>6, <1>7, <1>8, <1>9 DEF Next, Operator, Reconcile

\* A reconcile rewrites the status only as it ends, with one outcome.
LEMMA UntouchedNext == TypeInv /\ [Next]_vars => Untouched'
<1> SUFFICES ASSUME TypeInv, [Next]_vars PROVE Untouched'
    OBVIOUS
<1>1. CASE BeginReconcile
    BY <1>1 DEF BeginReconcile, Untouched
<1>2. CASE RefuseSpec \/ StillFormatting \/ ApiError
    <2>1. /\ pc # "idle" /\ UNCHANGED <<orig, now>> /\ found' \in Findings
          /\ Error' \/ Ready' => ~Stalled'
        BY <1>2 DEF RefuseSpec, StillFormatting, ApiError, Found, Findings, Reasons, Error, Ready,
            Stalled
    <2> QED
        BY <2>1 DEF Untouched, TypeInv
<1>3. CASE ApplyStatefulSet
    <2>1. /\ pc' = "observe" /\ orig' = orig /\ pc # "idle"
          /\ now'.conds = now.conds /\ now'.phase = now.phase /\ now'.observed = now.observed
        BY <1>3 DEF ApplyStatefulSet, TypeInv, TypeOK, Statuses
    <2> QED
        BY <2>1 DEF Untouched, TypeInv
<1>4. CASE Observe
    <2>1. /\ orig' = orig /\ pc # "idle"
          /\ now'.conds = now.conds /\ now'.phase = now.phase /\ now'.observed = now.observed
        BY <1>4 DEF Observe, TypeInv, TypeOK, Statuses
    <2>2. found' \in Findings /\ (Error' \/ Ready' => ~Stalled')
        BY <1>4 DEF Observe, NotReady, ReadyReason, Found, Findings, Reasons, Error, Ready, Stalled
    <2> QED
        BY <2>1, <2>2 DEF Untouched, TypeInv
<1>5. CASE PatchStatus \/ StatusPatchFails \/ Crash
    BY <1>5 DEF PatchStatus, StatusPatchFails, Crash, EndReconcile, Untouched
<1>6. CASE UNCHANGED rec
    BY <1>6 DEF rec, Untouched, TypeInv, Error, Ready, Stalled
<1>7. (\/ Sync \/ FormatDone \/ RolloutStarts \/ RolloutDone \/ PodsBecomeReady
       \/ PodStopsBeingReady \/ PodsGetWorse \/ UNCHANGED vars \/ \E i \in Images : EditSpec(i))
          => UNCHANGED rec
    BY DEF Sync, FormatDone, RolloutStarts, RolloutDone, PodsBecomeReady, PodStopsBeingReady,
        PodsGetWorse, EditSpec, OutsideOperator, vars
<1> QED
    BY <1>1, <1>2, <1>3, <1>4, <1>5, <1>6, <1>7 DEF Next, Operator, Reconcile

\* At first there is no status.
LEMMA TypeInit == Init => TypeInv
<1> SUFFICES ASSUME Init PROVE TypeInv
    OBVIOUS
<1>1. PICK i \in Images : cluster = [gen |-> 1, spec |-> i, status |-> NoStatus]
    BY DEF Init
<1>2. cluster \in Clusters
    BY <1>1, NoClusterIs, BoundsAssumption DEF Clusters, Generations
<1>3. Told(cluster) /\ NotNewer(cluster, cluster)
    BY <1>1, NoClusterIs DEF Told, NotNewer, NoCluster, NoStatus, Absent, Condition
<1>4. cached = cluster /\ orig = NoCluster /\ now = NoStatus /\ found = Nothing /\ pc = "idle"
    BY DEF Init
<1>5. CopiesOld
    <2>1. Latest(cached)
        BY <1>1, <1>4 DEF Latest, NoStatus, Absent, Condition
    <2> QED
        BY <1>2, <1>3, <1>4, <2>1, NoClusterIs DEF CopiesOld
<1>6. Untouched
    BY <1>4 DEF Untouched
<1>7. /\ jobs \in {"none", "running", "complete"} /\ applied \in Images \union {None}
      /\ rollout \in {"pending", "running", "done"}
      /\ pods \in {"ready", "starting", "recovering", "failing", "stuck"}
      /\ pc \in {"idle", "apply", "observe", "patch"}
      /\ complete \subseteq Generations /\ verdict \in {None, "Ready", "Unready", "Degraded"}
    BY DEF Init
<1>8. faults \in 0 .. MaxFaults
    BY BoundsAssumption DEF Init
<1>9. queue \in BOOLEAN /\ mixed \in BOOLEAN
    BY Zenon DEF Init
<1> QED
    BY <1>2, <1>3, <1>4, <1>5, <1>6, <1>7, <1>8, <1>9, NoClusterIs DEF TypeInv, TypeOK, Told

\* No step leaves the types.
LEMMA TypeNext == TypeInv /\ [Next]_vars => TypeInv'
<1> SUFFICES ASSUME TypeInv, [Next]_vars PROVE TypeInv'
    OBVIOUS
<1>1. CopiesOld' /\ Untouched'
    BY CopiesNext, UntouchedNext
<1>2. Next \/ UNCHANGED vars
    OBVIOUS
<1>3. cluster \in Clusters /\ cached \in Clusters /\ orig \in Clusters /\ now \in Statuses
    BY DEF TypeInv, TypeOK
<1>4. cluster' \in Clusters
    <2>1. ASSUME NEW i \in Images, EditSpec(i) PROVE cluster' \in Clusters
        <3>1. cluster.gen + 1 \in Generations \ {0}
            BY <1>3, <2>1, BoundsAssumption DEF EditSpec, Clusters, Generations
        <3>2. cluster' = [cluster EXCEPT !.spec = i, !.gen = cluster.gen + 1]
            BY <1>3, <2>1 DEF EditSpec, Clusters
        <3> QED
            BY <1>3, <3>1, <3>2 DEF Clusters
    <2>2. CASE PatchStatus
        BY <2>2, PatchIs
    <2>3. CASE ~PatchStatus /\ ~\E i \in Images : EditSpec(i)
        <3>1. cluster' = cluster
            BY <1>2, <2>3 DEF Next, Operator, Reconcile, BeginReconcile, RefuseSpec,
                StillFormatting, ApplyStatefulSet, Observe, ApiError, StatusPatchFails, Crash,
                Sync, FormatDone, RolloutStarts, RolloutDone, PodsBecomeReady,
                PodStopsBeingReady, PodsGetWorse, vars
        <3> QED
            BY <1>3, <3>1
    <2> QED
        BY <2>1, <2>2, <2>3
<1>5. cached' \in Clusters /\ orig' \in Clusters
    BY <1>2, <1>3, NoClusterIs
    DEF Next, Operator, Reconcile, BeginReconcile, RefuseSpec, StillFormatting,
        ApplyStatefulSet, Observe, PatchStatus, ApiError, StatusPatchFails, Crash, EndReconcile,
        Sync, FormatDone, RolloutStarts, RolloutDone, PodsBecomeReady, PodStopsBeingReady,
        PodsGetWorse, EditSpec, OutsideOperator, rec, vars
<1>6. now' \in Statuses
    <2>1. CASE ApplyStatefulSet
        BY <1>3, <2>1 DEF ApplyStatefulSet, Statuses
    <2>2. CASE Observe
        <3>1. orig.spec \in Images
            BY <1>3 DEF Clusters
        <3>2. now' = [now EXCEPT !.image = IF AllReady THEN orig.spec ELSE now.image]
            BY <1>3, <2>2 DEF Observe, Statuses
        <3> QED
            BY <1>3, <3>1, <3>2 DEF Statuses
    <2>3. CASE BeginReconcile
        BY <1>3, <2>3 DEF BeginReconcile, Clusters
    <2>4. CASE ~ApplyStatefulSet /\ ~Observe /\ ~BeginReconcile
        <3>1. now' = now \/ now' = NoStatus
            BY <1>2, <2>4 DEF Next, Operator, Reconcile, RefuseSpec, StillFormatting,
                PatchStatus, ApiError, StatusPatchFails, Crash, EndReconcile, Sync, FormatDone,
                RolloutStarts, RolloutDone, PodsBecomeReady, PodStopsBeingReady, PodsGetWorse,
                EditSpec, OutsideOperator, rec, vars
        <3> QED
            BY <1>3, <3>1, NoClusterIs
    <2> QED
        BY <2>1, <2>2, <2>3, <2>4
<1> USE DEF TypeInv, TypeOK, Next, Operator, Reconcile, BeginReconcile, RefuseSpec,
        StillFormatting, ApplyStatefulSet, Observe, NotReady, ReadyReason, Found, PatchStatus,
        ApiError, StatusPatchFails, Crash, EndReconcile, Fault, Sync, FormatDone, RolloutStarts,
        RolloutDone, PodsBecomeReady, PodStopsBeingReady, PodsGetWorse, EditSpec,
        OutsideOperator, world, rec, history, vars
<1>7. found' \in Findings \union {Nothing}
    <2>1. found' = found \/ found' = Nothing \/ pc' = "patch"
        BY <1>2
    <2> QED
        BY <1>1, <2>1 DEF Untouched
<1>8. /\ jobs' \in {"none", "running", "complete"}
      /\ rollout' \in {"pending", "running", "done"}
      /\ pods' \in {"ready", "starting", "recovering", "failing", "stuck"}
    BY <1>2
<1>9. applied' \in Images \union {None}
    BY <1>2, <1>3 DEF Clusters
<1>10. pc' \in {"idle", "apply", "observe", "patch"}
    BY <1>2
<1>11. verdict' \in {None, "Ready", "Unready", "Degraded"}
    BY <1>2
<1>12. complete' \subseteq Generations
    BY <1>2, <1>3 DEF Clusters
<1>13. queue' \in BOOLEAN /\ mixed' \in BOOLEAN
    BY <1>2
<1>14. faults' = faults \/ (faults < MaxFaults /\ faults' = faults + 1)
    BY <1>2
<1>15. faults' \in 0 .. MaxFaults
    <2>1. faults \in 0 .. MaxFaults /\ MaxFaults \in Nat
        BY BoundsAssumption
    <2> HIDE DEF TypeInv, Next
    <2> QED
        BY <1>14, <2>1
<1>16. Told(cluster')
    BY <1>1 DEF CopiesOld
<1> QED
    BY <1>1, <1>4, <1>5, <1>6, <1>7, <1>8, <1>9, <1>10, <1>11, <1>12, <1>13, <1>15, <1>16 DEF Told

\* The types of the status and of its copies; a status speaks of no generation
\* that users have not made, and has a phase as soon as it has conditions.
THEOREM StatusTyped == Spec => []TypeOK
<1>1. TypeInv => TypeOK
    BY DEF TypeInv
<1> QED
    BY <1>1, TypeInit, TypeNext, PTL DEF Spec

-----------------------------------------------------------------------------
(* What a status tells *)

\* Only PatchStatus writes the status.
LEMMA OnlyPatchWrites ==
    ASSUME TypeInv, [Next]_vars, ~PatchStatus
    PROVE cluster'.status = cluster.status /\ verdict' = verdict /\ mixed' = mixed
<1>1. ASSUME NEW i \in Images, EditSpec(i) PROVE cluster'.status = cluster.status
    BY <1>1 DEF EditSpec, TypeInv, TypeOK, Clusters
<1> QED
    BY <1>1 DEF Next, Operator, Reconcile, BeginReconcile, RefuseSpec, StillFormatting,
        ApplyStatefulSet, Observe, ApiError, StatusPatchFails, Crash, Sync, FormatDone,
        RolloutStarts, RolloutDone, PodsBecomeReady, PodStopsBeingReady, PodsGetWorse,
        EditSpec, OutsideOperator, history, vars

\* Conditions never contradict each other.
THEOREM ConditionsAgree == Spec => []OneVerdict
<1>1. Init => OneVerdict
    <2> SUFFICES ASSUME Init PROVE cluster.status.conds.ready = Absent
        BY DEF OneVerdict
    <2>1. cluster.status = NoStatus
        BY DEF Init
    <2> QED
        BY <2>1 DEF NoStatus
<1>2. TypeInv /\ OneVerdict /\ [Next]_vars => OneVerdict'
    <2> SUFFICES ASSUME TypeInv, OneVerdict, [Next]_vars PROVE OneVerdict'
        OBVIOUS
    <2>1. CASE PatchStatus
        <3>1. cluster'.status.conds \in {cluster.status.conds, NewConditions}
            BY <2>1, PatchedFields
        <3>2. IF NewConditions.stalled.value
              THEN ~NewConditions.reconciling.value /\ ~NewConditions.ready.value
              ELSE NewConditions.reconciling.value \/ NewConditions.ready.value
            BY <2>1, NewConditionsAre DEF PatchStatus
        <3> QED
            BY <3>1, <3>2 DEF OneVerdict, Absent
    <2>2. CASE ~PatchStatus
        BY <2>2, OnlyPatchWrites DEF OneVerdict, Absent
    <2> QED
        BY <2>1, <2>2
<1> QED
    BY <1>1, <1>2, TypeInit, TypeNext, PTL DEF Spec

\* Conditions are not older than the observed generation beside them, and those
\* that look ready are of a reconcile that has seen the rollout complete.
Fresh ==
    LET conds == cluster.status.conds
    IN  /\ cluster.status.observed <= conds.reconciling.gen
        /\ LooksReady(conds) =>
             conds.ready.gen = conds.reconciling.gen /\ conds.ready.gen \in complete

\* A reconcile that is about to report Ready has seen the rollout complete.
SeenComplete == pc = "patch" /\ Ready => orig.gen \in complete

HealthInv == TypeInv /\ Fresh /\ SeenComplete

\* A reconcile finds replicas ready only as it notes that they are.
LEMMA SeenNext == TypeInv /\ SeenComplete /\ [Next]_vars => SeenComplete' /\ complete \subseteq complete'
<1> SUFFICES ASSUME TypeInv, SeenComplete, [Next]_vars
             PROVE SeenComplete' /\ complete \subseteq complete'
    OBVIOUS
<1>1. CASE Observe
    BY <1>1 DEF Observe, NotReady, ReadyReason, Found, AllReady, SeenComplete, Ready
<1>2. CASE RefuseSpec \/ StillFormatting \/ ApiError
    BY <1>2 DEF RefuseSpec, StillFormatting, ApiError, Found, SeenComplete, Ready, history
<1>3. CASE BeginReconcile \/ ApplyStatefulSet \/ PatchStatus \/ StatusPatchFails \/ Crash
    BY <1>3 DEF BeginReconcile, ApplyStatefulSet, PatchStatus, StatusPatchFails, Crash,
        EndReconcile, SeenComplete, history
<1>4. CASE ~Observe /\ ~RefuseSpec /\ ~StillFormatting /\ ~ApiError /\ ~BeginReconcile
           /\ ~ApplyStatefulSet /\ ~PatchStatus /\ ~StatusPatchFails /\ ~Crash
    <2>1. UNCHANGED <<pc, found, orig, complete>>
        BY <1>4 DEF Next, Operator, Reconcile, Sync, FormatDone, RolloutStarts, RolloutDone,
            PodsBecomeReady, PodStopsBeingReady, PodsGetWorse, EditSpec, OutsideOperator,
            rec, history, vars
    <2> QED
        BY <2>1 DEF SeenComplete, Ready
<1> QED
    BY <1>1, <1>2, <1>3, <1>4

\* HealthInv is inductive.  A reconcile of a generation that ends with the
\* conditions it has read leaves those that are stored: they are as new.
LEMMA HealthNext == HealthInv /\ [Next]_vars => HealthInv'
<1> SUFFICES ASSUME HealthInv, [Next]_vars PROVE HealthInv'
    OBVIOUS
<1>1. TypeInv /\ TypeInv' /\ Fresh /\ SeenComplete /\ SeenComplete' /\ complete \subseteq complete'
    BY TypeNext, SeenNext DEF HealthInv
<1>2. CASE PatchStatus
    <2>1. pc = "patch" /\ complete' = complete
        BY <1>2 DEF PatchStatus
    <2>2. /\ NewConditions.reconciling.gen = orig.gen
          /\ LooksReady(NewConditions) => Ready /\ NewConditions.ready.gen = orig.gen
        BY <1>1, <2>1, NewConditionsAre
    <2>3. /\ cluster \in Clusters /\ cached \in Clusters /\ orig \in Clusters
          /\ NotNewer(orig, cached) /\ NotNewer(cached, cluster) /\ Latest(orig)
        BY <1>1, <2>1 DEF TypeInv, TypeOK, CopiesOld
    <2>4. NotNewer(orig, cluster)
        BY <2>3, OlderStill
    <2>5. /\ orig.gen \in Nat /\ cluster.status.observed \in Nat
          /\ cluster.status.conds.reconciling.gen \in Nat
          /\ cluster.status.observed <= orig.gen
        BY <2>3, CopyTypes DEF Latest
    <2>6. cluster'.status.observed \in {cluster.status.observed, orig.gen}
        BY <1>1, <1>2, PatchedFields
    <2>7. CASE NewConditions = orig.status.conds
        <3>1. cluster'.status.conds = cluster.status.conds
            BY <1>1, <1>2, <2>7, PatchedFields
        <3>2. orig.gen <= cluster.status.conds.reconciling.gen
            BY <2>2, <2>4, <2>7 DEF NotNewer
        <3> QED
            BY <1>1, <2>1, <2>5, <2>6, <3>1, <3>2 DEF HealthInv, Fresh, LooksReady
    <2>8. CASE NewConditions # orig.status.conds
        <3>1. cluster'.status.conds = NewConditions
            BY <1>1, <1>2, <2>8, PatchedFields
        <3>2. LooksReady(NewConditions) => orig.gen \in complete
            BY <1>1, <2>1, <2>2 DEF SeenComplete
        <3> QED
            BY <1>1, <2>1, <2>2, <2>5, <2>6, <3>1, <3>2 DEF HealthInv, Fresh, LooksReady
    <2> QED
        BY <2>7, <2>8
<1>3. CASE ~PatchStatus
    BY <1>1, <1>3, OnlyPatchWrites DEF HealthInv, Fresh, LooksReady
<1> QED
    BY <1>2, <1>3

\* A cluster looks Healthy only after a reconcile of its latest spec has seen
\* the rollout of it complete, however stale the copies are that the patches
\* were made from.
THEOREM HealthyIsSound == Spec => []HealthySound
<1>1. Init => Fresh /\ SeenComplete
    BY DEF Init, Fresh, SeenComplete, LooksReady, NoStatus, Absent, Condition
<1>2. HealthInv => HealthySound
    <2> SUFFICES ASSUME HealthInv, Health = "Healthy" PROVE cluster.gen \in complete
        BY DEF HealthySound
    <2>1. /\ ~(cluster.status.observed < cluster.gen) /\ LooksReady(cluster.status.conds)
        BY DEF Health, LooksReady
    <2>2. cluster \in Clusters /\ cluster.status.conds.reconciling.gen <= cluster.gen
        BY DEF HealthInv, TypeInv, TypeOK, CopiesOld, Told
    <2>3. /\ cluster.status.observed <= cluster.status.conds.reconciling.gen
          /\ cluster.status.conds.ready.gen = cluster.status.conds.reconciling.gen
          /\ cluster.status.conds.ready.gen \in complete
        BY <2>1 DEF HealthInv, Fresh
    <2>4. cluster.status.conds.reconciling.gen = cluster.gen
        BY <2>1, <2>2, <2>3, CopyTypes
    <2> QED
        BY <2>3, <2>4
<1> QED
    BY <1>1, <1>2, TypeInit, HealthNext, PTL DEF Spec, HealthInv

\* A verdict has left a phase.
Judged == verdict # None => cluster.status.phase # None

\* Ready and phase say what the last outcome was, if the patch was made from
\* what is stored; an error keeps both.
LEMMA VerdictNext ==
    TypeInv /\ Judged /\ HealthKept /\ [Next]_vars => Judged' /\ HealthKept'
<1> SUFFICES ASSUME TypeInv, Judged, HealthKept, [Next]_vars PROVE Judged' /\ HealthKept'
    OBVIOUS
<1>1. CASE PatchStatus
    <2>1. pc = "patch" /\ Told(cluster)
        BY <1>1 DEF PatchStatus, TypeInv, CopiesOld
    <2>2. Judged'
        <3>1. NotNewer(cluster, cluster') /\ Told(cluster')
            BY <1>1, PatchIsNewer
        <3>2. cluster'.status.phase # None
            <4>1. CASE NewPhase = orig.status.phase
                <5>1. NotNewer(orig, cluster)
                    BY OlderStill DEF TypeInv, TypeOK, CopiesOld
                <5> QED
                    BY <1>1, <2>1, <4>1, <5>1, NewPhaseIs, PatchedFields DEF NotNewer
            <4>2. CASE NewPhase # orig.status.phase
                BY <1>1, <2>1, <4>2, NewPhaseIs, PatchedFields
            <4> QED
                BY <4>1, <4>2
        <3> QED
            BY <3>2 DEF Judged
    <2>3. HealthKept'
        <3> SUFFICES ASSUME ~mixed', verdict' # None
                     PROVE /\ cluster'.status.conds.ready.value = (verdict' = "Ready")
                           /\ (cluster'.status.phase = "Ready") = (verdict' = "Ready")
                           /\ (cluster'.status.phase = "Degraded") = (verdict' = "Degraded")
            BY DEF HealthKept
        <3>1. orig.status = cluster.status /\ (Error => ~mixed)
            BY <1>1 DEF PatchStatus
        <3>2. cluster'.status.conds = NewConditions /\ cluster'.status.phase = NewPhase
            BY <1>1, <3>1, PatchedFields
        <3>3. NewConditions.ready.value \in BOOLEAN
            BY <2>1, NewConditionsAre DEF CondSets, Conditions
        <3>4. CASE Error
            <4>1. verdict' = verdict
                BY <1>1, <3>4 DEF PatchStatus
            <4>2. cluster.status.phase # None /\ cluster.status.conds.ready # Absent
                BY <2>1, <4>1 DEF Judged, Told
            <4>3. NewConditions.ready = cluster.status.conds.ready /\ NewPhase = cluster.status.phase
                BY <2>1, <3>1, <3>4, <4>2, NewConditionsAre, NewPhaseIs
            <4> QED
                BY <3>1, <3>2, <3>4, <4>1, <4>3 DEF HealthKept
        <3>5. CASE ~Error
            <4>1. /\ NewConditions.ready.value <=> Ready
                  /\ NewPhase = "Ready" <=> Ready
                  /\ NewPhase = "Degraded" <=> Stalled
                BY <2>1, <3>5, NewConditionsAre, NewPhaseIs
            <4>2. Ready => ~Stalled
                BY <2>1 DEF TypeInv, Untouched
            <4>3. verdict' = IF Stalled THEN "Degraded" ELSE IF Ready THEN "Ready" ELSE "Unready"
                BY <1>1, <3>5 DEF PatchStatus
            <4>4. (verdict' = "Ready" <=> Ready) /\ (verdict' = "Degraded" <=> Stalled)
                BY <4>2, <4>3
            <4> QED
                BY <3>2, <3>3, <4>1, <4>4
        <3> QED
            BY <3>4, <3>5
    <2> QED
        BY <2>2, <2>3
<1>2. CASE ~PatchStatus
    BY <1>2, OnlyPatchWrites DEF Judged, HealthKept
<1> QED
    BY <1>1, <1>2

\* However many reconciles fail on the way, Ready and phase stay what the last
\* one that did not fail has found, unless the status was patched from a copy
\* older than itself.
THEOREM HealthIsKept == Spec => []HealthKept
<1>1. Init => Judged /\ HealthKept
    BY DEF Init, Judged, HealthKept
<1> QED
    BY <1>1, TypeInit, TypeNext, VerdictNext, PTL DEF Spec
===============================================================================
