--------------------------- MODULE BootstrapProofs ---------------------------
(***************************************************************************)
(* Proofs about Bootstrap, for any number of replicas and any bounds.      *)
(***************************************************************************)
EXTENDS Bootstrap, TLAPS

-----------------------------------------------------------------------------
(* Type correctness *)

\* The loop over the Jobs counts no more of them than it has seen: what TypeOK
\* needs to be inductive.
IndexOK == scan.succeeded <= scan.k

Types == TypeOK /\ IndexOK

\* The absent objects and the fresh local variables have their types.
LEMMA Constants ==
    /\ NoCluster \in Clusters /\ NoConfigMap \in ConfigMaps
    /\ NoClaim \in Claims /\ NoJob \in Jobs /\ 0 \in Uids /\ 0 \in Ordinals
    /\ \A o \in Outcomes :
         Ended(o) \in Scans /\ Ended(o).k = 0 /\ Ended(o).succeeded = 0
    /\ NewScan = Ended("none") /\ "none" \in Outcomes
  BY NAssumption, BoundsAssumption
     DEF Uids, Ordinals, Clusters, ConfigMaps, Claims, Jobs, Outcomes, Scans,
         NoCluster, NoConfigMap, NoClaim, NoJob, NewScan, Ended

\* The initial states are well typed.
LEMMA InitTypes == Init => Types
<1> SUFFICES ASSUME Init PROVE Types
  OBVIOUS
<1>1. pvc \in [Ordinals -> Claims] /\ ran \subseteq Ordinals
  BY BoundsAssumption, Constants DEF Init, Claims, Uids
<1>2. /\ scan \in Scans /\ IndexOK /\ pc \in Stages
      /\ cMark \in Marks /\ job \in [Ordinals -> Jobs]
  BY NAssumption, Constants DEF Init, IndexOK, Marks, Stages
<1>3. /\ booted \subseteq Uids /\ formatted \subseteq Ordinals /\ lastUid \in Uids
      /\ ops \in 0 .. MaxUserOps /\ faults \in 0 .. MaxFaults
  BY BoundsAssumption, Constants DEF Init
<1>4. /\ pods \subseteq Ordinals /\ running \subseteq pods
      /\ queue \in BOOLEAN /\ orig \in BOOLEAN
  BY DEF Init
<1>5. /\ tbc \in Clusters /\ cm \in ConfigMaps /\ sts \in Uids
      /\ cTbc \in Clusters /\ cJob \in [Ordinals -> Jobs] /\ me \in Clusters
  <2>1. job \in [Ordinals -> Jobs]
    BY Constants DEF Init
  <2>2. QED
    BY <2>1, Constants DEF Init
<1>6. QED
  BY <1>1, <1>2, <1>3, <1>4, <1>5 DEF Types, TypeOK

\* What a change of stage does to the types.
LEMMA StageTypes ==
    ASSUME Types
    PROVE  /\ \A s \in Stages : Goto(s) =>
                pc' \in Stages /\ scan' \in Scans /\ IndexOK'
           /\ \A o \in Outcomes : Finish(o) =>
                pc' \in Stages /\ scan' \in Scans /\ IndexOK'
           /\ Fault => faults' \in 0 .. MaxFaults /\ ops' = ops
           /\ UserOp => ops' \in 0 .. MaxUserOps /\ faults' = faults
<1>1. ASSUME NEW s \in Stages, Goto(s)
      PROVE  pc' \in Stages /\ scan' \in Scans /\ IndexOK'
  BY <1>1, Constants, NAssumption DEF Goto, IndexOK
<1>2. ASSUME NEW o \in Outcomes, Finish(o)
      PROVE  pc' \in Stages /\ scan' \in Scans /\ IndexOK'
  BY <1>2, Constants, NAssumption DEF Finish, IndexOK, Stages
<1>3. QED
  BY <1>1, <1>2, BoundsAssumption DEF Types, TypeOK, Fault, UserOp

\* The local variables of a loop keep their types as it advances.
LEMMA ScanAdvances ==
    ASSUME Types, scan.k + 1 < N
    PROVE  \A s \in {ClaimSeen, JobSeen, [scan EXCEPT !.k = @ + 1]} :
             s \in Scans /\ s.succeeded <= s.k
<1>1. /\ scan.k \in Nat /\ scan.k + 1 \in Ordinals
      /\ scan.succeeded \in 0 .. N /\ scan.succeeded <= scan.k
  BY NAssumption DEF Types, TypeOK, IndexOK, Scans, Ordinals
<1>2. scan.succeeded + 1 \in 0 .. N /\ 0 \in 0 .. N
  BY <1>1, NAssumption DEF Ordinals
<1>3. ClaimSeen \in Scans /\ ClaimSeen.succeeded <= ClaimSeen.k
  BY <1>1, <1>2 DEF Types, TypeOK, Scans, Outcomes, ClaimSeen
<1>4. JobSeen \in Scans /\ JobSeen.succeeded <= JobSeen.k
  BY <1>1, <1>2 DEF Types, TypeOK, Scans, Outcomes, JobSeen
<1>5. [scan EXCEPT !.k = @ + 1] \in Scans
  BY <1>1 DEF Types, TypeOK, Scans
<1>6. [scan EXCEPT !.k = @ + 1].succeeded <= [scan EXCEPT !.k = @ + 1].k
  BY <1>1 DEF Types, TypeOK, Scans
<1>7. QED
  BY <1>3, <1>4, <1>5, <1>6

\* Every step of the Reconcile handler preserves the types.
LEMMA ReconcileTypes == Types /\ Reconcile => Types'
<1> SUFFICES ASSUME Types, Reconcile PROVE Types'
  OBVIOUS
<1> USE Constants, StageTypes, NAssumption DEF Types, TypeOK
<1>1. CASE SkipReconcile
  BY <1>1 DEF SkipReconcile, api, rec, ghost, bound, IndexOK
<1>2. CASE BeginReconcile
  <2>1. "gateCached" \in Stages
    BY DEF Stages
  <2>2. QED
    BY <1>2, <2>1 DEF BeginReconcile, Clusters, api, ghost, bound
<1>3. CASE ServicesWait
  BY <1>3 DEF ServicesWait, Outcomes, api, cache, ghost
<1>4. CASE GateCached \/ GateConfigMap \/ GateStatefulSet \/ GatePods
  <2>1. {"applyMarked", "gateConfigMap", "gateStatefulSet", "gatePods",
         "applyUnmarked"} \subseteq Stages
    BY DEF Stages
  <2>2. QED
    BY <1>4, <2>1 DEF GateCached, GateConfigMap, GateStatefulSet, GatePods,
                      api, cache, ghost, bound
<1>5. CASE ApplyUnmarked
  <2>1. "getPVC" \in Stages /\ cm' \in ConfigMaps
    BY <1>5 DEF ApplyUnmarked, Stages, Clusters, ConfigMaps
  <2>2. QED
    BY <1>5, <2>1 DEF ApplyUnmarked, cache, ghost, bound
<1>6. CASE GetPVC
  <2>1. pc' \in Stages /\ scan' \in Scans /\ IndexOK'
    <3>1. CASE scan.k + 1 < N
      BY <1>6, <3>1, ScanAdvances DEF GetPVC, IndexOK
    <3>2. CASE ~(scan.k + 1 < N)
      BY <1>6, <3>2 DEF GetPVC, JudgeClaims, Stages, Outcomes
    <3>3. QED
      BY <3>1, <3>2
  <2>2. QED
    BY <1>6, <2>1 DEF GetPVC, api, cache, ghost, bound
<1>7. CASE CreatePVC
  <2>1. pc' \in Stages /\ scan' \in Scans /\ IndexOK'
    <3>1. CASE scan.k + 1 = N
      BY <1>7, <3>1 DEF CreatePVC, Stages
    <3>2. CASE scan.k + 1 # N
      <4>1. scan.k + 1 < N
        <5>1. scan.k \in 0 .. N - 1
          BY DEF Scans, Ordinals
        <5>2. QED
          BY <3>2, <5>1
      <4>2. QED
        BY <1>7, <3>2, <4>1, ScanAdvances DEF CreatePVC, IndexOK
    <3>3. QED
      BY <3>1, <3>2
  <2>2. pvc' \in [Ordinals -> Claims]
    BY <1>7 DEF CreatePVC, Claims, Clusters
  <2>3. QED
    BY <1>7, <2>1, <2>2 DEF CreatePVC, cache, ghost, bound
<1>8. CASE FormatJob
  <2>1. pc' \in Stages /\ scan' \in Scans /\ IndexOK'
    <3>2. CASE scan.k + 1 < N
      BY <1>8, <3>2, ScanAdvances DEF FormatJob, IndexOK
    <3>3. CASE ~(scan.k + 1 < N)
      BY <1>8, <3>3 DEF FormatJob, JudgeJobs, Stages, Outcomes
    <3>4. QED
      BY <3>2, <3>3
  <2>2. job' \in [Ordinals -> Jobs]
    <3>1. [owner |-> me.uid, state |-> "pending"] \in Jobs
      BY DEF Jobs, Clusters
    <3>2. QED
      BY <1>8, <3>1 DEF FormatJob
  <2>3. QED
    BY <1>8, <2>1, <2>2 DEF FormatJob, cache, ghost, bound
<1>9. CASE ApplyMarked
  <2>1. /\ "applyStatefulSet" \in Stages
        /\ cm' \in ConfigMaps /\ me' \in Clusters /\ booted' \subseteq Uids
    BY <1>9 DEF ApplyMarked, Stages, Clusters, ConfigMaps
  <2>2. QED
    BY <1>9, <2>1 DEF ApplyMarked, cache, bound
<1>10. CASE ApplyStatefulSet
  <2>1. "listJobs" \in Stages /\ sts' \in Uids
    BY <1>10 DEF ApplyStatefulSet, Stages, Clusters
  <2>2. QED
    BY <1>10, <2>1 DEF ApplyStatefulSet, cache, ghost, bound
<1>11. CASE ListJobs
  <2>1. pc' \in Stages /\ scan' \in Scans /\ IndexOK'
    <3>1. CASE Finish("running")
      BY <3>1 DEF Outcomes
    <3>2. CASE /\ pc' = "deleteJobs"
               /\ scan' = [NewScan EXCEPT !.doomed = {i \in Ordinals : ToDelete(i)}]
      <4>1. scan'.succeeded = scan'.k /\ scan'.k = 0
        BY <3>2 DEF Ended
      <4>2. scan' \in Scans
        BY <3>2 DEF Ended, Scans, Outcomes
      <4>3. QED
        BY <3>2, <4>1, <4>2 DEF Stages, IndexOK
    <3>3. QED
      BY <1>11, <3>1, <3>2 DEF ListJobs
  <2>2. QED
    BY <1>11, <2>1 DEF ListJobs, api, cache, ghost, bound
<1>12. CASE DeleteJobs
  <2> PICK i \in scan.doomed :
        /\ job' = [job EXCEPT ![i] = NoJob]
        /\ \/ Finish("running")
           \/ pc' = pc /\ scan' = [scan EXCEPT !.doomed = @ \ {i}]
    BY <1>12 DEF DeleteJobs
  <2>1. i \in Ordinals
    BY DEF Scans
  <2>2. pc' \in Stages /\ scan' \in Scans /\ IndexOK'
    BY DEF Outcomes, Scans, IndexOK
  <2>3. QED
    BY <1>12, <2>1, <2>2 DEF DeleteJobs, cache, ghost, bound
<1>13. CASE PatchStatus
  <2>1. "idle" \in Stages /\ tbc' \in Clusters /\ queue' \in BOOLEAN
    BY <1>13 DEF PatchStatus, Clusters, Stages
  <2>2. QED
    BY <1>13, <2>1 DEF PatchStatus, ghost, bound
<1>14. CASE StatusPatchFails
  <2>1. "idle" \in Stages
    BY DEF Stages
  <2>2. QED
    BY <1>14, <2>1 DEF StatusPatchFails, api, ghost
<1>15. CASE ApiError
  BY <1>15 DEF ApiError, Outcomes, api, cache, ghost
<1>16. QED
  BY <1>1, <1>2, <1>3, <1>4, <1>5, <1>6, <1>7, <1>8, <1>9, <1>10, <1>11,
     <1>12, <1>13, <1>14, <1>15 DEF Reconcile

\* So do the informers, other events and a crash.
LEMMA OperatorTypes == Types /\ Operator => Types'
<1> SUFFICES ASSUME Types, Operator PROVE Types'
  OBVIOUS
<1> USE Constants, StageTypes, NAssumption DEF Types, TypeOK
<1>0. LiveMarks \in Marks
  BY DEF LiveMarks, Marks, CmMarks
<1>1. CASE SyncCluster \/ OtherEvent
  BY <1>1 DEF SyncCluster, OtherEvent, api, rec, ghost, bound, IndexOK
<1>2. CASE SyncConfigMap \/ SyncStatefulSet \/ SyncPods
  <2>1. cMark' \in Marks
    BY <1>2 DEF SyncConfigMap, SyncStatefulSet, SyncPods, Marks, CmMarks
  <2>2. QED
    BY <1>2, <2>1 DEF SyncConfigMap, SyncStatefulSet, SyncPods,
                      api, rec, ghost, bound, IndexOK
<1>3. LiveJobs \in [Ordinals -> Jobs]
  BY DEF LiveJobs, Told, Jobs
<1>4. ASSUME NEW i \in Ordinals, SyncJob(i) PROVE Types'
  BY <1>4, <1>3 DEF SyncJob, api, rec, ghost, bound, IndexOK
<1>5. CASE Crash
  <2>1. "idle" \in Stages
    BY DEF Stages
  <2>2. QED
    BY <1>0, <1>3, <1>5, <2>1 DEF Crash, api, ghost
<1>6. QED
  BY <1>1, <1>2, <1>4, <1>5 DEF Operator

\* So do Kubernetes and the pods.
LEMMA KubernetesTypes == Types /\ Kubernetes => Types'
<1> SUFFICES ASSUME Types, Kubernetes PROVE Types'
  OBVIOUS
<1> USE Constants, StageTypes, NAssumption
    DEF Types, TypeOK, IndexOK, cache, rec, ghost, bound
<1>1. ASSUME NEW i \in Ordinals, RunFormatPod(i) \/ JobCompletes(i) \/ JobFails(i)
      PROVE  Types'
  <2>1. job' \in [Ordinals -> Jobs]
    BY <1>1 DEF RunFormatPod, JobCompletes, JobFails, Jobs
  <2>2. QED
    BY <1>1, <2>1 DEF RunFormatPod, JobCompletes, JobFails
<1>2. ASSUME NEW i \in Ordinals, FormatWrites(i) \/ ReplicaRecovers(i) PROVE Types'
  <2>1. pvc' \in [Ordinals -> Claims]
    BY <1>2 DEF FormatWrites, ReplicaRecovers, Claims
  <2>2. QED
    BY <1>2, <2>1 DEF FormatWrites, ReplicaRecovers, Note
<1>3. ASSUME NEW i \in Ordinals, StsCreatesPod(i) PROVE Types'
  <2>1. pvc' \in [Ordinals -> Claims]
    BY <1>3 DEF StsCreatesPod, Claims
  <2>2. QED
    BY <1>3, <2>1 DEF StsCreatesPod
<1>4. ASSUME NEW i \in Ordinals, ReplicaStarts(i) PROVE Types'
  <2>1. pvc' \in [Ordinals -> Claims]
    BY <1>4 DEF ReplicaStarts, Claims
  <2>2. QED
    BY <1>4, <2>1 DEF ReplicaStarts
<1>5. ASSUME NEW i \in Ordinals, PodGone(i) PROVE Types'
  BY <1>5 DEF PodGone
<1>6. ASSUME NEW i \in Ordinals, VolumeLost(i) PROVE Types'
  <2>1. pvc' \in [Ordinals -> Claims]
    BY <1>6 DEF VolumeLost, Claims
  <2>2. QED
    BY <1>6, <2>1 DEF VolumeLost, RanAfter
<1>7. ASSUME NEW i \in Ordinals, GcJob(i) PROVE Types'
  BY <1>7 DEF GcJob, Deleted
<1>8. CASE GcConfigMap \/ GcStatefulSet \/ FinishDelete
  BY <1>8 DEF GcConfigMap, GcStatefulSet, FinishDelete, Deleted
<1>9. QED
  BY <1>1, <1>2, <1>3, <1>4, <1>5, <1>6, <1>7, <1>8 DEF Kubernetes

\* And so do users.
LEMMA UsersTypes == Types /\ Users => Types'
<1> SUFFICES ASSUME Types, Users PROVE Types'
  OBVIOUS
<1> USE Constants, StageTypes, NAssumption
    DEF Types, TypeOK, IndexOK, cache, rec, ghost, bound
<1>1. ASSUME NEW adopt \in BOOLEAN, CreateCluster(adopt) PROVE Types'
  <2>1. lastUid' \in Uids /\ tbc' \in Clusters /\ formatted' \subseteq Ordinals
    BY <1>1, BoundsAssumption DEF CreateCluster, Uids, Clusters, Files
  <2>2. QED
    BY <1>1, <2>1 DEF CreateCluster
<1>2. CASE AnnotateAdopt \/ DeleteCluster
  <2>1. tbc' \in Clusters
    BY <1>2 DEF AnnotateAdopt, DeleteCluster, Clusters
  <2>2. QED
    BY <1>2, <2>1 DEF AnnotateAdopt, DeleteCluster
<1>3. CASE DeleteConfigMap \/ DeleteStatefulSet
  BY <1>3 DEF DeleteConfigMap, DeleteStatefulSet, Deleted
<1>4. ASSUME NEW i \in Ordinals, DeleteJob(i) PROVE Types'
  BY <1>4 DEF DeleteJob, Deleted
<1>5. ASSUME NEW i \in Ordinals, DeletePVC(i) \/ RestoreVolume(i) PROVE Types'
  <2>1. pvc' \in [Ordinals -> Claims] /\ ran' \subseteq Ordinals
    BY <1>5 DEF DeletePVC, RestoreVolume, RanAfter, Claims
  <2>2. QED
    BY <1>5, <2>1 DEF DeletePVC, RestoreVolume
<1>6. QED
  BY <1>1, <1>2, <1>3, <1>4, <1>5 DEF Users

\* One step of anyone preserves the types.
LEMMA NextTypes == Types /\ [Next]_vars => Types'
<1> SUFFICES ASSUME Types, [Next]_vars PROVE Types'
  OBVIOUS
<1>1. CASE Next
  BY <1>1, ReconcileTypes, OperatorTypes, KubernetesTypes, UsersTypes DEF Next
<1>2. CASE UNCHANGED vars
  BY <1>2 DEF vars, api, cache, rec, ghost, bound, Types, TypeOK, IndexOK
<1>3. QED
  BY <1>1, <1>2

\* Every reachable state is well typed, and no loop of Reconcile leaves the
\* range of the ordinals.
THEOREM TypesAlways == Spec => []Types
  BY InitTypes, NextTypes, PTL DEF Spec

\* Every reachable state is well typed.
THEOREM TypeCorrect == Spec => []TypeOK
<1>1. Types => TypeOK
  BY DEF Types
<1>2. QED
  BY <1>1, TypesAlways, PTL

-----------------------------------------------------------------------------
(* The gate.  An already bootstrapped cluster never looks new, provided the *)
(* operator's copies keep up with the removal of markers.                   *)

\* Every copy of the cluster is one of the last cluster that was created.
CopiesRecent ==
    /\ {tbc.uid, cTbc.uid, me.uid} \subseteq {0, lastUid}
    /\ booted \subseteq 0 .. lastUid
    /\ IF pc = "idle" THEN me = NoCluster ELSE me.uid # 0

\* As long as some copy does not show that the bootstrap was completed, there
\* is a marker that does.
MarkedWhileBlind == \A c \in {tbc, cTbc, me} : Blind(c) => Marked

\* What the live half of the gate has found so far stays true: only the
\* operator itself makes markers, save for the pods of a StatefulSet.
GateProgress ==
    /\ pc \in {"gateStatefulSet", "gatePods"} => ~CmMarks
    /\ pc = "gatePods" => sts = 0
    /\ pc \in {"gateConfigMap", "gateStatefulSet", "gatePods"} \/ Unmarked
         => ~me.bootstrapped

GateInv == Types /\ CopiesRecent /\ MarkedWhileBlind /\ GateProgress /\ GateSound

\* Steps that leave the copies, the markers and the stage alone.
LEMMA GateFrame ==
    ASSUME GateInv, UNCHANGED <<tbc, cm, sts, pods, cTbc, me, pc, booted, lastUid>>
    PROVE  CopiesRecent' /\ MarkedWhileBlind' /\ GateProgress' /\ GateSound'
  BY DEF GateInv, CopiesRecent, MarkedWhileBlind, GateProgress, GateSound, Unmarked,
         Blind, Marked, CmMarks

\* Steps that only remove markers, and no more than MarkersKept allows.
LEMMA GateRemoval ==
    ASSUME {"StatusFirst", "CaughtUp"} \subseteq Assumed, GateInv, MarkersKept,
           UNCHANGED <<tbc, cTbc, me, pc, booted, lastUid>>,
           cm' \in {cm, NoConfigMap}, sts' \in {sts, 0}
    PROVE  CopiesRecent' /\ MarkedWhileBlind' /\ GateProgress' /\ GateSound'
<1> USE DEF GateInv
<1>1. CopiesRecent' /\ GateSound'
  BY DEF CopiesRecent, GateSound, Unmarked
<1>2. GateProgress'
  BY DEF GateProgress, Unmarked, CmMarks, NoConfigMap
<1>3. MarkedWhileBlind'
  BY DEF MarkedWhileBlind, MarkersKept, Blind
<1>4. QED
  BY <1>1, <1>2, <1>3

\* The gate's invariant holds when the operator starts on a fresh cluster.
LEMMA GateInit == Init => GateInv
<1> SUFFICES ASSUME Init PROVE GateInv
  OBVIOUS
<1>1. tbc = NoCluster /\ cTbc = NoCluster /\ me = NoCluster /\ pc = "idle" /\ booted = {}
  BY DEF Init
<1>2. QED
  BY <1>1, InitTypes
     DEF GateInv, CopiesRecent, MarkedWhileBlind, GateProgress, GateSound, Unmarked,
         Blind, NoCluster

\* Every step of the Reconcile handler preserves it: the stages of the gate
\* (isBootstrapped) gather the evidence, the writes of markers come after.
LEMMA GateReconcile ==
    ASSUME {"StatusFirst", "CaughtUp"} \subseteq Assumed, GateInv, Reconcile
    PROVE  CopiesRecent' /\ MarkedWhileBlind' /\ GateProgress' /\ GateSound'
<1> USE DEF GateInv, CopiesRecent, MarkedWhileBlind, GateProgress, GateSound, Unmarked,
            Blind, Goto, Finish
<1>1. CASE SkipReconcile
  BY <1>1, GateFrame DEF SkipReconcile, api, rec, ghost
<1>2. CASE BeginReconcile
  BY <1>2 DEF BeginReconcile, api, ghost, Marked, CmMarks
<1>3. CASE ServicesWait \/ ApiError
  BY <1>3 DEF ServicesWait, ApiError, api, cache, ghost, Marked, CmMarks
<1>4. CASE GateCached \/ GateConfigMap \/ GateStatefulSet
  BY <1>4 DEF GateCached, GateConfigMap, GateStatefulSet, api, cache, ghost, Marked, CmMarks
<1>5. CASE GatePods
  BY <1>5 DEF GatePods, api, cache, ghost, Marked, CmMarks
<1>6. CASE ApplyUnmarked
  BY <1>6 DEF ApplyUnmarked, cache, ghost, Marked, CmMarks
<1>7. CASE GetPVC
  BY <1>7 DEF GetPVC, JudgeClaims, api, cache, ghost, Marked, CmMarks
<1>8. CASE CreatePVC
  BY <1>8 DEF CreatePVC, cache, ghost, Marked, CmMarks
<1>9. CASE FormatJob
  BY <1>9 DEF FormatJob, JudgeJobs, cache, ghost, Marked, CmMarks
<1>10. CASE ApplyMarked
  <2>1. me'.uid = me.uid /\ me'.bootstrapped /\ me.uid # 0
    BY <1>10 DEF ApplyMarked, Types, TypeOK, Clusters
  <2>2. Marked'
    BY <1>10, <2>1 DEF ApplyMarked, Marked, CmMarks
  <2>3. booted' \subseteq 0 .. lastUid
    BY <1>10, BoundsAssumption DEF ApplyMarked, Types, TypeOK, Uids
  <2>4. QED
    BY <1>10, <2>1, <2>2, <2>3 DEF ApplyMarked, cache
<1>11. CASE ApplyStatefulSet
  BY <1>11 DEF ApplyStatefulSet, cache, ghost, Marked, CmMarks
<1>12. CASE ListJobs \/ DeleteJobs
  BY <1>12 DEF ListJobs, DeleteJobs, api, cache, ghost, Marked, CmMarks
<1>13. CASE PatchStatus
  BY <1>13 DEF PatchStatus, ghost, Marked, CmMarks, NoCluster, Types, TypeOK, Clusters
<1>14. CASE StatusPatchFails
  BY <1>14 DEF StatusPatchFails, api, ghost, Marked, CmMarks, NoCluster
<1>15. QED
  BY <1>1, <1>2, <1>3, <1>4, <1>5, <1>6, <1>7, <1>8, <1>9, <1>10, <1>11,
     <1>12, <1>13, <1>14 DEF Reconcile

\* The informers, other events and a crash preserve it: a cache only ever moves
\* to what the API server holds.
LEMMA GateOperator ==
    ASSUME {"StatusFirst", "CaughtUp"} \subseteq Assumed, GateInv, Operator
    PROVE  CopiesRecent' /\ MarkedWhileBlind' /\ GateProgress' /\ GateSound'
<1>1. CASE SyncConfigMap \/ SyncStatefulSet \/ SyncPods \/ OtherEvent
  BY <1>1, GateFrame DEF SyncConfigMap, SyncStatefulSet, SyncPods, OtherEvent,
                         api, rec, ghost
<1>2. ASSUME NEW i \in Ordinals, SyncJob(i)
      PROVE  CopiesRecent' /\ MarkedWhileBlind' /\ GateProgress' /\ GateSound'
  BY <1>2, GateFrame DEF SyncJob, api, rec, ghost
<1>3. CASE SyncCluster
  BY <1>3 DEF SyncCluster, api, rec, ghost, GateInv, CopiesRecent, MarkedWhileBlind,
              GateProgress, GateSound, Unmarked, Blind, Marked, CmMarks
<1>4. CASE Crash
  BY <1>4 DEF Crash, Goto, api, ghost, GateInv, CopiesRecent, MarkedWhileBlind,
              GateProgress, GateSound, Unmarked, Blind, Marked, CmMarks, NoCluster
<1>5. QED
  BY <1>1, <1>2, <1>3, <1>4 DEF Operator

\* Kubernetes and the pods preserve it: the garbage collector removes markers no
\* earlier than users may.
LEMMA GateKubernetes ==
    ASSUME {"StatusFirst", "CaughtUp"} \subseteq Assumed, GateInv, Kubernetes
    PROVE  CopiesRecent' /\ MarkedWhileBlind' /\ GateProgress' /\ GateSound'
<1> USE DEF cache, rec, ghost
<1>1. ASSUME NEW i \in Ordinals,
             \/ RunFormatPod(i) \/ FormatWrites(i) \/ JobCompletes(i) \/ JobFails(i)
             \/ ReplicaStarts(i) \/ ReplicaRecovers(i) \/ VolumeLost(i) \/ GcJob(i)
      PROVE  CopiesRecent' /\ MarkedWhileBlind' /\ GateProgress' /\ GateSound'
  BY <1>1, GateFrame DEF RunFormatPod, FormatWrites, JobCompletes, JobFails,
                         ReplicaStarts, ReplicaRecovers, VolumeLost, GcJob
<1>2. ASSUME NEW i \in Ordinals, StsCreatesPod(i)
      PROVE  CopiesRecent' /\ MarkedWhileBlind' /\ GateProgress' /\ GateSound'
  BY <1>2 DEF StsCreatesPod, GateInv, CopiesRecent, MarkedWhileBlind,
              GateProgress, GateSound, Unmarked, Blind, Marked, CmMarks
<1>3. ASSUME NEW i \in Ordinals, PodGone(i)
      PROVE  CopiesRecent' /\ MarkedWhileBlind' /\ GateProgress' /\ GateSound'
  BY <1>3, GateRemoval DEF PodGone
<1>4. CASE GcConfigMap \/ GcStatefulSet
  BY <1>4, GateRemoval DEF GcConfigMap, GcStatefulSet
<1>5. CASE FinishDelete
  BY <1>5 DEF FinishDelete, GateInv, CopiesRecent, MarkedWhileBlind, NoCluster,
              GateProgress, GateSound, Unmarked, Blind, Marked, CmMarks
<1>6. QED
  BY <1>1, <1>2, <1>3, <1>4, <1>5 DEF Kubernetes

\* Users preserve it, as long as they remove the last marker only after the cache
\* has caught up with it.
LEMMA GateUsers ==
    ASSUME {"StatusFirst", "CaughtUp"} \subseteq Assumed, GateInv, Users
    PROVE  CopiesRecent' /\ MarkedWhileBlind' /\ GateProgress' /\ GateSound'
<1> USE DEF cache, rec, ghost
<1>1. ASSUME NEW adopt \in BOOLEAN, CreateCluster(adopt)
      PROVE  CopiesRecent' /\ MarkedWhileBlind' /\ GateProgress' /\ GateSound'
  BY <1>1 DEF CreateCluster, CachesInSync, GateInv, CopiesRecent, MarkedWhileBlind,
              NoCluster, GateProgress, GateSound, Unmarked, Blind, Marked, CmMarks,
              Types, TypeOK, Uids, Clusters
<1>2. CASE AnnotateAdopt \/ DeleteCluster
  BY <1>2 DEF AnnotateAdopt, DeleteCluster, GateInv, CopiesRecent, MarkedWhileBlind,
              NoCluster, GateProgress, GateSound, Unmarked, Blind, Marked, CmMarks,
              Types, TypeOK, Clusters
<1>3. CASE DeleteConfigMap \/ DeleteStatefulSet
  BY <1>3, GateRemoval DEF DeleteConfigMap, DeleteStatefulSet
<1>4. ASSUME NEW i \in Ordinals, DeleteJob(i) \/ DeletePVC(i) \/ RestoreVolume(i)
      PROVE  CopiesRecent' /\ MarkedWhileBlind' /\ GateProgress' /\ GateSound'
  BY <1>4, GateFrame DEF DeleteJob, DeletePVC, RestoreVolume
<1>5. QED
  BY <1>1, <1>2, <1>3, <1>4 DEF Users

\* One step of anyone preserves it.
LEMMA GateNext ==
    ASSUME {"StatusFirst", "CaughtUp"} \subseteq Assumed, GateInv, [Next]_vars
    PROVE  GateInv'
<1>1. Types'
  BY NextTypes DEF GateInv
<1>2. CASE Next
  BY <1>1, <1>2, GateReconcile, GateOperator, GateKubernetes, GateUsers
     DEF Next, GateInv
<1>3. CASE UNCHANGED vars
  BY <1>1, <1>3, GateFrame DEF vars, api, cache, rec, ghost, GateInv
<1>4. QED
  BY <1>2, <1>3

\* An already bootstrapped cluster never looks new: whatever crashes, whichever
\* calls fail and whatever is left over under the cluster's name, no reconcile
\* passes the gate for a cluster whose marker was ever written.
THEOREM GateIsSound ==
    ASSUME {"StatusFirst", "CaughtUp"} \subseteq Assumed
    PROVE  Spec => []GateSound
<1>1. GateInv => GateSound
  BY DEF GateInv
<1>2. GateInv /\ [Next]_vars => GateInv'
  BY GateNext
<1>3. QED
  BY <1>1, <1>2, GateInit, PTL DEF Spec

=============================================================================
