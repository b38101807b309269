------------------------------- MODULE Settings --------------------------------
(***************************************************************************)
(* The settings of a running cluster: memory, grid cache, development mode *)
(* and metrics, from a spec that users edit to the StatefulSet's template, *)
(* the PodDisruptionBudget and the metrics Service.  A memory setting that *)
(* TigerBeetle cannot work with is refused before anything is changed.     *)
(*                                                                         *)
(* The operator reads the spec and the metrics Service from caches.        *)
(* Somebody else may use the metrics Service's name for a Service of their *)
(* own.  The operator takes over one that is headless as its own is; the   *)
(* API server does not let it take the address away from another.  An edit *)
(* changes one field; edits that the operator does not see one by one are  *)
(* one edit of several fields.  Left out: addresses (Services), the        *)
(* bootstrap (Bootstrap), what the replicas do with the template           *)
(* (Rollout), and the metrics' port and exporter.                          *)
(***************************************************************************)
EXTENDS Sizes

CONSTANTS
    Replicas,       \* spec.replicas, one of them
    Limits,         \* what users choose from: resources.limits.memory,
    Requests,       \* resources.requests.memory,
    Numbers,        \* the number in front of cacheGrid's unit
    MaxEdits,       \* bound: edits of the spec
    MaxDeletes,     \* bound: objects deleted by users
    MaxFaults,      \* bound: failed calls and crashes
    MaxTotal,       \* bound: all of these together
    Assumed         \* "NoHugeGrids"  no cacheGrid is within 3 GiB of 2^63
                    \* "DeletionSeen" others use the metrics Service's name
                    \*                only when the cache knows it is free

ASSUME ChoicesAssumption ==
    /\ {Replicas, Numbers} \subseteq SUBSET (Nat \ {0})
    /\ Limits \union Requests \subseteq 0 .. MaxInt
ASSUME BoundsAssumption == {MaxEdits, MaxDeletes, MaxFaults, MaxTotal} \subseteq Nat
ASSUME AssumedAssumption == Assumed \subseteq {"NoHugeGrids", "DeletionSeen"}

VARIABLES
    replicas,
    tbc, cTbc,      \* the TigerBeetleCluster, and the cached one
    template,       \* the StatefulSet's
    pdb,            \* the PodDisruptionBudget exists
    svc, cSvc,      \* whose the Service <name>-metrics is, and the cached one
    news,           \* changes that the caches have not seen: of "owned" Services
                    \* and "others", and of PodDisruptionBudgets
    queue, pc, me,  \* the operator: work queue, next step, the spec it works on
    edits, deletes, faults

live  == <<tbc, template, pdb, svc>>
cache == <<cTbc, cSvc, news, queue>>
bound == <<edits, deletes, faults>>
vars  == <<replicas, live, cache, pc, me, bound>>

-----------------------------------------------------------------------------

Choices == {grid \in [n : Numbers, unit : Units] : "NoHugeGrids" \in Assumed => ~IsHuge(grid)}

Specs == [limit : Limits \union {Absent}, request : Requests \union {Absent},
          cacheGrid : Choices \union {NoGrid}, development : BOOLEAN, metrics : BOOLEAN]
NewClusters == [spec : Specs, stalled : {FALSE}]

Memory(spec)     == ContainerMemory(spec.limit, spec.request)
GridOf_Bug(spec) == CacheGrid(spec.cacheGrid, MemoryLimit(spec.limit), spec.development)
GridOf(spec) == CacheGrid(spec.cacheGrid, MemoryLimit(Memory(spec)), spec.development)
TemplateOf(spec) == [memory |-> Memory(spec), grid |-> GridOf(spec),
                     development |-> spec.development, exporter |-> spec.metrics]
NoTemplate == [memory |-> Absent, grid |-> Refused, development |-> FALSE, exporter |-> FALSE]

\* Somebody else's Service is "headless", or has an address ("others").
Owners == {"nobody", "operator", "headless", "others"}

TypeOK ==
    /\ replicas \in Replicas
    /\ {tbc, cTbc, me} \subseteq [spec : Specs, stalled : BOOLEAN]
    /\ template \in [memory : Amounts, grid : Grids \union {NoGrid, Refused},
                     development : BOOLEAN, exporter : BOOLEAN]
    /\ template.grid = Refused => template = NoTemplate
    /\ pdb \in BOOLEAN /\ {svc, cSvc} \subseteq Owners
    /\ news \subseteq {"owned", "others", "PodDisruptionBudget"} /\ queue \in BOOLEAN
    /\ pc \in {"idle", "begin", "pdb", "metrics", "done"}
    /\ edits \in 0 .. MaxEdits /\ deletes \in 0 .. MaxDeletes /\ faults \in 0 .. MaxFaults

Init ==
    /\ replicas \in Replicas
    /\ tbc \in NewClusters /\ cTbc = tbc /\ me = tbc
    /\ template = NoTemplate /\ pdb = FALSE
    /\ svc = "nobody" /\ cSvc = "nobody" /\ news = {}
    /\ queue = TRUE /\ pc = "idle"
    /\ edits = 0 /\ deletes = 0 /\ faults = 0

Budget == edits + deletes + faults < MaxTotal

-----------------------------------------------------------------------------
(* The operator *)

BeginReconcile ==
    /\ pc = "idle" /\ queue
    /\ queue' = FALSE /\ me' = cTbc /\ pc' = "begin"
    /\ UNCHANGED <<replicas, live, cTbc, cSvc, news, bound>>

\* How Reconcile ends: the condition is patched where it differs from the copy
\* that the call began with.
Finish(stalled, again) ==
    /\ tbc' = [tbc EXCEPT !.stalled = IF stalled # me.stalled THEN stalled ELSE @]
    /\ queue' = (queue \/ again) /\ pc' = "idle"

Refuses_Bug == FALSE
Refuses == pc = "begin" /\ GridOf(me.spec) = Refused
RefuseSpec ==
    /\ Refuses
    /\ Finish(TRUE, TRUE)
    /\ UNCHANGED <<replicas, template, pdb, svc, cTbc, cSvc, news, me, bound>>

ApplyStatefulSet ==
    /\ pc = "begin" /\ ~Refuses
    /\ template' = TemplateOf(me.spec) /\ pc' = "pdb"
    /\ UNCHANGED <<replicas, tbc, pdb, svc, cache, me, bound>>

\* A single replica has no quorum to protect.
NeedsBudget == replicas >= 2
ApplyPodDisruptionBudget ==
    /\ pc = "pdb"
    /\ pdb' = (pdb \/ NeedsBudget) /\ pc' = "metrics"
    /\ news' = IF pdb' # pdb THEN news \union {"PodDisruptionBudget"} ELSE news
    /\ UNCHANGED <<replicas, tbc, template, svc, cTbc, cSvc, queue, me, bound>>

\* With metrics the Service is applied, whoever has it; without them it is
\* deleted by name if the cached one is the cluster's own.
Unwanted_Bug == cSvc # "nobody"
Unwanted == cSvc = "operator"
ClashesWithOthers == pc = "metrics" /\ me.spec.metrics /\ svc = "others"
ApplyMetricsService ==
    /\ pc = "metrics" /\ ~ClashesWithOthers /\ pc' = "done"
    /\ svc' = IF me.spec.metrics THEN "operator" ELSE IF Unwanted THEN "nobody" ELSE svc
    /\ news' = IF svc' # svc THEN news \union {"owned"} ELSE news
    /\ UNCHANGED <<replicas, tbc, template, pdb, cTbc, cSvc, queue, me, bound>>

\* The API server does not change an address to None: an error every time.
MetricsServiceRefused ==
    /\ ClashesWithOthers
    /\ Finish(FALSE, TRUE)
    /\ UNCHANGED <<replicas, template, pdb, svc, cTbc, cSvc, news, me, bound>>

PatchStatus ==
    /\ pc = "done"
    /\ Finish(FALSE, FALSE)
    /\ UNCHANGED <<replicas, template, pdb, svc, cTbc, cSvc, news, me, bound>>

Fault == Budget /\ faults < MaxFaults /\ faults' = faults + 1 /\ UNCHANGED <<edits, deletes>>

\* A call fails, which takes a Stalled condition back.
ApiError ==
    /\ pc \in {"begin", "pdb", "metrics"} /\ ~Refuses
    /\ Finish(FALSE, TRUE) /\ Fault
    /\ UNCHANGED <<replicas, template, pdb, svc, cTbc, cSvc, news, me>>

\* The patch of the status fails: an error, but while the reconcile stalls.
StatusPatchFails ==
    /\ pc = "done" \/ Refuses \/ ClashesWithOthers
    /\ queue' = TRUE /\ pc' = "idle" /\ Fault
    /\ UNCHANGED <<replicas, live, cTbc, cSvc, news, me>>

Crash ==
    /\ pc # "idle"
    /\ cTbc' = tbc /\ cSvc' = svc /\ news' = {} /\ queue' = TRUE /\ pc' = "idle" /\ Fault
    /\ UNCHANGED <<replicas, live, me>>

SyncCluster ==
    /\ cTbc # tbc
    /\ cTbc' = tbc /\ queue' = TRUE
    /\ UNCHANGED <<replicas, live, cSvc, news, pc, me, bound>>

\* Only objects that the cluster owns, or did, wake the operator.
Wakes_Bug == FALSE
Wakes == "owned" \in news
SyncService ==
    /\ news \intersect {"owned", "others"} # {}
    /\ cSvc' = svc /\ news' = news \ {"owned", "others"} /\ queue' = (queue \/ Wakes)
    /\ UNCHANGED <<replicas, live, cTbc, pc, me, bound>>

SyncPodDisruptionBudget ==
    /\ "PodDisruptionBudget" \in news
    /\ news' = news \ {"PodDisruptionBudget"} /\ queue' = TRUE
    /\ UNCHANGED <<replicas, live, cTbc, cSvc, pc, me, bound>>

Reconcile == BeginReconcile \/ RefuseSpec \/ ApplyStatefulSet \/ ApplyPodDisruptionBudget
             \/ ApplyMetricsService \/ MetricsServiceRefused \/ PatchStatus
Informers == SyncCluster \/ SyncService \/ SyncPodDisruptionBudget
Operator  == Reconcile \/ Informers \/ ApiError \/ StatusPatchFails \/ Crash

-----------------------------------------------------------------------------
(* Users *)

EditSpec ==
    /\ Budget /\ edits < MaxEdits /\ edits' = edits + 1
    /\ \E f \in {"limit", "request", "cacheGrid", "development", "metrics"}, s \in Specs :
         /\ s = [tbc.spec EXCEPT ![f] = s[f]] /\ s # tbc.spec
         /\ tbc' = [tbc EXCEPT !.spec = s]
    /\ UNCHANGED <<replicas, template, pdb, svc, cache, pc, me, deletes, faults>>

Delete == Budget /\ deletes < MaxDeletes /\ deletes' = deletes + 1 /\ UNCHANGED <<edits, faults>>

DeleteMetricsService ==
    /\ svc = "operator" /\ svc' = "nobody" /\ news' = news \union {"owned"} /\ Delete
    /\ UNCHANGED <<replicas, tbc, template, pdb, cTbc, cSvc, queue, pc, me>>

DeletePodDisruptionBudget ==
    /\ pdb /\ pdb' = FALSE /\ news' = news \union {"PodDisruptionBudget"} /\ Delete
    /\ UNCHANGED <<replicas, tbc, template, svc, cTbc, cSvc, queue, pc, me>>

\* Somebody needs a Service of this name.
CreateService ==
    /\ svc = "nobody"
    /\ "DeletionSeen" \in Assumed => cSvc # "operator"
    /\ svc' \in {"headless", "others"} /\ news' = news \union {"others"}
    /\ UNCHANGED <<replicas, tbc, template, pdb, cTbc, cSvc, queue, pc, me, bound>>

Next ==
    \/ Operator
    \/ EditSpec \/ DeleteMetricsService \/ DeletePodDisruptionBudget \/ CreateService

Spec == Init /\ [][Next]_vars

\* The work queue's worker and the informers keep going.
FairSpec == Spec /\ WF_vars(Reconcile) /\ WF_vars(Informers)

-----------------------------------------------------------------------------
(* Properties *)

\* No replica is started with a grid cache that its memory limit leaves no
\* room for, nor with TigerBeetle's default under a limit that may be too low
\* for it (CacheGrid, deploying.md).
GridFits ==
    (template # NoTemplate /\ ~template.development /\ template.memory > 0)
        => template.grid # NoGrid /\ Fits(template.grid, template.memory)

\* A Service that is not the operator's is not deleted, and only a headless one
\* is taken over, when metrics are enabled (applyMetricsService).
Kept == svc' = svc \/ (svc = "headless" /\ svc' = "operator" /\ me.spec.metrics)
OthersKept == [][(svc \in {"headless", "others"}) => Kept]_vars

\* A spec that TigerBeetle can work with, as deploying.md has it.
Possible(spec) ==
    LET limit == MemoryLimit(Memory(spec))
    IN  /\ spec.cacheGrid # NoGrid => Bytes(spec.cacheGrid) <= MaxInt
        /\ (~spec.development /\ limit > 0) =>
             Fits(IF spec.cacheGrid # NoGrid THEN spec.cacheGrid ELSE Grid(1, MiB), limit)

\* Stalled says InvalidSpec for as long as the spec is impossible, and no
\* longer, even when calls fail and edits follow each other (deploying.md).
RefusalIsReported == <>[](tbc.stalled <=> ~Possible(tbc.spec))

Follows(spec) ==
    /\ template.development = spec.development /\ template.exporter = spec.metrics
    /\ template.memory = spec.limit \/ (spec.limit = Absent /\ template.memory = spec.request)
    /\ IF spec.cacheGrid # NoGrid \/ spec.development \/ MemoryLimit(template.memory) = 0
       THEN template.grid = spec.cacheGrid ELSE IsLargest(template.grid, template.memory)

\* In the end a possible spec is what the replicas run with, with the largest
\* grid cache that fits unless one is asked for, a PodDisruptionBudget where
\* there is a quorum to protect, and a metrics Service just while metrics are
\* enabled, unless the address of somebody else's Service is in its way
\* (reconcile, deploying.md, operations.md).
SettingsFollowed ==
    <>[](Possible(tbc.spec) =>
           /\ Follows(tbc.spec)
           /\ pdb <=> replicas > 1
           /\ (svc = "operator") <=> (tbc.spec.metrics /\ svc # "others"))
==============================================================================
