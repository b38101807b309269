---------------------------- MODULE SettingsProofs -----------------------------
(***************************************************************************)
(* Proofs about Sizes and Settings, for int64s of any width, units of any  *)
(* size and every choice of the constants.                                 *)
(*                                                                         *)
(* First what Sizes computes: a grid cache that is accepted or derived     *)
(* fits in the memory limit, the derived one is the largest, and nothing   *)
(* that fits is refused.  Then the template: whatever is edited, deleted   *)
(* or fails, it is always what some spec is turned into, one that was not  *)
(* refused, so its grid cache fits or is one of the huge ones.  Last the   *)
(* metrics Service: what others have made of its name is not deleted, if   *)
(* they only use it once the operator knows that it is free.               *)
(***************************************************************************)
EXTENDS Settings, TLAPS

-----------------------------------------------------------------------------
(* What Sizes computes *)

\* A quotient and what it leaves.
LEMMA Quotient ==
    ASSUME NEW a \in Int, NEW b \in Nat \ {0}
    PROVE  /\ a \div b \in Int
           /\ (a \div b) * b <= a
           /\ a < (a \div b + 1) * b
OBVIOUS

\* A product is in order with its factor.
LEMMA Product ==
    ASSUME NEW a \in Int, NEW b \in Int, NEW c \in Nat \ {0}, a <= b
    PROVE  a * c <= b * c
OBVIOUS

\* A sum that an int64 can hold does not wrap around.
LEMMA NoWrap ==
    ASSUME NEW x \in 0 .. MaxInt
    PROVE  Int64(x) = x
BY SizesAssumption DEF Int64

\* A grid cache has a size.
LEMMA GridType ==
    ASSUME NEW grid \in Grids
    PROVE  /\ grid.n \in Nat \ {0} /\ grid.unit \in Nat \ {0}
           /\ Bytes(grid) \in Nat
<1>1. grid.n \in Nat \ {0} /\ grid.unit \in Units
  BY DEF Grids
<1>2. grid.unit \in Nat \ {0}
  BY <1>1, SizesAssumption
<1>3. grid.n * grid.unit \in Nat
  BY <1>1, <1>2
<1> QED
  BY <1>1, <1>2, <1>3 DEF Bytes

\* ParseSize refuses exactly the sizes that an int64 cannot hold, though it
\* never multiplies (ParseSize).
THEOREM ParseSizeExact ==
    ASSUME NEW grid \in Grids
    PROVE  TooLarge(grid) <=> Bytes(grid) > MaxInt
<1> DEFINE q == MaxInt \div grid.unit
<1>1. grid.n \in Nat \ {0} /\ grid.unit \in Nat \ {0} /\ MaxInt \in Int
  BY GridType, SizesAssumption
<1>2. q \in Int /\ q * grid.unit <= MaxInt /\ MaxInt < (q + 1) * grid.unit
  BY <1>1, Quotient
<1> HIDE DEF q
<1>3. CASE grid.n <= q
  BY <1>1, <1>2, <1>3, Product, SizesAssumption DEF TooLarge, Bytes, q
<1>4. CASE grid.n > q
  <2>1. (q + 1) * grid.unit <= grid.n * grid.unit
    BY <1>1, <1>2, <1>4, Product
  <2> QED
    BY <1>1, <1>2, <1>4, <2>1, SizesAssumption DEF TooLarge, Bytes, q
<1> QED
  BY <1>1, <1>2, <1>3, <1>4

\* A grid cache that a user asks for is accepted under a limit if and only if
\* it fits, unless the sum with the overhead wraps around (CacheGrid).
THEOREM ExplicitExact ==
    ASSUME NEW grid \in Grids, NEW limit \in 1 .. MaxInt, ~IsHuge(grid)
    PROVE  Explicit(grid, limit, FALSE) = IF Fits(grid, limit) THEN grid ELSE Refused
<1>1. grid.n \in Nat \ {0} /\ grid.unit \in Nat \ {0} /\ Bytes(grid) \in Nat
  BY GridType
<1>2. CASE TooLarge(grid)
  BY <1>1, <1>2, ParseSizeExact, SizesAssumption DEF Explicit, Fits
<1>3. CASE ~TooLarge(grid)
  <2>1. Bytes(grid) + Overhead \in 0 .. MaxInt
    BY <1>1, <1>3, ParseSizeExact, SizesAssumption DEF IsHuge
  <2>2. Int64(Bytes(grid) + Overhead) = Bytes(grid) + Overhead
    BY <2>1, NoWrap
  <2> QED
    BY <1>1, <1>3, <2>1, <2>2, SizesAssumption DEF Explicit, LeavesRoom, Fits
<1> QED
  BY <1>2, <1>3

\* Without a grid cache to go by, the operator passes the largest whole number
\* of MiB that fits, and refuses the limit only if not even one does.
THEOREM DerivedExact ==
    ASSUME NEW limit \in 1 .. MaxInt
    PROVE  IF Fits(Grid(1, MiB), limit) THEN IsLargest(Derived(limit, FALSE), limit)
                                        ELSE Derived(limit, FALSE) = Refused
<1> DEFINE q == DerivedMiB(limit)
<1>1. MiB \in Nat \ {0} /\ Overhead \in Nat /\ limit - Overhead \in Int
  BY SizesAssumption
<1>2. q \in Int /\ q * MiB <= limit - Overhead /\ limit - Overhead < (q + 1) * MiB
  BY <1>1, Quotient DEF DerivedMiB
<1> HIDE DEF q
<1>3. CASE q <= 0
  <2>1. (q + 1) * MiB <= 1 * MiB
    BY <1>1, <1>2, <1>3, Product
  <2>2. ~Fits(Grid(1, MiB), limit)
    BY <1>1, <1>2, <2>1 DEF Fits, Bytes, Grid
  <2> QED
    BY <1>1, <1>3, <2>2 DEF Derived, q
<1>4. CASE q > 0
  <2>1. 1 * MiB <= q * MiB
    BY <1>1, <1>2, <1>4, Product
  <2>2. Fits(Grid(1, MiB), limit)
    BY <1>1, <1>2, <2>1 DEF Fits, Bytes, Grid
  <2>3. Derived(limit, FALSE) = Grid(q, MiB)
    BY <1>1, <1>2, <1>4 DEF Derived, q
  <2>4. IsLargest(Grid(q, MiB), limit)
    BY <1>1, <1>2, <1>4 DEF IsLargest, Fits, Bytes, Grid
  <2> QED
    BY <2>2, <2>3, <2>4
<1>5. q <= 0 \/ q > 0
  BY <1>2
<1> QED
  BY <1>3, <1>4, <1>5

-----------------------------------------------------------------------------
(* Grid caches that fit *)

Clusters == [spec : Specs, stalled : BOOLEAN]

\* The spec that the operator works on has been written as a whole, and so has
\* the template's.
Written ==
    /\ tbc \in Clusters /\ cTbc \in Clusters /\ me \in Clusters
    /\ template = NoTemplate
       \/ \E s \in Specs : template = TemplateOf(s) /\ GridOf(s) # Refused

\* A grid cache that users write is none of the huge ones, if they write none.
LEMMA ChoicesAreGrids ==
    ASSUME NEW grid \in Choices
    PROVE  grid \in Grids /\ ("NoHugeGrids" \in Assumed => ~IsHuge(grid))
BY ChoicesAssumption DEF Choices, Grids

\* The memory limit is an amount.
LEMMA MemoryType ==
    ASSUME NEW s \in Specs
    PROVE  Memory(s) \in Amounts
BY ChoicesAssumption DEF Specs, Memory, ContainerMemory, Amounts, Absent

\* What the operator derives and does not refuse fits (CacheGrid, memoryLimit).
LEMMA DerivedFits ==
    ASSUME NEW s \in Specs, s.cacheGrid = NoGrid,
           GridOf(s) # Refused, ~s.development, Memory(s) > 0
    PROVE  GridOf(s) # NoGrid /\ Fits(GridOf(s), Memory(s))
<1> DEFINE limit == MemoryLimit(Memory(s))
<1>1. limit = Memory(s) /\ limit \in 1 .. MaxInt
  BY MemoryType, SizesAssumption DEF MemoryLimit, Amounts, Absent
<1>2. s.development = FALSE
  BY DEF Specs
<1> HIDE DEF limit
<1>3. GridOf(s) = Derived(limit, FALSE)
  BY <1>2 DEF GridOf, CacheGrid, limit
<1>4. IsLargest(GridOf(s), limit)
  BY <1>1, <1>3, DerivedExact
<1>5. GridOf(s).n > 0 /\ Fits(GridOf(s), limit)
  BY <1>4 DEF IsLargest
<1>6. NoGrid.n = 0
  BY DEF NoGrid, Grid
<1> QED
  BY <1>1, <1>5, <1>6

\* What is not refused fits (CacheGrid, memoryLimit).
LEMMA SpecFits ==
    ASSUME NEW s \in Specs, GridOf(s) # Refused, ~IsHuge(GridOf(s)),
           ~s.development, Memory(s) > 0
    PROVE  GridOf(s) # NoGrid /\ Fits(GridOf(s), Memory(s))
<1> DEFINE limit == MemoryLimit(Memory(s))
<1>1. limit = Memory(s) /\ limit \in 1 .. MaxInt
  BY MemoryType, SizesAssumption DEF MemoryLimit, Amounts, Absent
<1>2. s.development = FALSE
  BY DEF Specs
<1> HIDE DEF limit
<1>3. GridOf(s) = CacheGrid(s.cacheGrid, limit, FALSE)
  BY <1>2 DEF GridOf, limit
<1>4. CASE s.cacheGrid = NoGrid
  BY <1>4, DerivedFits
<1>5. CASE s.cacheGrid # NoGrid
  <2>1. s.cacheGrid \in Choices
    BY <1>5 DEF Specs
  <2>2. GridOf(s) = Explicit(s.cacheGrid, limit, FALSE)
    BY <1>3, <1>5 DEF CacheGrid
  <2>3. GridOf(s) = s.cacheGrid
    BY <2>2 DEF Explicit
  <2>4. Fits(s.cacheGrid, limit)
    BY <1>1, <2>1, <2>2, <2>3, ChoicesAreGrids, ExplicitExact
  <2> QED
    BY <1>1, <1>5, <2>3, <2>4
<1> QED
  BY <1>4, <1>5

\* The end of a call keeps the spec as it is.
LEMMA FinishWrites ==
    ASSUME tbc \in Clusters, NEW stalled \in BOOLEAN, NEW again, Finish(stalled, again)
    PROVE  tbc' \in Clusters
BY DEF Finish, Clusters

\* At first there is a spec and no template.
LEMMA WrittenInit == Init => Written
BY DEF Init, Written, NewClusters, Clusters

\* Written is inductive.
LEMMA WrittenNext == Written /\ [Next]_vars => Written'
<1> SUFFICES ASSUME Written, [Next]_vars
             PROVE  Written'
  OBVIOUS
<1> USE DEF Written
<1>1. CASE BeginReconcile
  BY <1>1 DEF BeginReconcile, live
<1>2. CASE RefuseSpec
  BY <1>2, FinishWrites DEF RefuseSpec
<1>3. CASE ApplyStatefulSet
  BY <1>3 DEF ApplyStatefulSet, Refuses, cache, Clusters
<1>4. CASE ApplyPodDisruptionBudget
  BY <1>4 DEF ApplyPodDisruptionBudget
<1>5. CASE ApplyMetricsService
  BY <1>5 DEF ApplyMetricsService
<1>6. CASE MetricsServiceRefused \/ PatchStatus
  BY <1>6, FinishWrites DEF MetricsServiceRefused, PatchStatus
<1>7. CASE ApiError
  BY <1>7, FinishWrites DEF ApiError
<1>8. CASE StatusPatchFails
  BY <1>8 DEF StatusPatchFails, live
<1>9. CASE Crash
  BY <1>9 DEF Crash, live
<1>10. CASE Informers
  BY <1>10 DEF Informers, SyncCluster, SyncService, SyncPodDisruptionBudget, live
<1>11. CASE EditSpec
  <2>1. PICK s \in Specs : tbc' = [tbc EXCEPT !.spec = s]
    BY <1>11 DEF EditSpec
  <2>2. tbc' \in Clusters
    BY <2>1 DEF Clusters
  <2> QED
    BY <1>11, <2>2 DEF EditSpec, cache
<1>12. CASE DeleteMetricsService \/ DeletePodDisruptionBudget \/ CreateService
  BY <1>12 DEF DeleteMetricsService, DeletePodDisruptionBudget, CreateService
<1>13. CASE UNCHANGED vars
  BY <1>13 DEF vars, live, cache
<1> QED
  BY <1>1, <1>2, <1>3, <1>4, <1>5, <1>6, <1>7, <1>8, <1>9, <1>10, <1>11, <1>12, <1>13
     DEF Next, Operator, Reconcile

\* The grid cache fits, or the sum of it and the overhead has wrapped around.
FitsOrWraps == GridFits \/ IsHuge(template.grid)

\* What some spec is turned into fits, if it was not refused.
LEMMA WrittenFits == Written => FitsOrWraps
<1> SUFFICES ASSUME Written, template # NoTemplate, ~template.development,
                    template.memory > 0, ~IsHuge(template.grid)
             PROVE  template.grid # NoGrid /\ Fits(template.grid, template.memory)
  BY DEF FitsOrWraps, GridFits
<1>1. PICK s \in Specs : template = TemplateOf(s) /\ GridOf(s) # Refused
  BY DEF Written
<1>2. /\ template.memory = Memory(s) /\ template.grid = GridOf(s)
      /\ template.development = s.development
  BY <1>1 DEF TemplateOf
<1> QED
  BY <1>1, <1>2, SpecFits

\* The only grid caches that replicas are ever started with though their memory
\* limit leaves no room for them are those within 3 GiB of the largest int64,
\* whatever users write (CacheGrid, memoryLimit, applyStatefulSet).
THEOREM OnlyHugeGridsMisfit == Spec => [](GridFits \/ IsHuge(template.grid))
<1>1. Written => FitsOrWraps
  BY WrittenFits
<1>2. Spec => []FitsOrWraps
  BY <1>1, WrittenInit, WrittenNext, PTL DEF Spec
<1> QED
  BY <1>2, PTL DEF FitsOrWraps

\* If users write none of those, no template has one, for what is derived is
\* never that large.
LEMMA WrittenIsNotHuge ==
    ASSUME "NoHugeGrids" \in Assumed
    PROVE  Written => GridFits
<1> SUFFICES ASSUME Written, template # NoTemplate, ~template.development, template.memory > 0
             PROVE  template.grid # NoGrid /\ Fits(template.grid, template.memory)
  BY DEF GridFits
<1>1. PICK s \in Specs : template = TemplateOf(s) /\ GridOf(s) # Refused
  BY DEF Written
<1>2. /\ template.memory = Memory(s) /\ template.grid = GridOf(s)
      /\ template.development = s.development
  BY <1>1 DEF TemplateOf
<1>3. CASE s.cacheGrid # NoGrid
  <2>1. GridOf(s) = s.cacheGrid
    BY <1>1, <1>3 DEF GridOf, CacheGrid, Explicit
  <2>2. ~IsHuge(GridOf(s))
    BY <1>3, <2>1, ChoicesAreGrids DEF Specs
  <2> QED
    BY <1>1, <1>2, <2>2, SpecFits
<1>4. CASE s.cacheGrid = NoGrid
  BY <1>1, <1>2, <1>4, DerivedFits
<1> QED
  BY <1>3, <1>4

\* Without such a cacheGrid every replica's grid cache fits (CacheGrid,
\* memoryLimit, applyStatefulSet).
THEOREM GridAlwaysFits ==
    ASSUME "NoHugeGrids" \in Assumed
    PROVE  Spec => []GridFits
<1>1. Written => GridFits
  BY WrittenIsNotHuge
<1> QED
  BY <1>1, WrittenInit, WrittenNext, PTL DEF Spec

\* The operator refuses exactly the specs that deploying.md says it refuses
\* (CacheGrid, ParseSize, memoryLimit).
THEOREM RefusesTheImpossible ==
    ASSUME "NoHugeGrids" \in Assumed, NEW s \in Specs
    PROVE  GridOf(s) = Refused <=> ~Possible(s)
<1> DEFINE limit == MemoryLimit(Memory(s))
           grid  == s.cacheGrid
           small == Fits(Grid(1, MiB), limit)
<1>1. limit \in 0 .. MaxInt /\ limit \in Int /\ MaxInt \in Int /\ Overhead \in Nat
  BY MemoryType, SizesAssumption DEF MemoryLimit, Amounts, Absent
<1>2. GridOf(s) = CacheGrid(grid, limit, s.development) /\ s.development \in BOOLEAN
  BY DEF GridOf, Specs
<1>3. Possible(s) <=> /\ grid # NoGrid => Bytes(grid) <= MaxInt
                      /\ (~s.development /\ limit > 0) =>
                           Fits(IF grid # NoGrid THEN grid ELSE Grid(1, MiB), limit)
  BY DEF Possible
<1>4. grid = NoGrid \/ (grid \in Grids /\ ~IsHuge(grid))
  BY ChoicesAreGrids DEF Specs
<1> HIDE DEF limit, grid
<1>5. NoGrid # Refused /\ \A g \in Grids : g # Refused
  <2>1. NoGrid.n = 0 /\ Refused.n = -1
    BY DEF NoGrid, Refused, Grid
  <2> QED
    BY <2>1, GridType
<1>6. CASE grid = NoGrid /\ (s.development \/ limit = 0)
  BY <1>1, <1>2, <1>3, <1>5, <1>6 DEF CacheGrid, Derived
<1>7. CASE grid = NoGrid /\ ~s.development /\ limit # 0
  <2>1. limit \in 1 .. MaxInt /\ limit > 0
    BY <1>1, <1>7
  <2>2. GridOf(s) = Derived(limit, FALSE)
    BY <1>2, <1>7 DEF CacheGrid
  <2>3. GridOf(s) = Refused => ~small
    <3> SUFFICES ASSUME GridOf(s) = Refused, small
                 PROVE  FALSE
      OBVIOUS
    <3>1. IsLargest(Refused, limit)
      BY <2>1, <2>2, DerivedExact
    <3> QED
      BY <3>1 DEF IsLargest, Refused, Grid
  <2>4. ~small => GridOf(s) = Refused
    BY <2>1, <2>2, DerivedExact
  <2> QED
    BY <1>3, <1>7, <2>1, <2>3, <2>4
<1>8. CASE grid # NoGrid /\ (s.development \/ limit = 0)
  <2>1. GridOf(s) = IF ~TooLarge(grid) THEN grid ELSE Refused
    BY <1>2, <1>8 DEF CacheGrid, Explicit
  <2>2. TooLarge(grid) <=> ~(Bytes(grid) <= MaxInt)
    BY <1>1, <1>4, <1>8, ParseSizeExact, GridType
  <2>3. ~(~s.development /\ limit > 0)
    BY <1>1, <1>8
  <2> QED
    BY <1>3, <1>4, <1>5, <1>8, <2>1, <2>2, <2>3
<1>9. CASE grid # NoGrid /\ ~s.development /\ limit # 0
  <2>1. limit \in 1 .. MaxInt /\ limit > 0
    BY <1>1, <1>9
  <2>2. GridOf(s) = Explicit(grid, limit, FALSE)
    BY <1>2, <1>9 DEF CacheGrid
  <2>3. GridOf(s) = IF Fits(grid, limit) THEN grid ELSE Refused
    BY <1>4, <1>9, <2>1, <2>2, ExplicitExact
  <2>4. Fits(grid, limit) => Bytes(grid) <= MaxInt
    BY <1>1, <1>4, <1>9, GridType DEF Fits
  <2> QED
    BY <1>3, <1>4, <1>5, <1>9, <2>1, <2>3, <2>4
<1> QED
  BY <1>6, <1>7, <1>8, <1>9

-----------------------------------------------------------------------------
(* Types, and the metrics Service *)

\* What a spec is turned into is a template.
LEMMA TemplateType ==
    ASSUME NEW s \in Specs
    PROVE  TemplateOf(s) \in [memory : Amounts, grid : Grids \union {NoGrid, Refused},
                              development : BOOLEAN, exporter : BOOLEAN]
<1>1. s.cacheGrid \in Grids \union {NoGrid} /\ s.development \in BOOLEAN /\ s.metrics \in BOOLEAN
  BY ChoicesAreGrids DEF Specs
<1>2. MemoryLimit(Memory(s)) \in Int
  BY MemoryType, SizesAssumption DEF MemoryLimit, Amounts, Absent
<1>3. DerivedMiB(MemoryLimit(Memory(s))) \in Int
  BY <1>2, Quotient, SizesAssumption DEF DerivedMiB
<1>4. GridOf(s) \in Grids \union {NoGrid, Refused}
  BY <1>1, <1>3, SizesAssumption DEF GridOf, CacheGrid, Explicit, Derived, Grid, Grids
<1> QED
  BY <1>1, <1>4, MemoryType DEF TemplateOf

TypeInv == Written /\ TypeOK

\* At first nothing has been applied.
LEMMA TypeInit == Init => TypeInv
<1> SUFFICES ASSUME Init PROVE TypeOK
  BY WrittenInit DEF TypeInv
<1>1. {tbc, cTbc, me} \subseteq [spec : Specs, stalled : BOOLEAN]
  BY WrittenInit DEF Written, Clusters
<1>2. template \in [memory : Amounts, grid : Grids \union {NoGrid, Refused},
                    development : BOOLEAN, exporter : BOOLEAN]
  BY DEF Init, NoTemplate, Amounts, Absent
<1>3. pdb \in BOOLEAN /\ queue \in BOOLEAN
  BY Zenon DEF Init
<1> QED
  BY <1>1, <1>2, <1>3, BoundsAssumption DEF Init, TypeOK, Owners

\* Every step leaves the types: a template is one that was not refused.
LEMMA TypeNext == TypeInv /\ [Next]_vars => TypeInv'
<1> SUFFICES ASSUME TypeInv, [Next]_vars PROVE TypeInv'
  OBVIOUS
<1>1. Written'
  BY WrittenNext DEF TypeInv
<1>2. {tbc', cTbc', me'} \subseteq [spec : Specs, stalled : BOOLEAN]
  BY <1>1 DEF Written, Clusters
<1>3. /\ template' \in [memory : Amounts, grid : Grids \union {NoGrid, Refused},
                        development : BOOLEAN, exporter : BOOLEAN]
      /\ template'.grid = Refused => template' = NoTemplate
  <2>1. CASE template' = NoTemplate
    BY <2>1 DEF NoTemplate, Amounts, Absent
  <2>2. CASE template' # NoTemplate
    <3>1. PICK s \in Specs : template' = TemplateOf(s) /\ GridOf(s) # Refused
      BY <1>1, <2>2 DEF Written
    <3>2. template'.grid = GridOf(s)
      BY <3>1 DEF TemplateOf
    <3> QED
      BY <3>1, <3>2, TemplateType
  <2> QED
    BY <2>1, <2>2
<1>4. Next \/ UNCHANGED vars
  OBVIOUS
<1> USE DEF TypeInv, TypeOK, Owners, vars, live, cache, bound, Next, Operator, Reconcile,
        BeginReconcile, RefuseSpec, ApplyStatefulSet, ApplyPodDisruptionBudget,
        ApplyMetricsService, MetricsServiceRefused, PatchStatus, Finish, ApiError, StatusPatchFails, Fault, Crash,
        Informers, SyncCluster, SyncService, SyncPodDisruptionBudget, EditSpec, Delete,
        DeleteMetricsService, DeletePodDisruptionBudget, CreateService
<1>5. replicas' \in Replicas /\ {svc', cSvc'} \subseteq Owners
  BY <1>4
<1>6. news' \subseteq {"owned", "others", "PodDisruptionBudget"}
  BY <1>4
<1>7. pdb' \in BOOLEAN /\ queue' \in BOOLEAN
  BY <1>4
<1>8. pc' \in {"idle", "begin", "pdb", "metrics", "done"}
  BY <1>4
<1>9. edits' \in 0 .. MaxEdits
  <2>1. edits' = edits \/ (edits < MaxEdits /\ edits' = edits + 1)
    BY <1>4
  <2>2. edits \in 0 .. MaxEdits /\ MaxEdits \in Nat
    BY BoundsAssumption
  <2> HIDE DEF TypeInv, Next
  <2> QED
    BY <2>1, <2>2
<1>10. deletes' \in 0 .. MaxDeletes
  <2>1. deletes' = deletes \/ (deletes < MaxDeletes /\ deletes' = deletes + 1)
    BY <1>4
  <2>2. deletes \in 0 .. MaxDeletes /\ MaxDeletes \in Nat
    BY BoundsAssumption
  <2> HIDE DEF TypeInv, Next
  <2> QED
    BY <2>1, <2>2
<1>11. faults' \in 0 .. MaxFaults
  <2>1. faults' = faults \/ (faults < MaxFaults /\ faults' = faults + 1)
    BY <1>4
  <2>2. faults \in 0 .. MaxFaults /\ MaxFaults \in Nat
    BY BoundsAssumption
  <2> HIDE DEF TypeInv, Next
  <2> QED
    BY <2>1, <2>2
<1> QED
  BY <1>1, <1>2, <1>3, <1>5, <1>6, <1>7, <1>8, <1>9, <1>10, <1>11

\* The types of the specs, of the template and of the objects beside it: a
\* template that exists is never that of a refused spec.
THEOREM SettingsTyped == Spec => []TypeOK
<1>1. TypeInv => TypeOK
  BY DEF TypeInv
<1> QED
  BY <1>1, TypeInit, TypeNext, PTL DEF Spec

\* The cache never takes what others have for the operator's own.
OthersKnown == svc \in {"headless", "others"} => cSvc # "operator"

\* OthersKnown is inductive if others wait until the operator has seen that the
\* name is free.
LEMMA OthersNext ==
    ASSUME "DeletionSeen" \in Assumed
    PROVE  OthersKnown /\ [Next]_vars => OthersKnown'
<1> SUFFICES ASSUME OthersKnown, [Next]_vars PROVE OthersKnown'
  OBVIOUS
<1>1. CASE CreateService
  BY <1>1 DEF CreateService, OthersKnown
<1>2. CASE ApplyMetricsService \/ DeleteMetricsService
  BY <1>2 DEF ApplyMetricsService, DeleteMetricsService, OthersKnown
<1>3. CASE Crash \/ SyncService
  BY <1>3 DEF Crash, SyncService, OthersKnown, live
<1>4. CASE ~(CreateService \/ ApplyMetricsService \/ DeleteMetricsService \/ Crash \/ SyncService)
  <2>1. UNCHANGED <<svc, cSvc>>
    BY <1>4 DEF Next, Operator, Reconcile, BeginReconcile, RefuseSpec, ApplyStatefulSet,
       ApplyPodDisruptionBudget, MetricsServiceRefused, PatchStatus, ApiError, StatusPatchFails, Informers,
       SyncCluster, SyncPodDisruptionBudget, EditSpec, DeletePodDisruptionBudget, vars, live,
       cache
  <2> QED
    BY <2>1 DEF OthersKnown
<1> QED
  BY <1>1, <1>2, <1>3, <1>4

\* A Service that is not the operator's is not deleted, and only a headless one
\* is taken over, when metrics are enabled (applyMetricsService).
THEOREM OthersAreKept ==
    ASSUME "DeletionSeen" \in Assumed
    PROVE  Spec => OthersKept
<1>1. Init => OthersKnown
  BY DEF Init, OthersKnown
<1>2. OthersKnown /\ [Next]_vars =>
        [(svc \in {"headless", "others"}) => Kept]_vars
  <2> SUFFICES ASSUME OthersKnown, [Next]_vars, svc \in {"headless", "others"}
               PROVE  Kept
    OBVIOUS
  <2> USE DEF Kept
  <2>1. CASE ApplyMetricsService
    BY <2>1 DEF ApplyMetricsService, ClashesWithOthers, Unwanted, OthersKnown
  <2>2. CASE ~ApplyMetricsService
    BY <2>2 DEF Next, Operator, Reconcile, BeginReconcile, RefuseSpec, ApplyStatefulSet,
       ApplyPodDisruptionBudget, MetricsServiceRefused, PatchStatus, ApiError, StatusPatchFails, Crash, Informers,
       SyncCluster, SyncService, SyncPodDisruptionBudget, EditSpec, DeleteMetricsService,
       DeletePodDisruptionBudget, CreateService, vars, live
  <2> QED
    BY <2>1, <2>2
<1> QED
  BY <1>1, <1>2, OthersNext, PTL DEF Spec, OthersKept
==============================================================================
