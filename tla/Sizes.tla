--------------------------------- MODULE Sizes ---------------------------------
(***************************************************************************)
(* The arithmetic behind a replica's memory: the container's limit, the    *)
(* size of the grid cache that a user asks for, and the one that the       *)
(* operator derives.  Sizes are numbers of bytes, kept in an int64 whose   *)
(* width is a parameter.                                                   *)
(***************************************************************************)
EXTENDS Integers

CONSTANTS
    MaxInt,         \* the largest int64
    Overhead,       \* ProcessOverheadBytes, 3 GiB
    MiB,
    Units           \* KiB, MiB and GiB

ASSUME SizesAssumption ==
    /\ MaxInt \in Nat /\ Overhead \in 0 .. MaxInt
    /\ Units \subseteq Nat \ {0} /\ MiB \in Units /\ MiB <= MaxInt

-----------------------------------------------------------------------------
(* Memory *)

Absent  == -1
Amounts == 0 .. MaxInt \union {Absent}

\* The container's limit and request are one number: the limit if there is
\* one, else the request.
ContainerMemory(limit, request) == IF limit # Absent THEN limit ELSE request

\* Zero is no limit at all.
MemoryLimit(memory) == IF memory = Absent THEN 0 ELSE memory

-----------------------------------------------------------------------------
(* Grid caches *)

Grid(n, unit) == [n |-> n, unit |-> unit]
NoGrid  == Grid(0, MiB)             \* TigerBeetle's default
Refused == Grid(-1, MiB)            \* an error instead of a grid cache
Grids   == [n : Nat \ {0}, unit : Units]

Bytes(grid) == grid.n * grid.unit

\* A sum that does not fit wraps around.
Int64(x) == ((x + MaxInt + 1) % (2 * (MaxInt + 1))) - (MaxInt + 1)

\* ParseSize refuses what an int64 cannot hold, without computing it.
TooLarge(grid) == grid.n > MaxInt \div grid.unit

LeavesRoom_Bug(grid, limit) == limit > Int64(Bytes(grid) + Overhead)
LeavesRoom(grid, limit) == limit >= Int64(Bytes(grid) + Overhead)

Explicit(grid, limit, development) ==
    IF ~TooLarge(grid) /\ (development \/ limit = 0 \/ LeavesRoom(grid, limit))
    THEN grid ELSE Refused

\* What is left of the limit, in whole MiB.
DerivedMiB(limit) == (limit - Overhead) \div MiB

Derived(limit, development) ==
    IF development \/ limit = 0 THEN NoGrid
    ELSE IF DerivedMiB(limit) <= 0 THEN Refused
    ELSE Grid(DerivedMiB(limit), MiB)

CacheGrid(grid, limit, development) ==
    IF grid # NoGrid THEN Explicit(grid, limit, development) ELSE Derived(limit, development)

-----------------------------------------------------------------------------
(* What it is meant to compute *)

\* TigerBeetle gets by with this limit.
Fits(grid, limit) == Bytes(grid) + Overhead <= limit

\* The grid cache "should be as large as possible" (deploying.md).
IsLargest(grid, limit) ==
    /\ grid.n > 0 /\ grid.unit = MiB
    /\ Fits(grid, limit) /\ ~Fits(Grid(grid.n + 1, MiB), limit)

\* The sum wraps around: the grid cache is within 3 GiB of the largest int64.
IsHuge(grid) == Bytes(grid) <= MaxInt /\ Bytes(grid) + Overhead > MaxInt
==============================================================================
