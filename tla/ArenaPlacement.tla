----------------------------- MODULE ArenaPlacement ----------------------------
(***************************************************************************)
(* The planners of the resident arenas. Both give every logical buffer an  *)
(* offset before any device memory exists: backend/arena_plan.zig (Metal,  *)
(* build and projectThroughTick) and backends/cuda/runtime/arena.zig       *)
(* (CUDA, Plan.init). Buffers whose lifetimes do not meet may share        *)
(* memory; nothing at run time would notice two that share wrongly.        *)
(*                                                                         *)
(* Both place one buffer at a time in a fixed order and differ in the      *)
(* search: Metal sorts the conflicting ranges and sweeps them once, CUDA   *)
(* rescans all placements until none is in the way. A step is one range    *)
(* of the sweep, one rescan. The ranges of a buffer are a set: a list that *)
(* is out of order is refused like one whose ranges overlap.               *)
(***************************************************************************)
EXTENDS Integers, FiniteSets

CONSTANTS
  Inputs,     \* the lists of buffers a plan is asked for, by planner
  Budgets,    \* budget_bytes
  MaxTick,    \* max_ticks - 1, and the last proof stage
  Limit,      \* the largest address
  Page        \* 16 KiB, what the total is rounded to

NoCost == -1  \* a spill or recompute cost that is null
None == 0     \* no buffer: positions start at 1

Planners == {"metal", "cuda"}
LiveRange == [first : Nat, last : Nat]
LogicalBuffer ==
  [id : Nat, size : Nat, alignment : Nat, priority : Nat,
   ranges : SUBSET LiveRange, spill : Nat \union {NoCost},
   recompute : Nat \union {NoCost}]

ASSUME PlacementAssumption ==
  /\ MaxTick \in Nat /\ Limit \in Nat /\ Page \in Nat \ {0}
  /\ Budgets \subseteq Nat
  /\ \A p \in Planners : \A input \in Inputs[p] :
       /\ DOMAIN input \subseteq Nat \ {None}
       /\ IsFiniteSet(DOMAIN input)
       /\ \A i \in DOMAIN input : input[i] \in LogicalBuffer

VARIABLES
  planner, checked, \* which planner; whether the build traps overflow
  budget,
  logical,          \* the buffers, by position in the list
  offset,           \* offset_bytes of the placed ones
  current,          \* the buffer being placed
  candidate,        \* the offset tried for it
  ahead,            \* Metal: conflicting placements not yet swept
  total,            \* total_bytes
  result            \* the step of the call, or its result

config == <<planner, checked, budget>>
search == <<current, candidate, ahead>>
planVars == <<config, logical, offset, search, total, result>>

Ended == result \notin {"admitting", "placing"}

--------------------------------------------------------------------------------
(* Lifetimes.                                                              *)

First(b) == CHOOSE t \in 0 .. MaxTick :
              /\ \E r \in b.ranges : r.first = t
              /\ \A r \in b.ranges : t <= r.first
Last(b) == CHOOSE t \in 0 .. MaxTick :
             /\ \E r \in b.ranges : r.last = t
             /\ \A r \in b.ranges : r.last <= t

Materialization(b) ==
  IF Cardinality(b.ranges) <= 1 \/ (b.recompute = NoCost /\ b.spill = NoCost)
    THEN "resident"
    ELSE IF b.recompute # NoCost /\ (b.spill = NoCost \/ b.recompute <= b.spill)
           THEN "recompute"
           ELSE "spill"

(* A resident buffer keeps its memory between its uses.                    *)
Segments(b) ==
  IF Materialization(b) = "resident"
    THEN {[first |-> First(b), last |-> Last(b)]}
    ELSE b.ranges

(* Fault: memory between two uses is given away for resident buffers too.  *)
BugOccupied(b) ==
  {t \in 0 .. MaxTick : \E r \in b.ranges : t \in r.first .. r.last}

Occupied(b) == {t \in 0 .. MaxTick : \E r \in Segments(b) : t \in r.first .. r.last}

Together(i, j) == Occupied(logical[i]) \intersect Occupied(logical[j]) # {}

--------------------------------------------------------------------------------
(* Admission: the checks on the list, before anything is placed.           *)

PowerOfTwo(a) == a # 0 /\ \E k \in 0 .. a : a = 2 ^ k

WellFormed(b) ==
  /\ b.size # 0
  /\ b.ranges # {}
  /\ PowerOfTwo(b.alignment)
  /\ \A r \in b.ranges : r.first <= r.last /\ r.last <= MaxTick
  /\ \A r, s \in b.ranges : r # s => r.last < s.first \/ s.last < r.first

Admissible ==
  /\ DOMAIN logical # {}
  /\ \A i \in DOMAIN logical : WellFormed(logical[i])
  /\ \A i, j \in DOMAIN logical : logical[i].id = logical[j].id => i = j

Admit ==
  /\ result = "admitting"
  /\ result' = IF Admissible THEN "placing" ELSE "invalid"
  /\ UNCHANGED <<config, logical, offset, search, total>>

--------------------------------------------------------------------------------
(* The order: priority, then size, then lifetime, then id.                 *)

Earlier(i, j) ==
  LET a == logical[i]
      b == logical[j]
      lifeA == Cardinality(Occupied(a))
      lifeB == Cardinality(Occupied(b))
  IN  \/ a.priority > b.priority
      \/ a.priority = b.priority /\ a.size > b.size
      \/ a.priority = b.priority /\ a.size = b.size /\ lifeA > lifeB
      \/ /\ a.priority = b.priority /\ a.size = b.size /\ lifeA = lifeB
         /\ a.id < b.id

Unplaced == DOMAIN logical \ DOMAIN offset
Conflicts(i) == {j \in DOMAIN offset : Together(i, j)}

Choose(i) ==
  /\ result = "placing"
  /\ current = None
  /\ i \in Unplaced
  /\ \A j \in Unplaced \ {i} : Earlier(i, j)
  /\ current' = i
  /\ candidate' = 0
  /\ ahead' = IF planner = "metal" THEN Conflicts(i) ELSE {}
  /\ UNCHANGED <<config, logical, offset, total, result>>

--------------------------------------------------------------------------------
(* Offsets.                                                                *)

(* Fault: an offset that is aligned is moved on.                           *)
BugAlignForward(v, a) == v + (a - (v % a))

(* The next multiple of a; both planners compute it in 64 bits, where      *)
(* adding a - 1 may overflow (AlignOverflows).                             *)
AlignForward(v, a) == IF v % a = 0 THEN v ELSE v + (a - (v % a))
AlignOverflows(v, a) == v + (a - 1) > Limit

Start(j) == offset[j]
End(j) == offset[j] + logical[j].size
Size == logical[current].size
Alignment == logical[current].alignment

MaxOf(a, b) == IF a >= b THEN a ELSE b

Searching(p) == result = "placing" /\ planner = p /\ current # None

Place(o) ==
  /\ offset' = [j \in DOMAIN offset \union {current} |->
                  IF j = current THEN o ELSE offset[j]]
  /\ total' = MaxOf(total, o + Size)
  /\ current' = None
  /\ candidate' = 0
  /\ ahead' = {}
  /\ UNCHANGED <<config, logical, result>>

Fail(why) ==
  /\ result' = why
  /\ current' = None
  /\ candidate' = 0
  /\ ahead' = {}
  /\ UNCHANGED <<config, logical, offset, total>>

--------------------------------------------------------------------------------
(* Metal: one sweep over the conflicts, by start and then by end.          *)

Foremost(j) ==
  /\ j \in ahead
  /\ \A k \in ahead : \/ Start(j) < Start(k)
                      \/ Start(j) = Start(k) /\ End(j) <= End(k)

(* Fault: any gap before j will do.                                        *)
BugEndsBefore(j) == candidate <= Start(j)

(* The gap before j is large enough.                                       *)
EndsBefore(j) == candidate + Size <= Start(j)

SweepPast(j) ==
  /\ Searching("metal")
  /\ Foremost(j)
  /\ candidate + Size <= Limit
  /\ ~EndsBefore(j)
  /\ candidate < End(j) => ~AlignOverflows(End(j), Alignment)
  /\ candidate' = IF candidate < End(j)
                    THEN AlignForward(End(j), Alignment)
                    ELSE candidate
  /\ ahead' = ahead \ {j}
  /\ UNCHANGED <<config, logical, offset, current, total, result>>

SweepPlace ==
  /\ Searching("metal")
  /\ candidate + Size <= Limit
  /\ ahead = {} \/ \E j \in ahead : Foremost(j) /\ EndsBefore(j)
  /\ Place(candidate)

SweepOverflow ==
  /\ Searching("metal")
  /\ \/ candidate + Size > Limit
     \/ \E j \in ahead : /\ Foremost(j) /\ ~EndsBefore(j)
                         /\ candidate < End(j)
                         /\ AlignOverflows(End(j), Alignment)
  /\ Fail("overflow")

--------------------------------------------------------------------------------
(* CUDA: align, look at every placement, go past the highest in the way.   *)
(* std.mem.alignForward adds without a check: a build with runtime safety  *)
(* traps, another wraps, and the wrapped sum rounds to 0.                  *)

CudaAligned == IF AlignOverflows(candidate, Alignment)
                 THEN 0 ELSE AlignForward(candidate, Alignment)

Blockers == {j \in Conflicts(current) : /\ CudaAligned < End(j)
                                        /\ Start(j) < CudaAligned + Size}

Rescannable ==
  /\ Searching("cuda")
  /\ ~(checked /\ AlignOverflows(candidate, Alignment))

(* Fault: the scan goes on from the start of what is in the way.           *)
BugRescanPast(j) ==
  /\ Rescannable
  /\ CudaAligned + Size <= Limit
  /\ j \in Blockers
  /\ \A k \in Blockers : End(k) <= End(j)
  /\ candidate' = Start(j)
  /\ UNCHANGED <<config, logical, offset, current, ahead, total, result>>

RescanPast(j) ==
  /\ Rescannable
  /\ CudaAligned + Size <= Limit
  /\ j \in Blockers
  /\ \A k \in Blockers : End(k) <= End(j)
  /\ candidate' = End(j)
  /\ UNCHANGED <<config, logical, offset, current, ahead, total, result>>

RescanPlace ==
  /\ Rescannable
  /\ CudaAligned + Size <= Limit
  /\ Blockers = {}
  /\ Place(CudaAligned)

RescanOverflow ==
  /\ Rescannable
  /\ CudaAligned + Size > Limit
  /\ Fail("overflow")

RescanTrap ==
  /\ Searching("cuda")
  /\ checked
  /\ AlignOverflows(candidate, Alignment)
  /\ Fail("trapped")

--------------------------------------------------------------------------------
(* The end of a plan.                                                      *)

Placed == result = "placing" /\ current = None /\ Unplaced = {}

(* Plan.validate: at each tick the live bindings, sorted by offset, do not *)
(* overlap their neighbours.                                               *)
LiveAt(t) == {j \in DOMAIN offset : t \in Occupied(logical[j])}
Below(i, j) == \/ Start(i) < Start(j)
               \/ Start(i) = Start(j) /\ logical[i].size <= logical[j].size
Neighbours(t, i, j) ==
  /\ i # j
  /\ Below(i, j)
  /\ \A k \in LiveAt(t) \ {i, j} : Below(k, i) \/ Below(j, k)
Overlap(i, j) == Start(i) < End(j) /\ Start(j) < End(i)

Valid == \A t \in 0 .. MaxTick : \A i, j \in LiveAt(t) :
           Neighbours(t, i, j) => ~Overlap(i, j)

FinishMetal ==
  /\ Placed /\ planner = "metal"
  /\ LET rounded == AlignForward(total, Page)
     IN  /\ result' = IF AlignOverflows(total, Page) THEN "overflow"
                      ELSE IF rounded > budget THEN "budget"
                      ELSE IF Valid THEN "planned" ELSE "alias"
         /\ total' = IF result' = "overflow" THEN total ELSE rounded
  /\ UNCHANGED <<config, logical, offset, search>>

FinishCuda ==
  /\ Placed /\ planner = "cuda"
  /\ result' = "planned"
  /\ UNCHANGED <<config, logical, offset, search, total>>

--------------------------------------------------------------------------------
(* projectThroughTick: the buffers in use up to tick t are planned again,  *)
(* their occupied ticks up to t as ranges; the others get no memory.       *)

Runs(ticks) == {r \in [first : ticks, last : ticks] :
                  /\ r.first .. r.last \subseteq ticks
                  /\ r.first - 1 \notin ticks
                  /\ r.last + 1 \notin ticks
                  /\ r.first <= r.last}

Clipped(b, t) == [b EXCEPT !.ranges = Runs(Occupied(b) \intersect 0 .. t)]

Project(t) ==
  LET inUse == {i \in DOMAIN logical :
                  Occupied(logical[i]) \intersect 0 .. t # {}}
  IN  /\ planner = "metal" /\ result = "planned"
      /\ \E i \in DOMAIN logical : Last(logical[i]) > t
      /\ logical' = [i \in inUse |-> Clipped(logical[i], t)]
      /\ offset' = <<>>
      /\ total' = 0
      /\ result' = "admitting"
      /\ UNCHANGED <<config, search>>

--------------------------------------------------------------------------------
PlanInit ==
  /\ planner \in Planners
  /\ checked \in BOOLEAN
  /\ budget \in Budgets
  /\ logical \in Inputs[planner]
  /\ offset = <<>>
  /\ current = None /\ candidate = 0 /\ ahead = {}
  /\ total = 0
  /\ result = "admitting"

PlanStep ==
  \/ Admit
  \/ \E i \in Unplaced : Choose(i)
  \/ \E j \in ahead : SweepPast(j)
  \/ SweepPlace \/ SweepOverflow
  \/ \E j \in DOMAIN offset : RescanPast(j)
  \/ RescanPlace \/ RescanOverflow \/ RescanTrap
  \/ FinishMetal \/ FinishCuda

PlanNext == PlanStep \/ \E t \in 0 .. MaxTick - 1 : Project(t)

PlanSpec == PlanInit /\ [][PlanNext]_planVars

--------------------------------------------------------------------------------
(* Properties.                                                             *)

PlanTypeOK ==
  /\ planner \in Planners /\ checked \in BOOLEAN /\ budget \in Budgets
  /\ DOMAIN logical \subseteq Nat \ {None}
  /\ \A i \in DOMAIN logical : logical[i] \in LogicalBuffer
  /\ DOMAIN offset \subseteq DOMAIN logical
  /\ \A i \in DOMAIN offset : offset[i] \in Nat
  /\ current \in DOMAIN logical \union {None}
  /\ candidate \in Nat
  /\ ahead \subseteq DOMAIN offset
  /\ total \in Nat
  /\ result \in {"admitting", "placing", "planned", "invalid", "overflow",
                 "budget", "alias", "trapped"}

(* Two buffers needed at a common tick have no address in common, and no   *)
(* buffer reaches past the total the arena is allocated with; so the check *)
(* that ends a plan never answers AliasOverlap (arena_plan.zig build and   *)
(* validate, arena.zig findOffset).                                        *)
NoAliasing ==
  /\ \A i, j \in DOMAIN offset : i # j /\ Together(i, j) => ~Overlap(i, j)
  /\ \A i \in DOMAIN offset : End(i) <= total
  /\ result # "alias"

(* Each buffer gets the lowest aligned offset that is free of those placed *)
(* before it: both searches miss no gap and stop at the first              *)
(* (arena_plan.zig 183-206, arena.zig 221-248).                            *)
Fit == INSTANCE LowestFit
         WITH needs <- [i \in DOMAIN logical |->
                          [size |-> logical[i].size,
                           alignment |-> logical[i].alignment,
                           ticks |-> Occupied(logical[i])]]
ImplementsLowestFit == Fit!Spec
================================================================================
