------------------------------- MODULE ArenaEpochs ------------------------------
(***************************************************************************)
(* Running a schedule in the arena that ArenaPlacement planned: the        *)
(* EpochRunner of backend/arena_plan.zig with the RecoveryEngine of        *)
(* backend/recovery.zig as its hooks. Buffers that share memory take       *)
(* turns: at the end of a live range a value is spilled to a file or       *)
(* dropped, at the start of the next it is restored or recomputed.         *)
(*                                                                         *)
(* A value is its version: how often kernels wrote it in this run. Memory  *)
(* holds a version of each buffer or Junk: writing one buffer turns every  *)
(* buffer that overlaps it to junk. Recipes are those of                   *)
(* backends/metal/recipes/aot_witness.zig: one dispatch computes a group   *)
(* of outputs, here the recomputed buffers with the same ranges. Checksums *)
(* are taken to be without collisions.                                     *)
(***************************************************************************)
EXTENDS ArenaPlacement

CONSTANTS
  MaxRuns,      \* runs of the schedule on one arena
  MaxVersion    \* writes to a buffer in a run

ASSUME EpochAssumption == MaxRuns \in Nat /\ MaxVersion \in Nat \ {0}

Junk == -1      \* bytes that are no version of this run
Torn == -2      \* file contents that their checksum does not match

VARIABLES
  stage,        \* where the loop over the ticks is, or how the run ended
  tick,
  todo,         \* buffers whose action at this tick is still to come
  state,        \* EpochRunner.states
  version,      \* the version of each value; 0 before it is produced
  held,         \* what the memory of each buffer holds
  saved,        \* what its entry in the spill file holds
  materialized, \* SpillEntry.materialized
  lastTick,     \* last_tick of its recipe
  runs          \* runs begun

runner == <<stage, tick, todo, state>>
file   == <<saved, materialized>>
epochVars == <<runner, version, held, file, lastTick, runs>>
vars == <<planVars, epochVars>>

Bound == DOMAIN offset
Id(i) == logical[i].id
Kind(i) == Materialization(logical[i])
FirstUse(i) == First(logical[i])

(* The actions of the plan at tick t: buffers whose range starts there,    *)
(* whose range ends there, and those of the latter that are spilled.       *)
Enters(t) == {i \in Bound : \E r \in Segments(logical[i]) : r.first = t}
Leaves(t) == {i \in Bound : \E r \in Segments(logical[i]) : r.last = t}
Spills(t) == {i \in Leaves(t) : Kind(i) = "spill" /\ t # Last(logical[i])}

(* Actions of one tick are in the order of the logical ids.                *)
NextIn(i, S) == i \in S /\ \A j \in S : Id(i) <= Id(j)

Peers(i) == {j \in Bound : /\ Kind(j) = "recompute"
                           /\ logical[j].ranges = logical[i].ranges}

(* Memory once the buffers of S hold their value of val.                   *)
Written(S, val) ==
  [j \in DOMAIN held |-> IF j \in S THEN val[j]
                         ELSE IF \E i \in S : Overlap(i, j) THEN Junk
                         ELSE held[j]]
AllJunk == [j \in DOMAIN held |-> Junk]

Refuse ==
  /\ stage' = "refused"
  /\ UNCHANGED <<tick, todo, state, version, held, file, lastTick, runs>>

--------------------------------------------------------------------------------
(* Fault: a recipe keeps the tick of its last dispatch across runs.        *)
BugRecipesReset == IF runs = 0 THEN [i \in Bound |-> -1] ELSE lastTick

RecipesReset == [i \in Bound |-> -1]

(* A run begins with a new runner; the spill store, with what an earlier   *)
(* run wrote to it, and the memory stay. resetForRequest clears lastTick.  *)
StartRun ==
  /\ planner = "metal" /\ result = "planned"
  /\ stage \in {"off", "failed"} /\ runs < MaxRuns
  /\ stage' = "begin" /\ tick' = 0 /\ todo' = Enters(0)
  /\ state' = [i \in Bound |-> "absent"]
  /\ version' = [i \in Bound |-> 0]
  /\ held' = [i \in Bound |-> Junk]
  /\ saved' = [i \in Bound |-> IF runs > 0 /\ saved[i] = Torn THEN Torn ELSE Junk]
  /\ materialized' = IF runs = 0 THEN [i \in Bound |-> FALSE] ELSE materialized
  /\ lastTick' = RecipesReset
  /\ runs' = runs + 1

--------------------------------------------------------------------------------
(* begin(tick): each buffer whose range starts is made live, unless it     *)
(* overlaps a live one, which may be itself (AliasOverlap).                *)

Entering(i) == stage = "begin" /\ NextIn(i, todo)
Clear(i) == \A j \in Bound : state[j] = "live" => ~Overlap(i, j)

Revive(i) ==
  /\ state' = [state EXCEPT ![i] = "live"]
  /\ todo' = todo \ {i}
  /\ UNCHANGED <<stage, tick, version, file, runs>>

HookFails ==
  /\ stage' = "failed"
  /\ UNCHANGED <<tick, todo, state, version, file, lastTick, runs>>

Produce(i) ==
  /\ Entering(i)
  /\ tick = FirstUse(i)
  /\ IF Clear(i) THEN Revive(i) /\ UNCHANGED <<held, lastTick>> ELSE Refuse

Restoring(i) == Entering(i) /\ tick # FirstUse(i) /\ Kind(i) = "spill"

(* Without an entry in the file: SpillNotMaterialized.                     *)
Restore(i) ==
  /\ Restoring(i)
  /\ IF Clear(i) /\ materialized[i]
       THEN /\ saved[i] # Torn
            /\ held' = Written({i}, saved)
            /\ Revive(i)
            /\ UNCHANGED lastTick
       ELSE Refuse

(* The file cannot be read, or is read and does not match its checksum.    *)
RestoreFails(i) ==
  /\ Restoring(i) /\ Clear(i)
  /\ materialized[i]
  /\ held' = Written({i}, AllJunk)
  /\ HookFails

Recomputing(i) == Entering(i) /\ tick # FirstUse(i) /\ Kind(i) = "recompute"

(* One dispatch serves the whole group: the others find lastTick = tick.   *)
Dispatch(i) ==
  IF lastTick[i] = tick
    THEN UNCHANGED <<held, lastTick>>
    ELSE /\ held' = Written(Peers(i), version)
         /\ lastTick' = [j \in Bound |-> IF j \in Peers(i) THEN tick
                                         ELSE lastTick[j]]

Recompute(i) ==
  /\ Recomputing(i)
  /\ IF Clear(i) THEN Dispatch(i) /\ Revive(i) ELSE Refuse

RecomputeFails(i) ==
  /\ Recomputing(i) /\ Clear(i)
  /\ lastTick[i] # tick
  /\ held' = Written(Peers(i), AllJunk)
  /\ HookFails

--------------------------------------------------------------------------------
(* The kernels of the tick: they produce the buffers whose first use it is *)
(* and may update other live ones, but not those with a recipe, which      *)
(* computes the first version.                                             *)

Live == {i \in Bound : state[i] = "live"}
Born == {i \in Live : tick = FirstUse(i)}
Updatable == {i \in Live \ Born : Kind(i) # "recompute" /\ version[i] < MaxVersion}

Launch ==
  /\ stage = "begin" /\ todo = {}
  /\ \E more \in SUBSET Updatable :
       /\ version' = [i \in Bound |-> IF i \in Born \union more
                                        THEN version[i] + 1 ELSE version[i]]
       /\ held' = Written(Born \union more, version')
  /\ stage' = "end" /\ todo' = Spills(tick)
  /\ UNCHANGED <<tick, state, file, lastTick, runs>>

LaunchFails ==
  /\ stage = "begin" /\ todo = {}
  /\ held' = Written(Live, AllJunk)
  /\ HookFails

--------------------------------------------------------------------------------
(* end(tick): spills first, then releases (else InvalidUseOrder).          *)

Leaving(i) == stage = "end" /\ NextIn(i, todo)

Spill(i) ==
  /\ Leaving(i)
  /\ IF state[i] = "live"
       THEN /\ saved' = [saved EXCEPT ![i] = held[i]]
            /\ materialized' = [materialized EXCEPT ![i] = TRUE]
            /\ state' = [state EXCEPT ![i] = "spilled"]
            /\ todo' = todo \ {i}
            /\ UNCHANGED <<stage, tick, version, held, lastTick, runs>>
       ELSE Refuse

(* The write stops before its first byte or after some.                    *)
SpillFails(i) ==
  /\ Leaving(i)
  /\ state[i] = "live"
  /\ saved' \in {saved, [saved EXCEPT ![i] = Torn]}
  /\ stage' = "failed"
  /\ UNCHANGED <<tick, todo, state, version, held, materialized, lastTick, runs>>

(* Fault: one tick too many.                                               *)
BugNextTick ==
  stage' = "begin" /\ tick' = tick + 1 /\ todo' = Enters(tick + 1)

NextTick ==
  IF tick = MaxTick
    THEN stage' = "off" /\ tick' = 0 /\ todo' = {}
    ELSE stage' = "begin" /\ tick' = tick + 1 /\ todo' = Enters(tick + 1)

Release ==
  /\ stage = "end" /\ todo = {}
  /\ IF \A i \in Leaves(tick) : state[i] # "absent"
       THEN /\ state' = [i \in Bound |->
                           IF i \in Leaves(tick) /\ state[i] = "live"
                             THEN "absent" ELSE state[i]]
            /\ NextTick
            /\ UNCHANGED <<version, held, file, lastTick, runs>>
       ELSE Refuse

(* Outside the program: the bytes of an entry change in the file.          *)
CorruptFile(i) ==
  /\ stage \in {"begin", "end"}
  /\ materialized[i] /\ saved[i] # Torn
  /\ saved' = [saved EXCEPT ![i] = Torn]
  /\ UNCHANGED <<runner, version, held, materialized, lastTick, runs>>

--------------------------------------------------------------------------------
Init ==
  /\ PlanInit
  /\ stage = "off" /\ tick = 0 /\ todo = {} /\ runs = 0
  /\ state = <<>> /\ version = <<>> /\ held = <<>> /\ saved = <<>>
  /\ materialized = <<>> /\ lastTick = <<>>

RunStep ==
  \/ \E i \in todo : \/ Produce(i)
                     \/ Restore(i) \/ RestoreFails(i)
                     \/ Recompute(i) \/ RecomputeFails(i)
                     \/ Spill(i) \/ SpillFails(i)
  \/ Launch \/ LaunchFails \/ Release

Planning == runs = 0 /\ PlanNext /\ UNCHANGED epochVars
Running == (StartRun \/ RunStep) /\ UNCHANGED planVars
Outside == (\E i \in DOMAIN saved : CorruptFile(i)) /\ UNCHANGED planVars

Next == Planning \/ Running \/ Outside

Spec == Init /\ [][Next]_vars

(* Both are loops of one thread that waits for nothing it models.          *)
FairSpec ==
  /\ Spec
  /\ WF_vars(PlanStep /\ UNCHANGED epochVars)
  /\ WF_vars(RunStep /\ UNCHANGED planVars)

--------------------------------------------------------------------------------
(* Properties.                                                             *)

TypeOK ==
  /\ PlanTypeOK
  /\ stage \in {"off", "begin", "end", "failed", "refused"}
  /\ tick \in 0 .. MaxTick /\ todo \subseteq Bound /\ runs \in 0 .. MaxRuns
  /\ runs > 0 =>
       /\ state \in [Bound -> {"absent", "live", "spilled"}]
       /\ version \in [Bound -> 0 .. MaxVersion]
       /\ held \in [Bound -> Nat \union {Junk}]
       /\ saved \in [Bound -> Nat \union {Junk, Torn}]
       /\ materialized \in [Bound -> BOOLEAN]
       /\ lastTick \in [Bound -> 0 .. MaxTick \union {-1}]

(* While a buffer is live its memory holds the last version of its value,  *)
(* whatever shared the memory since, and whether it was kept, spilled and  *)
(* restored or recomputed (arena_plan.zig begin and end, recovery.zig      *)
(* spill, restore and GroupRecipe.run).                                    *)
LiveHoldsValue ==
  stage \in {"begin", "end"} =>
    \A i \in Live : version[i] > 0 => held[i] = version[i]

(* A plan that build returned never makes the runner refuse an action:     *)
(* AliasOverlap, InvalidUseOrder and SpillNotMaterialized are not answers  *)
(* of begin and end (arena_plan.zig 582-620, recovery.zig 86).             *)
NeverRefused == stage # "refused"

(* Planning comes to an end, with a plan or an error. Not for the CUDA     *)
(* planner in a build that lets the alignment wrap: it would rescan the    *)
(* same offsets for ever (arena.zig findOffset).                           *)
PlanningEnds ==
  (result = "admitting" /\ (planner = "metal" \/ checked)) ~> Ended

(* A run comes to the end of its schedule or to an error of a hook.        *)
RunEnds == (stage = "begin") ~> (stage \in {"off", "failed"})

(* No loop of the planners or of a run goes on for ever: what the searches *)
(* move past is not met again, and a hook that fails ends the run.         *)
LoopsEnd == PlanningEnds /\ RunEnds
================================================================================
