------------------------------- MODULE LowestFit -------------------------------
(***************************************************************************)
(* What placing values in an arena promises (backend/arena_plan.zig and    *)
(* backends/cuda/runtime/arena.zig): each value gets, in one step, the     *)
(* lowest aligned offset at which it meets no value placed before it that  *)
(* is needed at a common tick. How the offset is searched for is left to   *)
(* ArenaPlacement.                                                         *)
(***************************************************************************)
EXTENDS Integers

CONSTANT Limit     \* the largest address

VARIABLES
  needs,           \* what the values need: size, alignment, ticks
  offset           \* where the placed ones are

vars == <<needs, offset>>

Together(i, j) == needs[i].ticks \intersect needs[j].ticks # {}

(* Value i at offset o and value j, placed, have no address in common.     *)
Apart(i, o, j) == \/ o + needs[i].size <= offset[j]
                  \/ offset[j] + needs[j].size <= o

Fits(i, o) ==
  /\ o % needs[i].alignment = 0
  /\ o + needs[i].size <= Limit
  /\ \A j \in DOMAIN offset : Together(i, j) => Apart(i, o, j)

Init == offset = <<>>

Place(i) ==
  /\ i \in DOMAIN needs \ DOMAIN offset
  /\ \E o \in 0 .. Limit :
       /\ Fits(i, o)
       /\ \A lower \in 0 .. o - 1 : ~Fits(i, lower)
       /\ offset' = [j \in DOMAIN offset \union {i} |->
                       IF j = i THEN o ELSE offset[j]]
  /\ needs' = needs

(* Another set of values is planned from nothing.                          *)
Replan == offset' = <<>>

Next == Replan \/ \E i \in DOMAIN needs : Place(i)

Spec == Init /\ [][Next]_vars
================================================================================
