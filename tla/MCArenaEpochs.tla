------------------------------ MODULE MCArenaEpochs -----------------------------
(* Arena planning and epochs for TLC: lists of three buffers from a        *)
(* catalogue over three ticks, in an arena of eight addresses.             *)
EXTENDS ArenaEpochs

Range(a, b) == [first |-> a, last |-> b]
Buffer(size, alignment, ranges, spill, recompute) ==
  [size |-> size, alignment |-> alignment, ranges |-> ranges,
   spill |-> spill, recompute |-> recompute]

Twice == {Range(0, 0), Range(2, 2)}

Plain == {Buffer(1, 1, {Range(0, 0)}, NoCost, NoCost),
          Buffer(2, 2, {Range(1, 2)}, NoCost, NoCost),
          Buffer(2, 1, {Range(0, 1)}, NoCost, NoCost),
          Buffer(3, 4, {Range(1, 1)}, NoCost, NoCost)}

Sparse == {Buffer(2, 1, Twice, 1, NoCost), Buffer(2, 2, Twice, 1, 1),
           Buffer(1, 1, Twice, NoCost, NoCost),
           Buffer(1, 1, {Range(0, 1), Range(2, 2)}, 0, 1)}

Malformed == {Buffer(0, 1, {Range(0, 0)}, NoCost, NoCost),
              Buffer(1, 3, {Range(0, 0)}, NoCost, NoCost),
              Buffer(1, 1, {Range(0, 1), Range(1, 2)}, NoCost, NoCost)}

(* Ids go down, so that their order is not the order of the list.          *)
Listed(f, priorities) ==
  [i \in DOMAIN f |->
     [id |-> 9 - i, size |-> f[i].size, alignment |-> f[i].alignment,
      ranges |-> f[i].ranges, spill |-> f[i].spill,
      recompute |-> f[i].recompute, priority |-> priorities[i]]]

MCInputs ==
  [metal |-> {Listed(<<f[1], f[2], g>>, <<0, 0, 0>>) :
                 f \in [1 .. 2 -> Plain \union Sparse], g \in Sparse}
             \union {Listed(f, <<0, 1>>) : f \in [1 .. 2 -> Plain \union Malformed]},
   cuda |-> {Listed(f, <<0, 0, 0>>) : f \in [1 .. 3 -> Plain]}]
=================================================================================
