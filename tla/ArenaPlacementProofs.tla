-------------------------- MODULE ArenaPlacementProofs --------------------------
(***************************************************************************)
(* Proofs about ArenaPlacement, for any lists of buffers, budgets and      *)
(* address width. PlacementInv is inductive. Its heart is Searched: below  *)
(* the candidate no aligned offset is free, and Metal has every conflict   *)
(* it has swept below the candidate. Both searches keep it, each in its    *)
(* own way, and when either stops it says that the candidate is the lowest *)
(* fit. LayoutInv adds that the layout is the greedy one of the list, which*)
(* is unique; a measure shows that the searches come to an end.            *)
(***************************************************************************)
EXTENDS ArenaPlacement, FiniteSetTheorems, TLAPS

(* The list is admissible from the time it is admitted.                    *)
Admitted == result \notin {"admitting", "invalid"} => Admissible

Idle ==
  /\ current # None => result = "placing" /\ current \notin DOMAIN offset
  /\ current = None => ahead = {}
  /\ result = "admitting" => offset = <<>>
  /\ result = "invalid" => offset = <<>>

Bounded == \A i \in DOMAIN offset : End(i) <= total /\ End(i) <= Limit

Separate == \A i, j \in DOMAIN offset : i # j /\ Together(i, j) => ~Overlap(i, j)

Blocked(o) == \E j \in Conflicts(current) : o < End(j) /\ Start(j) < o + Size

Searched ==
  current # None =>
    /\ \A o \in Nat : o < candidate /\ o % Alignment = 0 => Blocked(o)
    /\ planner = "metal" =>
         /\ candidate % Alignment = 0
         /\ ahead \subseteq Conflicts(current)
         /\ \A j \in Conflicts(current) \ ahead : End(j) <= candidate

PlacementInv ==
  /\ PlanTypeOK
  /\ Admitted
  /\ Idle
  /\ Bounded
  /\ Separate
  /\ Searched
  /\ result # "alias"

--------------------------------------------------------------------------------
(* Arithmetic.                                                             *)

LEMMA DivMod ==
  ASSUME NEW v \in Nat, NEW a \in Nat \ {0}
  PROVE  /\ v % a \in 0 .. a - 1
         /\ v \div a \in Nat
         /\ v = a * (v \div a) + (v % a)
  BY SMT

LEMMA ModUnique ==
  ASSUME NEW q \in Nat, NEW a \in Nat \ {0}, NEW r \in 0 .. a - 1
  PROVE  (a * q + r) % a = r
  BY SMT

(* AlignForward is the least multiple of a that is not below v.            *)
LEMMA AlignLemma ==
  ASSUME NEW v \in Nat, NEW a \in Nat \ {0}
  PROVE  /\ AlignForward(v, a) \in Nat
         /\ AlignForward(v, a) >= v
         /\ AlignForward(v, a) % a = 0
         /\ \A o \in Nat : o % a = 0 /\ o >= v => o >= AlignForward(v, a)
<1> DEFINE r == v % a
           q == v \div a
<1>1. r \in 0 .. a - 1 /\ q \in Nat /\ v = a * q + r
  BY DivMod
<1>2. CASE r = 0
  BY <1>1, <1>2 DEF AlignForward
<1>3. CASE r # 0
  <2>1. AlignForward(v, a) = v + (a - r)
    BY <1>3 DEF AlignForward
  <2>2. v + (a - r) = a * (q + 1) + 0
    BY <1>1
  <2>3. (a * (q + 1) + 0) % a = 0
    BY <1>1, ModUnique
  <2>4. ASSUME NEW o \in Nat, o % a = 0, o >= v
        PROVE  o >= v + (a - r)
    <3> DEFINE p == o \div a
    <3>1. p \in Nat /\ o = a * p + (o % a)
      BY DivMod
    <3>2. o = a * p
      BY <3>1, <2>4
    <3>3. p > q
      BY <3>2, <1>1, <1>3, <2>4
    <3> QED BY <3>2, <3>3, <2>2, <1>1
  <2> QED BY <1>1, <2>1, <2>2, <2>3, <2>4
<1> QED BY <1>1, <1>2, <1>3

--------------------------------------------------------------------------------
LEMMA InitPlacement == PlanInit => PlacementInv
<1> SUFFICES ASSUME PlanInit PROVE PlacementInv
  OBVIOUS
<1>1. DOMAIN offset = {} /\ offset = <<>>
  BY DEF PlanInit
<1>2. PlanTypeOK
  BY <1>1, PlacementAssumption DEF PlanInit, PlanTypeOK
<1> QED
  BY <1>1, <1>2 DEF PlanInit, PlacementInv, Admitted, Idle, Bounded, Separate, Searched

(* What every buffer of an admitted list has.                              *)
LEMMA BufferTypes ==
  ASSUME PlacementInv
  PROVE  /\ \A i \in DOMAIN logical : /\ logical[i].size \in Nat
                                      /\ logical[i].alignment \in Nat
         /\ result \notin {"admitting", "invalid"} =>
              \A i \in DOMAIN logical : logical[i].size > 0 /\ logical[i].alignment > 0
         /\ \A j \in DOMAIN offset : Start(j) \in Nat /\ End(j) \in Nat
  BY DEF PlacementInv, PlanTypeOK, Admitted, Admissible, WellFormed, PowerOfTwo,
         LogicalBuffer, Start, End

(* Together and Overlap are symmetric.                                     *)
LEMMA Symmetric ==
  ASSUME NEW i, NEW j
  PROVE  /\ Together(i, j) <=> Together(j, i)
         /\ Overlap(i, j) <=> Overlap(j, i)
  BY DEF Together, Overlap

--------------------------------------------------------------------------------
(* The two searches.                                                       *)

(* Offset o is the lowest that fits the current buffer.                    *)
Lowest(o) ==
  /\ o \in Nat
  /\ o % Alignment = 0
  /\ o + Size <= Limit
  /\ \A j \in Conflicts(current) : o + Size <= Start(j) \/ End(j) <= o
  /\ \A l \in Nat : l < o /\ l % Alignment = 0 => Blocked(l)

LEMMA MetalFinds ==
  ASSUME PlacementInv, SweepPlace
  PROVE  Lowest(candidate)
<1>1. Searching("metal") /\ candidate + Size <= Limit /\ current # None
  BY DEF SweepPlace, Searching
<1>2. /\ candidate \in Nat /\ current \in DOMAIN logical /\ ahead \subseteq Conflicts(current)
      /\ candidate % Alignment = 0
      /\ \A j \in Conflicts(current) \ ahead : End(j) <= candidate
      /\ \A o \in Nat : o < candidate /\ o % Alignment = 0 => Blocked(o)
  BY <1>1 DEF PlacementInv, PlanTypeOK, Searched, Searching
<1>3. \A j \in ahead : candidate + Size <= Start(j)
  <2>1. CASE ahead = {}
    BY <2>1
  <2>2. CASE \E j \in ahead : Foremost(j) /\ EndsBefore(j)
    <3>1. PICK j \in ahead : Foremost(j) /\ EndsBefore(j)
      BY <2>2
    <3>2. \A k \in ahead : Start(j) <= Start(k)
      BY <3>1, <1>2, BufferTypes DEF Foremost, Conflicts
    <3> QED
      BY <3>1, <3>2, <1>2, BufferTypes DEF EndsBefore, Conflicts, Size
  <2> QED BY <2>1, <2>2 DEF SweepPlace
<1> QED BY <1>1, <1>2, <1>3 DEF Lowest

(* What a rescan knows of the offset it looks at.                          *)
LEMMA CudaAlignedLemma ==
  ASSUME PlacementInv, Rescannable
  PROVE  /\ CudaAligned \in Nat
         /\ CudaAligned % Alignment = 0
         /\ \A l \in Nat : l < CudaAligned /\ l % Alignment = 0 => Blocked(l)
<1>1. /\ candidate \in Nat /\ current \in DOMAIN logical /\ Alignment \in Nat \ {0}
      /\ \A o \in Nat : o < candidate /\ o % Alignment = 0 => Blocked(o)
  BY BufferTypes DEF PlacementInv, PlanTypeOK, Searched, Searching, Rescannable, Alignment
<1>2. CASE AlignOverflows(candidate, Alignment)
  <2>1. CudaAligned = 0
    BY <1>2 DEF CudaAligned
  <2>2. 0 % Alignment = 0
    BY <1>1
  <2> QED BY <2>1, <2>2
<1>3. CASE ~AlignOverflows(candidate, Alignment)
  <2>1. CudaAligned = AlignForward(candidate, Alignment)
    BY <1>3 DEF CudaAligned
  <2>2. ASSUME NEW l \in Nat, l < CudaAligned, l % Alignment = 0
        PROVE  l < candidate
    BY <2>1, <2>2, <1>1, AlignLemma
  <2> QED BY <2>1, <2>2, <1>1, AlignLemma
<1> QED BY <1>2, <1>3

LEMMA CudaFinds ==
  ASSUME PlacementInv, RescanPlace
  PROVE  Lowest(CudaAligned)
<1>1. /\ Rescannable /\ CudaAligned + Size <= Limit /\ Blockers = {}
      /\ current \in DOMAIN logical
  BY DEF RescanPlace, Rescannable, Searching, PlacementInv, PlanTypeOK
<1>2. CudaAligned \in Nat
  BY <1>1, CudaAlignedLemma
<1>3. \A j \in Conflicts(current) : CudaAligned + Size <= Start(j) \/ End(j) <= CudaAligned
  BY <1>1, <1>2, BufferTypes DEF Blockers, Conflicts, Size
<1> QED BY <1>1, <1>3, CudaAlignedLemma DEF Lowest

(* Neither search goes past an offset that is free.                        *)
LEMMA SweepKeeps ==
  ASSUME PlacementInv, NEW j \in ahead, SweepPast(j)
  PROVE  Searched'
<1>1. /\ current # None /\ planner = "metal" /\ result = "placing"
      /\ current' = current /\ planner' = planner
      /\ logical' = logical /\ offset' = offset /\ ~EndsBefore(j)
  BY DEF SweepPast, Searching, config
<1>2. /\ candidate \in Nat /\ current \in DOMAIN logical /\ ahead \subseteq Conflicts(current)
      /\ Size \in Nat /\ Alignment \in Nat \ {0} /\ Start(j) \in Nat /\ End(j) \in Nat
      /\ candidate % Alignment = 0 /\ j \in Conflicts(current)
      /\ \A k \in Conflicts(current) \ ahead : End(k) <= candidate
      /\ \A k \in Conflicts(current) : End(k) \in Nat
      /\ \A o \in Nat : o < candidate /\ o % Alignment = 0 => Blocked(o)
  BY <1>1, BufferTypes DEF PlacementInv, PlanTypeOK, Searched, Searching, Conflicts, Size, Alignment
<1>3. /\ candidate' \in Nat /\ candidate' % Alignment = 0
      /\ candidate' >= candidate /\ candidate' >= End(j)
      /\ candidate' # candidate => candidate' = AlignForward(End(j), Alignment)
  <2>1. CASE candidate < End(j)
    BY <2>1, <1>2, AlignLemma DEF SweepPast
  <2>2. CASE ~(candidate < End(j))
    BY <2>2, <1>2 DEF SweepPast
  <2> QED BY <2>1, <2>2
<1>4. ASSUME NEW o \in Nat, o < candidate', o % Alignment = 0
      PROVE  Blocked(o)
  <2>1. CASE o < candidate
    BY <2>1, <1>4, <1>2
  <2>2. CASE o >= candidate
    <3>1. o < End(j)
      BY <2>2, <1>4, <1>3, <1>2, AlignLemma
    <3>2. Start(j) < o + Size
      BY <2>2, <1>1, <1>2 DEF EndsBefore
    <3> QED BY <3>1, <3>2, <1>2 DEF Blocked
  <2> QED BY <2>1, <2>2, <1>2
<1>5. \A k \in Conflicts(current) \ ahead' : End(k) <= candidate'
  BY <1>2, <1>3 DEF SweepPast
<1>6. ahead' \subseteq Conflicts(current)
  BY <1>2 DEF SweepPast
<1>7. /\ Conflicts(current)' = Conflicts(current) /\ Size' = Size /\ Alignment' = Alignment
      /\ \A k : Start(k)' = Start(k) /\ End(k)' = End(k)
      /\ \A o : Blocked(o)' <=> Blocked(o)
  BY <1>1 DEF Conflicts, Together, Size, Alignment, Start, End, Blocked
<1> QED BY <1>1, <1>3, <1>4, <1>5, <1>6, <1>7 DEF Searched

LEMMA RescanKeeps ==
  ASSUME PlacementInv, NEW j \in DOMAIN offset, RescanPast(j)
  PROVE  Searched'
<1>1. /\ Rescannable /\ planner = "cuda" /\ current' = current /\ planner' = planner
      /\ logical' = logical /\ offset' = offset /\ candidate' = End(j)
      /\ j \in Blockers /\ current \in DOMAIN logical
  BY DEF RescanPast, Rescannable, Searching, config, PlacementInv, PlanTypeOK
<1>2. /\ CudaAligned \in Nat /\ End(j) \in Nat /\ Start(j) \in Nat /\ Size \in Nat
      /\ j \in Conflicts(current) /\ Start(j) < CudaAligned + Size
      /\ \A l \in Nat : l < CudaAligned /\ l % Alignment = 0 => Blocked(l)
  BY <1>1, BufferTypes, CudaAlignedLemma DEF Blockers, Size
<1>3. ASSUME NEW o \in Nat, o < candidate', o % Alignment = 0
      PROVE  Blocked(o)
  <2>1. CASE o < CudaAligned
    BY <2>1, <1>2, <1>3
  <2>2. CASE o >= CudaAligned
    BY <2>2, <1>1, <1>2, <1>3 DEF Blocked
  <2> QED BY <2>1, <2>2, <1>2
<1>4. /\ Conflicts(current)' = Conflicts(current) /\ Size' = Size /\ Alignment' = Alignment
      /\ \A k : Start(k)' = Start(k) /\ End(k)' = End(k)
      /\ \A o : Blocked(o)' <=> Blocked(o)
  BY <1>1 DEF Conflicts, Together, Size, Alignment, Start, End, Blocked
<1> QED BY <1>1, <1>3, <1>4 DEF Searched

--------------------------------------------------------------------------------
(* Placing at the lowest fit.                                              *)

LEMMA PlaceKeeps ==
  ASSUME PlacementInv, current # None, NEW o, Lowest(o), Place(o)
  PROVE  PlacementInv'
<1> PICK c : c = current
  OBVIOUS
<1>1. /\ c \in DOMAIN logical \ DOMAIN offset /\ result = "placing"
      /\ o \in Nat /\ Size \in Nat /\ total \in Nat /\ Size = logical[c].size
      /\ o + Size <= Limit
      /\ logical' = logical /\ result' = result
      /\ DOMAIN offset' = DOMAIN offset \union {c}
      /\ offset'[c] = o
      /\ \A j \in DOMAIN offset : offset'[j] = offset[j]
      /\ total' = MaxOf(total, o + Size)
      /\ current' = None /\ candidate' = 0 /\ ahead' = {}
  BY BufferTypes DEF PlacementInv, PlanTypeOK, Idle, Lowest, Place, Size, config
<1>2. \A j \in DOMAIN offset : Start(j)' = Start(j) /\ End(j)' = End(j)
  BY <1>1 DEF Start, End
<1>3. Start(c)' = o /\ End(c)' = o + Size
  BY <1>1 DEF Start, End
<1>4. \A i, j : Together(i, j)' <=> Together(i, j)
  BY <1>1 DEF Together
<1>5. total' \in Nat /\ total' >= total /\ total' >= o + Size
  BY <1>1 DEF MaxOf
<1>6. PlanTypeOK'
  BY <1>1, <1>5, PlacementAssumption DEF PlacementInv, PlanTypeOK, Place, config
<1>7. Admitted'
  BY <1>1 DEF PlacementInv, Admitted, Admissible
<1>8. Idle'
  BY <1>1 DEF Idle
<1>9. Bounded'
  <2>1. \A j \in DOMAIN offset : End(j) \in Nat
    BY BufferTypes
  <2>2. \A j \in DOMAIN offset : End(j) <= total /\ End(j) <= Limit
    BY DEF PlacementInv, Bounded
  <2> QED BY <2>1, <2>2, <1>1, <1>2, <1>3, <1>5 DEF Bounded
<1>10. Separate'
  <2>1. \A j \in DOMAIN offset : Together(c, j) => o + Size <= Start(j) \/ End(j) <= o
    BY DEF Lowest, Conflicts
  <2>2. \A j \in DOMAIN offset : Start(j) \in Nat /\ End(j) \in Nat
    BY BufferTypes
  <2>3. \A j \in DOMAIN offset : Together(c, j) => ~Overlap(c, j)' /\ ~Overlap(j, c)'
    BY <2>1, <2>2, <1>1, <1>2, <1>3 DEF Overlap
  <2>4. \A i, j \in DOMAIN offset : Overlap(i, j)' <=> Overlap(i, j)
    BY <1>2 DEF Overlap
  <2>5. SUFFICES ASSUME NEW i \in DOMAIN offset', NEW j \in DOMAIN offset',
                        i # j, Together(i, j)
                 PROVE  ~Overlap(i, j)'
    BY <1>4 DEF Separate
  <2>6. CASE i \in DOMAIN offset /\ j \in DOMAIN offset
    BY <2>4, <2>5, <2>6 DEF PlacementInv, Separate
  <2>7. CASE i = c /\ j \in DOMAIN offset
    BY <2>3, <2>5, <2>7
  <2>8. CASE i \in DOMAIN offset /\ j = c
    BY <2>3, <2>5, <2>8, Symmetric
  <2> QED BY <2>5, <2>6, <2>7, <2>8, <1>1
<1>11. Searched'
  BY <1>1 DEF Searched
<1> QED BY <1>1, <1>6, <1>7, <1>8, <1>9, <1>10, <1>11 DEF PlacementInv

(* The same step, as the specification of the lowest fit sees it.          *)
LEMMA PlaceRefines ==
  ASSUME PlacementInv, current # None, NEW o, Lowest(o), Place(o)
  PROVE  Fit!Next
<1> DEFINE needs == [i \in DOMAIN logical |->
                       [size |-> logical[i].size,
                        alignment |-> logical[i].alignment,
                        ticks |-> Occupied(logical[i])]]
<1>1. /\ current \in DOMAIN logical \ DOMAIN offset /\ DOMAIN offset \subseteq DOMAIN logical
      /\ o \in Nat /\ Size \in Nat \ {0} /\ o + Size <= Limit /\ Limit \in Nat
      /\ Size = logical[current].size /\ Alignment = logical[current].alignment
      /\ \A j \in DOMAIN offset : /\ Start(j) \in Nat /\ End(j) \in Nat
                                  /\ Start(j) = offset[j]
                                  /\ End(j) = offset[j] + logical[j].size
  BY BufferTypes, PlacementAssumption
  DEF PlacementInv, PlanTypeOK, Idle, Lowest, Size, Alignment, Start, End
<1>2. \A i \in DOMAIN logical : /\ needs[i].size = logical[i].size
                                /\ needs[i].alignment = logical[i].alignment
                                /\ needs[i].ticks = Occupied(logical[i])
  OBVIOUS
<1>3. \A j \in DOMAIN offset : Fit!Together(current, j) <=> Together(current, j)
  BY <1>1, <1>2 DEF Fit!Together, Together
<1>4. \A l : Fit!Fits(current, l) <=>
               /\ l % Alignment = 0
               /\ l + Size <= Limit
               /\ \A j \in Conflicts(current) : l + Size <= Start(j) \/ End(j) <= l
  BY <1>1, <1>2, <1>3 DEF Fit!Fits, Fit!Apart, Conflicts
<1>5. Fit!Fits(current, o)
  BY <1>1, <1>4 DEF Lowest
<1>6. \A l \in 0 .. o - 1 : ~Fit!Fits(current, l)
  <2> SUFFICES ASSUME NEW l \in 0 .. o - 1, l % Alignment = 0
               PROVE  \E j \in Conflicts(current) : ~(l + Size <= Start(j)) /\ ~(End(j) <= l)
    BY <1>4
  <2>1. l \in Nat /\ l < o
    BY <1>1
  <2>2. Blocked(l)
    BY <2>1 DEF Lowest
  <2>3. PICK j \in Conflicts(current) : l < End(j) /\ Start(j) < l + Size
    BY <2>2 DEF Blocked
  <2> QED BY <2>1, <2>3, <1>1 DEF Conflicts
<1>7. o \in 0 .. Limit
  BY <1>1
<1>8. /\ offset' = [j \in DOMAIN offset \union {current} |->
                      IF j = current THEN o ELSE offset[j]]
      /\ logical' = logical
  BY DEF Place
<1>9. needs' = needs
  BY <1>8 DEF Occupied, Segments, Materialization, First, Last
<1>10. current \in DOMAIN needs \ DOMAIN offset
  BY <1>1
<1> QED
  BY <1>1, <1>5, <1>6, <1>7, <1>8, <1>9, <1>10 DEF Fit!Next, Fit!Place

--------------------------------------------------------------------------------
(* The other steps.                                                        *)

(* A step that changes none of the placements and ends no search.          *)
LEMMA FailKeeps ==
  ASSUME PlacementInv, NEW why \in {"overflow", "trapped"},
         result = "placing", Fail(why)
  PROVE  PlacementInv'
<1>1. /\ logical' = logical /\ offset' = offset /\ total' = total /\ result' = why
      /\ current' = None /\ candidate' = 0 /\ ahead' = {}
  BY DEF Fail
<1>2. PlanTypeOK'
  BY <1>1 DEF PlacementInv, PlanTypeOK, Fail, config
<1>3. Admitted' /\ Idle' /\ Searched' /\ result' # "alias"
  BY <1>1 DEF PlacementInv, Admitted, Admissible, Idle, Searched
<1>4. Bounded' /\ Separate'
  BY <1>1 DEF PlacementInv, Bounded, Separate, Together, Overlap, Start, End
<1> QED BY <1>2, <1>3, <1>4 DEF PlacementInv

LEMMA ChooseKeeps ==
  ASSUME PlacementInv, NEW i \in Unplaced, Choose(i)
  PROVE  PlacementInv'
<1>1. /\ logical' = logical /\ offset' = offset /\ total' = total /\ result' = result
      /\ planner' = planner /\ current' = i /\ candidate' = 0 /\ result = "placing"
      /\ ahead' = IF planner = "metal" THEN Conflicts(i) ELSE {}
      /\ i \in DOMAIN logical \ DOMAIN offset /\ i # None
  BY DEF Choose, Unplaced, config, PlacementInv, PlanTypeOK
<1>2. PlanTypeOK'
  BY <1>1 DEF PlacementInv, PlanTypeOK, Choose, config, Conflicts
<1>3. Admitted' /\ Idle' /\ result' # "alias"
  BY <1>1 DEF PlacementInv, Admitted, Admissible, Idle
<1>4. Bounded' /\ Separate'
  BY <1>1 DEF PlacementInv, Bounded, Separate, Together, Overlap, Start, End
<1>5. Searched'
  <2>1. Conflicts(current)' = Conflicts(i)
    BY <1>1 DEF Conflicts, Together
  <2>2. Alignment' \in Nat \ {0}
    BY <1>1, BufferTypes DEF Alignment
  <2>3. 0 % Alignment' = 0
    <3>1. \A a \in Nat \ {0} : 0 % a = 0
      OBVIOUS
    <3> QED BY <2>2, <3>1
  <2> QED BY <1>1, <2>1, <2>3 DEF Searched
<1> QED BY <1>2, <1>3, <1>4, <1>5 DEF PlacementInv

LEMMA SweepPastKeeps ==
  ASSUME PlacementInv, NEW j \in ahead, SweepPast(j)
  PROVE  PlacementInv'
<1>1. /\ logical' = logical /\ offset' = offset /\ total' = total /\ result' = result
      /\ current' = current /\ current # None /\ ahead' \subseteq ahead
      /\ current \in DOMAIN logical /\ result = "placing" /\ j \in DOMAIN offset
  BY DEF SweepPast, Searching, PlacementInv, PlanTypeOK
<1>2. candidate' \in Nat
  BY <1>1, BufferTypes, AlignLemma DEF SweepPast, PlacementInv, PlanTypeOK, Alignment
<1>3. PlanTypeOK'
  BY <1>1, <1>2 DEF PlacementInv, PlanTypeOK, SweepPast, config
<1>4. Admitted' /\ Idle' /\ result' # "alias"
  BY <1>1 DEF PlacementInv, Admitted, Admissible, Idle
<1>5. Bounded' /\ Separate'
  BY <1>1 DEF PlacementInv, Bounded, Separate, Together, Overlap, Start, End
<1> QED BY <1>3, <1>4, <1>5, SweepKeeps DEF PlacementInv

LEMMA RescanPastKeeps ==
  ASSUME PlacementInv, NEW j \in DOMAIN offset, RescanPast(j)
  PROVE  PlacementInv'
<1>1. /\ logical' = logical /\ offset' = offset /\ total' = total /\ result' = result
      /\ current' = current /\ current # None /\ ahead' = ahead
      /\ result = "placing" /\ candidate' = End(j)
  BY DEF RescanPast, Rescannable, Searching
<1>2. PlanTypeOK'
  BY <1>1, BufferTypes DEF PlacementInv, PlanTypeOK, RescanPast, config
<1>3. Admitted' /\ Idle' /\ result' # "alias"
  BY <1>1 DEF PlacementInv, Admitted, Admissible, Idle
<1>4. Bounded' /\ Separate'
  BY <1>1 DEF PlacementInv, Bounded, Separate, Together, Overlap, Start, End
<1> QED BY <1>2, <1>3, <1>4, RescanKeeps DEF PlacementInv

LEMMA AdmitKeeps ==
  ASSUME PlacementInv, Admit
  PROVE  PlacementInv'
<1>1. /\ logical' = logical /\ offset' = offset /\ offset = <<>> /\ total' = total
      /\ current' = current /\ current = None /\ ahead' = ahead
      /\ result' = IF Admissible THEN "placing" ELSE "invalid"
  BY DEF Admit, search, PlacementInv, Idle
<1>2. PlanTypeOK'
  BY <1>1 DEF PlacementInv, PlanTypeOK, Admit, config, search
<1>3. Admitted' /\ Idle' /\ result' # "alias" /\ Searched'
  BY <1>1 DEF PlacementInv, Admitted, Admissible, Idle, Searched
<1>4. Bounded' /\ Separate'
  BY <1>1 DEF PlacementInv, Bounded, Separate, Together, Overlap, Start, End
<1> QED BY <1>2, <1>3, <1>4 DEF PlacementInv

(* The closing check of a plan passes.                                     *)
LEMMA PlanIsValid ==
  ASSUME PlacementInv
  PROVE  Valid
<1> SUFFICES ASSUME NEW t \in 0 .. MaxTick, NEW i \in LiveAt(t), NEW j \in LiveAt(t), i # j
             PROVE  ~Overlap(i, j)
  BY DEF Valid, Neighbours
<1>1. i \in DOMAIN offset /\ j \in DOMAIN offset /\ Together(i, j)
  BY DEF LiveAt, Together
<1> QED BY <1>1 DEF PlacementInv, Separate

LEMMA FinishKeeps ==
  ASSUME PlacementInv, FinishMetal \/ FinishCuda
  PROVE  PlacementInv'
<1>1. /\ logical' = logical /\ offset' = offset /\ result = "placing"
      /\ current' = None /\ current = None /\ ahead' = ahead
      /\ result' \in {"planned", "overflow", "budget"}
  BY PlanIsValid DEF FinishMetal, FinishCuda, Placed, search
<1>2. total' \in Nat /\ total' >= total
  <2>1. AlignForward(total, Page) \in Nat /\ AlignForward(total, Page) >= total
    BY AlignLemma, PlacementAssumption DEF PlacementInv, PlanTypeOK
  <2> QED BY <2>1 DEF FinishMetal, FinishCuda, PlacementInv, PlanTypeOK
<1>3. PlanTypeOK'
  BY <1>1, <1>2 DEF PlacementInv, PlanTypeOK, FinishMetal, FinishCuda, config, search
<1>4. Admitted' /\ Idle' /\ result' # "alias" /\ Searched'
  BY <1>1 DEF PlacementInv, Admitted, Admissible, Idle, Searched
<1>5. Bounded'
  <2>1. \A i \in DOMAIN offset : End(i)' = End(i)
    BY <1>1 DEF End
  <2> QED BY <2>1, <1>1, <1>2, BufferTypes DEF PlacementInv, PlanTypeOK, Bounded
<1>6. Separate'
  BY <1>1 DEF PlacementInv, Separate, Together, Overlap, Start, End
<1> QED BY <1>3, <1>4, <1>5, <1>6 DEF PlacementInv

LEMMA ProjectKeeps ==
  ASSUME PlacementInv, NEW t \in 0 .. MaxTick - 1, Project(t)
  PROVE  PlacementInv'
<1>1. /\ offset' = <<>> /\ DOMAIN offset' = {} /\ total' = 0 /\ result' = "admitting"
      /\ current' = None /\ current = None /\ ahead' = {} /\ candidate' \in Nat
  BY DEF Project, search, PlacementInv, Idle, PlanTypeOK
<1>2. DOMAIN logical' \subseteq DOMAIN logical
      /\ \A i \in DOMAIN logical' : logical'[i] = Clipped(logical[i], t)
  BY DEF Project
<1>3. ASSUME NEW i \in DOMAIN logical
      PROVE  Clipped(logical[i], t) \in LogicalBuffer
  <2>1. Runs(Occupied(logical[i]) \intersect 0 .. t) \in SUBSET LiveRange
    BY PlacementAssumption DEF Runs, Occupied, LiveRange
  <2>2. logical[i] \in LogicalBuffer
    BY DEF PlacementInv, PlanTypeOK
  <2> QED BY <2>1, <2>2 DEF Clipped, LogicalBuffer
<1>4. PlanTypeOK'
  BY <1>1, <1>2, <1>3 DEF PlacementInv, PlanTypeOK, Project, config
<1> QED
  BY <1>1, <1>4 DEF PlacementInv, Admitted, Idle, Bounded, Separate, Searched

--------------------------------------------------------------------------------
LEMMA NextKeeps ==
  ASSUME PlacementInv, [PlanNext]_planVars
  PROVE  PlacementInv'
<1>1. ASSUME PlanStep
      PROVE  PlacementInv'
  <2>1. CASE Admit
    BY <2>1, AdmitKeeps
  <2>2. CASE \E i \in Unplaced : Choose(i)
    BY <2>2, ChooseKeeps
  <2>3. CASE \E j \in ahead : SweepPast(j)
    BY <2>3, SweepPastKeeps
  <2>4. CASE SweepPlace
    BY <2>4, MetalFinds, PlaceKeeps DEF SweepPlace, Searching
  <2>5. CASE SweepOverflow
    BY <2>5, FailKeeps DEF SweepOverflow, Searching
  <2>6. CASE \E j \in DOMAIN offset : RescanPast(j)
    BY <2>6, RescanPastKeeps
  <2>7. CASE RescanPlace
    BY <2>7, CudaFinds, PlaceKeeps DEF RescanPlace, Rescannable, Searching
  <2>8. CASE RescanOverflow
    BY <2>8, FailKeeps DEF RescanOverflow, Rescannable, Searching
  <2>9. CASE RescanTrap
    BY <2>9, FailKeeps DEF RescanTrap, Searching
  <2>10. CASE FinishMetal \/ FinishCuda
    BY <2>10, FinishKeeps
  <2> QED BY <1>1, <2>1, <2>2, <2>3, <2>4, <2>5, <2>6, <2>7, <2>8, <2>9, <2>10 DEF PlanStep
<1>2. CASE \E t \in 0 .. MaxTick - 1 : Project(t)
  BY <1>2, ProjectKeeps
<1>3. CASE UNCHANGED planVars
  BY <1>3 DEF planVars, config, search, PlacementInv, PlanTypeOK, Admitted, Admissible,
              Idle, Bounded, Separate, Searched, Blocked, Conflicts, Together, Overlap,
              Start, End, Size, Alignment
<1> QED BY <1>1, <1>2, <1>3 DEF PlanNext

(* PlacementInv is an invariant of both planners.                          *)
THEOREM PlacementInvariant == PlanSpec => []PlacementInv
<1>1. PlacementInv /\ [PlanNext]_planVars => PlacementInv'
  BY NextKeeps
<1> QED BY <1>1, InitPlacement, PTL DEF PlanSpec

(* The variables of a plan stay in their types (arena_plan.zig build and   *)
(* projectThroughTick, arena.zig Plan.init).                               *)
THEOREM PlanTypeCorrect == PlanSpec => []PlanTypeOK
<1>1. PlacementInv => PlanTypeOK
  BY DEF PlacementInv
<1> QED BY <1>1, PlacementInvariant, PTL

(* No two buffers needed at a common tick share memory, in any list that   *)
(* either planner accepts (arena_plan.zig 183-206, arena.zig 221-248).     *)
THEOREM PlacementNeverAliases == PlanSpec => []NoAliasing
<1>1. PlacementInv => NoAliasing
  BY DEF PlacementInv, NoAliasing, Bounded, Separate
<1> QED BY <1>1, PlacementInvariant, PTL

(* Both searches, for every list of buffers, put each buffer at the lowest *)
(* aligned offset that is free (arena_plan.zig 183-206, arena.zig 221-248).*)
THEOREM PlacementIsLowestFit == PlanSpec => ImplementsLowestFit
<1>1. PlanInit => Fit!Init
  BY DEF PlanInit, Fit!Init
<1>2. PlacementInv /\ [PlanNext]_planVars => [Fit!Next]_(Fit!vars)
  <2> SUFFICES ASSUME PlacementInv, [PlanNext]_planVars
               PROVE  [Fit!Next]_(Fit!vars)
    OBVIOUS
  <2>2. CASE SweepPlace
    BY <2>2, MetalFinds, PlaceRefines DEF SweepPlace, Searching
  <2>3. CASE RescanPlace
    BY <2>3, CudaFinds, PlaceRefines DEF RescanPlace, Rescannable, Searching
  <2>4. CASE \E t \in 0 .. MaxTick - 1 : Project(t)
    BY <2>4 DEF Project, Fit!Next, Fit!Replan
  <2>5. ASSUME logical' = logical, offset' = offset
        PROVE  UNCHANGED Fit!vars
    BY <2>5 DEF Fit!vars, Occupied, Segments, Materialization, First, Last
  <2>6. CASE UNCHANGED planVars
    BY <2>5, <2>6 DEF planVars
  <2>7. CASE PlanStep
    <3>1. \/ SweepPlace \/ RescanPlace
          \/ logical' = logical /\ offset' = offset
      BY <2>7 DEF PlanStep, Admit, Choose, SweepPast, SweepOverflow, RescanPast,
                  RescanOverflow, RescanTrap, FinishMetal, FinishCuda, Fail
    <3> QED BY <3>1, <2>2, <2>3, <2>5
  <2> QED BY <2>2, <2>3, <2>4, <2>6, <2>7 DEF PlanNext
<1> QED BY <1>1, <1>2, PlacementInvariant, PTL DEF PlanSpec, ImplementsLowestFit, Fit!Spec

--------------------------------------------------------------------------------
(* The layout follows from the list alone. FreeFor(f, i, o): under the     *)
(* layout f, offset o is free of what is placed before i.                  *)

FreeFor(f, i, o) ==
  /\ o % logical[i].alignment = 0
  /\ o + logical[i].size <= Limit
  /\ \A j \in DOMAIN f : Earlier(j, i) /\ Together(i, j) =>
       \/ o + logical[i].size <= f[j]
       \/ f[j] + logical[j].size <= o

Greedy(f) ==
  \A i \in DOMAIN f : /\ FreeFor(f, i, f[i])
                      /\ \A lower \in 0 .. f[i] - 1 : ~FreeFor(f, i, lower)

TheOnlyLayout ==
  \A f \in [DOMAIN offset -> 0 .. Limit] : Greedy(f) <=> f = offset

(* What is placed comes before what is not, and lies at its greedy offset. *)
InOrder ==
  /\ \A i \in DOMAIN offset, j \in Unplaced : Earlier(i, j)
  /\ current # None => \A j \in Unplaced \ {current} : Earlier(current, j)

LayoutInv ==
  /\ PlacementInv
  /\ IsFiniteSet(DOMAIN logical)
  /\ offset = [i \in DOMAIN offset |-> offset[i]]
  /\ InOrder
  /\ Greedy(offset)

LEMMA TicksFinite ==
  ASSUME NEW b
  PROVE  Cardinality(Occupied(b)) \in Nat
<1>1. IsFiniteSet(0 .. MaxTick)
  BY PlacementAssumption, FS_Interval
<1>2. Occupied(b) \subseteq 0 .. MaxTick
  BY DEF Occupied
<1> QED BY <1>1, <1>2, FS_Subset, FS_CardinalityType

(* The order of placement is strict, and total, on an admitted list.       *)
LEMMA EarlierStrict ==
  ASSUME PlacementInv, result \notin {"admitting", "invalid"}
  PROVE  /\ \A i \in DOMAIN logical : ~Earlier(i, i)
         /\ \A i, j \in DOMAIN logical : ~(Earlier(i, j) /\ Earlier(j, i))
         /\ \A i, j, k \in DOMAIN logical :
              Earlier(i, j) /\ Earlier(j, k) => Earlier(i, k)
         /\ \A i, j \in DOMAIN logical : i # j => Earlier(i, j) \/ Earlier(j, i)
<1> DEFINE life(i) == Cardinality(Occupied(logical[i]))
<1>1. \A i \in DOMAIN logical : /\ logical[i].priority \in Nat
                                /\ logical[i].size \in Nat
                                /\ logical[i].id \in Nat
                                /\ life(i) \in Nat
  BY TicksFinite DEF PlacementInv, PlanTypeOK, LogicalBuffer
<1>2. \A i, j \in DOMAIN logical : i # j => logical[i].id # logical[j].id
  BY DEF PlacementInv, Admitted, Admissible
<1>3. \A i, j : Earlier(i, j) <=>
        \/ logical[i].priority > logical[j].priority
        \/ logical[i].priority = logical[j].priority /\ logical[i].size > logical[j].size
        \/ /\ logical[i].priority = logical[j].priority
           /\ logical[i].size = logical[j].size /\ life(i) > life(j)
        \/ /\ logical[i].priority = logical[j].priority
           /\ logical[i].size = logical[j].size /\ life(i) = life(j)
           /\ logical[i].id < logical[j].id
  BY DEF Earlier
<1> HIDE DEF life
<1>4. \A i \in DOMAIN logical : ~Earlier(i, i)
  BY <1>1, <1>3
<1>5. \A i, j \in DOMAIN logical : ~(Earlier(i, j) /\ Earlier(j, i))
  BY <1>1, <1>3
<1>6. \A i, j, k \in DOMAIN logical : Earlier(i, j) /\ Earlier(j, k) => Earlier(i, k)
  BY <1>1, <1>3
<1>7. \A i, j \in DOMAIN logical : i # j => Earlier(i, j) \/ Earlier(j, i)
  BY <1>1, <1>2, <1>3
<1> QED BY <1>4, <1>5, <1>6, <1>7

(* Of any buffers there is one that is placed first.                       *)
LEMMA EarliestExists ==
  ASSUME PlacementInv, result \notin {"admitting", "invalid"},
         IsFiniteSet(DOMAIN logical),
         NEW B \in SUBSET DOMAIN logical, B # {}
  PROVE  \E i \in B : \A j \in B : ~Earlier(j, i)
<1> DEFINE Before(i) == {j \in B : Earlier(j, i)}
           T == {Before(i) : i \in B}
<1>1. IsFiniteSet(B)
  BY FS_Subset
<1>2. T \subseteq FiniteSubsetsOf(B)
  <2>1. \A i \in B : IsFiniteSet(Before(i))
    BY <1>1, FS_Subset
  <2> QED BY <2>1 DEF FiniteSubsetsOf
<1>3. T # {}
  OBVIOUS
<1>4. IsWellFoundedOn(StrictSubsetOrdering(B), FiniteSubsetsOf(B))
  BY FS_StrictSubsetOrderingWellFounded
<1> HIDE DEF T
<1>5. PICK t \in T : \A s \in T : ~(<<s, t>> \in StrictSubsetOrdering(B))
  BY <1>2, <1>3, <1>4, WFMin
<1>6. PICK i \in B : t = Before(i)
  BY <1>5 DEF T
<1>7. ASSUME NEW j \in B, Earlier(j, i)
      PROVE  FALSE
  <2>1. Before(j) \subseteq Before(i)
    BY <1>7, EarlierStrict
  <2>2. j \in Before(i) /\ j \notin Before(j)
    BY <1>7, EarlierStrict
  <2>3. Before(j) \subseteq B /\ Before(i) \subseteq B /\ Before(j) # Before(i)
    BY <2>2
  <2> HIDE DEF Before
  <2>4. <<Before(j), Before(i)>> \in StrictSubsetOrdering(B)
    BY <2>1, <2>3 DEF StrictSubsetOrdering
  <2>5. Before(j) \in T
    BY DEF T
  <2> QED BY <1>5, <1>6, <2>4, <2>5
<1> QED BY <1>7

(* Two greedy layouts agree: at the first buffer on which they differ, the *)
(* lower of the two offsets is free under the other.                       *)
LEMMA GreedyIsUnique ==
  ASSUME PlacementInv, result \notin {"admitting", "invalid"},
         IsFiniteSet(DOMAIN logical),
         NEW D \in SUBSET DOMAIN logical,
         NEW f \in [D -> Nat], Greedy(f), NEW g \in [D -> Nat], Greedy(g)
  PROVE  f = g
<1> DEFINE B == {i \in D : f[i] # g[i]}
<1>1. SUFFICES ASSUME B # {} PROVE FALSE
  OBVIOUS
<1>2. PICK i \in B : \A j \in B : ~Earlier(j, i)
  <2>1. B \in SUBSET DOMAIN logical
    OBVIOUS
  <2> HIDE DEF B
  <2> QED BY <1>1, <2>1, EarliestExists
<1>3. \A j \in D : Earlier(j, i) => f[j] = g[j]
  BY <1>2
<1>4. \A o : FreeFor(f, i, o) <=> FreeFor(g, i, o)
  BY <1>3 DEF FreeFor
<1>5. f[i] \in Nat /\ g[i] \in Nat /\ f[i] # g[i]
  BY <1>2
<1>6. /\ FreeFor(f, i, f[i]) /\ \A l \in 0 .. f[i] - 1 : ~FreeFor(f, i, l)
      /\ FreeFor(g, i, g[i]) /\ \A l \in 0 .. g[i] - 1 : ~FreeFor(g, i, l)
  BY <1>2 DEF Greedy
<1>7. CASE f[i] < g[i]
  <2>1. f[i] \in 0 .. g[i] - 1
    BY <1>5, <1>7
  <2> QED BY <2>1, <1>4, <1>6
<1>8. CASE g[i] < f[i]
  <2>1. g[i] \in 0 .. f[i] - 1
    BY <1>5, <1>8
  <2> QED BY <2>1, <1>4, <1>6
<1> QED BY <1>5, <1>7, <1>8

LEMMA LayoutInit == PlanInit => LayoutInv
<1> SUFFICES ASSUME PlanInit PROVE LayoutInv
  OBVIOUS
<1>1. offset = <<>> /\ DOMAIN offset = {} /\ current = None
  BY DEF PlanInit
<1>2. offset = [i \in DOMAIN offset |-> offset[i]]
  BY <1>1
<1>3. IsFiniteSet(DOMAIN logical)
  BY PlacementAssumption DEF PlanInit
<1> QED BY <1>1, <1>2, <1>3, InitPlacement DEF LayoutInv, InOrder, Greedy

(* The buffer that is placed comes after all that are placed, so the       *)
(* lowest offset that is free of those is its greedy one.                  *)
LEMMA PlaceKeepsLayout ==
  ASSUME LayoutInv, current # None, NEW o, Lowest(o), Place(o)
  PROVE  LayoutInv'
<1> PICK c : c = current
  OBVIOUS
<1>1. /\ c \in DOMAIN logical \ DOMAIN offset /\ result = "placing"
      /\ DOMAIN offset \subseteq DOMAIN logical
      /\ o \in Nat /\ Size \in Nat /\ Size = logical[c].size
      /\ Alignment = logical[c].alignment
      /\ logical' = logical /\ current' = None
      /\ offset' = [j \in DOMAIN offset \union {c} |-> IF j = c THEN o ELSE offset[j]]
      /\ DOMAIN offset' = DOMAIN offset \union {c}
      /\ offset'[c] = o
      /\ \A j \in DOMAIN offset : offset'[j] = offset[j]
  BY BufferTypes DEF LayoutInv, PlacementInv, PlanTypeOK, Idle, Lowest, Place, Size,
                     Alignment, config
<1>2. /\ \A i, j : Earlier(i, j)' <=> Earlier(i, j)
      /\ \A i, j : Together(i, j)' <=> Together(i, j)
      /\ Unplaced' = Unplaced \ {c} /\ c \in Unplaced
  BY <1>1 DEF Earlier, Together, Unplaced
<1>3. /\ \A j \in DOMAIN offset : Earlier(j, c) /\ ~Earlier(c, j)
      /\ ~Earlier(c, c)
  BY <1>1, <1>2, EarlierStrict DEF LayoutInv, InOrder, Unplaced
<1>4. InOrder'
  BY <1>1, <1>2 DEF LayoutInv, InOrder
<1>5. ASSUME NEW i \in DOMAIN offset, NEW p
      PROVE  FreeFor(offset, i, p)' <=> FreeFor(offset, i, p)
  <2>1. \A j \in DOMAIN offset' : Earlier(j, i) => j \in DOMAIN offset
    BY <1>1, <1>3
  <2> QED
    BY <2>1, <1>1, <1>2 DEF FreeFor
<1>6. ASSUME NEW p
      PROVE  FreeFor(offset, c, p)' <=>
               /\ p % Alignment = 0
               /\ p + Size <= Limit
               /\ \A j \in Conflicts(c) : p + Size <= Start(j) \/ End(j) <= p
  <2>1. \A j \in DOMAIN offset' : Earlier(j, c) <=> j \in DOMAIN offset
    BY <1>1, <1>3
  <2>2. \A j \in DOMAIN offset : Together(c, j) <=> j \in Conflicts(c)
    BY DEF Conflicts
  <2>3. Conflicts(c) \subseteq DOMAIN offset
    BY DEF Conflicts
  <2> QED
    BY <2>1, <2>2, <2>3, <1>1, <1>2 DEF FreeFor, Start, End
<1>7. FreeFor(offset, c, o)'
  BY <1>6 DEF Lowest
<1>8. ASSUME NEW l \in 0 .. o - 1
      PROVE  ~FreeFor(offset, c, l)'
  <2>1. l \in Nat /\ l < o
    BY <1>1
  <2>2. SUFFICES ASSUME l % Alignment = 0
                 PROVE  \E j \in Conflicts(c) : ~(l + Size <= Start(j) \/ End(j) <= l)
    BY <1>6
  <2>3. Blocked(l)
    BY <2>1, <2>2 DEF Lowest
  <2>4. PICK j \in Conflicts(c) : l < End(j) /\ Start(j) < l + Size
    BY <2>3 DEF Blocked
  <2>5. Start(j) \in Nat /\ End(j) \in Nat
    BY BufferTypes DEF LayoutInv, Conflicts
  <2> QED BY <2>1, <2>4, <2>5, <1>1
<1>9. Greedy(offset)'
  <2> SUFFICES ASSUME NEW i \in DOMAIN offset'
               PROVE  /\ FreeFor(offset, i, offset[i])'
                      /\ \A l \in 0 .. offset'[i] - 1 : ~FreeFor(offset, i, l)'
    BY DEF Greedy, FreeFor
  <2>1. CASE i = c
    BY <2>1, <1>1, <1>7, <1>8 DEF FreeFor
  <2>2. CASE i \in DOMAIN offset
    <3> PICK p : p = offset[i]
      OBVIOUS
    <3>1. FreeFor(offset, i, p) /\ \A l \in 0 .. p - 1 : ~FreeFor(offset, i, l)
      BY <2>2 DEF LayoutInv, Greedy
    <3>2. p = offset'[i]
      BY <2>2, <1>1
    <3>3. FreeFor(offset, i, p)' /\ \A l \in 0 .. p - 1 : ~FreeFor(offset, i, l)'
      BY <2>2, <3>1, <1>5
    <3> QED BY <3>2, <3>3 DEF FreeFor
  <2> QED BY <2>1, <2>2, <1>1
<1>10. PlacementInv'
  BY PlaceKeeps DEF LayoutInv
<1>11. offset' = [i \in DOMAIN offset' |-> offset'[i]]
  BY <1>1
<1>12. IsFiniteSet(DOMAIN logical')
  BY <1>1 DEF LayoutInv
<1> QED BY <1>4, <1>9, <1>10, <1>11, <1>12 DEF LayoutInv

LEMMA LayoutStep ==
  ASSUME LayoutInv, [PlanNext]_planVars
  PROVE  LayoutInv'
<1>1. PlacementInv /\ PlacementInv'
  BY NextKeeps DEF LayoutInv
<1>2. ASSUME logical' = logical, offset' = offset,
             current' = current \/ current' = None
             \/ \A j \in Unplaced \ {current'} : Earlier(current', j)
      PROVE  LayoutInv'
  <2>1. /\ \A i, j : Earlier(i, j)' <=> Earlier(i, j)
        /\ \A i, p : FreeFor(offset, i, p)' <=> FreeFor(offset, i, p)
        /\ Unplaced' = Unplaced
    BY <1>2 DEF Earlier, Together, Unplaced, FreeFor
  <2>2. InOrder'
    BY <1>2, <2>1 DEF LayoutInv, InOrder
  <2>3. Greedy(offset)'
    BY <1>2, <2>1 DEF LayoutInv, Greedy, FreeFor
  <2> QED BY <1>1, <1>2, <2>2, <2>3 DEF LayoutInv
<1>3. CASE SweepPlace
  BY <1>1, <1>3, MetalFinds, PlaceKeepsLayout DEF SweepPlace, Searching
<1>4. CASE RescanPlace
  BY <1>1, <1>4, CudaFinds, PlaceKeepsLayout DEF RescanPlace, Rescannable, Searching
<1>5. CASE PlanStep
  <2>1. \/ SweepPlace \/ RescanPlace
        \/ /\ logical' = logical /\ offset' = offset
           /\ \/ current' = current \/ current' = None
              \/ \A j \in Unplaced \ {current'} : Earlier(current', j)
    BY <1>5 DEF PlanStep, Admit, Choose, SweepPast, SweepOverflow, RescanPast,
                RescanOverflow, RescanTrap, FinishMetal, FinishCuda, Fail, search
  <2> QED BY <2>1, <1>2, <1>3, <1>4
<1>6. CASE \E t \in 0 .. MaxTick - 1 : Project(t)
  <2>1. PICK t \in 0 .. MaxTick - 1 : Project(t)
    BY <1>6
  <2>2. /\ offset' = <<>> /\ DOMAIN offset' = {}
        /\ offset' = [i \in DOMAIN offset' |-> offset'[i]]
        /\ DOMAIN logical' \subseteq DOMAIN logical
        /\ current' = None
    BY <2>1, <1>1 DEF Project, search, PlacementInv, Idle
  <2>3. IsFiniteSet(DOMAIN logical')
    BY <2>2, FS_Subset DEF LayoutInv
  <2> QED BY <2>2, <2>3, <1>1 DEF LayoutInv, InOrder, Greedy
<1>7. CASE UNCHANGED planVars
  BY <1>2, <1>7 DEF planVars, search
<1> QED BY <1>5, <1>6, <1>7 DEF PlanNext

(* Both planners place the buffers of a list at the one layout in which    *)
(* each lies at the lowest aligned offset that is free of those before it, *)
(* by priority, size, lifetime and id: the layout follows from the list,   *)
(* not from the search (arena_plan.zig 165 and 183-206, arena.zig 50 and   *)
(* 221-248).                                                               *)
THEOREM LayoutFollowsFromList == PlanSpec => []TheOnlyLayout
<1>1. LayoutInv => TheOnlyLayout
  <2> SUFFICES ASSUME LayoutInv, NEW f \in [DOMAIN offset -> 0 .. Limit]
               PROVE  Greedy(f) <=> f = offset
    BY DEF TheOnlyLayout
  <2>1. Greedy(offset) /\ PlacementInv /\ IsFiniteSet(DOMAIN logical)
    BY DEF LayoutInv
  <2>2. f \in [DOMAIN offset -> Nat] /\ offset \in [DOMAIN offset -> Nat]
    BY PlacementAssumption DEF LayoutInv, PlacementInv, PlanTypeOK
  <2>3. DOMAIN offset \in SUBSET DOMAIN logical
    BY DEF LayoutInv, PlacementInv, PlanTypeOK
  <2>4. CASE result \in {"admitting", "invalid"}
    <3>1. DOMAIN offset = {}
      BY <2>1, <2>4 DEF PlacementInv, Idle
    <3> QED BY <2>1, <2>2, <3>1
  <2>5. CASE result \notin {"admitting", "invalid"}
    BY <2>1, <2>2, <2>3, <2>5, GreedyIsUnique
  <2> QED BY <2>4, <2>5
<1> QED BY <1>1, LayoutInit, LayoutStep, PTL DEF PlanSpec

--------------------------------------------------------------------------------
(* What the results mean.                                                  *)

NoFit == \A o \in Nat : o % Alignment = 0 /\ o + Size <= Limit => Blocked(o)

(* Metal rounds up by adding first, and so gives up the last addresses     *)
(* before the top.                                                         *)
NearTop ==
  /\ planner = "metal"
  /\ \E j \in Conflicts(current) : AlignOverflows(End(j), Alignment)

OverflowMeansFull ==
  [][current # None /\ result' = "overflow" => NoFit \/ NearTop]_planVars

(* A search that answers overflow has found that no offset is left for the *)
(* buffer, but that Metal also answers it within an alignment of the last  *)
(* address (arena_plan.zig 183-206, arena.zig 221-248).                    *)
THEOREM OverflowIsFinal == PlanSpec => OverflowMeansFull
<1>1. ASSUME PlacementInv, [PlanNext]_planVars, current # None, result' = "overflow"
      PROVE  NoFit \/ NearTop
  <2>1. /\ result = "placing" /\ current \in DOMAIN logical /\ candidate \in Nat
        /\ Size \in Nat /\ ahead \subseteq DOMAIN offset
    BY <1>1, BufferTypes DEF PlacementInv, PlanTypeOK, Idle, Size
  <2>2. SweepOverflow \/ RescanOverflow
    BY <1>1, <2>1 DEF PlanNext, PlanStep, planVars, Admit, Choose, SweepPast, SweepPlace,
                      RescanPast, RescanPlace, RescanTrap, FinishMetal, FinishCuda, Placed,
                      Place, Fail, Project
  <2>3. CASE SweepOverflow
    <3>1. /\ planner = "metal" /\ ahead \subseteq Conflicts(current)
          /\ \A o \in Nat : o < candidate /\ o % Alignment = 0 => Blocked(o)
      BY <1>1, <2>3 DEF SweepOverflow, Searching, PlacementInv, Searched
    <3>2. CASE candidate + Size > Limit
      <4>1. \A o \in Nat : o + Size <= Limit => o < candidate
        BY <2>1, <3>2, PlacementAssumption
      <4> QED BY <3>1, <4>1 DEF NoFit
    <3>3. CASE ~(candidate + Size > Limit)
      BY <2>3, <3>1, <3>3 DEF SweepOverflow, NearTop
    <3> QED BY <3>2, <3>3
  <2>4. CASE RescanOverflow
    <3>1. /\ CudaAligned \in Nat /\ CudaAligned + Size > Limit
          /\ \A l \in Nat : l < CudaAligned /\ l % Alignment = 0 => Blocked(l)
      BY <1>1, <2>4, CudaAlignedLemma DEF RescanOverflow
    <3>2. \A o \in Nat : o + Size <= Limit => o < CudaAligned
      BY <2>1, <3>1, PlacementAssumption
    <3> QED BY <3>1, <3>2 DEF NoFit
  <2> QED BY <2>2, <2>3, <2>4
<1> QED BY <1>1, PlacementInvariant, PTL DEF PlanSpec, OverflowMeansFull

PlannedMeansPlaced ==
  result = "planned" => /\ DOMAIN offset = DOMAIN logical
                        /\ planner = "metal" => total <= budget /\ total % Page = 0

(* A plan that is returned has placed every buffer of its list; that of    *)
(* Metal is a whole number of pages within the budget (arena_plan.zig      *)
(* build, arena.zig Plan.init).                                            *)
THEOREM PlansAreWhole == PlanSpec => []PlannedMeansPlaced
<1>1. PlanInit => PlannedMeansPlaced
  BY DEF PlanInit, PlannedMeansPlaced
<1>2. ASSUME PlacementInv, PlannedMeansPlaced, [PlanNext]_planVars
      PROVE  PlannedMeansPlaced'
  <2>1. CASE UNCHANGED planVars
    BY <1>2, <2>1 DEF planVars, config, PlannedMeansPlaced
  <2>2. CASE FinishMetal
    <3>1. AlignForward(total, Page) % Page = 0 /\ AlignForward(total, Page) \in Nat
      BY <1>2, AlignLemma, PlacementAssumption DEF PlacementInv, PlanTypeOK
    <3>2. budget \in Nat
      BY <1>2, PlacementAssumption DEF PlacementInv, PlanTypeOK
    <3>3. /\ DOMAIN offset = DOMAIN logical /\ offset' = offset /\ logical' = logical
          /\ budget' = budget
      BY <1>2, <2>2 DEF FinishMetal, Placed, Unplaced, config, PlacementInv, PlanTypeOK
    <3>4. result' = "planned" => /\ total' = AlignForward(total, Page)
                                 /\ AlignForward(total, Page) <= budget
      BY <2>2, <3>1, <3>2 DEF FinishMetal
    <3> QED BY <3>1, <3>3, <3>4 DEF PlannedMeansPlaced
  <2>3. CASE FinishCuda
    BY <1>2, <2>3 DEF FinishCuda, Placed, Unplaced, config, PlannedMeansPlaced,
                      PlacementInv, PlanTypeOK
  <2>4. CASE PlanNext /\ ~FinishMetal /\ ~FinishCuda
    <3>1. result' # "planned"
      BY <2>4 DEF PlanNext, PlanStep, Admit, Choose, SweepPast, SweepPlace, SweepOverflow,
                  RescanPast, RescanPlace, RescanOverflow, RescanTrap, Searching,
                  Rescannable, Place, Fail, Project
    <3> QED BY <3>1 DEF PlannedMeansPlaced
  <2> QED BY <1>2, <2>1, <2>2, <2>3, <2>4
<1> QED BY <1>1, <1>2, PlacementInvariant, PTL DEF PlanSpec

--------------------------------------------------------------------------------
(* Why planning ends: what LoopsEnd says, but for fairness.                *)

(* What a search has still to look at.                                     *)
Left == IF planner = "metal" THEN ahead
                             ELSE {j \in Conflicts(current) : End(j) > candidate}

Wraps == /\ planner = "cuda" /\ ~checked /\ current # None
         /\ AlignOverflows(candidate, Alignment)

Smaller(S, T) == S \subseteq T /\ S # T

(* The measure that goes down: the step of the call, then the buffers not  *)
(* placed, then whether one is chosen, then what its search has left.      *)
Advances ==
  \/ result = "admitting" /\ result' # "admitting"
  \/ result = "placing" /\ Ended'
  \/ result = "placing" /\ result' = "placing" /\ Smaller(Unplaced', Unplaced)
  \/ /\ result = "placing" /\ result' = "placing" /\ Unplaced' = Unplaced
     /\ \/ current = None /\ current' # None
        \/ /\ current # None /\ current' = current
           /\ Wraps \/ Smaller(Left', Left)

PlanAdvances == [][PlanStep => Advances]_planVars

LEMMA PlanStepAdvances ==
  ASSUME PlacementInv, PlanStep
  PROVE  Advances
<1>1. \/ Admit \/ \E i \in Unplaced : Choose(i)
      \/ \E j \in ahead : SweepPast(j)
      \/ SweepPlace \/ SweepOverflow
      \/ \E j \in DOMAIN offset : RescanPast(j)
      \/ RescanPlace \/ RescanOverflow \/ RescanTrap
      \/ FinishMetal \/ FinishCuda
  BY DEF PlanStep
<1>2. CASE Admit
  BY <1>2 DEF Admit, Advances
<1>3. CASE \E i \in Unplaced : Choose(i)
  BY <1>3 DEF Choose, Advances, Unplaced, PlacementInv, PlanTypeOK
<1>4. CASE \E j \in ahead : SweepPast(j)
  <2>1. /\ current # None /\ planner = "metal" /\ result = "placing"
        /\ current' = current /\ planner' = planner /\ result' = result
        /\ Unplaced' = Unplaced
        /\ ahead' \subseteq ahead /\ ahead' # ahead
    BY <1>4 DEF SweepPast, Searching, config, Unplaced
  <2> QED BY <2>1 DEF Advances, Left, Smaller
<1>5. CASE \E o : Place(o) /\ current # None /\ result = "placing"
  <2>1. PICK o : Place(o) /\ current # None /\ result = "placing"
    BY <1>5
  <2>2. /\ current \in Unplaced /\ result' = "placing"
        /\ logical' = logical /\ DOMAIN offset' = DOMAIN offset \union {current}
    BY <2>1 DEF Place, PlacementInv, PlanTypeOK, Idle, Unplaced
  <2>3. Unplaced' = Unplaced \ {current}
    BY <2>2 DEF Unplaced
  <2> QED BY <2>1, <2>2, <2>3 DEF Advances, Smaller
<1>6. CASE SweepPlace \/ RescanPlace
  BY <1>5, <1>6 DEF SweepPlace, RescanPlace, Searching, Rescannable
<1>7. CASE SweepOverflow \/ RescanOverflow \/ RescanTrap
  BY <1>7 DEF SweepOverflow, RescanOverflow, RescanTrap, Searching, Rescannable, Fail,
              Advances, Ended
<1>8. CASE \E j \in DOMAIN offset : RescanPast(j)
  <2>1. PICK j \in DOMAIN offset : RescanPast(j)
    BY <1>8
  <2>2. /\ Rescannable /\ planner = "cuda" /\ current # None /\ result = "placing"
        /\ current' = current /\ planner' = planner /\ result' = result
        /\ logical' = logical /\ offset' = offset /\ Unplaced' = Unplaced
        /\ candidate' = End(j) /\ candidate \in Nat /\ End(j) \in Nat
        /\ j \in Conflicts(current) /\ CudaAligned < End(j)
        /\ \A k \in Conflicts(current) : End(k) \in Nat
        /\ Alignment \in Nat \ {0}
    BY <2>1, BufferTypes DEF RescanPast, Rescannable, Searching, config, Unplaced, Blockers,
          Conflicts, PlacementInv, PlanTypeOK, Alignment
  <2>3. CASE AlignOverflows(candidate, Alignment)
    BY <2>2, <2>3 DEF Advances, Wraps, Rescannable
  <2>4. CASE ~AlignOverflows(candidate, Alignment)
    <3>1. candidate <= CudaAligned /\ CudaAligned \in Nat
      BY <2>2, <2>4, AlignLemma DEF CudaAligned
    <3>2. candidate < End(j)
      BY <3>1, <2>2
    <3>3. Left = {k \in Conflicts(current) : End(k) > candidate}
      BY <2>2 DEF Left
    <3>4. Left' = {k \in Conflicts(current) : End(k) > End(j)}
      BY <2>2 DEF Left, Conflicts, Together, End
    <3>5. j \in Left /\ j \notin Left'
      BY <3>2, <3>3, <3>4, <2>2
    <3>6. Left' \subseteq Left
      BY <3>2, <3>3, <3>4, <2>2
    <3> QED BY <2>2, <3>5, <3>6 DEF Advances, Smaller
  <2> QED BY <2>3, <2>4
<1>9. CASE FinishMetal \/ FinishCuda
  BY <1>9, FinishKeeps DEF FinishMetal, FinishCuda, Placed, Advances, Ended
<1> QED BY <1>1, <1>2, <1>3, <1>4, <1>6, <1>7, <1>8, <1>9

(* Every step of a planner brings its end nearer, and a search looks at    *)
(* each conflicting placement once at most; only the CUDA search of a      *)
(* build that lets the alignment wrap may look at one again                *)
(* (arena_plan.zig 183-206, arena.zig 221-248).                            *)
THEOREM PlanningAdvances == PlanSpec => PlanAdvances
<1>1. PlacementInv => (PlanStep => Advances)
  BY PlanStepAdvances
<1> QED BY <1>1, PlacementInvariant, PTL DEF PlanSpec, PlanAdvances

================================================================================
