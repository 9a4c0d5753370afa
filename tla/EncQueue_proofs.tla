---------------------------- MODULE EncQueue_proofs ----------------------------
(***************************************************************************)
(* The queues between the pre-encode threads and the encode group          *)
(* implement FrameChannel, for every number of threads and frames and for  *)
(* every look-ahead.                                                       *)
(***************************************************************************)
EXTENDS PreEncode_proofs

-----------------------------------------------------------------------------
(* A queue, and what its buffers contain, as sets of frames.               *)

FillingOf(q) == {q.seq[b] : b \in Filling(q)}
WaitingOf(q, c) == {c[b] : b \in Waiting(q)}
LentOf(q, c) == {c[b] : b \in Lent(q)}

(* Every buffer in use has a frame of its own, and contains it once it is  *)
(* given up.                                                               *)
InOrder(q, c, bufs) ==
  /\ q \in QueueState(bufs)
  /\ \A b \in bufs : q.produced[b] => q.used[b] /\ c[b] = q.seq[b]
  /\ \A b \in bufs : q.used[b] => q.seq[b] < q.lastProd
  /\ \A a, b \in bufs : q.used[a] /\ q.used[b] /\ q.seq[a] = q.seq[b] => a = b

LEMMA Members ==
  ASSUME NEW bufs, NEW q \in QueueState(bufs)
  PROVE  /\ Filling(q) = {b \in bufs : q.used[b] /\ ~q.produced[b]}
         /\ Waiting(q) = {b \in bufs : q.produced[b] /\ q.seq[b] >= q.lastCons}
         /\ Lent(q) = {b \in bufs : q.produced[b] /\ q.seq[b] < q.lastCons}
         /\ q.seq \in [bufs -> Int] /\ q.lastProd \in Nat /\ q.lastCons \in Nat
<1>1. DOMAIN q.used = bufs
  BY DEF QueueState
<1>2. q.seq \in [bufs -> Int] /\ q.lastProd \in Nat /\ q.lastCons \in Nat
  BY DEF QueueState
<1> QED BY <1>1, <1>2 DEF Filling, Waiting, Lent

(* A frame that is under way has a buffer, and no two have the same one.   *)
LEMMA Owners ==
  ASSUME NEW bufs, NEW q, NEW c, InOrder(q, c, bufs)
  PROVE  /\ \A f \in FillingOf(q) : \E b \in bufs : q.used[b] /\ ~q.produced[b] /\ q.seq[b] = f
         /\ \A f \in WaitingOf(q, c) : \E b \in bufs :
              q.used[b] /\ q.produced[b] /\ q.seq[b] = f /\ f >= q.lastCons
         /\ \A f \in LentOf(q, c) : \E b \in bufs :
              q.used[b] /\ q.produced[b] /\ q.seq[b] = f /\ f < q.lastCons
         /\ \A b \in bufs : /\ q.used[b] /\ ~q.produced[b] => q.seq[b] \in FillingOf(q)
                            /\ q.produced[b] /\ q.seq[b] >= q.lastCons => q.seq[b] \in WaitingOf(q, c)
                            /\ q.produced[b] /\ q.seq[b] < q.lastCons => q.seq[b] \in LentOf(q, c)
<1>1. /\ Filling(q) = {b \in bufs : q.used[b] /\ ~q.produced[b]}
      /\ Waiting(q) = {b \in bufs : q.produced[b] /\ q.seq[b] >= q.lastCons}
      /\ Lent(q) = {b \in bufs : q.produced[b] /\ q.seq[b] < q.lastCons}
  BY Members DEF InOrder
<1>2. \A b \in bufs : q.produced[b] => q.used[b] /\ c[b] = q.seq[b]
  BY DEF InOrder
<1>3. /\ \A f \in FillingOf(q) : \E b \in bufs : q.used[b] /\ ~q.produced[b] /\ q.seq[b] = f
      /\ \A b \in bufs : q.used[b] /\ ~q.produced[b] => q.seq[b] \in FillingOf(q)
  BY <1>1 DEF FillingOf
<1>4. /\ \A f \in WaitingOf(q, c) : \E b \in bufs :
           q.used[b] /\ q.produced[b] /\ q.seq[b] = f /\ f >= q.lastCons
      /\ \A b \in bufs : q.produced[b] /\ q.seq[b] >= q.lastCons => q.seq[b] \in WaitingOf(q, c)
  BY <1>1, <1>2 DEF WaitingOf
<1>5. /\ \A f \in LentOf(q, c) : \E b \in bufs :
           q.used[b] /\ q.produced[b] /\ q.seq[b] = f /\ f < q.lastCons
      /\ \A b \in bufs : q.produced[b] /\ q.seq[b] < q.lastCons => q.seq[b] \in LentOf(q, c)
  BY <1>1, <1>2 DEF LentOf
<1> QED BY <1>3, <1>4, <1>5

-----------------------------------------------------------------------------
(* The queue's operations.                                                 *)

(* A free buffer is left when fewer frames are under way than there are    *)
(* buffers.                                                                *)
LEMMA RoomLeft ==
  ASSUME NEW bufs, IsFiniteSet(bufs), NEW q, NEW c, InOrder(q, c, bufs),
         NEW b \in bufs, ~q.used[b]
  PROVE  Cardinality(FillingOf(q) \cup WaitingOf(q, c) \cup LentOf(q, c)) < Cardinality(bufs)
<1> DEFINE used == {x \in bufs : q.used[x]}
           under == FillingOf(q) \cup WaitingOf(q, c) \cup LentOf(q, c)
           seq == [x \in used |-> q.seq[x]]
<1>1. used \in SUBSET (bufs \ {b}) /\ IsFiniteSet(bufs \ {b})
      /\ Cardinality(bufs \ {b}) = Cardinality(bufs) - 1
  BY FS_RemoveElement
<1>2. IsFiniteSet(used) /\ Cardinality(used) <= Cardinality(bufs) - 1
  BY <1>1, FS_Subset
<1>3. \A f \in under : \E x \in used : q.seq[x] = f
  BY Owners
<1>4. \A x \in used : q.seq[x] \in under
  <2>1. \A x \in bufs : q.seq[x] \in Int /\ q.lastCons \in Int
    BY Members DEF InOrder
  <2>2. \A x \in bufs : q.used[x] =>
          \/ ~q.produced[x]
          \/ q.produced[x] /\ q.seq[x] >= q.lastCons
          \/ q.produced[x] /\ q.seq[x] < q.lastCons
    BY <2>1
  <2> QED BY <2>2, Owners
<1>5. seq \in Surjection(used, under)
  BY <1>3, <1>4 DEF Surjection
<1>6. IsFiniteSet(under) /\ Cardinality(under) <= Cardinality(used)
  BY <1>2, <1>5, FS_Surjection
<1>7. Cardinality(bufs) \in Nat /\ Cardinality(used) \in Nat /\ Cardinality(under) \in Nat
  BY <1>2, <1>6, FS_CardinalityType
<1> HIDE DEF used, under
<1> QED BY <1>2, <1>6, <1>7 DEF under

LEMMA Taken ==
  ASSUME NEW bufs, NEW q, NEW c, InOrder(q, c, bufs), NEW b \in bufs, ~q.used[b],
         NEW q2, q2 = TakeBuf(q, b), NEW c2, \A x \in bufs \ {b} : c2[x] = c[x]
  PROVE  /\ FillingOf(q2) = FillingOf(q) \cup {q.lastProd}
         /\ WaitingOf(q2, c2) = WaitingOf(q, c) /\ LentOf(q2, c2) = LentOf(q, c)
         /\ q2.lastProd = q.lastProd + 1 /\ q2.lastCons = q.lastCons
         /\ q.lastProd \notin FillingOf(q) \cup WaitingOf(q, c) \cup LentOf(q, c)
<1>0. q \in QueueState(bufs) /\ q2 \in QueueState(bufs) /\ ~q.produced[b]
  BY QueueTypes DEF InOrder
<1>1. /\ Filling(q) = {x \in bufs : q.used[x] /\ ~q.produced[x]}
      /\ Waiting(q) = {x \in bufs : q.produced[x] /\ q.seq[x] >= q.lastCons}
      /\ Lent(q) = {x \in bufs : q.produced[x] /\ q.seq[x] < q.lastCons}
      /\ Filling(q2) = {x \in bufs : q2.used[x] /\ ~q2.produced[x]}
      /\ Waiting(q2) = {x \in bufs : q2.produced[x] /\ q2.seq[x] >= q2.lastCons}
      /\ Lent(q2) = {x \in bufs : q2.produced[x] /\ q2.seq[x] < q2.lastCons}
      /\ q.seq \in [bufs -> Int] /\ q.lastCons \in Nat
  BY <1>0, Members
<1>2. /\ \A x \in bufs : /\ q2.used[x] <=> x = b \/ q.used[x]
                         /\ q2.seq[x] = IF x = b THEN q.lastProd ELSE q.seq[x]
                         /\ q2.produced[x] <=> q.produced[x]
      /\ q2.lastProd = q.lastProd + 1 /\ q2.lastCons = q.lastCons
  BY <1>0 DEF TakeBuf, QueueState
<1>3. Filling(q2) = Filling(q) \cup {b} /\ b \notin Filling(q)
  BY <1>0, <1>1, <1>2
<1>4. Waiting(q2) = Waiting(q) /\ b \notin Waiting(q) /\ Lent(q2) = Lent(q) /\ b \notin Lent(q)
      /\ Waiting(q) \subseteq bufs /\ Lent(q) \subseteq bufs /\ Filling(q) \subseteq bufs
  BY <1>0, <1>1, <1>2
<1>5. FillingOf(q2) = FillingOf(q) \cup {q.lastProd}
  <2>1. \A x \in Filling(q) : q2.seq[x] = q.seq[x]
    BY <1>2, <1>3, <1>4
  <2>2. q2.seq[b] = q.lastProd
    BY <1>2
  <2> QED BY <1>3, <2>1, <2>2 DEF FillingOf
<1>6. WaitingOf(q2, c2) = WaitingOf(q, c)
  BY <1>4 DEF WaitingOf
<1>7. LentOf(q2, c2) = LentOf(q, c)
  BY <1>4 DEF LentOf
<1>8. q.lastProd \notin FillingOf(q) \cup WaitingOf(q, c) \cup LentOf(q, c)
  <2>1. \A x \in bufs : q.used[x] => q.seq[x] # q.lastProd
    BY <1>0, Members DEF InOrder
  <2> QED BY <2>1, Owners
<1> QED BY <1>2, <1>5, <1>6, <1>7, <1>8

LEMMA Given ==
  ASSUME NEW bufs, NEW q, NEW c, InOrder(q, c, bufs), NEW b \in bufs, q.used[b], ~q.produced[b],
         q.seq[b] >= q.lastCons, NEW q2, q2 = SetProduced(q, b),
         NEW c2, c2[b] = q.seq[b], \A x \in bufs \ {b} : c2[x] = c[x]
  PROVE  /\ q.seq[b] \in FillingOf(q)
         /\ FillingOf(q2) = FillingOf(q) \ {q.seq[b]}
         /\ WaitingOf(q2, c2) = WaitingOf(q, c) \cup {q.seq[b]}
         /\ LentOf(q2, c2) = LentOf(q, c)
         /\ q2.lastProd = q.lastProd /\ q2.lastCons = q.lastCons
<1>0. q \in QueueState(bufs) /\ q2 \in QueueState(bufs)
  BY QueueTypes DEF InOrder
<1>1. /\ Filling(q) = {x \in bufs : q.used[x] /\ ~q.produced[x]}
      /\ Waiting(q) = {x \in bufs : q.produced[x] /\ q.seq[x] >= q.lastCons}
      /\ Lent(q) = {x \in bufs : q.produced[x] /\ q.seq[x] < q.lastCons}
      /\ Filling(q2) = {x \in bufs : q2.used[x] /\ ~q2.produced[x]}
      /\ Waiting(q2) = {x \in bufs : q2.produced[x] /\ q2.seq[x] >= q2.lastCons}
      /\ Lent(q2) = {x \in bufs : q2.produced[x] /\ q2.seq[x] < q2.lastCons}
      /\ q.seq \in [bufs -> Int] /\ q.lastCons \in Nat
  BY <1>0, Members
<1>2. /\ q2.used = q.used /\ q2.seq = q.seq
      /\ \A x \in bufs : q2.produced[x] <=> x = b \/ q.produced[x]
      /\ q2.lastProd = q.lastProd /\ q2.lastCons = q.lastCons
  BY <1>0 DEF SetProduced, QueueState
<1>3. ~(q.seq[b] < q.lastCons)
  BY <1>1
<1>4. Filling(q2) = Filling(q) \ {b} /\ b \in Filling(q)
  BY <1>0, <1>1, <1>2
<1>5. Waiting(q2) = Waiting(q) \cup {b} /\ b \notin Waiting(q)
  BY <1>0, <1>1, <1>2
<1>6. Lent(q2) = Lent(q) /\ b \notin Lent(q)
  BY <1>0, <1>1, <1>2, <1>3
<1>7. Waiting(q) \subseteq bufs /\ Lent(q) \subseteq bufs
  BY <1>1
<1>8. \A x \in Filling(q) : q.seq[x] = q.seq[b] => x = b
  BY <1>1 DEF InOrder
<1>9. q.seq[b] \in FillingOf(q) /\ FillingOf(q2) = FillingOf(q) \ {q.seq[b]}
  BY <1>2, <1>4, <1>8 DEF FillingOf
<1>10. WaitingOf(q2, c2) = WaitingOf(q, c) \cup {q.seq[b]}
  BY <1>5, <1>7 DEF WaitingOf
<1>11. LentOf(q2, c2) = LentOf(q, c)
  BY <1>6, <1>7 DEF LentOf
<1> QED BY <1>2, <1>9, <1>10, <1>11

LEMMA Got ==
  ASSUME NEW bufs, NEW q, NEW c, InOrder(q, c, bufs), NEW b \in bufs, q.produced[b],
         q.seq[b] = q.lastCons, NEW q2, q2 = GetBuf(q)
  PROVE  /\ q.lastCons \in WaitingOf(q, c)
         /\ FillingOf(q2) = FillingOf(q)
         /\ WaitingOf(q2, c) = WaitingOf(q, c) \ {q.lastCons}
         /\ LentOf(q2, c) = LentOf(q, c) \cup {q.lastCons}
         /\ q2.lastProd = q.lastProd /\ q2.lastCons = q.lastCons + 1
<1>0. q \in QueueState(bufs) /\ q2 \in QueueState(bufs) /\ q.used[b] /\ c[b] = q.lastCons
  BY QueueTypes DEF InOrder
<1>1. /\ Filling(q) = {x \in bufs : q.used[x] /\ ~q.produced[x]}
      /\ Waiting(q) = {x \in bufs : q.produced[x] /\ q.seq[x] >= q.lastCons}
      /\ Lent(q) = {x \in bufs : q.produced[x] /\ q.seq[x] < q.lastCons}
      /\ Filling(q2) = {x \in bufs : q2.used[x] /\ ~q2.produced[x]}
      /\ Waiting(q2) = {x \in bufs : q2.produced[x] /\ q2.seq[x] >= q2.lastCons}
      /\ Lent(q2) = {x \in bufs : q2.produced[x] /\ q2.seq[x] < q2.lastCons}
      /\ q.seq \in [bufs -> Int] /\ q.lastCons \in Nat
  BY <1>0, Members
<1>2. /\ q2.used = q.used /\ q2.seq = q.seq /\ q2.produced = q.produced
      /\ q2.lastProd = q.lastProd /\ q2.lastCons = q.lastCons + 1
  BY <1>0 DEF GetBuf, QueueState
<1>3. \A x \in bufs : /\ q.produced[x] => c[x] = q.seq[x]
                      /\ q.produced[x] /\ q.seq[x] = q.lastCons => x = b
  BY <1>0 DEF InOrder
<1>4. Filling(q2) = Filling(q)
  BY <1>1, <1>2
<1>5. Waiting(q2) = Waiting(q) \ {b} /\ b \in Waiting(q)
  <2>1. \A x \in bufs : q.seq[x] >= q.lastCons + 1 <=> q.seq[x] >= q.lastCons /\ q.seq[x] # q.lastCons
    BY <1>1
  <2>2. q.lastCons >= q.lastCons
    BY <1>1
  <2> QED BY <1>1, <1>2, <1>3, <2>1, <2>2
<1>6. Lent(q2) = Lent(q) \cup {b}
  <2>1. \A x \in bufs : q.seq[x] < q.lastCons + 1 <=> q.seq[x] < q.lastCons \/ q.seq[x] = q.lastCons
    BY <1>1
  <2> QED BY <1>1, <1>2, <1>3, <2>1
<1>7. \A x \in Waiting(q) : c[x] = q.lastCons => x = b
  BY <1>1, <1>3
<1>8. FillingOf(q2) = FillingOf(q)
  BY <1>2, <1>4 DEF FillingOf
<1>9. WaitingOf(q2, c) = WaitingOf(q, c) \ {q.lastCons} /\ q.lastCons \in WaitingOf(q, c)
  BY <1>0, <1>5, <1>7 DEF WaitingOf
<1>10. LentOf(q2, c) = LentOf(q, c) \cup {q.lastCons}
  BY <1>0, <1>6 DEF LentOf
<1> QED BY <1>2, <1>8, <1>9, <1>10

LEMMA Released ==
  ASSUME NEW bufs, NEW q, NEW c, InOrder(q, c, bufs), NEW b \in bufs, q.produced[b],
         q.seq[b] < q.lastCons, NEW q2, q2 = ReleaseBuf(q, b)
  PROVE  /\ q.seq[b] \in LentOf(q, c)
         /\ FillingOf(q2) = FillingOf(q) /\ WaitingOf(q2, c) = WaitingOf(q, c)
         /\ LentOf(q2, c) = LentOf(q, c) \ {q.seq[b]}
         /\ q2.lastProd = q.lastProd /\ q2.lastCons = q.lastCons
<1>0. q \in QueueState(bufs) /\ q2 \in QueueState(bufs) /\ q.used[b] /\ c[b] = q.seq[b]
  BY QueueTypes DEF InOrder
<1>1. /\ Filling(q) = {x \in bufs : q.used[x] /\ ~q.produced[x]}
      /\ Waiting(q) = {x \in bufs : q.produced[x] /\ q.seq[x] >= q.lastCons}
      /\ Lent(q) = {x \in bufs : q.produced[x] /\ q.seq[x] < q.lastCons}
      /\ Filling(q2) = {x \in bufs : q2.used[x] /\ ~q2.produced[x]}
      /\ Waiting(q2) = {x \in bufs : q2.produced[x] /\ q2.seq[x] >= q2.lastCons}
      /\ Lent(q2) = {x \in bufs : q2.produced[x] /\ q2.seq[x] < q2.lastCons}
      /\ q.seq \in [bufs -> Int] /\ q.lastCons \in Nat
  BY <1>0, Members
<1>2. /\ \A x \in bufs : /\ q2.used[x] <=> x # b /\ q.used[x]
                         /\ q2.produced[x] <=> x # b /\ q.produced[x]
      /\ q2.seq = q.seq /\ q2.lastProd = q.lastProd /\ q2.lastCons = q.lastCons
  <2>1. q2 = [q EXCEPT !.used[b] = FALSE, !.produced[b] = FALSE]
    BY DEF ReleaseBuf
  <2> QED BY <1>0, <2>1 DEF QueueState
<1>3. \A x \in bufs : /\ q.produced[x] => c[x] = q.seq[x]
                      /\ q.produced[x] /\ q.seq[x] = q.seq[b] => x = b
  BY <1>0 DEF InOrder
<1>4. ~(q.seq[b] >= q.lastCons)
  BY <1>1
<1>5. Filling(q2) = Filling(q) /\ Waiting(q2) = Waiting(q)
  BY <1>1, <1>2, <1>4
<1>6. Lent(q2) = Lent(q) \ {b} /\ b \in Lent(q)
  BY <1>1, <1>2
<1>7. \A x \in Lent(q) : c[x] = q.seq[b] => x = b
  BY <1>1, <1>3
<1>8. FillingOf(q2) = FillingOf(q)
  BY <1>2, <1>5 DEF FillingOf
<1>9. WaitingOf(q2, c) = WaitingOf(q, c)
  BY <1>5 DEF WaitingOf
<1>10. LentOf(q2, c) = LentOf(q, c) \ {q.seq[b]} /\ q.seq[b] \in LentOf(q, c)
  BY <1>0, <1>6, <1>7 DEF LentOf
<1> QED BY <1>2, <1>8, <1>9, <1>10

(* A buffer that is filled may be written to.                              *)
LEMMA Written ==
  ASSUME NEW bufs, NEW q, NEW c, InOrder(q, c, bufs),
         NEW c2, \A x \in bufs : q.produced[x] => c2[x] = c[x]
  PROVE  WaitingOf(q, c2) = WaitingOf(q, c) /\ LentOf(q, c2) = LentOf(q, c)
<1>1. /\ \A x \in Waiting(q) : x \in bufs /\ q.produced[x]
      /\ \A x \in Lent(q) : x \in bufs /\ q.produced[x]
  BY Members DEF InOrder
<1> QED BY <1>1 DEF WaitingOf, LentOf

-----------------------------------------------------------------------------
(* The queue of the pre-encode buffers.                                    *)

Heads == [b \in PreBufs |-> preBuf[b].frame]

LEMMA Contents ==
  ASSUME NEW bufs, NEW q \in QueueState(bufs), NEW buf, NEW c, c = [b \in bufs |-> buf[b].frame]
  PROVE  /\ {buf[b].frame : b \in Waiting(q)} = WaitingOf(q, c)
         /\ {buf[b].frame : b \in Lent(q)} = LentOf(q, c)
<1>1. Waiting(q) \subseteq bufs /\ Lent(q) \subseteq bufs
  BY Members
<1>2. \A b \in bufs : c[b] = buf[b].frame
  OBVIOUS
<1>3. {buf[b].frame : b \in Waiting(q)} = {c[b] : b \in Waiting(q)}
  BY <1>1, <1>2
<1>4. {buf[b].frame : b \in Lent(q)} = {c[b] : b \in Lent(q)}
  BY <1>1, <1>2
<1> QED BY <1>3, <1>4 DEF WaitingOf, LentOf

LEMMA PreOrder ==
  ASSUME IInv
  PROVE  InOrder(preQ, Heads, PreBufs)
<1>1. TypeInv /\ DecompInv /\ IpeInv /\ WindowInv /\ PreInv /\ L0Inv
  BY DEF IInv
<1>2. preQ \in QueueState(PreBufs)
  BY <1>1 DEF TypeInv
<1>3. \A b \in PreBufs : preQ.produced[b] => preQ.used[b] /\ Heads[b] = preQ.seq[b]
  BY <1>1 DEF PreInv, Heads
<1>4. \A b \in PreBufs : preQ.used[b] => preQ.seq[b] < preQ.lastProd
  <2>1. \A b \in PreBufs : preQ.used[b] => preQ.seq[b] \in Back .. Bought - 1
    BY <1>1 DEF PreInv
  <2>2. preQ.lastProd = Bought /\ Bought \in Nat /\ Back \in Nat
    BY <1>1, Limits DEF PreInv
  <2> QED BY <2>1, <2>2
<1>5. \A a, b \in PreBufs : preQ.used[a] /\ preQ.used[b] /\ preQ.seq[a] = preQ.seq[b] => a = b
  BY <1>1 DEF PreInv
<1> QED BY <1>2, <1>3, <1>4, <1>5 DEF InOrder

(* What the channel's step is made of.                                     *)
LEMMA PreStep ==
  ASSUME TypeInv, TypeInv', lookAhead' = lookAhead
  PROVE  /\ PreBufs' = PreBufs /\ Heads' = [b \in PreBufs |-> preBuf'[b].frame]
         /\ {preQ.seq[b] : b \in Filling(preQ)} = FillingOf(preQ)
         /\ {preQ'.seq[b] : b \in Filling(preQ')} = FillingOf(preQ')
         /\ {preBuf[b].frame : b \in Waiting(preQ)} = WaitingOf(preQ, Heads)
         /\ {preBuf'[b].frame : b \in Waiting(preQ')} = WaitingOf(preQ', Heads')
         /\ {preBuf[b].frame : b \in Lent(preQ)} = LentOf(preQ, Heads)
         /\ {preBuf'[b].frame : b \in Lent(preQ')} = LentOf(preQ', Heads')
         /\ NumPreEncBufs(lookAhead)' = NumPreEncBufs(lookAhead)
<1>1. PreBufs' = PreBufs /\ NumPreEncBufs(lookAhead)' = NumPreEncBufs(lookAhead)
  BY DEF PreBufs
<1>2. preQ \in QueueState(PreBufs) /\ preQ' \in QueueState(PreBufs)
  BY <1>1 DEF TypeInv
<1>3. Heads = [b \in PreBufs |-> preBuf[b].frame] /\ Heads' = [b \in PreBufs |-> preBuf'[b].frame]
  BY <1>1 DEF Heads
<1>4. /\ {preBuf[b].frame : b \in Waiting(preQ)} = WaitingOf(preQ, Heads)
      /\ {preBuf[b].frame : b \in Lent(preQ)} = LentOf(preQ, Heads)
  BY <1>2, <1>3, Contents
<1>5. /\ {preBuf'[b].frame : b \in Waiting(preQ')} = WaitingOf(preQ', Heads')
      /\ {preBuf'[b].frame : b \in Lent(preQ')} = LentOf(preQ', Heads')
  BY <1>2, <1>3, Contents
<1> QED BY <1>1, <1>3, <1>4, <1>5 DEF FillingOf

(* The size of the channel is the number of buffers.                       *)
LEMMA PreSize ==
  ASSUME TypeInv
  PROVE  IsFiniteSet(PreBufs) /\ Cardinality(PreBufs) = NumPreEncBufs(lookAhead)
<1>1. NumPreEncBufs(lookAhead) \in Nat
  BY Delays DEF NumPreEncBufs, MIN_L1_L0_STAGGER_NON_SEQ, MIN_L0_IPE_ENC_STAGGER,
        NUM_BUFS_DECOMP_HME
<1> QED BY <1>1, FS_Interval DEF PreBufs

(* The channel's instance has a Cardinality of its own.                    *)
LEMMA SameCardinality ==
  ASSUME NEW S
  PROVE  PreChannel!Cardinality(S) = Cardinality(S) /\ L0Channel!Cardinality(S) = Cardinality(S)
BY DEF PreChannel!Cardinality, L0Channel!Cardinality, Cardinality

LEMMA PreTake ==
  ASSUME IInv, TypeInv', lookAhead' = lookAhead, NEW t \in Threads, DecompBuf(t),
         FreeBufs(preQ) # {}
  PROVE  PreChannel!Take
<1> DEFINE b == FreeBuf(preQ)
<1>1. TypeInv
  BY DEF IInv
<1>2. b \in PreBufs /\ ~preQ.used[b]
  BY <1>1, BufTypes, Bufs DEF TypeInv
<1>3. preQ' = TakeBuf(preQ, b) /\ preBuf' = [preBuf EXCEPT ![b] = [frame |-> Nothing, qp |-> Nothing]]
  BY DEF DecompBuf
<1> HIDE DEF b
<1>4. \A x \in PreBufs \ {b} : Heads'[x] = Heads[x]
  <2>1. \A x \in PreBufs \ {b} : preBuf'[x] = preBuf[x]
    BY <1>1, <1>3 DEF TypeInv
  <2> QED BY <1>1, <2>1, PreStep DEF Heads
<1>5. InOrder(preQ, Heads, PreBufs)
  BY PreOrder
<1>6. /\ FillingOf(preQ') = FillingOf(preQ) \cup {preQ.lastProd}
      /\ WaitingOf(preQ', Heads') = WaitingOf(preQ, Heads) /\ LentOf(preQ', Heads') = LentOf(preQ, Heads)
      /\ preQ'.lastProd = preQ.lastProd + 1 /\ preQ'.lastCons = preQ.lastCons
      /\ preQ.lastProd \notin FillingOf(preQ) \cup WaitingOf(preQ, Heads) \cup LentOf(preQ, Heads)
  BY <1>2, <1>3, <1>4, <1>5, Taken
<1>7. Cardinality(FillingOf(preQ) \cup WaitingOf(preQ, Heads) \cup LentOf(preQ, Heads))
        < NumPreEncBufs(lookAhead)
  BY <1>1, <1>2, <1>5, RoomLeft, PreSize
<1> QED BY <1>1, <1>6, <1>7, PreStep, SameCardinality DEF PreChannel!Take

LEMMA PreGive ==
  ASSUME IInv, TypeInv', lookAhead' = lookAhead, NEW t \in Threads, IpeEnd(t),
         IsLast(slot[IpeSlot].ipe)
  PROVE  \E f \in FillingOf(preQ) : PreChannel!Give(f)
<1> DEFINE b == slot[IpeSlot].out
<1>1. TypeInv /\ DecompInv /\ IpeInv /\ WindowInv /\ PreInv /\ L0Inv
  BY DEF IInv
<1>2. /\ SlotOf(ctx[t].ipe) = IpeSlot /\ IpeSlot = SlotOf(left.ipe) /\ slot[IpeSlot].inp = left.ipe
      /\ left.ipe \in left.ipe .. Bought - 1 /\ t \notin Gone
  <2>1. ctx[t].at = "ipeWork"
    BY DEF IpeEnd
  <2> QED BY <1>1, <2>1, AtIpe DEF InIpe, IpeSlot
<1>3. b \in PreBufs /\ preQ.used[b] /\ preQ.seq[b] = left.ipe
  BY <1>1, <1>2 DEF PreInv
<1>4. preQ' = SetProduced(preQ, b) /\ preBuf' = [preBuf EXCEPT ![b].frame = left.ipe]
  BY <1>2 DEF IpeEnd
<1>5. Sent = left.ipe /\ left.ipe \in Nat
  <2>1. \A u \in Threads : ctx[u].at # "ipeGive"
    BY <1>1, <1>2 DEF IpeInv
  <2> QED BY <1>1, <2>1, Numbers DEF Sent
<1>6. ~preQ.produced[b] /\ preQ.seq[b] >= preQ.lastCons
  <2>1. preQ.produced[b] <=> preQ.seq[b] < Sent
    BY <1>1, <1>3 DEF PreInv
  <2>2. enc.at \in {"getL0", "init", "encode"} => enc.n < left.ipe
    <3>1. enc.at \in {"getL0", "init", "encode"} =>
            enc.pre \in PreBufs /\ preQ.used[enc.pre] /\ preQ.produced[enc.pre]
            /\ preQ.seq[enc.pre] = enc.n
      BY <1>1 DEF PreInv
    <3>2. \A x \in PreBufs : preQ.used[x] /\ preQ.produced[x] => preQ.seq[x] < left.ipe
      BY <1>1, <1>5 DEF PreInv
    <3> QED BY <3>1, <3>2
  <2>3. preQ.lastCons = IF enc.at \in {"getPre", "end"} THEN enc.n ELSE enc.n + 1
    BY <1>1 DEF PreInv
  <2>4. enc.at = "releaseL0" => enc.n < left.ipe
    BY <1>1, Limits
  <2>5. /\ enc.at \in {"getL0", "init", "encode", "releaseL0", "getPre", "end"}
        /\ enc.n \in Nat /\ enc.n <= left.ipe
    BY <1>1, Numbers DEF TypeInv, EncState, EncPlaces, L0Inv
  <2>6. preQ.lastCons <= left.ipe /\ preQ.lastCons \in Nat
    BY <1>5, <2>2, <2>3, <2>4, <2>5
  <2> QED BY <1>3, <1>5, <2>1, <2>6
<1> HIDE DEF b
<1>7. Heads'[b] = preQ.seq[b] /\ \A x \in PreBufs \ {b} : Heads'[x] = Heads[x]
  <2>1. preBuf'[b].frame = left.ipe /\ \A x \in PreBufs \ {b} : preBuf'[x] = preBuf[x]
    BY <1>1, <1>3, <1>4 DEF TypeInv
  <2> QED BY <1>1, <1>3, <2>1, PreStep DEF Heads
<1>8. InOrder(preQ, Heads, PreBufs)
  BY PreOrder
<1>9. /\ preQ.seq[b] \in FillingOf(preQ)
      /\ FillingOf(preQ') = FillingOf(preQ) \ {preQ.seq[b]}
      /\ WaitingOf(preQ', Heads') = WaitingOf(preQ, Heads) \cup {preQ.seq[b]}
      /\ LentOf(preQ', Heads') = LentOf(preQ, Heads)
      /\ preQ'.lastProd = preQ.lastProd /\ preQ'.lastCons = preQ.lastCons
  BY <1>3, <1>4, <1>6, <1>7, <1>8, Given
<1>10. PICK f \in FillingOf(preQ) : f = preQ.seq[b]
  BY <1>9
<1>11. PreChannel!Give(f)
  BY <1>1, <1>9, <1>10, PreStep DEF PreChannel!Give
<1> QED BY <1>11

LEMMA PreGet ==
  ASSUME IInv, TypeInv', GetPre, FilledBufs(preQ) # {}
  PROVE  PreChannel!Get
<1> DEFINE b == FilledBuf(preQ)
<1>1. TypeInv /\ lookAhead' = lookAhead
  BY DEF IInv, GetPre, threadVars
<1>2. b \in PreBufs /\ preQ.produced[b] /\ preQ.seq[b] = preQ.lastCons
  BY <1>1, BufTypes, Bufs DEF TypeInv
<1>3. preQ' = GetBuf(preQ) /\ preBuf' = preBuf
  BY DEF GetPre, threadVars
<1> HIDE DEF b
<1>4. Heads' = Heads
  BY <1>1, <1>3, PreStep DEF Heads
<1>5. InOrder(preQ, Heads, PreBufs)
  BY PreOrder
<1>6. /\ preQ.lastCons \in WaitingOf(preQ, Heads)
      /\ FillingOf(preQ') = FillingOf(preQ)
      /\ WaitingOf(preQ', Heads) = WaitingOf(preQ, Heads) \ {preQ.lastCons}
      /\ LentOf(preQ', Heads) = LentOf(preQ, Heads) \cup {preQ.lastCons}
      /\ preQ'.lastProd = preQ.lastProd /\ preQ'.lastCons = preQ.lastCons + 1
  BY <1>2, <1>3, <1>5, Got
<1> QED BY <1>1, <1>4, <1>6, PreStep DEF PreChannel!Get

LEMMA PreRelease ==
  ASSUME IInv, TypeInv', ReleasePre
  PROVE  \E f \in LentOf(preQ, Heads) : PreChannel!Release(f)
<1> DEFINE b == enc.pre
<1>1. TypeInv /\ PreInv /\ lookAhead' = lookAhead
  BY DEF IInv, ReleasePre, threadVars
<1>2. b \in PreBufs /\ preQ.produced[b] /\ preQ.seq[b] = enc.n /\ enc.at = "encode"
  BY <1>1 DEF ReleasePre, PreInv
<1>3. preQ' = ReleaseBuf(preQ, b) /\ preBuf' = preBuf
  BY DEF ReleasePre, threadVars
<1>4. preQ.seq[b] < preQ.lastCons
  <2>1. preQ.lastCons = enc.n + 1 /\ enc.n \in Nat
    BY <1>1, <1>2, Numbers DEF PreInv
  <2> QED BY <1>2, <2>1
<1> HIDE DEF b
<1>5. Heads' = Heads
  BY <1>1, <1>3, PreStep DEF Heads
<1>6. InOrder(preQ, Heads, PreBufs)
  BY PreOrder
<1>7. /\ preQ.seq[b] \in LentOf(preQ, Heads)
      /\ FillingOf(preQ') = FillingOf(preQ) /\ WaitingOf(preQ', Heads) = WaitingOf(preQ, Heads)
      /\ LentOf(preQ', Heads) = LentOf(preQ, Heads) \ {preQ.seq[b]}
      /\ preQ'.lastProd = preQ.lastProd /\ preQ'.lastCons = preQ.lastCons
  BY <1>2, <1>3, <1>4, <1>6, Released
<1>8. PICK f \in LentOf(preQ, Heads) : f = preQ.seq[b]
  BY <1>7
<1>9. PreChannel!Release(f)
  BY <1>1, <1>5, <1>7, <1>8, PreStep DEF PreChannel!Release
<1> QED BY <1>9

LEMMA PreIdle ==
  ASSUME TypeInv, TypeInv', lookAhead' = lookAhead, preQ' = preQ,
         \A b \in PreBufs : preBuf'[b].frame = preBuf[b].frame
  PROVE  UNCHANGED PreChannel!vars
<1>1. Heads' = Heads
  BY PreStep DEF Heads
<1> QED BY <1>1, PreStep DEF PreChannel!vars

LEMMA PreNext ==
  ASSUME IInv, TypeInv', [Next]_vars
  PROVE  [PreChannel!Next]_(PreChannel!vars)
<1>1. TypeInv /\ DecompInv /\ IpeInv /\ WindowInv
  BY DEF IInv
<1>2. lookAhead' = lookAhead
  BY EncTypes, ThreadTypes DEF IInv, Next, Rest, vars, threadVars
<1>3. CASE EncodeGroup
  <2>1. preBuf' = preBuf
    BY <1>3 DEF EncodeGroup, EncWake, GetPre, GetL0, EncInit, ReleasePre, ReleaseL0, threadVars
  <2>2. CASE preQ' = preQ
    BY <1>1, <1>2, <2>1, <2>2, PreIdle
  <2>3. CASE preQ' # preQ
    <3>1. (GetPre /\ FilledBufs(preQ) # {}) \/ ReleasePre
      BY <1>3, <2>3 DEF EncodeGroup, EncWake, GetPre, GetL0, EncInit, ReleaseL0
    <3>2. CASE GetPre /\ FilledBufs(preQ) # {}
      BY <3>2, PreGet DEF PreChannel!Next
    <3>3. CASE ReleasePre
      BY <1>1, <1>2, <3>3, PreRelease, PreStep DEF PreChannel!Next
    <3> QED BY <3>1, <3>2, <3>3
  <2> QED BY <2>2, <2>3
<1>4. ASSUME NEW t \in Threads, Thread(t)
      PROVE  [PreChannel!Next]_(PreChannel!vars)
  <2>1. CASE DecompBuf(t) /\ FreeBufs(preQ) # {}
    BY <1>2, <2>1, PreTake DEF PreChannel!Next
  <2>2. CASE DecompBuf(t) /\ FreeBufs(preQ) = {}
    <3>1. preQ' = preQ /\ preBuf' = preBuf
      BY <2>2 DEF DecompBuf, Sleep
    <3> QED BY <1>1, <1>2, <3>1, PreIdle
  <2>3. CASE IpeEnd(t) /\ IsLast(slot[IpeSlot].ipe)
    BY <1>1, <1>2, <2>3, PreGive, PreStep DEF PreChannel!Next
  <2>4. CASE ~DecompBuf(t) /\ ~(IpeEnd(t) /\ IsLast(slot[IpeSlot].ipe))
    <3>1. preQ' = preQ /\ \A b \in PreBufs : preBuf'[b].frame = preBuf[b].frame
      BY <1>1, <1>4, <2>4, PreQueueKept DEF Thread
    <3> QED BY <1>1, <1>2, <3>1, PreIdle
  <2> QED BY <2>1, <2>2, <2>3, <2>4
<1>5. CASE Rest \/ UNCHANGED vars
  <2>1. preQ' = preQ /\ preBuf' = preBuf
    BY <1>5 DEF Rest, vars
  <2> QED BY <1>1, <1>2, <2>1, PreIdle
<1> QED BY <1>3, <1>4, <1>5 DEF Next

-----------------------------------------------------------------------------
(* The queue of the L0 IPE's buffers.                                      *)

LEMMA L0Order ==
  ASSUME IInv
  PROVE  InOrder(l0Q, l0Buf, L0Bufs)
<1>1. TypeInv /\ L0Inv
  BY DEF IInv
<1>2. l0Q \in QueueState(L0Bufs)
  BY <1>1 DEF TypeInv
<1>3. \A b \in L0Bufs : l0Q.produced[b] => l0Q.used[b] /\ l0Buf[b] = l0Q.seq[b]
  BY <1>1 DEF L0Inv
<1>4. \A b \in L0Bufs : l0Q.used[b] => l0Q.seq[b] < l0Q.lastProd
  <2>1. /\ \A b \in L0Bufs : l0Q.used[b] => l0Q.seq[b] \in enc.n .. left.ipe
        /\ \A b \in L0Bufs : l0Q.used[b] /\ l0Q.seq[b] = left.ipe => HasL0
        /\ l0Q.lastProd = IF HasL0 THEN left.ipe + 1 ELSE left.ipe
    BY <1>1 DEF L0Inv
  <2>2. left.ipe \in Nat /\ enc.n \in Nat
    BY <1>1, Numbers
  <2> QED BY <2>1, <2>2
<1>5. \A a, b \in L0Bufs : l0Q.used[a] /\ l0Q.used[b] /\ l0Q.seq[a] = l0Q.seq[b] => a = b
  BY <1>1 DEF L0Inv
<1> QED BY <1>2, <1>3, <1>4, <1>5 DEF InOrder

LEMMA L0Sets ==
  /\ {l0Q.seq[b] : b \in Filling(l0Q)} = FillingOf(l0Q)
  /\ {l0Q'.seq[b] : b \in Filling(l0Q')} = FillingOf(l0Q')
  /\ {l0Buf[b] : b \in Waiting(l0Q)} = WaitingOf(l0Q, l0Buf)
  /\ {l0Buf'[b] : b \in Waiting(l0Q')} = WaitingOf(l0Q', l0Buf')
  /\ {l0Buf[b] : b \in Lent(l0Q)} = LentOf(l0Q, l0Buf)
  /\ {l0Buf'[b] : b \in Lent(l0Q')} = LentOf(l0Q', l0Buf')
BY DEF FillingOf, WaitingOf, LentOf

LEMMA L0Take ==
  ASSUME IInv, NEW t \in Threads, IpeBuf(t), FreeBufs(l0Q) # {}
  PROVE  L0Channel!Take
<1> DEFINE b == FreeBuf(l0Q)
<1>1. TypeInv
  BY DEF IInv
<1>2. b \in L0Bufs /\ ~l0Q.used[b]
  BY <1>1, BufTypes, Bufs DEF TypeInv
<1>3. l0Q' = TakeBuf(l0Q, b) /\ l0Buf' = l0Buf
  BY DEF IpeBuf
<1> HIDE DEF b
<1>4. InOrder(l0Q, l0Buf, L0Bufs) /\ \A x \in L0Bufs \ {b} : l0Buf'[x] = l0Buf[x]
  BY <1>3, L0Order
<1>5. /\ FillingOf(l0Q') = FillingOf(l0Q) \cup {l0Q.lastProd}
      /\ WaitingOf(l0Q', l0Buf') = WaitingOf(l0Q, l0Buf) /\ LentOf(l0Q', l0Buf') = LentOf(l0Q, l0Buf)
      /\ l0Q'.lastProd = l0Q.lastProd + 1 /\ l0Q'.lastCons = l0Q.lastCons
      /\ l0Q.lastProd \notin FillingOf(l0Q) \cup WaitingOf(l0Q, l0Buf) \cup LentOf(l0Q, l0Buf)
  BY <1>2, <1>3, <1>4, Taken
<1>6. IsFiniteSet(L0Bufs) /\ Cardinality(L0Bufs) = MIN_L0_IPE_ENC_STAGGER
  BY <1>1, Bufs, FS_Singleton DEF MIN_L0_IPE_ENC_STAGGER
<1>7. Cardinality(FillingOf(l0Q) \cup WaitingOf(l0Q, l0Buf) \cup LentOf(l0Q, l0Buf))
        < MIN_L0_IPE_ENC_STAGGER
  BY <1>2, <1>4, <1>6, RoomLeft
<1> QED BY <1>5, <1>7, L0Sets, SameCardinality DEF L0Channel!Take

LEMMA L0Give ==
  ASSUME IInv, NEW t \in Threads, IpeGive(t)
  PROVE  \E f \in FillingOf(l0Q) : L0Channel!Give(f)
<1>1. TypeInv /\ DecompInv /\ IpeInv /\ WindowInv /\ L0Inv
  BY DEF IInv
<1>2. t \in Gone /\ HasL0
  BY DEF IpeGive, Gone, Tuned, HasL0
<1>3. l0Out \in L0Bufs /\ l0Q.used[l0Out] /\ l0Q.seq[l0Out] = left.ipe /\ l0Buf[l0Out] = left.ipe
  BY <1>1, <1>2 DEF L0Inv
<1>4. l0Q' = SetProduced(l0Q, l0Out) /\ l0Buf' = l0Buf
  BY DEF IpeGive
<1>5. ~l0Q.produced[l0Out] /\ l0Q.seq[l0Out] >= l0Q.lastCons
  <2>1. /\ l0Q.produced[l0Out] <=> l0Q.seq[l0Out] < left.ipe
        /\ l0Q.lastCons = IF enc.at \in {"getPre", "getL0", "end"} THEN enc.n ELSE enc.n + 1
    BY <1>1, <1>3 DEF L0Inv
  <2>2. left.ipe \in Nat /\ enc.n \in Nat /\ enc.n <= left.ipe
    BY <1>1, Numbers DEF L0Inv
  <2>3. enc.at \notin {"getPre", "getL0", "end"} => enc.n < left.ipe
    BY <1>1, Limits DEF TypeInv, EncState, EncPlaces
  <2>4. l0Q.lastCons \in Nat /\ l0Q.lastCons <= left.ipe
    BY <2>1, <2>2, <2>3
  <2> QED BY <1>3, <2>1, <2>2, <2>4
<1>6. /\ InOrder(l0Q, l0Buf, L0Bufs) /\ l0Buf'[l0Out] = l0Q.seq[l0Out]
      /\ \A x \in L0Bufs \ {l0Out} : l0Buf'[x] = l0Buf[x]
  BY <1>3, <1>4, L0Order
<1>7. /\ l0Q.seq[l0Out] \in FillingOf(l0Q)
      /\ FillingOf(l0Q') = FillingOf(l0Q) \ {l0Q.seq[l0Out]}
      /\ WaitingOf(l0Q', l0Buf') = WaitingOf(l0Q, l0Buf) \cup {l0Q.seq[l0Out]}
      /\ LentOf(l0Q', l0Buf') = LentOf(l0Q, l0Buf)
      /\ l0Q'.lastProd = l0Q.lastProd /\ l0Q'.lastCons = l0Q.lastCons
  BY <1>3, <1>4, <1>5, <1>6, Given
<1>8. PICK f \in FillingOf(l0Q) : f = l0Q.seq[l0Out]
  BY <1>7
<1>9. L0Channel!Give(f)
  BY <1>7, <1>8, L0Sets DEF L0Channel!Give
<1> QED BY <1>9

LEMMA L0Get ==
  ASSUME IInv, GetL0, FilledBufs(l0Q) # {}
  PROVE  L0Channel!Get
<1> DEFINE b == FilledBuf(l0Q)
<1>1. TypeInv
  BY DEF IInv
<1>2. b \in L0Bufs /\ l0Q.produced[b] /\ l0Q.seq[b] = l0Q.lastCons
  BY <1>1, BufTypes, Bufs DEF TypeInv
<1>3. l0Q' = GetBuf(l0Q) /\ l0Buf' = l0Buf
  BY DEF GetL0, threadVars
<1> HIDE DEF b
<1>4. InOrder(l0Q, l0Buf, L0Bufs)
  BY L0Order
<1>5. /\ l0Q.lastCons \in WaitingOf(l0Q, l0Buf)
      /\ FillingOf(l0Q') = FillingOf(l0Q)
      /\ WaitingOf(l0Q', l0Buf) = WaitingOf(l0Q, l0Buf) \ {l0Q.lastCons}
      /\ LentOf(l0Q', l0Buf) = LentOf(l0Q, l0Buf) \cup {l0Q.lastCons}
      /\ l0Q'.lastProd = l0Q.lastProd /\ l0Q'.lastCons = l0Q.lastCons + 1
  BY <1>2, <1>3, <1>4, Got
<1> QED BY <1>3, <1>5, L0Sets DEF L0Channel!Get

LEMMA L0Release ==
  ASSUME IInv, ReleaseL0
  PROVE  \E f \in LentOf(l0Q, l0Buf) : L0Channel!Release(f)
<1> DEFINE b == enc.l0
<1>1. TypeInv /\ L0Inv
  BY DEF IInv
<1>2. b \in L0Bufs /\ l0Q.produced[b] /\ l0Q.seq[b] = enc.n /\ enc.at = "releaseL0"
  BY <1>1 DEF ReleaseL0, L0Inv
<1>3. l0Q' = ReleaseBuf(l0Q, b) /\ l0Buf' = l0Buf
  BY DEF ReleaseL0, threadVars
<1>4. l0Q.seq[b] < l0Q.lastCons
  <2>1. l0Q.lastCons = enc.n + 1 /\ enc.n \in Nat
    BY <1>1, <1>2, Numbers DEF L0Inv
  <2> QED BY <1>2, <2>1
<1> HIDE DEF b
<1>5. InOrder(l0Q, l0Buf, L0Bufs)
  BY L0Order
<1>6. /\ l0Q.seq[b] \in LentOf(l0Q, l0Buf)
      /\ FillingOf(l0Q') = FillingOf(l0Q) /\ WaitingOf(l0Q', l0Buf) = WaitingOf(l0Q, l0Buf)
      /\ LentOf(l0Q', l0Buf) = LentOf(l0Q, l0Buf) \ {l0Q.seq[b]}
      /\ l0Q'.lastProd = l0Q.lastProd /\ l0Q'.lastCons = l0Q.lastCons
  BY <1>2, <1>3, <1>4, <1>5, Released
<1>7. PICK f \in LentOf(l0Q, l0Buf) : f = l0Q.seq[b]
  BY <1>6
<1>8. L0Channel!Release(f)
  BY <1>3, <1>6, <1>7, L0Sets DEF L0Channel!Release
<1> QED BY <1>8

(* A thread's results go to the frame's buffer before it is given up.      *)
LEMMA L0Fill ==
  ASSUME IInv, NEW t \in Threads, IpeEnd(t)
  PROVE  UNCHANGED L0Channel!vars
<1>1. TypeInv /\ DecompInv /\ IpeInv /\ WindowInv /\ L0Inv
  BY DEF IInv
<1>2. l0Q' = l0Q /\ \E v : l0Buf' = [l0Buf EXCEPT ![l0Out] = v]
  BY DEF IpeEnd
<1>3. HasL0
  BY DEF IpeEnd, Tuned, HasL0
<1>4. l0Out \in L0Bufs /\ ~l0Q.produced[l0Out]
  <2>1. /\ l0Out \in L0Bufs /\ l0Q.seq[l0Out] = left.ipe
        /\ l0Q.produced[l0Out] <=> l0Q.seq[l0Out] < left.ipe
    BY <1>1, <1>3 DEF L0Inv
  <2> QED BY <1>1, <2>1, Numbers
<1>5. \A b \in L0Bufs : l0Q.produced[b] => l0Buf'[b] = l0Buf[b]
  BY <1>1, <1>2, <1>4 DEF TypeInv
<1>6. InOrder(l0Q, l0Buf, L0Bufs)
  BY L0Order
<1>7. WaitingOf(l0Q, l0Buf') = WaitingOf(l0Q, l0Buf) /\ LentOf(l0Q, l0Buf') = LentOf(l0Q, l0Buf)
  BY <1>5, <1>6, Written
<1> QED BY <1>2, <1>7, L0Sets DEF L0Channel!vars

LEMMA L0Idle ==
  ASSUME l0Q' = l0Q, l0Buf' = l0Buf
  PROVE  UNCHANGED L0Channel!vars
BY L0Sets DEF L0Channel!vars

LEMMA L0Next ==
  ASSUME IInv, [Next]_vars
  PROVE  [L0Channel!Next]_(L0Channel!vars)
<1>1. CASE EncodeGroup
  <2>1. l0Buf' = l0Buf
    BY <1>1 DEF EncodeGroup, EncWake, GetPre, GetL0, EncInit, ReleasePre, ReleaseL0, threadVars
  <2>2. CASE l0Q' = l0Q
    BY <2>1, <2>2, L0Idle
  <2>3. CASE l0Q' # l0Q
    <3>1. (GetL0 /\ FilledBufs(l0Q) # {}) \/ ReleaseL0
      BY <1>1, <2>3 DEF EncodeGroup, EncWake, GetPre, GetL0, EncInit, ReleasePre
    <3>2. CASE GetL0 /\ FilledBufs(l0Q) # {}
      BY <3>2, L0Get DEF L0Channel!Next
    <3>3. CASE ReleaseL0
      BY <3>3, L0Release, L0Sets DEF L0Channel!Next
    <3> QED BY <3>1, <3>2, <3>3
  <2> QED BY <2>2, <2>3
<1>2. ASSUME NEW t \in Threads, Thread(t)
      PROVE  [L0Channel!Next]_(L0Channel!vars)
  <2>1. CASE IpeBuf(t) /\ FreeBufs(l0Q) # {}
    BY <2>1, L0Take DEF L0Channel!Next
  <2>2. CASE IpeGive(t)
    BY <2>2, L0Give, L0Sets DEF L0Channel!Next
  <2>3. CASE IpeEnd(t)
    BY <2>3, L0Fill
  <2>4. CASE \/ Wake(t) \/ DecompInit(t) \/ DecompBuf(t) \/ DecompEnd(t) \/ CoarseInit(t)
             \/ CoarseEnd(t) \/ IpeWait(t) \/ IpeInit(t)
             \/ (IpeBuf(t) /\ FreeBufs(l0Q) = {}) \/ IpeQp(t)
    <3>1. l0Q' = l0Q /\ l0Buf' = l0Buf
      BY <2>4 DEF Wake, DecompInit, DecompBuf, DecompEnd, CoarseInit, CoarseEnd, IpeWait, IpeInit,
        IpeBuf, IpeQp, Sleep, encVars
    <3> QED BY <3>1, L0Idle
  <2> QED BY <1>2, <2>1, <2>2, <2>3, <2>4 DEF Thread
<1>3. CASE Rest \/ UNCHANGED vars
  BY <1>3, L0Idle DEF Rest, vars
<1> QED BY <1>1, <1>2, <1>3 DEF Next

-----------------------------------------------------------------------------
(* Between the threads and the encode group, for every number of threads   *)
(* and every look-ahead, both queues of buffers are channels: a frame is   *)
(* given up at most once and got at most once, frames are got in the order *)
(* in which they were begun, what is in a buffer does not change until it  *)
(* is given back, and a thread takes only a buffer that nobody has.        *)
THEOREM ChannelsRefined == Spec => RefinesChannels
<1>1. Init => PreChannel!Init /\ L0Channel!Init
  <2> SUFFICES ASSUME Init PROVE PreChannel!Init /\ L0Channel!Init
    OBVIOUS
  <2>1. ASSUME NEW bufs
        PROVE  /\ Filling(EmptyQueue(bufs)) = {} /\ Waiting(EmptyQueue(bufs)) = {}
               /\ Lent(EmptyQueue(bufs)) = {}
               /\ EmptyQueue(bufs).lastProd = 0 /\ EmptyQueue(bufs).lastCons = 0
    BY DEF EmptyQueue, Filling, Waiting, Lent
  <2>2. /\ Filling(preQ) = {} /\ Waiting(preQ) = {} /\ Lent(preQ) = {}
        /\ preQ.lastProd = 0 /\ preQ.lastCons = 0
        /\ Filling(l0Q) = {} /\ Waiting(l0Q) = {} /\ Lent(l0Q) = {}
        /\ l0Q.lastProd = 0 /\ l0Q.lastCons = 0
    BY <2>1 DEF Init
  <2>3. NumPreEncBufs(lookAhead) \in Nat /\ MIN_L0_IPE_ENC_STAGGER \in Nat
    BY InitTypes, Delays DEF NumPreEncBufs, MIN_L1_L0_STAGGER_NON_SEQ, MIN_L0_IPE_ENC_STAGGER,
          NUM_BUFS_DECOMP_HME
  <2> QED BY <2>2, <2>3 DEF PreChannel!Init, L0Channel!Init
<1>2. IInv /\ IInv' /\ [Next]_vars =>
        [PreChannel!Next]_(PreChannel!vars) /\ [L0Channel!Next]_(L0Channel!vars)
  BY PreNext, L0Next DEF IInv
<1> QED BY <1>1, <1>2, Invariant, PTL DEF Spec, RefinesChannels, PreChannel!Spec, L0Channel!Spec

=============================================================================
