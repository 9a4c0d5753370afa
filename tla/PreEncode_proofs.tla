--------------------------- MODULE PreEncode_proofs ----------------------------
(***************************************************************************)
(* Proofs about PreEncode for every number of threads, frames and pictures *)
(* of look-ahead: the ring's slots are not used again too early, the       *)
(* encode group owns the buffers it gets, and the QPs are in step.         *)
(***************************************************************************)
EXTENDS PreEncode, FiniteSetTheorems, WellFoundedInduction, TLAPS

-----------------------------------------------------------------------------
(* Types.                                                                  *)

Places == {"decomp", "decompBuf", "decompWork", "coarse", "coarseWork", "ipe", "ipeInit",
           "ipeBuf", "ipeQp", "ipeWork", "ipeGive", "end"}
EncPlaces == {"getPre", "getL0", "init", "encode", "releaseL0", "end"}

Slots == 0 .. MaxDelay(lookAhead) - 1
PreBufs == 0 .. NumPreEncBufs(lookAhead) - 1
L0Bufs == 0 .. MIN_L0_IPE_ENC_STAGGER - 1
SlotState == [inp : Int, out : Int, initDone : BOOLEAN, hmeInit : Int, complete : BOOLEAN,
              decomp : Int, coarse : Int, qpInit : Int, ipe : Int, end : BOOLEAN]
QueueState(bufs) == [used : [bufs -> BOOLEAN], produced : [bufs -> BOOLEAN],
                     seq : [bufs -> Int], lastProd : Nat, lastCons : Nat]
RcState == [queue : [0 .. MIN_PRE_ENC_RC_DELAY - 1 -> Int], read : Int, write : Int, update : Int]
CtxState == [at : Places, f : Nat, ipe : Nat, ready : Int, end : BOOLEAN, asleep : BOOLEAN]
EncState == [at : EncPlaces, n : Nat, pre : Int, l0 : Int, asleep : BOOLEAN]

TypeInv ==
  /\ lookAhead \in LookAheads
  /\ slot \in [Slots -> SlotState]
  /\ taken \in Nat
  /\ left \in [decomp : Nat, coarse : Nat, ipe : Nat]
  /\ preQ \in QueueState(PreBufs) /\ l0Q \in QueueState(L0Bufs)
  /\ l0Out \in Int
  /\ preBuf \in [PreBufs -> [frame : Int, qp : Int]]
  /\ l0Buf \in [L0Bufs -> Int]
  /\ rc \in RcState
  /\ preSem \in Nat /\ encSem \in Nat
  /\ ctx \in [Threads -> CtxState]
  /\ enc \in EncState

-----------------------------------------------------------------------------
(* The inductive invariant.                                                *)

(* Frames a thread has left the decomposition with; those of coarse ME and *)
(* L0 IPE are ctx[t].f and ctx[t].ipe.                                     *)
DecompDone(t) == IF ctx[t].at \in {"coarse", "coarseWork"} THEN ctx[t].f + 1 ELSE ctx[t].f

(* The threads that have left a stage with the frame others are still in.  *)
PastDecomp == {t \in Threads : DecompDone(t) = left.decomp + 1}
PastCoarse == {t \in Threads : ctx[t].f = left.coarse + 1}
PastIpe == {t \in Threads : ctx[t].ipe = left.ipe + 1}

(* Those that have their QP, and those that have counted themselves out.   *)
Tuned == {t \in Threads : ctx[t].ipe = left.ipe + 1 \/ ctx[t].at \in {"ipeWork", "ipeGive"}}
Gone == {t \in Threads : ctx[t].ipe = left.ipe + 1 \/ ctx[t].at = "ipeGive"}

(* A counter that the last one sets back.                                  *)
Count(S) == IF S = Threads THEN 0 ELSE Cardinality(S)

DecompSlot == SlotOf(left.decomp)
CoarseSlot == SlotOf(left.coarse)
IpeSlot == SlotOf(left.ipe)

(* The threads are in the decomposition of one frame or before or after it; *)
(* a slot is initialised while they are.                                   *)
DecompInv ==
  /\ \A t \in Threads : DecompDone(t) \in {left.decomp, left.decomp + 1}
  /\ PastDecomp # Threads
  /\ \A t \in Threads : ctx[t].at \in {"decompBuf", "decompWork"} =>
       ctx[t].f = left.decomp /\ slot[DecompSlot].initDone
  /\ PastDecomp # {} => slot[DecompSlot].initDone
  /\ \A s \in Slots : slot[s].decomp = IF s = DecompSlot THEN Cardinality(PastDecomp) ELSE 0
  /\ \A s \in Slots : slot[s].initDone => s = DecompSlot
  /\ taken = IF slot[DecompSlot].initDone THEN left.decomp + 1 ELSE left.decomp
  /\ \A t, u \in Threads : ctx[t].at = "decompBuf" /\ u # t =>
       DecompDone(u) = left.decomp /\ ctx[u].at \notin {"decompBuf", "decompWork"}

CoarseInv ==
  /\ \A t \in Threads : ctx[t].f \in {left.coarse, left.coarse + 1}
  /\ Valid(left.coarse) => PastCoarse # Threads
  /\ \A s \in Slots : slot[s].coarse =
       IF s = CoarseSlot /\ Valid(left.coarse) THEN Cardinality(PastCoarse) ELSE 0
  /\ \A s \in Slots : slot[s].hmeInit \in {Nothing, left.coarse}
  /\ \A s \in Slots : slot[s].hmeInit # Nothing => s = CoarseSlot
  /\ \A t \in Threads : ctx[t].at = "coarseWork" =>
       ctx[t].f = left.coarse /\ slot[CoarseSlot].hmeInit = left.coarse

IpeInv ==
  /\ \A t \in Threads : ctx[t].ipe \in {left.ipe, left.ipe + 1}
  /\ PastIpe # Threads
  /\ \A t \in Threads : InIpe(t) => ctx[t].ipe = left.ipe
  /\ \A s \in Slots : slot[s].ipe = IF s = IpeSlot THEN Count(Gone) ELSE 0
  /\ \A s \in Slots : slot[s].qpInit = IF s = IpeSlot THEN Count(Tuned) ELSE 0
  /\ \A t \in Threads : ctx[t].at = "ipeGive" => Gone = Threads
  /\ \A t, u \in Threads : ctx[t].at = "ipeGive" /\ ctx[u].at = "ipeGive" => t = u
  /\ \A t \in Threads : ctx[t].at \in {"ipeBuf", "ipeQp"} => Tuned = {}
  /\ \A t, u \in Threads : ctx[t].at \in {"ipeBuf", "ipeQp"} /\ ctx[u].at \in {"ipeBuf", "ipeQp"}
       => t = u

(* How far a thread runs ahead of its own L0 IPE, and so of all threads'.  *)
WindowInv ==
  /\ \A t \in Threads :
       /\ ctx[t].f = ctx[t].ipe + ctx[t].ready
       /\ ctx[t].ready >= 0
       /\ ctx[t].at \in {"decomp", "decompBuf", "decompWork", "coarse", "coarseWork"}
            => ctx[t].ready <= lookAhead
       /\ InIpe(t) \/ ctx[t].at = "ipe" => ctx[t].ready \in 1 .. lookAhead + 1
  /\ taken <= left.ipe + lookAhead + 2
  /\ \A g \in left.ipe .. taken - 1 : slot[SlotOf(g)].inp = g

(* Frames that have a buffer in preQ, that are given to the encode group,  *)
(* and whose buffer has come back.                                         *)
Bought == IF \E t \in Threads : ctx[t].at = "decompBuf" THEN left.decomp ELSE taken
Sent == IF \E t \in Threads : ctx[t].at = "ipeGive" THEN left.ipe + 1 ELSE left.ipe
Back == IF enc.at = "releaseL0" THEN enc.n + 1 ELSE enc.n

PreInv ==
  /\ preQ.lastProd = Bought
  /\ preQ.lastCons = IF enc.at \in {"getPre", "end"} THEN enc.n ELSE enc.n + 1
  /\ \A b \in PreBufs : preQ.produced[b] => preQ.used[b] /\ preBuf[b].frame = preQ.seq[b]
  /\ \A b \in PreBufs : preQ.used[b] =>
       preQ.seq[b] \in Back .. Bought - 1 /\ (preQ.produced[b] <=> preQ.seq[b] < Sent)
  /\ \A b, c \in PreBufs : preQ.used[b] /\ preQ.used[c] /\ preQ.seq[b] = preQ.seq[c] => b = c
  /\ \A g \in left.ipe .. Bought - 1 :
       LET b == slot[SlotOf(g)].out
       IN b \in PreBufs /\ preQ.used[b] /\ preQ.seq[b] = g
  /\ enc.at \in {"getL0", "init", "encode"} =>
       enc.pre \in PreBufs /\ preQ.used[enc.pre] /\ preQ.produced[enc.pre]
       /\ preQ.seq[enc.pre] = enc.n

(* The L0 IPE of the frame left.ipe has its buffer in l0Q.                 *)
HasL0 == Tuned # {} \/ \E t \in Threads : ctx[t].at = "ipeQp"

L0Inv ==
  /\ enc.n <= left.ipe
  /\ l0Q.lastProd = IF HasL0 THEN left.ipe + 1 ELSE left.ipe
  /\ l0Q.lastCons = IF enc.at \in {"getPre", "getL0", "end"} THEN enc.n ELSE enc.n + 1
  /\ \A b \in L0Bufs : l0Q.produced[b] => l0Q.used[b] /\ l0Buf[b] = l0Q.seq[b]
  /\ \A b \in L0Bufs : l0Q.used[b] =>
       l0Q.seq[b] \in enc.n .. left.ipe /\ (l0Q.produced[b] <=> l0Q.seq[b] < left.ipe)
  /\ \A b, c \in L0Bufs : l0Q.used[b] /\ l0Q.used[c] /\ l0Q.seq[b] = l0Q.seq[c] => b = c
  /\ \A b \in L0Bufs : l0Q.used[b] /\ l0Q.seq[b] = left.ipe => HasL0
  /\ HasL0 => l0Out \in L0Bufs /\ l0Q.used[l0Out] /\ l0Q.seq[l0Out] = left.ipe
  /\ Gone # {} => l0Buf[l0Out] = left.ipe
  /\ enc.at \in {"init", "encode", "releaseL0"} =>
       enc.l0 \in L0Bufs /\ l0Q.used[enc.l0] /\ l0Q.produced[enc.l0] /\ l0Q.seq[enc.l0] = enc.n

(* QPs taken from the queue, QPs put there before frame n is set up, and   *)
(* the QP at each place of the queue.                                      *)
AtMost(k, m) == IF k < m THEN k ELSE m
Reads == AtMost(IF Tuned # {} THEN left.ipe + 1 ELSE left.ipe, LastFrame)
WritesBefore(n) == IF n < 1 \/ LastFrame < 1 THEN 2 ELSE AtMost(n, LastFrame) + 1
Writes == WritesBefore(IF enc.at \in {"encode", "releaseL0"} THEN enc.n + 1 ELSE enc.n)
QpOf(k) == IF k = 0 THEN 0 ELSE k - 1

QpInv ==
  /\ rc.read = Reads % MIN_PRE_ENC_RC_DELAY
  /\ rc.write = Writes % MIN_PRE_ENC_RC_DELAY
  /\ Reads <= Writes /\ Writes <= Reads + MIN_PRE_ENC_RC_DELAY
  /\ \A k \in Reads .. Reads + MIN_PRE_ENC_RC_DELAY - 1 :
       rc.queue[k % MIN_PRE_ENC_RC_DELAY] = IF k < Writes THEN QpOf(k) ELSE Nothing
  /\ rc.update = IF Tuned # {} /\ Tuned # Threads /\ Valid(left.ipe)
                 THEN QpOf(left.ipe) ELSE Nothing
  /\ Tuned # {} /\ Valid(left.ipe) =>
       preBuf[slot[IpeSlot].out].qp = QpOf(left.ipe)
  /\ enc.at # "end" => enc.n <= LastFrame

IInv == TypeInv /\ DecompInv /\ CoarseInv /\ IpeInv /\ WindowInv /\ PreInv /\ L0Inv /\ QpInv

-----------------------------------------------------------------------------
(* Slots and counters.                                                     *)

LEMMA Divided ==
  ASSUME NEW k \in Nat \ {0}, NEW a \in Nat
  PROVE  a % k \in 0 .. k - 1 /\ a \div k \in Nat /\ a = k * (a \div k) + (a % k)
OBVIOUS

LEMMA NotCongruent ==
  ASSUME NEW k \in Nat \ {0}, NEW a \in Nat, NEW b \in Nat, a < b, b < a + k
  PROVE  a % k # b % k
<1> DEFINE p == a \div k
           q == b \div k
<1>1. p \in Nat /\ q \in Nat /\ a = k * p + (a % k) /\ b = k * q + (b % k)
  BY Divided
<1>2. SUFFICES ASSUME a % k = b % k PROVE FALSE
  OBVIOUS
<1>3. b - a = k * (q - p) /\ q - p \in Int
  <2>1. a % k \in Int /\ \A x, y, z \in Int : (k * x + z) - (k * y + z) = k * (x - y)
    BY Divided
  <2> HIDE DEF p, q
  <2> QED BY <1>1, <1>2, <2>1
<1>4. \A z \in Int : z >= 1 => k * z >= k
  OBVIOUS
<1>5. \A z \in Int : z <= 0 => k * z <= 0
  OBVIOUS
<1> HIDE DEF p, q
<1> QED BY <1>3, <1>4, <1>5

LEMMA Delays ==
  ASSUME TypeInv
  PROVE  /\ lookAhead \in Nat
         /\ MaxDelay(lookAhead) = lookAhead + 2
         /\ Slots = 0 .. lookAhead + 1
BY SizesAssumption DEF TypeInv, MaxDelay, Slots, MIN_L1_L0_STAGGER_NON_SEQ

(* Frames that are in flight together have slots of their own.             *)
LEMMA OwnSlots ==
  ASSUME TypeInv
  PROVE  /\ \A f \in Nat : SlotOf(f) \in Slots
         /\ \A f, g \in Nat : f # g /\ f <= g + lookAhead + 1 /\ g <= f + lookAhead + 1
              => SlotOf(f) # SlotOf(g)
<1>1. PICK k \in Nat \ {0} : k = lookAhead + 2
  BY Delays
<1>2. \A f \in Nat : SlotOf(f) = f % k
  BY <1>1, Delays DEF SlotOf
<1>3. ASSUME NEW f \in Nat
      PROVE  SlotOf(f) \in Slots
  <2>1. f % k \in 0 .. k - 1
    BY Divided
  <2> QED BY <1>1, <1>2, <2>1, Delays
<1>4. ASSUME NEW f \in Nat, NEW g \in Nat, f < g, g <= f + lookAhead + 1
      PROVE  SlotOf(f) # SlotOf(g)
  <2>1. g < f + k
    BY <1>1, <1>4, Delays
  <2>2. f % k # g % k
    BY <1>4, <2>1, NotCongruent
  <2> QED BY <1>2, <2>2
<1>5. \A f, g \in Nat : f # g => f < g \/ g < f
  OBVIOUS
<1> QED BY <1>3, <1>4, <1>5

LEMMA Counts ==
  ASSUME NEW S \in SUBSET Threads
  PROVE  /\ IsFiniteSet(S) /\ Cardinality(S) \in Nat
         /\ (Cardinality(S) = 0) <=> (S = {})
         /\ S # Threads => Cardinality(S) < Cardinality(Threads)
         /\ Cardinality(Threads) \in Nat \ {0}
<1>1. IsFiniteSet(S)
  BY SizesAssumption, FS_Subset
<1> QED BY <1>1, SizesAssumption, FS_CardinalityType, FS_EmptySet, FS_Subset

(* One more thread goes: the counter, and whether it is the last.          *)
LEMMA OneMore ==
  ASSUME NEW S \in SUBSET Threads, NEW t \in Threads \ S
  PROVE  /\ S # Threads
         /\ Cardinality(S) \in Nat
         /\ Cardinality(S \cup {t}) = Cardinality(S) + 1
         /\ IsLast(Cardinality(S)) <=> S \cup {t} = Threads
         /\ CountUp(Cardinality(S)) = Count(S \cup {t})
         /\ Count(S) = Cardinality(S)
         /\ (Count(S) = 0) <=> (S = {})
<1>1. Cardinality(S \cup {t}) = Cardinality(S) + 1
  BY Counts, FS_AddElement
<1>2. S \cup {t} \in SUBSET Threads
  OBVIOUS
<1>3. S \cup {t} # Threads => Cardinality(S \cup {t}) < Cardinality(Threads)
  BY <1>2, Counts
<1>4. S # Threads /\ Cardinality(S) \in Nat /\ ((Cardinality(S) = 0) <=> (S = {}))
  BY Counts
<1>5. Cardinality(S) + 1 = Cardinality(Threads) <=> S \cup {t} = Threads
  <2>1. CASE S \cup {t} = Threads
    BY <1>1, <2>1
  <2>2. CASE S \cup {t} # Threads
    <3>1. Cardinality(S \cup {t}) \in Nat /\ Cardinality(Threads) \in Nat
      BY <1>2, Counts
    <3> QED BY <1>1, <1>3, <2>2, <3>1
  <2> QED BY <2>1, <2>2
<1>6. Count(S) = Cardinality(S)
  BY <1>4 DEF Count
<1>7. IsLast(Cardinality(S)) <=> S \cup {t} = Threads
  BY <1>5 DEF IsLast
<1>8. CountUp(Cardinality(S)) = Count(S \cup {t})
  BY <1>1, <1>7 DEF CountUp, Count
<1> QED BY <1>1, <1>4, <1>6, <1>7, <1>8

(* The buffers the queues' searches return.                                *)
LEMMA SmallestBuf ==
  ASSUME NEW S \in SUBSET Nat, S # {}
  PROVE  \E b \in S : \A c \in S : b <= c
<1> DEFINE R == OpToRel(<, Nat)
<1>1. \E b \in S : \A c \in S : ~(<<c, b>> \in R)
  <2>1. IsWellFoundedOn(R, Nat)
    BY NatLessThanWellFounded
  <2> HIDE DEF R
  <2> QED BY <2>1, WFMin
<1>2. \A b, c \in Nat : <<c, b>> \in R <=> c < b
  <2>1. R = {bc \in Nat \X Nat : bc[1] < bc[2]}
    BY DEF OpToRel
  <2> HIDE DEF R
  <2> QED BY <2>1
<1> HIDE DEF R
<1>3. PICK b \in S : \A c \in S : ~(<<c, b>> \in R)
  BY <1>1
<1>4. \A c \in S : b \in Nat /\ c \in Nat /\ ~(c < b)
  BY <1>2, <1>3
<1>5. \A c \in S : b <= c
  BY <1>4
<1> QED BY <1>5

LEMMA BufTypes ==
  ASSUME NEW bufs \in SUBSET Nat, NEW q \in QueueState(bufs)
  PROVE  /\ FreeBufs(q) # {} => FreeBuf(q) \in bufs /\ ~q.used[FreeBuf(q)] /\ ~q.produced[FreeBuf(q)]
         /\ FilledBufs(q) # {} =>
              FilledBuf(q) \in bufs /\ q.seq[FilledBuf(q)] = q.lastCons /\ q.produced[FilledBuf(q)]
<1>1. FreeBufs(q) \subseteq bufs /\ FilledBufs(q) \subseteq bufs
  BY DEF FreeBufs, FilledBufs, QueueState
<1>2. FreeBufs(q) # {} => FreeBuf(q) \in FreeBufs(q)
  BY <1>1, SmallestBuf DEF FreeBuf, First
<1>3. FilledBufs(q) # {} => FilledBuf(q) \in FilledBufs(q)
  BY <1>1, SmallestBuf DEF FilledBuf, First
<1> QED BY <1>1, <1>2, <1>3 DEF FreeBufs, FilledBufs, QueueState

-----------------------------------------------------------------------------
(* The beginning.                                                          *)

LEMMA InitTypes ==
  ASSUME Init
  PROVE  TypeInv
<1>1. lookAhead \in Nat
  BY SizesAssumption DEF Init
<1> QED BY <1>1 DEF Init, TypeInv, Slots, PreBufs, L0Bufs, SlotState, QueueState, EmptySlot,
     EmptyQueue, InitRc, Start, Places, EncPlaces, RcState, CtxState,
     EncState, Nothing, MIN_PRE_ENC_RC_DELAY,
     MIN_L0_IPE_ENC_STAGGER, NUM_BUFS_DECOMP_HME

LEMMA InitHolds ==
  ASSUME Init
  PROVE  IInv
<1>1. TypeInv
  BY InitTypes
<1>2. lookAhead \in Nat /\ SlotOf(0) \in Slots
  BY <1>1, OwnSlots, Delays
<1>3. slot = [s \in Slots |-> EmptySlot] /\ ctx = [t \in Threads |-> Start]
      /\ left = [decomp |-> 0, coarse |-> 0, ipe |-> 0] /\ taken = 0
  BY DEF Init, Slots
<1>4. PastDecomp = {} /\ PastCoarse = {} /\ PastIpe = {} /\ Tuned = {} /\ Gone = {}
      /\ Threads # {} /\ Cardinality({}) = 0
  BY <1>3, SizesAssumption, FS_EmptySet DEF PastDecomp, PastCoarse, PastIpe, Tuned, Gone,
        DecompDone, Start
<1>5. DecompInv
  BY <1>2, <1>3, <1>4 DEF DecompInv, DecompDone, Start, EmptySlot, DecompSlot
<1>6. CoarseInv
  BY <1>2, <1>3, <1>4 DEF CoarseInv, Start, EmptySlot, CoarseSlot, Nothing
<1>7. IpeInv
  BY <1>2, <1>3, <1>4 DEF IpeInv, Start, EmptySlot, IpeSlot, InIpe, Count
<1>8. WindowInv
  BY <1>2, <1>3 DEF WindowInv, Start, InIpe
<1>9. PreInv
  BY <1>3 DEF PreInv, Init, Bought, Sent, Back, EmptyQueue, Start, PreBufs
<1>10. L0Inv
  BY <1>3, <1>4 DEF L0Inv, Init, HasL0, EmptyQueue, Start, L0Bufs
<1>11. QpInv
  <2>1. LastFrame \in Nat
    BY SizesAssumption DEF LastFrame
  <2> QED BY <1>3, <1>4, <2>1 DEF QpInv, Init, InitRc, Reads, Writes, WritesBefore, AtMost, QpOf,
                 Nothing, Valid,
          MIN_PRE_ENC_RC_DELAY, MIN_L0_IPE_ENC_STAGGER, NUM_BUFS_DECOMP_HME
<1> QED BY <1>1, <1>5, <1>6, <1>7, <1>8, <1>9, <1>10, <1>11 DEF IInv

-----------------------------------------------------------------------------
(* Each action keeps the types.                                            *)

LEMMA Bufs ==
  ASSUME TypeInv
  PROVE  PreBufs \in SUBSET Nat /\ L0Bufs = {0} /\ L0Bufs \in SUBSET Nat
<1>1. NumPreEncBufs(lookAhead) \in Nat
  BY Delays DEF NumPreEncBufs, MIN_L1_L0_STAGGER_NON_SEQ, MIN_L0_IPE_ENC_STAGGER,
        NUM_BUFS_DECOMP_HME
<1> QED BY <1>1 DEF PreBufs, L0Bufs, MIN_L0_IPE_ENC_STAGGER

LEMMA QpPlaces ==
  ASSUME TypeInv, QpInv
  PROVE  rc.read \in 0 .. 2 /\ rc.write \in 0 .. 2 /\ Reads \in Nat /\ Writes \in Nat
         /\ MIN_PRE_ENC_RC_DELAY = 3
<1>1. MIN_PRE_ENC_RC_DELAY = 3
  BY DEF MIN_PRE_ENC_RC_DELAY, MIN_L0_IPE_ENC_STAGGER, NUM_BUFS_DECOMP_HME
<1>2. LastFrame \in Nat /\ left.ipe \in Nat /\ enc.n \in Nat
  BY SizesAssumption DEF LastFrame, TypeInv, EncState
<1>3. Reads \in Nat /\ Writes \in Nat
  BY <1>2 DEF Reads, Writes, WritesBefore, AtMost
<1> QED BY <1>1, <1>3 DEF QpInv

(* The slot a thread uses, and the threads.                                *)
LEMMA OwnSlot ==
  ASSUME TypeInv, NEW t \in Threads
  PROVE  /\ ctx[t] \in CtxState
         /\ SlotOf(ctx[t].f) \in Slots /\ slot[SlotOf(ctx[t].f)] \in SlotState
         /\ SlotOf(ctx[t].ipe) \in Slots /\ slot[SlotOf(ctx[t].ipe)] \in SlotState
         /\ Cardinality(Threads) \in Nat
<1>1. ctx[t] \in CtxState
  BY DEF TypeInv
<1>2. ctx[t].f \in Nat /\ ctx[t].ipe \in Nat
  BY <1>1 DEF CtxState
<1>3. SlotOf(ctx[t].f) \in Slots /\ SlotOf(ctx[t].ipe) \in Slots
  BY <1>2, OwnSlots
<1> QED BY <1>1, <1>3, Counts DEF TypeInv

LEMMA NextTurnType ==
  ASSUME NEW c \in CtxState
  PROVE  /\ NextTurn(c) \in CtxState
         /\ NextTurn(c).at \in {"decomp", "ipe", "end"} /\ (NextTurn(c).at = "ipe" => c.ready > 1)
         /\ NextTurn(c).f = c.f /\ NextTurn(c).ipe = c.ipe + 1 /\ NextTurn(c).ready = c.ready - 1
<1> DEFINE place == IF ~c.end THEN "decomp" ELSE IF c.ready > 1 THEN "ipe" ELSE "end"
<1>1. place \in Places
  BY DEF Places
<1>2. place \in {"decomp", "ipe", "end"} /\ (place = "ipe" => c.ready > 1)
  OBVIOUS
<1>3. NextTurn(c) = [c EXCEPT !.ipe = @ + 1, !.ready = @ - 1, !.at = place]
  BY DEF NextTurn
<1> HIDE DEF place
<1>4. NextTurn(c) = [at |-> place, f |-> c.f, ipe |-> c.ipe + 1, ready |-> c.ready - 1,
                     end |-> c.end, asleep |-> c.asleep]
  BY <1>3 DEF CtxState
<1>5. NextTurn(c) \in CtxState
  BY <1>1, <1>4 DEF CtxState
<1> QED BY <1>2, <1>4, <1>5

LEMMA QueueTypes ==
  ASSUME NEW bufs, NEW q \in QueueState(bufs), NEW b \in bufs
  PROVE  /\ TakeBuf(q, b) \in QueueState(bufs) /\ SetProduced(q, b) \in QueueState(bufs)
         /\ GetBuf(q) \in QueueState(bufs) /\ ReleaseBuf(q, b) \in QueueState(bufs)
<1>1. TakeBuf(q, b) \in QueueState(bufs)
  <2> DEFINE used == [q.used EXCEPT ![b] = TRUE]
             seq == [q.seq EXCEPT ![b] = q.lastProd]
             lastProd == q.lastProd + 1
  <2>1. TakeBuf(q, b) = [q EXCEPT !.used = used, !.seq = seq, !.lastProd = lastProd]
    BY DEF TakeBuf, QueueState
  <2>2. used \in [bufs -> BOOLEAN] /\ seq \in [bufs -> Int] /\ lastProd \in Nat
    BY DEF QueueState
  <2> HIDE DEF used, seq, lastProd
  <2> QED BY <2>1, <2>2 DEF QueueState
<1>2. SetProduced(q, b) \in QueueState(bufs)
  BY DEF SetProduced, QueueState
<1>3. GetBuf(q) \in QueueState(bufs)
  BY DEF GetBuf, QueueState
<1>4. ReleaseBuf(q, b) \in QueueState(bufs)
  <2>1. CASE q.produced[b]
    <3>1. ReleaseBuf(q, b) = [q EXCEPT !.used[b] = FALSE, !.produced[b] = FALSE]
      BY <2>1 DEF ReleaseBuf
    <3>2. ReleaseBuf(q, b) = [used |-> [q.used EXCEPT ![b] = FALSE],
                              produced |-> [q.produced EXCEPT ![b] = FALSE],
                              seq |-> q.seq, lastProd |-> q.lastProd, lastCons |-> q.lastCons]
      BY <3>1 DEF QueueState
    <3> QED BY <3>2 DEF QueueState
  <2> QED BY <2>1 DEF ReleaseBuf
<1> QED BY <1>1, <1>2, <1>3, <1>4

LEMMA FreeTypes ==
  ASSUME TypeInv
  PROVE  /\ FreeBufs(preQ) # {} => FreeBuf(preQ) \in PreBufs
         /\ FreeBufs(l0Q) # {} => FreeBuf(l0Q) \in L0Bufs
         /\ FilledBufs(preQ) # {} => FilledBuf(preQ) \in PreBufs
         /\ FilledBufs(l0Q) # {} => FilledBuf(l0Q) \in L0Bufs
<1>1. preQ \in QueueState(PreBufs) /\ l0Q \in QueueState(L0Bufs)
  BY DEF TypeInv
<1> QED BY <1>1, Bufs, BufTypes

LEMMA WakeTypes ==
  ASSUME TypeInv, NEW t \in Threads, Wake(t)
  PROVE  TypeInv' /\ lookAhead' = lookAhead
<1>1. ctx' \in [Threads -> CtxState]
  BY DEF TypeInv, Wake, CtxState
<1>2. preSem' \in Nat
  BY DEF TypeInv, Wake
<1>3. UNCHANGED <<lookAhead, slot, taken, left, preQ, l0Q, l0Out, preBuf, l0Buf, rc, encSem, enc>>
  BY DEF Wake, encVars
<1> QED BY <1>1, <1>2, <1>3 DEF TypeInv, Slots, PreBufs, L0Bufs

LEMMA DecompInitTypes ==
  ASSUME TypeInv, NEW t \in Threads, DecompInit(t)
  PROVE  TypeInv' /\ lookAhead' = lookAhead
<1>1. slot' \in [Slots -> SlotState]
  <2> DEFINE s == SlotOf(ctx[t].f)
  <2>1. CASE slot[s].initDone
    <3>1. slot' = [slot EXCEPT ![s] = [@ EXCEPT !.complete = FALSE]]
      BY <2>1 DEF DecompInit
    <3>2. [slot[s] EXCEPT !.complete = FALSE] \in SlotState
      BY OwnSlot DEF SlotState
    <3> QED BY <3>1, <3>2 DEF TypeInv
  <2>2. CASE ~slot[s].initDone
    <3>1. slot' = [slot EXCEPT ![s] =
                     [@ EXCEPT !.complete = FALSE, !.initDone = TRUE, !.inp = taken]]
      BY <2>2, OwnSlot DEF TypeInv, DecompInit
    <3>2. taken \in Int /\ slot[s] \in SlotState
      BY OwnSlot DEF TypeInv
    <3> HIDE DEF s
    <3>3. [slot[s] EXCEPT !.complete = FALSE, !.initDone = TRUE, !.inp = taken] \in SlotState
      BY <3>2 DEF SlotState
    <3> QED BY <3>1, <3>3 DEF TypeInv
  <2> QED BY <2>1, <2>2
<1>2. ctx' \in [Threads -> CtxState]
  BY OwnSlot DEF TypeInv, DecompInit, Goto, CtxState, Places
<1>3. taken' \in Nat
  BY DEF TypeInv, DecompInit
<1>4. UNCHANGED <<lookAhead, left, preQ, l0Q, l0Out, preBuf, l0Buf, rc, preSem, encSem, enc>>
  BY DEF DecompInit, encVars
<1> QED BY <1>1, <1>2, <1>3, <1>4 DEF TypeInv, Slots, PreBufs, L0Bufs

LEMMA DecompBufTypes ==
  ASSUME TypeInv, NEW t \in Threads, DecompBuf(t)
  PROVE  TypeInv' /\ lookAhead' = lookAhead
<1>1. slot' \in [Slots -> SlotState]
  <2> DEFINE s == SlotOf(ctx[t].f)
             b == FreeBuf(preQ)
             end == slot[s].end \/ ~Valid(slot[s].inp)
  <2>1. CASE FreeBufs(preQ) # {}
    <3>1. slot' = [slot EXCEPT ![s] = [@ EXCEPT !.out = b, !.end = end]]
      BY <2>1, OwnSlot DEF TypeInv, DecompBuf
    <3>2. b \in Int
      BY <2>1, FreeTypes, Bufs DEF TypeInv
    <3>3. end \in BOOLEAN
      OBVIOUS
    <3> HIDE DEF b, end
    <3>4. [slot[s] EXCEPT !.out = b, !.end = end] \in SlotState
      BY <3>2, <3>3, OwnSlot DEF SlotState
    <3> QED BY <3>1, <3>4 DEF TypeInv
  <2>2. CASE FreeBufs(preQ) = {}
    BY <2>2 DEF TypeInv, DecompBuf, Sleep
  <2> QED BY <2>1, <2>2
<1>2. ctx' \in [Threads -> CtxState]
  <2>1. CASE FreeBufs(preQ) # {}
    BY <2>1, OwnSlot DEF TypeInv, DecompBuf, Goto, CtxState, Places
  <2>2. CASE FreeBufs(preQ) = {}
    <3>1. ctx' = [ctx EXCEPT ![t].asleep = TRUE]
      BY <2>2 DEF DecompBuf, Sleep
    <3> QED BY <3>1, OwnSlot DEF TypeInv, CtxState
  <2> QED BY <2>1, <2>2
<1>3. preQ' \in QueueState(PreBufs)
  <2>1. CASE FreeBufs(preQ) # {}
    <3>1. preQ' = TakeBuf(preQ, FreeBuf(preQ))
      BY <2>1 DEF DecompBuf
    <3> QED BY <2>1, <3>1, FreeTypes, QueueTypes DEF TypeInv
  <2>2. CASE FreeBufs(preQ) = {}
    BY <2>2 DEF TypeInv, DecompBuf, Sleep
  <2> QED BY <2>1, <2>2
<1>4. preBuf' \in [PreBufs -> [frame : Int, qp : Int]]
  BY FreeTypes DEF TypeInv, DecompBuf, Sleep, Nothing
<1>5. UNCHANGED <<lookAhead, taken, left, l0Q, l0Out, l0Buf, rc, preSem, encSem, enc>>
  BY DEF DecompBuf, Sleep
<1> QED BY <1>1, <1>2, <1>3, <1>4, <1>5 DEF TypeInv, Slots, PreBufs, L0Bufs

LEMMA DecompEndTypes ==
  ASSUME TypeInv, NEW t \in Threads, DecompEnd(t)
  PROVE  TypeInv' /\ lookAhead' = lookAhead
<1>1. slot' \in [Slots -> SlotState]
  <2> DEFINE s == SlotOf(ctx[t].f)
             n == CountUp(slot[s].decomp)
             made == slot[s].initDone /\ ~IsLast(slot[s].decomp)
  <2>1. slot' = [slot EXCEPT ![s] = [@ EXCEPT !.decomp = n, !.initDone = made]]
    BY OwnSlot DEF TypeInv, DecompEnd
  <2>2. n \in Int
    BY OwnSlot DEF CountUp, SlotState
  <2>3. made \in BOOLEAN
    OBVIOUS
  <2> HIDE DEF n, made
  <2>4. [slot[s] EXCEPT !.decomp = n, !.initDone = made] \in SlotState
    BY <2>2, <2>3, OwnSlot DEF SlotState
  <2> QED BY <2>1, <2>4 DEF TypeInv
<1>2. ctx' \in [Threads -> CtxState]
  BY OwnSlot DEF TypeInv, DecompEnd, Goto, CtxState, Places
<1>3. left' \in [decomp : Nat, coarse : Nat, ipe : Nat]
  BY DEF TypeInv, DecompEnd
<1>4. UNCHANGED <<lookAhead, taken, preQ, l0Q, l0Out, preBuf, l0Buf, rc, preSem, encSem, enc>>
  BY DEF DecompEnd, encVars
<1> QED BY <1>1, <1>2, <1>3, <1>4 DEF TypeInv, Slots, PreBufs, L0Bufs

LEMMA CoarseInitTypes ==
  ASSUME TypeInv, NEW t \in Threads, CoarseInit(t)
  PROVE  TypeInv' /\ lookAhead' = lookAhead
<1>1. slot' \in [Slots -> SlotState]
  BY OwnSlot DEF TypeInv, CoarseInit, SlotState
<1>2. ctx' \in [Threads -> CtxState]
  BY OwnSlot DEF TypeInv, CoarseInit, Goto, CtxState, Places
<1>3. UNCHANGED <<lookAhead, taken, left, preQ, l0Q, l0Out, preBuf, l0Buf, rc, preSem, encSem, enc>>
  BY DEF CoarseInit, encVars
<1> QED BY <1>1, <1>2, <1>3 DEF TypeInv, Slots, PreBufs, L0Bufs

LEMMA CoarseEndTypes ==
  ASSUME TypeInv, NEW t \in Threads, CoarseEnd(t)
  PROVE  TypeInv' /\ lookAhead' = lookAhead
<1>1. slot' \in [Slots -> SlotState]
  <2> DEFINE s == SlotOf(ctx[t].f)
         valid == Valid(slot[s].inp)
         last == valid /\ IsLast(slot[s].coarse)
         coarse == IF valid THEN CountUp(slot[s].coarse) ELSE slot[s].coarse
         complete == slot[s].complete \/ last \/ ~valid
         hmeInit == IF last THEN Nothing ELSE slot[s].hmeInit
  <2>1. slot' = [slot EXCEPT ![s] = [@ EXCEPT !.coarse = coarse, !.complete = complete,
                                              !.hmeInit = hmeInit]]
    BY OwnSlot DEF TypeInv, CoarseEnd
  <2>2. coarse \in Int
    BY OwnSlot DEF IsLast, CountUp, SlotState
  <2>3. complete \in BOOLEAN
    BY OwnSlot DEF Valid, IsLast, SlotState
  <2>4. hmeInit \in Int
    BY OwnSlot DEF Nothing, SlotState
  <2> HIDE DEF coarse, complete, hmeInit
  <2>5. [slot[s] EXCEPT !.coarse = coarse, !.complete = complete, !.hmeInit = hmeInit] \in SlotState
    BY <2>2, <2>3, <2>4, OwnSlot DEF SlotState
  <2> QED BY <2>1, <2>5 DEF TypeInv
<1>2. ctx' \in [Threads -> CtxState]
  <2> DEFINE s == SlotOf(ctx[t].f)
             ready == ctx[t].ready + 1
             f == ctx[t].f + 1
             end == slot[s].end
             at == IF ready >= Delay(lookAhead) \/ end THEN "ipe" ELSE "decomp"
  <2>1. ctx' = [ctx EXCEPT ![t] = [@ EXCEPT !.ready = ready, !.f = f, !.end = end, !.at = at]]
    BY DEF TypeInv, CoarseEnd
  <2>2. ready \in Int /\ f \in Nat /\ end \in BOOLEAN
    BY OwnSlot DEF CtxState, SlotState
  <2>3. at \in Places
    BY DEF Places
  <2> HIDE DEF ready, f, end, at
  <2>4. [ctx[t] EXCEPT !.ready = ready, !.f = f, !.end = end, !.at = at] \in CtxState
    BY <2>2, <2>3, OwnSlot DEF CtxState
  <2> QED BY <2>1, <2>4 DEF TypeInv
<1>3. left' \in [decomp : Nat, coarse : Nat, ipe : Nat]
  <2>1. PICK n \in {left.coarse, left.coarse + 1} : left' = [left EXCEPT !.coarse = n]
    BY DEF CoarseEnd
  <2> QED BY <2>1 DEF TypeInv
<1>4. UNCHANGED <<lookAhead, taken, preQ, l0Q, l0Out, preBuf, l0Buf, rc, preSem, encSem, enc>>
  BY DEF CoarseEnd, encVars
<1> QED BY <1>1, <1>2, <1>3, <1>4 DEF TypeInv, Slots, PreBufs, L0Bufs

LEMMA IpeWaitTypes ==
  ASSUME TypeInv, NEW t \in Threads, IpeWait(t)
  PROVE  TypeInv' /\ lookAhead' = lookAhead
<1>1. ctx' \in [Threads -> CtxState]
  BY OwnSlot, ZenonT(60) DEF TypeInv, IpeWait, Goto, CtxState, Places
<1>2. UNCHANGED <<lookAhead, slot, taken, left, preQ, l0Q, l0Out, preBuf, l0Buf, rc, preSem, encSem,
          enc>>
  BY DEF IpeWait, encVars
<1> QED BY <1>1, <1>2 DEF TypeInv, Slots, PreBufs, L0Bufs

LEMMA IpeInitTypes ==
  ASSUME TypeInv, NEW t \in Threads, IpeInit(t)
  PROVE  TypeInv' /\ lookAhead' = lookAhead
<1>1. slot' \in [Slots -> SlotState]
  BY OwnSlot DEF TypeInv, IpeInit, QpSet, IsLast, CountUp, SlotState
<1>2. ctx' \in [Threads -> CtxState]
  BY OwnSlot DEF TypeInv, IpeInit, Goto, CtxState, Places
<1>3. preBuf' \in [PreBufs -> [frame : Int, qp : Int]]
  <2>1. rc.update \in Int
    BY DEF TypeInv, RcState
  <2>2. preBuf' = preBuf \/ \E b : preBuf' = [preBuf EXCEPT ![b].qp = rc.update]
    BY DEF IpeInit, QpSet
  <2> QED BY <2>1, <2>2 DEF TypeInv
<1>4. rc' \in RcState
  BY DEF TypeInv, IpeInit, RcState, Nothing
<1>5. UNCHANGED <<lookAhead, taken, left, preQ, l0Q, l0Out, l0Buf, preSem, encSem, enc>>
  BY DEF IpeInit
<1> QED BY <1>1, <1>2, <1>3, <1>4, <1>5 DEF TypeInv, Slots, PreBufs, L0Bufs

LEMMA IpeBufTypes ==
  ASSUME TypeInv, NEW t \in Threads, IpeBuf(t)
  PROVE  TypeInv' /\ lookAhead' = lookAhead
<1>1. l0Q' \in QueueState(L0Bufs)
  <2>1. CASE FreeBufs(l0Q) # {}
    <3>1. l0Q' = TakeBuf(l0Q, FreeBuf(l0Q))
      BY <2>1 DEF IpeBuf
    <3> QED BY <2>1, <3>1, FreeTypes, QueueTypes DEF TypeInv
  <2>2. CASE FreeBufs(l0Q) = {}
    BY <2>2 DEF TypeInv, IpeBuf, Sleep
  <2> QED BY <2>1, <2>2
<1>2. l0Out' \in Int
  BY FreeTypes, Bufs DEF TypeInv, IpeBuf, Sleep
<1>3. ctx' \in [Threads -> CtxState]
  <2>1. CASE FreeBufs(l0Q) # {}
    BY <2>1, OwnSlot DEF TypeInv, IpeBuf, Goto, CtxState, Places
  <2>2. CASE FreeBufs(l0Q) = {}
    <3>1. ctx' = [ctx EXCEPT ![t].asleep = TRUE]
      BY <2>2 DEF IpeBuf, Sleep
    <3> QED BY <3>1, OwnSlot DEF TypeInv, CtxState
  <2> QED BY <2>1, <2>2
<1>4. UNCHANGED <<lookAhead, slot, taken, left, preQ, preBuf, l0Buf, rc, preSem, encSem, enc>>
  BY DEF IpeBuf, Sleep
<1> QED BY <1>1, <1>2, <1>3, <1>4 DEF TypeInv, Slots, PreBufs, L0Bufs

LEMMA IpeQpTypes ==
  ASSUME TypeInv, QpInv, NEW t \in Threads, IpeQp(t)
  PROVE  TypeInv' /\ lookAhead' = lookAhead
<1>1. slot' \in [Slots -> SlotState]
  <2> DEFINE s == SlotOf(ctx[t].ipe)
             n == CountUp(slot[s].qpInit)
  <2>1. slot' = [slot EXCEPT ![s] = [@ EXCEPT !.qpInit = n]]
    BY OwnSlot DEF TypeInv, IpeQp, QpSet
  <2>2. n \in Int
    BY OwnSlot DEF CountUp, SlotState
  <2> HIDE DEF n
  <2>3. [slot[s] EXCEPT !.qpInit = n] \in SlotState
    BY <2>2, OwnSlot DEF SlotState
  <2> QED BY <2>1, <2>3 DEF TypeInv
<1>2. ctx' \in [Threads -> CtxState]
  BY OwnSlot DEF TypeInv, IpeQp, Goto, CtxState, Places
<1>3. preBuf' \in [PreBufs -> [frame : Int, qp : Int]]
  <2> DEFINE qp == IF Valid(slot[SlotOf(ctx[t].ipe)].inp) THEN rc.queue[rc.read] ELSE rc.update
  <2>1. qp \in Int
    BY QpPlaces DEF TypeInv, RcState
  <2>2. preBuf' = preBuf \/ \E b : preBuf' = [preBuf EXCEPT ![b].qp = qp]
    BY DEF IpeQp, QpSet
  <2> HIDE DEF qp
  <2> QED BY <2>1, <2>2 DEF TypeInv
<1>4. rc' \in RcState
  <2>1. rc.queue[rc.read] \in Int /\ rc.update \in Int /\ Nothing \in Int
    BY QpPlaces, SMTT(30) DEF TypeInv, RcState, Nothing
  <2> DEFINE s == SlotOf(ctx[t].ipe)
         next == (rc.read + 1) % MIN_PRE_ENC_RC_DELAY
         qp == IF IsLast(slot[s].qpInit) THEN Nothing ELSE rc.queue[rc.read]
         kept == IF IsLast(slot[s].qpInit) THEN Nothing ELSE rc.update
  <2>2. \/ rc' = [rc EXCEPT !.queue = [@ EXCEPT ![rc.read] = Nothing], !.read = next, !.update = qp]
        \/ rc' = [rc EXCEPT !.update = kept]
    BY DEF IpeQp
  <2>3. next \in Int /\ qp \in Int /\ kept \in Int
    BY <2>1, QpPlaces
  <2> HIDE DEF next, qp, kept
  <2>4. [rc.queue EXCEPT ![rc.read] = Nothing] \in [0 .. MIN_PRE_ENC_RC_DELAY - 1 -> Int]
    BY <2>1 DEF TypeInv, RcState
  <2>5. CASE rc' = [rc EXCEPT !.queue = [@ EXCEPT ![rc.read] = Nothing], !.read = next,
          !.update = qp]
    <3> DEFINE q == [rc.queue EXCEPT ![rc.read] = Nothing]
    <3>1. rc' = [rc EXCEPT !.queue = q, !.read = next, !.update = qp]
      BY <2>5 DEF TypeInv, RcState
    <3> HIDE DEF q
    <3>2. q \in [0 .. MIN_PRE_ENC_RC_DELAY - 1 -> Int]
      BY <2>4 DEF q
    <3> QED BY <2>3, <3>1, <3>2 DEF TypeInv, RcState
  <2>6. CASE rc' = [rc EXCEPT !.update = kept]
    BY <2>3, <2>6 DEF TypeInv, RcState
  <2> QED BY <2>2, <2>5, <2>6
<1>5. UNCHANGED <<lookAhead, taken, left, preQ, l0Q, l0Out, l0Buf, preSem, encSem, enc>>
  BY DEF IpeQp
<1> QED BY <1>1, <1>2, <1>3, <1>4, <1>5 DEF TypeInv, Slots, PreBufs, L0Bufs

LEMMA IpeEndTypes ==
  ASSUME TypeInv, NEW t \in Threads, IpeEnd(t)
  PROVE  TypeInv' /\ lookAhead' = lookAhead
<1>1. slot' \in [Slots -> SlotState]
  <2> DEFINE s == SlotOf(ctx[t].ipe)
             n == CountUp(slot[s].ipe)
             made == slot[s].initDone /\ ~IsLast(slot[s].ipe)
  <2>1. slot' = [slot EXCEPT ![s] = [@ EXCEPT !.ipe = n, !.initDone = made]]
    BY OwnSlot DEF TypeInv, IpeEnd
  <2>2. n \in Int
    BY OwnSlot DEF CountUp, SlotState
  <2>3. made \in BOOLEAN
    OBVIOUS
  <2> HIDE DEF n, made
  <2>4. [slot[s] EXCEPT !.ipe = n, !.initDone = made] \in SlotState
    BY <2>2, <2>3, OwnSlot DEF SlotState
  <2> QED BY <2>1, <2>4 DEF TypeInv
<1>2. ctx' \in [Threads -> CtxState]
  <2>1. Goto(t, "ipeGive") \/ ctx' = [ctx EXCEPT ![t] = NextTurn(ctx[t])]
    BY DEF IpeEnd
  <2>2. Goto(t, "ipeGive") => ctx' \in [Threads -> CtxState]
    BY OwnSlot DEF TypeInv, Goto, CtxState, Places
  <2>3. NextTurn(ctx[t]) \in CtxState
    BY OwnSlot, NextTurnType
  <2> QED BY <2>1, <2>2, <2>3 DEF TypeInv
<1>3. preQ' \in QueueState(PreBufs)
  <2>1. preQ' = preQ \/ \E b : preQ' = SetProduced(preQ, b)
    BY DEF IpeEnd
  <2>2. \A b : SetProduced(preQ, b) \in QueueState(PreBufs)
    BY DEF TypeInv, SetProduced, QueueState
  <2> QED BY <2>1, <2>2 DEF TypeInv
<1>4. preBuf' \in [PreBufs -> [frame : Int, qp : Int]]
  BY OwnSlot DEF TypeInv, IpeEnd, SlotState
<1>5. l0Buf' \in [L0Bufs -> Int]
  BY OwnSlot DEF TypeInv, IpeEnd, SlotState
<1>6. encSem' \in Nat
  BY DEF TypeInv, IpeEnd
<1>7. UNCHANGED <<lookAhead, taken, left, l0Q, l0Out, rc, preSem, enc>>
  BY DEF IpeEnd
<1> QED BY <1>1, <1>2, <1>3, <1>4, <1>5, <1>6, <1>7 DEF TypeInv, Slots, PreBufs, L0Bufs

LEMMA IpeGiveTypes ==
  ASSUME TypeInv, NEW t \in Threads, IpeGive(t)
  PROVE  TypeInv' /\ lookAhead' = lookAhead
<1>1. ctx' \in [Threads -> CtxState]
  BY OwnSlot, NextTurnType DEF TypeInv, IpeGive
<1>2. l0Q' \in QueueState(L0Bufs)
  BY DEF TypeInv, IpeGive, SetProduced, QueueState
<1>3. left' \in [decomp : Nat, coarse : Nat, ipe : Nat]
  BY DEF TypeInv, IpeGive
<1>4. encSem' \in Nat
  BY DEF TypeInv, IpeGive
<1>5. UNCHANGED <<lookAhead, slot, taken, preQ, l0Out, preBuf, l0Buf, rc, preSem, enc>>
  BY DEF IpeGive
<1> QED BY <1>1, <1>2, <1>3, <1>4, <1>5 DEF TypeInv, Slots, PreBufs, L0Bufs

LEMMA EncTypes ==
  ASSUME TypeInv, QpInv, EncodeGroup
  PROVE  TypeInv' /\ UNCHANGED threadVars
<1>1. UNCHANGED threadVars
  BY DEF EncodeGroup, EncWake, GetPre, GetL0, EncInit, ReleasePre, ReleaseL0
<1>2. preQ' \in QueueState(PreBufs)
  <2>1. \A b : ReleaseBuf(preQ, b) \in QueueState(PreBufs)
    BY DEF TypeInv, ReleaseBuf, QueueState
  <2>2. GetBuf(preQ) \in QueueState(PreBufs)
    BY DEF TypeInv, GetBuf, QueueState
  <2>3. preQ' = preQ \/ preQ' = GetBuf(preQ) \/ \E b : preQ' = ReleaseBuf(preQ, b)
    BY DEF EncodeGroup, EncWake, GetPre, GetL0, EncInit, ReleasePre, ReleaseL0
  <2> QED BY <2>1, <2>2, <2>3 DEF TypeInv
<1>3. l0Q' \in QueueState(L0Bufs)
  <2>1. \A b : ReleaseBuf(l0Q, b) \in QueueState(L0Bufs)
    BY DEF TypeInv, ReleaseBuf, QueueState
  <2>2. GetBuf(l0Q) \in QueueState(L0Bufs)
    BY DEF TypeInv, GetBuf, QueueState
  <2>3. l0Q' = l0Q \/ l0Q' = GetBuf(l0Q) \/ \E b : l0Q' = ReleaseBuf(l0Q, b)
    BY DEF EncodeGroup, EncWake, GetPre, GetL0, EncInit, ReleasePre, ReleaseL0
  <2> QED BY <2>1, <2>2, <2>3 DEF TypeInv
<1>4. enc' \in EncState
  <2>1. CASE EncWake
    BY <2>1 DEF TypeInv, EncWake, EncState
  <2>2. CASE GetPre
    <3>1. CASE FilledBufs(preQ) # {}
      <4>1. enc' = [enc EXCEPT !.at = "getL0", !.pre = FilledBuf(preQ)]
        BY <2>2, <3>1 DEF GetPre
      <4>2. FilledBuf(preQ) \in Int /\ "getL0" \in EncPlaces
        BY <3>1, FreeTypes, Bufs DEF EncPlaces
      <4> QED BY <4>1, <4>2 DEF TypeInv, EncState
    <3>2. CASE FilledBufs(preQ) = {}
      BY <2>2, <3>2 DEF TypeInv, GetPre, EncState
    <3> QED BY <3>1, <3>2
  <2>3. CASE GetL0
    <3>1. CASE FilledBufs(l0Q) # {}
      <4>1. enc' = [enc EXCEPT !.at = "init", !.l0 = FilledBuf(l0Q)]
        BY <2>3, <3>1 DEF GetL0
      <4>2. FilledBuf(l0Q) \in Int /\ "init" \in EncPlaces
        BY <3>1, FreeTypes, Bufs DEF EncPlaces
      <4> QED BY <4>1, <4>2 DEF TypeInv, EncState
    <3>2. CASE FilledBufs(l0Q) = {}
      BY <2>3, <3>2 DEF TypeInv, GetL0, EncState
    <3> QED BY <3>1, <3>2
  <2>4. CASE EncInit
    BY <2>4 DEF TypeInv, EncInit, EncState, EncPlaces
  <2>5. CASE ReleasePre
    BY <2>5 DEF TypeInv, ReleasePre, EncState, EncPlaces
  <2>6. CASE ReleaseL0
    <3> DEFINE p == IF Valid(enc.n) THEN "getPre" ELSE "end"
    <3>1. enc' = [enc EXCEPT !.at = p, !.n = @ + 1]
      BY <2>6 DEF ReleaseL0
    <3>2. p \in EncPlaces
      BY DEF EncPlaces
    <3> HIDE DEF p
    <3>3. enc' = [at |-> p, n |-> enc.n + 1, pre |-> enc.pre, l0 |-> enc.l0, asleep |-> enc.asleep]
      BY <3>1 DEF TypeInv, EncState
    <3> QED BY <3>2, <3>3 DEF TypeInv, EncState
  <2> QED BY <2>1, <2>2, <2>3, <2>4, <2>5, <2>6 DEF EncodeGroup
<1>5. rc' \in RcState
  <2>1. rc' = rc \/ rc' = SetQp(rc, enc.n)
    BY DEF EncodeGroup, EncWake, GetPre, GetL0, EncInit, ReleasePre, ReleaseL0
  <2>2. enc.n \in Int
    BY DEF TypeInv, EncState
  <2> DEFINE next == (rc.write + 1) % MIN_PRE_ENC_RC_DELAY
             q == [rc.queue EXCEPT ![rc.write] = enc.n]
  <2>3. SetQp(rc, enc.n) = rc \/ SetQp(rc, enc.n) = [rc EXCEPT !.queue = q, !.write = next]
    BY DEF SetQp, TypeInv, RcState
  <2>4. next \in Int /\ q \in [0 .. MIN_PRE_ENC_RC_DELAY - 1 -> Int]
    BY <2>2, QpPlaces DEF TypeInv, RcState
  <2> HIDE DEF next, q
  <2>5. [rc EXCEPT !.queue = q, !.write = next] \in RcState
    BY <2>4 DEF TypeInv, RcState
  <2> QED BY <2>1, <2>3, <2>5 DEF TypeInv
<1>6. preSem' \in Nat
  BY DEF TypeInv, EncodeGroup, EncWake, GetPre, GetL0, EncInit, ReleasePre, ReleaseL0
<1>7. encSem' \in Nat
  BY DEF TypeInv, EncodeGroup, EncWake, GetPre, GetL0, EncInit, ReleasePre, ReleaseL0
<1> QED BY <1>1, <1>2, <1>3, <1>4, <1>5, <1>6, <1>7 DEF TypeInv, threadVars, Slots, PreBufs, L0Bufs

-----------------------------------------------------------------------------
(* Where the frames and the threads are.                                   *)

(* Only the thread t moves, to a place.                                    *)
Moves(t, place) ==
  /\ ctx'[t].at = place /\ ctx'[t].f = ctx[t].f /\ ctx'[t].ipe = ctx[t].ipe
  /\ ctx'[t].ready = ctx[t].ready /\ ctx'[t].end = ctx[t].end
  /\ \A u \in Threads \ {t} : ctx'[u] = ctx[u]

LEMMA Numbers ==
  ASSUME TypeInv
  PROVE  /\ left.decomp \in Nat /\ left.coarse \in Nat /\ left.ipe \in Nat /\ taken \in Nat
         /\ LastFrame \in Nat /\ enc.n \in Nat
         /\ \A t \in Threads : ctx[t].f \in Nat /\ ctx[t].ipe \in Nat /\ ctx[t].ready \in Int
         /\ DecompSlot \in Slots /\ CoarseSlot \in Slots /\ IpeSlot \in Slots
<1>1. left.decomp \in Nat /\ left.coarse \in Nat /\ left.ipe \in Nat
  BY DEF TypeInv
<1>2. enc.n \in Nat /\ taken \in Nat
  BY DEF TypeInv, EncState
<1>3. \A t \in Threads : ctx[t].f \in Nat /\ ctx[t].ipe \in Nat /\ ctx[t].ready \in Int
  BY OwnSlot DEF CtxState
<1>4. LastFrame \in Nat
  BY SizesAssumption DEF LastFrame
<1>5. DecompSlot \in Slots /\ CoarseSlot \in Slots /\ IpeSlot \in Slots
  BY <1>1, OwnSlots DEF DecompSlot, CoarseSlot, IpeSlot
<1> QED BY <1>1, <1>2, <1>3, <1>4, <1>5

(* A thread's frame is in flight: got, and not left by all.                *)
LEMMA InFlight ==
  ASSUME TypeInv, DecompInv, IpeInv, WindowInv
  PROVE  /\ left.ipe <= Bought /\ Bought <= taken /\ taken <= left.decomp + 1 /\ left.decomp <= taken
         /\ left.decomp <= Bought /\ Bought \in Nat
         /\ \A t \in Threads :
              /\ left.ipe <= ctx[t].ipe /\ ctx[t].ipe <= ctx[t].f /\ ctx[t].f <= Bought
              /\ InFirstStages(t) => ctx[t].f < Bought
              /\ ctx[t].at = "decompBuf" => ctx[t].f < taken /\ Bought = ctx[t].f
              /\ InIpe(t) \/ ctx[t].at = "ipe" => ctx[t].ipe < Bought
<1>1. /\ Bought \in Nat /\ left.decomp <= taken /\ taken <= left.decomp + 1
      /\ left.decomp <= Bought /\ Bought <= taken
  BY Numbers DEF Bought, DecompInv
<1>2. ASSUME NEW t \in Threads
      PROVE  /\ DecompDone(t) \in Nat /\ ctx[t].f <= DecompDone(t)
             /\ DecompDone(t) <= Bought \/ ctx[t].at = "decompBuf"
             /\ ctx[t].at = "decompWork" => ctx[t].f < Bought
             /\ ctx[t].at = "decompBuf" => ctx[t].f < taken /\ Bought = ctx[t].f
  <2>1. DecompDone(t) \in Nat /\ ctx[t].f <= DecompDone(t)
    BY Numbers DEF DecompDone
  <2>2. DecompDone(t) \in {left.decomp, left.decomp + 1}
    BY DEF DecompInv
  <2>3. DecompDone(t) = left.decomp + 1 => taken = left.decomp + 1
    BY DEF DecompInv, PastDecomp
  <2>4. DecompDone(t) = left.decomp + 1 /\ ctx[t].at # "decompBuf" => Bought = taken
    <3>1. ASSUME NEW u \in Threads, ctx[u].at = "decompBuf", u # t
          PROVE  DecompDone(t) = left.decomp
      BY <3>1 DEF DecompInv
    <3> QED BY <1>1, <3>1, Numbers DEF Bought
  <2>5. ctx[t].at = "decompWork" => Bought = taken
    <3>1. ASSUME NEW u \in Threads, ctx[u].at = "decompBuf", u # t
          PROVE  ctx[t].at # "decompWork"
      BY <3>1 DEF DecompInv
    <3> QED BY <1>1, <3>1, Numbers DEF Bought
  <2>6. ctx[t].at \in {"decompBuf", "decompWork"}
          => ctx[t].f = left.decomp /\ taken = left.decomp + 1
    BY DEF DecompInv
  <2>7. ctx[t].at = "decompBuf" => Bought = left.decomp
    BY DEF Bought
  <2> QED BY <1>1, <2>1, <2>2, <2>3, <2>4, <2>5, <2>6, <2>7, Numbers
<1>3. ASSUME NEW t \in Threads
      PROVE  /\ left.ipe <= ctx[t].ipe /\ ctx[t].ipe <= ctx[t].f /\ ctx[t].f <= Bought
             /\ InFirstStages(t) => ctx[t].f < Bought
             /\ InIpe(t) \/ ctx[t].at = "ipe" => ctx[t].ipe < Bought
  <2>1. left.ipe <= ctx[t].ipe
    BY Numbers DEF IpeInv
  <2>2. ctx[t].f = ctx[t].ipe + ctx[t].ready /\ ctx[t].ready >= 0
    BY DEF WindowInv
  <2>3. ctx[t].f <= Bought
    BY <1>1, <1>2, Numbers
  <2>4. InIpe(t) \/ ctx[t].at = "ipe" => ctx[t].ready >= 1
    BY Delays DEF WindowInv
  <2>5. InFirstStages(t) => ctx[t].f < Bought
    BY <1>1, <1>2, Numbers DEF InFirstStages, DecompDone
  <2> QED BY <1>1, <2>1, <2>2, <2>3, <2>4, <2>5, Numbers
<1>4. left.ipe <= Bought
  BY <1>1, <1>3, SizesAssumption, Numbers
<1> QED BY <1>1, <1>2, <1>3, <1>4

LEMMA SlotsApart ==
  ASSUME TypeInv, WindowInv, NEW f \in left.ipe .. taken - 1, NEW g \in left.ipe .. taken - 1, f # g
  PROVE  SlotOf(f) # SlotOf(g)
<1>1. /\ taken <= left.ipe + lookAhead + 2 /\ taken \in Nat /\ left.ipe \in Nat
      /\ lookAhead \in Nat
  BY Numbers, Delays DEF WindowInv
<1>2. f \in Nat /\ g \in Nat
  BY <1>1
<1>3. f <= g + lookAhead + 1 /\ g <= f + lookAhead + 1
  BY <1>1
<1> QED BY <1>2, <1>3, OwnSlots

-----------------------------------------------------------------------------
(* Decomposition.                                                          *)

LEMMA DecompFrame ==
  ASSUME TypeInv, TypeInv', DecompInv, lookAhead' = lookAhead, left'.decomp = left.decomp,
         taken' = taken,
         \A s \in Slots : slot'[s].initDone = slot[s].initDone /\ slot'[s].decomp = slot[s].decomp,
         \A t \in Threads :
           /\ DecompDone(t)' = DecompDone(t)
           /\ ctx'[t].at = "decompBuf" <=> ctx[t].at = "decompBuf"
           /\ ctx'[t].at = "decompWork" <=> ctx[t].at = "decompWork"
  PROVE  DecompInv'
<1>1. Slots' = Slots /\ DecompSlot' = DecompSlot /\ DecompSlot \in Slots
  BY Numbers DEF Slots, DecompSlot, SlotOf
<1>2. PastDecomp' = PastDecomp
  BY DEF PastDecomp
<1>3. \A t \in Threads : ctx[t].at \in {"decompBuf", "decompWork"} =>
        ctx'[t].f = ctx[t].f
  BY DEF DecompDone
<1> QED BY <1>1, <1>2, <1>3 DEF DecompInv

LEMMA DecompInitKeepsDecomp ==
  ASSUME TypeInv, TypeInv', DecompInv, NEW t \in Threads, DecompInit(t)
  PROVE  DecompInv'
<1> DEFINE s == DecompSlot
<1>1. /\ ctx[t].at = "decomp" /\ ctx[t].f = left.decomp /\ SlotOf(ctx[t].f) = s /\ s \in Slots
      /\ \A u \in Threads : ctx[u].at # "decompBuf"
  BY Numbers DEF DecompInit, Within, DecompSlot
<1>2. Slots' = Slots /\ DecompSlot' = s /\ left' = left
  BY DEF DecompInit, Slots, DecompSlot, SlotOf
<1>3. Moves(t, IF slot[s].initDone THEN "decompWork" ELSE "decompBuf")
  BY <1>1, OwnSlot DEF DecompInit, Goto, Moves, TypeInv, CtxState
<1>4. \A u \in Threads : DecompDone(u)' = DecompDone(u)
  BY <1>1, <1>3 DEF DecompDone, Moves
<1>5. PastDecomp' = PastDecomp
  BY <1>2, <1>4 DEF PastDecomp
<1>6. \A i \in Slots : slot'[i].decomp = slot[i].decomp
  BY <1>1, OwnSlot DEF DecompInit, TypeInv, SlotState
<1>7. \A i \in Slots : slot'[i].initDone = (slot[i].initDone \/ i = s)
  BY <1>1, OwnSlot DEF DecompInit, TypeInv, SlotState
<1>8. taken' = left.decomp + 1
  BY <1>1 DEF DecompInit, DecompInv
<1>9. ~slot[s].initDone => \A u \in Threads : DecompDone(u) = left.decomp
                             /\ ctx[u].at \notin {"decompBuf", "decompWork"}
  BY DEF DecompInv, PastDecomp
<1> HIDE DEF s
<1>10. \A u \in Threads : ctx'[u].at \in {"decompBuf", "decompWork"} => ctx'[u].f = left.decomp
  BY <1>1, <1>3 DEF DecompInv, Moves
<1>11. \A u, v \in Threads : ctx'[u].at = "decompBuf" /\ v # u =>
         DecompDone(v)' = left.decomp /\ ctx'[v].at \notin {"decompBuf", "decompWork"}
  BY <1>1, <1>3, <1>4, <1>9 DEF Moves
<1>12. (\A u \in Threads : DecompDone(u) \in {left.decomp, left.decomp + 1})'
  BY <1>2, <1>4 DEF DecompInv
<1>13. (\A u \in Threads : ctx[u].at \in {"decompBuf", "decompWork"} =>
          ctx[u].f = left.decomp /\ slot[DecompSlot].initDone)'
  BY <1>1, <1>2, <1>7, <1>10
<1>14. (PastDecomp # {} => slot[DecompSlot].initDone)'
  BY <1>1, <1>2, <1>7
<1>15. (\A i \in Slots : slot[i].decomp = IF i = DecompSlot THEN Cardinality(PastDecomp) ELSE 0)'
  BY <1>2, <1>5, <1>6 DEF DecompInv, s
<1>16. (\A i \in Slots : slot[i].initDone => i = DecompSlot)'
  BY <1>2, <1>7 DEF DecompInv, s
<1>17. (taken = IF slot[DecompSlot].initDone THEN left.decomp + 1 ELSE left.decomp)'
  BY <1>1, <1>2, <1>7, <1>8
<1>18. (PastDecomp # Threads)'
  BY <1>5 DEF DecompInv
<1>19. (\A u, v \in Threads : ctx[u].at = "decompBuf" /\ v # u =>
          DecompDone(v) = left.decomp /\ ctx[v].at \notin {"decompBuf", "decompWork"})'
  BY <1>2, <1>11
<1> QED BY <1>12, <1>13, <1>14, <1>15, <1>16, <1>17, <1>18, <1>19 DEF DecompInv

LEMMA DecompBufKeepsDecomp ==
  ASSUME TypeInv, TypeInv', DecompInv, NEW t \in Threads, DecompBuf(t)
  PROVE  DecompInv'
<1>1. lookAhead' = lookAhead /\ left' = left /\ taken' = taken /\ ctx[t].at = "decompBuf"
  BY DEF DecompBuf
<1>2. Slots' = Slots /\ DecompSlot' = DecompSlot /\ DecompSlot \in Slots
  BY <1>1, Numbers DEF Slots, DecompSlot, SlotOf
<1>3. Moves(t, "decompBuf") \/ Moves(t, "decompWork")
  BY OwnSlot DEF DecompBuf, Sleep, Goto, Moves, TypeInv, CtxState
<1>4. \A u \in Threads : DecompDone(u)' = DecompDone(u)
  BY <1>1, <1>3 DEF DecompDone, Moves
<1>5. PastDecomp' = PastDecomp
  BY <1>1, <1>4 DEF PastDecomp
<1>6. \A i \in Slots : slot'[i].decomp = slot[i].decomp /\ slot'[i].initDone = slot[i].initDone
  <2>1. CASE FreeBufs(preQ) # {}
    <3> DEFINE s == SlotOf(ctx[t].f)
               b == FreeBuf(preQ)
               end == slot[s].end \/ ~Valid(slot[s].inp)
    <3>1. slot' = [slot EXCEPT ![s] = [@ EXCEPT !.out = b, !.end = end]]
      BY <2>1, OwnSlot DEF DecompBuf, TypeInv
    <3> HIDE DEF s, b, end
    <3> QED BY <3>1 DEF TypeInv, SlotState
  <2>2. CASE FreeBufs(preQ) = {}
    BY <2>2 DEF DecompBuf, Sleep
  <2> QED BY <2>1, <2>2
<1>7. \A u \in Threads : ctx'[u].f = ctx[u].f /\
        (ctx'[u].at \in {"decompBuf", "decompWork"} => ctx[u].at \in {"decompBuf", "decompWork"})
  BY <1>1, <1>3 DEF Moves
<1>8. \A u, v \in Threads : ctx'[u].at = "decompBuf" /\ v # u =>
        ctx[u].at = "decompBuf" /\ ctx'[v].at = ctx[v].at
  BY <1>1, <1>3 DEF DecompInv, Moves
<1> QED BY <1>1, <1>2, <1>4, <1>5, <1>6, <1>7, <1>8 DEF DecompInv

LEMMA DecompEndKeepsDecomp ==
  ASSUME TypeInv, TypeInv', DecompInv, NEW t \in Threads, DecompEnd(t)
  PROVE  DecompInv'
<1> DEFINE s == DecompSlot
           last == PastDecomp \cup {t} = Threads
<1>1. /\ ctx[t].at = "decompWork" /\ ctx[t].f = left.decomp /\ SlotOf(ctx[t].f) = s /\ s \in Slots
      /\ slot[s].initDone /\ slot[s].decomp = Cardinality(PastDecomp)
      /\ \A u \in Threads : ctx[u].at # "decompBuf"
  BY Numbers DEF DecompEnd, DecompInv, DecompSlot
<1>2. t \in Threads \ PastDecomp /\ PastDecomp \in SUBSET Threads
  BY <1>1, Numbers DEF PastDecomp, DecompDone
<1>3. /\ IsLast(slot[s].decomp) <=> last
      /\ CountUp(slot[s].decomp) = IF last THEN 0 ELSE Cardinality(PastDecomp \cup {t})
  <2>1. /\ IsLast(Cardinality(PastDecomp)) <=> last
        /\ CountUp(Cardinality(PastDecomp)) = Count(PastDecomp \cup {t})
    BY <1>2, OneMore
  <2> QED BY <1>1, <2>1 DEF Count
<1>4. Slots' = Slots /\ left'.decomp = (IF last THEN left.decomp + 1 ELSE left.decomp)
      /\ taken' = taken /\ lookAhead' = lookAhead
  BY <1>1, <1>3 DEF DecompEnd, Slots, TypeInv
<1>5. Moves(t, "coarse")
  BY OwnSlot DEF TypeInv, DecompEnd, Goto, CtxState, Moves
<1>6. \A u \in Threads : DecompDone(u)' = IF u = t THEN left.decomp + 1 ELSE DecompDone(u)
  BY <1>1, <1>5 DEF DecompDone, Moves
<1>7. \A i \in Slots : slot'[i].decomp = (IF i = s THEN CountUp(slot[s].decomp) ELSE slot[i].decomp)
  BY <1>1, OwnSlot DEF DecompEnd, TypeInv, SlotState
<1>8. \A i \in Slots : slot'[i].initDone = (slot[i].initDone /\ ~(i = s /\ last))
  BY <1>1, <1>3, OwnSlot DEF DecompEnd, TypeInv, SlotState
<1>9. taken = left.decomp + 1
  BY <1>1 DEF DecompInv
<1>10. \A u \in Threads : ctx'[u].at # "decompBuf"
         /\ (ctx'[u].at = "decompWork" => u # t /\ ctx[u].at = "decompWork" /\ ctx'[u].f = left.decomp)
  BY <1>1, <1>5 DEF DecompInv, Moves
<1> HIDE DEF s
<1>11. CASE last
  <2>1. \A u \in Threads : DecompDone(u)' = left.decomp'
    BY <1>4, <1>6, <1>11 DEF PastDecomp
  <2>2. PastDecomp' = {} /\ Threads # {} /\ Cardinality({}) = 0
    BY <2>1, Numbers, <1>4, <1>11, SizesAssumption, FS_EmptySet DEF PastDecomp
  <2>3. \A i \in Slots : slot'[i].decomp = 0
    BY <1>3, <1>7, <1>11 DEF DecompInv, s
  <2>4. \A i \in Slots : ~slot'[i].initDone
    BY <1>8, <1>11 DEF DecompInv, s
  <2>5. \A u \in Threads : ctx'[u].at \notin {"decompBuf", "decompWork"}
    BY <1>10, <1>11, <1>1 DEF PastDecomp, DecompDone, DecompInv
  <2>6. DecompSlot' \in Slots
    BY <1>4, Numbers, OwnSlots DEF DecompSlot, SlotOf
  <2> QED BY <2>1, <2>2, <2>3, <2>4, <2>5, <2>6, <1>4, <1>9, <1>11 DEF DecompInv
<1>12. CASE ~last
  <2>1. DecompSlot' = s
    BY <1>4, <1>12 DEF s, DecompSlot, SlotOf
  <2>2. PastDecomp' = PastDecomp \cup {t}
    BY <1>2, <1>4, <1>6, <1>12, Numbers DEF PastDecomp
  <2>3. PastDecomp' # Threads /\ \A i \in Slots :
          slot'[i].decomp = IF i = s THEN Cardinality(PastDecomp') ELSE 0
    BY <2>2, <1>3, <1>7, <1>12 DEF DecompInv, s
  <2>4. \A i \in Slots : slot'[i].initDone = slot[i].initDone
    <3>1. \A i \in Slots : slot[i].initDone \in BOOLEAN
      BY DEF TypeInv, SlotState
    <3> QED BY <3>1, <1>8, <1>12
  <2>5. \A u \in Threads : DecompDone(u)' \in {left.decomp, left.decomp + 1}
    BY <1>6 DEF DecompInv
  <2> QED BY <2>1, <2>2, <2>3, <2>4, <2>5, <1>1, <1>4, <1>9, <1>10, <1>12 DEF DecompInv, s
<1> QED BY <1>11, <1>12

-----------------------------------------------------------------------------
(* What the actions do to the threads and to the parts of the slots.       *)

SameDecomp == \A i \in Slots :
  slot'[i].initDone = slot[i].initDone /\ slot'[i].decomp = slot[i].decomp
SameCoarse == \A i \in Slots :
  slot'[i].coarse = slot[i].coarse /\ slot'[i].hmeInit = slot[i].hmeInit
SameIpe == \A i \in Slots : slot'[i].ipe = slot[i].ipe /\ slot'[i].qpInit = slot[i].qpInit
SameInp == \A i \in Slots : slot'[i].inp = slot[i].inp
SameOut == \A i \in Slots : slot'[i].out = slot[i].out

(* A thread has done a frame's L0 IPE.                                     *)
Turns(t) ==
  /\ ctx'[t].at \in {"decomp", "ipe", "end"} /\ (ctx'[t].at = "ipe" => ctx[t].ready > 1)
  /\ ctx'[t].f = ctx[t].f /\ ctx'[t].ipe = ctx[t].ipe + 1 /\ ctx'[t].ready = ctx[t].ready - 1
  /\ \A u \in Threads \ {t} : ctx'[u] = ctx[u]

LEMMA DecompInitSlots ==
  ASSUME TypeInv, NEW t \in Threads, DecompInit(t)
  PROVE  SameCoarse /\ SameIpe /\ SameOut
<1>1. SameCoarse
  BY OwnSlot DEF DecompInit, TypeInv, SlotState, SameCoarse
<1>2. SameIpe
  BY OwnSlot DEF DecompInit, TypeInv, SlotState, SameIpe
<1>3. SameOut
  BY OwnSlot, SMTT(30) DEF DecompInit, TypeInv, SlotState, SameOut
<1> QED BY <1>1, <1>2, <1>3

LEMMA DecompBufSlots ==
  ASSUME TypeInv, NEW t \in Threads, DecompBuf(t)
  PROVE  SameDecomp /\ SameCoarse /\ SameIpe /\ SameInp
<1>1. CASE FreeBufs(preQ) # {}
  <2> DEFINE s == SlotOf(ctx[t].f)
             b == FreeBuf(preQ)
             end == slot[s].end \/ ~Valid(slot[s].inp)
  <2>1. slot' = [slot EXCEPT ![s] = [@ EXCEPT !.out = b, !.end = end]]
    BY <1>1, OwnSlot DEF DecompBuf, TypeInv
  <2> HIDE DEF s, b, end
  <2>2. SameDecomp
    BY <2>1 DEF TypeInv, SlotState, SameDecomp
  <2>3. SameCoarse
    BY <2>1 DEF TypeInv, SlotState, SameCoarse
  <2>4. SameIpe
    BY <2>1 DEF TypeInv, SlotState, SameIpe
  <2>5. SameInp
    BY <2>1 DEF TypeInv, SlotState, SameInp
  <2> QED BY <2>2, <2>3, <2>4, <2>5
<1>2. CASE FreeBufs(preQ) = {}
  BY <1>2 DEF DecompBuf, Sleep, SameDecomp, SameCoarse, SameIpe, SameInp
<1> QED BY <1>1, <1>2

LEMMA DecompEndSlots ==
  ASSUME TypeInv, NEW t \in Threads, DecompEnd(t)
  PROVE  SameCoarse /\ SameIpe /\ SameInp /\ SameOut
<1>1. SameCoarse
  BY OwnSlot DEF DecompEnd, TypeInv, SlotState, SameCoarse
<1>2. SameIpe
  BY OwnSlot DEF DecompEnd, TypeInv, SlotState, SameIpe
<1>3. SameInp
  BY OwnSlot DEF DecompEnd, TypeInv, SlotState, SameInp
<1>4. SameOut
  BY OwnSlot DEF DecompEnd, TypeInv, SlotState, SameOut
<1> QED BY <1>1, <1>2, <1>3, <1>4

LEMMA CoarseInitSlots ==
  ASSUME TypeInv, NEW t \in Threads, CoarseInit(t)
  PROVE  SameDecomp /\ SameIpe /\ SameInp /\ SameOut
<1>1. SameDecomp
  BY OwnSlot DEF CoarseInit, TypeInv, SlotState, SameDecomp
<1>2. SameIpe
  BY OwnSlot DEF CoarseInit, TypeInv, SlotState, SameIpe
<1>3. SameInp
  BY OwnSlot DEF CoarseInit, TypeInv, SlotState, SameInp
<1>4. SameOut
  BY OwnSlot DEF CoarseInit, TypeInv, SlotState, SameOut
<1> QED BY <1>1, <1>2, <1>3, <1>4

LEMMA CoarseEndSlots ==
  ASSUME TypeInv, NEW t \in Threads, CoarseEnd(t)
  PROVE  SameDecomp /\ SameIpe /\ SameInp /\ SameOut
<1>1. SameDecomp
  BY OwnSlot DEF CoarseEnd, TypeInv, SlotState, SameDecomp
<1>2. SameIpe
  BY OwnSlot DEF CoarseEnd, TypeInv, SlotState, SameIpe
<1>3. SameInp
  BY OwnSlot DEF CoarseEnd, TypeInv, SlotState, SameInp
<1>4. SameOut
  BY OwnSlot DEF CoarseEnd, TypeInv, SlotState, SameOut
<1> QED BY <1>1, <1>2, <1>3, <1>4

LEMMA IpeInitSlots ==
  ASSUME TypeInv, NEW t \in Threads, IpeInit(t)
  PROVE  SameDecomp /\ SameCoarse /\ SameInp /\ SameOut
<1>1. SameDecomp
  <2>1. CASE slot[SlotOf(ctx[t].ipe)].qpInit = 0
    BY <2>1 DEF IpeInit, SameDecomp
  <2>2. CASE slot[SlotOf(ctx[t].ipe)].qpInit # 0
    BY <2>2, OwnSlot DEF IpeInit, QpSet, TypeInv, SlotState, SameDecomp
  <2> QED BY <2>1, <2>2
<1>2. SameCoarse
  BY OwnSlot DEF IpeInit, QpSet, TypeInv, SlotState, SameCoarse
<1>3. SameInp
  BY OwnSlot DEF IpeInit, QpSet, TypeInv, SlotState, SameInp
<1>4. SameOut
  BY OwnSlot DEF IpeInit, QpSet, TypeInv, SlotState, SameOut
<1> QED BY <1>1, <1>2, <1>3, <1>4

LEMMA IpeQpSlots ==
  ASSUME TypeInv, NEW t \in Threads, IpeQp(t)
  PROVE  SameDecomp /\ SameCoarse /\ SameInp /\ SameOut
<1>1. SameDecomp
  BY OwnSlot DEF IpeQp, QpSet, TypeInv, SlotState, SameDecomp
<1>2. SameCoarse
  BY OwnSlot DEF IpeQp, QpSet, TypeInv, SlotState, SameCoarse
<1>3. SameInp
  BY OwnSlot DEF IpeQp, QpSet, TypeInv, SlotState, SameInp
<1>4. SameOut
  BY OwnSlot DEF IpeQp, QpSet, TypeInv, SlotState, SameOut
<1> QED BY <1>1, <1>2, <1>3, <1>4

LEMMA IpeEndSlots ==
  ASSUME TypeInv, NEW t \in Threads, IpeEnd(t)
  PROVE  SameCoarse /\ SameInp /\ SameOut
<1>1. SameCoarse
  BY OwnSlot DEF IpeEnd, TypeInv, SlotState, SameCoarse
<1>2. SameInp
  BY OwnSlot DEF IpeEnd, TypeInv, SlotState, SameInp
<1>3. SameOut
  BY OwnSlot DEF IpeEnd, TypeInv, SlotState, SameOut
<1> QED BY <1>1, <1>2, <1>3

LEMMA Keeping ==
  ASSUME NEW t \in Threads, Wake(t) \/ IpeWait(t) \/ IpeBuf(t) \/ IpeGive(t)
  PROVE  slot' = slot
BY DEF Wake, IpeWait, IpeBuf, Sleep, IpeGive

LEMMA FirstStagesMove ==
  ASSUME TypeInv, NEW t \in Threads
  PROVE  /\ DecompInit(t) => Moves(t, "decompWork") \/ Moves(t, "decompBuf")
         /\ DecompBuf(t) => Moves(t, "decompWork") \/ Moves(t, "decompBuf")
         /\ DecompEnd(t) => Moves(t, "coarse")
         /\ CoarseInit(t) => Moves(t, "coarseWork")
<1>1. ASSUME DecompInit(t) PROVE Moves(t, "decompWork") \/ Moves(t, "decompBuf")
  BY <1>1, OwnSlot DEF DecompInit, Goto, Moves, TypeInv, CtxState
<1>2. ASSUME DecompBuf(t) PROVE Moves(t, "decompWork") \/ Moves(t, "decompBuf")
  BY <1>2, OwnSlot DEF DecompBuf, Sleep, Goto, Moves, TypeInv, CtxState
<1>3. ASSUME DecompEnd(t) PROVE Moves(t, "coarse")
  BY <1>3, OwnSlot DEF DecompEnd, Goto, Moves, TypeInv, CtxState
<1>4. ASSUME CoarseInit(t) PROVE Moves(t, "coarseWork")
  BY <1>4, OwnSlot DEF CoarseInit, Goto, Moves, TypeInv, CtxState
<1> QED BY <1>1, <1>2, <1>3, <1>4

LEMMA CoarseEndMoves ==
  ASSUME TypeInv, NEW t \in Threads, CoarseEnd(t)
  PROVE  /\ ctx'[t].at \in {"ipe", "decomp"} /\ ctx'[t].f = ctx[t].f + 1
         /\ ctx'[t].at = "decomp" => ctx'[t].ready < Delay(lookAhead)
         /\ ctx'[t].ipe = ctx[t].ipe /\ ctx'[t].ready = ctx[t].ready + 1
         /\ \A u \in Threads \ {t} : ctx'[u] = ctx[u]
<1> DEFINE end == slot[SlotOf(ctx[t].f)].end
           ready == ctx[t].ready + 1
           place == IF ready >= Delay(lookAhead) \/ end THEN "ipe" ELSE "decomp"
<1>1. ctx'[t].at = place /\ ctx'[t].f = ctx[t].f + 1
  BY DEF CoarseEnd, TypeInv, CtxState
<1>2. ctx'[t].ipe = ctx[t].ipe /\ ctx'[t].ready = ready
  BY SMTT(30) DEF CoarseEnd, TypeInv, CtxState
<1>3. \A u \in Threads \ {t} : ctx'[u] = ctx[u]
  BY DEF CoarseEnd, TypeInv, CtxState
<1>4. place \in {"ipe", "decomp"} /\ (place = "decomp" => ready < Delay(lookAhead))
  BY Delays, Numbers, SMTT(30) DEF Delay, MIN_L1_L0_STAGGER_NON_SEQ
<1> HIDE DEF end, place
<1> QED BY <1>1, <1>2, <1>3, <1>4

LEMMA NextTurnMoves ==
  ASSUME TypeInv, NEW t \in Threads, ctx' = [ctx EXCEPT ![t] = NextTurn(ctx[t])]
  PROVE  Turns(t)
BY OwnSlot, NextTurnType DEF TypeInv, Turns

LEMMA IpeMoves ==
  ASSUME TypeInv, NEW t \in Threads
  PROVE  /\ Wake(t) => Moves(t, ctx[t].at)
         /\ IpeWait(t) => Moves(t, "ipeInit")
         /\ IpeInit(t) => Moves(t, "ipeBuf") \/ Moves(t, "ipeWork")
         /\ IpeBuf(t) => Moves(t, "ipeBuf") \/ Moves(t, "ipeQp")
         /\ IpeQp(t) => Moves(t, "ipeWork")
         /\ IpeEnd(t) => Moves(t, "ipeGive") \/ Turns(t)
         /\ IpeGive(t) => Turns(t)
<1>1. ASSUME Wake(t) PROVE Moves(t, ctx[t].at)
  BY <1>1, OwnSlot DEF Wake, Moves, TypeInv, CtxState
<1>2. ASSUME IpeWait(t) PROVE Moves(t, "ipeInit")
  BY <1>2, OwnSlot DEF IpeWait, Goto, Moves, TypeInv, CtxState
<1>3. ASSUME IpeInit(t) PROVE Moves(t, "ipeBuf") \/ Moves(t, "ipeWork")
  BY <1>3, OwnSlot DEF IpeInit, Goto, Moves, TypeInv, CtxState
<1>4. ASSUME IpeBuf(t) PROVE Moves(t, "ipeBuf") \/ Moves(t, "ipeQp")
  BY <1>4, OwnSlot DEF IpeBuf, Sleep, Goto, Moves, TypeInv, CtxState
<1>5. ASSUME IpeQp(t) PROVE Moves(t, "ipeWork")
  BY <1>5, OwnSlot DEF IpeQp, Goto, Moves, TypeInv, CtxState
<1>6. ASSUME IpeEnd(t) PROVE Moves(t, "ipeGive") \/ Turns(t)
  <2>1. Goto(t, "ipeGive") \/ ctx' = [ctx EXCEPT ![t] = NextTurn(ctx[t])]
    BY <1>6 DEF IpeEnd
  <2>2. Goto(t, "ipeGive") => Moves(t, "ipeGive")
    BY OwnSlot DEF Goto, Moves, TypeInv, CtxState
  <2> QED BY <2>1, <2>2, NextTurnMoves
<1>7. ASSUME IpeGive(t) PROVE Turns(t)
  BY <1>7, NextTurnMoves DEF IpeGive
<1> QED BY <1>1, <1>2, <1>3, <1>4, <1>5, <1>6, <1>7

LEMMA IpeKeepsDecomp ==
  ASSUME TypeInv, TypeInv', DecompInv, IpeInv, WindowInv, lookAhead' = lookAhead, NEW t \in Threads,
         Wake(t) \/ IpeWait(t) \/ IpeInit(t) \/ IpeBuf(t) \/ IpeQp(t) \/ IpeEnd(t) \/ IpeGive(t)
  PROVE  DecompInv'
<1>1. left'.decomp = left.decomp /\ taken' = taken
  BY DEF Wake, IpeWait, IpeInit, IpeBuf, IpeQp, IpeEnd, IpeGive, TypeInv
<1>2. \A u \in Threads :
        /\ DecompDone(u)' = DecompDone(u)
        /\ ctx'[u].at = "decompBuf" <=> ctx[u].at = "decompBuf"
        /\ ctx'[u].at = "decompWork" <=> ctx[u].at = "decompWork"
  <2>1. \/ Moves(t, ctx[t].at)
        \/ /\ ctx[t].at \in {"ipe", "ipeInit", "ipeBuf", "ipeQp", "ipeWork", "ipeGive"}
           /\ \/ Turns(t)
              \/ \E p \in {"ipeInit", "ipeBuf", "ipeQp", "ipeWork", "ipeGive"} : Moves(t, p)
    BY IpeMoves DEF IpeWait, IpeInit, IpeBuf, IpeQp, IpeEnd, IpeGive
  <2> QED BY <2>1 DEF Moves, Turns, DecompDone
<1>3. SameDecomp
  <2>1. CASE Wake(t) \/ IpeWait(t) \/ IpeBuf(t) \/ IpeGive(t)
    BY <2>1, Keeping DEF SameDecomp
  <2>2. CASE IpeInit(t)
    BY <2>2, IpeInitSlots
  <2>3. CASE IpeQp(t)
    BY <2>3, IpeQpSlots
  <2>4. CASE IpeEnd(t)
    <3> DEFINE s == SlotOf(ctx[t].ipe)
    <3>1. ctx[t].ipe = left.ipe /\ s = IpeSlot /\ s \in Slots
      BY <2>4, Numbers DEF IpeEnd, IpeInv, InIpe, IpeSlot
    <3>2. t \in Threads \ Gone /\ Gone \in SUBSET Threads /\ slot[s].ipe = Count(Gone)
      BY <2>4, <3>1, Numbers DEF IpeEnd, IpeInv, Gone
    <3>3. IsLast(slot[s].ipe) <=> Gone \cup {t} = Threads
      <4>1. Count(Gone) = Cardinality(Gone)
        BY <3>2, OneMore
      <4>2. IsLast(Cardinality(Gone)) <=> Gone \cup {t} = Threads
        BY <3>2, OneMore
      <4> QED BY <3>2, <4>1, <4>2
    <3>4. \A i \in Slots : slot'[i].initDone = (slot[i].initDone /\ ~(i = s /\ Gone \cup {t} = Threads))
                           /\ slot'[i].decomp = slot[i].decomp /\ slot[i].initDone \in BOOLEAN
      BY <2>4, <3>1, <3>3 DEF IpeEnd, TypeInv, SlotState
    <3>5. Gone \cup {t} = Threads => ~slot[s].initDone
      <4>1. SUFFICES ASSUME Gone \cup {t} = Threads, slot[s].initDone
                     PROVE  FALSE
        OBVIOUS
      <4>2. s = DecompSlot /\ taken = left.decomp + 1
        BY <3>1, <4>1 DEF DecompInv
      <4>3. \A u \in Threads : ctx[u].f > left.ipe
        <5>1. \A u \in Threads : ctx[u].ipe = left.ipe + 1 \/ InIpe(u)
          BY <2>4, <4>1 DEF Gone, IpeEnd, InIpe
        <5>2. \A u \in Threads : ctx[u].f = ctx[u].ipe + ctx[u].ready
                 /\ ctx[u].ready >= 0 /\ (InIpe(u) => ctx[u].ready >= 1)
          BY Delays DEF WindowInv
        <5> QED BY <5>1, <5>2, Numbers DEF IpeInv
      <4>4. PICK u \in Threads : DecompDone(u) = left.decomp
        BY DEF DecompInv, PastDecomp
      <4>5. left.decomp > left.ipe
        BY <4>3, <4>4, Numbers DEF DecompDone
      <4>6. left.ipe \in left.ipe .. taken - 1 /\ left.decomp \in left.ipe .. taken - 1
        BY <4>2, <4>5, Numbers
      <4> QED BY <3>1, <4>2, <4>5, <4>6, Numbers, SlotsApart DEF IpeSlot, DecompSlot
    <3> QED BY <3>4, <3>5 DEF SameDecomp
  <2> QED BY <2>1, <2>2, <2>3, <2>4
<1> QED BY <1>1, <1>2, <1>3, DecompFrame DEF SameDecomp

LEMMA CoarseKeepsDecomp ==
  ASSUME TypeInv, TypeInv', DecompInv, lookAhead' = lookAhead, NEW t \in Threads,
         CoarseInit(t) \/ CoarseEnd(t)
  PROVE  DecompInv'
<1>1. left'.decomp = left.decomp /\ taken' = taken
  BY DEF CoarseInit, CoarseEnd, TypeInv
<1>2. \A u \in Threads :
        /\ DecompDone(u)' = DecompDone(u)
        /\ ctx'[u].at = "decompBuf" <=> ctx[u].at = "decompBuf"
        /\ ctx'[u].at = "decompWork" <=> ctx[u].at = "decompWork"
  <2>1. CASE CoarseInit(t)
    BY <2>1, FirstStagesMove DEF CoarseInit, Moves, DecompDone
  <2>2. CASE CoarseEnd(t)
    <3>1. ctx[t].at = "coarseWork" /\ ctx'[t].at \in {"ipe", "decomp"} /\ ctx'[t].f = ctx[t].f + 1
      BY <2>2, CoarseEndMoves DEF CoarseEnd
    <3>2. \A u \in Threads \ {t} : ctx'[u] = ctx[u]
      BY <2>2, CoarseEndMoves
    <3> QED BY <3>1, <3>2 DEF DecompDone
  <2> QED BY <2>1, <2>2
<1>3. SameDecomp
  BY CoarseInitSlots, CoarseEndSlots
<1> QED BY <1>1, <1>2, <1>3, DecompFrame DEF SameDecomp

LEMMA EncKeepsStages ==
  ASSUME DecompInv, CoarseInv, IpeInv, WindowInv, UNCHANGED threadVars
  PROVE  DecompInv' /\ CoarseInv' /\ IpeInv' /\ WindowInv'
<1>1. DecompInv'
  BY DEF threadVars, DecompInv, DecompDone, PastDecomp, DecompSlot, Slots, SlotOf
<1>2. CoarseInv'
  BY DEF threadVars, CoarseInv, PastCoarse, CoarseSlot, Slots, SlotOf
<1>3. IpeInv'
  BY DEF threadVars, IpeInv, PastIpe, Gone, Tuned, InIpe, IpeSlot, Slots, SlotOf
<1>4. WindowInv'
  BY DEF threadVars, WindowInv, InIpe, SlotOf
<1> QED BY <1>1, <1>2, <1>3, <1>4

-----------------------------------------------------------------------------
(* Coarse motion estimation.                                               *)

LEMMA CoarseFrame ==
  ASSUME TypeInv, TypeInv', CoarseInv, lookAhead' = lookAhead, left'.coarse = left.coarse,
         SameCoarse,
         \A t \in Threads : /\ ctx'[t].f = ctx[t].f
                            /\ ctx'[t].at = "coarseWork" => ctx[t].at = "coarseWork"
  PROVE  CoarseInv'
<1>1. Slots' = Slots /\ CoarseSlot' = CoarseSlot /\ CoarseSlot \in Slots
  BY Numbers DEF Slots, CoarseSlot, SlotOf
<1>2. PastCoarse' = PastCoarse
  BY DEF PastCoarse
<1> QED BY <1>1, <1>2 DEF CoarseInv, SameCoarse

LEMMA OthersKeepCoarse ==
  ASSUME TypeInv, TypeInv', CoarseInv, lookAhead' = lookAhead, NEW t \in Threads,
         \/ DecompInit(t) \/ DecompBuf(t) \/ DecompEnd(t) \/ Wake(t) \/ IpeWait(t) \/ IpeInit(t)
         \/ IpeBuf(t) \/ IpeQp(t) \/ IpeEnd(t) \/ IpeGive(t)
  PROVE  CoarseInv'
<1>1. left'.coarse = left.coarse
  BY DEF DecompInit, DecompBuf, DecompEnd, Wake, IpeWait, IpeInit, IpeBuf, IpeQp, IpeEnd, IpeGive,
         TypeInv
<1>2. \A u \in Threads : ctx'[u].f = ctx[u].f
        /\ (ctx'[u].at = "coarseWork" => ctx[u].at = "coarseWork")
  <2>1. \/ Turns(t)
        \/ Moves(t, ctx[t].at)
        \/ \E p \in {"decompWork", "decompBuf", "coarse", "ipeInit", "ipeBuf", "ipeQp", "ipeWork",
                     "ipeGive"} : Moves(t, p)
    BY IpeMoves, FirstStagesMove
  <2> QED BY <2>1 DEF Moves, Turns
<1>3. SameCoarse
  <2>1. CASE Wake(t) \/ IpeWait(t) \/ IpeBuf(t) \/ IpeGive(t)
    BY <2>1, Keeping DEF SameCoarse
  <2> QED BY <2>1, DecompInitSlots, DecompBufSlots, DecompEndSlots, IpeInitSlots, IpeQpSlots,
             IpeEndSlots
<1> QED BY <1>1, <1>2, <1>3, CoarseFrame

LEMMA CoarseKeepsCoarse ==
  ASSUME TypeInv, TypeInv', DecompInv, CoarseInv, IpeInv, WindowInv, lookAhead' = lookAhead,
         NEW t \in Threads, CoarseInit(t) \/ CoarseEnd(t)
  PROVE  CoarseInv'
<1> DEFINE s == CoarseSlot
<1>1. ctx[t].f = left.coarse /\ SlotOf(ctx[t].f) = s /\ s \in Slots /\ InFirstStages(t)
  BY Numbers DEF CoarseInit, CoarseEnd, CoarseInv, CoarseSlot, InFirstStages
<1>2. slot[s].inp = left.coarse
  <2>1. left.coarse \in left.ipe .. taken - 1
    BY <1>1, InFlight, Numbers
  <2> QED BY <2>1 DEF WindowInv, CoarseSlot
<1>3. Slots' = Slots
  BY DEF Slots
<1>4. CASE CoarseInit(t)
  <2>1. /\ \A u \in Threads : ctx'[u].f = ctx[u].f
        /\ \A u \in Threads \ {t} : ctx'[u].at = ctx[u].at
    BY <1>4, FirstStagesMove DEF Moves
  <2>2. left' = left /\ CoarseSlot' = s /\ PastCoarse' = PastCoarse
    BY <1>4, <2>1 DEF CoarseInit, CoarseSlot, SlotOf, PastCoarse
  <2>3. \A i \in Slots : slot'[i].coarse = slot[i].coarse
          /\ slot'[i].hmeInit = IF i = s /\ slot[i].hmeInit = Nothing THEN slot[s].inp
                                ELSE slot[i].hmeInit
    BY <1>1, <1>4 DEF CoarseInit, TypeInv, SlotState
  <2> HIDE DEF s
  <2> QED BY <1>1, <1>2, <1>3, <2>1, <2>2, <2>3 DEF CoarseInv, s
<1>5. CASE CoarseEnd(t)
  <2> DEFINE valid == Valid(left.coarse)
             last == valid /\ PastCoarse \cup {t} = Threads
  <2>1. ctx[t].at = "coarseWork"
    BY <1>5 DEF CoarseEnd
  <2>2. /\ t \in Threads \ PastCoarse /\ PastCoarse \in SUBSET Threads
        /\ valid => slot[s].coarse = Cardinality(PastCoarse)
    BY <1>1, Numbers DEF PastCoarse, CoarseInv
  <2>3. /\ (valid /\ IsLast(slot[s].coarse)) = last
        /\ valid => CountUp(slot[s].coarse) = IF last THEN 0 ELSE Cardinality(PastCoarse \cup {t})
    BY <2>2, OneMore DEF Count
  <2>4. left'.coarse = IF last THEN left.coarse + 1 ELSE left.coarse
    <3>1. left'.coarse = IF Valid(slot[s].inp) /\ IsLast(slot[s].coarse) THEN left.coarse + 1
            ELSE left.coarse
      BY <1>1, <1>5 DEF CoarseEnd, TypeInv
    <3> QED BY <3>1, <1>2, <2>3
  <2>5. \A i \in Slots : slot'[i].coarse =
          IF i = s /\ Valid(slot[s].inp) THEN CountUp(slot[s].coarse) ELSE slot[i].coarse
    <3>1. SlotOf(ctx[t].f) = s /\ slot \in [Slots -> SlotState] /\ s \in Slots
      BY <1>1 DEF TypeInv
    <3> QED BY <1>5, <3>1, SMTT(30) DEF CoarseEnd, SlotState
  <2>6. \A i \in Slots : slot'[i].hmeInit =
          IF i = s /\ Valid(slot[s].inp) /\ IsLast(slot[s].coarse) THEN Nothing ELSE slot[i].hmeInit
    <3>1. SlotOf(ctx[t].f) = s /\ slot \in [Slots -> SlotState] /\ s \in Slots
      BY <1>1 DEF TypeInv
    <3> QED BY <1>5, <3>1, SMTT(30) DEF CoarseEnd, SlotState
  <2>7. /\ \A u \in Threads : ctx'[u].f = IF u = t THEN left.coarse + 1 ELSE ctx[u].f
        /\ \A u \in Threads : ctx'[u].at = "coarseWork" => u # t /\ ctx[u].at = "coarseWork"
    BY <1>1, <1>5, CoarseEndMoves
  <2> HIDE DEF s, valid
  <2>8. CASE last
    <3>1. \A u \in Threads : ctx'[u].f = left.coarse + 1
      BY <2>7, <2>8 DEF PastCoarse
    <3>2. PastCoarse' = {} /\ Threads # {} /\ Cardinality({}) = 0 /\ left.coarse \in Nat
      BY <3>1, <2>4, <2>8, Numbers, SizesAssumption, FS_EmptySet DEF PastCoarse
    <3>3. \A i \in Slots : slot'[i].coarse = 0 /\ slot'[i].hmeInit = Nothing
      BY <1>2, <2>3, <2>5, <2>6, <2>8 DEF CoarseInv, s, valid
    <3>4. \A u \in Threads : ctx'[u].at # "coarseWork"
      BY <2>7, <2>8, Numbers DEF PastCoarse, CoarseInv
    <3> QED BY <3>1, <3>2, <3>3, <3>4, <1>3, <2>4, <2>8 DEF CoarseInv
  <2>9. CASE ~last
    <3>1. CoarseSlot' = s /\ left'.coarse = left.coarse
      BY <2>4, <2>9 DEF CoarseSlot, SlotOf, s
    <3>2. PastCoarse' = PastCoarse \cup {t}
      BY <2>2, <2>4, <2>7, <2>9, Numbers DEF PastCoarse
    <3>3. \A i \in Slots : slot'[i].hmeInit = slot[i].hmeInit
      BY <1>2, <2>3, <2>6, <2>9 DEF valid
    <3>4. \A i \in Slots : slot'[i].coarse = IF i = s /\ valid THEN Cardinality(PastCoarse') ELSE 0
      BY <1>2, <2>3, <2>5, <2>9, <3>2 DEF CoarseInv, s, valid
    <3>5. valid => PastCoarse' # Threads
      BY <2>9, <3>2
    <3>6. \A u \in Threads : ctx'[u].f \in {left.coarse, left.coarse + 1}
      BY <2>7 DEF CoarseInv
    <3>7. \A u \in Threads : ctx'[u].at = "coarseWork" =>
            ctx'[u].f = left.coarse /\ slot[s].hmeInit = left.coarse
      BY <2>7 DEF CoarseInv, s
    <3> QED BY <1>1, <1>3, <3>1, <3>3, <3>4, <3>5, <3>6, <3>7 DEF CoarseInv, valid, s
  <2> QED BY <2>8, <2>9
<1> QED BY <1>4, <1>5

-----------------------------------------------------------------------------
(* L0 IPE.                                                                 *)

IpePlaces == {"ipeInit", "ipeBuf", "ipeQp", "ipeWork", "ipeGive"}

LEMMA IpeFrame ==
  ASSUME TypeInv, TypeInv', IpeInv, lookAhead' = lookAhead, left'.ipe = left.ipe, SameIpe,
         \A t \in Threads : /\ ctx'[t].ipe = ctx[t].ipe
                            /\ \/ ctx'[t].at = ctx[t].at
                               \/ ctx'[t].at \notin IpePlaces /\ ctx[t].at \notin IpePlaces
  PROVE  IpeInv' /\ Tuned' = Tuned /\ Gone' = Gone
<1>1. Slots' = Slots /\ IpeSlot' = IpeSlot /\ IpeSlot \in Slots
  BY Numbers DEF Slots, IpeSlot, SlotOf
<1>2. PastIpe' = PastIpe
  BY DEF PastIpe
<1>3. \A t \in Threads, p \in IpePlaces : ctx'[t].at = p <=> ctx[t].at = p
  OBVIOUS
<1>4. Tuned' = Tuned /\ Gone' = Gone
  BY <1>3 DEF Tuned, Gone, IpePlaces
<1>5. \A t \in Threads : InIpe(t)' = InIpe(t)
  BY DEF InIpe, IpePlaces
<1>6. \A s \in Slots : slot'[s].ipe = slot[s].ipe /\ slot'[s].qpInit = slot[s].qpInit
  BY DEF SameIpe
<1> QED BY <1>1, <1>2, <1>3, <1>4, <1>5, <1>6 DEF IpeInv, IpePlaces

LEMMA OthersKeepIpe ==
  ASSUME TypeInv, TypeInv', IpeInv, lookAhead' = lookAhead, NEW t \in Threads,
         \/ DecompInit(t) \/ DecompBuf(t) \/ DecompEnd(t) \/ CoarseInit(t) \/ CoarseEnd(t)
         \/ Wake(t)
  PROVE  IpeInv' /\ Tuned' = Tuned /\ Gone' = Gone
<1>1. left'.ipe = left.ipe
  BY DEF DecompInit, DecompBuf, DecompEnd, CoarseInit, CoarseEnd, Wake, TypeInv
<1>2. \A u \in Threads :
        /\ ctx'[u].ipe = ctx[u].ipe
        /\ \/ ctx'[u].at = ctx[u].at
           \/ ctx'[u].at \notin IpePlaces /\ ctx[u].at \notin IpePlaces
  <2>1. CASE CoarseEnd(t)
    <3>1. ctx[t].at \notin IpePlaces /\ ctx'[t].at \notin IpePlaces /\ ctx'[t].ipe = ctx[t].ipe
      BY <2>1, CoarseEndMoves DEF CoarseEnd, IpePlaces
    <3> QED BY <2>1, <3>1, CoarseEndMoves
  <2>2. CASE Wake(t)
    BY <2>2, IpeMoves DEF Moves
  <2>3. CASE DecompInit(t) \/ DecompBuf(t) \/ DecompEnd(t) \/ CoarseInit(t)
    <3>1. ctx[t].at \notin IpePlaces
      BY <2>3 DEF DecompInit, DecompBuf, DecompEnd, CoarseInit, IpePlaces
    <3>2. \E p \in {"decompWork", "decompBuf", "coarse", "coarseWork"} : Moves(t, p)
      BY <2>3, FirstStagesMove
    <3> QED BY <3>1, <3>2 DEF Moves, IpePlaces
  <2> QED BY <2>1, <2>2, <2>3
<1>3. SameIpe
  <2>1. CASE Wake(t)
    BY <2>1, Keeping DEF SameIpe
  <2> QED BY <2>1, DecompInitSlots, DecompBufSlots, DecompEndSlots, CoarseInitSlots, CoarseEndSlots
<1> QED BY <1>1, <1>2, <1>3, IpeFrame

LEMMA IpeWaitKeepsIpe ==
  ASSUME TypeInv, TypeInv', IpeInv, lookAhead' = lookAhead, NEW t \in Threads, IpeWait(t)
  PROVE  IpeInv' /\ Tuned' = Tuned /\ Gone' = Gone
<1>1. /\ ctx[t].at = "ipe" /\ ctx[t].ipe = left.ipe /\ left' = left /\ slot' = slot
      /\ Slots' = Slots /\ IpeSlot' = IpeSlot
  BY DEF IpeWait, Slots, IpeSlot, SlotOf
<1>2. Moves(t, "ipeInit")
  BY IpeMoves
<1>3. \A u \in Threads : ctx'[u].ipe = ctx[u].ipe
        /\ ctx'[u].at = IF u = t THEN "ipeInit" ELSE ctx[u].at
  BY <1>2 DEF Moves
<1>4. PastIpe' = PastIpe /\ Tuned' = Tuned /\ Gone' = Gone
  BY <1>1, <1>3 DEF PastIpe, Tuned, Gone
<1>5. \A u \in Threads, p \in {"ipeBuf", "ipeQp", "ipeGive"} : ctx'[u].at = p <=> ctx[u].at = p
  BY <1>1, <1>3
<1>6. \A u \in Threads : InIpe(u)' => ctx'[u].ipe = left.ipe
  BY <1>1, <1>3 DEF IpeInv, InIpe
<1> QED BY <1>1, <1>3, <1>4, <1>5, <1>6 DEF IpeInv

(* A thread at a place of the L0 IPE.                                      *)
LEMMA AtIpe ==
  ASSUME TypeInv, IpeInv, WindowInv, DecompInv, NEW t \in Threads, InIpe(t)
  PROVE  /\ ctx[t].ipe = left.ipe /\ SlotOf(ctx[t].ipe) = IpeSlot /\ IpeSlot \in Slots
         /\ slot[IpeSlot].inp = left.ipe /\ left.ipe \in left.ipe .. Bought - 1
         /\ slot[IpeSlot].ipe = Count(Gone) /\ slot[IpeSlot].qpInit = Count(Tuned)
         /\ Gone \in SUBSET Threads /\ Tuned \in SUBSET Threads /\ Gone \subseteq Tuned
         /\ t \in Tuned <=> ctx[t].at \in {"ipeWork", "ipeGive"}
         /\ t \in Gone <=> ctx[t].at = "ipeGive"
<1>1. ctx[t].ipe = left.ipe /\ IpeSlot \in Slots
  BY Numbers DEF IpeInv
<1>2. left.ipe \in left.ipe .. Bought - 1 /\ left.ipe \in left.ipe .. taken - 1
  BY <1>1, InFlight, Numbers
<1>3. SlotOf(left.ipe) = IpeSlot /\ slot[IpeSlot].inp = left.ipe
  BY <1>2 DEF WindowInv, IpeSlot
<1>4. /\ t \in Tuned <=> ctx[t].at \in {"ipeWork", "ipeGive"}
      /\ t \in Gone <=> ctx[t].at = "ipeGive"
  BY <1>1, Numbers DEF Tuned, Gone
<1>5. Gone \in SUBSET Threads /\ Tuned \in SUBSET Threads /\ Gone \subseteq Tuned
  BY DEF Tuned, Gone
<1>6. slot[IpeSlot].ipe = Count(Gone) /\ slot[IpeSlot].qpInit = Count(Tuned)
  BY <1>1 DEF IpeInv
<1> QED BY <1>1, <1>2, <1>3, <1>4, <1>5, <1>6

(* A thread gets its QP.                                                   *)
LEMMA QpSetKeepsIpe ==
  ASSUME TypeInv, TypeInv', DecompInv, IpeInv, WindowInv, lookAhead' = lookAhead, left' = left,
         NEW t \in Threads, ctx[t].at \in {"ipeInit", "ipeQp"}, Moves(t, "ipeWork"),
         NEW qp, QpSet(SlotOf(ctx[t].ipe), qp),
         \A u \in Threads \ {t} : ctx[u].at \notin {"ipeBuf", "ipeQp"}
  PROVE  IpeInv' /\ Tuned' = Tuned \cup {t} /\ Gone' = Gone
<1> DEFINE s == IpeSlot
<1>1. /\ ctx[t].ipe = left.ipe /\ SlotOf(ctx[t].ipe) = s /\ s \in Slots
      /\ t \in Threads \ Tuned /\ Tuned \in SUBSET Threads /\ slot[s].qpInit = Count(Tuned)
      /\ Gone \subseteq Tuned
  BY AtIpe DEF InIpe
<1>2. Slots' = Slots /\ IpeSlot' = s
  BY DEF Slots, IpeSlot, SlotOf
<1>3. \A i \in Slots : slot'[i].ipe = slot[i].ipe
        /\ slot'[i].qpInit = IF i = s THEN CountUp(slot[s].qpInit) ELSE slot[i].qpInit
  BY <1>1 DEF QpSet, TypeInv, SlotState
<1>4. CountUp(slot[s].qpInit) = Count(Tuned \cup {t})
  BY <1>1, OneMore
<1>5. \A u \in Threads : ctx'[u].ipe = ctx[u].ipe
        /\ ctx'[u].at = IF u = t THEN "ipeWork" ELSE ctx[u].at
  BY DEF Moves
<1>6. PastIpe' = PastIpe /\ Tuned' = Tuned \cup {t} /\ Gone' = Gone
  BY <1>1, <1>5 DEF PastIpe, Tuned, Gone
<1>7. \A u \in Threads : /\ InIpe(u)' => ctx'[u].ipe = left.ipe
                         /\ ctx'[u].at \notin {"ipeBuf", "ipeQp"}
                         /\ ctx'[u].at = "ipeGive" <=> ctx[u].at = "ipeGive"
  BY <1>1, <1>5 DEF IpeInv, InIpe
<1> HIDE DEF s
<1>8. \A i \in Slots : slot'[i].qpInit = IF i = s THEN Count(Tuned') ELSE 0
  BY <1>3, <1>4, <1>6 DEF IpeInv, s
<1>9. \A i \in Slots : slot'[i].ipe = IF i = s THEN Count(Gone') ELSE 0
  BY <1>3, <1>6 DEF IpeInv, s
<1>10. PastIpe' # Threads /\ \A u \in Threads : ctx'[u].ipe \in {left.ipe, left.ipe + 1}
  BY <1>5, <1>6 DEF IpeInv
<1>11. /\ \A u \in Threads : ctx'[u].at = "ipeGive" => Gone' = Threads
       /\ \A u, v \in Threads : ctx'[u].at = "ipeGive" /\ ctx'[v].at = "ipeGive" => u = v
  BY <1>6, <1>7 DEF IpeInv
<1> QED BY <1>2, <1>6, <1>7, <1>8, <1>9, <1>10, <1>11 DEF IpeInv, s

LEMMA IpeInitKeepsIpe ==
  ASSUME TypeInv, TypeInv', DecompInv, IpeInv, WindowInv, lookAhead' = lookAhead, NEW t \in Threads,
         IpeInit(t)
  PROVE  /\ IpeInv' /\ Gone' = Gone
         /\ \/ Tuned' = {} /\ Tuned = {} /\ Moves(t, "ipeBuf") /\ UNCHANGED <<slot, preBuf, rc>>
            \/ Tuned # {} /\ Tuned' = Tuned \cup {t} /\ Moves(t, "ipeWork")
               /\ QpSet(IpeSlot, rc.update)
               /\ rc' = [rc EXCEPT !.update = IF Tuned \cup {t} = Threads THEN Nothing ELSE @]
<1>1. ctx[t].at = "ipeInit" /\ InIpe(t) /\ left' = left
      /\ \A u \in Threads : ctx[u].at \notin {"ipeBuf", "ipeQp"}
  BY DEF IpeInit, InIpe, Within
<1>2. /\ ctx[t].ipe = left.ipe /\ SlotOf(ctx[t].ipe) = IpeSlot /\ IpeSlot \in Slots
      /\ t \in Threads \ Tuned /\ Tuned \in SUBSET Threads /\ slot[IpeSlot].qpInit = Count(Tuned)
  BY <1>1, AtIpe
<1>3. Count(Tuned) = Cardinality(Tuned) /\ ((Count(Tuned) = 0) <=> (Tuned = {}))
      /\ (IsLast(Cardinality(Tuned)) <=> Tuned \cup {t} = Threads)
  BY <1>2, OneMore
<1>4. CASE slot[IpeSlot].qpInit = 0
  <2>1. Tuned = {} /\ UNCHANGED <<slot, preBuf, rc>>
    BY <1>2, <1>3, <1>4 DEF IpeInit
  <2>2. Moves(t, "ipeBuf")
    BY <1>2, <1>4, OwnSlot DEF IpeInit, Goto, Moves, TypeInv, CtxState
  <2>3. \A u \in Threads : ctx'[u].ipe = ctx[u].ipe
          /\ (ctx'[u].at = IF u = t THEN "ipeBuf" ELSE ctx[u].at)
    BY <2>2 DEF Moves
  <2>4. PastIpe' = PastIpe /\ Tuned' = Tuned /\ Gone' = Gone
    BY <1>1, <2>3 DEF PastIpe, Tuned, Gone
  <2>5. \A u \in Threads : /\ InIpe(u)' => ctx'[u].ipe = left.ipe
                           /\ ctx'[u].at \in {"ipeBuf", "ipeQp"} => u = t
                           /\ ctx'[u].at = "ipeGive" <=> ctx[u].at = "ipeGive"
    BY <1>1, <1>2, <2>3 DEF IpeInv, InIpe
  <2>6. Slots' = Slots /\ IpeSlot' = IpeSlot /\ slot' = slot
    BY <1>1, <2>1 DEF Slots, IpeSlot, SlotOf
  <2> QED BY <1>1, <2>1, <2>2, <2>3, <2>4, <2>5, <2>6 DEF IpeInv
<1>5. CASE slot[IpeSlot].qpInit # 0
  <2>1. /\ Tuned # {} /\ QpSet(IpeSlot, rc.update)
        /\ rc' = [rc EXCEPT !.update = IF IsLast(slot[IpeSlot].qpInit) THEN Nothing ELSE @]
    BY <1>2, <1>3, <1>5 DEF IpeInit
  <2>2. Moves(t, "ipeWork")
    BY <1>2, <1>5, OwnSlot DEF IpeInit, Goto, Moves, TypeInv, CtxState
  <2>3. IpeInv' /\ Tuned' = Tuned \cup {t} /\ Gone' = Gone
    BY <1>1, <1>2, <2>1, <2>2, QpSetKeepsIpe
  <2>4. rc' = [rc EXCEPT !.update = IF Tuned \cup {t} = Threads THEN Nothing ELSE @]
    BY <1>2, <1>3, <2>1
  <2> QED BY <2>1, <2>2, <2>3, <2>4
<1> QED BY <1>4, <1>5

LEMMA IpeBufKeepsIpe ==
  ASSUME TypeInv, TypeInv', IpeInv, lookAhead' = lookAhead, NEW t \in Threads, IpeBuf(t)
  PROVE  IpeInv' /\ Tuned' = Tuned /\ Gone' = Gone /\ Tuned = {}
<1>1. ctx[t].at = "ipeBuf" /\ left' = left /\ slot' = slot /\ Slots' = Slots /\ IpeSlot' = IpeSlot
  BY Keeping DEF IpeBuf, Slots, IpeSlot, SlotOf
<1>2. PICK p \in {"ipeBuf", "ipeQp"} :
        \A u \in Threads : ctx'[u].ipe = ctx[u].ipe
                           /\ ctx'[u].at = IF u = t THEN p ELSE ctx[u].at
  <2>1. Moves(t, "ipeBuf") \/ Moves(t, "ipeQp")
    BY IpeMoves
  <2> QED BY <2>1 DEF Moves
<1>3. PastIpe' = PastIpe /\ Tuned' = Tuned /\ Gone' = Gone /\ Tuned = {}
  BY <1>1, <1>2 DEF PastIpe, Tuned, Gone, IpeInv
<1>4. \A u \in Threads : /\ InIpe(u)' => ctx'[u].ipe = left.ipe
                         /\ ctx'[u].at \in {"ipeBuf", "ipeQp"} => ctx[u].at \in {"ipeBuf", "ipeQp"}
                         /\ ctx'[u].at = "ipeGive" <=> ctx[u].at = "ipeGive"
  BY <1>1, <1>2 DEF IpeInv, InIpe
<1> QED BY <1>1, <1>2, <1>3, <1>4 DEF IpeInv

LEMMA IpeQpKeepsIpe ==
  ASSUME TypeInv, TypeInv', DecompInv, IpeInv, WindowInv, lookAhead' = lookAhead, NEW t \in Threads,
         IpeQp(t)
  PROVE  IpeInv' /\ Gone' = Gone /\ Tuned' = {t} /\ Tuned = {}
<1>1. ctx[t].at = "ipeQp" /\ left' = left /\ Tuned = {}
      /\ \A u \in Threads \ {t} : ctx[u].at \notin {"ipeBuf", "ipeQp"}
  BY DEF IpeQp, IpeInv
<1>2. PICK qp : QpSet(SlotOf(ctx[t].ipe), qp)
  BY DEF IpeQp
<1>3. Moves(t, "ipeWork")
  BY IpeMoves
<1> QED BY <1>1, <1>2, <1>3, QpSetKeepsIpe

LEMMA IpeEndKeepsIpe ==
  ASSUME TypeInv, TypeInv', DecompInv, IpeInv, WindowInv, lookAhead' = lookAhead, NEW t \in Threads,
         IpeEnd(t)
  PROVE  /\ IpeInv' /\ Gone' = Gone \cup {t} /\ Tuned' = Tuned
         /\ IsLast(slot[IpeSlot].ipe) <=> Gone' = Threads
<1> DEFINE s == IpeSlot
           last == Gone \cup {t} = Threads
<1>1. ctx[t].at = "ipeWork" /\ left' = left /\ InIpe(t)
  BY DEF IpeEnd, InIpe
<1>2. /\ ctx[t].ipe = left.ipe /\ SlotOf(ctx[t].ipe) = s /\ s \in Slots /\ t \in Tuned
      /\ t \in Threads \ Gone /\ Gone \in SUBSET Threads /\ slot[s].ipe = Count(Gone)
  BY <1>1, AtIpe
<1>3. /\ CountUp(slot[s].ipe) = Count(Gone \cup {t})
      /\ IsLast(slot[s].ipe) <=> last
  <2>1. Count(Gone) = Cardinality(Gone)
    BY <1>2, OneMore
  <2>2. CountUp(Cardinality(Gone)) = Count(Gone \cup {t}) /\ (IsLast(Cardinality(Gone)) <=> last)
    BY <1>2, OneMore
  <2> QED BY <1>2, <2>1, <2>2
<1>4. Slots' = Slots /\ IpeSlot' = s
  BY <1>1 DEF Slots, IpeSlot, SlotOf
<1>5. \A i \in Slots : slot'[i].qpInit = slot[i].qpInit
        /\ slot'[i].ipe = IF i = s THEN CountUp(slot[s].ipe) ELSE slot[i].ipe
  BY <1>2 DEF IpeEnd, TypeInv, SlotState
<1>6. (last => Moves(t, "ipeGive")) /\ (~last => Turns(t))
  <2>1. last => Goto(t, "ipeGive")
    BY <1>2, <1>3 DEF IpeEnd
  <2>2. ~last => ctx' = [ctx EXCEPT ![t] = NextTurn(ctx[t])]
    BY <1>2, <1>3 DEF IpeEnd
  <2>3. Goto(t, "ipeGive") => Moves(t, "ipeGive")
    BY OwnSlot DEF Goto, Moves, TypeInv, CtxState
  <2> QED BY <2>1, <2>2, <2>3, NextTurnMoves
<1>7. Tuned' = Tuned /\ Gone' = Gone \cup {t}
  <2>1. CASE last
    BY <1>1, <1>2, <1>6, <2>1 DEF Tuned, Gone, Moves
  <2>2. CASE ~last
    BY <1>1, <1>2, <1>6, <2>2, Numbers DEF Tuned, Gone, Turns
  <2> QED BY <2>1, <2>2
<1>8. PastIpe' # Threads
  <2>1. CASE last
    BY <1>1, <1>2, <1>6, <2>1, Numbers DEF PastIpe, Moves
  <2>2. CASE ~last
    BY <1>7, <2>2 DEF PastIpe, Gone
  <2> QED BY <2>1, <2>2
<1>9. \A u \in Threads : ctx[u].at # "ipeGive"
  BY <1>2 DEF IpeInv
<1>10. \A u \in Threads :
         /\ ctx'[u].ipe \in {left.ipe, left.ipe + 1}
         /\ InIpe(u)' => ctx'[u].ipe = left.ipe
         /\ ctx'[u].at \in {"ipeBuf", "ipeQp"} => ctx[u].at \in {"ipeBuf", "ipeQp"}
         /\ ctx'[u].at = "ipeGive" => u = t /\ last
  <2>1. CASE last
    BY <1>1, <1>2, <1>6, <1>9, <2>1 DEF Moves, IpeInv, InIpe
  <2>2. CASE ~last
    BY <1>1, <1>2, <1>6, <1>9, <2>2 DEF Turns, IpeInv, InIpe
  <2> QED BY <2>1, <2>2
<1> HIDE DEF s
<1>11. \A i \in Slots : slot'[i].ipe = IF i = s THEN Count(Gone') ELSE 0
  BY <1>3, <1>5, <1>7 DEF IpeInv, s
<1>12. \A i \in Slots : slot'[i].qpInit = IF i = s THEN Count(Tuned') ELSE 0
  BY <1>5, <1>7 DEF IpeInv, s
<1>13. /\ \A u \in Threads : ctx'[u].at = "ipeGive" => Gone' = Threads
       /\ \A u, v \in Threads : ctx'[u].at = "ipeGive" /\ ctx'[v].at = "ipeGive" => u = v
  BY <1>7, <1>10
<1>14. /\ \A u \in Threads : ctx'[u].at \in {"ipeBuf", "ipeQp"} => Tuned' = {}
       /\ \A u, v \in Threads :
            ctx'[u].at \in {"ipeBuf", "ipeQp"} /\ ctx'[v].at \in {"ipeBuf", "ipeQp"} => u = v
  BY <1>7, <1>10 DEF IpeInv
<1>15. IpeInv'
  BY <1>1, <1>4, <1>8, <1>10, <1>11, <1>12, <1>13, <1>14 DEF IpeInv, s
<1> QED BY <1>2, <1>3, <1>7, <1>15 DEF s

LEMMA IpeGiveKeepsIpe ==
  ASSUME TypeInv, TypeInv', DecompInv, IpeInv, WindowInv, lookAhead' = lookAhead, NEW t \in Threads,
         IpeGive(t)
  PROVE  IpeInv' /\ Gone' = {} /\ Tuned' = {} /\ Gone = Threads /\ Tuned = Threads
<1>1. /\ ctx[t].at = "ipeGive" /\ InIpe(t) /\ slot' = slot
      /\ left'.ipe = left.ipe + 1
  BY Keeping DEF IpeGive, InIpe, TypeInv
<1>2. ctx[t].ipe = left.ipe /\ Gone = Threads /\ Tuned = Threads
  BY <1>1, AtIpe DEF IpeInv
<1>3. \A u \in Threads \ {t} : ctx[u].ipe = left.ipe + 1 /\ ~InIpe(u)
  BY <1>1, <1>2, Numbers DEF Gone, IpeInv, InIpe
<1>4. Turns(t)
  BY IpeMoves
<1>5. \A u \in Threads : ctx'[u].ipe = left.ipe + 1 /\ ctx'[u].at \notin IpePlaces
  BY <1>2, <1>3, <1>4 DEF Turns, InIpe, IpePlaces
<1>6. PastIpe' = {} /\ Tuned' = {} /\ Gone' = {} /\ Threads # {}
  BY <1>1, <1>5, SizesAssumption, Numbers DEF PastIpe, Tuned, Gone, IpePlaces
<1>7. Count({}) = 0 /\ Count(Threads) = 0
  BY <1>6, FS_EmptySet DEF Count
<1>8. \A i \in Slots : slot'[i].ipe = 0 /\ slot'[i].qpInit = 0
  BY <1>1, <1>2, <1>7 DEF IpeInv
<1>9. Slots' = Slots /\ IpeSlot' \in Slots'
  <2>1. left'.ipe \in Nat
    BY <1>1, Numbers
  <2> QED BY <2>1, OwnSlots DEF Slots, IpeSlot, SlotOf
<1>10. \A u \in Threads : ctx'[u].at \notin {"ipeBuf", "ipeQp", "ipeGive"} /\ ~InIpe(u)'
  BY <1>5 DEF IpePlaces, InIpe
<1>11. IpeInv'
  BY <1>1, <1>5, <1>6, <1>7, <1>8, <1>9, <1>10 DEF IpeInv
<1> QED BY <1>2, <1>6, <1>11

-----------------------------------------------------------------------------
(* The frames between the stages.                                          *)

FirstPlaces == {"decomp", "decompBuf", "decompWork", "coarse", "coarseWork"}
LastPlaces == {"ipe"} \cup IpePlaces

(* A thread's own part.                                                    *)
Window(c) ==
  /\ c.f = c.ipe + c.ready /\ c.ready >= 0
  /\ c.at \in FirstPlaces => c.ready <= lookAhead
  /\ c.at \in LastPlaces => c.ready \in 1 .. lookAhead + 1

LEMMA Windows ==
  WindowInv <=> /\ \A t \in Threads : Window(ctx[t])
                /\ taken <= left.ipe + lookAhead + 2
                /\ \A g \in left.ipe .. taken - 1 : slot[SlotOf(g)].inp = g
BY DEF WindowInv, Window, FirstPlaces, LastPlaces, IpePlaces, InIpe

LEMMA WindowFrame ==
  ASSUME TypeInv, TypeInv', WindowInv, lookAhead' = lookAhead, left'.ipe = left.ipe,
         taken' = taken, SameInp, NEW t \in Threads, NEW p, Moves(t, p),
         \/ p = ctx[t].at
         \/ p \in FirstPlaces /\ ctx[t].at \in FirstPlaces
         \/ p \in LastPlaces /\ ctx[t].at \in LastPlaces
  PROVE  WindowInv'
<1>1. \A u \in Threads : Window(ctx[u])'
  <2>1. \A u \in Threads \ {t} : Window(ctx[u])'
    BY Windows DEF Moves, Window
  <2>2. Window(ctx[t])'
    BY Windows DEF Moves, Window, FirstPlaces, LastPlaces, IpePlaces
  <2> QED BY <2>1, <2>2
<1>2. \A g \in left.ipe .. taken - 1 : slot'[SlotOf(g)].inp = g /\ SlotOf(g)' = SlotOf(g)
  <2>1. \A g \in left.ipe .. taken - 1 : g \in Nat
    BY Numbers
  <2>2. \A g \in Nat : SlotOf(g) \in Slots /\ SlotOf(g)' = SlotOf(g)
    BY OwnSlots DEF SlotOf
  <2> QED BY <2>1, <2>2, Windows DEF SameInp
<1>3. taken' <= left'.ipe + lookAhead' + 2
  BY Windows
<1>4. \A u \in Threads : InIpe(u)' <=> ctx'[u].at \in IpePlaces
  BY DEF InIpe, IpePlaces
<1> QED BY <1>1, <1>2, <1>3, <1>4 DEF WindowInv, Window, FirstPlaces, LastPlaces, IpePlaces

LEMMA MovesKeepWindow ==
  ASSUME TypeInv, TypeInv', WindowInv, lookAhead' = lookAhead, NEW t \in Threads,
         \/ Wake(t) \/ DecompBuf(t) \/ DecompEnd(t) \/ CoarseInit(t) \/ IpeWait(t)
         \/ IpeInit(t) \/ IpeBuf(t) \/ IpeQp(t) \/ (IpeEnd(t) /\ Moves(t, "ipeGive"))
  PROVE  WindowInv'
<1>1. left'.ipe = left.ipe /\ taken' = taken
  BY DEF Wake, DecompBuf, DecompEnd, CoarseInit, IpeWait, IpeInit, IpeBuf, IpeQp, IpeEnd, TypeInv
<1>2. SameInp
  <2>1. CASE Wake(t) \/ IpeWait(t) \/ IpeBuf(t)
    BY <2>1, Keeping DEF SameInp
  <2> QED BY <2>1, DecompBufSlots, DecompEndSlots, CoarseInitSlots, IpeInitSlots, IpeQpSlots,
             IpeEndSlots
<1>3. CASE Wake(t)
  BY <1>1, <1>2, <1>3, IpeMoves, WindowFrame
<1>4. CASE DecompBuf(t) \/ DecompEnd(t) \/ CoarseInit(t)
  <2>1. ctx[t].at \in FirstPlaces
    BY <1>4 DEF DecompBuf, DecompEnd, CoarseInit, FirstPlaces
  <2>2. PICK p \in {"decompWork", "decompBuf", "coarse", "coarseWork"} : Moves(t, p)
    BY <1>4, FirstStagesMove
  <2>3. p \in FirstPlaces
    BY DEF FirstPlaces
  <2> QED BY <1>1, <1>2, <2>1, <2>2, <2>3, WindowFrame
<1>5. CASE IpeWait(t) \/ IpeInit(t) \/ IpeBuf(t) \/ IpeQp(t) \/ (IpeEnd(t) /\ Moves(t, "ipeGive"))
  <2>1. ctx[t].at \in LastPlaces
    BY <1>5 DEF IpeWait, IpeInit, IpeBuf, IpeQp, IpeEnd, LastPlaces, IpePlaces
  <2>2. PICK p \in IpePlaces : Moves(t, p)
    BY <1>5, IpeMoves DEF IpePlaces
  <2>3. p \in LastPlaces
    BY DEF LastPlaces
  <2> QED BY <1>1, <1>2, <2>1, <2>2, <2>3, WindowFrame
<1> QED BY <1>3, <1>4, <1>5

LEMMA DecompInitKeepsWindow ==
  ASSUME TypeInv, TypeInv', DecompInv, IpeInv, WindowInv, lookAhead' = lookAhead, NEW t \in Threads,
         DecompInit(t)
  PROVE  WindowInv'
<1> DEFINE s == DecompSlot
<1>1. /\ ctx[t].at = "decomp" /\ ctx[t].f = left.decomp /\ SlotOf(ctx[t].f) = s /\ s \in Slots
      /\ left' = left
  BY Numbers DEF DecompInit, DecompSlot
<1>2. PICK p \in {"decompWork", "decompBuf"} : Moves(t, p)
  BY FirstStagesMove
<1>3. p \in FirstPlaces /\ ctx[t].at \in FirstPlaces
  BY <1>1 DEF FirstPlaces
<1>4. CASE slot[s].initDone
  <2>1. taken' = taken /\ SameInp
    BY <1>1, <1>4 DEF DecompInit, TypeInv, SlotState, SameInp
  <2> QED BY <1>1, <1>2, <1>3, <2>1, WindowFrame
<1>5. CASE ~slot[s].initDone
  <2>1. /\ taken' = taken + 1 /\ taken = left.decomp
        /\ \A i \in Slots : slot'[i].inp = IF i = s THEN taken ELSE slot[i].inp
    BY <1>1, <1>5 DEF DecompInit, DecompInv, TypeInv, SlotState
  <2>2. \A u \in Threads : Window(ctx[u])'
    <3>1. \A u \in Threads \ {t} : Window(ctx[u])'
      BY <1>2, Windows DEF Moves, Window
    <3>2. Window(ctx[t])'
      BY <1>2, <1>3, Windows DEF Moves, Window, FirstPlaces, LastPlaces, IpePlaces
    <3> QED BY <3>1, <3>2
  <2>3. taken' <= left'.ipe + lookAhead' + 2
    <3>1. ctx[t].f = ctx[t].ipe + ctx[t].ready /\ ctx[t].ready <= lookAhead
      BY <1>1 DEF WindowInv
    <3>2. ctx[t].ipe <= left.ipe + 1
      BY Numbers DEF IpeInv
    <3>3. /\ ctx[t].f \in Nat /\ ctx[t].ipe \in Nat /\ ctx[t].ready \in Int /\ left.ipe \in Nat
          /\ lookAhead \in Nat
      BY Numbers, Delays
    <3>4. ctx[t].f + 1 <= left.ipe + lookAhead + 2
      BY <3>1, <3>2, <3>3
    <3>5. taken' = ctx[t].f + 1 /\ left' = left
      BY <1>1, <2>1
    <3> QED BY <3>4, <3>5
  <2>4. ASSUME NEW g \in left.ipe .. taken
        PROVE  slot'[SlotOf(g)].inp = g /\ SlotOf(g)' = SlotOf(g)
    <3>1. g \in Nat /\ SlotOf(g) \in Slots /\ SlotOf(g)' = SlotOf(g)
      BY Numbers, OwnSlots DEF SlotOf
    <3>2. CASE g = taken
      BY <1>1, <2>1, <3>1, <3>2 DEF DecompSlot
    <3>3. CASE g # taken
      <4>1. g \in left.ipe .. taken - 1
        BY <3>3, Numbers
      <4>2. g # left.decomp /\ g <= left.decomp + lookAhead + 1 /\ left.decomp <= g + lookAhead + 1
        <5>1. taken = left.decomp /\ taken + 1 <= left.ipe + lookAhead + 2
          BY <1>1, <2>1, <2>3
        <5>2. taken \in Nat /\ left.ipe \in Nat /\ lookAhead \in Nat /\ g \in Nat
          BY <3>1, Numbers, Delays
        <5> QED BY <4>1, <5>1, <5>2
      <4>3. SlotOf(g) # s
        BY <3>1, <4>2, Numbers, OwnSlots DEF DecompSlot
      <4> QED BY <2>1, <3>1, <4>1, <4>3, Windows
    <3> QED BY <3>2, <3>3
  <2>5. \A u \in Threads : InIpe(u)' <=> ctx'[u].at \in IpePlaces
    BY DEF InIpe, IpePlaces
  <2>6. left'.ipe .. taken' - 1 = left.ipe .. taken
    BY <1>1, <2>1, Numbers
  <2> QED BY <2>2, <2>3, <2>4, <2>5, <2>6 DEF WindowInv, Window, FirstPlaces, LastPlaces, IpePlaces
<1> QED BY <1>4, <1>5

(* A thread goes on to the next frame of one of its loops.                 *)
LEMMA TurnsKeepWindow ==
  ASSUME TypeInv, TypeInv', WindowInv, IpeInv, lookAhead' = lookAhead, NEW t \in Threads,
         CoarseEnd(t) \/ (IpeEnd(t) /\ Turns(t)) \/ IpeGive(t)
  PROVE  WindowInv'
<1>1. taken' = taken /\ left'.ipe \in {left.ipe, left.ipe + 1} /\ left.ipe \in Nat /\ taken \in Nat
  BY Numbers DEF CoarseEnd, IpeEnd, IpeGive, TypeInv
<1>2. SameInp
  <2>1. CASE IpeGive(t)
    BY <2>1, Keeping DEF SameInp
  <2> QED BY <2>1, CoarseEndSlots, IpeEndSlots
<1>3. \A u \in Threads \ {t} : ctx'[u] = ctx[u]
  BY CoarseEndMoves, IpeMoves DEF Turns
<1>4. Window(ctx[t]) /\ ctx[t] \in CtxState /\ lookAhead \in Nat
  BY Windows, OwnSlot, Delays
<1>5. Window(ctx[t])'
  <2>1. CASE CoarseEnd(t)
    <3>1. ctx[t].ready <= lookAhead
      BY <1>4, <2>1 DEF CoarseEnd, Window, FirstPlaces
    <3>2. ctx'[t].at = "decomp" => ctx'[t].ready <= lookAhead
      BY <1>4, <2>1, <3>1, CoarseEndMoves DEF Delay, MIN_L1_L0_STAGGER_NON_SEQ, CtxState, Window
    <3>3. ctx[t].f = ctx[t].ipe + ctx[t].ready /\ ctx[t].ready >= 0 /\ ctx[t].f \in Nat
          /\ ctx[t].ipe \in Nat /\ ctx[t].ready \in Int
      BY <1>4 DEF Window, CtxState
    <3>4. /\ ctx'[t].at \in {"ipe", "decomp"} /\ ctx'[t].f = ctx[t].f + 1
          /\ ctx'[t].ipe = ctx[t].ipe /\ ctx'[t].ready = ctx[t].ready + 1
      BY <2>1, CoarseEndMoves
    <3>5. ctx'[t].f = ctx'[t].ipe + ctx'[t].ready /\ ctx'[t].ready \in 1 .. lookAhead + 1
      BY <1>4, <3>1, <3>3, <3>4
    <3> QED BY <1>4, <3>2, <3>4, <3>5 DEF Window, FirstPlaces, LastPlaces, IpePlaces
  <2>2. CASE IpeEnd(t) \/ IpeGive(t)
    <3>1. ctx[t].ready \in 1 .. lookAhead + 1
      BY <1>4, <2>2 DEF IpeEnd, IpeGive, Window, LastPlaces, IpePlaces
    <3>2. Turns(t)
      BY <2>2, IpeMoves DEF IpeEnd, CoarseEnd
    <3>3. ctx[t].f = ctx[t].ipe + ctx[t].ready /\ ctx[t].f \in Nat
          /\ ctx[t].ipe \in Nat
      BY <1>4 DEF Window, CtxState
    <3> QED BY <1>4, <3>1, <3>2, <3>3 DEF Turns, Window, FirstPlaces, LastPlaces, IpePlaces
  <2> QED BY <2>1, <2>2
<1>6. \A u \in Threads : Window(ctx[u])'
  BY <1>3, <1>5, Windows DEF Window
<1>7. ASSUME NEW g \in left'.ipe .. taken' - 1
      PROVE  slot'[SlotOf(g)].inp = g /\ SlotOf(g)' = SlotOf(g)
  <2>1. g \in left.ipe .. taken - 1 /\ g \in Nat
    BY <1>1
  <2>2. SlotOf(g) \in Slots /\ SlotOf(g)' = SlotOf(g)
    BY <2>1, OwnSlots DEF SlotOf
  <2> QED BY <1>2, <2>1, <2>2, Windows DEF SameInp
<1>8. taken' <= left'.ipe + lookAhead' + 2
  BY <1>1, <1>4, Windows
<1>9. \A u \in Threads : InIpe(u)' <=> ctx'[u].at \in IpePlaces
  BY DEF InIpe, IpePlaces
<1> QED BY <1>6, <1>7, <1>8, <1>9 DEF WindowInv, Window, FirstPlaces, LastPlaces, IpePlaces

-----------------------------------------------------------------------------
(* The buffers of the frames.                                              *)

LEMMA BoughtKept ==
  ASSUME TypeInv, DecompInv, NEW t \in Threads,
         \/ Wake(t) \/ DecompInit(t) \/ DecompEnd(t) \/ CoarseInit(t) \/ CoarseEnd(t) \/ IpeWait(t)
         \/ IpeInit(t) \/ IpeBuf(t) \/ IpeQp(t) \/ IpeEnd(t) \/ IpeGive(t)
  PROVE  Bought' = Bought
<1>1. CASE DecompInit(t)
  <2>1. /\ ctx[t].f = left.decomp /\ SlotOf(ctx[t].f) = DecompSlot /\ left' = left
        /\ \A u \in Threads : ctx[u].at # "decompBuf"
    BY <1>1 DEF DecompInit, DecompSlot, Within
  <2>2. CASE slot[DecompSlot].initDone
    <3>1. taken' = taken /\ Moves(t, "decompWork")
      BY <1>1, <2>1, <2>2, OwnSlot DEF DecompInit, Goto, Moves, TypeInv, CtxState
    <3> QED BY <2>1, <3>1 DEF Moves, Bought
  <2>3. CASE ~slot[DecompSlot].initDone
    <3>1. Goto(t, "decompBuf") /\ taken = left.decomp
      BY <1>1, <2>1, <2>3 DEF DecompInit, DecompInv
    <3>2. ctx'[t].at = "decompBuf"
      BY <3>1 DEF Goto, TypeInv
    <3> QED BY <2>1, <3>1, <3>2 DEF Bought
  <2> QED BY <2>2, <2>3
<1>2. CASE DecompEnd(t)
  <2>1. ctx[t].at = "decompWork" /\ taken' = taken /\ Moves(t, "coarse")
    BY <1>2, FirstStagesMove DEF DecompEnd
  <2>2. \A u \in Threads : ctx[u].at # "decompBuf"
    BY <2>1 DEF DecompInv
  <2> QED BY <2>1, <2>2 DEF Moves, Bought
<1>3. CASE CoarseInit(t) \/ CoarseEnd(t)
  <2>1. left'.decomp = left.decomp /\ taken' = taken
    BY <1>3 DEF CoarseInit, CoarseEnd, TypeInv
  <2>2. /\ ctx[t].at # "decompBuf" /\ ctx'[t].at # "decompBuf"
        /\ \A u \in Threads \ {t} : ctx'[u] = ctx[u]
    BY <1>3, FirstStagesMove, CoarseEndMoves DEF CoarseInit, CoarseEnd, Moves
  <2> QED BY <2>1, <2>2 DEF Bought
<1>4. CASE \/ Wake(t) \/ IpeWait(t) \/ IpeInit(t) \/ IpeBuf(t) \/ IpeQp(t) \/ IpeEnd(t)
           \/ IpeGive(t)
  <2>1. left'.decomp = left.decomp /\ taken' = taken
    BY <1>4 DEF Wake, IpeWait, IpeInit, IpeBuf, IpeQp, IpeEnd, IpeGive, TypeInv
  <2>2. \/ Moves(t, ctx[t].at)
        \/ ctx[t].at \in LastPlaces /\ (Turns(t) \/ \E p \in IpePlaces : Moves(t, p))
    BY <1>4, IpeMoves DEF IpeWait, IpeInit, IpeBuf, IpeQp, IpeEnd, IpeGive, LastPlaces, IpePlaces
  <2>3. \A u \in Threads : ctx'[u].at = "decompBuf" <=> ctx[u].at = "decompBuf"
    BY <2>2 DEF Moves, Turns, LastPlaces, IpePlaces
  <2> QED BY <2>1, <2>3 DEF Bought
<1> QED BY <1>1, <1>2, <1>3, <1>4

LEMMA SentKept ==
  ASSUME TypeInv, IpeInv, NEW t \in Threads,
         \/ Wake(t) \/ DecompInit(t) \/ DecompBuf(t) \/ DecompEnd(t) \/ CoarseInit(t)
         \/ CoarseEnd(t) \/ IpeWait(t) \/ IpeInit(t) \/ IpeBuf(t) \/ IpeQp(t)
         \/ (IpeEnd(t) /\ Turns(t)) \/ IpeGive(t)
  PROVE  Sent' = Sent
<1>1. CASE IpeGive(t)
  <2>1. ctx[t].at = "ipeGive" /\ left'.ipe = left.ipe + 1 /\ Turns(t)
    BY <1>1, IpeMoves DEF IpeGive, TypeInv
  <2>2. \A u \in Threads : ctx'[u].at # "ipeGive"
    BY <2>1 DEF Turns, IpeInv
  <2> QED BY <2>1, <2>2 DEF Sent
<1>2. CASE \/ Wake(t) \/ DecompInit(t) \/ DecompBuf(t) \/ DecompEnd(t) \/ CoarseInit(t)
           \/ CoarseEnd(t) \/ IpeWait(t) \/ IpeInit(t) \/ IpeBuf(t) \/ IpeQp(t)
           \/ (IpeEnd(t) /\ Turns(t))
  <2>1. left'.ipe = left.ipe
    BY <1>2 DEF Wake, DecompInit, DecompBuf, DecompEnd, CoarseInit, CoarseEnd, IpeWait, IpeInit,
      IpeBuf, IpeQp, IpeEnd, TypeInv
  <2>2. \/ Moves(t, ctx[t].at)
        \/ /\ ctx[t].at # "ipeGive" /\ ctx'[t].at # "ipeGive"
           /\ \A u \in Threads \ {t} : ctx'[u] = ctx[u]
    <3>1. CASE Wake(t)
      BY <3>1, IpeMoves
    <3>2. CASE DecompInit(t) \/ DecompBuf(t) \/ DecompEnd(t) \/ CoarseInit(t) \/ CoarseEnd(t)
      <4>1. ctx[t].at # "ipeGive"
        BY <3>2 DEF DecompInit, DecompBuf, DecompEnd, CoarseInit, CoarseEnd
      <4> QED BY <3>2, <4>1, FirstStagesMove, CoarseEndMoves DEF Moves
    <3>3. CASE IpeWait(t) \/ IpeInit(t) \/ IpeBuf(t) \/ IpeQp(t) \/ (IpeEnd(t) /\ Turns(t))
      <4>1. ctx[t].at # "ipeGive"
        BY <3>3 DEF IpeWait, IpeInit, IpeBuf, IpeQp, IpeEnd
      <4> QED BY <3>3, <4>1, IpeMoves DEF Moves, Turns
    <3> QED BY <1>2, <3>1, <3>2, <3>3
  <2>3. \A u \in Threads : ctx'[u].at = "ipeGive" <=> ctx[u].at = "ipeGive"
    BY <2>2 DEF Moves
  <2> QED BY <2>1, <2>3 DEF Sent
<1> QED BY <1>1, <1>2

LEMMA Limits ==
  ASSUME TypeInv, DecompInv, IpeInv, WindowInv, L0Inv
  PROVE  /\ Back \in Nat /\ Sent \in Nat /\ Bought \in Nat /\ left.ipe \in Nat /\ enc.n \in Nat
         /\ enc.n <= Back /\ Back <= left.ipe /\ left.ipe <= Sent /\ Sent <= Bought
         /\ enc.at \in {"init", "encode", "releaseL0"} => enc.n < left.ipe
<1>1. enc.at \in {"init", "encode", "releaseL0"} => enc.n < left.ipe
  BY DEF L0Inv
<1>2. enc.n <= left.ipe /\ enc.n \in Nat /\ left.ipe \in Nat
  BY Numbers DEF L0Inv
<1>3. Back \in Nat /\ enc.n <= Back /\ Back <= left.ipe
  BY <1>1, <1>2 DEF Back
<1>4. Sent \in Nat /\ left.ipe <= Sent /\ Sent <= Bought
  <2>1. ASSUME NEW t \in Threads, ctx[t].at = "ipeGive"
        PROVE  left.ipe < Bought
    BY <2>1, InFlight, Numbers DEF InIpe
  <2> QED BY <1>2, <2>1, InFlight DEF Sent
<1> QED BY <1>1, <1>2, <1>3, <1>4, InFlight

LEMMA PreFrame ==
  ASSUME TypeInv, DecompInv, IpeInv, WindowInv, PreInv, lookAhead' = lookAhead, preQ' = preQ,
         \A b \in PreBufs : preBuf'[b].frame = preBuf[b].frame,
         SameOut, Bought' = Bought, Sent' = Sent, left'.ipe \in {left.ipe, left.ipe + 1},
         enc'.pre = enc.pre, Back' = Back,
         \/ enc'.n = enc.n /\ enc'.at = enc.at
         \/ /\ enc'.n = enc.n
            /\ enc.at \in {"getL0", "init"} /\ enc'.at \in {"getL0", "init", "encode"}
         \/ enc.at = "releaseL0" /\ enc'.n = enc.n + 1 /\ enc'.at \in {"getPre", "end"}
  PROVE  PreInv'
<1>1. PreBufs' = PreBufs /\ left.ipe \in Nat /\ Bought \in Nat
  BY InFlight, Numbers DEF PreBufs
<1>2. \A g \in left'.ipe .. Bought - 1 :
        g \in left.ipe .. Bought - 1 /\ SlotOf(g)' = SlotOf(g) /\ slot'[SlotOf(g)].out = slot[SlotOf(g)].out
  <2>1. \A g \in left'.ipe .. Bought - 1 : g \in left.ipe .. Bought - 1 /\ g \in Nat
    BY <1>1
  <2>2. \A g \in Nat : SlotOf(g) \in Slots /\ SlotOf(g)' = SlotOf(g)
    BY OwnSlots DEF SlotOf
  <2> QED BY <2>1, <2>2 DEF SameOut
<1>3. /\ preQ'.lastProd = Bought'
      /\ preQ'.lastCons = IF enc'.at \in {"getPre", "end"} THEN enc'.n ELSE enc'.n + 1
  BY DEF PreInv
<1>4. \A b \in PreBufs : /\ preQ'.produced[b] => preQ'.used[b] /\ preBuf'[b].frame = preQ'.seq[b]
                         /\ preQ'.used[b] => preQ'.seq[b] \in Back' .. Bought' - 1
                              /\ (preQ'.produced[b] <=> preQ'.seq[b] < Sent')
  BY DEF PreInv
<1>5. \A g \in left'.ipe .. Bought' - 1 :
        LET b == slot'[SlotOf(g)'].out
        IN b \in PreBufs /\ preQ'.used[b] /\ preQ'.seq[b] = g
  BY <1>2 DEF PreInv
<1>6. enc'.at \in {"getL0", "init", "encode"} =>
        /\ enc'.pre \in PreBufs /\ preQ'.used[enc'.pre] /\ preQ'.produced[enc'.pre]
        /\ preQ'.seq[enc'.pre] = enc'.n
  BY DEF PreInv
<1>7. \A b, c \in PreBufs : preQ'.used[b] /\ preQ'.used[c] /\ preQ'.seq[b] = preQ'.seq[c] => b = c
  BY DEF PreInv
<1> QED BY <1>1, <1>3, <1>4, <1>5, <1>6, <1>7 DEF PreInv

(* The threads' steps that do not touch the queue's buffers.               *)
LEMMA PreQueueKept ==
  ASSUME TypeInv, IpeInv, DecompInv, WindowInv, NEW t \in Threads,
         \/ Wake(t) \/ DecompInit(t) \/ DecompEnd(t) \/ CoarseInit(t) \/ CoarseEnd(t) \/ IpeWait(t)
         \/ IpeInit(t) \/ IpeBuf(t) \/ IpeQp(t) \/ (IpeEnd(t) /\ ~IsLast(slot[IpeSlot].ipe))
         \/ IpeGive(t)
  PROVE  preQ' = preQ /\ \A b \in PreBufs : preBuf'[b].frame = preBuf[b].frame
<1>1. CASE \/ Wake(t) \/ DecompInit(t) \/ DecompEnd(t) \/ CoarseInit(t) \/ CoarseEnd(t)
           \/ IpeWait(t) \/ IpeBuf(t) \/ IpeGive(t)
  BY <1>1 DEF Wake, DecompInit, DecompEnd, CoarseInit, CoarseEnd, IpeWait, IpeBuf, IpeGive, Sleep,
    encVars
<1>2. CASE IpeInit(t) \/ IpeQp(t)
  <2>1. preQ' = preQ
    BY <1>2 DEF IpeInit, IpeQp
  <2>2. preBuf' = preBuf \/ \E b, qp : preBuf' = [preBuf EXCEPT ![b].qp = qp]
    BY <1>2 DEF IpeInit, IpeQp, QpSet
  <2>3. \A b \in PreBufs : preBuf'[b].frame = preBuf[b].frame
    BY <2>2 DEF TypeInv
  <2> QED BY <2>1, <2>3
<1>3. CASE IpeEnd(t) /\ ~IsLast(slot[IpeSlot].ipe)
  <2>1. SlotOf(ctx[t].ipe) = IpeSlot
    BY <1>3, AtIpe DEF IpeEnd, InIpe
  <2> QED BY <1>3, <2>1 DEF IpeEnd
<1> QED BY <1>1, <1>2, <1>3

LEMMA ThreadsKeepPre ==
  ASSUME TypeInv, DecompInv, IpeInv, WindowInv, PreInv, lookAhead' = lookAhead, NEW t \in Threads,
         \/ Wake(t) \/ DecompInit(t) \/ DecompEnd(t) \/ CoarseInit(t) \/ CoarseEnd(t) \/ IpeWait(t)
         \/ IpeInit(t) \/ IpeBuf(t) \/ IpeQp(t) \/ (IpeEnd(t) /\ Turns(t) /\ ~IsLast(slot[IpeSlot].ipe))
         \/ IpeGive(t)
  PROVE  PreInv'
<1>1. Bought' = Bought /\ Sent' = Sent
  BY BoughtKept, SentKept
<1>2. left'.ipe \in {left.ipe, left.ipe + 1} /\ enc' = enc
  BY DEF Wake, DecompInit, DecompEnd, CoarseInit, CoarseEnd, IpeWait, IpeInit, IpeBuf, IpeQp,
    IpeEnd, IpeGive, Sleep, encVars, TypeInv
<1>3. SameOut
  <2>1. CASE Wake(t) \/ IpeWait(t) \/ IpeBuf(t) \/ IpeGive(t)
    BY <2>1, Keeping DEF SameOut
  <2> QED BY <2>1, DecompInitSlots, DecompEndSlots, CoarseInitSlots, CoarseEndSlots, IpeInitSlots,
             IpeQpSlots, IpeEndSlots
<1>4. preQ' = preQ /\ \A b \in PreBufs : preBuf'[b].frame = preBuf[b].frame
  BY PreQueueKept
<1>5. Back' = Back
  BY <1>2 DEF Back
<1> QED BY <1>1, <1>2, <1>3, <1>4, <1>5, PreFrame

(* Taking a buffer for a frame.                                            *)
LEMMA DecompBufKeepsPre ==
  ASSUME TypeInv, DecompInv, IpeInv, WindowInv, PreInv, L0Inv, lookAhead' = lookAhead,
         NEW t \in Threads, DecompBuf(t)
  PROVE  PreInv'
<1> DEFINE s == SlotOf(ctx[t].f)
           b == FreeBuf(preQ)
<1>1. /\ ctx[t].at = "decompBuf" /\ ctx[t].f = left.decomp /\ s \in Slots
      /\ left' = left /\ taken' = taken /\ enc' = enc /\ Bought = left.decomp
      /\ taken = left.decomp + 1 /\ Sent' = Sent /\ Back' = Back
      /\ \A u \in Threads \ {t} : ctx[u].at # "decompBuf"
  <2>1. ctx[t].at = "decompBuf" /\ left' = left /\ taken' = taken /\ enc' = enc
    BY DEF DecompBuf
  <2>2. ctx[t].f = left.decomp /\ taken = left.decomp + 1 /\ Bought = left.decomp
    BY <2>1 DEF DecompInv, Bought
  <2>3. \A u \in Threads \ {t} : ctx[u].at # "decompBuf"
    BY <2>1 DEF DecompInv
  <2>4. s \in Slots /\ Back' = Back
    BY <2>1, OwnSlot DEF Back
  <2> QED BY <2>1, <2>2, <2>3, <2>4, SentKept
<1>2. CASE FreeBufs(preQ) = {}
  <2>1. preQ' = preQ /\ preBuf' = preBuf /\ slot' = slot /\ ctx' = [ctx EXCEPT ![t].asleep = TRUE]
    BY <1>2 DEF DecompBuf, Sleep
  <2>2. Bought' = Bought
    <3>1. \A u \in Threads : ctx'[u].at = ctx[u].at
      BY <2>1, OwnSlot DEF TypeInv, CtxState
    <3> QED BY <1>1, <3>1 DEF Bought
  <2> QED BY <1>1, <2>1, <2>2, PreFrame DEF SameOut
<1>3. CASE FreeBufs(preQ) # {}
  <2>1. b \in PreBufs /\ ~preQ.used[b] /\ ~preQ.produced[b]
    BY <1>3, BufTypes, Bufs DEF TypeInv
  <2>2. /\ preQ' = TakeBuf(preQ, b)
        /\ preBuf' = [preBuf EXCEPT ![b] = [frame |-> Nothing, qp |-> Nothing]]
        /\ Goto(t, "decompWork")
    BY <1>3 DEF DecompBuf
  <2>3. \A i \in Slots : slot'[i].out = IF i = s THEN b ELSE slot[i].out
    BY <1>1, <1>3 DEF DecompBuf, TypeInv, SlotState
  <2> HIDE DEF s, b
  <2>4. Bought' = taken
    <3>1. \A u \in Threads : ctx'[u].at # "decompBuf"
      BY <1>1, <2>2 DEF Goto, TypeInv, CtxState
    <3> QED BY <1>1, <3>1 DEF Bought
  <2>5. PreBufs' = PreBufs
    BY DEF PreBufs
  <2>6. /\ \A x \in PreBufs : /\ preQ'.used[x] = IF x = b THEN TRUE ELSE preQ.used[x]
                              /\ preQ'.seq[x] = IF x = b THEN preQ.lastProd ELSE preQ.seq[x]
                              /\ preQ'.produced[x] = preQ.produced[x]
        /\ preQ'.lastProd = preQ.lastProd + 1 /\ preQ'.lastCons = preQ.lastCons
    BY <2>1, <2>2 DEF TakeBuf, TypeInv, QueueState
  <2>7. \A x \in PreBufs \ {b} : preBuf'[x] = preBuf[x]
    BY <2>2 DEF TypeInv
  <2>8. preQ.lastProd = left.decomp /\ Bought' = left.decomp + 1 /\ left.decomp \in Nat
    BY <1>1, <2>4, Numbers DEF PreInv
  <2>9. preQ'.lastProd = Bought' /\ preQ'.lastCons = IF enc'.at \in {"getPre", "end"} THEN enc'.n
          ELSE enc'.n + 1
    BY <1>1, <2>6, <2>8 DEF PreInv
  <2>10. ASSUME NEW x \in PreBufs
         PROVE  /\ preQ'.produced[x] => preQ'.used[x] /\ preBuf'[x].frame = preQ'.seq[x]
                /\ preQ'.used[x] => preQ'.seq[x] \in Back' .. Bought' - 1
                                      /\ (preQ'.produced[x] <=> preQ'.seq[x] < Sent')
    <3>1. CASE x = b
      <4>1. Back <= left.decomp /\ Sent <= left.decomp /\ Back \in Nat /\ Sent \in Nat
        BY <1>1, Limits
      <4>2. preQ'.seq[x] = left.decomp /\ ~preQ'.produced[x]
        BY <2>1, <2>6, <2>8, <3>1
      <4>3. preQ'.seq[x] \in Back .. Bought' - 1 /\ ~(preQ'.seq[x] < Sent)
        BY <2>8, <4>1, <4>2
      <4> QED BY <1>1, <4>2, <4>3
    <3>2. CASE x # b
      <4>1. preQ.used[x] => preQ.seq[x] \in Back .. Bought - 1
        BY DEF PreInv
      <4>2. preQ.used[x] => preQ.seq[x] \in Back .. Bought' - 1
        BY <1>1, <2>8, <4>1, Limits
      <4>3. /\ preQ'.used[x] = preQ.used[x] /\ preQ'.seq[x] = preQ.seq[x]
            /\ preQ'.produced[x] = preQ.produced[x] /\ preBuf'[x] = preBuf[x]
        BY <2>6, <2>7, <3>2
      <4>4. /\ preQ.produced[x] => preQ.used[x] /\ preBuf[x].frame = preQ.seq[x]
            /\ preQ.used[x] => (preQ.produced[x] <=> preQ.seq[x] < Sent)
        BY DEF PreInv
      <4> QED BY <1>1, <4>2, <4>3, <4>4, ZenonT(60)
    <3> QED BY <3>1, <3>2
  <2>11. ASSUME NEW x \in PreBufs, NEW y \in PreBufs, preQ'.used[x], preQ'.used[y],
                preQ'.seq[x] = preQ'.seq[y]
         PROVE  x = y
    <3>1. ASSUME NEW z \in PreBufs \ {b}, preQ'.used[z]
          PROVE  preQ.used[z] /\ preQ'.seq[z] = preQ.seq[z] /\ preQ.seq[z] # left.decomp
      <4>1. preQ.used[z] /\ preQ'.seq[z] = preQ.seq[z]
        BY <2>6, <3>1
      <4>2. preQ.seq[z] \in Back .. left.decomp - 1
        BY <1>1, <4>1 DEF PreInv
      <4> QED BY <2>8, <4>1, <4>2, Limits
    <3>2. preQ'.seq[b] = left.decomp
      BY <2>1, <2>6, <2>8
    <3>3. CASE x = b \/ y = b
      BY <2>11, <3>1, <3>2, <3>3
    <3>4. CASE x # b /\ y # b
      <4>1. preQ.used[x] /\ preQ.used[y] /\ preQ.seq[x] = preQ.seq[y]
        BY <2>11, <3>1, <3>4
      <4> QED BY <4>1 DEF PreInv
    <3> QED BY <3>3, <3>4
  <2>12. ASSUME NEW g \in left'.ipe .. Bought' - 1
         PROVE  LET o == slot'[SlotOf(g)'].out
                IN o \in PreBufs /\ preQ'.used[o] /\ preQ'.seq[o] = g
    <3>1. /\ g \in Nat /\ left.ipe \in Nat /\ left.ipe <= left.decomp
          /\ g \in left.ipe .. taken - 1 /\ left.decomp \in left.ipe .. taken - 1
      BY <1>1, <2>8, Limits
    <3>2. SlotOf(g) \in Slots /\ SlotOf(g)' = SlotOf(g)
      BY <3>1, OwnSlots DEF SlotOf
    <3>3. s = SlotOf(left.decomp)
      BY <1>1 DEF s
    <3>4. CASE g = left.decomp
      BY <2>1, <2>3, <2>6, <2>8, <3>2, <3>3, <3>4
    <3>5. CASE g # left.decomp
      <4>1. SlotOf(g) # s
        BY <3>1, <3>3, <3>5, SlotsApart
      <4>2. g \in left.ipe .. Bought - 1
        BY <1>1, <3>1, <3>5, <2>8
      <4>3. slot'[SlotOf(g)].out = slot[SlotOf(g)].out
        BY <2>3, <3>2, <4>1
      <4>4. LET o == slot[SlotOf(g)].out
            IN o \in PreBufs /\ preQ.used[o] /\ preQ.seq[o] = g
        BY <4>2 DEF PreInv
      <4> QED BY <2>1, <2>6, <3>2, <4>3, <4>4, ZenonT(60)
    <3> QED BY <3>4, <3>5
  <2>13. enc'.at \in {"getL0", "init", "encode"} =>
           /\ enc'.pre \in PreBufs /\ preQ'.used[enc'.pre] /\ preQ'.produced[enc'.pre]
           /\ preQ'.seq[enc'.pre] = enc'.n
    BY <1>1, <2>1, <2>6 DEF PreInv
  <2> QED BY <2>5, <2>9, <2>10, <2>11, <2>12, <2>13 DEF PreInv
<1> QED BY <1>2, <1>3

(* The last thread sends the frame.                                        *)
LEMMA IpeEndKeepsPre ==
  ASSUME TypeInv, DecompInv, IpeInv, WindowInv, PreInv, L0Inv, lookAhead' = lookAhead,
         NEW t \in Threads, IpeEnd(t)
  PROVE  PreInv'
<1>1. /\ ctx[t].at = "ipeWork" /\ SlotOf(ctx[t].ipe) = IpeSlot /\ IpeSlot \in Slots
      /\ slot[IpeSlot].inp = left.ipe /\ left.ipe \in left.ipe .. Bought - 1 /\ left.ipe \in Nat
      /\ t \notin Gone /\ IpeSlot = SlotOf(left.ipe)
      /\ left' = left /\ enc' = enc /\ Bought' = Bought
  <2>1. ctx[t].at = "ipeWork" /\ left' = left /\ enc' = enc
    BY DEF IpeEnd
  <2> QED BY <2>1, AtIpe, BoughtKept, Numbers DEF InIpe, IpeSlot
<1>2. CASE ~IsLast(slot[IpeSlot].ipe)
  <2>1. Turns(t)
    BY <1>1, <1>2, NextTurnMoves DEF IpeEnd
  <2> QED BY <1>2, <2>1, ThreadsKeepPre
<1>3. CASE IsLast(slot[IpeSlot].ipe)
  <2> DEFINE b == slot[IpeSlot].out
  <2>1. b \in PreBufs /\ preQ.used[b] /\ preQ.seq[b] = left.ipe
    BY <1>1 DEF PreInv
  <2>2. /\ preBuf' = [preBuf EXCEPT ![b].frame = left.ipe]
        /\ preQ' = SetProduced(preQ, b) /\ Goto(t, "ipeGive")
    BY <1>1, <1>3 DEF IpeEnd
  <2>3. Sent = left.ipe /\ Sent' = left.ipe + 1
    <3>1. \A u \in Threads : ctx[u].at # "ipeGive"
      BY <1>1 DEF IpeInv
    <3>2. ctx'[t].at = "ipeGive"
      BY <2>2 DEF Goto, TypeInv
    <3> QED BY <1>1, <3>1, <3>2 DEF Sent
  <2>4. SameOut /\ Back' = Back /\ PreBufs' = PreBufs
    BY <1>1, IpeEndSlots DEF Back, PreBufs
  <2> HIDE DEF b
  <2>5. /\ \A x \in PreBufs : preQ'.produced[x] = IF x = b THEN TRUE ELSE preQ.produced[x]
        /\ preQ'.used = preQ.used /\ preQ'.seq = preQ.seq
        /\ preQ'.lastProd = preQ.lastProd /\ preQ'.lastCons = preQ.lastCons
    BY <2>1, <2>2 DEF SetProduced, TypeInv, QueueState
  <2>6. \A x \in PreBufs : preBuf'[x].frame = IF x = b THEN left.ipe ELSE preBuf[x].frame
    BY <2>1, <2>2 DEF TypeInv
  <2>7. ASSUME NEW x \in PreBufs
        PROVE  /\ preQ'.produced[x] => preQ'.used[x] /\ preBuf'[x].frame = preQ'.seq[x]
               /\ preQ'.used[x] => preQ'.seq[x] \in Back' .. Bought' - 1
                                     /\ (preQ'.produced[x] <=> preQ'.seq[x] < Sent')
    <3>1. preQ'.produced[x] => preQ'.used[x] /\ preBuf'[x].frame = preQ'.seq[x]
      BY <2>1, <2>5, <2>6, ZenonT(60) DEF PreInv
    <3>2. preQ'.used[x] => preQ'.seq[x] \in Back' .. Bought' - 1
      BY <1>1, <2>4, <2>5 DEF PreInv
    <3>3. ASSUME preQ'.used[x]
          PROVE  preQ'.produced[x] <=> preQ'.seq[x] < Sent'
      <4>1. preQ.used[x] /\ preQ.seq[x] \in Int
        BY <2>5, <3>3 DEF TypeInv, QueueState
      <4>2. CASE x = b
        <5>1. preQ'.produced[x] /\ preQ'.seq[x] = left.ipe
          BY <2>1, <2>5, <4>2
        <5> QED BY <1>1, <2>3, <5>1
      <4>3. CASE x # b
        <5>1. preQ.seq[x] # left.ipe
          BY <2>1, <4>1, <4>3 DEF PreInv
        <5>2. preQ.produced[x] <=> preQ.seq[x] < left.ipe
          BY <2>3, <4>1 DEF PreInv
        <5>3. preQ'.produced[x] = preQ.produced[x] /\ preQ'.seq[x] = preQ.seq[x]
          BY <2>5, <4>3
        <5>4. preQ.seq[x] < left.ipe <=> preQ.seq[x] < left.ipe + 1
          BY <1>1, <4>1, <5>1
        <5> QED BY <2>3, <5>2, <5>3, <5>4
      <4> QED BY <4>2, <4>3
    <3> QED BY <3>1, <3>2, <3>3
  <2>8. ASSUME NEW g \in left'.ipe .. Bought' - 1
        PROVE  LET o == slot'[SlotOf(g)'].out
               IN o \in PreBufs /\ preQ'.used[o] /\ preQ'.seq[o] = g
    <3>1. g \in left.ipe .. Bought - 1 /\ g \in Nat
      BY <1>1
    <3>2. SlotOf(g) \in Slots /\ SlotOf(g)' = SlotOf(g)
      BY <3>1, OwnSlots DEF SlotOf
    <3> QED BY <2>4, <2>5, <3>1, <3>2 DEF PreInv, SameOut
  <2>9. enc'.at \in {"getL0", "init", "encode"} =>
          /\ enc'.pre \in PreBufs /\ preQ'.used[enc'.pre] /\ preQ'.produced[enc'.pre]
          /\ preQ'.seq[enc'.pre] = enc'.n
    BY <1>1, <2>5 DEF PreInv
  <2>10. preQ'.lastProd = Bought' /\ preQ'.lastCons = IF enc'.at \in {"getPre", "end"} THEN enc'.n
           ELSE enc'.n + 1
    BY <1>1, <2>5 DEF PreInv
  <2>11. \A x, y \in PreBufs : preQ'.used[x] /\ preQ'.used[y] /\ preQ'.seq[x] = preQ'.seq[y]
           => x = y
    BY <2>5 DEF PreInv
  <2> QED BY <2>4, <2>7, <2>8, <2>9, <2>10, <2>11 DEF PreInv
<1> QED BY <1>2, <1>3

(* The encode group gets a frame's buffer and gives it back.               *)
LEMMA EncKeepsPre ==
  ASSUME TypeInv, DecompInv, IpeInv, WindowInv, PreInv, L0Inv, UNCHANGED threadVars, EncodeGroup
  PROVE  PreInv'
<1>1. /\ lookAhead' = lookAhead /\ slot' = slot /\ left' = left /\ preBuf' = preBuf
      /\ Bought' = Bought /\ Sent' = Sent /\ SameOut /\ PreBufs' = PreBufs
      /\ \A f : SlotOf(f)' = SlotOf(f)
  BY DEF threadVars, Bought, Sent, SameOut, PreBufs, SlotOf
<1>2. enc \in EncState
  BY DEF TypeInv
<1>3. CASE EncWake \/ GetL0 \/ EncInit \/ ReleaseL0 \/ (GetPre /\ FilledBufs(preQ) = {})
  <2>1. preQ' = preQ
    BY <1>3 DEF EncWake, GetL0, EncInit, ReleaseL0, GetPre
  <2>2. /\ enc'.pre = enc.pre
        /\ \/ enc'.n = enc.n /\ enc'.at = enc.at
           \/ /\ enc'.n = enc.n
              /\ enc.at \in {"getL0", "init"} /\ enc'.at \in {"getL0", "init", "encode"}
           \/ enc.at = "releaseL0" /\ enc'.n = enc.n + 1 /\ enc'.at \in {"getPre", "end"}
    <3>1. CASE ReleaseL0
      <4> DEFINE p == IF Valid(enc.n) THEN "getPre" ELSE "end"
      <4>1. enc' = [enc EXCEPT !.at = p, !.n = @ + 1] /\ enc.at = "releaseL0"
        BY <3>1 DEF ReleaseL0
      <4>2. p \in {"getPre", "end"}
        OBVIOUS
      <4> HIDE DEF p
      <4> QED BY <1>2, <4>1, <4>2 DEF EncState
    <3>2. CASE GetL0
      <4>1. enc.at = "getL0" /\ (enc' = [enc EXCEPT !.asleep = TRUE]
                                   \/ \E b : enc' = [enc EXCEPT !.at = "init", !.l0 = b])
        BY <3>2 DEF GetL0
      <4> QED BY <1>2, <4>1 DEF EncState
    <3> QED BY <1>2, <1>3, <3>1, <3>2 DEF EncWake, EncInit, GetPre, EncState
  <2>3. Back' = Back
    BY <1>2, <2>2 DEF Back, EncState
  <2>4. /\ \A b \in PreBufs : preBuf'[b].frame = preBuf[b].frame
        /\ left'.ipe \in {left.ipe, left.ipe + 1}
    BY <1>1
  <2> QED BY <1>1, <2>1, <2>2, <2>3, <2>4, PreFrame
<1>4. CASE GetPre /\ FilledBufs(preQ) # {}
  <2> DEFINE b == FilledBuf(preQ)
  <2>1. b \in PreBufs /\ preQ.seq[b] = preQ.lastCons /\ preQ.produced[b]
    BY <1>4, BufTypes, Bufs DEF TypeInv
  <2>2. enc.at = "getPre" /\ preQ' = GetBuf(preQ) /\ enc' = [enc EXCEPT !.at = "getL0", !.pre = b]
    BY <1>4 DEF GetPre
  <2> HIDE DEF b
  <2>3. enc'.at = "getL0" /\ enc'.pre = b /\ enc'.n = enc.n /\ Back' = Back
    BY <1>2, <2>2 DEF EncState, Back
  <2>4. preQ' = [preQ EXCEPT !.lastCons = preQ.lastCons + 1]
    BY <2>2 DEF GetBuf
  <2>5. /\ preQ'.used = preQ.used /\ preQ'.seq = preQ.seq /\ preQ'.produced = preQ.produced
        /\ preQ'.lastProd = preQ.lastProd /\ preQ'.lastCons = preQ.lastCons + 1
    BY <2>4 DEF TypeInv, QueueState
  <2>6. preQ.lastCons = enc.n
    BY <2>2 DEF PreInv
  <2>7. preQ.used[b]
    BY <2>1 DEF PreInv
  <2> QED BY <1>1, <2>1, <2>3, <2>5, <2>6, <2>7 DEF PreInv
<1>5. CASE ReleasePre
  <2> DEFINE b == enc.pre
  <2>1. b \in PreBufs /\ preQ.used[b] /\ preQ.produced[b] /\ preQ.seq[b] = enc.n /\ enc.at = "encode"
    BY <1>5 DEF PreInv, ReleasePre
  <2>2. /\ preQ' = [preQ EXCEPT !.used[b] = FALSE, !.produced[b] = FALSE]
        /\ enc' = [enc EXCEPT !.at = "releaseL0"]
    BY <1>5, <2>1 DEF ReleasePre, ReleaseBuf
  <2> HIDE DEF b
  <2>3. /\ enc'.at = "releaseL0" /\ enc'.n = enc.n /\ enc.n < left.ipe /\ enc.n \in Nat
        /\ left.ipe \in Nat
    BY <1>2, <2>1, <2>2, Limits DEF EncState
  <2>4. Back = enc.n /\ Back' = enc.n + 1
    BY <2>1, <2>3 DEF Back
  <2>5. /\ \A x \in PreBufs : /\ preQ'.used[x] = IF x = b THEN FALSE ELSE preQ.used[x]
                              /\ preQ'.produced[x] = IF x = b THEN FALSE ELSE preQ.produced[x]
        /\ preQ'.seq = preQ.seq /\ preQ'.lastProd = preQ.lastProd /\ preQ'.lastCons = preQ.lastCons
    BY <2>1, <2>2 DEF TypeInv, QueueState
  <2>6. ASSUME NEW x \in PreBufs
        PROVE  /\ preQ'.produced[x] => preQ'.used[x] /\ preBuf'[x].frame = preQ'.seq[x]
               /\ preQ'.used[x] => preQ'.seq[x] \in Back' .. Bought' - 1
                                     /\ (preQ'.produced[x] <=> preQ'.seq[x] < Sent')
    <3>1. CASE x = b
      BY <2>5, <3>1
    <3>2. CASE x # b
      <4>1. preQ.used[x] => preQ.seq[x] # enc.n /\ preQ.seq[x] \in enc.n .. Bought - 1
        BY <2>1, <2>4, <3>2 DEF PreInv
      <4>2. preQ.used[x] => preQ.seq[x] \in enc.n + 1 .. Bought - 1
        BY <2>3, <4>1, Limits
      <4>3. /\ preQ'.used[x] = preQ.used[x] /\ preQ'.produced[x] = preQ.produced[x]
            /\ preQ'.seq[x] = preQ.seq[x]
        BY <2>5, <3>2
      <4>4. /\ preQ.produced[x] => preQ.used[x] /\ preBuf[x].frame = preQ.seq[x]
            /\ preQ.used[x] => (preQ.produced[x] <=> preQ.seq[x] < Sent)
        BY DEF PreInv
      <4> QED BY <1>1, <2>4, <4>2, <4>3, <4>4
    <3> QED BY <3>1, <3>2
  <2>7. ASSUME NEW g \in left'.ipe .. Bought' - 1
        PROVE  LET o == slot'[SlotOf(g)'].out
               IN o \in PreBufs /\ preQ'.used[o] /\ preQ'.seq[o] = g
    <3>1. g \in left.ipe .. Bought - 1 /\ g # enc.n
      BY <1>1, <2>3, Limits
    <3>2. LET o == slot[SlotOf(g)].out
          IN o \in PreBufs /\ preQ.used[o] /\ preQ.seq[o] = g
      BY <3>1 DEF PreInv
    <3>3. slot'[SlotOf(g)'].out = slot[SlotOf(g)].out
      BY <1>1
    <3> QED BY <2>1, <2>5, <3>1, <3>2, <3>3
  <2>8. \A x, y \in PreBufs : preQ'.used[x] /\ preQ'.used[y] /\ preQ'.seq[x] = preQ'.seq[y] => x = y
    <3> SUFFICES ASSUME NEW x \in PreBufs, NEW y \in PreBufs, preQ'.used[x], preQ'.used[y],
                        preQ'.seq[x] = preQ'.seq[y]
                 PROVE  x = y
      BY Zenon
    <3>1. preQ.used[x] /\ preQ.used[y] /\ preQ.seq[x] = preQ.seq[y]
      BY <2>5
    <3> QED BY <3>1, ZenonT(60) DEF PreInv
  <2>9. preQ'.lastProd = Bought' /\ preQ'.lastCons = enc'.n + 1
    BY <1>1, <2>1, <2>3, <2>5 DEF PreInv
  <2> QED BY <1>1, <2>3, <2>6, <2>7, <2>8, <2>9 DEF PreInv
<1> QED BY <1>3, <1>4, <1>5 DEF EncodeGroup
-----------------------------------------------------------------------------
(* The buffers of the L0 IPE.                                              *)

LEMMA L0Frame ==
  ASSUME TypeInv, L0Inv, l0Q' = l0Q, l0Buf' = l0Buf, l0Out' = l0Out,
         left'.ipe = left.ipe, HasL0' = HasL0, Gone' = Gone, enc'.n = enc.n, enc'.l0 = enc.l0,
         \/ enc'.at = enc.at
         \/ enc.at \in {"getPre", "getL0"} /\ enc'.at \in {"getPre", "getL0"}
         \/ enc.at \in {"init", "encode"} /\ enc'.at \in {"encode", "releaseL0"}
  PROVE  L0Inv'
<1>1. L0Bufs' = L0Bufs
  BY DEF L0Bufs
<1>2. /\ enc'.at \in {"getPre", "getL0", "end"} <=> enc.at \in {"getPre", "getL0", "end"}
      /\ enc'.at \in {"init", "encode", "releaseL0"} => enc.at \in {"init", "encode", "releaseL0"}
  OBVIOUS
<1> QED BY <1>1, <1>2 DEF L0Inv

(* Whether the L0 IPE has its buffer.                                      *)
LEMMA HasL0Kept ==
  ASSUME TypeInv, TypeInv', DecompInv, IpeInv, WindowInv, lookAhead' = lookAhead, NEW t \in Threads,
         \/ Wake(t) \/ DecompInit(t) \/ DecompBuf(t) \/ DecompEnd(t) \/ CoarseInit(t)
         \/ CoarseEnd(t) \/ IpeWait(t) \/ IpeInit(t)
         \/ (IpeBuf(t) /\ FreeBufs(l0Q) = {}) \/ IpeQp(t) \/ IpeEnd(t)
  PROVE  HasL0' = HasL0
<1> DEFINE AtQp == \E u \in Threads : ctx[u].at = "ipeQp"
<1>1. /\ HasL0 \in BOOLEAN /\ HasL0' \in BOOLEAN
      /\ (HasL0 <=> Tuned # {} \/ AtQp) /\ (HasL0' <=> Tuned' # {} \/ AtQp')
  BY DEF HasL0
<1>2. CASE \/ DecompInit(t) \/ DecompBuf(t) \/ DecompEnd(t) \/ CoarseInit(t) \/ CoarseEnd(t)
           \/ Wake(t) \/ IpeWait(t) \/ (IpeBuf(t) /\ FreeBufs(l0Q) = {})
  <2>1. Tuned' = Tuned
    BY <1>2, OthersKeepIpe, IpeWaitKeepsIpe, IpeBufKeepsIpe
  <2>2. \/ Moves(t, ctx[t].at)
        \/ /\ ctx[t].at # "ipeQp" /\ ctx'[t].at # "ipeQp"
           /\ \A u \in Threads \ {t} : ctx'[u] = ctx[u]
    <3>1. CASE Wake(t)
      BY <3>1, IpeMoves
    <3>2. CASE DecompInit(t) \/ DecompBuf(t) \/ DecompEnd(t) \/ CoarseInit(t) \/ CoarseEnd(t)
      <4>1. ctx[t].at # "ipeQp"
        BY <3>2 DEF DecompInit, DecompBuf, DecompEnd, CoarseInit, CoarseEnd
      <4> QED BY <3>2, <4>1, FirstStagesMove, CoarseEndMoves DEF Moves
    <3>3. CASE IpeWait(t)
      <4>1. ctx[t].at # "ipeQp"
        BY <3>3 DEF IpeWait
      <4> QED BY <3>3, <4>1, IpeMoves DEF Moves
    <3>4. CASE IpeBuf(t) /\ FreeBufs(l0Q) = {}
      <4>1. ctx[t].at = "ipeBuf" /\ ctx' = [ctx EXCEPT ![t].asleep = TRUE]
        BY <3>4 DEF IpeBuf, Sleep
      <4> QED BY <4>1, OwnSlot DEF TypeInv, CtxState
    <3> QED BY <1>2, <3>1, <3>2, <3>3, <3>4
  <2>3. \A u \in Threads : ctx'[u].at = "ipeQp" <=> ctx[u].at = "ipeQp"
    BY <2>2 DEF Moves
  <2> QED BY <1>1, <2>1, <2>3
<1>3. CASE IpeInit(t)
  <2>1. CASE Tuned # {}
    <3>1. Tuned' # {}
      BY <1>3, <2>1, IpeInitKeepsIpe
    <3> QED BY <1>1, <2>1, <3>1
  <2>2. CASE Tuned = {}
    <3>1. Tuned' = {} /\ Moves(t, "ipeBuf")
      BY <1>3, <2>2, IpeInitKeepsIpe
    <3>2. \A u \in Threads : ctx[u].at # "ipeQp"
      BY <1>3 DEF IpeInit, Within
    <3> QED BY <1>1, <2>2, <3>1, <3>2 DEF Moves
  <2> QED BY <2>1, <2>2
<1>4. CASE IpeQp(t)
  <2>1. ctx[t].at = "ipeQp" /\ Tuned' = {t}
    BY <1>4, IpeQpKeepsIpe DEF IpeQp
  <2> QED BY <1>1, <2>1
<1>5. CASE IpeEnd(t)
  <2>1. t \in Tuned /\ Tuned' = Tuned
    BY <1>5, IpeEndKeepsIpe, AtIpe DEF IpeEnd, InIpe
  <2> QED BY <1>1, <2>1
<1> QED BY <1>2, <1>3, <1>4, <1>5

LEMMA ThreadsKeepL0 ==
  ASSUME TypeInv, TypeInv', DecompInv, IpeInv, WindowInv, L0Inv, lookAhead' = lookAhead,
         NEW t \in Threads,
         \/ Wake(t) \/ DecompInit(t) \/ DecompBuf(t) \/ DecompEnd(t) \/ CoarseInit(t)
         \/ CoarseEnd(t) \/ IpeWait(t) \/ IpeInit(t)
         \/ (IpeBuf(t) /\ FreeBufs(l0Q) = {}) \/ IpeQp(t)
  PROVE  L0Inv'
<1>1. Gone' = Gone /\ HasL0' = HasL0
  BY HasL0Kept, OthersKeepIpe, IpeWaitKeepsIpe, IpeInitKeepsIpe, IpeBufKeepsIpe, IpeQpKeepsIpe
<1>2. l0Q' = l0Q /\ l0Buf' = l0Buf /\ l0Out' = l0Out /\ enc' = enc
  BY DEF Wake, DecompInit, DecompBuf, DecompEnd, CoarseInit, CoarseEnd, IpeWait, IpeInit, IpeBuf,
    IpeQp, Sleep, QpSet, encVars
<1>3. left'.ipe = left.ipe
  BY DEF Wake, DecompInit, DecompBuf, DecompEnd, CoarseInit, CoarseEnd, IpeWait, IpeInit, IpeBuf,
    IpeQp, TypeInv
<1> QED BY <1>1, <1>2, <1>3, L0Frame

LEMMA IpeBufKeepsL0 ==
  ASSUME TypeInv, TypeInv', IpeInv, L0Inv, lookAhead' = lookAhead, NEW t \in Threads, IpeBuf(t),
         FreeBufs(l0Q) # {}
  PROVE  L0Inv'
<1> DEFINE b == FreeBuf(l0Q)
<1>1. b \in L0Bufs /\ ~l0Q.used[b] /\ ~l0Q.produced[b]
  BY BufTypes, Bufs DEF TypeInv
<1>2. /\ l0Q' = TakeBuf(l0Q, b) /\ l0Out' = b /\ l0Buf' = l0Buf /\ Goto(t, "ipeQp")
      /\ left' = left /\ enc' = enc /\ ctx[t].at = "ipeBuf"
  BY DEF IpeBuf
<1> HIDE DEF b
<1>3. /\ l0Q'.used = [l0Q.used EXCEPT ![b] = TRUE] /\ l0Q'.seq = [l0Q.seq EXCEPT ![b] = l0Q.lastProd]
      /\ l0Q'.produced = l0Q.produced
      /\ l0Q'.lastProd = l0Q.lastProd + 1 /\ l0Q'.lastCons = l0Q.lastCons
  BY <1>2 DEF TakeBuf, TypeInv, QueueState
<1>4. Tuned' = {} /\ Tuned = {} /\ Gone' = {}
  BY IpeBufKeepsIpe DEF Tuned, Gone
<1>5. HasL0' /\ ~HasL0
  <2>1. ctx'[t].at = "ipeQp"
    BY <1>2 DEF Goto, TypeInv
  <2>2. \A u \in Threads : ctx[u].at # "ipeQp"
    BY <1>2 DEF IpeInv
  <2> QED BY <1>4, <2>1, <2>2 DEF HasL0
<1>6. l0Q.lastProd = left.ipe /\ left.ipe \in Nat /\ enc.n \in Nat /\ enc.n <= left.ipe
  BY <1>5, Numbers DEF L0Inv
<1>7. L0Bufs' = L0Bufs /\ L0Bufs = {b}
  BY <1>1, Bufs DEF L0Bufs
<1>8. l0Q'.used[b] /\ l0Q'.seq[b] = left.ipe /\ ~l0Q'.produced[b]
  BY <1>1, <1>3, <1>6 DEF TypeInv, QueueState
<1>9. ~(left.ipe < left.ipe) /\ left.ipe \in enc.n .. left.ipe
  BY <1>6
<1>10. enc'.at \notin {"init", "encode", "releaseL0"}
  BY <1>1, <1>2, <1>7 DEF L0Inv
<1>11. l0Q'.lastCons = IF enc'.at \in {"getPre", "getL0", "end"} THEN enc'.n ELSE enc'.n + 1
  BY <1>2, <1>3 DEF L0Inv
<1> QED BY <1>2, <1>3, <1>4, <1>5, <1>6, <1>7, <1>8, <1>9, <1>10, <1>11 DEF L0Inv

LEMMA IpeEndKeepsL0 ==
  ASSUME TypeInv, TypeInv', DecompInv, IpeInv, WindowInv, L0Inv, lookAhead' = lookAhead,
         NEW t \in Threads, IpeEnd(t)
  PROVE  L0Inv'
<1>1. /\ slot[SlotOf(ctx[t].ipe)].inp = left.ipe /\ t \in Tuned /\ HasL0 /\ HasL0'
  <2>1. InIpe(t) /\ ctx[t].at = "ipeWork"
    BY DEF IpeEnd, InIpe
  <2>2. t \in Tuned /\ slot[SlotOf(ctx[t].ipe)].inp = left.ipe
    BY <2>1, AtIpe
  <2> QED BY <2>2, HasL0Kept DEF HasL0
<1>2. /\ l0Buf' = [l0Buf EXCEPT ![l0Out] = left.ipe] /\ l0Q' = l0Q /\ l0Out' = l0Out
      /\ left' = left /\ enc' = enc
  BY <1>1 DEF IpeEnd
<1>3. l0Out \in L0Bufs /\ l0Q.used[l0Out] /\ l0Q.seq[l0Out] = left.ipe
  BY <1>1 DEF L0Inv
<1>4. L0Bufs' = L0Bufs /\ L0Bufs = {l0Out}
  BY <1>3, Bufs DEF L0Bufs
<1>5. l0Buf'[l0Out] = left.ipe
  BY <1>2, <1>3 DEF TypeInv
<1> QED BY <1>1, <1>2, <1>3, <1>4, <1>5 DEF L0Inv

LEMMA IpeGiveKeepsL0 ==
  ASSUME TypeInv, TypeInv', DecompInv, IpeInv, WindowInv, L0Inv, lookAhead' = lookAhead,
         NEW t \in Threads, IpeGive(t)
  PROVE  L0Inv'
<1>1. Gone' = {} /\ Tuned' = {} /\ Gone = Threads /\ Tuned = Threads
  BY IpeGiveKeepsIpe
<1>2. HasL0 /\ ~HasL0'
  <2>1. ctx[t].at = "ipeGive" /\ Turns(t)
    BY IpeMoves DEF IpeGive
  <2>2. \A u \in Threads : ctx[u].at # "ipeQp"
    BY <1>1, SizesAssumption DEF IpeInv
  <2>3. \A u \in Threads : ctx'[u].at # "ipeQp"
    BY <2>1, <2>2 DEF Turns
  <2> QED BY <1>1, <2>3, SizesAssumption DEF HasL0
<1>3. /\ l0Q' = SetProduced(l0Q, l0Out) /\ l0Buf' = l0Buf /\ l0Out' = l0Out
      /\ left'.ipe = left.ipe + 1 /\ enc' = enc
  BY DEF IpeGive, TypeInv
<1>4. l0Out \in L0Bufs /\ l0Q.used[l0Out] /\ l0Q.seq[l0Out] = left.ipe /\ l0Buf[l0Out] = left.ipe
  BY <1>1, <1>2, SizesAssumption DEF L0Inv
<1>5. L0Bufs' = L0Bufs /\ L0Bufs = {l0Out}
  BY <1>4, Bufs DEF L0Bufs
<1>6. /\ l0Q'.used = l0Q.used /\ l0Q'.seq = l0Q.seq /\ l0Q'.produced[l0Out]
      /\ l0Q'.lastProd = l0Q.lastProd /\ l0Q'.lastCons = l0Q.lastCons
  BY <1>3, <1>4 DEF SetProduced, TypeInv, QueueState
<1>7. left.ipe \in Nat /\ enc.n \in Nat /\ enc.n <= left.ipe /\ l0Q.lastProd = left.ipe + 1
  BY <1>2, Numbers DEF L0Inv
<1>8. /\ left.ipe < left.ipe + 1 /\ left.ipe \in enc.n .. left.ipe + 1 /\ left.ipe # left.ipe + 1
      /\ enc.n <= left.ipe + 1
  BY <1>7
<1>9. enc.at \notin {"init", "encode", "releaseL0"}
  <2>1. ASSUME enc.at \in {"init", "encode", "releaseL0"}
        PROVE  FALSE
    BY <1>4, <1>5, <1>7, <2>1 DEF L0Inv
  <2> QED BY <2>1
<1>10. l0Q'.lastCons = IF enc'.at \in {"getPre", "getL0", "end"} THEN enc'.n ELSE enc'.n + 1
  BY <1>3, <1>6 DEF L0Inv
<1> QED BY <1>1, <1>2, <1>3, <1>4, <1>5, <1>6, <1>7, <1>8, <1>9, <1>10 DEF L0Inv

LEMMA EncKeepsL0 ==
  ASSUME TypeInv, TypeInv', L0Inv, UNCHANGED threadVars, EncodeGroup
  PROVE  L0Inv'
<1>1. /\ left' = left /\ l0Out' = l0Out /\ l0Buf' = l0Buf /\ HasL0' = HasL0 /\ Gone' = Gone
      /\ L0Bufs' = L0Bufs
  BY DEF threadVars, HasL0, Tuned, Gone, L0Bufs
<1>2. enc \in EncState /\ enc.n \in Nat /\ left.ipe \in Nat
  BY Numbers DEF TypeInv
<1>3. CASE EncWake \/ GetPre \/ EncInit \/ ReleasePre \/ (GetL0 /\ FilledBufs(l0Q) = {})
  <2>1. l0Q' = l0Q
    BY <1>3 DEF EncWake, GetPre, EncInit, ReleasePre, GetL0
  <2>2. /\ enc'.n = enc.n /\ enc'.l0 = enc.l0
        /\ \/ enc'.at = enc.at
           \/ enc.at \in {"getPre", "getL0"} /\ enc'.at \in {"getPre", "getL0"}
           \/ enc.at \in {"init", "encode"} /\ enc'.at \in {"encode", "releaseL0"}
    <3>1. CASE GetPre
      <4>1. enc.at = "getPre" /\ (enc' = [enc EXCEPT !.asleep = TRUE]
                                    \/ \E b : enc' = [enc EXCEPT !.at = "getL0", !.pre = b])
        BY <3>1 DEF GetPre
      <4> QED BY <1>2, <4>1 DEF EncState
    <3> QED BY <1>2, <1>3, <3>1 DEF EncWake, EncInit, ReleasePre, GetL0, EncState
  <2> QED BY <1>1, <2>1, <2>2, L0Frame
<1>4. CASE GetL0 /\ FilledBufs(l0Q) # {}
  <2> DEFINE b == FilledBuf(l0Q)
  <2>1. b \in L0Bufs /\ l0Q.seq[b] = l0Q.lastCons /\ l0Q.produced[b]
    BY <1>4, BufTypes, Bufs DEF TypeInv
  <2>2. enc.at = "getL0" /\ l0Q' = GetBuf(l0Q) /\ enc' = [enc EXCEPT !.at = "init", !.l0 = b]
    BY <1>4 DEF GetL0
  <2> HIDE DEF b
  <2>3. enc'.at = "init" /\ enc'.l0 = b /\ enc'.n = enc.n
    BY <1>2, <2>2 DEF EncState
  <2>4. /\ l0Q'.used = l0Q.used /\ l0Q'.seq = l0Q.seq /\ l0Q'.produced = l0Q.produced
        /\ l0Q'.lastProd = l0Q.lastProd /\ l0Q'.lastCons = l0Q.lastCons + 1
    BY <2>2 DEF GetBuf, TypeInv, QueueState
  <2>5. l0Q.lastCons = enc.n /\ l0Q.used[b]
    BY <2>1, <2>2 DEF L0Inv
  <2> QED BY <1>1, <2>1, <2>3, <2>4, <2>5 DEF L0Inv
<1>5. CASE ReleaseL0
  <2> DEFINE b == enc.l0
             p == IF Valid(enc.n) THEN "getPre" ELSE "end"
  <2>1. /\ b \in L0Bufs /\ l0Q.used[b] /\ l0Q.produced[b] /\ l0Q.seq[b] = enc.n
        /\ enc.at = "releaseL0"
    BY <1>5 DEF L0Inv, ReleaseL0
  <2>2. /\ l0Q' = [l0Q EXCEPT !.used[b] = FALSE, !.produced[b] = FALSE]
        /\ enc' = [enc EXCEPT !.at = p, !.n = @ + 1]
    BY <1>5, <2>1 DEF ReleaseL0, ReleaseBuf
  <2>3. p \in {"getPre", "end"}
    OBVIOUS
  <2> HIDE DEF b, p
  <2>4. enc'.at \in {"getPre", "end"} /\ enc'.n = enc.n + 1
    BY <1>2, <2>2, <2>3 DEF EncState
  <2>5. enc.n < left.ipe
    BY <2>1 DEF L0Inv
  <2>6. L0Bufs = {b}
    BY <2>1, Bufs
  <2>7. /\ ~l0Q'.used[b] /\ ~l0Q'.produced[b] /\ l0Q'.seq = l0Q.seq
        /\ l0Q'.lastProd = l0Q.lastProd /\ l0Q'.lastCons = l0Q.lastCons
    BY <2>1, <2>2 DEF TypeInv, QueueState
  <2>8. ~HasL0
    <3>1. ASSUME HasL0 PROVE FALSE
      BY <1>2, <2>1, <2>5, <2>6, <3>1 DEF L0Inv
    <3> QED BY <3>1
  <2>9. enc'.n <= left.ipe
    BY <1>2, <2>4, <2>5
  <2>10. l0Q'.lastCons = enc'.n /\ l0Q'.lastProd = left.ipe
    BY <2>1, <2>4, <2>7, <2>8 DEF L0Inv
  <2>11. Gone = {}
    BY <2>8 DEF HasL0, Gone, Tuned
  <2> QED BY <1>1, <2>4, <2>6, <2>7, <2>8, <2>9, <2>10, <2>11 DEF L0Inv
<1> QED BY <1>3, <1>4, <1>5 DEF EncodeGroup
-----------------------------------------------------------------------------
(* The QPs.                                                                *)

LEMMA ThreeApart ==
  ASSUME NEW k \in Nat
  PROVE  /\ ((k % 3) + 1) % 3 = (k + 1) % 3 /\ (k + 3) % 3 = k % 3 /\ k % 3 \in 0 .. 2
         /\ \A j \in k + 1 .. k + 2 : j \in Nat /\ j % 3 # k % 3
<1>1. (k + 1) % 3 # k % 3 /\ (k + 2) % 3 # k % 3
  OBVIOUS
<1>2. \A j \in k + 1 .. k + 2 : j \in Nat /\ (j = k + 1 \/ j = k + 2)
  OBVIOUS
<1>3. ((k % 3) + 1) % 3 = (k + 1) % 3 /\ (k + 3) % 3 = k % 3 /\ k % 3 \in 0 .. 2
  OBVIOUS
<1> QED BY <1>1, <1>2, <1>3

LEMMA Delay3 == MIN_PRE_ENC_RC_DELAY = 3
BY DEF MIN_PRE_ENC_RC_DELAY, MIN_L0_IPE_ENC_STAGGER, NUM_BUFS_DECOMP_HME

LEMMA QpFrame ==
  ASSUME TypeInv, QpInv, rc' = rc, left'.ipe = left.ipe, Tuned' = Tuned,
         Tuned # {} => preBuf'[slot'[IpeSlot'].out].qp = preBuf[slot[IpeSlot].out].qp,
         \/ enc'.n = enc.n /\ enc'.at = enc.at
         \/ enc'.n = enc.n /\ enc.at \in {"getPre", "getL0"} /\ enc'.at \in {"getL0", "init"}
         \/ enc'.n = enc.n /\ enc.at = "encode" /\ enc'.at = "releaseL0"
  PROVE  QpInv'
<1>1. Writes' = Writes /\ Reads' = Reads
  BY DEF Writes, Reads
<1> QED BY <1>1 DEF QpInv

(* The buffer of the frame in the L0 IPE stays as it is.                   *)
LEMMA ThreadsKeepQp ==
  ASSUME TypeInv, TypeInv', DecompInv, IpeInv, WindowInv, PreInv, QpInv, lookAhead' = lookAhead,
         NEW t \in Threads,
         \/ Wake(t) \/ DecompInit(t) \/ DecompBuf(t) \/ DecompEnd(t) \/ CoarseInit(t)
         \/ CoarseEnd(t) \/ IpeWait(t) \/ (IpeInit(t) /\ Tuned = {}) \/ IpeBuf(t) \/ IpeEnd(t)
  PROVE  QpInv'
<1>1. left'.ipe = left.ipe /\ enc' = enc /\ IpeSlot' = IpeSlot
  BY DEF Wake, DecompInit, DecompBuf, DecompEnd, CoarseInit, CoarseEnd, IpeWait, IpeInit, IpeBuf,
    IpeEnd, Sleep, encVars, TypeInv, IpeSlot, SlotOf
<1>2. Tuned' = Tuned
  BY OthersKeepIpe, IpeWaitKeepsIpe, IpeInitKeepsIpe, IpeBufKeepsIpe, IpeEndKeepsIpe
<1>3. rc' = rc
  <2>1. CASE IpeInit(t) /\ Tuned = {}
    BY <2>1, IpeInitKeepsIpe
  <2> QED BY <2>1 DEF Wake, DecompInit, DecompBuf, DecompEnd, CoarseInit, CoarseEnd, IpeWait,
                 IpeBuf,
             IpeEnd
<1>4. ASSUME Tuned # {}
      PROVE  preBuf'[slot'[IpeSlot].out].qp = preBuf[slot[IpeSlot].out].qp
  <2>1. IpeSlot \in Slots /\ IpeSlot = SlotOf(left.ipe)
    BY Numbers DEF IpeSlot
  <2>2. left.ipe < Bought
    <3>1. PICK u \in Threads : ctx[u].ipe = left.ipe + 1 \/ ctx[u].at \in {"ipeWork", "ipeGive"}
      BY <1>4 DEF Tuned
    <3>2. ctx[u].ipe <= Bought /\ (InIpe(u) => ctx[u].ipe < Bought) /\ left.ipe <= ctx[u].ipe
          /\ ctx[u].ipe <= ctx[u].f /\ ctx[u].f <= Bought /\ Bought \in Nat /\ left.ipe \in Nat
          /\ ctx[u].ipe \in Nat
      BY InFlight, Numbers
    <3> QED BY <3>1, <3>2 DEF InIpe
  <2>3. left.ipe \in left.ipe .. Bought - 1
    BY <2>2, InFlight, Numbers
  <2>4. slot[IpeSlot].out \in PreBufs /\ preQ.used[slot[IpeSlot].out]
    BY <2>1, <2>3 DEF PreInv
  <2>5. CASE DecompBuf(t)
    <3> DEFINE s == SlotOf(ctx[t].f)
               b == FreeBuf(preQ)
    <3>1. CASE FreeBufs(preQ) = {}
      BY <2>5, <3>1 DEF DecompBuf, Sleep
    <3>2. CASE FreeBufs(preQ) # {}
      <4>1. b \in PreBufs /\ ~preQ.used[b]
        BY <3>2, BufTypes, Bufs DEF TypeInv
      <4>2. /\ preBuf' = [preBuf EXCEPT ![b] = [frame |-> Nothing, qp |-> Nothing]]
            /\ \A i \in Slots : slot'[i].out = IF i = s THEN b ELSE slot[i].out
        BY <2>5, <3>2, OwnSlot DEF DecompBuf, TypeInv, SlotState
      <4>3. /\ Bought = ctx[t].f /\ ctx[t].f \in Nat /\ ctx[t].f < taken /\ taken \in Nat
            /\ left.ipe \in Nat
        BY <2>5, InFlight, Numbers DEF DecompBuf
      <4>4. IpeSlot # s
        <5>1. ctx[t].f \in left.ipe .. taken - 1 /\ left.ipe \in left.ipe .. taken - 1
          BY <2>2, <4>3
        <5> QED BY <2>1, <2>2, <4>3, <5>1, SlotsApart
      <4> HIDE DEF s, b
      <4>5. slot'[IpeSlot].out = slot[IpeSlot].out /\ slot[IpeSlot].out # b
        BY <2>1, <2>4, <4>1, <4>2, <4>4
      <4> QED BY <2>4, <4>2, <4>5 DEF TypeInv
    <3> QED BY <3>1, <3>2
  <2>6. CASE IpeEnd(t)
    <3>1. SameOut
      BY <2>6, IpeEndSlots
    <3>2. preBuf' = preBuf \/ \E b, f : preBuf' = [preBuf EXCEPT ![b].frame = f]
      BY <2>6 DEF IpeEnd
    <3>3. \A b \in PreBufs : preBuf'[b].qp = preBuf[b].qp
      BY <3>2 DEF TypeInv
    <3> QED BY <2>1, <2>4, <3>1, <3>3 DEF SameOut
  <2>7. CASE IpeInit(t) /\ Tuned = {}
    BY <1>4, <2>7
  <2>8. CASE \/ Wake(t) \/ DecompInit(t) \/ DecompEnd(t) \/ CoarseInit(t) \/ CoarseEnd(t)
             \/ IpeWait(t) \/ IpeBuf(t)
    <3>1. preBuf' = preBuf
      BY <2>8 DEF Wake, DecompInit, DecompEnd, CoarseInit, CoarseEnd, IpeWait, IpeBuf, Sleep,
            encVars
    <3>2. slot'[IpeSlot].out = slot[IpeSlot].out
      <4>1. SameOut \/ slot' = slot
        BY <2>8, Keeping, DecompInitSlots, DecompEndSlots, CoarseInitSlots, CoarseEndSlots
      <4> QED BY <2>1, <4>1 DEF SameOut
    <3> QED BY <3>1, <3>2
  <2> QED BY <2>5, <2>6, <2>7, <2>8
<1> QED BY <1>1, <1>2, <1>3, <1>4, QpFrame

LEMMA IpeInitKeepsQp ==
  ASSUME TypeInv, TypeInv', DecompInv, IpeInv, WindowInv, PreInv, QpInv, lookAhead' = lookAhead,
         NEW t \in Threads, IpeInit(t), Tuned # {}
  PROVE  QpInv'
<1>1. /\ left' = left /\ enc' = enc /\ IpeSlot' = IpeSlot
      /\ Tuned' = Tuned \cup {t} /\ QpSet(IpeSlot, rc.update)
      /\ rc' = [rc EXCEPT !.update = IF Tuned \cup {t} = Threads THEN Nothing ELSE @]
  BY IpeInitKeepsIpe DEF IpeInit, IpeSlot, SlotOf
<1>2. /\ slot[IpeSlot].inp = left.ipe /\ left.ipe \in left.ipe .. Bought - 1 /\ IpeSlot \in Slots
      /\ t \notin Tuned /\ IpeSlot = SlotOf(left.ipe)
  BY AtIpe DEF IpeInit, InIpe, IpeSlot
<1>3. slot[IpeSlot].out \in PreBufs /\ slot'[IpeSlot].out = slot[IpeSlot].out
  <2>1. SameOut
    BY IpeInitSlots
  <2> QED BY <1>2, <2>1 DEF PreInv, SameOut
<1>4. rc'.queue = rc.queue /\ rc'.read = rc.read /\ rc'.write = rc.write
      /\ rc'.update = IF Tuned \cup {t} = Threads THEN Nothing ELSE rc.update
  BY <1>1 DEF TypeInv, RcState
<1>5. Reads' = Reads /\ Writes' = Writes
  BY <1>1 DEF Reads, Writes
<1>6. rc'.update = IF Tuned' # {} /\ Tuned' # Threads /\ Valid(left'.ipe) THEN QpOf(left'.ipe)
        ELSE Nothing
  BY <1>1, <1>2, <1>4 DEF QpInv
<1>7. Valid(left'.ipe) => preBuf'[slot'[IpeSlot'].out].qp = QpOf(left'.ipe)
  <2>1. ASSUME Valid(left.ipe)
        PROVE  preBuf'[slot'[IpeSlot].out].qp = QpOf(left.ipe)
    <3>1. rc.update = QpOf(left.ipe)
      BY <1>2, <2>1 DEF QpInv
    <3>2. preBuf' = [preBuf EXCEPT ![slot[IpeSlot].out].qp = rc.update]
      BY <1>1, <1>2, <2>1 DEF QpSet
    <3> QED BY <1>3, <3>1, <3>2 DEF TypeInv
  <2> QED BY <1>1, <2>1
<1>8. enc'.at # "end" => enc'.n <= LastFrame
  BY <1>1 DEF QpInv
<1> QED BY <1>4, <1>5, <1>6, <1>7, <1>8 DEF QpInv

LEMMA IpeQpKeepsQp ==
  ASSUME TypeInv, TypeInv', DecompInv, IpeInv, WindowInv, PreInv, QpInv, lookAhead' = lookAhead,
         NEW t \in Threads, IpeQp(t)
  PROVE  QpInv'
<1>1. left' = left /\ enc' = enc /\ IpeSlot' = IpeSlot /\ Tuned' = {t} /\ Tuned = {}
  BY IpeQpKeepsIpe DEF IpeQp, IpeSlot, SlotOf
<1>2. /\ slot[IpeSlot].inp = left.ipe /\ left.ipe \in left.ipe .. Bought - 1 /\ IpeSlot \in Slots
      /\ IpeSlot = SlotOf(left.ipe) /\ SlotOf(ctx[t].ipe) = IpeSlot
      /\ slot[IpeSlot].qpInit = Count(Tuned) /\ left.ipe \in Nat
  BY AtIpe, Numbers DEF IpeQp, InIpe, IpeSlot
<1>3. slot[IpeSlot].out \in PreBufs /\ slot'[IpeSlot].out = slot[IpeSlot].out
  <2>1. SameOut
    BY IpeQpSlots
  <2> QED BY <1>2, <2>1 DEF PreInv, SameOut
<1>4. IsLast(slot[IpeSlot].qpInit) <=> {t} = Threads
  <2>1. Tuned \in SUBSET Threads /\ t \in Threads \ Tuned
    BY <1>1
  <2>2. /\ Count(Tuned) = Cardinality(Tuned)
        /\ IsLast(Cardinality(Tuned)) <=> Tuned \cup {t} = Threads
    BY <2>1, OneMore
  <2> QED BY <1>1, <1>2, <2>2
<1>5. rc.update = Nothing /\ Writes' = Writes /\ LastFrame \in Nat
  BY <1>1, Numbers DEF QpInv, Writes
<1>6. enc'.at # "end" => enc'.n <= LastFrame
  BY <1>1 DEF QpInv
<1>7. CASE ~Valid(left.ipe)
  <2>1. Reads' = Reads
    BY <1>1, <1>2, <1>5, <1>7 DEF Reads, AtMost, Valid
  <2>2. rc' = [rc EXCEPT !.update = IF IsLast(slot[IpeSlot].qpInit) THEN Nothing ELSE @]
    BY <1>2, <1>7 DEF IpeQp
  <2>3. rc'.queue = rc.queue /\ rc'.read = rc.read /\ rc'.write = rc.write /\ rc'.update = Nothing
    BY <1>5, <2>2 DEF TypeInv, RcState
  <2> QED BY <1>1, <1>5, <1>6, <1>7, <2>1, <2>3 DEF QpInv
<1>8. CASE Valid(left.ipe)
  <2> DEFINE qp == rc.queue[rc.read]
             next == (rc.read + 1) % MIN_PRE_ENC_RC_DELAY
             update == IF {t} = Threads THEN Nothing ELSE qp
             k == left.ipe
  <2>1. /\ qp # Nothing /\ QpSet(IpeSlot, qp)
        /\ rc' = [rc EXCEPT !.queue[rc.read] = Nothing, !.read = next, !.update = update]
    BY <1>2, <1>4, <1>8 DEF IpeQp
  <2>2. Reads = k /\ Reads' = k + 1 /\ k \in Nat /\ Writes \in Nat
    BY <1>1, <1>2, <1>5, <1>8, QpPlaces DEF Reads, AtMost, Valid
  <2>3. rc.read = k % 3 /\ k \in Reads .. Reads + 3 - 1
    BY <2>2, Delay3 DEF QpInv
  <2>4. k < Writes /\ qp = QpOf(k)
    BY <2>1, <2>3, Delay3 DEF QpInv
  <2>5. next = (k + 1) % 3
    BY <2>2, <2>3, Delay3, ThreeApart
  <2> DEFINE q == [rc.queue EXCEPT ![rc.read] = Nothing]
  <2>6. rc' = [rc EXCEPT !.queue = q, !.read = next, !.update = update]
    BY <2>1 DEF TypeInv, RcState
  <2>7. \A i \in 0 .. 2 : q[i] = IF i = k % 3 THEN Nothing ELSE rc.queue[i]
    BY <2>3, Delay3 DEF TypeInv, RcState
  <2>8. preBuf' = [preBuf EXCEPT ![slot[IpeSlot].out].qp = qp]
    BY <1>2, <1>8, <2>1 DEF QpSet
  <2> HIDE DEF qp, next, update, q, k
  <2>9. rc'.queue = q /\ rc'.read = next /\ rc'.write = rc.write /\ rc'.update = update
    BY <2>6 DEF TypeInv, RcState
  <2>10. ASSUME NEW j \in k + 1 .. k + 3
         PROVE  q[j % 3] = IF j < Writes THEN QpOf(j) ELSE Nothing
    <3>1. j \in Nat /\ j % 3 \in 0 .. 2
      BY <2>2
    <3>2. CASE j = k + 3
      <4>1. Writes <= k + 3
        BY <2>2, Delay3 DEF QpInv
      <4>2. j % 3 = k % 3 /\ ~(j < Writes)
        BY <2>2, <3>2, <4>1, ThreeApart
      <4> QED BY <2>7, <3>1, <4>2
    <3>3. CASE j # k + 3
      <4>1. j \in k .. k + 3 - 1 /\ j % 3 # k % 3
        <5>1. j \in k + 1 .. k + 2 /\ j \in k .. k + 3 - 1
          BY <2>2, <3>3
        <5> QED BY <2>2, <5>1, ThreeApart
      <4>2. rc.queue[j % 3] = IF j < Writes THEN QpOf(j) ELSE Nothing
        BY <2>2, <4>1, Delay3 DEF QpInv
      <4> QED BY <2>7, <3>1, <4>1, <4>2
    <3> QED BY <3>2, <3>3
  <2>11. rc'.read = Reads' % 3 /\ rc'.write = Writes' % 3
    BY <1>5, <2>2, <2>5, <2>9, Delay3 DEF QpInv
  <2>12. Reads' <= Writes' /\ Writes' <= Reads' + 3
    BY <1>5, <2>2, <2>4, Delay3 DEF QpInv
  <2>13. \A j \in Reads' .. Reads' + 3 - 1 : rc'.queue[j % 3] = IF j < Writes' THEN QpOf(j)
           ELSE Nothing
    <3>1. Reads' .. Reads' + 3 - 1 = k + 1 .. k + 3
      BY <2>2
    <3> QED BY <1>5, <2>9, <2>10, <3>1
  <2>14. rc'.update = IF Tuned' # {} /\ Tuned' # Threads /\ Valid(left'.ipe) THEN QpOf(left'.ipe)
           ELSE Nothing
    BY <1>1, <1>8, <2>4, <2>9 DEF update, k
  <2>15. preBuf'[slot'[IpeSlot'].out].qp = QpOf(left'.ipe)
    BY <1>1, <1>3, <2>4, <2>8 DEF TypeInv, k
  <2> QED BY <1>6, <2>11, <2>12, <2>13, <2>14, <2>15, Delay3 DEF QpInv
<1> QED BY <1>7, <1>8

LEMMA IpeGiveKeepsQp ==
  ASSUME TypeInv, TypeInv', DecompInv, IpeInv, WindowInv, QpInv, lookAhead' = lookAhead,
         NEW t \in Threads, IpeGive(t)
  PROVE  QpInv'
<1>1. Tuned' = {} /\ Tuned = Threads /\ Threads # {}
  BY IpeGiveKeepsIpe, SizesAssumption
<1>2. left'.ipe = left.ipe + 1 /\ rc' = rc /\ enc' = enc
  BY DEF IpeGive, TypeInv
<1>3. Reads' = Reads /\ Writes' = Writes
  BY <1>1, <1>2 DEF Reads, Writes
<1> QED BY <1>1, <1>2, <1>3 DEF QpInv

(* Setting the QP of a frame that the L0 IPE is about to ask for.          *)
LEMMA QpIsNext ==
  ASSUME TypeInv, L0Inv, QpInv, enc.at = "init", enc.n > 0, Valid(enc.n)
  PROVE  Writes = enc.n + 1 /\ Reads = enc.n + 1 /\ rc.write = (enc.n + 1) % 3
         /\ rc.queue[rc.write] = Nothing
<1>1. enc.n < left.ipe /\ enc.n \in Nat /\ left.ipe \in Nat /\ LastFrame \in Nat /\ enc.n < LastFrame
  BY Numbers DEF L0Inv, Valid
<1>2. Writes = enc.n + 1
  BY <1>1 DEF Writes, WritesBefore, AtMost
<1>3. Reads >= enc.n + 1 /\ Reads \in Nat
  BY <1>1 DEF Reads, AtMost
<1>4. Reads <= Writes
  BY DEF QpInv
<1>5. Reads = enc.n + 1
  BY <1>1, <1>2, <1>3, <1>4
<1>6. rc.write = (enc.n + 1) % 3
  BY <1>2, Delay3 DEF QpInv
<1>7. Reads \in Reads .. Reads + 3 - 1
  BY <1>3
<1>8. rc.queue[Reads % 3] = Nothing
  BY <1>1, <1>2, <1>5, <1>7, Delay3 DEF QpInv
<1> QED BY <1>2, <1>5, <1>6, <1>8

LEMMA EncInitKeepsQp ==
  ASSUME TypeInv, TypeInv', L0Inv, QpInv, UNCHANGED threadVars, EncInit
  PROVE  QpInv'
<1>1. /\ left' = left /\ slot' = slot /\ preBuf' = preBuf /\ Tuned' = Tuned /\ Reads' = Reads
      /\ IpeSlot' = IpeSlot
  BY DEF threadVars, Tuned, Reads, IpeSlot, SlotOf
<1>2. /\ enc.at = "init" /\ enc'.at = "encode" /\ enc'.n = enc.n /\ rc' = SetQp(rc, enc.n)
  BY DEF EncInit, TypeInv, EncState
<1>3. enc.n \in Nat /\ LastFrame \in Nat /\ enc.n <= LastFrame
  BY <1>2, Numbers DEF QpInv
<1>4. Writes = WritesBefore(enc.n) /\ Writes' = WritesBefore(enc.n + 1)
  BY <1>2 DEF Writes, WritesBefore, AtMost
<1>5. CASE ~(Valid(enc.n) /\ enc.n > 0)
  <2>1. rc' = rc
    BY <1>2, <1>5 DEF SetQp
  <2>2. Writes' = Writes
    BY <1>3, <1>4, <1>5 DEF WritesBefore, AtMost, Valid
  <2> QED BY <1>1, <1>2, <1>3, <2>1, <2>2 DEF QpInv
<1>6. CASE Valid(enc.n) /\ enc.n > 0
  <2> DEFINE next == (rc.write + 1) % MIN_PRE_ENC_RC_DELAY
             q == [rc.queue EXCEPT ![rc.write] = enc.n]
             k == enc.n + 1
  <2>1. /\ Writes = k /\ Reads = k /\ rc.write = k % 3 /\ k \in Nat /\ k # 0
    BY <1>2, <1>3, <1>6, QpIsNext
  <2>2. Writes' = k + 1
    BY <1>3, <1>4, <1>6 DEF WritesBefore, AtMost, Valid
  <2>3. next = (k + 1) % 3
    BY <2>1, Delay3, ThreeApart
  <2>4. rc' = [rc EXCEPT !.queue = q, !.write = next]
    BY <1>2, <1>6 DEF SetQp, TypeInv, RcState
  <2>5. \A i \in 0 .. 2 : q[i] = IF i = k % 3 THEN enc.n ELSE rc.queue[i]
    BY <2>1, Delay3 DEF TypeInv, RcState
  <2>6. QpOf(k) = enc.n
    BY <1>3 DEF QpOf
  <2> HIDE DEF next, q, k
  <2>7. rc'.queue = q /\ rc'.write = next /\ rc'.read = rc.read /\ rc'.update = rc.update
    BY <2>4 DEF TypeInv, RcState
  <2>8. ASSUME NEW j \in k .. k + 2
        PROVE  q[j % 3] = IF j < k + 1 THEN QpOf(j) ELSE Nothing
    <3>1. j \in Nat /\ j % 3 \in 0 .. 2
      BY <2>1
    <3>2. CASE j = k
      <4>1. j < k + 1
        BY <2>1, <3>2
      <4> QED BY <2>5, <2>6, <3>1, <3>2, <4>1
    <3>3. CASE j # k
      <4>1. j \in k .. k + 3 - 1 /\ j % 3 # k % 3 /\ ~(j < k + 1) /\ ~(j < k)
        <5>1. j \in k + 1 .. k + 2 /\ j \in k .. k + 3 - 1 /\ ~(j < k + 1) /\ ~(j < k)
          BY <2>1, <3>3
        <5> QED BY <2>1, <5>1, ThreeApart
      <4>2. rc.queue[j % 3] = Nothing
        BY <2>1, <4>1, Delay3 DEF QpInv
      <4> QED BY <2>5, <3>1, <4>1, <4>2
    <3> QED BY <3>2, <3>3
  <2>9. rc'.read = Reads' % 3 /\ rc'.write = Writes' % 3
    BY <1>1, <2>2, <2>3, <2>7, Delay3 DEF QpInv
  <2>10. Reads' <= Writes' /\ Writes' <= Reads' + 3
    BY <1>1, <2>1, <2>2
  <2>11. \A j \in Reads' .. Reads' + 3 - 1 : rc'.queue[j % 3] = IF j < Writes' THEN QpOf(j)
           ELSE Nothing
    <3>1. Reads' .. Reads' + 3 - 1 = k .. k + 2
      BY <1>1, <2>1
    <3> QED BY <2>2, <2>7, <2>8, <3>1
  <2>12. enc'.at # "end" => enc'.n <= LastFrame
    BY <1>2, <1>3
  <2> QED BY <1>1, <2>7, <2>9, <2>10, <2>11, <2>12, Delay3 DEF QpInv
<1> QED BY <1>5, <1>6

LEMMA EncKeepsQp ==
  ASSUME TypeInv, TypeInv', L0Inv, QpInv, UNCHANGED threadVars, EncodeGroup
  PROVE  QpInv'
<1>1. /\ left' = left /\ slot' = slot /\ preBuf' = preBuf /\ Tuned' = Tuned /\ Reads' = Reads
      /\ IpeSlot' = IpeSlot
  BY DEF threadVars, Tuned, Reads, IpeSlot, SlotOf
<1>2. enc \in EncState
  BY DEF TypeInv
<1>3. CASE EncWake \/ GetPre \/ GetL0 \/ ReleasePre
  <2>1. rc' = rc
    BY <1>3 DEF EncWake, GetPre, GetL0, ReleasePre
  <2>2. \/ enc'.n = enc.n /\ enc'.at = enc.at
        \/ enc'.n = enc.n /\ enc.at \in {"getPre", "getL0"} /\ enc'.at \in {"getL0", "init"}
        \/ enc'.n = enc.n /\ enc.at = "encode" /\ enc'.at = "releaseL0"
    <3>1. CASE GetPre
      <4>1. enc.at = "getPre" /\ (enc' = [enc EXCEPT !.asleep = TRUE]
                                    \/ \E b : enc' = [enc EXCEPT !.at = "getL0", !.pre = b])
        BY <3>1 DEF GetPre
      <4> QED BY <1>2, <4>1 DEF EncState
    <3>2. CASE GetL0
      <4>1. enc.at = "getL0" /\ (enc' = [enc EXCEPT !.asleep = TRUE]
                                   \/ \E b : enc' = [enc EXCEPT !.at = "init", !.l0 = b])
        BY <3>2 DEF GetL0
      <4> QED BY <1>2, <4>1 DEF EncState
    <3> QED BY <1>2, <1>3, <3>1, <3>2 DEF EncWake, ReleasePre, EncState
  <2> QED BY <1>1, <2>1, <2>2, QpFrame
<1>4. CASE ReleaseL0
  <2> DEFINE p == IF Valid(enc.n) THEN "getPre" ELSE "end"
  <2>1. enc' = [enc EXCEPT !.at = p, !.n = @ + 1] /\ enc.at = "releaseL0" /\ rc' = rc
    BY <1>4 DEF ReleaseL0
  <2>2. p \in {"getPre", "end"} /\ (p = "getPre" <=> Valid(enc.n))
    OBVIOUS
  <2> HIDE DEF p
  <2>3. enc'.at = p /\ enc'.n = enc.n + 1
    BY <1>2, <2>1 DEF EncState
  <2>4. Writes' = Writes
    BY <2>1, <2>2, <2>3 DEF Writes
  <2>5. enc'.at # "end" => enc'.n <= LastFrame
    BY <2>2, <2>3, Numbers DEF Valid
  <2> QED BY <1>1, <2>1, <2>4, <2>5 DEF QpInv
<1> QED BY <1>3, <1>4, EncInitKeepsQp DEF EncodeGroup
-----------------------------------------------------------------------------
(* The invariant, and what follows from it.                                *)

LEMMA ThreadTypes ==
  ASSUME TypeInv, QpInv, NEW t \in Threads, Thread(t)
  PROVE  TypeInv' /\ lookAhead' = lookAhead
BY WakeTypes, DecompInitTypes, DecompBufTypes, DecompEndTypes, CoarseInitTypes, CoarseEndTypes,
   IpeWaitTypes, IpeInitTypes, IpeBufTypes, IpeQpTypes, IpeEndTypes, IpeGiveTypes DEF Thread

LEMMA ThreadStep ==
  ASSUME IInv, NEW t \in Threads, Thread(t)
  PROVE  IInv'
<1>1. /\ TypeInv /\ DecompInv /\ CoarseInv /\ IpeInv /\ WindowInv /\ PreInv /\ L0Inv /\ QpInv
      /\ TypeInv' /\ lookAhead' = lookAhead
  BY ThreadTypes DEF IInv
<1>2. DecompInv'
  BY <1>1, DecompInitKeepsDecomp, DecompBufKeepsDecomp, DecompEndKeepsDecomp, CoarseKeepsDecomp,
     IpeKeepsDecomp DEF Thread
<1>3. CoarseInv'
  BY <1>1, OthersKeepCoarse, CoarseKeepsCoarse DEF Thread
<1>4. IpeInv'
  BY <1>1, OthersKeepIpe, IpeWaitKeepsIpe, IpeInitKeepsIpe, IpeBufKeepsIpe, IpeQpKeepsIpe,
     IpeEndKeepsIpe, IpeGiveKeepsIpe DEF Thread
<1>5. WindowInv'
  <2>1. IpeEnd(t) => Moves(t, "ipeGive") \/ Turns(t)
    BY <1>1, IpeMoves
  <2> QED BY <1>1, <2>1, MovesKeepWindow, DecompInitKeepsWindow, TurnsKeepWindow DEF Thread
<1>6. PreInv'
  BY <1>1, ThreadsKeepPre, DecompBufKeepsPre, IpeEndKeepsPre DEF Thread
<1>7. L0Inv'
  BY <1>1, ThreadsKeepL0, IpeBufKeepsL0, IpeEndKeepsL0, IpeGiveKeepsL0 DEF Thread
<1>8. QpInv'
  BY <1>1, ThreadsKeepQp, IpeInitKeepsQp, IpeQpKeepsQp, IpeGiveKeepsQp DEF Thread
<1> QED BY <1>1, <1>2, <1>3, <1>4, <1>5, <1>6, <1>7, <1>8 DEF IInv

LEMMA EncStep ==
  ASSUME IInv, EncodeGroup
  PROVE  IInv'
<1>1. /\ TypeInv /\ DecompInv /\ CoarseInv /\ IpeInv /\ WindowInv /\ PreInv /\ L0Inv /\ QpInv
      /\ TypeInv' /\ UNCHANGED threadVars
  BY EncTypes DEF IInv
<1>2. DecompInv' /\ CoarseInv' /\ IpeInv' /\ WindowInv'
  BY <1>1, EncKeepsStages
<1>3. PreInv' /\ L0Inv' /\ QpInv'
  BY <1>1, EncKeepsPre, EncKeepsL0, EncKeepsQp
<1> QED BY <1>1, <1>2, <1>3 DEF IInv

LEMMA Stutter ==
  ASSUME IInv, UNCHANGED vars
  PROVE  IInv'
<1>1. UNCHANGED threadVars /\ preQ' = preQ /\ l0Q' = l0Q /\ rc' = rc /\ enc' = enc
      /\ preSem' = preSem /\ encSem' = encSem
  BY DEF vars, threadVars
<1>2. TypeInv'
  BY <1>1 DEF IInv, TypeInv, threadVars, Slots, PreBufs, L0Bufs
<1>3. DecompInv' /\ CoarseInv' /\ IpeInv' /\ WindowInv'
  BY <1>1, EncKeepsStages DEF IInv
<1>4. PreInv'
  BY <1>1 DEF IInv, PreInv, threadVars, PreBufs, Bought, Sent, Back, SlotOf
<1>5. L0Inv'
  BY <1>1 DEF IInv, L0Inv, threadVars, L0Bufs, HasL0, Tuned, Gone
<1>6. QpInv'
  BY <1>1 DEF IInv, QpInv, threadVars, Reads, Writes, Tuned, IpeSlot, SlotOf
<1> QED BY <1>2, <1>3, <1>4, <1>5, <1>6 DEF IInv

(* Everything the model relies on, in every state: who is in which stage of *)
(* which frame, what is in the slots, in the buffers of the two queues and *)
(* in the queue of QPs.                                                    *)
THEOREM Invariant == Spec => []IInv
<1>1. Init => IInv
  BY InitHolds
<1>2. IInv /\ [Next]_vars => IInv'
  <2> SUFFICES ASSUME IInv, [Next]_vars
               PROVE  IInv'
    OBVIOUS
  <2>1. CASE EncodeGroup
    BY <2>1, EncStep
  <2>2. CASE \E t \in Threads : Thread(t)
    BY <2>2, ThreadStep
  <2>3. CASE Rest \/ UNCHANGED vars
    BY <2>3, Stutter DEF Rest
  <2> QED BY <2>1, <2>2, <2>3 DEF Next
<1> QED BY <1>1, <1>2, PTL DEF Spec

(* No thread finds a later frame in the slot it computes from its own      *)
(* frame, although others run ahead by the delay of the look-ahead: the    *)
(* ring of i4_max_delay_pre_me_btw_l0_ipe slots is long enough.            *)
THEOREM SlotsKept == Spec => []SlotKept
<1>1. IInv => SlotKept
  <2> SUFFICES ASSUME IInv, NEW t \in Threads
               PROVE  /\ InFirstStages(t) => slot[SlotOf(ctx[t].f)].inp = ctx[t].f
                      /\ ctx[t].at = "coarseWork" => slot[SlotOf(ctx[t].f)].hmeInit = ctx[t].f
                      /\ InIpe(t) => slot[SlotOf(ctx[t].ipe)].inp = ctx[t].ipe
    BY DEF SlotKept
  <2>1. TypeInv /\ DecompInv /\ CoarseInv /\ IpeInv /\ WindowInv
    BY DEF IInv
  <2>2. /\ left.ipe <= ctx[t].ipe /\ ctx[t].ipe <= ctx[t].f /\ Bought <= taken
        /\ InFirstStages(t) => ctx[t].f < Bought
        /\ InIpe(t) => ctx[t].ipe < Bought
        /\ Bought \in Nat /\ taken \in Nat /\ left.ipe \in Nat /\ ctx[t].f \in Nat /\ ctx[t].ipe \in Nat
    BY <2>1, InFlight, Numbers
  <2>3. /\ InFirstStages(t) => ctx[t].f \in left.ipe .. taken - 1
        /\ InIpe(t) => ctx[t].ipe \in left.ipe .. taken - 1
    BY <2>2
  <2>4. \A g \in left.ipe .. taken - 1 : slot[SlotOf(g)].inp = g
    BY <2>1 DEF WindowInv
  <2>5. ctx[t].at = "coarseWork" => slot[SlotOf(ctx[t].f)].hmeInit = ctx[t].f
    BY <2>1 DEF CoarseInv, CoarseSlot
  <2> QED BY <2>3, <2>4, <2>5
<1> QED BY <1>1, Invariant, PTL

(* The encode group has both buffers of the frame it is about, and no      *)
(* pre-encode thread still works on one of them.                           *)
THEOREM FrameOwned == Spec => []EncoderOwnsFrame
<1>1. IInv => EncoderOwnsFrame
  <2> SUFFICES ASSUME IInv, enc.at \in {"init", "encode"}
               PROVE  /\ preBuf[enc.pre].frame = enc.n /\ l0Buf[enc.l0] = enc.n
                      /\ \A t \in Threads :
                           /\ InFirstStages(t) => slot[SlotOf(ctx[t].f)].out # enc.pre
                           /\ InIpe(t) => slot[SlotOf(ctx[t].ipe)].out # enc.pre
                           /\ ctx[t].at \in {"ipeQp", "ipeWork", "ipeGive"} => l0Out # enc.l0
    BY DEF EncoderOwnsFrame
  <2>1. TypeInv /\ DecompInv /\ IpeInv /\ WindowInv /\ PreInv /\ L0Inv
    BY DEF IInv
  <2>2. /\ enc.pre \in PreBufs /\ preQ.produced[enc.pre] /\ preQ.seq[enc.pre] = enc.n
        /\ enc.l0 \in L0Bufs /\ l0Q.produced[enc.l0] /\ l0Q.seq[enc.l0] = enc.n
    BY <2>1 DEF PreInv, L0Inv
  <2>3. preBuf[enc.pre].frame = enc.n /\ l0Buf[enc.l0] = enc.n
    BY <2>1, <2>2 DEF PreInv, L0Inv
  <2>4. enc.n < left.ipe /\ enc.n \in Nat /\ left.ipe \in Nat /\ Bought \in Nat
    BY <2>1, Limits
  <2>5. ASSUME NEW g \in left.ipe .. Bought - 1
        PROVE  slot[SlotOf(g)].out # enc.pre
    <3>1. preQ.seq[slot[SlotOf(g)].out] = g
      BY <2>1 DEF PreInv
    <3> QED BY <2>2, <2>4, <3>1
  <2>6. ASSUME NEW t \in Threads
        PROVE  /\ InFirstStages(t) => slot[SlotOf(ctx[t].f)].out # enc.pre
               /\ InIpe(t) => slot[SlotOf(ctx[t].ipe)].out # enc.pre
    <3>1. /\ left.ipe <= ctx[t].ipe /\ ctx[t].ipe <= ctx[t].f
          /\ InFirstStages(t) => ctx[t].f < Bought
          /\ InIpe(t) => ctx[t].ipe < Bought
          /\ ctx[t].f \in Nat /\ ctx[t].ipe \in Nat
      BY <2>1, InFlight, Numbers
    <3>2. /\ InFirstStages(t) => ctx[t].f \in left.ipe .. Bought - 1
          /\ InIpe(t) => ctx[t].ipe \in left.ipe .. Bought - 1
      BY <2>4, <3>1
    <3> QED BY <2>5, <3>2
  <2>7. ASSUME NEW t \in Threads, ctx[t].at \in {"ipeQp", "ipeWork", "ipeGive"}
        PROVE  l0Out # enc.l0
    <3>1. HasL0
      BY <2>7 DEF HasL0, Tuned
    <3>2. l0Q.seq[l0Out] = left.ipe
      BY <2>1, <3>1 DEF L0Inv
    <3> QED BY <2>2, <2>4, <3>2
  <2> QED BY <2>3, <2>6, <2>7
<1> QED BY <1>1, Invariant, PTL

(* The QP of a frame's L0 IPE counts the same frames in every run, however *)
(* far the threads have got, and the queue of QPs never runs over.         *)
THEOREM QpsInStep == Spec => []QpInStep
<1>1. IInv => QpInStep
  <2> SUFFICES ASSUME IInv
               PROVE  QpInStep
    OBVIOUS
  <2>1. TypeInv /\ DecompInv /\ IpeInv /\ WindowInv /\ L0Inv /\ QpInv
    BY DEF IInv
  <2>2. ASSUME NEW t \in Threads, ctx[t].at = "ipeWork", Valid(ctx[t].ipe)
        PROVE  preBuf[slot[SlotOf(ctx[t].ipe)].out].qp = IF ctx[t].ipe = 0 THEN 0
                 ELSE ctx[t].ipe - 1
    <3>1. InIpe(t)
      BY <2>2 DEF InIpe
    <3>2. ctx[t].ipe = left.ipe /\ SlotOf(ctx[t].ipe) = IpeSlot /\ t \in Tuned
      BY <2>1, <2>2, <3>1, AtIpe
    <3> QED BY <2>1, <2>2, <3>2 DEF QpInv, QpOf
  <2>3. ASSUME NEW t \in Threads, ctx[t].at = "ipeQp"
        PROVE  rc.update = Nothing
    <3>1. Tuned = {}
      BY <2>1, <2>3 DEF IpeInv
    <3> QED BY <2>1, <3>1 DEF QpInv
  <2>4. ASSUME enc.at = "init", SetQp(rc, enc.n) # rc
        PROVE  rc.queue[rc.write] = Nothing
    <3>1. Valid(enc.n) /\ enc.n > 0
      BY <2>4 DEF SetQp
    <3> QED BY <2>1, <2>4, <3>1, QpIsNext
  <2> QED BY <2>2, <2>3, <2>4 DEF QpInStep
<1> QED BY <1>1, Invariant, PTL

=============================================================================
