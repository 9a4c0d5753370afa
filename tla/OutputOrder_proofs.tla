-------------------------- MODULE OutputOrder_proofs ---------------------------
(***************************************************************************)
(* Proofs about the output of pictures.  The decoder never holds a picture *)
(* back, for every reorder depth, every stream and every width of the      *)
(* counters.  Where the counts of a stream fit a WORD32 and its sequences  *)
(* share the number of low bits, the first slice of a new picture is not   *)
(* taken for a repetition, but for CRA pictures after a flush; and the     *)
(* pictures go out in the order of the stream as long as none is sent too  *)
(* far above the last reference picture of temporal layer 0, which a       *)
(* stream that reorders by at most one picture cannot do.                  *)
(***************************************************************************)
EXTENDS OutputOrder, FiniteSetTheorems, TLAPS

(* The count of waiting pictures is never below their number, unless a     *)
(* flush has set it back and takes them out one by one.                    *)
WaitInv ==
  /\ reorder \in Nat
  /\ IsFiniteSet(waiting)
  /\ backlog \in 0 .. reorder
  /\ Cardinality(waiting) <= reorder
  /\ ~flushing => Cardinality(waiting) <= backlog

(* A picture joins those that wait, and the lowest goes out if need be.    *)
LEMMA BumpKeeps ==
  ASSUME WaitInv, ~flushing, NEW p, Bump(waiting \cup {p}), UNCHANGED <<reorder, flushing>>
  PROVE  WaitInv'
<1> DEFINE pictures == waiting \cup {p}
<1>1. IsFiniteSet(pictures) /\ Cardinality(pictures) <= Cardinality(waiting) + 1
      /\ Cardinality(waiting) \in Nat /\ Cardinality(pictures) \in Nat
  BY FS_AddElement, FS_CardinalityType DEF WaitInv
<1>2. CASE backlog >= reorder
  <2>1. PICK q \in pictures : waiting' = pictures \ {q} /\ backlog' = backlog
    BY <1>2 DEF Bump
  <2>2. IsFiniteSet(waiting') /\ Cardinality(waiting') = Cardinality(pictures) - 1
    BY <1>1, <2>1, FS_RemoveElement
  <2> QED BY <1>1, <1>2, <2>1, <2>2 DEF WaitInv
<1>3. CASE ~(backlog >= reorder)
  <2>1. waiting' = pictures /\ backlog' = backlog + 1
    BY <1>3 DEF Bump
  <2> QED BY <1>1, <1>3, <2>1 DEF WaitInv
<1> QED BY <1>2, <1>3

(* A picture whose first slice is ignored leaves the queue alone.          *)
LEMMA DecodeKeeps ==
  ASSUME WaitInv, ~flushing, reorder' = reorder,
         NEW kind, NEW c, NEW poc, NEW max, NEW anchor, Decode(kind, c, poc, max, anchor)
  PROVE  WaitInv'
<1> DEFINE abs == Wrapped(PocMsb(kind, poc % max, max) + (poc % max))
<1>1. CASE abs = slicePoc
  BY <1>1 DEF Decode, WaitInv
<1>2. CASE abs # slicePoc
  BY <1>2, BumpKeeps DEF Decode
<1> QED BY <1>1, <1>2

LEMMA FlushKeeps ==
  ASSUME WaitInv, Flush \/ FlushOut
  PROVE  WaitInv'
<1>1. CASE Flush
  BY <1>1 DEF Flush, WaitInv
<1>2. CASE FlushOut /\ waiting = {}
  BY <1>2, FS_EmptySet DEF FlushOut, streamVars, WaitInv
<1>3. CASE FlushOut /\ waiting # {}
  <2>1. PICK p \in waiting : waiting' = waiting \ {p} /\ flushing' = flushing
    BY <1>3 DEF FlushOut
  <2>2. /\ IsFiniteSet(waiting') /\ Cardinality(waiting') = Cardinality(waiting) - 1
        /\ Cardinality(waiting) \in Nat
    BY <2>1, FS_RemoveElement, FS_CardinalityType DEF WaitInv
  <2> QED BY <1>3, <2>1, <2>2 DEF FlushOut, streamVars, WaitInv
<1> QED BY <1>1, <1>2, <1>3

LEMMA WaitNext == WaitInv /\ [Next]_vars => WaitInv'
<1> SUFFICES ASSUME WaitInv, [Next]_vars PROVE WaitInv'
  OBVIOUS
<1>1. ASSUME NEW kind \in StartKinds, NEW max \in MaxLsbs, NEW lsb \in 0 .. max - 1,
             StartCvs(kind, max, lsb)
      PROVE  WaitInv'
  BY <1>1, DecodeKeeps DEF StartCvs
<1>2. ASSUME NEW poc \in -MaxPoc .. MaxPoc, NEW anchor \in BOOLEAN, NextPic(poc, anchor)
      PROVE  WaitInv'
  BY <1>2, DecodeKeeps DEF NextPic
<1>3. CASE UNCHANGED vars
  BY <1>3 DEF vars, streamVars, outVars, WaitInv
<1> QED BY <1>1, <1>2, <1>3, FlushKeeps DEF Next

LEMMA WaitInit == Init => WaitInv
BY OrderAssumption, FS_EmptySet DEF Init, WaitInv

(* However the pictures are ordered, repeated, ignored or flushed, and     *)
(* whatever the counts wrap to, no more of them wait than the stream       *)
(* reorders: u4_pic_cnt - u4_disp_cnt never falls behind the pictures in   *)
(* the display manager while pictures are decoded.                         *)
THEOREM OutputInTime == Spec => []NoLateOutput
<1>1. WaitInv => NoLateOutput
  BY DEF WaitInv, NoLateOutput
<1> QED BY <1>1, WaitInit, WaitNext, PTL DEF Spec


-----------------------------------------------------------------------------
(* The count of a picture for the whole stream.  The sequences of a stream *)
(* share the number of low bits here, as they do when the SPS is not sent  *)
(* anew (MCLsbChange shows what else may happen), and the counts of all of *)
(* them fit a WORD32.                                                      *)

OneSize == \A m, n \in MaxLsbs : m = n

Wide == \A m \in MaxLsbs :
  /\ m <= MaxPoc + 1
  /\ (MaxCvs - 1) * (2 * m + MaxPoc) + MaxPoc < IntHalf
  /\ MaxCvs * m + MaxPoc <= IntHalf

(* What ihevcd_calc_poc adds to the POCs of the current sequence.          *)
Offset == prevMsb - (tid0Poc - (tid0Poc % maxLsb))

Half == maxLsb \div 2

CountType ==
  /\ cvs \in 0 .. MaxCvs
  /\ maxLsb \in MaxLsbs
  /\ firstPoc \in 0 .. maxLsb - 1
  /\ tid0Poc \in firstPoc .. MaxPoc
  /\ sent \subseteq -MaxPoc .. MaxPoc
  /\ prevMsb \in Int /\ prevLsb \in Int /\ slicePoc \in Int
  /\ firstDone = (cvs # 0)
  /\ cvs = 0 => sent = {} /\ slicePoc = NoPoc

(* The two fields are the parts of the count of the last reference picture *)
(* of layer 0, and the last picture's count is within two periods of them. *)
CountPlace ==
  cvs # 0 =>
    /\ prevLsb = tid0Poc % maxLsb
    /\ -((cvs - 1) * maxLsb) <= Offset
    /\ Offset <= (cvs - 1) * (2 * maxLsb + MaxPoc)
    /\ slicePoc < prevMsb + 2 * maxLsb
    /\ sent # {} => slicePoc - Offset \in sent

CountInv == CountType /\ CountPlace /\ OnlyAfterSeekIgnored

(* Periods of the low bits.                                                *)
LEMMA Period ==
  ASSUME NEW m \in Nat, m >= 4, NEW a \in Int
  PROVE  /\ a % m \in 0 .. m - 1
         /\ \E d \in Int : a = m * d + (a % m)
<1>1. a % m \in 0 .. m - 1 /\ a \div m \in Int /\ a = m * (a \div m) + (a % m)
  OBVIOUS
<1> QED BY <1>1

LEMMA Halves ==
  ASSUME NEW m \in Nat, m >= 4, m % 4 = 0
  PROVE  m \div 2 \in Nat /\ 2 * (m \div 2) = m
OBVIOUS

LEMMA SmallPeriod ==
  ASSUME NEW n \in Nat, NEW a \in Nat, a < n
  PROVE  a % n = a
OBVIOUS

LEMMA NotWrapped ==
  ASSUME NEW x \in Int, -IntHalf <= x, x < IntHalf
  PROVE  Wrapped(x) = x
<1>1. IntHalf \in Nat
  BY OrderAssumption
<1>2. (x + IntHalf) % (2 * IntHalf) = x + IntHalf
  BY <1>1, SmallPeriod
<1> QED BY <1>1, <1>2 DEF Wrapped

LEMMA OneMore ==
  ASSUME NEW a \in Int, NEW b \in Int
  PROVE  (a + 1) * b = a * b + b /\ a * b \in Int
OBVIOUS

LEMMA Product ==
  ASSUME NEW a \in Nat, NEW b \in Nat, NEW c \in Nat, a <= b
  PROVE  a * c <= b * c
<1>1. PICK d \in Nat : b = a + d
  BY a <= b, b - a \in Nat
<1>2. b * c = a * c + d * c /\ d * c \in Nat /\ a * c \in Nat
  BY <1>1
<1> QED BY <1>2

(* From the low bits of two POCs less than half a period apart: the period *)
(* of the one from that of the other.                                      *)
LEMMA NearPeriod ==
  ASSUME NEW m \in Nat, NEW h \in Nat, m >= 4, 2 * h = m,
         NEW d \in Int, NEW e \in Int, NEW p \in Int, NEW q \in Int, p = m * d, q = m * e,
         NEW r \in Nat, NEW s \in Nat, r < m, s < m,
         1 - h <= (q + s) - (p + r), (q + s) - (p + r) < h
  PROVE  q = IF s < r /\ r - s >= h THEN p + m
             ELSE IF s > r /\ s - r > h THEN p - m
             ELSE p
<1>1. PICK f \in Int : f = e - d
  OBVIOUS
<1>2. m * f \in Int /\ q = p + m * f
  BY <1>1
<1>4. 1 - h <= m * f + s - r /\ m * f + s - r < h
  BY <1>2
<1>5. ~(f >= 2)
  <2>1. f >= 2 => m * f >= 2 * m
    OBVIOUS
  <2> QED BY <1>2, <1>4, <2>1
<1>6. ~(f <= -2)
  <2>1. f <= -2 => m * f <= -(2 * m)
    OBVIOUS
  <2> QED BY <1>2, <1>4, <2>1
<1>7. f \in {-1, 0, 1}
  BY <1>5, <1>6
<1>8. m * f \in {-m, 0, m}
  BY <1>7
<1> QED BY <1>2, <1>4, <1>8

LEMMA NextPeriod ==
  ASSUME NEW m \in Nat, m >= 4, m % 4 = 0, NEW a \in Int, NEW b \in Int,
         b - a \in (1 - m \div 2) .. (m \div 2 - 1)
  PROVE  b - (b % m) =
           IF (b % m) < (a % m) /\ (a % m) - (b % m) >= m \div 2 THEN a - (a % m) + m
           ELSE IF (b % m) > (a % m) /\ (b % m) - (a % m) > m \div 2 THEN a - (a % m) - m
           ELSE a - (a % m)
<1>1. m \div 2 \in Nat /\ 2 * (m \div 2) = m
  BY Halves
<1>2. PICK r \in 0 .. m - 1 : r = a % m /\ \E d \in Int : a = m * d + r
  BY Period
<1>3. PICK s \in 0 .. m - 1 : s = b % m /\ \E d \in Int : b = m * d + s
  BY Period
<1>4. PICK d \in Int : a = m * d + r
  BY <1>2
<1>5. PICK e \in Int : b = m * e + s
  BY <1>3
<1>6. PICK h \in Nat : h = m \div 2
  BY <1>1
<1>7. PICK p \in Int : p = m * d
  OBVIOUS
<1>8. PICK q \in Int : q = m * e
  OBVIOUS
<1>9. 1 - h <= (q + s) - (p + r) /\ (q + s) - (p + r) < h /\ 2 * h = m
  BY <1>1, <1>4, <1>5, <1>6, <1>7, <1>8
<1>10. r \in Nat /\ s \in Nat /\ r < m /\ s < m
  OBVIOUS
<1>11. q = IF s < r /\ r - s >= h THEN p + m
           ELSE IF s > r /\ s - r > h THEN p - m
           ELSE p
  BY <1>7, <1>8, <1>9, <1>10, NearPeriod
<1>12. a - r = p /\ b - s = q
  BY <1>4, <1>5, <1>7, <1>8
<1>13. b - s = IF s < r /\ r - s >= h THEN a - r + m
              ELSE IF s > r /\ s - r > h THEN a - r - m
              ELSE a - r
  BY <1>11, <1>12
<1> QED BY <1>2, <1>3, <1>6, <1>13

LEMMA Sizes ==
  ASSUME CountType
  PROVE  /\ maxLsb \in Nat /\ maxLsb >= 4 /\ maxLsb % 4 = 0
         /\ Half \in Nat /\ 2 * Half = maxLsb
         /\ MaxPoc \in Nat /\ MaxCvs \in Nat /\ cvs \in Nat /\ cvs <= MaxCvs
         /\ tid0Poc \in Nat /\ tid0Poc <= MaxPoc /\ firstPoc \in Nat /\ firstPoc < maxLsb
         /\ firstPoc <= tid0Poc
         /\ tid0Poc % maxLsb \in 0 .. maxLsb - 1
         /\ tid0Poc % maxLsb <= tid0Poc
         /\ Offset \in Int /\ prevMsb = Offset + tid0Poc - (tid0Poc % maxLsb)
<1>1. maxLsb \in Nat /\ maxLsb >= 4 /\ maxLsb % 4 = 0
  BY OrderAssumption DEF CountType
<1>2. Half \in Nat /\ 2 * Half = maxLsb
  BY <1>1, Halves DEF Half
<1>3. /\ MaxPoc \in Nat /\ MaxCvs \in Nat /\ cvs \in Nat /\ cvs <= MaxCvs
      /\ firstPoc \in Nat /\ firstPoc < maxLsb /\ firstPoc <= tid0Poc
      /\ tid0Poc \in Nat /\ tid0Poc <= MaxPoc
  BY <1>1, OrderAssumption DEF CountType
<1>4. /\ tid0Poc % maxLsb \in 0 .. maxLsb - 1
      /\ \E d \in Int : tid0Poc = maxLsb * d + (tid0Poc % maxLsb)
  <2>1. tid0Poc \in Int
    BY <1>3
  <2>2. maxLsb \in Nat /\ maxLsb >= 4
    BY <1>1
  <2> QED BY <2>1, <2>2, Period
<1>5. tid0Poc % maxLsb <= tid0Poc
  <2>1. PICK r \in 0 .. maxLsb - 1 : r = tid0Poc % maxLsb
    BY <1>4
  <2>2. PICK d \in Int : tid0Poc = maxLsb * d + r
    BY <1>4, <2>1
  <2>3. d >= 0
    <3>1. d <= -1 => maxLsb * d <= -maxLsb
      BY <1>1
    <3> QED BY <1>1, <1>3, <2>2, <3>1
  <2>4. maxLsb * d >= 0 /\ maxLsb * d \in Int
    BY <1>1, <2>3
  <2> QED BY <1>1, <2>1, <2>2, <2>4
<1>6. Offset \in Int /\ prevMsb = Offset + tid0Poc - (tid0Poc % maxLsb)
  <2>1. prevMsb \in Int
    BY DEF CountType
  <2> QED BY <1>1, <1>3, <1>4, <2>1 DEF Offset
<1> QED BY <1>1, <1>2, <1>3, <1>4, <1>5, <1>6

(* What the counts of a stream span.                                       *)
LEMMA Spans ==
  ASSUME CountType, Wide, cvs # 0
  PROVE  /\ maxLsb <= MaxPoc + 1
         /\ cvs * maxLsb \in Int /\ cvs * (2 * maxLsb + MaxPoc) \in Int
         /\ (cvs - 1) * maxLsb = cvs * maxLsb - maxLsb
         /\ (cvs - 1) * (2 * maxLsb + MaxPoc)
              = cvs * (2 * maxLsb + MaxPoc) - (2 * maxLsb + MaxPoc)
         /\ cvs * maxLsb + MaxPoc <= IntHalf
         /\ cvs * (2 * maxLsb + MaxPoc) - 2 * maxLsb < IntHalf
         /\ cvs < MaxCvs => /\ cvs * maxLsb + maxLsb + MaxPoc <= IntHalf
                            /\ cvs * (2 * maxLsb + MaxPoc) + MaxPoc < IntHalf
<1> DEFINE span == 2 * maxLsb + MaxPoc
<1>1. /\ maxLsb \in Nat /\ MaxPoc \in Nat /\ MaxCvs \in Nat /\ cvs \in Nat /\ cvs <= MaxCvs
      /\ IntHalf \in Nat /\ span \in Nat
  BY Sizes, OrderAssumption
<1>2. /\ maxLsb <= MaxPoc + 1 /\ (MaxCvs - 1) * span + MaxPoc < IntHalf
      /\ MaxCvs * maxLsb + MaxPoc <= IntHalf
  BY DEF Wide, CountType
<1>8. span = 2 * maxLsb + MaxPoc
  OBVIOUS
<1> HIDE DEF span
<1>3. /\ (cvs - 1) * maxLsb = cvs * maxLsb - maxLsb /\ cvs * maxLsb \in Int
      /\ (cvs - 1) * span = cvs * span - span /\ cvs * span \in Int
  <2>1. cvs - 1 \in Int /\ maxLsb \in Int /\ span \in Int
    BY <1>1
  <2>2. (cvs - 1 + 1) * maxLsb = (cvs - 1) * maxLsb + maxLsb /\ (cvs - 1) * maxLsb \in Int
    BY <2>1, OneMore
  <2>3. (cvs - 1 + 1) * span = (cvs - 1) * span + span /\ (cvs - 1) * span \in Int
    BY <2>1, OneMore
  <2>4. cvs - 1 + 1 = cvs
    BY <1>1
  <2> QED BY <2>1, <2>2, <2>3, <2>4
<1>4. cvs * maxLsb <= MaxCvs * maxLsb /\ MaxCvs * maxLsb \in Nat
  BY <1>1, Product
<1>5. (cvs - 1) * span <= (MaxCvs - 1) * span /\ (MaxCvs - 1) * span \in Nat
  <2>1. cvs - 1 \in Nat /\ MaxCvs - 1 \in Nat /\ cvs - 1 <= MaxCvs - 1
    BY <1>1
  <2> QED BY <1>1, <2>1, Product
<1>6. ASSUME cvs < MaxCvs
      PROVE  cvs * maxLsb + maxLsb <= MaxCvs * maxLsb /\ cvs * span <= (MaxCvs - 1) * span
  <2>1. cvs + 1 \in Nat /\ cvs + 1 <= MaxCvs /\ MaxCvs - 1 \in Nat /\ cvs <= MaxCvs - 1
    BY <1>1, <1>6
  <2>2. (cvs + 1) * maxLsb = cvs * maxLsb + maxLsb
    BY <1>1, OneMore
  <2>3. (cvs + 1) * maxLsb <= MaxCvs * maxLsb /\ cvs * span <= (MaxCvs - 1) * span
    BY <1>1, <2>1, Product
  <2> QED BY <2>2, <2>3
<1>7. /\ cvs * maxLsb + MaxPoc <= IntHalf
      /\ cvs * span - span + MaxPoc < IntHalf
  BY <1>1, <1>2, <1>3, <1>4, <1>5
<1>9. cvs < MaxCvs => /\ cvs * maxLsb + maxLsb + MaxPoc <= IntHalf
                      /\ cvs * span + MaxPoc < IntHalf
  BY <1>1, <1>2, <1>3, <1>4, <1>5, <1>6
<1> QED BY <1>1, <1>2, <1>3, <1>7, <1>8, <1>9

LEMMA InWord ==
  ASSUME CountInv, Wide, cvs # 0, NEW x \in Int, -(MaxPoc + maxLsb) <= x, x <= MaxPoc
  PROVE  Wrapped(Offset + x) = Offset + x
<1>1. /\ -((cvs - 1) * maxLsb) <= Offset
      /\ Offset <= (cvs - 1) * (2 * maxLsb + MaxPoc)
  BY DEF CountInv, CountPlace
<1>2. CountType
  BY DEF CountInv
<1>3. Offset \in Int /\ MaxPoc \in Nat /\ maxLsb \in Nat /\ IntHalf \in Nat
  BY <1>2, Sizes, OrderAssumption
<1> DEFINE low == cvs * maxLsb  high == cvs * (2 * maxLsb + MaxPoc)
<1>4. /\ low \in Int /\ high \in Int
      /\ -(low - maxLsb) <= Offset /\ Offset <= high - (2 * maxLsb + MaxPoc)
      /\ low + MaxPoc <= IntHalf /\ high - 2 * maxLsb < IntHalf
  BY <1>1, <1>2, Spans
<1> HIDE DEF low, high
<1>5. -IntHalf <= Offset + x /\ Offset + x < IntHalf /\ Offset + x \in Int
  BY <1>3, <1>4
<1> QED BY <1>5, NotWrapped

(* The count that ihevcd_calc_poc gives a further picture of a sequence is *)
(* its POC, moved like all others of the sequence.                         *)
LEMMA NextCount ==
  ASSUME CountInv, Wide,
         NEW poc \in -MaxPoc .. MaxPoc, NEW anchor \in BOOLEAN, NextPic(poc, anchor)
  PROVE  /\ cvs # 0 /\ ~flushing /\ flushing' = flushing
         /\ prevMsb' = IF anchor THEN Offset + poc - (poc % maxLsb) ELSE prevMsb
         /\ prevLsb' = IF anchor THEN poc % maxLsb ELSE prevLsb
         /\ slicePoc' = Offset + poc /\ slicePoc - Offset \in sent /\ poc \notin sent
         /\ firstDone' = TRUE /\ ignored' = ignored
         /\ Bump(waiting \cup {[cvs |-> cvs, poc |-> poc, abs |-> Offset + poc]})
<1>0. CountType /\ CountPlace
  BY DEF CountInv
<1>1. cvs # 0 /\ firstDone /\ ~flushing /\ poc \notin sent
  BY <1>0 DEF NextPic, CountType
<1>2. /\ prevLsb = tid0Poc % maxLsb
      /\ slicePoc - Offset \in sent
  BY <1>0, <1>1 DEF CountPlace, NextPic
<1>3. /\ maxLsb \in Nat /\ maxLsb >= 4 /\ maxLsb % 4 = 0 /\ MaxPoc \in Nat /\ tid0Poc \in Int
      /\ prevMsb = Offset + tid0Poc - (tid0Poc % maxLsb) /\ Offset \in Int
      /\ tid0Poc % maxLsb \in Int
  BY <1>0, Sizes
<1>4. poc % maxLsb \in 0 .. maxLsb - 1 /\ poc \in Int
  <2>1. poc \in Int
    BY <1>3
  <2> QED BY <1>3, <2>1, Period
<1>5. poc - (poc % maxLsb) =
        IF (poc % maxLsb) < prevLsb /\ prevLsb - (poc % maxLsb) >= maxLsb \div 2
        THEN tid0Poc - prevLsb + maxLsb
        ELSE IF (poc % maxLsb) > prevLsb /\ (poc % maxLsb) - prevLsb > maxLsb \div 2
        THEN tid0Poc - prevLsb - maxLsb
        ELSE tid0Poc - prevLsb
  <2>1. poc - tid0Poc \in (1 - maxLsb \div 2) .. (maxLsb \div 2 - 1)
    BY DEF NextPic
  <2>2. maxLsb \in Nat /\ maxLsb >= 4 /\ maxLsb % 4 = 0 /\ tid0Poc \in Int /\ poc \in Int
    BY <1>3, <1>4
  <2> QED BY <1>2, <2>1, <2>2, NextPeriod
<1> DEFINE r == poc % maxLsb
           high == poc - r
<1>6. /\ r \in Nat /\ r < maxLsb /\ high \in Int /\ -(MaxPoc + maxLsb) <= high /\ high <= MaxPoc
      /\ high = poc - r /\ -(MaxPoc + maxLsb) <= poc /\ poc <= MaxPoc
  BY <1>3, <1>4
<1>7. Wrapped(Offset + high) = Offset + high
  <2> HIDE DEF high
  <2> QED BY <1>1, <1>6, InWord
<1>8. Wrapped(Offset + poc) = Offset + poc
  BY <1>1, <1>4, <1>6, InWord
<1>9. prevMsb + maxLsb = Offset + (tid0Poc - prevLsb + maxLsb)
      /\ prevMsb - maxLsb = Offset + (tid0Poc - prevLsb - maxLsb)
      /\ prevMsb = Offset + (tid0Poc - prevLsb)
  BY <1>2, <1>3
<1>10. ~StartsCount("TRAIL") /\ BaseMsb(maxLsb) = prevMsb
  BY <1>1 DEF StartsCount, BaseMsb
<1>11. PocMsb("TRAIL", r, maxLsb) = Offset + high
  <2>1. PocMsb("TRAIL", r, maxLsb) =
          IF r < prevLsb /\ prevLsb - r >= maxLsb \div 2 THEN Wrapped(prevMsb + maxLsb)
          ELSE IF r > prevLsb /\ r - prevLsb > maxLsb \div 2 THEN Wrapped(prevMsb - maxLsb)
          ELSE prevMsb
    BY <1>10 DEF PocMsb
  <2>2. high = IF r < prevLsb /\ prevLsb - r >= maxLsb \div 2 THEN tid0Poc - prevLsb + maxLsb
               ELSE IF r > prevLsb /\ r - prevLsb > maxLsb \div 2 THEN tid0Poc - prevLsb - maxLsb
               ELSE tid0Poc - prevLsb
    BY <1>5
  <2> HIDE DEF r, high
  <2>3. CASE r < prevLsb /\ prevLsb - r >= maxLsb \div 2
    BY <1>7, <1>9, <2>1, <2>2, <2>3
  <2>4. CASE /\ ~(r < prevLsb /\ prevLsb - r >= maxLsb \div 2)
             /\ (r > prevLsb /\ r - prevLsb > maxLsb \div 2)
    BY <1>7, <1>9, <2>1, <2>2, <2>4
  <2>5. CASE /\ ~(r < prevLsb /\ prevLsb - r >= maxLsb \div 2)
             /\ ~(r > prevLsb /\ r - prevLsb > maxLsb \div 2)
    BY <1>7, <1>9, <2>1, <2>2, <2>5
  <2> QED BY <2>3, <2>4, <2>5
<1>12. Wrapped(Offset + high + r) = Offset + poc
  <2>1. Offset + high + r = Offset + poc
    <3> HIDE DEF r, high
    <3> QED BY <1>3, <1>4, <1>6
  <2> QED BY <1>8, <2>1
<1>13. Offset + poc # slicePoc
  <2>1. slicePoc \in Int
    BY <1>0 DEF CountType
  <2>2. slicePoc - Offset # poc
    BY <1>1, <1>2
  <2> QED BY <1>3, <1>4, <2>1, <2>2
<1>14. Decode("TRAIL", cvs, poc, maxLsb, anchor)
  BY DEF NextPic
<1>15. /\ slicePoc' = Offset + poc /\ firstDone' = TRUE /\ ignored' = ignored
       /\ Bump(waiting \cup {[cvs |-> cvs, poc |-> poc, abs |-> Offset + poc]})
       /\ flushing' = flushing
  BY <1>11, <1>12, <1>13, <1>14 DEF Decode
<1>16. /\ prevMsb' = IF anchor THEN Offset + high ELSE prevMsb
       /\ prevLsb' = IF anchor THEN r ELSE prevLsb
  BY <1>10, <1>11, <1>14 DEF Decode
<1>17. Offset + high = Offset + poc - r
  <2> HIDE DEF r, high
  <2> QED BY <1>3, <1>4, <1>6
<1> QED BY <1>1, <1>2, <1>15, <1>16, <1>17

(* The start of a sequence moves the count on by two periods; a CRA        *)
(* picture after a flush is counted from the pictures before.              *)
LEMMA StartCount ==
  ASSUME CountInv, OneSize, Wide,
         NEW kind \in StartKinds, NEW max \in MaxLsbs, NEW lsb \in 0 .. max - 1,
         StartCvs(kind, max, lsb)
  PROVE  /\ max = maxLsb /\ cvs < MaxCvs /\ ~flushing /\ flushing' = flushing
         /\ prevMsb' \in Int /\ -(cvs * maxLsb) <= prevMsb'
         /\ prevMsb' <= cvs * (2 * maxLsb + MaxPoc)
         /\ prevLsb' = lsb /\ slicePoc' = prevMsb' + lsb /\ firstDone' = TRUE
         /\ StartsCount(kind) => prevMsb' = IF cvs = 0 THEN 0 ELSE prevMsb + 2 * maxLsb
         /\ ~StartsCount(kind) => kind = "CRA" /\ sent = {} /\ cvs # 0
         /\ \/ /\ ignored' = ignored
               /\ Bump(waiting \cup {[cvs |-> cvs + 1, poc |-> lsb, abs |-> prevMsb' + lsb]})
            \/ /\ ~StartsCount(kind)
               /\ ignored' = ignored \cup {[cvs |-> cvs + 1, poc |-> lsb, kind |-> kind]}
               /\ UNCHANGED <<backlog, waiting, lastOut>>
<1>0. CountType /\ CountPlace
  BY DEF CountInv
<1>1. max = maxLsb /\ cvs < MaxCvs /\ ~flushing
  BY <1>0 DEF StartCvs, OneSize, CountType
<1>2. /\ maxLsb \in Nat /\ maxLsb >= 4 /\ MaxPoc \in Nat /\ tid0Poc \in Nat
      /\ cvs \in Nat /\ MaxCvs \in Nat /\ tid0Poc <= MaxPoc
      /\ tid0Poc % maxLsb \in Nat /\ tid0Poc % maxLsb < maxLsb
      /\ tid0Poc % maxLsb <= tid0Poc
      /\ prevMsb = Offset + tid0Poc - (tid0Poc % maxLsb) /\ Offset \in Int
      /\ IntHalf \in Nat /\ prevMsb \in Int /\ slicePoc \in Int
  BY <1>0, Sizes, OrderAssumption DEF CountType
<1>3. lsb \in Nat /\ lsb < maxLsb
  BY <1>1, <1>2
<1>4. lsb % maxLsb = lsb
  BY <1>2, <1>3, SmallPeriod
<1> DEFINE msb == PocMsb(kind, lsb, maxLsb)
           first == IF cvs = 0 THEN 0 ELSE prevMsb + 2 * maxLsb
           low == cvs * maxLsb
           high == cvs * (2 * maxLsb + MaxPoc)
<1>5. Decode(kind, cvs + 1, lsb, maxLsb, TRUE)
  BY <1>1 DEF StartCvs
<1>6. prevMsb' = msb /\ prevLsb' = lsb /\ flushing' = flushing
  BY <1>4, <1>5 DEF Decode
<1>7. /\ low \in Int /\ high \in Int
      /\ maxLsb <= MaxPoc + 1
      /\ low + MaxPoc <= IntHalf
      /\ high + MaxPoc < IntHalf
      /\ cvs = 0 => low = 0 /\ high = 0
      /\ cvs # 0 => -low + maxLsb <= Offset /\ Offset <= high - (2 * maxLsb + MaxPoc)
  <2>1. CASE cvs # 0
    <3>1. /\ -((cvs - 1) * maxLsb) <= Offset
          /\ Offset <= (cvs - 1) * (2 * maxLsb + MaxPoc)
      BY <1>0, <2>1 DEF CountPlace
    <3>2. /\ low \in Int /\ high \in Int
          /\ (cvs - 1) * maxLsb = low - maxLsb
          /\ (cvs - 1) * (2 * maxLsb + MaxPoc) = high - (2 * maxLsb + MaxPoc)
          /\ low + MaxPoc <= IntHalf /\ high + MaxPoc < IntHalf
          /\ maxLsb <= MaxPoc + 1
      BY <1>0, <1>1, <2>1, Spans
    <3> HIDE DEF low, high
    <3> QED BY <1>2, <2>1, <3>1, <3>2
  <2>2. CASE cvs = 0
    <3>1. low = 0 /\ high = 0
      BY <1>2, <2>2
    <3>2. /\ maxLsb <= MaxPoc + 1 /\ (MaxCvs - 1) * (2 * maxLsb + MaxPoc) + MaxPoc < IntHalf
      BY <1>0 DEF Wide, CountType
    <3>3. MaxCvs - 1 \in Nat /\ 2 * maxLsb + MaxPoc \in Nat
      BY <1>1, <1>2, <2>2
    <3>4. (MaxCvs - 1) * (2 * maxLsb + MaxPoc) >= 0
      /\ (MaxCvs - 1) * (2 * maxLsb + MaxPoc) \in Nat
      BY <3>3
    <3> HIDE DEF low, high
    <3> QED BY <1>2, <2>2, <3>1, <3>2, <3>4
  <2> QED BY <2>1, <2>2
<1>8. /\ -low <= first /\ first <= high /\ first \in Int /\ first >= -low
      /\ cvs # 0 => -low <= prevMsb - maxLsb /\ prevMsb + maxLsb <= high
  <2> HIDE DEF low, high
  <2> QED BY <1>2, <1>7
<1>9. BaseMsb(maxLsb) + 2 * maxLsb = first
  <2>1. firstDone <=> cvs # 0
    BY <1>0 DEF CountType
  <2>2. CASE cvs = 0
    <3>1. BaseMsb(maxLsb) = -2 * maxLsb
      BY <2>1, <2>2 DEF BaseMsb
    <3>2. -2 * maxLsb + 2 * maxLsb = 0
      BY <1>2
    <3> QED BY <2>2, <3>1, <3>2
  <2>3. CASE cvs # 0
    BY <2>1, <2>3 DEF BaseMsb
  <2> QED BY <2>2, <2>3
<1>10. /\ Wrapped(first) = first
       /\ cvs # 0 => /\ Wrapped(prevMsb + maxLsb) = prevMsb + maxLsb
                     /\ Wrapped(prevMsb - maxLsb) = prevMsb - maxLsb
  <2> HIDE DEF low, high, first
  <2>1. \A x \in Int : -low <= x /\ x <= high => -IntHalf <= x /\ x < IntHalf
    BY <1>2, <1>7
  <2>2. \A x \in Int : -low <= x /\ x <= high => Wrapped(x) = x
    BY <2>1, NotWrapped
  <2>3. first \in Int /\ -low <= first /\ first <= high
    BY <1>8
  <2>4. CASE cvs # 0
    <3>1. /\ prevMsb + maxLsb \in Int /\ prevMsb - maxLsb \in Int
          /\ -low <= prevMsb + maxLsb /\ prevMsb + maxLsb <= high
          /\ -low <= prevMsb - maxLsb /\ prevMsb - maxLsb <= high
      BY <1>2, <1>7, <1>8, <2>4
    <3> QED BY <2>2, <2>3, <3>1
  <2> QED BY <2>2, <2>3, <2>4
<1>11. StartsCount(kind) => msb = first
  BY <1>9, <1>10 DEF PocMsb
<1>12. ~StartsCount(kind) =>
         /\ kind = "CRA" /\ sent = {} /\ cvs # 0
         /\ msb \in {prevMsb - maxLsb, prevMsb, prevMsb + maxLsb}
  <2> SUFFICES ASSUME ~StartsCount(kind)
               PROVE  /\ kind = "CRA" /\ sent = {} /\ cvs # 0
                      /\ msb \in {prevMsb - maxLsb, prevMsb, prevMsb + maxLsb}
    OBVIOUS
  <2>1. kind = "CRA" /\ firstDone
    BY OrderAssumption DEF StartsCount
  <2>2. cvs # 0
    BY <1>0, <2>1 DEF CountType
  <2>3. sent = {}
    BY <1>0, <2>1, <2>2 DEF StartCvs, CountType
  <2>4. msb \in {prevMsb - maxLsb, prevMsb, prevMsb + maxLsb}
    BY <1>10, <2>1, <2>2 DEF PocMsb, BaseMsb
  <2> QED BY <2>1, <2>2, <2>3, <2>4
<1>13. msb \in Int /\ -low <= msb /\ msb <= high
  <2> HIDE DEF low, high, first, msb
  <2>1. CASE StartsCount(kind)
    BY <1>8, <1>11, <2>1
  <2>2. CASE ~StartsCount(kind)
    BY <1>2, <1>7, <1>8, <1>12, <2>2
  <2> QED BY <2>1, <2>2
<1>14. Wrapped(msb + lsb) = msb + lsb
  <2> HIDE DEF low, high, first, msb
  <2>1. msb + lsb \in Int /\ -IntHalf <= msb + lsb /\ msb + lsb < IntHalf
    BY <1>2, <1>3, <1>7, <1>13
  <2> QED BY <2>1, NotWrapped
<1>15. StartsCount(kind) => msb + lsb # slicePoc
  <2> SUFFICES ASSUME StartsCount(kind) PROVE msb + lsb # slicePoc
    OBVIOUS
  <2>1. CASE cvs = 0
    <3>1. slicePoc = -1 /\ msb = 0
      BY <1>0, <1>11, <2>1 DEF CountType, NoPoc
    <3> QED BY <1>3, <3>1
  <2>2. CASE cvs # 0
    <3>1. slicePoc < prevMsb + 2 * maxLsb
      BY <1>0, <2>2 DEF CountPlace
    <3>2. msb = prevMsb + 2 * maxLsb
      BY <1>11, <2>2
    <3> HIDE DEF msb
    <3> QED BY <1>2, <1>3, <3>1, <3>2
  <2> QED BY <2>1, <2>2
<1>16. /\ slicePoc' = msb + lsb
       /\ \/ /\ ignored' = ignored /\ firstDone' = TRUE
             /\ Bump(waiting \cup {[cvs |-> cvs + 1, poc |-> lsb, abs |-> msb + lsb]})
          \/ /\ ~StartsCount(kind) /\ firstDone' = firstDone
             /\ ignored' = ignored \cup {[cvs |-> cvs + 1, poc |-> lsb, kind |-> kind]}
             /\ UNCHANGED <<backlog, waiting, lastOut>>
  <2> HIDE DEF low, high, first
  <2>1. CASE msb + lsb = slicePoc
    BY <1>4, <1>5, <1>14, <1>15, <2>1 DEF Decode
  <2>2. CASE msb + lsb # slicePoc
    BY <1>4, <1>5, <1>14, <2>2 DEF Decode
  <2> QED BY <2>1, <2>2
<1>17. firstDone' = TRUE
  BY <1>0, <1>12, <1>16 DEF CountType
<1> QED BY <1>1, <1>6, <1>11, <1>12, <1>13, <1>16, <1>17

LEMMA StartKeepsCount ==
  ASSUME CountInv, OneSize, Wide,
         NEW kind \in StartKinds, NEW max \in MaxLsbs, NEW lsb \in 0 .. max - 1,
         StartCvs(kind, max, lsb)
  PROVE  CountInv' /\ Offset' = prevMsb'
<1>1. /\ max = maxLsb /\ cvs < MaxCvs
      /\ prevMsb' \in Int /\ -(cvs * maxLsb) <= prevMsb'
      /\ prevMsb' <= cvs * (2 * maxLsb + MaxPoc)
      /\ prevLsb' = lsb /\ slicePoc' = prevMsb' + lsb /\ firstDone' = TRUE
      /\ ~StartsCount(kind) => kind = "CRA"
  BY StartCount
<1>2. CountType
  BY DEF CountInv
<1>3. /\ maxLsb \in Nat /\ maxLsb >= 4 /\ MaxPoc \in Nat /\ cvs \in Nat /\ MaxCvs \in Nat
  BY <1>2, Sizes
<1>4. maxLsb <= MaxPoc + 1 /\ maxLsb \in MaxLsbs
  BY <1>2 DEF Wide, CountType
<1>5. lsb \in Nat /\ lsb < maxLsb /\ lsb <= MaxPoc /\ lsb % maxLsb = lsb
  <2>1. lsb \in Nat /\ lsb < maxLsb
    BY <1>1, <1>3
  <2> QED BY <1>3, <1>4, <2>1, SmallPeriod
<1>6. /\ cvs' = cvs + 1 /\ maxLsb' = maxLsb /\ firstPoc' = lsb /\ tid0Poc' = lsb
      /\ sent' = {lsb}
  BY <1>1 DEF StartCvs
<1>7. CountType'
  <2>1. prevLsb' \in Int /\ slicePoc' \in Int
    BY <1>1, <1>5
  <2>2. cvs' \in 0 .. MaxCvs /\ cvs' # 0
    BY <1>1, <1>3, <1>6
  <2>3. /\ maxLsb' \in MaxLsbs /\ firstPoc' \in 0 .. maxLsb' - 1
        /\ tid0Poc' \in firstPoc' .. MaxPoc /\ sent' \subseteq -MaxPoc .. MaxPoc
    BY <1>3, <1>4, <1>5, <1>6
  <2> QED BY <1>1, <2>1, <2>2, <2>3 DEF CountType
<1>8. Offset' = prevMsb'
  <2>1. Offset' = prevMsb' - (lsb - (lsb % maxLsb))
    BY <1>6 DEF Offset
  <2> QED BY <1>1, <1>5, <2>1
<1>9. CountPlace'
  <2>1. /\ (cvs' - 1) = cvs
        /\ prevLsb' = (tid0Poc % maxLsb)'
    BY <1>1, <1>3, <1>5, <1>6
  <2>2. slicePoc' < prevMsb' + 2 * maxLsb' /\ slicePoc' - Offset' = lsb
    <3>1. PICK b \in Int : b = prevMsb'
      BY <1>1
    <3>2. b + lsb < b + 2 * maxLsb /\ (b + lsb) - b = lsb
      BY <1>3, <1>5
    <3>3. slicePoc' = b + lsb /\ Offset' = b /\ maxLsb' = maxLsb
      BY <1>1, <1>6, <1>8, <3>1
    <3>4. slicePoc' < b + 2 * maxLsb'
      BY <3>2, <3>3, Zenon
    <3>5. slicePoc' - Offset' = lsb
      BY <3>2, <3>3, Zenon
    <3> QED BY <3>1, <3>4, <3>5, Zenon
  <2>3. /\ -((cvs' - 1) * maxLsb') <= Offset'
        /\ Offset' <= (cvs' - 1) * (2 * maxLsb' + MaxPoc)
    BY <1>1, <1>3, <1>6, <1>8, <2>1
  <2> QED BY <1>6, <2>1, <2>2, <2>3 DEF CountPlace
<1>10. OnlyAfterSeekIgnored'
  <2>1. \/ ignored' = ignored
        \/ kind = "CRA" /\ ignored' = ignored \cup {[cvs |-> cvs + 1, poc |-> lsb, kind |-> kind]}
    BY StartCount
  <2> QED BY <2>1 DEF CountInv, OnlyAfterSeekIgnored
<1> QED BY <1>7, <1>8, <1>9, <1>10 DEF CountInv

LEMMA NextKeepsCount ==
  ASSUME CountInv, Wide,
         NEW poc \in -MaxPoc .. MaxPoc, NEW anchor \in BOOLEAN, NextPic(poc, anchor)
  PROVE  CountInv' /\ Offset' = Offset
<1>1. /\ cvs # 0
      /\ prevMsb' = IF anchor THEN Offset + poc - (poc % maxLsb) ELSE prevMsb
      /\ prevLsb' = IF anchor THEN poc % maxLsb ELSE prevLsb
      /\ slicePoc' = Offset + poc /\ firstDone' = TRUE /\ ignored' = ignored
  BY NextCount
<1>2. CountType /\ CountPlace
  BY DEF CountInv
<1>3. /\ maxLsb \in Nat /\ maxLsb >= 4 /\ MaxPoc \in Nat /\ cvs \in Nat
      /\ Half \in Nat /\ 2 * Half = maxLsb
      /\ tid0Poc \in Nat /\ firstPoc \in Nat /\ tid0Poc % maxLsb \in Int
      /\ tid0Poc % maxLsb < maxLsb
      /\ Offset \in Int /\ prevMsb = Offset + tid0Poc - (tid0Poc % maxLsb)
  BY <1>2, Sizes
<1>4. poc \in Int /\ poc % maxLsb \in 0 .. maxLsb - 1
  <2>1. poc \in Int
    BY <1>3
  <2> QED BY <1>3, <2>1, Period
<1>5. /\ cvs' = cvs /\ maxLsb' = maxLsb /\ firstPoc' = firstPoc /\ sent' = sent \cup {poc}
      /\ tid0Poc' = IF anchor THEN poc ELSE tid0Poc
      /\ anchor => poc > firstPoc
      /\ poc - tid0Poc < Half
  <2>1. poc - tid0Poc \in (1 - Half) .. (Half - 1)
    BY DEF NextPic, Half
  <2>2. poc - tid0Poc < Half
    BY <1>3, <1>4, <2>1
  <2> QED BY <2>2 DEF NextPic
<1>6. prevMsb' \in Int /\ prevLsb' \in Int /\ slicePoc' \in Int
  BY <1>1, <1>2, <1>3, <1>4 DEF CountType
<1>7. tid0Poc' \in firstPoc .. MaxPoc
  BY <1>2, <1>3, <1>4, <1>5 DEF CountType
<1>8. CountType'
  <2>1. firstDone' = (cvs' # 0)
    BY <1>1, <1>5
  <2>2. sent' \subseteq -MaxPoc .. MaxPoc
    BY <1>2, <1>5 DEF CountType
  <2> QED BY <1>1, <1>2, <1>5, <1>6, <1>7, <2>1, <2>2 DEF CountType
<1>9. Offset' = Offset
  <2>1. CASE anchor
    <3>1. PICK x \in Int : x = Offset
      BY <1>3
    <3>2. prevMsb' = x + poc - (poc % maxLsb) /\ tid0Poc' = poc /\ maxLsb' = maxLsb
      BY <1>1, <1>5, <2>1, <3>1
    <3>3. Offset' = x + poc - (poc % maxLsb) - (poc - (poc % maxLsb))
      BY <1>3, <1>4, <3>2 DEF Offset
    <3> QED BY <1>3, <1>4, <3>1, <3>3
  <2>2. CASE ~anchor
    BY <1>1, <1>5, <2>2 DEF Offset
  <2> QED BY <2>1, <2>2
<1>10. CountPlace'
  <2>1. prevLsb' = (tid0Poc % maxLsb)'
    BY <1>1, <1>2, <1>5 DEF CountPlace
  <2>2. slicePoc' < prevMsb' + 2 * maxLsb
    <3>1. CASE anchor
      BY <1>1, <1>3, <1>4, <3>1
    <3>2. CASE ~anchor
      BY <1>1, <1>3, <1>4, <1>5, <3>2
    <3> QED BY <3>1, <3>2
  <2>3. slicePoc' - Offset' \in sent'
    <3>1. slicePoc' - Offset' = poc
      BY <1>1, <1>3, <1>4, <1>9
    <3> QED BY <1>5, <3>1
  <2> QED BY <1>1, <1>2, <1>5, <1>9, <2>1, <2>2, <2>3 DEF CountPlace
<1> QED BY <1>1, <1>8, <1>9, <1>10 DEF CountInv, OnlyAfterSeekIgnored

LEMMA FlushKeepsCount ==
  ASSUME CountInv, Flush \/ FlushOut \/ UNCHANGED vars
  PROVE  CountInv' /\ Offset' = Offset
<1>1. /\ UNCHANGED <<cvs, maxLsb, firstPoc, tid0Poc, firstDone, prevMsb, prevLsb, slicePoc,
                  ignored>>
      /\ sent' = sent \/ sent' = {}
  BY DEF Flush, FlushOut, vars, streamVars, pocVars, outVars
<1>2. Offset' = Offset
  BY <1>1 DEF Offset
<1> QED BY <1>1, <1>2 DEF CountInv, CountType, CountPlace, OnlyAfterSeekIgnored

LEMMA CountNext == OneSize /\ Wide /\ CountInv /\ [Next]_vars => CountInv'
<1> SUFFICES ASSUME OneSize, Wide, CountInv, [Next]_vars PROVE CountInv'
  OBVIOUS
<1>1. ASSUME NEW kind \in StartKinds, NEW max \in MaxLsbs, NEW lsb \in 0 .. max - 1,
             StartCvs(kind, max, lsb)
      PROVE  CountInv'
  BY <1>1, StartKeepsCount
<1>2. ASSUME NEW poc \in -MaxPoc .. MaxPoc, NEW anchor \in BOOLEAN, NextPic(poc, anchor)
      PROVE  CountInv'
  BY <1>2, NextKeepsCount
<1> QED BY <1>1, <1>2, FlushKeepsCount DEF Next

LEMMA CountInit == Init /\ Wide => CountInv
<1> SUFFICES ASSUME Init, Wide PROVE CountInv
  OBVIOUS
<1>1. maxLsb \in MaxLsbs /\ maxLsb \in Nat /\ maxLsb >= 4 /\ MaxPoc \in Nat /\ MaxCvs \in Nat
  BY OrderAssumption DEF Init
<1>2. CountType
  <2>1. /\ cvs \in 0 .. MaxCvs /\ firstPoc \in 0 .. maxLsb - 1 /\ tid0Poc \in firstPoc .. MaxPoc
        /\ sent = {} /\ prevMsb \in Int /\ prevLsb \in Int /\ slicePoc \in Int
    BY <1>1 DEF Init, NoPoc
  <2>2. firstDone = (cvs # 0)
    BY DEF Init
  <2> QED BY <1>1, <2>1, <2>2 DEF Init, CountType
<1> QED BY <1>2 DEF Init, CountInv, CountPlace, OnlyAfterSeekIgnored

(* If the sequences share their low bits and the counts fit a WORD32, the  *)
(* only pictures that the decoder takes for repetitions are CRA pictures   *)
(* after a flush, for every period, number and length of sequences: every  *)
(* other start of a sequence passes the count of the last picture decoded, *)
(* and within a sequence the counts differ as the POCs do.                 *)
THEOREM RepetitionsRight == OneSize /\ Wide /\ Spec => []OnlyAfterSeekIgnored
<1> SUFFICES ASSUME OneSize, Wide PROVE Spec => []OnlyAfterSeekIgnored
  OBVIOUS
<1>1. CountInv => OnlyAfterSeekIgnored
  BY DEF CountInv
<1>2. Init => CountInv
  BY CountInit
<1>3. CountInv /\ [Next]_vars => CountInv'
  BY CountNext
<1> QED BY <1>1, <1>2, <1>3, PTL DEF Spec

-----------------------------------------------------------------------------
(* The order of output.  Two periods pass all pictures of the sequence     *)
(* before, and the leading pictures of the next one too, as long as no     *)
(* picture sent lies too far above the last reference picture of layer 0.  *)

NoDeepStep == \A q \in sent : q < tid0Poc - (tid0Poc % maxLsb) + 3 * Half + 1

(* The waiting pictures of the current sequence are counted from Offset,   *)
(* those of earlier ones are below any leading picture.                    *)
ItemInv ==
  \A p \in waiting :
    /\ p.cvs \in 1 .. cvs /\ p.poc \in Int /\ p.abs \in Int
    /\ p.cvs = cvs => p.abs = Offset + p.poc /\ (sent # {} => p.poc \in sent)
    /\ p.cvs < cvs => p.abs < Offset + firstPoc + 1 - Half

(* The count orders the pictures S as the stream means them.               *)
Ordered(S) ==
  \A p, q \in S :
    /\ p # q => Before(p, q) \/ Before(q, p)
    /\ Before(p, q) => p.abs < q.abs

(* What has gone out is before all that waits; if it is of the current     *)
(* sequence, as many pictures wait as are reordered, until a flush.        *)
LastInv ==
  /\ lastOut.cvs \in 0 .. cvs /\ lastOut.poc \in Int
  /\ \A p \in waiting : Before(lastOut, p)
  /\ lastOut.cvs = cvs /\ sent # {} => backlog = reorder /\ lastOut.poc \in sent

FlushInv ==
  /\ flushing \in BOOLEAN
  /\ Cardinality(waiting) = backlog \/ flushing
  /\ flushing => sent = {} /\ backlog = 0
  /\ ~flushing /\ sent = {} => waiting = {}

OrderInv == CountInv /\ WaitInv /\ ItemInv /\ Ordered(waiting) /\ LastInv /\ FlushInv

LowestFirst(p, S) ==
  /\ p \in S /\ \A q \in S : p.abs <= q.abs
  /\ waiting' = S \ {p}
  /\ lastOut' = [cvs |-> p.cvs, poc |-> p.poc]

(* The picture that goes out is before those that stay.                    *)
LEMMA OutOrder ==
  ASSUME NEW S, \A p \in S : p.cvs \in Int /\ p.poc \in Int /\ p.abs \in Int,
         Ordered(S), \A p \in S : Before(lastOut, p),
         NEW p, LowestFirst(p, S)
  PROVE  /\ Ordered(waiting')
         /\ \A q \in waiting' : Before(lastOut', q)
         /\ Before(lastOut, lastOut')
<1>1. p \in S /\ waiting' = S \ {p} /\ lastOut' = [cvs |-> p.cvs, poc |-> p.poc]
  BY DEF LowestFirst
<1>2. Ordered(waiting')
  BY <1>1 DEF Ordered
<1>3. ASSUME NEW q \in waiting' PROVE Before(lastOut', q)
  <2>1. q \in S /\ q # p /\ p.abs <= q.abs
    BY <1>1, <1>3 DEF LowestFirst
  <2>2. ~Before(q, p)
    <3>1. p.abs \in Int /\ q.abs \in Int
      BY <1>1, <2>1
    <3>2. Before(q, p) => q.abs < p.abs
      BY <1>1, <2>1 DEF Ordered
    <3> QED BY <2>1, <3>1, <3>2
  <2>3. Before(p, q)
    BY <1>1, <2>1, <2>2 DEF Ordered
  <2> QED BY <1>1, <2>3 DEF Before
<1>4. Before(lastOut, lastOut')
  <2>1. Before(lastOut, p)
    BY <1>1
  <2> QED BY <1>1, <2>1 DEF Before
<1> QED BY <1>2, <1>3, <1>4

(* Bump, in terms of the above.                                            *)
LEMMA BumpCases ==
  ASSUME NEW S, Bump(S)
  PROVE  \/ backlog >= reorder /\ backlog' = backlog /\ \E p \in S : LowestFirst(p, S)
         \/ /\ ~(backlog >= reorder)
            /\ waiting' = S /\ backlog' = backlog + 1 /\ lastOut' = lastOut
BY DEF Bump, LowestFirst

LEMMA BumpOrder ==
  ASSUME WaitInv, ~flushing, Cardinality(waiting) = backlog,
         NEW new, new \notin waiting,
         \A p \in waiting \cup {new} : p.cvs \in Int /\ p.poc \in Int /\ p.abs \in Int,
         Ordered(waiting \cup {new}),
         \A p \in waiting \cup {new} : Before(lastOut, p),
         Bump(waiting \cup {new})
  PROVE  /\ Ordered(waiting')
         /\ \A q \in waiting' : Before(lastOut', q)
         /\ waiting' \subseteq waiting \cup {new}
         /\ Cardinality(waiting') = backlog'
         /\ \/ lastOut' = lastOut /\ backlog # reorder
            \/ /\ Before(lastOut, lastOut') /\ backlog' = reorder
               /\ \E p \in waiting \cup {new} : lastOut' = [cvs |-> p.cvs, poc |-> p.poc]
<1> DEFINE S == waiting \cup {new}
<1>1. IsFiniteSet(S) /\ Cardinality(S) = backlog + 1 /\ backlog \in Nat /\ reorder \in Nat
      /\ backlog <= reorder
  BY FS_AddElement, FS_CardinalityType DEF WaitInv
<1>2. CASE backlog >= reorder /\ backlog' = backlog /\ \E p \in S : LowestFirst(p, S)
  <2>1. PICK p \in S : LowestFirst(p, S)
    BY <1>2
  <2>2. waiting' = S \ {p} /\ lastOut' = [cvs |-> p.cvs, poc |-> p.poc]
    BY <2>1 DEF LowestFirst
  <2>3. Cardinality(waiting') = backlog'
    <3>1. Cardinality(S \ {p}) = Cardinality(S) - 1
      BY <1>1, <2>1, FS_RemoveElement
    <3> QED BY <1>1, <1>2, <2>2, <3>1
  <2>4. /\ Ordered(waiting')
        /\ \A q \in waiting' : Before(lastOut', q)
        /\ Before(lastOut, lastOut')
    <3> HIDE DEF S
    <3>1. /\ \A q \in S : q.cvs \in Int /\ q.poc \in Int /\ q.abs \in Int
          /\ Ordered(S) /\ \A q \in S : Before(lastOut, q)
      BY DEF S
    <3> QED BY <2>1, <3>1, OutOrder
  <2>5. backlog' = reorder
    BY <1>1, <1>2
  <2> QED BY <2>2, <2>3, <2>4, <2>5
<1>3. CASE /\ ~(backlog >= reorder)
           /\ waiting' = S /\ backlog' = backlog + 1 /\ lastOut' = lastOut
  BY <1>1, <1>3 DEF Ordered
<1> QED BY <1>2, <1>3, BumpCases

(* A picture that is sent late would have too many of its sequence before  *)
(* it that are shown after it.                                             *)
LEMMA NoneOutLater ==
  ASSUME OrderInv, NEW poc \in -MaxPoc .. MaxPoc, NEW anchor \in BOOLEAN,
         NextPic(poc, anchor), lastOut.cvs = cvs
  PROVE  lastOut.poc < poc
<1> DEFINE last == lastOut.poc
           later == {q \in sent : q > poc}
<1>1. /\ poc \notin sent /\ sent # {} /\ ~flushing
      /\ Cardinality(later) <= reorder
  BY DEF NextPic
<1>2. /\ backlog = reorder /\ last \in sent /\ last \in Int /\ reorder \in Nat
      /\ Cardinality(waiting) = reorder
  BY <1>1 DEF OrderInv, LastInv, FlushInv, WaitInv
<1>3. poc \in Int /\ sent \subseteq -MaxPoc .. MaxPoc /\ MaxPoc \in Nat
  BY OrderAssumption DEF OrderInv, CountInv, CountType
<1>4. IsFiniteSet(later)
  <2>1. IsFiniteSet(-MaxPoc .. MaxPoc)
    BY <1>3, FS_Interval
  <2>2. later \in SUBSET (-MaxPoc .. MaxPoc)
    BY <1>3
  <2> QED BY <2>1, <2>2, FS_Subset
<1>5. ASSUME NEW p \in waiting
      PROVE  p.cvs = cvs /\ p.poc > last /\ p.poc \in sent /\ p.poc \in Int
  <2>1. /\ p.cvs \in 1 .. cvs /\ p.poc \in Int /\ cvs \in Nat
        /\ p.cvs = cvs => p.poc \in sent
    BY <1>1, OrderAssumption DEF OrderInv, ItemInv, CountInv, CountType
  <2>2. Before(lastOut, p)
    BY DEF OrderInv, LastInv
  <2>3. ~(lastOut.cvs < p.cvs)
    BY <2>1
  <2> QED BY <1>2, <2>1, <2>2, <2>3 DEF Before
<1>6. CASE poc < last
  <2> DEFINE rest == later \ {last}
             f == [p \in waiting |-> p.poc]
  <2>1. last \in later
    BY <1>2, <1>6
  <2>2. IsFiniteSet(rest) /\ Cardinality(rest) = Cardinality(later) - 1
        /\ Cardinality(later) \in Nat
    BY <1>4, <2>1, FS_RemoveElement, FS_CardinalityType
  <2>3. \A p \in waiting : f[p] \in rest
    BY <1>2, <1>3, <1>5, <1>6
  <2>4. \A p, q \in waiting : p # q => f[p] # f[q]
    <3> SUFFICES ASSUME NEW p \in waiting, NEW q \in waiting, p # q PROVE p.poc # q.poc
      OBVIOUS
    <3>1. Before(p, q) \/ Before(q, p)
      BY DEF OrderInv, Ordered
    <3>2. /\ p.cvs = cvs /\ q.cvs = cvs /\ p.poc \in Int /\ q.poc \in Int
          /\ cvs \in Int
      BY <1>5 DEF OrderInv, CountInv, CountType
    <3> QED BY <3>1, <3>2 DEF Before
  <2>5. f \in Injection(waiting, rest)
    BY <2>3, <2>4 DEF Injection, IsInjective
  <2>6. Cardinality(waiting) <= Cardinality(rest)
    BY <2>2, <2>5, FS_Injection
  <2> QED BY <1>1, <1>2, <2>2, <2>6
<1> QED BY <1>1, <1>2, <1>3, <1>6

(* A further picture of a sequence.                                        *)
LEMMA NextOrder ==
  ASSUME OrderInv, Wide,
         NEW poc \in -MaxPoc .. MaxPoc, NEW anchor \in BOOLEAN, NextPic(poc, anchor)
  PROVE  /\ ItemInv' /\ Ordered(waiting)' /\ LastInv' /\ FlushInv'
         /\ lastOut' # lastOut => Before(lastOut, lastOut')
<1> DEFINE new == [cvs |-> cvs, poc |-> poc, abs |-> Offset + poc]
           S == waiting \cup {new}
<1>1. CountInv /\ CountType /\ WaitInv /\ ItemInv /\ Ordered(waiting) /\ LastInv /\ FlushInv
  BY DEF OrderInv, CountInv
<1>2. /\ cvs # 0 /\ ~flushing /\ flushing' = flushing /\ poc \notin sent
      /\ Bump(S) /\ Offset' = Offset
  BY <1>1, NextCount, NextKeepsCount
<1>3. /\ cvs' = cvs /\ maxLsb' = maxLsb /\ firstPoc' = firstPoc /\ reorder' = reorder
      /\ sent' = sent \cup {poc} /\ sent # {}
  BY DEF NextPic
<1>4. /\ cvs \in Nat /\ cvs >= 1 /\ poc \in Int /\ Offset \in Int /\ firstPoc \in Nat
      /\ Half \in Nat /\ tid0Poc \in Nat /\ firstPoc <= tid0Poc
  BY <1>1, <1>2, Sizes
<1>5. poc >= firstPoc + 1 - Half
  <2>1. poc - tid0Poc \in (1 - Half) .. (Half - 1)
    BY DEF NextPic, Half
  <2>2. poc - tid0Poc >= 1 - Half
    BY <1>4, <2>1
  <2> QED BY <1>4, <2>2
<1>6. /\ new.cvs = cvs /\ new.poc = poc /\ new.abs = Offset + poc /\ new.abs \in Int
  BY <1>4
<1>7. \A p \in waiting :
        /\ p.cvs \in Int /\ p.poc \in Int /\ p.abs \in Int
        /\ p.cvs >= 1 /\ p.cvs <= cvs
        /\ p.cvs = cvs => p.abs = Offset + p.poc /\ p.poc \in sent
        /\ p.cvs < cvs => p.abs < Offset + firstPoc + 1 - Half
  BY <1>1, <1>3, <1>4 DEF ItemInv
<1>8. Half' = Half
  BY <1>3 DEF Half
<1> HIDE DEF new
<1>9. new \notin waiting
  BY <1>2, <1>6, <1>7
<1>10. \A p \in S : p.cvs \in Int /\ p.poc \in Int /\ p.abs \in Int
  BY <1>4, <1>6, <1>7
<1>11. ASSUME NEW p \in waiting
       PROVE  /\ Before(p, new) \/ Before(new, p)
              /\ Before(p, new) => p.abs < new.abs
              /\ Before(new, p) => new.abs < p.abs
  <2>1. CASE p.cvs = cvs
    <3>1. p.poc # poc /\ p.abs = Offset + p.poc /\ p.poc \in Int
      BY <1>2, <1>7, <2>1
    <3> QED BY <1>4, <1>6, <2>1, <3>1 DEF Before
  <2>2. CASE p.cvs < cvs
    <3>1. p.abs < Offset + firstPoc + 1 - Half /\ p.abs \in Int /\ p.cvs \in Int
      BY <1>7, <2>2
    <3>2. p.abs < new.abs
      BY <1>4, <1>5, <1>6, <3>1
    <3> QED BY <1>4, <1>6, <2>2, <3>1, <3>2 DEF Before
  <2>3. p.cvs = cvs \/ p.cvs < cvs
    BY <1>4, <1>7
  <2> QED BY <2>1, <2>2, <2>3
<1>12. ~Before(new, new)
  BY <1>4, <1>6 DEF Before
<1>13. Ordered(S)
  BY <1>1, <1>11, <1>12 DEF Ordered
<1>14. Before(lastOut, new)
  <2>1. lastOut.cvs \in Int /\ lastOut.cvs <= cvs /\ lastOut.poc \in Int
    BY <1>1, <1>4 DEF LastInv
  <2>2. lastOut.cvs = cvs => lastOut.poc < poc
    BY NoneOutLater
  <2> QED BY <1>4, <1>6, <2>1, <2>2 DEF Before
<1>15. \A p \in S : Before(lastOut, p)
  BY <1>1, <1>14 DEF LastInv
<1>16. Cardinality(waiting) = backlog
  BY <1>1, <1>2 DEF FlushInv
<1>17. /\ Ordered(waiting')
       /\ \A q \in waiting' : Before(lastOut', q)
       /\ waiting' \subseteq S
       /\ Cardinality(waiting') = backlog'
       /\ \/ lastOut' = lastOut /\ backlog # reorder
          \/ /\ Before(lastOut, lastOut') /\ backlog' = reorder
             /\ \E p \in S : lastOut' = [cvs |-> p.cvs, poc |-> p.poc]
  BY <1>1, <1>2, <1>9, <1>10, <1>13, <1>15, <1>16, BumpOrder
<1>18. Ordered(waiting)'
  BY <1>17 DEF Ordered, Before
<1>19. ItemInv'
  <2> SUFFICES ASSUME NEW p \in S
               PROVE  /\ p.cvs \in 1 .. cvs /\ p.poc \in Int /\ p.abs \in Int
                      /\ p.cvs = cvs => p.abs = Offset + p.poc /\ p.poc \in sent \cup {poc}
                      /\ p.cvs < cvs => p.abs < Offset + firstPoc + 1 - Half
    BY <1>2, <1>3, <1>8, <1>17 DEF ItemInv
  <2>1. CASE p = new
    BY <1>4, <1>6, <2>1
  <2>2. CASE p \in waiting
    <3>1. p.cvs \in 1 .. cvs
      BY <1>1, <2>2 DEF ItemInv
    <3> QED BY <1>7, <2>2, <3>1
  <2> QED BY <2>1, <2>2
<1>20. LastInv'
  <2>1. CASE lastOut' = lastOut /\ backlog # reorder
    <3>1. lastOut.cvs # cvs
      BY <1>1, <1>3, <2>1 DEF LastInv
    <3> QED BY <1>1, <1>3, <1>17, <2>1, <3>1 DEF LastInv, Before
  <2>2. CASE /\ backlog' = reorder
             /\ \E p \in S : lastOut' = [cvs |-> p.cvs, poc |-> p.poc]
    <3>1. PICK p \in S : lastOut' = [cvs |-> p.cvs, poc |-> p.poc]
      BY <2>2
    <3>2. p.cvs \in 0 .. cvs /\ p.poc \in Int /\ (p.cvs = cvs => p.poc \in sent')
      BY <1>3, <1>4, <1>6, <1>7
    <3>3. lastOut'.cvs = p.cvs /\ lastOut'.poc = p.poc
      BY <3>1
    <3> QED BY <1>3, <1>17, <2>2, <3>2, <3>3 DEF LastInv, Before
  <2> QED BY <1>17, <2>1, <2>2
<1>21. FlushInv'
  BY <1>1, <1>2, <1>3, <1>17 DEF FlushInv
<1> QED BY <1>17, <1>18, <1>19, <1>20, <1>21

(* A sequence starts: all that waits is below its first picture, and below *)
(* the lowest leading picture that may follow it.                          *)
LEMMA StartOrder ==
  ASSUME OrderInv, OneSize, Wide, NoDeepStep,
         NEW kind \in StartKinds, NEW max \in MaxLsbs, NEW lsb \in 0 .. max - 1,
         StartCvs(kind, max, lsb)
  PROVE  /\ ItemInv' /\ Ordered(waiting)' /\ LastInv' /\ FlushInv'
         /\ lastOut' # lastOut => Before(lastOut, lastOut')
<1> DEFINE new == [cvs |-> cvs + 1, poc |-> lsb, abs |-> prevMsb' + lsb]
           S == waiting \cup {new}
<1>1. CountInv /\ CountType /\ WaitInv /\ ItemInv /\ Ordered(waiting) /\ LastInv /\ FlushInv
  BY DEF OrderInv, CountInv
<1>2. /\ max = maxLsb /\ ~flushing /\ flushing' = flushing /\ prevMsb' \in Int
      /\ Offset' = prevMsb'
      /\ StartsCount(kind) => prevMsb' = IF cvs = 0 THEN 0 ELSE prevMsb + 2 * maxLsb
      /\ ~StartsCount(kind) => sent = {}
      /\ \/ Bump(S)
         \/ ~StartsCount(kind) /\ UNCHANGED <<backlog, waiting, lastOut>>
  BY <1>1, StartCount, StartKeepsCount
<1>3. /\ cvs' = cvs + 1 /\ maxLsb' = maxLsb /\ firstPoc' = lsb /\ reorder' = reorder
      /\ sent' = {lsb}
  BY <1>2 DEF StartCvs
<1>4. /\ cvs \in Nat /\ Offset \in Int /\ firstPoc \in Nat /\ maxLsb \in Nat
      /\ Half \in Nat /\ 2 * Half = maxLsb /\ Half >= 2
      /\ tid0Poc \in Nat /\ firstPoc <= tid0Poc
      /\ tid0Poc % maxLsb \in Int /\ tid0Poc % maxLsb < maxLsb
      /\ prevMsb = Offset + tid0Poc - (tid0Poc % maxLsb)
  BY <1>1, Sizes
<1>5. lsb \in Nat
  BY <1>2, <1>4
<1>6. Half' = Half
  BY <1>3 DEF Half
<1>7. sent = {} => waiting = {}
  BY <1>1, <1>2 DEF FlushInv
<1>8. ASSUME NEW p \in waiting
      PROVE  /\ p.cvs \in 1 .. cvs /\ p.poc \in Int /\ p.abs \in Int
             /\ p.abs < prevMsb' + lsb + 1 - Half
  <2>1. /\ p.cvs \in 1 .. cvs /\ p.poc \in Int /\ p.abs \in Int /\ p.cvs \in Int
        /\ p.cvs = cvs => p.abs = Offset + p.poc /\ (sent # {} => p.poc \in sent)
        /\ p.cvs < cvs => p.abs < Offset + firstPoc + 1 - Half
    BY <1>1, <1>4 DEF ItemInv
  <2>2. sent # {} /\ cvs # 0
    BY <1>4, <1>7, <2>1
  <2>3. prevMsb' = prevMsb + 2 * maxLsb
    BY <1>2, <2>2
  <2>4. prevMsb' = Offset + tid0Poc - (tid0Poc % maxLsb) + 4 * Half
    BY <1>4, <2>3
  <2>5. CASE p.cvs = cvs
    <3>1. p.abs = Offset + p.poc /\ p.poc \in sent
      BY <2>1, <2>2, <2>5
    <3>2. p.poc < tid0Poc - (tid0Poc % maxLsb) + 3 * Half + 1
      BY <3>1 DEF NoDeepStep
    <3>3. Offset + p.poc < Offset + tid0Poc - (tid0Poc % maxLsb) + 4 * Half + lsb + 1 - Half
      BY <1>4, <1>5, <2>1, <3>2
    <3> QED BY <2>1, <2>4, <3>1, <3>3
  <2>6. CASE p.cvs < cvs
    <3>1. p.abs < Offset + firstPoc + 1 - Half
      BY <2>1, <2>6
    <3>2. Offset + firstPoc + 1 - Half
            <= Offset + tid0Poc - (tid0Poc % maxLsb) + 4 * Half + lsb + 1 - Half
      BY <1>4, <1>5
    <3>3. Offset + tid0Poc - (tid0Poc % maxLsb) \in Int
      BY <1>4
    <3> QED BY <1>4, <1>5, <2>1, <2>4, <3>1, <3>2, <3>3
  <2>7. p.cvs = cvs \/ p.cvs < cvs
    BY <1>4, <2>1
  <2> QED BY <2>1, <2>5, <2>6, <2>7
<1>9. /\ new.cvs = cvs + 1 /\ new.poc = lsb /\ new.abs = prevMsb' + lsb /\ new.abs \in Int
  BY <1>2, <1>5
<1> HIDE DEF new
<1>10. \A p \in waiting : /\ p.cvs \in Int /\ p.poc \in Int /\ p.abs \in Int
                          /\ p.cvs < cvs + 1 /\ p.abs < new.abs
  <2> SUFFICES ASSUME NEW p \in waiting
               PROVE  /\ p.cvs \in Int /\ p.poc \in Int /\ p.abs \in Int
                      /\ p.cvs < cvs + 1 /\ p.abs < new.abs
    OBVIOUS
  <2>1. /\ p.cvs \in 1 .. cvs /\ p.poc \in Int /\ p.abs \in Int
        /\ p.abs < prevMsb' + lsb + 1 - Half
    BY <1>8
  <2>2. PICK b \in Int : b = prevMsb'
    BY <1>2
  <2>3. p.abs < b + lsb + 1 - Half /\ new.abs = b + lsb
    BY <1>9, <2>1, <2>2
  <2> QED BY <1>4, <1>5, <2>1, <2>3
<1>11. lastOut.cvs \in Int /\ lastOut.cvs <= cvs /\ lastOut.cvs >= 0 /\ lastOut.poc \in Int
  BY <1>1, <1>4 DEF LastInv
<1>12. ItemInv' /\ Ordered(waiting)' /\ LastInv' /\ FlushInv'
       /\ (lastOut' # lastOut => Before(lastOut, lastOut'))
  <2>1. CASE Bump(S)
    <3>1. new \notin waiting
      BY <1>4, <1>9, <1>10
    <3>2. \A p \in S : p.cvs \in Int /\ p.poc \in Int /\ p.abs \in Int
      BY <1>4, <1>5, <1>9, <1>10
    <3>3. \A p \in waiting : Before(p, new) /\ ~Before(new, p)
      BY <1>4, <1>9, <1>10 DEF Before
    <3>4. ~Before(new, new)
      BY <1>4, <1>5, <1>9 DEF Before
    <3>5. Ordered(S)
      BY <1>1, <1>10, <3>3, <3>4 DEF Ordered
    <3>6. Before(lastOut, new)
      BY <1>4, <1>9, <1>11 DEF Before
    <3>7. \A p \in S : Before(lastOut, p)
      BY <1>1, <3>6 DEF LastInv
    <3>8. Cardinality(waiting) = backlog
      BY <1>1, <1>2 DEF FlushInv
    <3>9. /\ Ordered(waiting')
          /\ \A q \in waiting' : Before(lastOut', q)
          /\ waiting' \subseteq S
          /\ Cardinality(waiting') = backlog'
          /\ \/ lastOut' = lastOut /\ backlog # reorder
             \/ /\ Before(lastOut, lastOut') /\ backlog' = reorder
                /\ \E p \in S : lastOut' = [cvs |-> p.cvs, poc |-> p.poc]
      BY <1>1, <1>2, <2>1, <3>1, <3>2, <3>5, <3>7, <3>8, BumpOrder
    <3>10. ItemInv'
      <4> SUFFICES ASSUME NEW p \in S
                   PROVE  /\ p.cvs \in 1 .. cvs + 1 /\ p.poc \in Int /\ p.abs \in Int
                          /\ p.cvs = cvs + 1 => p.abs = prevMsb' + p.poc /\ p.poc = lsb
                          /\ p.cvs < cvs + 1 => p.abs < prevMsb' + lsb + 1 - Half
        BY <1>2, <1>3, <1>6, <3>9 DEF ItemInv
      <4>1. CASE p = new
        BY <1>4, <1>5, <1>9, <4>1
      <4>2. CASE p \in waiting
        BY <1>4, <1>8, <1>10, <4>2
      <4> QED BY <4>1, <4>2
    <3>11. LastInv'
      <4>1. CASE lastOut' = lastOut
        BY <1>3, <1>4, <1>11, <3>9, <4>1 DEF LastInv, Before
      <4>2. CASE /\ backlog' = reorder
                 /\ \E p \in S : lastOut' = [cvs |-> p.cvs, poc |-> p.poc]
        <5>1. PICK p \in S : lastOut' = [cvs |-> p.cvs, poc |-> p.poc]
          BY <4>2
        <5>2. p.cvs \in 0 .. cvs + 1 /\ p.poc \in Int /\ (p.cvs = cvs + 1 => p.poc = lsb)
          <6>1. CASE p = new
            BY <1>4, <1>5, <1>9, <6>1
          <6>2. CASE p \in waiting
            BY <1>4, <1>8, <1>10, <6>2
          <6> QED BY <6>1, <6>2
        <5>3. lastOut'.cvs = p.cvs /\ lastOut'.poc = p.poc
          BY <5>1
        <5> QED BY <1>3, <3>9, <4>2, <5>2, <5>3 DEF LastInv, Before
      <4> QED BY <3>9, <4>1, <4>2
    <3>12. FlushInv'
      BY <1>1, <1>2, <1>3, <3>9 DEF FlushInv
    <3>13. Ordered(waiting)'
      BY <3>9 DEF Ordered, Before
    <3> QED BY <3>9, <3>10, <3>11, <3>12, <3>13
  <2>2. CASE ~StartsCount(kind) /\ UNCHANGED <<backlog, waiting, lastOut>>
    <3>1. waiting' = {} /\ waiting = {} /\ lastOut' = lastOut /\ backlog' = backlog
      BY <1>2, <1>7, <2>2
    <3>2. ItemInv' /\ Ordered(waiting)'
      BY <3>1 DEF ItemInv, Ordered
    <3>3. LastInv'
      BY <1>3, <1>4, <1>11, <3>1 DEF LastInv
    <3>4. FlushInv'
      BY <1>1, <1>2, <1>3, <3>1 DEF FlushInv
    <3> QED BY <3>1, <3>2, <3>3, <3>4
  <2> QED BY <1>2, <2>1, <2>2
<1> QED BY <1>12

LEMMA FlushOrder ==
  ASSUME OrderInv, Flush \/ FlushOut
  PROVE  /\ ItemInv' /\ Ordered(waiting)' /\ LastInv' /\ FlushInv'
         /\ lastOut' # lastOut => Before(lastOut, lastOut')
<1>1. CountInv /\ CountType /\ WaitInv /\ ItemInv /\ Ordered(waiting) /\ LastInv /\ FlushInv
  BY DEF OrderInv, CountInv
<1>2. /\ UNCHANGED <<cvs, maxLsb, firstPoc, tid0Poc, reorder>>
      /\ Offset' = Offset /\ Half' = Half
  BY <1>1, FlushKeepsCount DEF Flush, FlushOut, streamVars, Half
<1>3. CASE Flush
  <2>1. /\ waiting' = waiting /\ lastOut' = lastOut /\ sent' = {} /\ flushing' = TRUE
        /\ backlog' = 0
    BY <1>3 DEF Flush
  <2>2. ItemInv' /\ Ordered(waiting)' /\ LastInv'
    BY <1>1, <1>2, <2>1 DEF ItemInv, Ordered, LastInv, Before
  <2> QED BY <2>1, <2>2 DEF FlushInv
<1>4. CASE FlushOut /\ waiting = {}
  <2>1. /\ waiting' = {} /\ lastOut' = lastOut /\ sent' = sent /\ flushing' = FALSE
        /\ backlog' = backlog /\ flushing
    BY <1>4 DEF FlushOut, streamVars
  <2>2. ItemInv' /\ Ordered(waiting)' /\ LastInv'
    BY <1>1, <1>2, <2>1 DEF ItemInv, Ordered, LastInv
  <2>3. Cardinality({}) = 0
    BY FS_EmptySet
  <2> QED BY <1>1, <2>1, <2>2, <2>3 DEF FlushInv
<1>5. CASE FlushOut /\ waiting # {}
  <2>1. PICK p \in waiting : LowestFirst(p, waiting)
    BY <1>5 DEF FlushOut, LowestFirst
  <2>2. /\ sent' = sent /\ flushing' = flushing /\ backlog' = backlog /\ flushing
        /\ waiting' = waiting \ {p} /\ lastOut' = [cvs |-> p.cvs, poc |-> p.poc]
    BY <1>5, <2>1 DEF FlushOut, streamVars, LowestFirst
  <2>3. cvs \in Nat
    BY <1>1, Sizes
  <2>4. \A q \in waiting : q.cvs \in Int /\ q.poc \in Int /\ q.abs \in Int
    BY <1>1, <2>3 DEF ItemInv
  <2>5. \A q \in waiting : Before(lastOut, q)
    BY <1>1 DEF LastInv
  <2>6. /\ Ordered(waiting')
        /\ \A q \in waiting' : Before(lastOut', q)
        /\ Before(lastOut, lastOut')
    BY <1>1, <2>1, <2>4, <2>5, OutOrder
  <2>7. ItemInv'
    BY <1>1, <1>2, <2>2 DEF ItemInv
  <2>8. FlushInv'
    BY <1>1, <2>2 DEF FlushInv
  <2>9. LastInv'
    <3>1. p.cvs \in 0 .. cvs /\ p.poc \in Int
      BY <1>1, <2>3 DEF ItemInv
    <3>2. lastOut'.cvs = p.cvs /\ lastOut'.poc = p.poc
      BY <2>2
    <3>3. sent' = {}
      BY <1>1, <2>2 DEF FlushInv
    <3> QED BY <1>2, <2>6, <3>1, <3>2, <3>3 DEF LastInv, Before
  <2>10. Ordered(waiting)'
    BY <2>6 DEF Ordered, Before
  <2> QED BY <2>6, <2>7, <2>8, <2>9, <2>10
<1> QED BY <1>3, <1>4, <1>5

LEMMA OrderStep ==
  ASSUME OneSize, Wide, OrderInv, NoDeepStep, [Next]_vars
  PROVE  OrderInv' /\ (lastOut' # lastOut => Before(lastOut, lastOut'))
<1>1. CountInv' /\ WaitInv'
  BY CountNext, WaitNext DEF OrderInv
<1>2. ASSUME NEW kind \in StartKinds, NEW max \in MaxLsbs, NEW lsb \in 0 .. max - 1,
             StartCvs(kind, max, lsb)
      PROVE  /\ ItemInv' /\ Ordered(waiting)' /\ LastInv' /\ FlushInv'
             /\ lastOut' # lastOut => Before(lastOut, lastOut')
  BY <1>2, StartOrder
<1>3. ASSUME NEW poc \in -MaxPoc .. MaxPoc, NEW anchor \in BOOLEAN, NextPic(poc, anchor)
      PROVE  /\ ItemInv' /\ Ordered(waiting)' /\ LastInv' /\ FlushInv'
             /\ lastOut' # lastOut => Before(lastOut, lastOut')
  BY <1>3, NextOrder
<1>4. ASSUME UNCHANGED vars
      PROVE  /\ ItemInv' /\ Ordered(waiting)' /\ LastInv' /\ FlushInv'
             /\ lastOut' # lastOut => Before(lastOut, lastOut')
  <2>1. /\ UNCHANGED <<reorder, cvs, maxLsb, firstPoc, tid0Poc, sent>>
        /\ UNCHANGED <<backlog, waiting, flushing, lastOut>>
    BY <1>4 DEF vars, streamVars, outVars
  <2>2. Offset' = Offset /\ Half' = Half
    BY <1>4, <2>1, FlushKeepsCount DEF OrderInv, Half
  <2>3. ItemInv /\ Ordered(waiting) /\ LastInv /\ FlushInv
    BY DEF OrderInv
  <2>4. ItemInv'
    BY <2>1, <2>2, <2>3 DEF ItemInv
  <2>5. Ordered(waiting)'
    BY <2>1, <2>3 DEF Ordered, Before
  <2>6. LastInv'
    BY <2>1, <2>3 DEF LastInv, Before
  <2>7. FlushInv'
    BY <2>1, <2>3 DEF FlushInv
  <2> QED BY <2>1, <2>4, <2>5, <2>6, <2>7
<1>5. /\ ItemInv' /\ Ordered(waiting)' /\ LastInv' /\ FlushInv'
      /\ lastOut' # lastOut => Before(lastOut, lastOut')
  <2>1. CASE Flush \/ FlushOut
    BY <2>1, FlushOrder
  <2>2. CASE \E kind \in StartKinds, max \in MaxLsbs : \E lsb \in 0 .. max - 1 :
               StartCvs(kind, max, lsb)
    BY <1>2, <2>2, Zenon
  <2>3. CASE \E poc \in -MaxPoc .. MaxPoc, anchor \in BOOLEAN : NextPic(poc, anchor)
    BY <1>3, <2>3, Zenon
  <2> QED BY <1>4, <2>1, <2>2, <2>3 DEF Next
<1> QED BY <1>1, <1>5 DEF OrderInv

LEMMA OrderInit == Init /\ Wide => OrderInv
<1> SUFFICES ASSUME Init, Wide PROVE OrderInv
  OBVIOUS
<1>1. CountInv /\ WaitInv
  BY CountInit, WaitInit
<1>2. Cardinality({}) = 0
  BY FS_EmptySet
<1>3. /\ cvs = 0 /\ sent = {} /\ waiting = {} /\ backlog = 0 /\ flushing = FALSE
      /\ lastOut.cvs = 0 /\ lastOut.poc = 0
  BY DEF Init
<1>4. ItemInv /\ Ordered(waiting)
  BY <1>3 DEF ItemInv, Ordered
<1>5. LastInv
  BY <1>3 DEF LastInv
<1>6. FlushInv
  BY <1>2, <1>3 DEF FlushInv
<1> QED BY <1>1, <1>4, <1>5, <1>6 DEF OrderInv

(* Pictures go out in the order of the stream, for every period of the low *)
(* bits, every reorder limit, across leading pictures, BLA pictures and    *)
(* seeks, if the low bits are the same in all sequences, the counts fit a  *)
(* WORD32 and no picture is sent 3/2 periods or more above the period of a *)
(* last reference picture of layer 0: what ihevcd_calc_poc adds for a new  *)
(* sequence is two periods, of which its leading pictures take back half.  *)
THEOREM OrderKept == OneSize /\ Wide /\ Spec /\ []NoDeepStep => OutputInOrder
<1> SUFFICES ASSUME OneSize, Wide PROVE Spec /\ []NoDeepStep => OutputInOrder
  OBVIOUS
<1>1. Init => OrderInv
  BY OrderInit
<1>2. OrderInv /\ NoDeepStep /\ [Next]_vars
        => OrderInv' /\ [lastOut' # lastOut => Before(lastOut, lastOut')]_vars
  BY OrderStep
<1> QED BY <1>1, <1>2, PTL DEF Spec, OutputInOrder

-----------------------------------------------------------------------------
(* Streams in which at most one picture goes before another and is shown   *)
(* after it never go as far.                                               *)

(* From each picture of a sequence to one below it is less than half a     *)
(* period, and none is as far above the last reference picture of layer 0. *)
ChainInv ==
  /\ reorder \in {0, 1}
  /\ sent # {} => firstPoc \in sent /\ tid0Poc \in sent
  /\ \A q \in sent : q > firstPoc => \E s \in sent : s < q /\ q - s < Half
  /\ \A q \in sent : q < tid0Poc + Half

LEMMA AtMostOne ==
  ASSUME NEW S, IsFiniteSet(S), Cardinality(S) <= 1, NEW x \in S, NEW y \in S
  PROVE  x = y
<1>1. IsFiniteSet(S \ {x}) /\ Cardinality(S \ {x}) = Cardinality(S) - 1
      /\ Cardinality(S) \in Nat /\ Cardinality(S \ {x}) \in Nat
  BY FS_RemoveElement, FS_CardinalityType
<1>2. Cardinality(S \ {x}) = 0
  BY <1>1
<1>3. S \ {x} = {}
  BY <1>1, <1>2, FS_EmptySet
<1> QED BY <1>3

LEMMA NextChain ==
  ASSUME CountInv, ChainInv,
         NEW poc \in -MaxPoc .. MaxPoc, NEW anchor \in BOOLEAN, NextPic(poc, anchor)
  PROVE  ChainInv'
<1> DEFINE later == {q \in sent : q > poc}
<1>1. CountType
  BY DEF CountInv
<1>2. /\ maxLsb \in Nat /\ Half \in Nat /\ Half >= 2 /\ MaxPoc \in Nat
      /\ tid0Poc \in Int /\ firstPoc \in Int /\ firstPoc <= tid0Poc
  BY <1>1, Sizes
<1>3. /\ poc \in Int /\ sent \subseteq -MaxPoc .. MaxPoc /\ \A q \in sent : q \in Int
  BY <1>1, <1>2 DEF CountType
<1>4. /\ maxLsb' = maxLsb /\ firstPoc' = firstPoc /\ reorder' = reorder
      /\ sent' = sent \cup {poc} /\ sent # {} /\ poc \notin sent
      /\ tid0Poc' = IF anchor THEN poc ELSE tid0Poc
      /\ anchor => poc > firstPoc
      /\ Cardinality(later) <= reorder
  BY DEF NextPic
<1>5. poc < tid0Poc + Half
  <2>1. poc - tid0Poc \in (1 - Half) .. (Half - 1)
    BY DEF NextPic, Half
  <2> QED BY <1>2, <1>3, <2>1
<1>6. Half' = Half
  BY <1>4 DEF Half
<1>7. ASSUME NEW q \in later, NEW s \in later PROVE q = s
  <2>1. IsFiniteSet(-MaxPoc .. MaxPoc)
    BY <1>2, FS_Interval
  <2>2. later \in SUBSET (-MaxPoc .. MaxPoc)
    BY <1>3
  <2>3. IsFiniteSet(later)
    BY <2>1, <2>2, FS_Subset
  <2>4. Cardinality(later) <= 1
    <3>1. Cardinality(later) \in Nat /\ reorder \in {0, 1}
      BY <2>3, FS_CardinalityType DEF ChainInv
    <3> QED BY <1>4, <3>1
  <2> HIDE DEF later
  <2> QED BY <1>7, <2>3, <2>4, AtMostOne
<1>8. ASSUME NEW q \in sent, q > poc, poc > firstPoc
      PROVE  \E s \in sent : s < poc /\ q - s < Half
  <2>1. q > firstPoc
    BY <1>2, <1>3, <1>8
  <2>2. PICK s \in sent : s < q /\ q - s < Half
    BY <2>1 DEF ChainInv
  <2>3. s # poc
    BY <1>4
  <2>4. ~(s > poc)
    <3>1. s > poc => s = q
      BY <1>7, <1>8
    <3> QED BY <1>3, <2>2, <3>1
  <2>5. s < poc
    BY <1>3, <2>3, <2>4
  <2> QED BY <2>2, <2>5
<1>9. poc > firstPoc => \E s \in sent : s < poc /\ poc - s < Half
  <2> SUFFICES ASSUME poc > firstPoc PROVE \E s \in sent : s < poc /\ poc - s < Half
    OBVIOUS
  <2>1. tid0Poc \in sent
    BY <1>4 DEF ChainInv
  <2>2. CASE tid0Poc > poc
    <3>1. PICK s \in sent : s < poc /\ tid0Poc - s < Half
      BY <1>8, <2>1, <2>2
    <3> QED BY <1>2, <1>3, <2>2, <3>1
  <2>3. CASE tid0Poc < poc
    <3>1. poc - tid0Poc < Half
      BY <1>2, <1>3, <1>5
    <3> QED BY <2>1, <2>3, <3>1
  <2>4. tid0Poc # poc
    BY <1>4, <2>1
  <2> QED BY <1>2, <1>3, <2>2, <2>3, <2>4
<1>10. \A q \in sent' : q > firstPoc' => \E s \in sent' : s < q /\ q - s < Half
  <2> SUFFICES ASSUME NEW q \in sent \cup {poc}, q > firstPoc
               PROVE  \E s \in sent \cup {poc} : s < q /\ q - s < Half
    BY <1>4
  <2>1. CASE q \in sent
    BY <2>1 DEF ChainInv
  <2>2. CASE q = poc
    BY <1>9, <2>2
  <2> QED BY <2>1, <2>2
<1>11. \A q \in sent' : q < tid0Poc' + Half
  <2> SUFFICES ASSUME NEW q \in sent \cup {poc} PROVE q < tid0Poc' + Half
    BY <1>4
  <2>1. CASE ~anchor
    BY <1>4, <1>5, <2>1 DEF ChainInv
  <2>2. CASE anchor /\ q = poc
    <3>1. poc < poc + Half
      BY <1>2, <1>3
    <3> QED BY <1>4, <2>2, <3>1
  <2>3. CASE anchor /\ q \in sent /\ q > poc
    <3>1. PICK s \in sent : s < poc /\ q - s < Half
      BY <1>4, <1>8, <2>3
    <3>2. q < poc + Half
      BY <1>2, <1>3, <2>3, <3>1
    <3> QED BY <1>4, <2>3, <3>2
  <2>4. CASE anchor /\ q \in sent /\ q < poc
    <3>1. q < poc + Half
      BY <1>2, <1>3, <2>4
    <3> QED BY <1>4, <2>4, <3>1
  <2> QED BY <1>3, <2>1, <2>2, <2>3, <2>4
<1>12. firstPoc' \in sent' /\ tid0Poc' \in sent'
  BY <1>4 DEF ChainInv
<1> QED BY <1>4, <1>6, <1>10, <1>11, <1>12 DEF ChainInv

LEMMA ChainNext == CountInv /\ OneSize /\ ChainInv /\ [Next]_vars => ChainInv'
<1> SUFFICES ASSUME CountInv, OneSize, ChainInv, [Next]_vars PROVE ChainInv'
  OBVIOUS
<1>1. ASSUME NEW kind \in StartKinds, NEW max \in MaxLsbs, NEW lsb \in 0 .. max - 1,
             StartCvs(kind, max, lsb)
      PROVE  ChainInv'
  <2>1. CountType
    BY DEF CountInv
  <2>2. max = maxLsb
    BY <2>1 DEF OneSize, CountType
  <2>3. maxLsb \in Nat /\ Half \in Nat /\ Half >= 2
    BY <2>1, Sizes
  <2>4. lsb \in Int
    BY <2>2, <2>3
  <2>5. /\ sent' = {lsb} /\ firstPoc' = lsb /\ tid0Poc' = lsb /\ maxLsb' = maxLsb
        /\ reorder' = reorder
    BY <1>1, <2>2 DEF StartCvs
  <2>6. Half' = Half /\ lsb < lsb + Half /\ ~(lsb > lsb)
    BY <2>3, <2>4, <2>5 DEF Half
  <2> QED BY <2>5, <2>6 DEF ChainInv
<1>2. ASSUME NEW poc \in -MaxPoc .. MaxPoc, NEW anchor \in BOOLEAN, NextPic(poc, anchor)
      PROVE  ChainInv'
  BY <1>2, NextChain
<1>3. ASSUME Flush \/ FlushOut \/ UNCHANGED vars PROVE ChainInv'
  <2>1. /\ UNCHANGED <<reorder, maxLsb, firstPoc, tid0Poc>>
        /\ sent' = sent \/ sent' = {}
    BY <1>3 DEF Flush, FlushOut, vars, streamVars
  <2> QED BY <2>1 DEF ChainInv, Half
<1>4. CASE \E kind \in StartKinds, max \in MaxLsbs : \E lsb \in 0 .. max - 1 :
             StartCvs(kind, max, lsb)
  BY <1>1, <1>4, Zenon
<1>5. CASE \E poc \in -MaxPoc .. MaxPoc, anchor \in BOOLEAN : NextPic(poc, anchor)
  BY <1>2, <1>5, Zenon
<1> QED BY <1>3, <1>4, <1>5 DEF Next

LEMMA ChainShallow == CountInv /\ ChainInv => NoDeepStep
<1> SUFFICES ASSUME CountInv, ChainInv, NEW q \in sent
             PROVE  q < tid0Poc - (tid0Poc % maxLsb) + 3 * Half + 1
  BY DEF NoDeepStep
<1>1. CountType
  BY DEF CountInv
<1>2. /\ maxLsb \in Nat /\ Half \in Nat /\ 2 * Half = maxLsb /\ tid0Poc \in Int
      /\ tid0Poc % maxLsb \in Int /\ tid0Poc % maxLsb < maxLsb /\ MaxPoc \in Nat
  BY <1>1, Sizes
<1>3. q \in Int
  BY <1>1, <1>2 DEF CountType
<1>4. q < tid0Poc + Half
  BY DEF ChainInv
<1> QED BY <1>2, <1>3, <1>4

(* Whatever its low bits and leading pictures, a stream that reorders by   *)
(* at most one picture (P pictures, or B pictures that nothing refers to)  *)
(* goes out in order: ihevcd_calc_poc's two periods are enough for it.     *)
THEOREM OrderOfFewReordered ==
  OneSize /\ Wide /\ Reorders \subseteq {0, 1} /\ Spec => OutputInOrder
<1> SUFFICES ASSUME OneSize, Wide, Reorders \subseteq {0, 1} PROVE Spec => OutputInOrder
  OBVIOUS
<1>1. Init => OrderInv /\ ChainInv
  BY OrderInit DEF Init, ChainInv
<1>2. OrderInv /\ ChainInv /\ [Next]_vars
        => OrderInv' /\ ChainInv' /\ [lastOut' # lastOut => Before(lastOut, lastOut')]_vars
  BY OrderStep, ChainNext, ChainShallow DEF OrderInv
<1> QED BY <1>1, <1>2, PTL DEF Spec, OutputInOrder
=============================================================================
