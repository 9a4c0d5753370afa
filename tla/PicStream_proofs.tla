-------------------------- MODULE PicStream_proofs --------------------------
(***************************************************************************)
(* Proofs about PicBufs for streams that keep to the sizes their SPS       *)
(* announces: the pools of picture buffers and MV banks suffice, and the   *)
(* release loop gives back the banks of the references it drops.           *)
(***************************************************************************)
EXTENDS PicBufs_proofs, FiniteSetTheorems

-----------------------------------------------------------------------------
(* Sets of buffers are finite, and so are those of their POCs.             *)

LEMMA BufsFinite ==
  /\ IsFiniteSet(Bufs) /\ Cardinality(Bufs) = NumPics
  /\ \A S \in SUBSET Bufs : IsFiniteSet(S) /\ Cardinality(S) \in Nat
<1>1. /\ NumPics - 1 \in Int /\ 0 \in Int
      /\ NumPics = IF 0 > NumPics - 1 THEN 0 ELSE (NumPics - 1) - 0 + 1
  BY Constants
<1>2. IsFiniteSet(Bufs) /\ Cardinality(Bufs) = NumPics
  BY <1>1, FS_Interval DEF Bufs
<1>3. ASSUME NEW S \in SUBSET Bufs PROVE IsFiniteSet(S) /\ Cardinality(S) \in Nat
  <2>1. IsFiniteSet(S)
    BY <1>2, FS_Subset
  <2> QED BY <2>1, FS_CardinalityType
<1> QED BY <1>2, <1>3

LEMMA BanksFinite == IsFiniteSet(Banks) /\ Cardinality(Banks) = NumBanks
<1>1. /\ NumBanks - 1 \in Int /\ 0 \in Int
      /\ NumBanks = IF 0 > NumBanks - 1 THEN 0 ELSE (NumBanks - 1) - 0 + 1
  BY Constants
<1> QED BY <1>1, FS_Interval DEF Banks

LEMMA SubsetSmaller ==
  ASSUME NEW S \in SUBSET Bufs, NEW T \in SUBSET S
  PROVE  /\ IsFiniteSet(T) /\ Cardinality(T) \in Nat /\ Cardinality(S) \in Nat
         /\ Cardinality(T) <= Cardinality(S)
<1>1. T \in SUBSET Bufs
  OBVIOUS
<1> QED BY <1>1, BufsFinite, FS_Subset

LEMMA HeldPocsFewer ==
  ASSUME TypeOK
  PROVE  /\ DpbBufs(dpbSlot) \in SUBSET Bufs
         /\ IsFiniteSet(HeldPocs) /\ Cardinality(HeldPocs) \in Nat
         /\ Cardinality(HeldPocs) <= Cardinality(DpbBufs(dpbSlot))
<1>1. DpbBufs(dpbSlot) \in SUBSET Bufs
  BY DEF DpbBufs, TypeOK
<1> DEFINE f == [b \in DpbBufs(dpbSlot) |-> picPoc[b]]
<1>2. f \in Surjection(DpbBufs(dpbSlot), HeldPocs)
  BY DEF Surjection, HeldPocs
<1>3. IsFiniteSet(DpbBufs(dpbSlot))
  BY <1>1, BufsFinite
<1>4. IsFiniteSet(HeldPocs) /\ Cardinality(HeldPocs) <= Cardinality(DpbBufs(dpbSlot))
  BY <1>2, <1>3, FS_Surjection
<1> QED BY <1>1, <1>4, FS_CardinalityType

-----------------------------------------------------------------------------
(* The count of the pictures waiting.                                      *)

(* u4_pic_cnt - u4_disp_cnt counts the pictures waiting but the current    *)
(* one, but in a flush, which sets it back; the queue stays short.         *)
CountInv ==
  /\ phase # "idle" => ~flushMode /\ ~resetFlag
  /\ ~flushMode => Cardinality(Waiting(disp)) = IF curBuf = NoBuf THEN backlog ELSE backlog + 1
  /\ flushMode /\ ~resetFlag => backlog = 0
  /\ Cardinality(Waiting(disp)) <= MaxReorder

LEMMA WaitingFinite ==
  ASSUME TypeOK
  PROVE  /\ Waiting(disp) \in SUBSET Bufs
         /\ IsFiniteSet(Waiting(disp)) /\ Cardinality(Waiting(disp)) \in Nat
<1>1. Waiting(disp) \in SUBSET Bufs
  BY DEF Waiting, TypeOK
<1> QED BY <1>1, BufsFinite

LEMMA EmptyQueue == Cardinality({}) = 0
BY FS_EmptySet

LEMMA CountNothing ==
  ASSUME Waiting(disp) = {}, backlog = 0, curBuf = NoBuf, phase = "idle"
  PROVE  CountInv
BY EmptyQueue, SizesAssumption DEF CountInv

LEMMA CountInit == Init => CountInv
<1>1. SUFFICES ASSUME Init PROVE CountInv
  OBVIOUS
<1>2. Waiting(disp) = {}
  BY <1>1 DEF Init, Waiting
<1> QED BY <1>1, <1>2, CountNothing DEF Init

(* The queue before and after ihevcd_parse_pic_init: the new picture joins *)
(* it and at most one leaves.                                              *)
LEMMA PicInitQueue ==
  ASSUME CoreInv, UseInv, CountInv, PicInit
  PROVE  /\ \/ backlog' = backlog
               /\ Cardinality(Waiting(disp')) = Cardinality(Waiting(disp)) + 1
               /\ backlog < MaxReorder
            \/ backlog' = backlog - 1
               /\ Cardinality(Waiting(disp')) = Cardinality(Waiting(disp))
         /\ curBuf' # NoBuf
<1>1. PICK b \in Bufs, frameOut \in FrameOutModes :
        /\ picSt[b] = {}
        /\ curBuf' = b
        /\ Bump(Queued(disp, b, slicePoc), frameOut)
  BY DEF PicInit, IsNextFree, IsFree
<1>2. curBuf = NoBuf /\ slicePoc \in Pocs /\ b # NoBuf
  BY Constants DEF PicInit, CoreInv, CallInv, TypeOK
<1>3. b \notin Waiting(disp)
  <2>1. b \notin ToBeSeen
    BY <1>1 DEF UseInv, DispBitIsUse
  <2> QED BY <1>2, <2>1 DEF ToBeSeen
<1> DEFINE queue == Queued(disp, b, slicePoc)
<1>4. /\ queue \in [Bufs -> Pocs \cup {NotQueued}]
      /\ Waiting(queue) = Waiting(disp) \cup {b}
  <2>1. disp \in [Bufs -> Pocs \cup {NotQueued}] /\ disp[b] = NotQueued
    BY <1>3 DEF CoreInv, TypeOK, Waiting
  <2>2. queue = [disp EXCEPT ![b] = slicePoc] /\ slicePoc # NotQueued
    BY <1>2, <2>1, Constants DEF Queued
  <2> QED BY <1>2, <2>1, <2>2 DEF Waiting
<1>5. IsFiniteSet(Waiting(disp)) /\ Cardinality(Waiting(disp)) \in Nat
  BY WaitingFinite DEF CoreInv
<1>6. /\ IsFiniteSet(Waiting(queue))
      /\ Cardinality(Waiting(queue)) = Cardinality(Waiting(disp)) + 1
  BY <1>3, <1>4, <1>5, FS_AddElement
<1> HIDE DEF queue
<1>7. CASE backlog >= MaxReorder \/ frameOut
  <2>1. PICK c \in Bufs : /\ c \in Waiting(queue)
                          /\ disp' = Dequeued(queue, c)
                          /\ backlog' = backlog - 1
    BY <1>1, <1>7 DEF Bump, IsNextOutput, queue
  <2>2. Waiting(disp') = Waiting(queue) \ {c}
    BY <1>4, <2>1 DEF Waiting, Dequeued
  <2>3. Cardinality(Waiting(disp')) = Cardinality(Waiting(queue)) - 1
    BY <1>6, <2>1, <2>2, FS_RemoveElement
  <2> QED BY <1>1, <1>2, <1>5, <1>6, <2>1, <2>3
<1>8. CASE ~(backlog >= MaxReorder \/ frameOut)
  <2>1. disp' = queue /\ backlog' = backlog
    BY <1>1, <1>8 DEF Bump, queue
  <2>2. backlog < MaxReorder
    BY <1>8, SizesAssumption DEF CoreInv, TypeOK
  <2> QED BY <1>1, <1>2, <1>6, <2>1, <2>2
<1> QED BY <1>7, <1>8

LEMMA CountPicInit ==
  ASSUME CoreInv, UseInv, CountInv, PicInit
  PROVE  CountInv'
<1>1. /\ ~flushMode /\ ~resetFlag /\ ~flushMode' /\ ~resetFlag'
      /\ curBuf = NoBuf
  BY DEF PicInit, CountInv, CoreInv, CallInv
<1>2. Cardinality(Waiting(disp)) = backlog /\ Cardinality(Waiting(disp)) <= MaxReorder
  BY <1>1 DEF CountInv
<1>3. /\ curBuf' # NoBuf
      /\ Cardinality(Waiting(disp')) = backlog' + 1
      /\ Cardinality(Waiting(disp')) <= MaxReorder
  <2>1. Cardinality(Waiting(disp)) \in Nat /\ MaxReorder \in Nat
    BY WaitingFinite, SizesAssumption DEF CoreInv
  <2> QED BY <1>2, <2>1, PicInitQueue
<1> QED BY <1>1, <1>3 DEF CountInv

(* A flush call takes one picture out and leaves the count alone.          *)
LEMMA CountFlushOne ==
  ASSUME CoreInv, CountInv, FlushOne
  PROVE  CountInv'
<1>1. PICK b \in Bufs : b \in Waiting(disp) /\ disp' = Dequeued(disp, b)
  BY DEF FlushOne, IsNextOutput
<1>2. Waiting(disp') = Waiting(disp) \ {b}
  BY <1>1 DEF Waiting, Dequeued, CoreInv, TypeOK
<1>3. IsFiniteSet(Waiting(disp)) /\ Cardinality(Waiting(disp)) \in Nat
  BY WaitingFinite DEF CoreInv
<1>4. Cardinality(Waiting(disp')) = Cardinality(Waiting(disp)) - 1
  BY <1>1, <1>2, <1>3, FS_RemoveElement
<1>5. /\ flushMode' /\ phase' = "idle" /\ resetFlag' = resetFlag /\ backlog' = backlog
      /\ flushMode \/ resetFlag
  BY DEF FlushOne, InFlush, callVars
<1>6. Cardinality(Waiting(disp')) <= MaxReorder
  BY <1>3, <1>4, SizesAssumption DEF CountInv
<1> QED BY <1>5, <1>6 DEF CountInv

LEMMA CountNext == CoreInv /\ UseInv /\ CountInv /\ [Next]_vars => CountInv'
<1> SUFFICES ASSUME CoreInv, UseInv, CountInv, [Next]_vars PROVE CountInv'
  OBVIOUS
<1> USE DEF dispVars, callVars
<1>1. CASE SliceHeader
  <2>1. /\ UNCHANGED <<disp, backlog, flushMode, resetFlag, curBuf>>
        /\ phase # "idle" \/ MayDecode
    BY <1>1 DEF SliceHeader, FirstSliceIntra, FirstSliceRefs, NextSliceIntra,
                NextSliceRefs
  <2> QED BY <2>1 DEF CountInv, MayDecode
<1>2. CASE PurgeSlot \/ PurgeDone \/ SkipPicture \/ NoFreeMvBank \/ NoFreePicBuf
  <2>1. /\ UNCHANGED <<disp, backlog, flushMode, resetFlag, curBuf>>
        /\ phase # "idle"
    BY <1>2 DEF PurgeSlot, PurgeDone, SkipPicture, NoFreeMvBank, NoFreePicBuf
  <2> QED BY <2>1 DEF CountInv
<1>3. CASE PicInit
  BY <1>3, CountPicInit
<1>4. CASE FinishPicture
  <2>1. /\ UNCHANGED <<disp, flushMode, resetFlag>>
        /\ phase # "idle" /\ phase' = "idle"
        /\ curBuf # NoBuf /\ curBuf' = NoBuf
        /\ backlog' = backlog + 1
    BY <1>4 DEF FinishPicture, CoreInv, CallInv
  <2> QED BY <2>1 DEF CountInv
<1>5. CASE FlushOne
  BY <1>5, CountFlushOne
<1>6. CASE FlushEnd
  <2>1. /\ flushMode /\ ~resetFlag /\ Waiting(disp) = {} /\ phase = "idle"
        /\ UNCHANGED <<disp, backlog, phase, curBuf>> /\ curBuf = NoBuf
    BY <1>6 DEF FlushEnd, InFlush, CoreInv, CallInv
  <2>2. Waiting(disp') = {} /\ backlog' = 0 /\ curBuf' = NoBuf /\ phase' = "idle"
    BY <2>1 DEF CountInv
  <2>3. Cardinality(Waiting(disp')) = 0
    BY <2>2, EmptyQueue
  <2> QED BY <2>2, <2>3, SizesAssumption DEF CountInv
<1>7. CASE FlushReset \/ Reset
  <2>1. phase' = "idle" /\ curBuf' = NoBuf /\ backlog' = 0
    BY <1>7 DEF FlushReset, Reset, InFlush, Cleared, CoreInv, CallInv
  <2>2. Waiting(disp') = {}
    BY <1>7 DEF FlushReset, Reset, Cleared, Waiting
  <2>3. Cardinality(Waiting(disp')) = 0
    BY <2>2, EmptyQueue
  <2> QED BY <2>1, <2>3, SizesAssumption DEF CountInv
<1>8. CASE SetFlushMode
  BY <1>8 DEF SetFlushMode, CountInv
<1>9. CASE ResolutionChange
  BY <1>9 DEF ResolutionChange, CountInv, MayDecode
<1>10. CASE SetDisplayFrame \/ \E b \in Bufs : RelDisplayFrame(b)
  BY <1>10 DEF SetDisplayFrame, RelDisplayFrame, CountInv
<1>11. CASE UNCHANGED vars
  BY <1>11 DEF vars, CountInv
<1> QED
  BY <1>1, <1>2, <1>3, <1>4, <1>5, <1>6, <1>7, <1>8, <1>9, <1>10, <1>11
     DEF Next, DecodeStep, ControlCall

LEMMA CountCorrect == SafeModes => (Spec => [](CoreInv /\ UseInv /\ CountInv))
<1>1. SUFFICES ASSUME SafeModes PROVE Spec => [](CoreInv /\ UseInv /\ CountInv)
  OBVIOUS
<1>2. CoreInv /\ UseInv /\ CountInv /\ [Next]_vars => CountInv'
  BY CountNext
<1> QED BY <1>1, <1>2, CountInit, UseCorrect, PTL DEF Spec

(* Between calls and outside a flush, u4_pic_cnt - u4_disp_cnt, on which   *)
(* the decoder decides whether to output, is the number of pictures        *)
(* waiting, whatever the stream and the output mode.                       *)
THEOREM BacklogCorrect == SafeModes => (Spec => []BacklogIsQueue)
<1>1. CoreInv /\ CountInv => BacklogIsQueue
  BY DEF CoreInv, CallInv, CountInv, BacklogIsQueue
<1> QED BY <1>1, CountCorrect, PTL

-----------------------------------------------------------------------------
(* Streams within the limits of their SPS.                                 *)

(* A stream that keeps to the sizes its SPS announces, for which the       *)
(* pools are allocated.                                                    *)
WithinLimits == /\ Conformant /\ MaxRefs < NumBanks
                /\ ~Shared => MaxRefs + MaxReorder < NumPics

(* Pictures held differ in POC, also from the one that is to come.         *)
PocInv ==
  /\ \A b, c \in DpbBufs(dpbSlot) : picPoc[b] = picPoc[c] => b = c
  /\ curBuf # NoBuf => picPoc[curBuf] = slicePoc
  /\ phase # "idle" /\ ~(purgeAll /\ curBuf = NoBuf) => slicePoc \notin HeldPocs

(* What the release loop has done, and what it will leave: no more than    *)
(* the references of the new picture.                                      *)
PurgeInv ==
  /\ phase # "purge" => ~purgeAll
  /\ phase = "purge" => \A s \in Slots : s < slot /\ dpbSlot[s] # NoBuf =>
                          ~purgeAll /\ usedAsRef[dpbSlot[s]]
  /\ phase = "purge" /\ curBuf = NoBuf /\ ~purgeAll =>
       Cardinality({b \in DpbBufs(dpbSlot) : usedAsRef[b]}) <= MaxRefs
  /\ phase = "init" => Cardinality(DpbBufs(dpbSlot)) <= MaxRefs
  /\ Shared /\ phase # "idle" /\ curBuf = NoBuf => SomeFree(picSt)

(* Each reference has its bank, which is the only one in use with its POC  *)
(* and the first of all; the current picture has the bank it writes.       *)
BankInv ==
  /\ \A k \in Banks : mvSt[k] \in {{}, {DEC}, {DEC, REF}}
  /\ \A b \in DpbBufs(dpbSlot) : \E k \in Banks : mvPoc[k] = picPoc[b] /\ REF \in mvSt[k]
  /\ NoLostBank
  /\ \A j, k \in Banks : mvSt[k] # {} /\ j < k => mvPoc[j] # mvPoc[k]
  /\ curBank # NoBank => mvPoc[curBank] = slicePoc /\ mvSt[curBank] = {DEC}

StreamInv == PocInv /\ PurgeInv /\ BankInv

LEMMA BanksOrdered == \A j, k \in Banks : j = k \/ j < k \/ k < j
BY Constants DEF Banks


LEMMA StreamInit == Init => StreamInv
<1>1. SUFFICES ASSUME Init PROVE StreamInv
  OBVIOUS
<1>2. DpbBufs(dpbSlot) = {}
  BY <1>1 DEF Init, DpbBufs
<1>3. PocInv
  BY <1>1, <1>2 DEF Init, PocInv
<1>4. PurgeInv
  BY <1>1, <1>2 DEF Init, PurgeInv
<1>5. BankInv
  BY <1>1, <1>2 DEF Init, BankInv, NoLostBank
<1> QED BY <1>3, <1>4, <1>5 DEF StreamInv

LEMMA StreamCleared ==
  ASSUME CoreInv, phase = "idle", Cleared,
         UNCHANGED <<phase, purgeAll, slot, curBuf, curBank, dispBuf>>, StreamInv
  PROVE  StreamInv'
<1>1. /\ phase' = "idle" /\ curBuf' = NoBuf /\ curBank' = NoBank /\ ~purgeAll'
      /\ mvSt' = [k \in Banks |-> {}]
  BY DEF CoreInv, CallInv, Cleared, StreamInv, PurgeInv
<1>2. DpbBufs(dpbSlot') = {}
  BY DEF Cleared, DpbBufs
<1>3. PocInv'
  BY <1>1, <1>2 DEF PocInv
<1>4. PurgeInv'
  BY <1>1 DEF PurgeInv
<1>5. BankInv'
  BY <1>1, <1>2 DEF BankInv, NoLostBank
<1> QED BY <1>3, <1>4, <1>5 DEF StreamInv

(* Steps that leave the DPB, the banks and the POCs alone.                 *)
LEMMA BankSame ==
  ASSUME BankInv, UNCHANGED <<mvSt, mvPoc, dpbSlot, picPoc, curBank, slicePoc>>
  PROVE  BankInv'
BY DEF BankInv, NoLostBank

(* A new slice header: no picture is current, so that no bank is.          *)
LEMMA BankNewSlice ==
  ASSUME BankInv, curBank = NoBank,
         UNCHANGED <<mvSt, mvPoc, dpbSlot, picPoc, curBank>>
  PROVE  BankInv'
BY DEF BankInv, NoLostBank

(* ihevcd_ref_list marks no more pictures than the picture's reference     *)
(* picture set has.                                                        *)
LEMMA MarkedFew ==
  ASSUME CoreInv, PocInv, NEW pocs \in SUBSET HeldPocs,
         Cardinality(pocs) <= MaxRefs
  PROVE  Cardinality({b \in DpbBufs(dpbSlot) : Marked(pocs, FALSE)[b]}) <= MaxRefs
<1> DEFINE marked == {b \in DpbBufs(dpbSlot) : Marked(pocs, FALSE)[b]}
           f == [b \in marked |-> picPoc[b]]
<1>1. DpbBufs(dpbSlot) \subseteq Bufs /\ IsFiniteSet(pocs) /\ Cardinality(pocs) \in Nat
  <2>1. IsFiniteSet(pocs)
    BY HeldPocsFewer, FS_Subset DEF CoreInv
  <2> QED BY <2>1, HeldPocsFewer, FS_CardinalityType DEF CoreInv
<1>2. \A b \in marked : picPoc[b] \in pocs
  BY <1>1 DEF Marked, RefsByPoc
<1>3. \A b, c \in marked : picPoc[b] = picPoc[c] => b = c
  BY DEF PocInv
<1>4. f \in Injection(marked, pocs)
  BY <1>2, <1>3 DEF Injection, IsInjective
<1>5. Cardinality(marked) <= Cardinality(pocs) /\ IsFiniteSet(marked)
  BY <1>1, <1>4, FS_Injection
<1>6. Cardinality(marked) \in Nat
  BY <1>5, FS_CardinalityType
<1> QED BY <1>1, <1>5, <1>6, SizesAssumption

LEMMA StreamFirstIntra ==
  ASSUME CoreInv, StreamInv, NEW p \in Pocs, FirstSliceIntra(p)
  PROVE  StreamInv'
<1>1. /\ curBuf = NoBuf /\ curBank = NoBank /\ phase = "idle"
      /\ phase' = "purge" /\ purgeAll' = TRUE /\ slot' = 0
      /\ UNCHANGED <<picSt, mvSt, picPoc, usedAsRef, mvPoc, dpbSlot, curBuf, curBank>>
      /\ Shared => SomeFree(picSt)
  BY DEF FirstSliceIntra, MayDecode, EnterPurge, mgrVars, dpbVars, CoreInv, CallInv
<1>2. PocInv'
  BY <1>1 DEF StreamInv, PocInv
<1>3. PurgeInv'
  <2>1. \A s \in Slots : ~(s < 0)
    BY Constants DEF Slots
  <2> QED BY <1>1, <2>1 DEF PurgeInv
<1>4. BankInv'
  BY <1>1, BankNewSlice DEF StreamInv
<1> QED BY <1>2, <1>3, <1>4 DEF StreamInv

LEMMA StreamFirstRefs ==
  ASSUME Conformant, CoreInv, StreamInv, NEW p \in Pocs, NEW pocs \in SUBSET HeldPocs,
         NEW inter \in BOOLEAN, FirstSliceRefs(p, pocs, inter)
  PROVE  StreamInv'
<1>1. /\ curBuf = NoBuf /\ curBank = NoBank /\ phase = "idle" /\ ~purgeAll
      /\ slicePoc' = p /\ p \notin HeldPocs /\ Cardinality(pocs) <= MaxRefs
      /\ usedAsRef' = Marked(pocs, FALSE)
      /\ UNCHANGED <<picSt, mvSt, picPoc, mvPoc, dpbSlot, curBuf, curBank>>
      /\ Shared => SomeFree(picSt)
  BY DEF FirstSliceRefs, StreamAllows, MayDecode, dpbVars, CoreInv, CallInv,
         StreamInv, PurgeInv
<1>2. \/ phase' = "purge" /\ ~purgeAll' /\ slot' = 0
      \/ phase' = "idle" /\ ~purgeAll'
  BY <1>1 DEF FirstSliceRefs, EnterPurge
<1>3. PocInv'
  BY <1>1, <1>2 DEF StreamInv, PocInv, HeldPocs
<1>4. PurgeInv'
  <2>1. \A s \in Slots : ~(s < 0)
    BY Constants DEF Slots
  <2>2. Cardinality({b \in DpbBufs(dpbSlot) : Marked(pocs, FALSE)[b]}) <= MaxRefs
    BY <1>1, MarkedFew DEF StreamInv
  <2>3. Cardinality({b \in DpbBufs(dpbSlot') : usedAsRef'[b]}) <= MaxRefs
    BY <1>1, <2>2
  <2> QED BY <1>1, <1>2, <2>1, <2>3 DEF PurgeInv
<1>5. BankInv'
  BY <1>1, BankNewSlice DEF StreamInv
<1> QED BY <1>3, <1>4, <1>5 DEF StreamInv

(* A later slice of the picture changes marks and starts the loop again.   *)
LEMMA StreamNextSlice ==
  ASSUME CoreInv, StreamInv,
         \/ NextSliceIntra
         \/ \E pocs \in SUBSET HeldPocs, inter \in BOOLEAN :
              NextSliceRefs(pocs, inter)
  PROVE  StreamInv'
<1>1. /\ phase = "decode" /\ curBuf # NoBuf /\ ~purgeAll
      /\ UNCHANGED <<picSt, mvSt, picPoc, mvPoc, dpbSlot, slicePoc, curBuf, curBank>>
      /\ \/ phase' = "purge" /\ slot' = 0
         \/ phase' = "decode" /\ ~purgeAll'
  BY DEF NextSliceIntra, NextSliceRefs, EnterPurge, mgrVars, dpbVars, CoreInv,
         CallInv, StreamInv, PurgeInv
<1>2. PocInv'
  BY <1>1 DEF StreamInv, PocInv, HeldPocs
<1>3. PurgeInv'
  <2>1. \A s \in Slots : ~(s < 0)
    BY Constants DEF Slots
  <2> QED BY <1>1, <2>1 DEF PurgeInv
<1>4. BankInv'
  BY <1>1, BankSame DEF StreamInv
<1> QED BY <1>2, <1>3, <1>4 DEF StreamInv

(* Pictures held differ in POC, so that ihevc_dpb_mgr_del_ref removes the  *)
(* picture of the slot the loop is at.                                     *)
LEMMA DelRefOwn ==
  ASSUME CoreInv, PocInv, NEW s \in Slots, dpbSlot[s] # NoBuf,
         DelRef(picPoc[dpbSlot[s]])
  PROVE  /\ dpbSlot[s] \in DpbBufs(dpbSlot) /\ dpbSlot[s] \in Bufs
         /\ picSt' = Released(picSt, dpbSlot[s], REF)
         /\ dpbSlot' = [dpbSlot EXCEPT ![s] = NoBuf]
         /\ DpbBufs(dpbSlot') = DpbBufs(dpbSlot) \ {dpbSlot[s]}
<1>0. /\ dpbSlot \in [Slots -> Bufs \cup {NoBuf}] /\ dpbList \in Seq(Slots)
      /\ \A t, u \in Slots : dpbSlot[t] = dpbSlot[u] /\ dpbSlot[t] # NoBuf => t = u
  BY DEF CoreInv, TypeOK, DpbIntact, IsIntact
<1>1. PICK n \in 1 .. Len(dpbList) :
        /\ picPoc[dpbSlot[dpbList[n]]] = picPoc[dpbSlot[s]]
        /\ picSt' = Released(picSt, dpbSlot[dpbList[n]], REF)
        /\ dpbSlot' = [dpbSlot EXCEPT ![dpbList[n]] = NoBuf]
        /\ dpbList' = Unlinked(dpbList, n)
  BY DEF DelRef, IsFirstWithPoc
<1>2. /\ dpbSlot[dpbList[n]] \in DpbBufs(dpbSlot)
      /\ DpbBufs(dpbSlot') = DpbBufs(dpbSlot) \ {dpbSlot[dpbList[n]]}
  BY <1>1, UnlinkKeepsIntact DEF CoreInv
<1>3. dpbSlot[s] \in DpbBufs(dpbSlot) /\ dpbSlot[s] \in Bufs
  BY <1>0 DEF DpbBufs
<1>4. dpbSlot[dpbList[n]] = dpbSlot[s]
  BY <1>1, <1>2, <1>3 DEF PocInv
<1>5. dpbList[n] = s
  <2>1. dpbList[n] \in Slots
    BY <1>0
  <2> QED BY <1>0, <1>4, <2>1
<1> QED BY <1>1, <1>2, <1>3, <1>4, <1>5

(* The bank the loop gives back is that of the picture: it is free then,   *)
(* and every other bank is what it was.                                    *)
LEMMA ReleaseBankOwn ==
  ASSUME CoreInv, BankInv, NEW b \in DpbBufs(dpbSlot), ReleaseBank(picPoc[b])
  PROVE  \E k \in Banks :
           /\ mvPoc[k] = picPoc[b] /\ mvSt[k] = {DEC, REF}
           /\ mvSt'[k] = {}
           /\ \A j \in Banks : j # k => mvSt'[j] = mvSt[j]
<1>1. PICK k \in Banks : /\ IsFirstBank(picPoc[b], k)
                         /\ mvSt' = Released(mvSt, k, REF)
  BY DEF ReleaseBank
<1>2. PICK m \in Banks : mvPoc[m] = picPoc[b] /\ REF \in mvSt[m]
  BY DEF BankInv
<1>3. m = k
  <2>1. mvPoc[k] = mvPoc[m] /\ k <= m /\ mvSt[m] # {}
    BY <1>1, <1>2 DEF IsFirstBank
  <2>2. ~(k < m)
    BY <2>1 DEF BankInv
  <2> QED BY <2>1, <2>2, BanksOrdered, Constants DEF Banks
<1>4. mvSt[k] = {DEC, REF}
  BY <1>2, <1>3, BitsDiffer DEF BankInv
<1>5. mvSt \in [Banks -> SUBSET StatusBits]
  BY DEF CoreInv, TypeOK
<1>6. mvSt'[k] = {}
  BY <1>1, <1>4, <1>5, BitsDiffer DEF Released
<1>7. \A j \in Banks : j # k => mvSt'[j] = mvSt[j]
  BY <1>1, <1>5 DEF Released
<1> QED BY <1>2, <1>3, <1>4, <1>6, <1>7

LEMMA StreamPurgeSlot ==
  ASSUME CoreInv, StreamInv, PurgeSlot
  PROVE  StreamInv'
<1>1. /\ phase = "purge" /\ slot \in Nat /\ slot \in Slots /\ slot' = slot + 1
      /\ UNCHANGED <<picPoc, usedAsRef, mvPoc, slicePoc, phase, purgeAll, curBuf, curBank>>
  <2>1. slot \in 0 .. NumSlots /\ slot < NumSlots
    BY DEF PurgeSlot, CoreInv, TypeOK
  <2>2. slot \in Nat /\ slot \in Slots
    BY <2>1, Constants DEF Slots
  <2> QED BY <2>2 DEF PurgeSlot
<1>2. \A s \in Slots : s < slot + 1 => s < slot \/ s = slot
  BY <1>1 DEF Slots
<1>3. CASE ~MustRelease(slot)
  <2>1. UNCHANGED <<picSt, mvSt, dpbSlot>>
    BY <1>3 DEF PurgeSlot, dpbVars
  <2>2. PocInv'
    BY <1>1, <2>1 DEF StreamInv, PocInv, HeldPocs
  <2>3. PurgeInv'
    BY <1>1, <1>2, <1>3, <2>1 DEF StreamInv, PurgeInv, MustRelease
  <2>4. BankInv'
    BY <1>1, <2>1, BankSame DEF StreamInv
  <2> QED BY <2>2, <2>3, <2>4 DEF StreamInv
<1>4. CASE MustRelease(slot)
  <2> DEFINE c == dpbSlot[slot]
  <2>1. /\ c # NoBuf
        /\ DelRef(picPoc[c]) /\ ReleaseBank(picPoc[c])
    BY <1>4 DEF PurgeSlot, MustRelease
  <2>2. /\ c \in DpbBufs(dpbSlot) /\ c \in Bufs
        /\ picSt' = Released(picSt, c, REF)
        /\ dpbSlot' = [dpbSlot EXCEPT ![slot] = NoBuf]
        /\ DpbBufs(dpbSlot') = DpbBufs(dpbSlot) \ {c}
    BY <1>1, <2>1, DelRefOwn DEF StreamInv
  <2>3. \A s \in Slots : dpbSlot'[s] = IF s = slot THEN NoBuf ELSE dpbSlot[s]
    BY <2>2 DEF CoreInv, TypeOK
  <2>4. PICK k \in Banks :
           /\ mvPoc[k] = picPoc[c] /\ mvSt[k] = {DEC, REF}
           /\ mvSt'[k] = {}
           /\ \A j \in Banks : j # k => mvSt'[j] = mvSt[j]
    BY <2>1, <2>2, ReleaseBankOwn DEF StreamInv
  <2> HIDE DEF c
  <2>5. PocInv'
    BY <1>1, <2>2 DEF StreamInv, PocInv, HeldPocs
  <2>6. PurgeInv'
    <3>1. SomeFree(picSt) => SomeFree(picSt')
      <4>1. \A b \in Bufs : b # c => picSt'[b] = picSt[b]
        BY <2>2 DEF Released, CoreInv, TypeOK
      <4>2. picSt[c] = {} => picSt'[c] = {}
        BY <2>2 DEF Released, CoreInv, TypeOK
      <4>3. DOMAIN picSt = Bufs /\ DOMAIN picSt' = Bufs
        BY <2>2 DEF Released, CoreInv, TypeOK
      <4> QED BY <4>1, <4>2, <4>3 DEF SomeFree, IsFree
    <3>2. curBuf = NoBuf /\ ~purgeAll =>
            Cardinality({b \in DpbBufs(dpbSlot') : usedAsRef[b]}) <= MaxRefs
      <4> DEFINE S == {b \in DpbBufs(dpbSlot) : usedAsRef[b]}
                 T == {b \in DpbBufs(dpbSlot') : usedAsRef[b]}
      <4>1. S \in SUBSET Bufs /\ T \in SUBSET S
        BY <2>2, HeldPocsFewer DEF CoreInv
      <4>2. Cardinality(S) \in Nat /\ Cardinality(T) \in Nat
            /\ Cardinality(T) <= Cardinality(S)
        BY <4>1, SubsetSmaller
      <4>3. curBuf = NoBuf /\ ~purgeAll => Cardinality(S) <= MaxRefs
        BY <1>1 DEF StreamInv, PurgeInv
      <4> QED BY <4>2, <4>3, SizesAssumption
    <3> QED BY <1>1, <1>2, <2>3, <3>1, <3>2 DEF StreamInv, PurgeInv
  <2>7. BankInv'
    <3>1. \A j \in Banks : mvSt'[j] # {} => j # k /\ mvSt'[j] = mvSt[j]
      BY <2>4
    <3>2. \A j \in Banks : mvSt'[j] \in {{}, {DEC}, {DEC, REF}}
      BY <2>4 DEF StreamInv, BankInv
    <3>3. ASSUME NEW b \in DpbBufs(dpbSlot')
          PROVE  \E j \in Banks : mvPoc[j] = picPoc[b] /\ REF \in mvSt'[j]
      <4>1. b \in DpbBufs(dpbSlot) /\ picPoc[b] # picPoc[c]
        BY <2>2 DEF StreamInv, PocInv
      <4>2. PICK j \in Banks : mvPoc[j] = picPoc[b] /\ REF \in mvSt[j]
        BY <4>1 DEF StreamInv, BankInv
      <4> QED BY <2>4, <4>1, <4>2
    <3>4. \A j, m \in Banks : mvSt'[m] # {} /\ j < m => mvPoc[j] # mvPoc[m]
      BY <3>1 DEF StreamInv, BankInv
    <3>5. NoLostBank'
      <4>1. SUFFICES ASSUME NEW m \in Banks, mvSt'[m] # {}
                     PROVE  m = curBank \/ \E b \in DpbBufs(dpbSlot') : picPoc[b] = mvPoc[m]
        BY <1>1 DEF NoLostBank
      <4>2. m # k /\ mvSt[m] # {} /\ mvSt[k] # {}
        BY <2>4, <3>1, <4>1
      <4>3. mvPoc[m] # picPoc[c]
        BY <2>4, <4>2, BanksOrdered DEF StreamInv, BankInv
      <4> QED BY <2>2, <4>2, <4>3 DEF StreamInv, BankInv, NoLostBank
    <3>6. curBank # NoBank => mvPoc[curBank] = slicePoc /\ mvSt'[curBank] = {DEC}
      <4>1. curBank # NoBank =>
              curBank \in Banks /\ mvPoc[curBank] = slicePoc /\ mvSt[curBank] = {DEC}
        BY DEF CoreInv, TypeOK, StreamInv, BankInv
      <4>2. {DEC} # {DEC, REF}
        BY BitsDiffer
      <4> QED BY <2>4, <4>1, <4>2
    <3> QED BY <1>1, <3>2, <3>3, <3>4, <3>5, <3>6 DEF BankInv
  <2> QED BY <2>5, <2>6, <2>7 DEF StreamInv
<1> QED BY <1>3, <1>4

LEMMA StreamPurgeDone ==
  ASSUME CoreInv, StreamInv, PurgeDone
  PROVE  StreamInv'
<1>1. /\ phase = "purge" /\ slot = NumSlots /\ ~purgeAll' /\ slot' = 0
      /\ phase' = IF curBuf = NoBuf THEN "init" ELSE "decode"
      /\ UNCHANGED <<picSt, mvSt, picPoc, usedAsRef, mvPoc, dpbSlot, slicePoc, curBuf,
                     curBank>>
  BY DEF PurgeDone, mgrVars, dpbVars
<1>2. \A s \in Slots : dpbSlot[s] # NoBuf => ~purgeAll /\ usedAsRef[dpbSlot[s]]
  <2>1. \A s \in Slots : s < NumSlots
    BY Constants DEF Slots
  <2> QED BY <1>1, <2>1 DEF StreamInv, PurgeInv
<1>3. /\ purgeAll => DpbBufs(dpbSlot) = {}
      /\ \A b \in DpbBufs(dpbSlot) : usedAsRef[b]
  BY <1>2 DEF DpbBufs, CoreInv, TypeOK
<1>4. PocInv'
  <2>1. slicePoc \notin HeldPocs
    BY <1>1, <1>3 DEF StreamInv, PocInv, HeldPocs
  <2> QED BY <1>1, <2>1 DEF StreamInv, PocInv, HeldPocs
<1>5. curBuf = NoBuf => Cardinality(DpbBufs(dpbSlot)) <= MaxRefs
  <2>1. CASE purgeAll
    BY <1>3, <2>1, FS_EmptySet, SizesAssumption
  <2>2. CASE ~purgeAll
    <3>1. {b \in DpbBufs(dpbSlot) : usedAsRef[b]} = DpbBufs(dpbSlot)
      BY <1>3
    <3> QED BY <1>1, <2>2, <3>1 DEF StreamInv, PurgeInv
  <2> QED BY <2>1, <2>2
<1>6. PurgeInv'
  BY <1>1, <1>5 DEF StreamInv, PurgeInv
<1>7. BankInv'
  BY <1>1, BankSame DEF StreamInv
<1> QED BY <1>4, <1>6, <1>7 DEF StreamInv

(* When the release loop is done the pools have room: fewer than all banks *)
(* are in use, since each belongs to a reference of its own POC, and fewer *)
(* than all buffers are references or waiting.                             *)
LEMMA PoolsHaveRoom ==
  ASSUME CoreInv, UseInv, CountInv, StreamInv, WithinLimits
  PROVE  PoolsSuffice
<1>1. SUFFICES ASSUME phase = "init" PROVE SomeFree(mvSt) /\ SomeFree(picSt)
  BY DEF PoolsSuffice
<1>2. /\ curBuf = NoBuf /\ curBank = NoBank
      /\ Cardinality(DpbBufs(dpbSlot)) <= MaxRefs
      /\ DpbBufs(dpbSlot) \in SUBSET Bufs
      /\ MaxRefs \in Nat /\ MaxReorder \in Nat /\ NumPics \in Nat /\ NumBanks \in Nat
  BY <1>1, HeldPocsFewer, SizesAssumption DEF CoreInv, CallInv, StreamInv, PurgeInv
<1>3. SomeFree(mvSt)
  <2>1. SUFFICES ASSUME ~SomeFree(mvSt) PROVE FALSE
    OBVIOUS
  <2>2. \A k \in Banks : mvSt[k] # {}
    BY <2>1 DEF SomeFree, IsFree, CoreInv, TypeOK
  <2> DEFINE f == [k \in Banks |-> mvPoc[k]]
  <2>3. \A k \in Banks : mvPoc[k] \in HeldPocs
    BY <1>2, <2>2, Constants DEF StreamInv, BankInv, NoLostBank, HeldPocs
  <2>4. \A j, k \in Banks : mvPoc[j] = mvPoc[k] => j = k
    BY <2>2, BanksOrdered DEF StreamInv, BankInv
  <2>5. f \in Injection(Banks, HeldPocs)
    BY <2>3, <2>4 DEF Injection, IsInjective
  <2>6. IsFiniteSet(HeldPocs) /\ Cardinality(HeldPocs) <= Cardinality(DpbBufs(dpbSlot))
        /\ Cardinality(HeldPocs) \in Nat
    BY HeldPocsFewer DEF CoreInv
  <2>7. NumBanks <= Cardinality(HeldPocs)
    BY <2>5, <2>6, BanksFinite, FS_Injection
  <2>8. Cardinality(DpbBufs(dpbSlot)) \in Nat
    BY <1>2, BufsFinite
  <2> QED BY <1>2, <2>6, <2>7, <2>8 DEF WithinLimits
<1>4. SomeFree(picSt)
  <2>1. CASE Shared
    BY <1>1, <1>2, <2>1 DEF StreamInv, PurgeInv
  <2>2. CASE ~Shared
    <3>1. SUFFICES ASSUME ~SomeFree(picSt) PROVE FALSE
      OBVIOUS
    <3>2. \A b \in Bufs : picSt[b] # {}
      BY <3>1 DEF SomeFree, IsFree, CoreInv, TypeOK
    <3>3. held = {} /\ ToBeSeen = Waiting(disp) \cup held
      BY <1>2, <2>2, SeenBetweenPictures DEF UseInv, OutputInv
    <3>4. Waiting(disp) \in SUBSET Bufs
      BY WaitingFinite DEF CoreInv
    <3>5. DpbBufs(dpbSlot) \cup Waiting(disp) = Bufs
      BY <1>2, <3>2, <3>3, <3>4, Constants DEF UseInv, NoLostBuffer
    <3>6. /\ IsFiniteSet(DpbBufs(dpbSlot)) /\ Cardinality(DpbBufs(dpbSlot)) \in Nat
          /\ IsFiniteSet(Waiting(disp)) /\ Cardinality(Waiting(disp)) \in Nat
          /\ Cardinality(DpbBufs(dpbSlot) \cap Waiting(disp)) \in Nat
          /\ Cardinality(Bufs) = NumPics
      BY <1>2, <3>4, BufsFinite
    <3>7. Cardinality(DpbBufs(dpbSlot) \cup Waiting(disp)) =
            Cardinality(DpbBufs(dpbSlot)) + Cardinality(Waiting(disp))
              - Cardinality(DpbBufs(dpbSlot) \cap Waiting(disp))
      BY <3>6, FS_Union
    <3>8. Cardinality(Waiting(disp)) <= MaxReorder /\ MaxRefs + MaxReorder < NumPics
      BY <2>2 DEF CountInv, WithinLimits
    <3>9. NumPics = Cardinality(DpbBufs(dpbSlot)) + Cardinality(Waiting(disp))
              - Cardinality(DpbBufs(dpbSlot) \cap Waiting(disp))
      BY <3>5, <3>6, <3>7
    <3> QED BY <1>2, <3>6, <3>8, <3>9
  <2> QED BY <2>1, <2>2
<1> QED BY <1>3, <1>4

(* No picture of the slice: the call ends with nothing acquired.           *)
LEMMA StreamNoPicture ==
  ASSUME CoreInv, UseInv, CountInv, StreamInv, WithinLimits,
         SkipPicture \/ NoFreeMvBank \/ NoFreePicBuf
  PROVE  StreamInv'
<1>1. ~NoFreeMvBank /\ ~NoFreePicBuf
  BY PoolsHaveRoom DEF PoolsSuffice, NoFreeMvBank, NoFreePicBuf
<1>2. /\ phase = "init" /\ phase' = "idle" /\ ~purgeAll'
      /\ UNCHANGED <<picSt, mvSt, picPoc, usedAsRef, mvPoc, dpbSlot, slicePoc, curBuf,
                     curBank>>
  BY <1>1 DEF SkipPicture, mgrVars, dpbVars, StreamInv, PurgeInv
<1>3. PocInv'
  BY <1>2 DEF StreamInv, PocInv, HeldPocs
<1>4. PurgeInv'
  BY <1>2 DEF PurgeInv
<1>5. BankInv'
  BY <1>2, BankSame DEF StreamInv
<1> QED BY <1>3, <1>4, <1>5 DEF StreamInv

(* The bank acquired is the first free one, and no bank before it has the  *)
(* POC of the picture.                                                     *)
LEMMA StreamPicInit ==
  ASSUME CoreInv, StreamInv, PicInit
  PROVE  StreamInv'
<1>1. PICK k \in Banks, b \in Bufs :
        /\ AcquireBank(k)
        /\ picSt[b] = {}
        /\ picPoc' = [picPoc EXCEPT ![b] = slicePoc]
        /\ curBank' = k
        /\ curBuf' = b
  BY DEF PicInit, IsNextFree, IsFree
<1>2. /\ phase = "init" /\ phase' = "decode" /\ ~purgeAll /\ ~purgeAll'
      /\ curBuf = NoBuf /\ curBank = NoBank /\ slicePoc \notin HeldPocs
      /\ UNCHANGED <<usedAsRef, dpbSlot, slicePoc>>
      /\ k # NoBank /\ b # NoBuf
  BY Constants DEF PicInit, dpbVars, CoreInv, CallInv, StreamInv, PurgeInv, PocInv
<1>3. /\ picPoc'[b] = slicePoc
      /\ \A c \in DpbBufs(dpbSlot) : picPoc'[c] = picPoc[c]
  <2>1. b \notin DpbBufs(dpbSlot)
    BY <1>1 DEF CoreInv, RefBitIsDpb
  <2>2. DpbBufs(dpbSlot) \subseteq Bufs
    BY HeldPocsFewer DEF CoreInv
  <2> QED BY <1>1, <2>1, <2>2 DEF CoreInv, TypeOK
<1>4. /\ mvSt[k] = {} /\ \A j \in Banks : j < k => mvSt[j] # {}
      /\ mvSt'[k] = {DEC} /\ mvPoc'[k] = slicePoc
      /\ \A j \in Banks : j # k => mvSt'[j] = mvSt[j] /\ mvPoc'[j] = mvPoc[j]
  <2>1. mvSt \in [Banks -> SUBSET StatusBits] /\ mvPoc \in [Banks -> Pocs]
    BY DEF CoreInv, TypeOK
  <2>2. mvSt[k] = {} /\ \A j \in Banks : mvSt[j] = {} => k <= j
    BY <1>1, <2>1 DEF AcquireBank, IsNextFree, IsFree
  <2>3. \A j \in Banks : j < k => ~(k <= j)
    BY Constants DEF Banks
  <2> QED BY <1>1, <2>1, <2>2, <2>3 DEF AcquireBank, Acquired
<1>5. HeldPocs' = HeldPocs
  BY <1>2, <1>3 DEF HeldPocs
<1>6. \A j \in Banks : mvSt[j] # {} => mvPoc[j] # slicePoc
  BY <1>2, Constants DEF StreamInv, BankInv, NoLostBank, HeldPocs
<1>7. PocInv'
  BY <1>1, <1>2, <1>3, <1>5 DEF StreamInv, PocInv
<1>8. PurgeInv'
  BY <1>1, <1>2 DEF PurgeInv
<1>9. BankInv'
  <2>1. \A j \in Banks : mvSt'[j] \in {{}, {DEC}, {DEC, REF}}
    BY <1>4 DEF StreamInv, BankInv
  <2>2. \A c \in DpbBufs(dpbSlot) : \E j \in Banks :
          mvPoc'[j] = picPoc'[c] /\ REF \in mvSt'[j]
    <3>1. SUFFICES ASSUME NEW c \in DpbBufs(dpbSlot)
                   PROVE  \E j \in Banks : mvPoc'[j] = picPoc'[c] /\ REF \in mvSt'[j]
      OBVIOUS
    <3>2. PICK j \in Banks : mvPoc[j] = picPoc[c] /\ REF \in mvSt[j]
      BY DEF StreamInv, BankInv
    <3> QED BY <1>3, <1>4, <3>2
  <2>3. NoLostBank'
    <3>1. SUFFICES ASSUME NEW m \in Banks, mvSt'[m] # {}
                   PROVE  m = k \/ \E c \in DpbBufs(dpbSlot) : picPoc'[c] = mvPoc'[m]
      BY <1>1, <1>2 DEF NoLostBank
    <3>2. CASE m # k
      <4>1. mvSt[m] # {} /\ mvPoc'[m] = mvPoc[m] /\ m # NoBank
        BY <1>4, <3>1, <3>2, Constants
      <4>2. \E c \in DpbBufs(dpbSlot) : picPoc[c] = mvPoc[m]
        BY <1>2, <4>1 DEF StreamInv, BankInv, NoLostBank
      <4> QED BY <1>3, <4>1, <4>2
    <3> QED BY <3>2
  <2>4. \A j, m \in Banks : mvSt'[m] # {} /\ j < m => mvPoc'[j] # mvPoc'[m]
    <3>1. SUFFICES ASSUME NEW j \in Banks, NEW m \in Banks, mvSt'[m] # {}, j < m
                   PROVE  mvPoc'[j] # mvPoc'[m]
      OBVIOUS
    <3>2. j # m
      BY <3>1, Constants DEF Banks
    <3>3. CASE m = k
      BY <1>4, <1>6, <3>1, <3>2, <3>3
    <3>4. CASE m # k
      BY <1>4, <1>6, <3>1, <3>2, <3>4 DEF StreamInv, BankInv
    <3> QED BY <3>3, <3>4
  <2> QED BY <1>1, <1>2, <1>4, <2>1, <2>2, <2>3, <2>4 DEF BankInv
<1> QED BY <1>7, <1>8, <1>9 DEF StreamInv

(* At its end the picture and its bank become a reference together.        *)
LEMMA StreamFinish ==
  ASSUME CoreInv, StreamInv, FinishPicture
  PROVE  StreamInv'
<1>1. /\ curBuf \in Bufs /\ curBuf # NoBuf /\ curBank \in Banks /\ curBank # NoBank
      /\ phase = "decode" /\ phase' = "idle" /\ ~purgeAll'
      /\ curBuf' = NoBuf /\ curBank' = NoBank
      /\ UNCHANGED <<picPoc, mvPoc, slicePoc>>
  BY Constants DEF FinishPicture, CoreInv, CallInv, TypeOK, StreamInv, PurgeInv
<1>2. /\ picPoc[curBuf] = slicePoc /\ slicePoc \notin HeldPocs
      /\ mvPoc[curBank] = slicePoc /\ mvSt[curBank] = {DEC}
  BY <1>1 DEF StreamInv, PocInv, BankInv
<1>3. DpbBufs(dpbSlot') = DpbBufs(dpbSlot) \cup {curBuf}
  <2>1. curBuf \notin DpbBufs(dpbSlot)
    BY <1>1, BitsDiffer DEF CoreInv, CallInv, RefBitIsDpb
  <2> QED BY <1>1, <2>1, InsertRefEffect DEF FinishPicture, CoreInv
<1>4. /\ mvSt'[curBank] = {DEC, REF}
      /\ \A j \in Banks : j # curBank => mvSt'[j] = mvSt[j]
  <2>1. mvSt \in [Banks -> SUBSET StatusBits]
    BY DEF CoreInv, TypeOK
  <2> QED BY <1>1, <1>2, <2>1 DEF FinishPicture, WithStatus
<1>5. PocInv'
  BY <1>1, <1>2, <1>3 DEF StreamInv, PocInv, HeldPocs
<1>6. PurgeInv'
  BY <1>1 DEF PurgeInv
<1>7. BankInv'
  <2>1. \A j \in Banks : mvSt'[j] \in {{}, {DEC}, {DEC, REF}}
    BY <1>4 DEF StreamInv, BankInv
  <2>2. \A c \in DpbBufs(dpbSlot') : \E j \in Banks :
          mvPoc[j] = picPoc[c] /\ REF \in mvSt'[j]
    <3>1. SUFFICES ASSUME NEW c \in DpbBufs(dpbSlot')
                   PROVE  \E j \in Banks : mvPoc[j] = picPoc[c] /\ REF \in mvSt'[j]
      OBVIOUS
    <3>2. CASE c = curBuf
      BY <1>1, <1>2, <1>4, <3>2
    <3>3. CASE c # curBuf
      <4>1. PICK j \in Banks : mvPoc[j] = picPoc[c] /\ REF \in mvSt[j]
        BY <1>3, <3>3 DEF StreamInv, BankInv
      <4> QED BY <1>4, <4>1
    <3> QED BY <3>2, <3>3
  <2>3. NoLostBank'
    <3>1. SUFFICES ASSUME NEW m \in Banks, mvSt'[m] # {}
                   PROVE  \E c \in DpbBufs(dpbSlot') : picPoc[c] = mvPoc[m]
      BY <1>1 DEF NoLostBank
    <3>2. CASE m = curBank
      BY <1>2, <1>3, <3>2
    <3>3. CASE m # curBank
      <4>1. mvSt[m] # {}
        BY <1>4, <3>1, <3>3
      <4> QED BY <1>3, <3>3, <4>1 DEF StreamInv, BankInv, NoLostBank
    <3> QED BY <3>2, <3>3
  <2>4. \A j, m \in Banks : mvSt'[m] # {} /\ j < m => mvPoc[j] # mvPoc[m]
    BY <1>2, <1>4 DEF StreamInv, BankInv
  <2> QED BY <1>1, <2>1, <2>2, <2>3, <2>4 DEF BankInv
<1> QED BY <1>5, <1>6, <1>7 DEF StreamInv

(* What happens between pictures leaves references and banks alone.        *)
LEMMA StreamBetween ==
  ASSUME CoreInv, StreamInv,
         \/ FlushOne \/ FlushEnd \/ SetFlushMode \/ ResolutionChange
         \/ SetDisplayFrame \/ \E b \in Bufs : RelDisplayFrame(b)
  PROVE  StreamInv'
<1>1. /\ phase = "idle"
      /\ UNCHANGED <<mvSt, picPoc, usedAsRef, mvPoc, dpbSlot, slicePoc, phase, purgeAll,
                     slot, curBuf, curBank>>
  BY DEF FlushOne, FlushEnd, InFlush, SetFlushMode, ResolutionChange, SetDisplayFrame,
         RelDisplayFrame, mgrVars, dpbVars, callVars
<1>2. PocInv'
  BY <1>1 DEF StreamInv, PocInv, HeldPocs
<1>3. PurgeInv'
  BY <1>1 DEF StreamInv, PurgeInv
<1>4. BankInv'
  BY <1>1, BankSame DEF StreamInv
<1> QED BY <1>2, <1>3, <1>4 DEF StreamInv

LEMMA StreamNext ==
  ASSUME WithinLimits, CoreInv, UseInv, CountInv, StreamInv, [Next]_vars
  PROVE  StreamInv'
<1>1. CASE SliceHeader
  BY <1>1, StreamFirstIntra, StreamFirstRefs, StreamNextSlice
     DEF SliceHeader, WithinLimits
<1>2. CASE PurgeSlot
  BY <1>2, StreamPurgeSlot
<1>3. CASE PurgeDone
  BY <1>3, StreamPurgeDone
<1>4. CASE SkipPicture \/ NoFreeMvBank \/ NoFreePicBuf
  BY <1>4, StreamNoPicture
<1>5. CASE PicInit
  BY <1>5, StreamPicInit
<1>6. CASE FinishPicture
  BY <1>6, StreamFinish
<1>7. CASE \/ FlushOne \/ FlushEnd \/ SetFlushMode \/ ResolutionChange
           \/ SetDisplayFrame \/ \E b \in Bufs : RelDisplayFrame(b)
  BY <1>7, StreamBetween
<1>8. CASE FlushReset \/ Reset
  BY <1>8, StreamCleared DEF FlushReset, Reset, InFlush
<1>9. CASE UNCHANGED vars
  BY <1>9, BankSame
     DEF vars, mgrVars, dpbVars, callVars, StreamInv, PocInv, PurgeInv, HeldPocs
<1> QED
  BY <1>1, <1>2, <1>3, <1>4, <1>5, <1>6, <1>7, <1>8, <1>9
     DEF Next, DecodeStep, ControlCall

LEMMA StreamCorrect ==
  SafeModes /\ WithinLimits => (Spec => [](CoreInv /\ UseInv /\ CountInv /\ StreamInv))
<1>1. SUFFICES ASSUME SafeModes, WithinLimits
               PROVE  Spec => [](CoreInv /\ UseInv /\ CountInv /\ StreamInv)
  OBVIOUS
<1>2. CoreInv /\ UseInv /\ CountInv /\ StreamInv /\ [Next]_vars => StreamInv'
  BY <1>1, StreamNext
<1> QED BY <1>1, <1>2, StreamInit, CountCorrect, PTL DEF Spec

(* A stream within its limits never meets IHEVCD_NO_FREE_MVBANK or         *)
(* IHEVCD_NO_FREE_PICBUF, whatever the sizes of the pools above those      *)
(* limits and the order of releases.                                       *)
THEOREM PoolsCorrect == SafeModes /\ WithinLimits => (Spec => []PoolsSuffice)
<1>1. SUFFICES ASSUME SafeModes, WithinLimits PROVE Spec => []PoolsSuffice
  OBVIOUS
<1>2. CoreInv /\ UseInv /\ CountInv /\ StreamInv => PoolsSuffice
  BY <1>1, PoolsHaveRoom
<1> QED BY <1>1, <1>2, StreamCorrect, PTL

(* For such a stream the bank the release loop finds first by POC is the   *)
(* bank of the reference it drops: no other bank in use has its POC.       *)
THEOREM BankFound == SafeModes /\ WithinLimits => (Spec => []BankOfReference)
<1>1. SUFFICES ASSUME SafeModes, WithinLimits PROVE Spec => []BankOfReference
  OBVIOUS
<1>2. ASSUME CoreInv, StreamInv PROVE BankOfReference
  <2>1. SUFFICES ASSUME NEW b \in DpbBufs(dpbSlot)
                 PROVE  \E k \in Banks :
                          /\ IsFirstBank(picPoc[b], k)
                          /\ REF \in mvSt[k]
                          /\ \A j \in Banks : mvSt[j] # {} /\ mvPoc[j] = picPoc[b] => j = k
    BY DEF BankOfReference
  <2>2. PICK k \in Banks : mvPoc[k] = picPoc[b] /\ REF \in mvSt[k]
    BY <1>2 DEF StreamInv, BankInv
  <2>3. \A j \in Banks : mvPoc[j] = picPoc[b] => k <= j
    <3>1. \A j \in Banks : j < k \/ k <= j
      BY Constants DEF Banks
    <3> QED BY <1>2, <2>2, <3>1 DEF StreamInv, BankInv
  <2>4. \A j \in Banks : mvSt[j] # {} /\ mvPoc[j] = picPoc[b] => j = k
    BY <1>2, <2>2, BanksOrdered DEF StreamInv, BankInv
  <2> QED BY <2>2, <2>3, <2>4 DEF IsFirstBank
<1> QED BY <1>1, <1>2, StreamCorrect, PTL

(* For such a stream every bank in use belongs to a reference or to the    *)
(* picture being decoded: none is lost, whatever slices are skipped.       *)
THEOREM BanksKept == SafeModes /\ WithinLimits => (Spec => []NoLostBank)
<1>1. SUFFICES ASSUME SafeModes, WithinLimits PROVE Spec => []NoLostBank
  OBVIOUS
<1>2. StreamInv => NoLostBank
  BY DEF StreamInv, BankInv
<1> QED BY <1>1, <1>2, StreamCorrect, PTL

(* The assertion of ihevc_buf_mgr.c: no buffer or bank is ever needed for  *)
(* reference only, since a reference keeps its DEC bit to the end.         *)
THEOREM StatusCorrect == SafeModes /\ WithinLimits => (Spec => []NeverOnlyReference)
<1>1. SUFFICES ASSUME SafeModes, WithinLimits PROVE Spec => []NeverOnlyReference
  OBVIOUS
<1>2. ASSUME CoreInv, StreamInv PROVE NeverOnlyReference
  <2>1. \A b \in Bufs : picSt[b] # {REF}
    BY <1>2, BitsDiffer DEF CoreInv, RefHasDec
  <2>2. \A k \in Banks : mvSt[k] # {REF}
    BY <1>2, BitsDiffer DEF StreamInv, BankInv
  <2> QED BY <2>1, <2>2 DEF NeverOnlyReference
<1> QED BY <1>1, <1>2, StreamCorrect, PTL

=============================================================================
