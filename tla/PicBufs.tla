------------------------------ MODULE PicBufs -------------------------------
(***************************************************************************)
(* The life of the decoder's picture buffers and motion vector (MV) banks. *)
(*                                                                         *)
(* ihevcd_decode takes one picture per call through a slice header         *)
(* (reference picture set, release of unused references), the picture's    *)
(* initialisation (a bank and a buffer are acquired, the picture is queued *)
(* for display and possibly another one taken for output) and its end (the *)
(* picture becomes a reference).  Between calls the application flushes,   *)
(* resets, hands display buffers over and gives them back.  The API is     *)
(* serial, so an action is a stretch of one call; the loop that releases   *)
(* references is one action per iteration.                                 *)
(***************************************************************************)
EXTENDS BufMgr, DpbMgr, DispMgr, FiniteSets

CONSTANTS
  NumPics,      \* picture buffers added to the picture buffer manager
  NumBanks,     \* i4_max_dpb_size: MV banks
  NumSlots,     \* MAX_DPB_BUFS
  MaxReorder,   \* sps_max_num_reorder_pics of the highest sub-layer
  FrameOutModes,  \* e_frm_out_mode == IVD_DECODE_FRAME_OUT, set between calls
  Shared,       \* i4_share_disp_buf
  Planar,       \* e_chroma_fmt == IV_YUV_420P
  Pocs,         \* picture order counts of the stream
  \* What the stream and the application may do:
  MaxRefs,      \* pictures a reference picture set keeps at most
  Conformant,   \* pictures held or waiting differ in POC, slices agree on the type
  OutBufFits    \* results of ihevcd_check_out_buf_size in a flush

Bufs  == 0 .. (NumPics - 1)
Banks == 0 .. (NumBanks - 1)
Slots == 0 .. (NumSlots - 1)
NoBank == -1
NoPoc  == -1      \* s_parse.i4_abs_pic_order_cnt before the first slice

ASSUME SizesAssumption ==
  /\ NumPics \in Nat \ {0}
  /\ NumBanks \in Nat \ {0}
  /\ NumSlots \in Nat /\ NumSlots >= NumPics
  /\ MaxReorder \in Nat
  /\ MaxRefs \in Nat

ASSUME ModesAssumption ==
  /\ {Shared, Planar, Conformant} \subseteq BOOLEAN
  /\ FrameOutModes \subseteq BOOLEAN
  /\ OutBufFits \subseteq BOOLEAN

(* POCs are 32-bit signed integers other than DEFAULT_POC; a freshly       *)
(* allocated bank or picture has POC 0 (memset).                           *)
ASSUME PocsAssumption == Pocs \subseteq Int \ {NotQueued} /\ 0 \in Pocs

VARIABLES
  attached,   \* shared mode: set_display_frame has added the buffers
  picSt,      \* status words of pv_pic_buf_mgr
  mvSt,       \* status words of pv_mv_buf_mgr
  picPoc,     \* pic_buf_t.i4_abs_poc
  usedAsRef,  \* pic_buf_t.u1_used_as_ref # UNUSED_FOR_REF
  mvPoc,      \* mv_buf_t.i4_abs_poc
  dpbSlot,    \* dpb_mgr_t.as_dpb_info[].ps_pic_buf
  dpbList,    \* the list from dpb_mgr_t.ps_dpb_head
  disp,       \* disp_mgr_t
  backlog,    \* u4_pic_cnt - u4_disp_cnt
  firstPic,   \* u4_pic_cnt == 0
  flushMode,  \* i4_flush_mode
  resetFlag,  \* i4_reset_flag
  slicePoc,   \* s_parse.i4_abs_pic_order_cnt
  phase,      \* where the decode call is
  purgeAll,   \* the release loop is the one of an IDR or BLA picture
  slot,       \* the slot the release loop is at
  curBuf,     \* ps_cur_pic (NoBuf: i4_pic_present == 0)
  curBank,    \* ps_cur_mv_buf
  dispBuf,    \* ps_disp_buf, the picture this call outputs
  held        \* shared mode: the buffers the application owns

mgrVars  == <<attached, picSt, mvSt, picPoc, usedAsRef, mvPoc>>
dpbVars  == <<dpbSlot, dpbList>>
dispVars == <<disp, backlog, firstPic, flushMode, resetFlag>>
callVars == <<slicePoc, phase, purgeAll, slot, curBuf, curBank, dispBuf>>
vars == <<mgrVars, dpbVars, dispVars, callVars, held>>

Phases == {"idle", "purge", "init", "decode"}
HeldPocs == {picPoc[b] : b \in DpbBufs(dpbSlot)}

-----------------------------------------------------------------------------
(* ihevcd_init: managers emptied, counts and flags cleared.  The dynamic   *)
(* buffers are freed, and are zero when they are next allocated.           *)
Cleared ==
  /\ attached' = ~Shared
  /\ picSt' = [b \in Bufs |-> {}]
  /\ mvSt' = [k \in Banks |-> {}]
  /\ picPoc' = [b \in Bufs |-> 0]
  /\ usedAsRef' = [b \in Bufs |-> FALSE]
  /\ mvPoc' = [k \in Banks |-> 0]
  /\ dpbSlot' = [s \in Slots |-> NoBuf]
  /\ dpbList' = <<>>
  /\ disp' = [b \in Bufs |-> NotQueued]
  /\ backlog' = 0
  /\ firstPic' = TRUE
  /\ flushMode' = FALSE
  /\ resetFlag' = FALSE
  /\ slicePoc' = NoPoc
  /\ held' = {}

Init ==
  /\ attached = ~Shared
  /\ picSt = [b \in Bufs |-> {}]
  /\ mvSt = [k \in Banks |-> {}]
  /\ picPoc = [b \in Bufs |-> 0]
  /\ usedAsRef = [b \in Bufs |-> FALSE]
  /\ mvPoc = [k \in Banks |-> 0]
  /\ dpbSlot = [s \in Slots |-> NoBuf]
  /\ dpbList = <<>>
  /\ disp = [b \in Bufs |-> NotQueued]
  /\ backlog = 0
  /\ firstPic = TRUE
  /\ flushMode = FALSE
  /\ resetFlag = FALSE
  /\ slicePoc = NoPoc
  /\ phase = "idle"
  /\ purgeAll = FALSE
  /\ slot = 0
  /\ curBuf = NoBuf
  /\ curBank = NoBank
  /\ dispBuf = NoBuf
  /\ held = {}

-----------------------------------------------------------------------------
(* The slice header.                                                       *)

(* A call decodes when it is not flushing and, in shared mode, there is a  *)
(* free buffer; otherwise ihevcd_decode has returned already.              *)
MayDecode ==
  /\ ~flushMode /\ ~resetFlag
  /\ Shared => attached /\ SomeFree(picSt)

(* What the stream may hold: at most MaxRefs references are kept, and in a *)
(* conformant stream the POC is not one of a picture held (unless all of   *)
(* them are about to go) or waiting for output.                            *)
StreamAllows(p, refs, all) ==
  /\ Cardinality(refs) <= MaxRefs
  /\ Conformant =>
       /\ all \/ p \notin HeldPocs
       /\ \A b \in Bufs : disp[b] # p

EnterPurge(all) == /\ phase' = "purge"
                   /\ purgeAll' = all
                   /\ slot' = 0

(* Mutant: the parse context keeps the POC of the picture before. *)
FirstSliceStalePoc(p) ==
  /\ phase = "idle" /\ MayDecode
  /\ p # slicePoc
  /\ StreamAllows(p, {}, TRUE)
  /\ EnterPurge(TRUE)
  /\ UNCHANGED <<mgrVars, dpbVars, dispVars, slicePoc, curBuf, curBank, dispBuf,
                 held>>

(* First slice of a picture of POC p that is IDR or BLA, or comes first    *)
(* after the start or a flush: all references go.  A first slice with the  *)
(* POC of the slice before it is ignored as a repetition.                  *)
FirstSliceIntra(p) ==
  /\ phase = "idle" /\ MayDecode
  /\ p # slicePoc
  /\ StreamAllows(p, {}, TRUE)
  /\ slicePoc' = p
  /\ EnterPurge(TRUE)
  /\ UNCHANGED <<mgrVars, dpbVars, dispVars, curBuf, curBank, dispBuf, held>>

(* ihevcd_ref_list marks the pictures found for the reference picture set. *)
(* For the first slice of a picture all marks are cleared first.  Entries  *)
(* that are not found take the nearest marked picture; an inter slice that *)
(* finds no marked picture returns IHEVCD_REF_PIC_NOT_FOUND before the     *)
(* release loop.                                                           *)
Marked(pocs, keep) ==
  [b \in Bufs |-> IF b \in DpbBufs(dpbSlot)
                  THEN \/ b \in RefsByPoc(dpbSlot, dpbList, picPoc, pocs)
                       \/ keep /\ usedAsRef[b]
                  ELSE usedAsRef[b]]

RefNotFound(inter, marks) ==
  inter /\ ~ \E b \in DpbBufs(dpbSlot) : marks[b]

FirstSliceRefs(p, pocs, inter) ==
  LET marks == Marked(pocs, FALSE)
  IN /\ phase = "idle" /\ MayDecode
     /\ ~firstPic
     /\ p # slicePoc
     /\ StreamAllows(p, pocs, FALSE)
     /\ slicePoc' = p
     /\ usedAsRef' = marks
     /\ IF RefNotFound(inter, marks)
        THEN UNCHANGED <<phase, purgeAll, slot>>
        ELSE EnterPurge(FALSE)
     /\ UNCHANGED <<attached, picSt, mvSt, picPoc, mvPoc, dpbVars, dispVars,
                    curBuf, curBank, dispBuf, held>>

(* A later slice of the picture being decoded repeats the same work, with  *)
(* the marks kept.  The slice's NAL type is not compared with the first    *)
(* one's, so that in a stream that does not conform it may be IDR.         *)
NextSliceIntra ==
  /\ phase = "decode"
  /\ Conformant => firstPic
  /\ EnterPurge(TRUE)
  /\ UNCHANGED <<mgrVars, dpbVars, dispVars, slicePoc, curBuf, curBank, dispBuf,
                 held>>

NextSliceRefs(pocs, inter) ==
  LET marks == Marked(pocs, TRUE)
  IN /\ phase = "decode"
     /\ ~firstPic
     /\ usedAsRef' = marks
     /\ IF RefNotFound(inter, marks)
        THEN UNCHANGED <<phase, purgeAll, slot>>
        ELSE EnterPurge(FALSE)
     /\ UNCHANGED <<attached, picSt, mvSt, picPoc, mvPoc, dpbVars, dispVars,
                    slicePoc, curBuf, curBank, dispBuf, held>>

-----------------------------------------------------------------------------
(* The release loop of ihevcd_ref_list, and that of the slice header of an *)
(* IDR or BLA picture: one slot per step.                                  *)

(* Mutant: unmarked references are left alone. *)
MustReleaseIfAll(s) == dpbSlot[s] # NoBuf /\ purgeAll

MustRelease(s) ==
  dpbSlot[s] # NoBuf /\ (purgeAll \/ ~usedAsRef[dpbSlot[s]])

(* Mutant: the picture released is the head of the list, not the one found.*)
DelHead(p) ==
  \E n \in 1 .. Len(dpbList) :
    /\ IsFirstWithPoc(dpbSlot, dpbList, picPoc, p, n)
    /\ picSt' = Released(picSt, dpbSlot[dpbList[1]], REF)
    /\ dpbSlot' = [dpbSlot EXCEPT ![dpbList[n]] = NoBuf]
    /\ dpbList' = Unlinked(dpbList, n)

(* ihevc_dpb_mgr_del_ref unlinks the most recent picture of that POC.      *)
DelRef(p) ==
  \E n \in 1 .. Len(dpbList) :
    /\ IsFirstWithPoc(dpbSlot, dpbList, picPoc, p, n)
    /\ picSt' = Released(picSt, dpbSlot[dpbList[n]], REF)
    /\ dpbSlot' = [dpbSlot EXCEPT ![dpbList[n]] = NoBuf]
    /\ dpbList' = Unlinked(dpbList, n)

(* The MV bank to release is the first one whose POC matches.              *)
IsFirstBank(p, k) == mvPoc[k] = p /\ \A j \in Banks : mvPoc[j] = p => k <= j

(* Mutant: the loop of ihevcd_ref_list does not give the bank back. *)
ReleaseBankIfAll(p) ==
  \E k \in Banks :
    IsFirstBank(p, k) /\ mvSt' = IF purgeAll THEN Released(mvSt, k, REF) ELSE mvSt

(* There is one: as many banks with a POC are in use as references have it.*)
ReleaseBank(p) ==
  \E k \in Banks : IsFirstBank(p, k) /\ mvSt' = Released(mvSt, k, REF)

PurgeSlot ==
  /\ phase = "purge" /\ slot < NumSlots
  /\ IF MustRelease(slot)
     THEN DelRef(picPoc[dpbSlot[slot]]) /\ ReleaseBank(picPoc[dpbSlot[slot]])
     ELSE UNCHANGED <<picSt, mvSt, dpbVars>>
  /\ slot' = slot + 1
  /\ UNCHANGED <<attached, picPoc, usedAsRef, mvPoc, dispVars, slicePoc, phase,
                 purgeAll, curBuf, curBank, dispBuf, held>>

PurgeDone ==
  /\ phase = "purge" /\ slot = NumSlots
  /\ phase' = IF curBuf = NoBuf THEN "init" ELSE "decode"
  /\ purgeAll' = FALSE
  /\ slot' = 0
  /\ UNCHANGED <<mgrVars, dpbVars, dispVars, slicePoc, curBuf, curBank, dispBuf,
                 held>>

-----------------------------------------------------------------------------
(* ihevcd_parse_pic_init and the errors before it.                         *)

(* No picture comes of the slice: a skipped RASL picture, a picture type   *)
(* the application does not want, a later error in the header, or an       *)
(* output buffer that is too small.                                        *)
SkipPicture ==
  /\ phase = "init"
  /\ phase' = "idle"
  /\ UNCHANGED <<mgrVars, dpbVars, dispVars, slicePoc, purgeAll, slot, curBuf,
                 curBank, dispBuf, held>>

NoFreeMvBank ==
  /\ phase = "init"
  /\ ~SomeFree(mvSt)
  /\ phase' = "idle"
  /\ UNCHANGED <<mgrVars, dpbVars, dispVars, slicePoc, purgeAll, slot, curBuf,
                 curBank, dispBuf, held>>

AcquireBank(k) ==
  /\ IsNextFree(mvSt, k)
  /\ mvSt' = Acquired(mvSt, k)
  /\ mvPoc' = [mvPoc EXCEPT ![k] = slicePoc]

(* IHEVCD_NO_FREE_PICBUF returns with the bank acquired.                   *)
NoFreePicBuf ==
  /\ phase = "init"
  /\ ~SomeFree(picSt)
  /\ \E k \in Banks : AcquireBank(k)
  /\ phase' = "idle"
  /\ UNCHANGED <<attached, picSt, picPoc, usedAsRef, dpbVars, dispVars, slicePoc,
                 purgeAll, slot, curBuf, curBank, dispBuf, held>>

(* Mutant: u4_disp_cnt is not incremented. *)
BumpUncounted(queue, frameOut) ==
  /\ UNCHANGED backlog
  /\ IF backlog >= MaxReorder \/ frameOut
     THEN \E b \in Bufs : /\ IsNextOutput(queue, b)
                          /\ disp' = Dequeued(queue, b)
                          /\ dispBuf' = b
     ELSE disp' = queue /\ dispBuf' = NoBuf

(* The picture is queued, and when enough pictures wait one is taken out:  *)
(* possibly the current one, which is not decoded yet.                     *)
Bump(queue, frameOut) ==
  IF backlog >= MaxReorder \/ frameOut
  THEN \E b \in Bufs : /\ IsNextOutput(queue, b)
                       /\ disp' = Dequeued(queue, b)
                       /\ dispBuf' = b
                       /\ backlog' = backlog - 1
  ELSE /\ disp' = queue
       /\ dispBuf' = NoBuf
       /\ UNCHANGED backlog

PicInit ==
  /\ phase = "init"
  /\ \E k \in Banks, b \in Bufs :
       /\ AcquireBank(k)
       /\ IsNextFree(picSt, b)
       /\ picSt' = Acquired(picSt, b)
       /\ picPoc' = [picPoc EXCEPT ![b] = slicePoc]
       /\ curBank' = k
       /\ curBuf' = b
       /\ \E frameOut \in FrameOutModes : Bump(Queued(disp, b, slicePoc), frameOut)
  /\ phase' = "decode"
  /\ UNCHANGED <<attached, usedAsRef, dpbVars, firstPic, flushMode, resetFlag,
                 slicePoc, purgeAll, slot, held>>

-----------------------------------------------------------------------------
(* The end of ihevcd_decode for a picture: it becomes a reference and      *)
(* waits for display; the picture that was output is given up at once in   *)
(* non-shared mode, where it was copied, and by the application otherwise. *)

(* ihevc_dpb_mgr_insert_ref.  Its error returns do not occur: the buffer   *)
(* is not in the DPB (RefinesPool), and there are as many slots as there   *)
(* can be buffers (MAX_DPB_BUFS = BUF_MGR_MAX_CNT).                        *)
InsertRef(b) ==
  \E s \in Slots :
    /\ IsInsertSlot(dpbSlot, s)
    /\ dpbSlot' = [dpbSlot EXCEPT ![s] = b]
    /\ dpbList' = Linked(dpbList, s)
    /\ usedAsRef' = [usedAsRef EXCEPT ![b] = TRUE]

(* Mutants: the buffer is given up in shared mode too, or the wrong one is.*)
DisplayedShared(st) == IF dispBuf # NoBuf THEN Released(st, dispBuf, DISP) ELSE st
DisplayedCurrent(st) ==
  IF dispBuf # NoBuf /\ ~Shared THEN Released(st, curBuf, DISP) ELSE st

Displayed(st) ==
  IF dispBuf # NoBuf /\ ~Shared THEN Released(st, dispBuf, DISP) ELSE st

FinishPicture ==
  /\ phase = "decode"
  /\ mvSt' = WithStatus(mvSt, curBank, REF)
  /\ LET done == WithStatus(WithStatus(picSt, curBuf, REF), curBuf, DISP)
     IN picSt' = Displayed(done)
  /\ InsertRef(curBuf)
  /\ held' = IF dispBuf # NoBuf /\ Shared THEN held \cup {dispBuf} ELSE held
  /\ backlog' = backlog + 1
  /\ firstPic' = FALSE
  /\ phase' = "idle"
  /\ curBuf' = NoBuf
  /\ curBank' = NoBank
  /\ dispBuf' = NoBuf
  /\ UNCHANGED <<attached, picPoc, mvPoc, disp, flushMode, resetFlag, slicePoc,
                 purgeAll, slot>>

-----------------------------------------------------------------------------
(* Flush, reset and the hand-over of display buffers.                      *)

(* ihevcd_set_flush_mode *)
SetFlushMode ==
  /\ phase = "idle"
  /\ flushMode' = TRUE
  /\ backlog' = 0
  /\ firstPic' = TRUE
  /\ UNCHANGED <<mgrVars, dpbVars, disp, resetFlag, callVars, held>>

(* ihevcd_parse_sps meets other dimensions or buffer needs: the next calls *)
(* flush, and then the decoder starts anew.                                *)
ResolutionChange ==
  /\ phase = "idle" /\ MayDecode
  /\ resetFlag' = TRUE
  /\ UNCHANGED <<mgrVars, dpbVars, disp, backlog, firstPic, flushMode, callVars,
                 held>>

InFlush == phase = "idle" /\ (flushMode \/ resetFlag)

(* A decode call in flush mode outputs one waiting picture.  Private       *)
(* buffers, and shared ones whose chroma is converted to planar, are       *)
(* released at once; a small output buffer returns before that.            *)
FlushOne ==
  /\ InFlush
  /\ flushMode' = TRUE
  /\ \E b \in Bufs :
       /\ IsNextOutput(disp, b)
       /\ disp' = Dequeued(disp, b)
       /\ \E fits \in (IF Shared THEN {TRUE} ELSE OutBufFits) :
            picSt' = IF (~Shared \/ Planar) /\ fits
                     THEN Released(picSt, b, DISP)
                     ELSE picSt
       /\ held' = IF Shared THEN held \cup {b} ELSE held
  /\ UNCHANGED <<attached, mvSt, picPoc, usedAsRef, mvPoc, dpbVars, backlog,
                 firstPic, resetFlag, callVars>>

(* Mutants: flush mode is left with pictures waiting, or not at all. *)
FlushEndEarly ==
  /\ InFlush /\ ~resetFlag
  /\ flushMode' = FALSE
  /\ UNCHANGED <<mgrVars, dpbVars, disp, backlog, firstPic, resetFlag, callVars,
                 held>>
FlushEndStays ==
  /\ InFlush /\ ~resetFlag
  /\ Waiting(disp) = {}
  /\ UNCHANGED vars

(* With nothing left the decoder leaves flush mode.                        *)
FlushEnd ==
  /\ InFlush /\ ~resetFlag
  /\ Waiting(disp) = {}
  /\ flushMode' = FALSE
  /\ UNCHANGED <<mgrVars, dpbVars, disp, backlog, firstPic, resetFlag, callVars,
                 held>>

FlushReset ==
  /\ InFlush /\ resetFlag
  /\ Waiting(disp) = {}
  /\ Cleared
  /\ UNCHANGED <<phase, purgeAll, slot, curBuf, curBank, dispBuf>>

(* ihevcd_reset *)
Reset ==
  /\ phase = "idle"
  /\ Cleared
  /\ UNCHANGED <<phase, purgeAll, slot, curBuf, curBank, dispBuf>>

(* ihevcd_set_display_frame: the application still owns the buffers.       *)
SetDisplayFrame ==
  /\ phase = "idle"
  /\ Shared /\ ~attached
  /\ attached' = TRUE
  /\ picSt' = [b \in Bufs |-> {DISP}]
  /\ held' = Bufs
  /\ UNCHANGED <<mvSt, picPoc, usedAsRef, mvPoc, dpbVars, dispVars, callVars>>

(* ihevcd_rel_display_frame, for a buffer the application owns             *)
RelDisplayFrame(b) ==
  /\ phase = "idle"
  /\ Shared /\ b \in held
  /\ picSt' = Released(picSt, b, DISP)
  /\ held' = held \ {b}
  /\ UNCHANGED <<attached, mvSt, picPoc, usedAsRef, mvPoc, dpbVars, dispVars,
                 callVars>>

-----------------------------------------------------------------------------
SliceHeader ==
  \/ \E p \in Pocs : FirstSliceIntra(p)
  \/ \E p \in Pocs, pocs \in SUBSET HeldPocs, inter \in BOOLEAN :
       FirstSliceRefs(p, pocs, inter)
  \/ NextSliceIntra
  \/ \E pocs \in SUBSET HeldPocs, inter \in BOOLEAN : NextSliceRefs(pocs, inter)

DecodeStep ==
  \/ SliceHeader \/ PurgeSlot \/ PurgeDone
  \/ SkipPicture \/ NoFreeMvBank \/ NoFreePicBuf \/ PicInit \/ FinishPicture
  \/ FlushOne \/ FlushEnd \/ FlushReset

ControlCall ==
  \/ SetFlushMode \/ ResolutionChange \/ Reset \/ SetDisplayFrame
  \/ \E b \in Bufs : RelDisplayFrame(b)

Next == DecodeStep \/ ControlCall

Spec == Init /\ [][Next]_vars

(* The application keeps calling ihevcd_decode until the flush is over.    *)
FairSpec == Spec /\ WF_vars(FlushOne) /\ WF_vars(FlushEnd) /\ WF_vars(FlushReset)

-----------------------------------------------------------------------------
(* Properties.                                                             *)

(* Every variable has its type. *)
TypeOK ==
  /\ attached \in BOOLEAN
  /\ picSt \in [Bufs -> SUBSET StatusBits]
  /\ mvSt \in [Banks -> SUBSET StatusBits]
  /\ picPoc \in [Bufs -> Pocs]
  /\ usedAsRef \in [Bufs -> BOOLEAN]
  /\ mvPoc \in [Banks -> Pocs]
  /\ dpbSlot \in [Slots -> Bufs \cup {NoBuf}]
  /\ dpbList \in Seq(Slots)
  /\ disp \in [Bufs -> Pocs \cup {NotQueued}]
  /\ backlog \in Int
  /\ firstPic \in BOOLEAN
  /\ flushMode \in BOOLEAN
  /\ resetFlag \in BOOLEAN
  /\ slicePoc \in Pocs \cup {NoPoc}
  /\ phase \in Phases
  /\ purgeAll \in BOOLEAN
  /\ slot \in 0 .. NumSlots
  /\ curBuf \in Bufs \cup {NoBuf}
  /\ curBank \in Banks \cup {NoBank}
  /\ dispBuf \in Bufs \cup {NoBuf}
  /\ held \in SUBSET Bufs

(* Pictures someone still has to see: those waiting for output, the one    *)
(* this call outputs, and those the application owns.  The picture being   *)
(* decoded counts from the end of its decoding.                            *)
ToBeSeen == ((Waiting(disp) \cup {dispBuf}) \ {curBuf, NoBuf}) \cup held

(* The linked list threads exactly the occupied slots, each once, and no   *)
(* buffer is in two of them.                                               *)
DpbIntact == IsIntact(dpbSlot, dpbList)

(* A picture buffer has its REF bit exactly while the DPB holds it: a      *)
(* reference is never free, and one that is dropped is never kept.         *)
RefBitIsDpb == \A b \in Bufs : REF \in picSt[b] <=> b \in DpbBufs(dpbSlot)

(* A picture buffer has its DISP bit exactly while it is still to be seen. *)
DispBitIsUse == \A b \in Bufs : DISP \in picSt[b] <=> b \in ToBeSeen

(* The assertion "status != 2" of every function of ihevc_buf_mgr.c: no    *)
(* buffer or bank is needed for reference only.                            *)
NeverOnlyReference ==
  /\ \A b \in Bufs : picSt[b] # {REF}
  /\ \A k \in Banks : mvSt[k] # {REF}

(* A picture buffer no one uses is free: none is lost for good.            *)
NoLostBuffer ==
  \A b \in Bufs : picSt[b] # {} =>
    b \in DpbBufs(dpbSlot) \cup ToBeSeen \cup {curBuf}

(* Outside a flush, u4_pic_cnt - u4_disp_cnt, on which ihevcd_parse_pic_   *)
(* init decides whether to output, is the number of pictures waiting.      *)
BacklogIsQueue ==
  phase = "idle" /\ ~flushMode => backlog = Cardinality(Waiting(disp))

(* The first bank with the POC of a reference, the one the release loop    *)
(* gives back, is the bank that reference was decoded into: it is in use   *)
(* for reference, and no other bank in use has the POC.                    *)
BankOfReference ==
  \A b \in DpbBufs(dpbSlot) : \E k \in Banks :
    /\ IsFirstBank(picPoc[b], k)
    /\ REF \in mvSt[k]
    /\ \A j \in Banks : mvSt[j] # {} /\ mvPoc[j] = picPoc[b] => j = k

(* A bank in use belongs to a reference or to the picture being decoded.   *)
NoLostBank ==
  \A k \in Banks : mvSt[k] # {} =>
    k = curBank \/ \E b \in DpbBufs(dpbSlot) : picPoc[b] = mvPoc[k]

(* A stream that keeps no more references than its SPS announces never     *)
(* meets IHEVCD_NO_FREE_MVBANK or IHEVCD_NO_FREE_PICBUF: the pools are     *)
(* large enough for the references, the pictures waiting and the current   *)
(* one.                                                                    *)
PoolsSuffice == phase = "init" => SomeFree(mvSt) /\ SomeFree(picSt)

(* "Decoder will come out of flush only after returning all the buffers or *)
(* at reset": when it leaves flush mode no buffer is marked for display.   *)
FlushReturnsAll ==
  [][flushMode /\ ~flushMode' =>
       \A b \in Bufs : DISP \in picSt'[b] => b \in held']_vars

(* "Till release is called, codec can not write to this buffer": the       *)
(* application's buffers keep what was decoded into them.                  *)
AppOwnsUntilRelease == curBuf # NoBuf => curBuf \notin held

(* The buffers behave as BufPool says: one is decoded into only when it is *)
(* not a reference of the picture, does not wait for output and is not in  *)
(* the application's hands.                                                *)
Pool == INSTANCE BufPool WITH
          writing <- {curBuf} \ {NoBuf},
          refs    <- DpbBufs(dpbSlot),
          shown   <- ToBeSeen
RefinesPool == Pool!Spec

(* A flush comes to its end: the queue empties, one picture per call.      *)
FlushEnds == flushMode ~> ~flushMode

=============================================================================
