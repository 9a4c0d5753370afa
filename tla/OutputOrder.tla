----------------------------- MODULE OutputOrder ------------------------------
(***************************************************************************)
(* The order in which the decoder outputs pictures.  A picture order count *)
(* (POC) is coded by its low bits and counts from the start of a coded     *)
(* video sequence (CVS).  ihevcd_calc_poc extends it to one count for the  *)
(* whole stream, by which the display manager picks the picture that goes  *)
(* out when as many pictures wait as the stream reorders.                  *)
(*                                                                         *)
(* Pictures are decoded whole here (PicBufs has the calls' inside).        *)
(***************************************************************************)
EXTENDS Integers, FiniteSets

CONSTANTS
  MaxLsbs,    \* 1 << log2_max_pic_order_cnt_lsb of the SPSs of the stream
  Reorders,   \* sps_max_num_reorder_pics: the same in all SPSs of a stream
  StartKinds, \* pictures a CVS starts with: IDR, BLA, or a CRA after a flush
  MaxPoc,     \* bound: largest POC in a CVS
  MaxCvs,     \* bound: sequences in the stream
  MaxPics,    \* bound: pictures in a sequence
  IntHalf     \* WORD32 holds -IntHalf .. IntHalf - 1

ASSUME OrderAssumption ==
  /\ MaxLsbs \subseteq {n \in Nat : n >= 4 /\ n % 4 = 0}
  /\ Reorders \subseteq Nat
  /\ StartKinds \subseteq {"IDR", "BLA", "CRA"} /\ "IDR" \in StartKinds
  /\ MaxPoc \in Nat /\ MaxCvs \in Nat /\ MaxPics \in Nat /\ IntHalf \in Nat

VARIABLES
  reorder,   \* sps_max_num_reorder_pics of the active SPS
  \* the stream as it is coded
  cvs,       \* number of the current sequence
  maxLsb,    \* of the current sequence
  firstPoc,  \* POC of the picture the sequence started with
  tid0Poc,   \* POC of the last reference picture of temporal layer 0
  sent,      \* POCs of the pictures of the sequence sent so far
  \* the decoder
  firstDone, \* i4_first_pic_done
  prevMsb,   \* i4_prev_poc_msb
  prevLsb,   \* i4_prev_poc_lsb
  slicePoc,  \* s_parse.i4_abs_pic_order_cnt
  backlog,   \* u4_pic_cnt - u4_disp_cnt
  waiting,   \* disp_mgr_t: the pictures waiting, with their POC
  flushing,  \* i4_flush_mode
  \* what came of it
  lastOut,   \* the picture output last
  ignored    \* pictures of which the decoder ignored the first slice

streamVars == <<reorder, cvs, maxLsb, firstPoc, tid0Poc, sent>>
pocVars == <<firstDone, prevMsb, prevLsb, slicePoc>>
outVars == <<backlog, waiting, flushing, lastOut, ignored>>
vars == <<streamVars, pocVars, outVars>>

NoPoc == -1     \* s_parse.i4_abs_pic_order_cnt after ihevcd_init

(* Pictures in the order in which the stream means them to be shown.       *)
Before(p, q) == p.cvs < q.cvs \/ (p.cvs = q.cvs /\ p.poc < q.poc)

Init ==
  /\ reorder \in Reorders
  /\ cvs = 0
  /\ maxLsb \in MaxLsbs
  /\ firstPoc = 0
  /\ tid0Poc = 0
  /\ sent = {}
  /\ firstDone = FALSE
  /\ prevMsb = 0
  /\ prevLsb = -1
  /\ slicePoc = NoPoc
  /\ backlog = 0
  /\ waiting = {}
  /\ flushing = FALSE
  /\ lastOut = [cvs |-> 0, poc |-> 0]
  /\ ignored = {}

-----------------------------------------------------------------------------
(* ihevcd_calc_poc.                                                        *)

Wrapped(x) == ((x + IntHalf) % (2 * IntHalf)) - IntHalf

BaseMsb(max) == IF firstDone THEN prevMsb ELSE -2 * max

(* Mutant: only an IDR picture moves the count on. *)
StartsCountIfIdr(kind) == kind = "IDR" \/ (kind = "CRA" /\ ~firstDone)

StartsCount(kind) == kind \in {"IDR", "BLA"} \/ (kind = "CRA" /\ ~firstDone)

(* Mutant: the count moves on by one period of the low bits. *)
PocMsbOnePeriod(kind, lsb, max) ==
  LET msb == BaseMsb(max)
  IN IF StartsCount(kind) THEN Wrapped(msb + max)
     ELSE IF lsb < prevLsb /\ prevLsb - lsb >= max \div 2 THEN Wrapped(msb + max)
     ELSE IF lsb > prevLsb /\ lsb - prevLsb > max \div 2 THEN Wrapped(msb - max)
     ELSE msb

(* The start of a sequence moves the count on by two periods of the low    *)
(* bits, so that it passes all pictures sent before.                       *)
PocMsb(kind, lsb, max) ==
  LET msb == BaseMsb(max)
  IN IF StartsCount(kind) THEN Wrapped(msb + 2 * max)
     ELSE IF lsb < prevLsb /\ prevLsb - lsb >= max \div 2 THEN Wrapped(msb + max)
     ELSE IF lsb > prevLsb /\ lsb - prevLsb > max \div 2 THEN Wrapped(msb - max)
     ELSE msb

-----------------------------------------------------------------------------
(* Mutant: a picture goes out when more pictures wait than are reordered. *)
BumpLate(pictures) ==
  IF backlog > reorder
  THEN \E p \in pictures :
         /\ \A q \in pictures : p.abs <= q.abs
         /\ waiting' = pictures \ {p}
         /\ lastOut' = [cvs |-> p.cvs, poc |-> p.poc]
         /\ UNCHANGED backlog
  ELSE /\ waiting' = pictures
       /\ backlog' = backlog + 1
       /\ UNCHANGED lastOut

(* The end of ihevcd_parse_pic_init and u4_pic_cnt++ at the picture's end: *)
(* if enough pictures wait the one with the lowest POC goes out.           *)
Bump(pictures) ==
  IF backlog >= reorder
  THEN \E p \in pictures :
         /\ \A q \in pictures : p.abs <= q.abs
         /\ waiting' = pictures \ {p}
         /\ lastOut' = [cvs |-> p.cvs, poc |-> p.poc]
         /\ UNCHANGED backlog
  ELSE /\ waiting' = pictures
       /\ backlog' = backlog + 1
       /\ UNCHANGED lastOut

(* A picture of POC poc in sequence c: its first slice, and if that is not *)
(* taken for a repetition of the slice before, the picture.  Only          *)
(* reference pictures of temporal layer 0 are what later low bits are      *)
(* relative to.                                                            *)
Decode(kind, c, poc, max, anchor) ==
  LET lsb == poc % max
      msb == PocMsb(kind, lsb, max)
      abs == Wrapped(msb + lsb)
  IN /\ IF anchor THEN prevMsb' = msb /\ prevLsb' = lsb
        ELSE /\ prevMsb' = BaseMsb(max)
             /\ prevLsb' = IF StartsCount(kind) THEN 0 ELSE prevLsb
     /\ IF abs = slicePoc
        THEN /\ ignored' = ignored \cup {[cvs |-> c, poc |-> poc, kind |-> kind]}
             /\ UNCHANGED <<firstDone, slicePoc, backlog, waiting, lastOut>>
        ELSE /\ slicePoc' = abs
             /\ firstDone' = TRUE
             /\ Bump(waiting \cup {[cvs |-> c, poc |-> poc, abs |-> abs]})
             /\ UNCHANGED ignored
     /\ UNCHANGED flushing

(* A sequence starts: with an IDR picture of POC 0, or with a BLA picture, *)
(* or a CRA picture that comes first or after a flush, of any low bits.    *)
StartCvs(kind, max, lsb) ==
  /\ ~flushing
  /\ cvs < MaxCvs
  /\ kind = "CRA" => cvs = 0 \/ sent = {}
  /\ kind = "IDR" => lsb = 0
  /\ cvs' = cvs + 1
  /\ maxLsb' = max
  /\ firstPoc' = lsb
  /\ tid0Poc' = lsb
  /\ sent' = {lsb}
  /\ Decode(kind, cvs + 1, lsb, max, TRUE)
  /\ UNCHANGED reorder

(* Another picture of the sequence, leading ones (of a POC below that of   *)
(* the first) and later CRA pictures among them.  What the standard asks   *)
(* of its POC: it is new, within half a period of tid0Poc, no more         *)
(* pictures than the SPS says go before it and are shown after it, and a   *)
(* leading picture is not what later low bits are relative to.             *)
NextPic(poc, anchor) ==
  /\ ~flushing
  /\ sent # {} /\ Cardinality(sent) < MaxPics
  /\ poc \notin sent
  /\ poc - tid0Poc \in (1 - maxLsb \div 2) .. (maxLsb \div 2 - 1)
  /\ Cardinality({q \in sent : q > poc}) <= reorder
  /\ anchor => poc > firstPoc
  /\ sent' = sent \cup {poc}
  /\ tid0Poc' = IF anchor THEN poc ELSE tid0Poc
  /\ Decode("TRAIL", cvs, poc, maxLsb, anchor)
  /\ UNCHANGED <<reorder, cvs, maxLsb, firstPoc>>

(* ihevcd_set_flush_mode: the application is about to seek.                *)
Flush ==
  /\ ~flushing /\ sent # {}
  /\ flushing' = TRUE
  /\ backlog' = 0
  /\ sent' = {}
  /\ UNCHANGED <<reorder, cvs, maxLsb, firstPoc, tid0Poc, pocVars, waiting, lastOut, ignored>>

(* A call in flush mode takes out one picture; when there is none, the     *)
(* flush is over.                                                          *)
FlushOut ==
  /\ flushing
  /\ IF waiting = {}
     THEN flushing' = FALSE /\ UNCHANGED <<waiting, lastOut>>
     ELSE \E p \in waiting :
            /\ \A q \in waiting : p.abs <= q.abs
            /\ waiting' = waiting \ {p}
            /\ lastOut' = [cvs |-> p.cvs, poc |-> p.poc]
            /\ UNCHANGED flushing
  /\ UNCHANGED <<streamVars, pocVars, backlog, ignored>>

Next ==
  \/ \E kind \in StartKinds, max \in MaxLsbs : \E lsb \in 0 .. max - 1 :
       StartCvs(kind, max, lsb)
  \/ \E poc \in -MaxPoc .. MaxPoc, anchor \in BOOLEAN : NextPic(poc, anchor)
  \/ Flush
  \/ FlushOut

Spec == Init /\ [][Next]_vars

-----------------------------------------------------------------------------
(* Pictures go out in the order of the stream: all of a sequence before    *)
(* the next one's, and each sequence by POC.  ihevcd_calc_poc and the      *)
(* count of waiting pictures keep it, across leading pictures, BLA         *)
(* pictures, seeks and the periods of the low bits.                        *)
OutputInOrder == [][lastOut' # lastOut => Before(lastOut, lastOut')]_vars

(* No more pictures wait between calls than the stream reorders, so that a *)
(* picture goes out as soon as it can.                                     *)
NoLateOutput == Cardinality(waiting) <= reorder

(* A new picture is taken for a repetition of the one before, which the    *)
(* comparison of POCs in ihevcd_parse_slice_header is meant to find, only  *)
(* if it is a CRA picture after a flush: it does not move the count on,    *)
(* and its low bits may be those of the last picture decoded.              *)
OnlyAfterSeekIgnored == \A p \in ignored : p.kind = "CRA"

=============================================================================
