------------------------------- MODULE PreEncode -------------------------------
(***************************************************************************)
(* The encoder's pre-encode threads.  All of them take every frame through *)
(* decomposition, coarse motion estimation and, with a delay of the        *)
(* look-ahead, through the intra analysis of the full picture (L0 IPE).    *)
(* The state of a frame is kept in a slot of a ring.  A stage is set up by *)
(* the first thread that comes to it and closed by the last one to leave;  *)
(* each thread waits before a stage until all have left it with the frame  *)
(* before.                                                                 *)
(*                                                                         *)
(* The threads of the encode group are one process here: it gets a frame   *)
(* from two queues, sets the next QP for the L0 IPE, encodes the frame and *)
(* gives the buffers back.  Rate control is not constant QP; there is one  *)
(* bit rate.  The last frame has no picture, only the end flag.            *)
(***************************************************************************)
EXTENDS Integers, FiniteSets, FrameQueue

CONSTANTS
  Threads,      \* i4_num_pre_enc_proc_thrds of them
  LookAheads,   \* values of i4_rc_look_ahead_pics
  Frames        \* bound: frames before the one with the end flag

ASSUME SizesAssumption ==
  /\ IsFiniteSet(Threads) /\ Threads # {} /\ Frames \in Nat
  /\ LookAheads \subseteq Nat /\ IsFiniteSet(LookAheads)

VARIABLES
  lookAhead,  \* i4_rc_look_ahead_pics
  slot,       \* the arrays of multi_thrd_ctxt_t that are indexed by the slot
  taken,      \* frames got from the look-ahead processing
  left,       \* frames that all threads have left, in each stage
  preQ,       \* IHEVCE_PRE_ENC_ME_Q
  l0Q,        \* IHEVCE_L0_IPE_ENC_Q
  l0Out,      \* i4_L0_IPE_out_buf_id
  preBuf,     \* what is in the buffers of preQ: a frame, and its QP
  l0Buf,      \* and in those of l0Q
  rc,         \* the queue of QPs for the L0 IPE, and i4_qp_update_l0_ipe
  preSem,     \* pv_pre_enc_frm_proc_sem_handle
  encSem,     \* pv_enc_frm_proc_sem_handle
  ctx,        \* where each thread is
  enc         \* where the encode group is

vars == <<lookAhead, slot, taken, left, preQ, l0Q, l0Out, preBuf, l0Buf, rc, preSem, encSem,
          ctx, enc>>

Nothing == -1
LastFrame == Frames
Valid(f) == f < LastFrame

MIN_L1_L0_STAGGER_NON_SEQ == 1
NUM_BUFS_DECOMP_HME == 1
MIN_L0_IPE_ENC_STAGGER == 1
MIN_PRE_ENC_RC_DELAY == MIN_L0_IPE_ENC_STAGGER + 1 + NUM_BUFS_DECOMP_HME

(* Mutant: the ring has a slot for each frame of the delay only. *)
MaxDelayShort(la) == MIN_L1_L0_STAGGER_NON_SEQ + la

(* i4_max_delay_pre_me_btw_l0_ipe, the slots of the ring.                  *)
MaxDelay(la) == MIN_L1_L0_STAGGER_NON_SEQ + la + 1

(* i4_delay_pre_me_btw_l0_ipe.                                             *)
Delay(la) == IF la > 0 THEN MIN_L1_L0_STAGGER_NON_SEQ + la ELSE 0

NumPreEncBufs(la) ==
  MIN_L1_L0_STAGGER_NON_SEQ + la + (MIN_L0_IPE_ENC_STAGGER - 1) + NUM_BUFS_DECOMP_HME

SlotOf(f) == f % MaxDelay(lookAhead)

EmptySlot == [inp |-> Nothing, out |-> Nothing, initDone |-> FALSE, hmeInit |-> Nothing,
              complete |-> TRUE, decomp |-> 0, coarse |-> 0, qpInit |-> 0, ipe |-> 0,
              end |-> FALSE]

(* A QP is known by the number of frames whose bits went into it.  The     *)
(* first ones are made before any.                                         *)
InitRc ==
  [queue |-> [i \in 0 .. MIN_PRE_ENC_RC_DELAY - 1 |->
                IF i < MIN_PRE_ENC_RC_DELAY - 1 THEN 0 ELSE Nothing],
   read |-> 0, write |-> MIN_PRE_ENC_RC_DELAY - 1, update |-> Nothing]

(* A thread's frame in the first two stages, its frame in the L0 IPE, the  *)
(* number of frames in between, and its i4_end_flag.                       *)
Start == [at |-> "decomp", f |-> 0, ipe |-> 0, ready |-> 0, end |-> FALSE, asleep |-> FALSE]

Init ==
  /\ lookAhead \in LookAheads
  /\ slot = [i \in 0 .. MaxDelay(lookAhead) - 1 |-> EmptySlot]
  /\ taken = 0
  /\ left = [decomp |-> 0, coarse |-> 0, ipe |-> 0]
  /\ preQ = EmptyQueue(0 .. NumPreEncBufs(lookAhead) - 1)
  /\ l0Q = EmptyQueue(0 .. MIN_L0_IPE_ENC_STAGGER - 1)
  /\ l0Out = Nothing
  /\ preBuf = [b \in DOMAIN preQ.used |-> [frame |-> Nothing, qp |-> Nothing]]
  /\ l0Buf = [b \in DOMAIN l0Q.used |-> Nothing]
  /\ rc = InitRc
  /\ preSem = 0
  /\ encSem = 0
  /\ ctx = [t \in Threads |-> Start]
  /\ enc = [at |-> "getPre", n |-> 0, pre |-> Nothing, l0 |-> Nothing, asleep |-> FALSE]

encVars == <<preQ, l0Q, preBuf, l0Buf, encSem, enc>>

Goto(t, place) == ctx' = [ctx EXCEPT ![t].at = place]
Within(places) == \E t \in Threads : ctx[t].at \in places
IsLast(count) == count + 1 = Cardinality(Threads)
CountUp(count) == IF IsLast(count) THEN 0 ELSE count + 1

(* osal_sem_wait of a thread that found no free buffer.                    *)
Wake(t) ==
  /\ ctx[t].asleep /\ preSem > 0
  /\ preSem' = preSem - 1
  /\ ctx' = [ctx EXCEPT ![t].asleep = FALSE]
  /\ UNCHANGED <<lookAhead, slot, taken, left, l0Out, rc, encVars>>

Sleep(t) ==
  /\ ctx' = [ctx EXCEPT ![t].asleep = TRUE]
  /\ UNCHANGED <<slot, preQ, preBuf, l0Q, l0Buf, l0Out>>

-----------------------------------------------------------------------------
(* Decomposition and pre-intra analysis.                                   *)

(* Each thread marks the slot incomplete; the first one gets the frame and *)
(* goes on to get a buffer with the mutex locked.                          *)
DecompInit(t) ==
  LET f == ctx[t].f
      s == SlotOf(f)
  IN /\ ctx[t].at = "decomp"
     /\ left.decomp = f                  \* ihevce_dmgr_chk_frm_frm_sync
     /\ ~Within({"decompBuf"})           \* pv_mutex_hdl_pre_enc_init
     /\ IF slot[s].initDone
        THEN /\ slot' = [slot EXCEPT ![s].complete = FALSE]
             /\ Goto(t, "decompWork")
             /\ UNCHANGED taken
        ELSE /\ slot' = [slot EXCEPT ![s].complete = FALSE, ![s].initDone = TRUE,
                                     ![s].inp = taken]
             /\ taken' = taken + 1
             /\ Goto(t, "decompBuf")
     /\ UNCHANGED <<lookAhead, left, l0Out, rc, preSem, encVars>>

DecompBuf(t) ==
  LET s == SlotOf(ctx[t].f)
      b == FreeBuf(preQ)
  IN /\ ctx[t].at = "decompBuf" /\ ~ctx[t].asleep
     /\ IF FreeBufs(preQ) # {}
        THEN /\ preQ' = TakeBuf(preQ, b)
             /\ preBuf' = [preBuf EXCEPT ![b] = [frame |-> Nothing, qp |-> Nothing]]
             /\ slot' = [slot EXCEPT ![s].out = b, ![s].end = @ \/ ~Valid(slot[s].inp)]
             /\ Goto(t, "decompWork")
             /\ UNCHANGED <<l0Q, l0Buf, l0Out>>
        ELSE Sleep(t)
     /\ UNCHANGED <<lookAhead, taken, left, rc, preSem, encSem, enc>>

DecompEnd(t) ==
  LET s == SlotOf(ctx[t].f)
      last == IsLast(slot[s].decomp)
  IN /\ ctx[t].at = "decompWork"
     /\ slot' = [slot EXCEPT ![s].decomp = CountUp(@), ![s].initDone = @ /\ ~last]
     /\ left' = [left EXCEPT !.decomp = IF last THEN @ + 1 ELSE @]
     /\ Goto(t, "coarse")
     /\ UNCHANGED <<lookAhead, taken, l0Out, rc, preSem, encVars>>

-----------------------------------------------------------------------------
(* Coarse motion estimation.                                               *)

CoarseInit(t) ==
  LET s == SlotOf(ctx[t].f)
  IN /\ ctx[t].at = "coarse"
     /\ left.coarse = ctx[t].f
     /\ slot' = [slot EXCEPT ![s].hmeInit = IF @ = Nothing THEN slot[s].inp ELSE @]
     /\ Goto(t, "coarseWork")
     /\ UNCHANGED <<lookAhead, taken, left, l0Out, rc, preSem, encVars>>

(* A frame without picture is complete for the L0 IPE with any thread, and *)
(* the next frame's coarse ME is not let in.                               *)
CoarseEnd(t) ==
  LET s == SlotOf(ctx[t].f)
      valid == Valid(slot[s].inp)
      last == valid /\ IsLast(slot[s].coarse)
      ready == ctx[t].ready + 1
      end == slot[s].end
  IN /\ ctx[t].at = "coarseWork"
     /\ slot' = [slot EXCEPT ![s].coarse = IF valid THEN CountUp(@) ELSE @,
                             ![s].complete = @ \/ last \/ ~valid,
                             ![s].hmeInit = IF last THEN Nothing ELSE @]
     /\ left' = [left EXCEPT !.coarse = IF last THEN @ + 1 ELSE @]
     /\ ctx' = [ctx EXCEPT ![t].ready = ready, ![t].f = @ + 1, ![t].end = end,
                           ![t].at = IF ready >= Delay(lookAhead) \/ end THEN "ipe" ELSE "decomp"]
     /\ UNCHANGED <<lookAhead, taken, l0Out, rc, preSem, encVars>>

-----------------------------------------------------------------------------
(* L0 IPE.                                                                 *)

(* After the frame before, spins on ai4_decomp_coarse_me_complete_flag.    *)
IpeWait(t) ==
  /\ ctx[t].at = "ipe"
  /\ left.ipe = ctx[t].ipe
  /\ slot[SlotOf(ctx[t].ipe)].complete
  /\ Goto(t, "ipeInit")
  /\ UNCHANGED <<lookAhead, slot, taken, left, l0Out, rc, preSem, encVars>>

(* The end of the section in which the QP is set: the buffer's QP is the   *)
(* one the first thread has got, which the last one takes away.            *)
QpSet(s, qp) ==
  /\ slot' = [slot EXCEPT ![s].qpInit = CountUp(@)]
  /\ preBuf' = IF Valid(slot[s].inp) THEN [preBuf EXCEPT ![slot[s].out].qp = qp] ELSE preBuf

IpeInit(t) ==
  LET s == SlotOf(ctx[t].ipe)
  IN /\ ctx[t].at = "ipeInit"
     /\ ~Within({"ipeBuf", "ipeQp"})     \* pv_mutex_hdl_l0_ipe_init
     /\ IF slot[s].qpInit = 0
        THEN /\ Goto(t, "ipeBuf")
             /\ UNCHANGED <<slot, preBuf, rc>>
        ELSE /\ QpSet(s, rc.update)
             /\ rc' = [rc EXCEPT !.update = IF IsLast(slot[s].qpInit) THEN Nothing ELSE @]
             /\ Goto(t, "ipeWork")
     /\ UNCHANGED <<lookAhead, taken, left, l0Out, preSem, preQ, l0Q, l0Buf, encSem, enc>>

IpeBuf(t) ==
  LET s == SlotOf(ctx[t].ipe)
      b == FreeBuf(l0Q)
  IN /\ ctx[t].at = "ipeBuf" /\ ~ctx[t].asleep
     /\ IF FreeBufs(l0Q) # {}
        THEN /\ l0Q' = TakeBuf(l0Q, b)
             /\ l0Out' = b
             /\ Goto(t, "ipeQp")
             /\ UNCHANGED <<slot, preQ, preBuf, l0Buf>>
        ELSE Sleep(t)
     /\ UNCHANGED <<lookAhead, taken, left, rc, preSem, encSem, enc>>

(* Spins until the encode group has set the QP in the queue, and takes it. *)
IpeQp(t) ==
  LET s == SlotOf(ctx[t].ipe)
      valid == Valid(slot[s].inp)
      qp == rc.queue[rc.read]
      next == (rc.read + 1) % MIN_PRE_ENC_RC_DELAY
      update == IF valid THEN qp ELSE rc.update
  IN /\ ctx[t].at = "ipeQp"
     /\ valid => qp # Nothing
     /\ QpSet(s, update)
     /\ rc' = IF valid
              THEN [rc EXCEPT !.queue[rc.read] = Nothing, !.read = next,
                              !.update = IF IsLast(slot[s].qpInit) THEN Nothing ELSE update]
              ELSE [rc EXCEPT !.update = IF IsLast(slot[s].qpInit) THEN Nothing ELSE @]
     /\ Goto(t, "ipeWork")
     /\ UNCHANGED <<lookAhead, taken, left, l0Out, preSem, preQ, l0Q, l0Buf, encSem, enc>>

(* The next turn of the loops, for a thread that has done a frame's L0 IPE. *)
NextTurn(c) ==
  [c EXCEPT !.ipe = @ + 1, !.ready = @ - 1,
            !.at = IF ~c.end THEN "decomp" ELSE IF c.ready > 1 THEN "ipe" ELSE "end"]

(* Mutant: the first thread gives the frame away. *)
IpeEndFirst(t) ==
  LET c == ctx[t]
      s == SlotOf(c.ipe)
      b == slot[s].out
      first == slot[s].ipe = 0
  IN /\ c.at = "ipeWork"
     /\ l0Buf' = [l0Buf EXCEPT ![l0Out] = slot[s].inp]
     /\ slot' = [slot EXCEPT ![s].ipe = CountUp(@), ![s].initDone = @ /\ ~first]
     /\ IF first
        THEN /\ preBuf' = [preBuf EXCEPT ![b].frame = slot[s].inp]
             /\ preQ' = SetProduced(preQ, b)
             /\ encSem' = encSem + 1
             /\ Goto(t, "ipeGive")
        ELSE /\ ctx' = [ctx EXCEPT ![t] = NextTurn(c)]
             /\ UNCHANGED <<preBuf, preQ, encSem>>
     /\ UNCHANGED <<lookAhead, taken, left, l0Q, l0Out, rc, preSem, enc>>

(* The results are in the buffer.  The last thread gives the frame's two   *)
(* buffers to the encode group, with pv_mutex_hdl_pre_enc_deinit locked.   *)
IpeEnd(t) ==
  LET c == ctx[t]
      s == SlotOf(c.ipe)
      b == slot[s].out
      last == IsLast(slot[s].ipe)
  IN /\ c.at = "ipeWork"
     /\ l0Buf' = [l0Buf EXCEPT ![l0Out] = slot[s].inp]
     /\ slot' = [slot EXCEPT ![s].ipe = CountUp(@), ![s].initDone = @ /\ ~last]
     /\ IF last
        THEN /\ preBuf' = [preBuf EXCEPT ![b].frame = slot[s].inp]
             /\ preQ' = SetProduced(preQ, b)
             /\ encSem' = encSem + 1
             /\ Goto(t, "ipeGive")
        ELSE /\ ctx' = [ctx EXCEPT ![t] = NextTurn(c)]
             /\ UNCHANGED <<preBuf, preQ, encSem>>
     /\ UNCHANGED <<lookAhead, taken, left, l0Q, l0Out, rc, preSem, enc>>

IpeGive(t) ==
  /\ ctx[t].at = "ipeGive"
  /\ l0Q' = SetProduced(l0Q, l0Out)
  /\ encSem' = encSem + 1
  /\ left' = [left EXCEPT !.ipe = @ + 1]
  /\ ctx' = [ctx EXCEPT ![t] = NextTurn(ctx[t])]
  /\ UNCHANGED <<lookAhead, slot, taken, preQ, l0Out, preBuf, l0Buf, rc, preSem, enc>>

-----------------------------------------------------------------------------
(* The encode group.                                                       *)

threadVars == <<lookAhead, slot, taken, left, l0Out, preBuf, l0Buf, ctx>>

EncWake ==
  /\ enc.asleep /\ encSem > 0
  /\ encSem' = encSem - 1
  /\ enc' = [enc EXCEPT !.asleep = FALSE]
  /\ UNCHANGED <<threadVars, preQ, l0Q, rc, preSem>>

(* The next frame's buffers, one after the other.                          *)
GetPre ==
  /\ enc.at = "getPre" /\ ~enc.asleep
  /\ IF FilledBufs(preQ) # {}
     THEN /\ preQ' = GetBuf(preQ)
          /\ enc' = [enc EXCEPT !.at = "getL0", !.pre = FilledBuf(preQ)]
     ELSE /\ enc' = [enc EXCEPT !.asleep = TRUE]
          /\ UNCHANGED preQ
  /\ UNCHANGED <<threadVars, l0Q, rc, preSem, encSem>>

GetL0 ==
  /\ enc.at = "getL0" /\ ~enc.asleep
  /\ IF FilledBufs(l0Q) # {}
     THEN /\ l0Q' = GetBuf(l0Q)
          /\ enc' = [enc EXCEPT !.at = "init", !.l0 = FilledBuf(l0Q)]
     ELSE /\ enc' = [enc EXCEPT !.asleep = TRUE]
          /\ UNCHANGED l0Q
  /\ UNCHANGED <<threadVars, preQ, rc, preSem, encSem>>

(* Mutant: a QP is set for the first frame too. *)
SetQpFirst(r, n) ==
  IF Valid(n)
  THEN [r EXCEPT !.queue[r.write] = n, !.write = (@ + 1) % MIN_PRE_ENC_RC_DELAY]
  ELSE r

(* ihevce_rc_cal_pre_enc_qp, once the frame before is encoded.             *)
SetQp(r, n) ==
  IF Valid(n) /\ n > 0
  THEN [r EXCEPT !.queue[r.write] = n, !.write = (@ + 1) % MIN_PRE_ENC_RC_DELAY]
  ELSE r

EncInit ==
  /\ enc.at = "init"
  /\ rc' = SetQp(rc, enc.n)
  /\ enc' = [enc EXCEPT !.at = "encode"]
  /\ UNCHANGED <<threadVars, preQ, l0Q, preSem, encSem>>

(* The last thread to leave the encode loop.                               *)
ReleasePre ==
  /\ enc.at = "encode"
  /\ preQ' = ReleaseBuf(preQ, enc.pre)
  /\ preSem' = preSem + 1
  /\ enc' = [enc EXCEPT !.at = "releaseL0"]
  /\ UNCHANGED <<threadVars, l0Q, rc, encSem>>

(* Mutant: no post for the L0 IPE's buffer. *)
ReleaseL0Quiet ==
  /\ enc.at = "releaseL0"
  /\ l0Q' = ReleaseBuf(l0Q, enc.l0)
  /\ enc' = [enc EXCEPT !.at = IF Valid(enc.n) THEN "getPre" ELSE "end", !.n = @ + 1]
  /\ UNCHANGED <<threadVars, preQ, rc, preSem, encSem>>

ReleaseL0 ==
  /\ enc.at = "releaseL0"
  /\ l0Q' = ReleaseBuf(l0Q, enc.l0)
  /\ preSem' = preSem + 1
  /\ enc' = [enc EXCEPT !.at = IF Valid(enc.n) THEN "getPre" ELSE "end", !.n = @ + 1]
  /\ UNCHANGED <<threadVars, preQ, rc, encSem>>

-----------------------------------------------------------------------------
Thread(t) ==
  \/ Wake(t) \/ DecompInit(t) \/ DecompBuf(t) \/ DecompEnd(t) \/ CoarseInit(t) \/ CoarseEnd(t)
  \/ IpeWait(t) \/ IpeInit(t) \/ IpeBuf(t) \/ IpeQp(t) \/ IpeEnd(t) \/ IpeGive(t)
EncodeGroup == EncWake \/ GetPre \/ GetL0 \/ EncInit \/ ReleasePre \/ ReleaseL0

Ended == enc.at = "end" /\ \A t \in Threads : ctx[t].at = "end"
Rest == Ended /\ UNCHANGED vars

Next == Rest \/ EncodeGroup \/ \E t \in Threads : Thread(t)

Spec == Init /\ [][Next]_vars

(* The system schedules every thread.  A thread that waits for a mutex or  *)
(* a semaphore is kept from it only as long as another thread holds the    *)
(* mutex or no post has come: threads do not compete for either again and  *)
(* again, since each goes through a section once for each frame.           *)
FairSpec == Spec /\ WF_vars(EncodeGroup) /\ \A t \in Threads : WF_vars(Thread(t))

-----------------------------------------------------------------------------
(* The frame whose slot a thread uses, and the stage.                      *)
InFirstStages(t) == ctx[t].at \in {"decompWork", "coarse", "coarseWork"}
InIpe(t) == ctx[t].at \in {"ipeInit", "ipeBuf", "ipeQp", "ipeWork", "ipeGive"}

(* A thread finds the frame it is about in the slot it computes from its   *)
(* own index, in every stage, and a stage is set up for that frame: no     *)
(* faster thread has put a later frame there, although the first thread of *)
(* a later frame does so before it waits for a buffer.                     *)
SlotKept ==
  \A t \in Threads :
    /\ InFirstStages(t) => slot[SlotOf(ctx[t].f)].inp = ctx[t].f
    /\ ctx[t].at = "coarseWork" => slot[SlotOf(ctx[t].f)].hmeInit = ctx[t].f
    /\ InIpe(t) => slot[SlotOf(ctx[t].ipe)].inp = ctx[t].ipe

(* The encode group gets every frame once and in order, its two buffers    *)
(* are of the same frame, and no pre-encode thread still uses one of them. *)
EncoderOwnsFrame ==
  enc.at \in {"init", "encode"} =>
    /\ preBuf[enc.pre].frame = enc.n /\ l0Buf[enc.l0] = enc.n
    /\ \A t \in Threads :
         /\ InFirstStages(t) => slot[SlotOf(ctx[t].f)].out # enc.pre
         /\ InIpe(t) => slot[SlotOf(ctx[t].ipe)].out # enc.pre
         /\ ctx[t].at \in {"ipeQp", "ipeWork", "ipeGive"} => l0Out # enc.l0

(* "DETERMINISTIC_RC": the QP of a frame's L0 IPE does not depend on how   *)
(* far the threads have got, it always counts the frames but the last one  *)
(* before.  Neither end of the queue runs over the other, as the code      *)
(* asserts, and the variable for the threads' QP is free when it is set.   *)
QpInStep ==
  /\ \A t \in Threads :
       /\ ctx[t].at = "ipeWork" /\ Valid(ctx[t].ipe) =>
            preBuf[slot[SlotOf(ctx[t].ipe)].out].qp = IF ctx[t].ipe = 0 THEN 0 ELSE ctx[t].ipe - 1
       /\ ctx[t].at = "ipeQp" => rc.update = Nothing
  /\ enc.at = "init" /\ SetQp(rc, enc.n) # rc => rc.queue[rc.write] = Nothing

(* Both queues are channels from the threads to the encode group.  A frame *)
(* is known by the buffer's place in the order while it is filled, and by  *)
(* what the buffer contains once it is given up: nobody writes to it then. *)
PreChannel == INSTANCE FrameChannel WITH
                size    <- NumPreEncBufs(lookAhead),
                filling <- {preQ.seq[b] : b \in Filling(preQ)},
                ready   <- {preBuf[b].frame : b \in Waiting(preQ)},
                lent    <- {preBuf[b].frame : b \in Lent(preQ)},
                begun   <- preQ.lastProd,
                got     <- preQ.lastCons
L0Channel == INSTANCE FrameChannel WITH
               size    <- MIN_L0_IPE_ENC_STAGGER,
               filling <- {l0Q.seq[b] : b \in Filling(l0Q)},
               ready   <- {l0Buf[b] : b \in Waiting(l0Q)},
               lent    <- {l0Buf[b] : b \in Lent(l0Q)},
               begun   <- l0Q.lastProd,
               got     <- l0Q.lastCons
RefinesChannels == PreChannel!Spec /\ L0Channel!Spec

(* The group and the threads come to their end with every frame encoded:   *)
(* nobody is left waiting for a buffer, a QP or another thread, although   *)
(* the threads that wait for buffers of two queues share one semaphore.    *)
AllEncoded == <>(Ended /\ enc.n = Frames + 1)

=============================================================================
