----------------------------- MODULE EncWavefront -----------------------------
(***************************************************************************)
(* The encoder's worker threads on the frames of a group of pictures.      *)
(* Each thread takes rows of CTBs through the motion search (ME) of a      *)
(* frame, then, while others are still in ME, through its encode loop, and *)
(* goes on to the next frame.  ME hands a frame over in the only buffer of *)
(* its queue.  Other order comes from counters of the dependency managers, *)
(* which are read and written without locks.  A thread that has to wait    *)
(* leaves its name and sleeps on its only semaphore, which all managers    *)
(* share.                                                                  *)
(*                                                                         *)
(* CTBs are 64x64 here, the largest the encoder accepts; rows of the       *)
(* picture are rows of CTBs, there is one column of tiles and one bit      *)
(* rate.  P frames refer to the frame before.                              *)
(***************************************************************************)
EXTENDS Integers, FiniteSets

CONSTANTS
  Rows, Cols,   \* the picture, in CTBs
  Frames,       \* bound: frames encoded
  MaxMv,        \* longest motion vector, in CTBs
  SaoModes,     \* slice_sao_luma_flag or slice_sao_chroma_flag
  Threads,
  SemMax        \* bound: count of a semaphore, more posts are dropped

ASSUME PictureAssumption == Rows \in Nat \ {0, 1} /\ Cols \in Nat \ {0} /\ MaxMv \in Nat
ASSUME ThreadsAssumption ==
  /\ IsFiniteSet(Threads) /\ Threads # {}
  /\ Frames \in Nat \ {0} /\ SaoModes \subseteq BOOLEAN /\ SemMax \in Nat \ {0}

VARIABLES
  saoOn,      \* SAO is on for the frames of the stream
  units,      \* pv_units_prcsd_in_row of each row to row manager
  waiter,     \* pi4_wait_thrd_id of those that use semaphores
  published,  \* the map of each reference picture: its CTBs that are complete
  sem,        \* ppv_thrd_sem_handles
  nextMe,     \* next row in the queue of ME jobs of each frame
  nextEnc,    \* and in that of encode loop jobs
  depClear,   \* rows whose encode loop job has its input dependency cleared
  meFrame,    \* frame whose ME was set up last
  meEncFree,  \* free buffers of IHEVCE_ME_ENC_RDOPT_Q
  meLeft,     \* number of threads that have left the ME of each frame
  encLeft,    \* and its encode loop
  encFrame,   \* frame for which the encode loop's managers were reset last
  planes,     \* rows whose padding and half-pel planes are made, in each frame
  ctx         \* where each thread is

frameVars == <<meFrame, meEncFree, meLeft, encLeft, encFrame>>
queueVars == <<nextMe, nextEnc, depClear, frameVars>>
vars == <<saoOn, units, waiter, published, sem, queueVars, planes, ctx>>

RowSet == 0 .. Rows - 1
ColSet == 0 .. Cols - 1
FrameSet == 1 .. Frames
LastRow == Rows - 1
Least(a, b) == IF a < b THEN a ELSE b
Largest(a, b) == IF a > b THEN a ELSE b

(* The managers.  Those of ME belong to a frame's buffer.                  *)
Me(f) == <<"me", f>>
Top == <<"top">>      \* CUs coded in the bottom row of CTBs, in 32 samples
Dblk == <<"dblk">>
Sao == <<"sao">>
SleepManagers == {Me(f) : f \in FrameSet} \cup {Top}
SpinManagers == {Dblk, Sao}
EncManagers == {Top} \cup SpinManagers

(* i4_num_horz_units.  A row's last CU reaches one CTB further.            *)
HorzUnits(m) == IF m = Top THEN 2 * Cols + 2 ELSE Cols

(* Buffers of IHEVCE_ME_ENC_RDOPT_Q.                                       *)
NUM_ME_ENC_BUFS == 1

NoThread == "none"
Zeros == [r \in RowSet |-> 0]
NoWaiters == [r \in RowSet |-> NoThread]

(* A place in the program: what comes next, for which frame, row and CTB,  *)
(* for which CU of the CTB, and how far a check or a set has come.         *)
At(place, f, r, x) == [at |-> place, f |-> f, r |-> r, x |-> x, cu |-> 0,
                       split |-> FALSE, step |-> "begin"]
Start == At("meGate", 1, 0, 0)

Init ==
  /\ saoOn \in SaoModes
  /\ units = [m \in SleepManagers \cup SpinManagers |-> Zeros]
  /\ waiter = [m \in SleepManagers |-> NoWaiters]
  /\ published = [f \in FrameSet |-> {}]
  /\ sem = [t \in Threads |-> 0]
  /\ nextMe = [f \in FrameSet |-> 0]
  /\ nextEnc = [f \in FrameSet |-> 0]
  /\ depClear = [f \in FrameSet |-> {}]
  /\ meFrame = 0
  /\ meEncFree = NUM_ME_ENC_BUFS
  /\ meLeft = [f \in FrameSet |-> 0]
  /\ encLeft = [f \in FrameSet |-> 0]
  /\ encFrame = 0
  /\ planes = [f \in FrameSet |-> {}]
  /\ ctx = [t \in Threads |-> Start]

Goto(t, c) == ctx' = [ctx EXCEPT ![t] = c]
Posted(who) == [t \in Threads |-> IF t \in who THEN Least(sem[t] + 1, SemMax) ELSE sem[t]]
AllLeft(left, f) == f = 0 \/ left[f] = Cardinality(Threads)

-----------------------------------------------------------------------------
(* Waiting: ihevce_dmgr_chk_row_row_sync, _chk_frm_frm_sync, _map_chk_sync. *)

(* The CTBs of the reference picture that the search of a CTB may read.    *)
SearchRows(r) == Largest(0, r - MaxMv) .. Least(LastRow, r + MaxMv)

SearchArea(r, x) ==
  SearchRows(r) \X (Largest(0, x - MaxMv) .. Least(Cols - 1, x + MaxMv))

(* Mutant: the CU above is enough. *)
TopNeedAbove(c) == IF c.split /\ c.cu = 0 THEN 2 * c.x + 1 ELSE 2 * c.x + 2

(* Units the row above must have for a CU at the top of its CTB: up to the *)
(* end of its first transform block top right of it.                       *)
TopNeed(c) == IF c.split /\ c.cu = 0 THEN 2 * c.x + 2 ELSE 2 * c.x + 3

CheckPlaces == {"meGate", "encGate", "meRef", "meWait", "top"}
Registers == {"meWait", "top"}

(* What a check waits for.                                                 *)
Met(c) ==
  CASE c.at = "meGate" -> AllLeft(meLeft, c.f - 1)
    [] c.at = "encGate" -> AllLeft(encLeft, c.f - 1)
    [] c.at = "meRef" -> c.f = 1 \/ SearchArea(c.r, c.x) \subseteq published[c.f - 1]
    [] c.at = "meWait" -> units[Me(c.f)][c.r] >= c.x + 1
    [] c.at = "top" -> c.r = 0 \/ units[Top][c.r - 1] >= TopNeed(c)

(* The manager and row in which a thread leaves its name.                  *)
WaitsOn(c) == IF c.at = "meWait" THEN <<Me(c.f), c.r>> ELSE <<Top, c.r - 1>>

AfterCheck(c) ==
  CASE c.at = "meGate" -> {At("meInit", c.f, 0, 0)}
    [] c.at = "encGate" -> {At("encInit", c.f, 0, 0)}
    [] c.at = "meRef" -> {At("search", c.f, c.r, c.x)}
    [] c.at = "meWait" -> {[At("top", c.f, c.r, c.x) EXCEPT !.split = s] : s \in BOOLEAN}
    [] c.at = "top" -> IF c.split /\ c.cu = 0 THEN {[c EXCEPT !.cu = 1]}
                       ELSE {[c EXCEPT !.at = "bottom", !.cu = IF c.split THEN 2 ELSE 3]}

ReadUnits(t) ==
  LET c == ctx[t]
  IN /\ c.at \in CheckPlaces /\ c.step = "begin"
     /\ IF Met(c) THEN \E d \in AfterCheck(c) : Goto(t, d)
        ELSE Goto(t, [c EXCEPT !.step = IF c.at \in Registers THEN "register" ELSE "sleep"])
     /\ UNCHANGED <<saoOn, units, waiter, published, sem, queueVars, planes>>

Register(t) ==
  LET c == ctx[t]
      on == WaitsOn(c)
  IN /\ c.at \in CheckPlaces /\ c.step = "register"
     /\ waiter' = [waiter EXCEPT ![on[1]][on[2]] = t]
     /\ Goto(t, [c EXCEPT !.step = "sleep"])
     /\ UNCHANGED <<saoOn, units, published, sem, queueVars, planes>>

(* osal_sem_wait, and the check again.                                     *)
Wake(t) ==
  /\ ctx[t].step = "sleep" /\ sem[t] > 0
  /\ sem' = [sem EXCEPT ![t] = @ - 1]
  /\ Goto(t, [ctx[t] EXCEPT !.step = "begin"])
  /\ UNCHANGED <<saoOn, units, waiter, published, queueVars, planes>>

-----------------------------------------------------------------------------
(* ihevce_dmgr_set_row_row_sync and ihevce_dmgr_map_set_sync.              *)

SetPlaces == {"meSet", "bottom", "rowEnd"}

(* The manager and the value set, always in the thread's row.              *)
SetManager(c) == IF c.at = "meSet" THEN Me(c.f) ELSE Top
SetValue(c) ==
  CASE c.at = "meSet" -> c.x + 1
    [] c.at = "bottom" -> IF c.cu = 2 THEN 2 * c.x + 1 ELSE 2 * c.x + 2
    [] c.at = "rowEnd" -> 2 * Cols + 2

AfterSet(c) ==
  CASE c.at = "meSet" -> IF c.x + 1 < Cols THEN At("meRef", c.f, c.r, c.x + 1)
                         ELSE At("meTake", c.f, 0, 0)
    [] c.at = "bottom" -> IF c.cu = 2 THEN [c EXCEPT !.cu = 3, !.step = "begin"]
                          ELSE IF c.x + 1 < Cols THEN At("meWait", c.f, c.r, c.x + 1)
                          ELSE At("rowEnd", c.f, c.r, 0)
    [] c.at = "rowEnd" -> At("dblk", c.f, c.r, 0)

WriteUnits(t) ==
  LET c == ctx[t]
  IN /\ c.at \in SetPlaces /\ c.step = "begin"
     /\ units' = [units EXCEPT ![SetManager(c)][c.r] = SetValue(c)]
     /\ Goto(t, [c EXCEPT !.step = "post"])
     /\ UNCHANGED <<saoOn, waiter, published, sem, queueVars, planes>>

(* Reads who waits, and posts on its semaphore.                            *)
PostWaiter(t) ==
  LET c == ctx[t]
      w == waiter[SetManager(c)][c.r]
  IN /\ c.at \in SetPlaces /\ c.step = "post"
     /\ sem' = Posted({w})
     /\ Goto(t, [c EXCEPT !.step = IF w = NoThread THEN "end" ELSE "clear"])
     /\ UNCHANGED <<saoOn, units, waiter, published, queueVars, planes>>

ClearWaiter(t) ==
  LET c == ctx[t]
  IN /\ c.at \in SetPlaces /\ c.step = "clear"
     /\ waiter' = [waiter EXCEPT ![SetManager(c)][c.r] = NoThread]
     /\ Goto(t, [c EXCEPT !.step = "end"])
     /\ UNCHANGED <<saoOn, units, published, sem, queueVars, planes>>

(* Mutant: the last set of a row posts like the others. *)
EndOfSetQuiet(t) ==
  LET c == ctx[t]
  IN /\ c.at \in SetPlaces /\ c.step = "end"
     /\ Goto(t, AfterSet(c))
     /\ UNCHANGED <<saoOn, units, waiter, published, sem, queueVars, planes>>

(* "towards end of row all threads are posted (to avoid any corner cases)" *)
EndOfSet(t) ==
  LET c == ctx[t]
  IN /\ c.at \in SetPlaces /\ c.step = "end"
     /\ sem' = Posted(IF SetValue(c) = HorzUnits(SetManager(c)) THEN Threads ELSE {})
     /\ Goto(t, AfterSet(c))
     /\ UNCHANGED <<saoOn, units, waiter, published, queueVars, planes>>

-----------------------------------------------------------------------------
(* The motion search of a frame.                                           *)

(* The first thread of a frame gets the buffer, inside the mutex that the  *)
(* others pass later.                                                      *)
MeInit(t) ==
  LET c == ctx[t]
  IN /\ c.at = "meInit"
     /\ IF meFrame < c.f
        THEN /\ meEncFree > 0
             /\ meEncFree' = meEncFree - 1
        ELSE UNCHANGED meEncFree
     /\ meFrame' = c.f
     /\ Goto(t, At("meTake", c.f, 0, 0))
     /\ UNCHANGED <<saoOn, units, waiter, published, sem, nextMe, nextEnc, depClear, meLeft,
                    encLeft, encFrame, planes>>

(* ihevce_enc_grp_get_next_job.  Without a job the thread leaves the ME,   *)
(* and the last to leave lets the next frame's begin.                      *)
MeTake(t) ==
  LET c == ctx[t]
      r == nextMe[c.f]
  IN /\ c.at = "meTake"
     /\ IF r < Rows
        THEN /\ nextMe' = [nextMe EXCEPT ![c.f] = r + 1]
             /\ Goto(t, At("meDep", c.f, r, 0))
             /\ UNCHANGED <<meLeft, sem>>
        ELSE /\ meLeft' = [meLeft EXCEPT ![c.f] = @ + 1]
             /\ sem' = Posted(IF meLeft[c.f] + 1 = Cardinality(Threads) THEN Threads ELSE {})
             /\ Goto(t, At("encGate", c.f, 0, 0))
             /\ UNCHANGED nextMe
     /\ UNCHANGED <<saoOn, units, waiter, published, nextEnc, depClear, meFrame, meEncFree,
                    encLeft, encFrame, planes>>

(* ihevce_enc_grp_job_set_out_dep, at once.                                *)
MeDep(t) ==
  LET c == ctx[t]
  IN /\ c.at = "meDep"
     /\ depClear' = [depClear EXCEPT ![c.f] = @ \cup {c.r}]
     /\ Goto(t, At(IF c.f = 1 THEN "meSet" ELSE "meRef", c.f, c.r, 0))
     /\ UNCHANGED <<saoOn, units, waiter, published, sem, nextMe, nextEnc, frameVars, planes>>

(* hme_refine of a CTB, which reads the reference and its half-pel planes. *)
Search(t) ==
  LET c == ctx[t]
  IN /\ c.at = "search"
     /\ Goto(t, At("meSet", c.f, c.r, c.x))
     /\ UNCHANGED <<saoOn, units, waiter, published, sem, queueVars, planes>>

-----------------------------------------------------------------------------
(* The encode loop of a frame.                                             *)

(* The first thread of a frame: ihevce_enc_loop_dep_mngr_frame_reset.      *)
EncInit(t) ==
  LET c == ctx[t]
  IN /\ c.at = "encInit"
     /\ IF encFrame < c.f
        THEN /\ units' = [m \in DOMAIN units |-> IF m \in EncManagers THEN Zeros ELSE units[m]]
             /\ waiter' = [waiter EXCEPT ![Top] = NoWaiters]
        ELSE UNCHANGED <<units, waiter>>
     /\ encFrame' = c.f
     /\ Goto(t, At("encTake", c.f, 0, 0))
     /\ UNCHANGED <<saoOn, published, sem, nextMe, nextEnc, depClear, meFrame, meEncFree, meLeft,
                    encLeft, planes>>

(* Mutant: the first thread to leave gives the buffer back. *)
EncTakeEarly(t) ==
  LET c == ctx[t]
      r == nextEnc[c.f]
      last == encLeft[c.f] + 1 = Cardinality(Threads)
  IN /\ c.at = "encTake"
     /\ IF r < Rows
        THEN /\ r \in depClear[c.f]
             /\ nextEnc' = [nextEnc EXCEPT ![c.f] = r + 1]
             /\ Goto(t, At("meWait", c.f, r, 0))
             /\ UNCHANGED <<encLeft, meEncFree, sem>>
        ELSE /\ encLeft' = [encLeft EXCEPT ![c.f] = @ + 1]
             /\ meEncFree' = IF encLeft[c.f] = 0 THEN meEncFree + 1 ELSE meEncFree
             /\ sem' = IF last THEN Posted(Threads) ELSE sem
             /\ Goto(t, IF c.f < Frames THEN At("meGate", c.f + 1, 0, 0) ELSE At("end", c.f, 0, 0))
             /\ UNCHANGED nextEnc
     /\ UNCHANGED <<saoOn, units, waiter, published, nextMe, depClear, meFrame, meLeft, encFrame,
                    planes>>

(* The next row, once its input dependency is clear: the thread spins with *)
(* the queue's mutex, which ME does not need.  Without a row it goes on to *)
(* the next frame, and the last one gives the buffer back.                 *)
EncTake(t) ==
  LET c == ctx[t]
      r == nextEnc[c.f]
      last == encLeft[c.f] + 1 = Cardinality(Threads)
  IN /\ c.at = "encTake"
     /\ IF r < Rows
        THEN /\ r \in depClear[c.f]
             /\ nextEnc' = [nextEnc EXCEPT ![c.f] = r + 1]
             /\ Goto(t, At("meWait", c.f, r, 0))
             /\ UNCHANGED <<encLeft, meEncFree, sem>>
        ELSE /\ encLeft' = [encLeft EXCEPT ![c.f] = @ + 1]
             /\ meEncFree' = IF last THEN meEncFree + 1 ELSE meEncFree
             /\ sem' = IF last THEN Posted(Threads) ELSE sem
             /\ Goto(t, IF c.f < Frames THEN At("meGate", c.f + 1, 0, 0) ELSE At("end", c.f, 0, 0))
             /\ UNCHANGED nextEnc
     /\ UNCHANGED <<saoOn, units, waiter, published, nextMe, depClear, meFrame, meLeft, encFrame,
                    planes>>

(* CTBs that must have come through the filter in the row above: the top   *)
(* right one or, at the end of the row, the top one.                       *)
FilterNeed(x) == Least(x + 2, Cols)

AfterDblk(c) ==
  IF c.x + 1 < Cols THEN At("dblk", c.f, c.r, c.x + 1)
  ELSE IF saoOn /\ c.r > 0 THEN At("sao", c.f, c.r, 0)
  ELSE At("planes", c.f, c.r, 0)

(* Deblocks a CTB of the row when it is coded; no semaphore.               *)
Deblock(t) ==
  LET c == ctx[t]
  IN /\ c.at = "dblk"
     /\ c.r > 0 => units[Dblk][c.r - 1] >= FilterNeed(c.x)
     /\ units' = [units EXCEPT ![Dblk][c.r] = c.x + 1]
     /\ Goto(t, AfterDblk(c))
     /\ UNCHANGED <<saoOn, waiter, published, sem, queueVars, planes>>

(* SAO of a CTB of the row above.                                          *)
SaoAbove(t) ==
  LET c == ctx[t]
  IN /\ c.at = "sao"
     /\ c.r > 1 => units[Sao][c.r - 2] >= FilterNeed(c.x)
     /\ units' = [units EXCEPT ![Sao][c.r - 1] = c.x + 1]
     /\ Goto(t, IF c.x + 1 < Cols THEN At("sao", c.f, c.r, c.x + 1) ELSE At("planes", c.f, c.r, 0))
     /\ UNCHANGED <<saoOn, waiter, published, sem, queueVars, planes>>

(* The row a thread completes with row r: SAO is a row behind.             *)
DoneRow(r) == IF saoOn THEN r - 1 ELSE r

(* SAO of the last row, and the padding and half-pel planes of the row     *)
(* that is complete.                                                       *)
Planes(t) ==
  LET c == ctx[t]
  IN /\ c.at = "planes"
     /\ IF DoneRow(c.r) >= 0
        THEN /\ planes' = [planes EXCEPT ![c.f] = @ \cup {DoneRow(c.r)}]
             /\ Goto(t, At("publish", c.f, c.r, 0))
        ELSE /\ Goto(t, At("encTake", c.f, 0, 0))
             /\ UNCHANGED planes
     /\ UNCHANGED <<saoOn, units, waiter, published, sem, queueVars>>

AfterPublish(c) ==
  IF c.x + 1 < Cols THEN At(c.at, c.f, c.r, c.x + 1)
  ELSE IF c.at = "publish" /\ saoOn /\ c.r = LastRow THEN At("lastPlanes", c.f, c.r, 0)
  ELSE At("encTake", c.f, 0, 0)

(* ihevce_dmgr_map_set_sync for a CTB of the row, then posts to all.       *)
Publish(t) ==
  LET c == ctx[t]
      row == IF c.at = "publish" THEN DoneRow(c.r) ELSE c.r
  IN /\ c.at \in {"publish", "publishLast"} /\ c.step = "begin"
     /\ published' = [published EXCEPT ![c.f] = @ \cup {<<row, c.x>>}]
     /\ Goto(t, [c EXCEPT !.step = "post"])
     /\ UNCHANGED <<saoOn, units, waiter, sem, queueVars, planes>>

PublishPost(t) ==
  LET c == ctx[t]
  IN /\ c.at \in {"publish", "publishLast"} /\ c.step = "post"
     /\ sem' = Posted(Threads)
     /\ Goto(t, AfterPublish(c))
     /\ UNCHANGED <<saoOn, units, waiter, published, queueVars, planes>>

(* The last row's planes, which SAO has delayed.                           *)
LastPlanes(t) ==
  LET c == ctx[t]
  IN /\ c.at = "lastPlanes"
     /\ planes' = [planes EXCEPT ![c.f] = @ \cup {c.r}]
     /\ Goto(t, At("publishLast", c.f, c.r, 0))
     /\ UNCHANGED <<saoOn, units, waiter, published, sem, queueVars>>

-----------------------------------------------------------------------------
Check(t) == ReadUnits(t) \/ Register(t) \/ Wake(t)
Set(t) == WriteUnits(t) \/ PostWaiter(t) \/ ClearWaiter(t) \/ EndOfSet(t)
MotionSearch(t) == MeInit(t) \/ MeTake(t) \/ MeDep(t) \/ Search(t)
EncodeLoop(t) == \/ EncInit(t) \/ EncTake(t) \/ Deblock(t) \/ SaoAbove(t) \/ Planes(t)
                 \/ Publish(t) \/ PublishPost(t) \/ LastPlanes(t)
Thread(t) == Check(t) \/ Set(t) \/ MotionSearch(t) \/ EncodeLoop(t)

Ended == \A t \in Threads : ctx[t].at = "end"
Rest == Ended /\ UNCHANGED vars

Next == Rest \/ \E t \in Threads : Thread(t)

Spec == Init /\ [][Next]_vars

(* The system schedules each thread, and osal_sem_wait returns when the    *)
(* count is positive: only the thread itself takes from its semaphore.     *)
FairSpec == Spec /\ \A t \in Threads : WF_vars(Thread(t))

-----------------------------------------------------------------------------
(* A row never runs ahead of what it reads above: a CTB is coded when the  *)
(* CUs up to its top right are, deblocked when its neighbours to the top   *)
(* and top right are, and SAO leaves its top neighbours' samples to those  *)
(* before.                                                                 *)
RowsInOrder ==
  \A r \in 1 .. LastRow :
    /\ units[Top][r] \in 1 .. 2 * Cols
         => units[Top][r - 1] >= 2 * ((units[Top][r] - 1) \div 2) + 3
    /\ units[Dblk][r] > 0 => units[Dblk][r - 1] >= Least(units[Dblk][r] + 1, Cols)
    /\ units[Sao][r] > 0 => units[Sao][r - 1] >= Least(units[Sao][r] + 1, Cols)

(* All samples of the row and of the planes made from them have their      *)
(* final values: the filters of the row below have changed its last lines, *)
(* and its planes' last eight lines are made with those of the row below.  *)
RowFinal(f, r) == r \in planes[f] /\ (r = LastRow \/ r + 1 \in planes[f])

(* A thread searches a reference frame: the first frame has none.          *)
Searching(t) == ctx[t].at = "search" /\ ctx[t].f > 1

(* ME reads the reference frame and its half-pel planes only where they    *)
(* have their final values.  The map of published CTBs alone does not give *)
(* it: it leaves out the row below the reach of the vectors, with which    *)
(* the lowest row's last lines are made.  The only buffer does, as long as *)
(* it is kept until no thread is in the encode loop.                       *)
SearchFinal ==
  \A t \in Threads : Searching(t) =>
    \A r \in SearchRows(ctx[t].r) : RowFinal(ctx[t].f - 1, r)

(* Every frame is encoded to its end, although a thread that is about to   *)
(* sleep may miss the post for what it waits for: another one comes, at    *)
(* the latest at the row's end.                                            *)
FramesComplete == <>(Ended /\ \A f \in FrameSet : published[f] = RowSet \X ColSet)

=============================================================================
