--------------------------- MODULE DecodeThreads ---------------------------
(* The threads that decode one picture: the application's thread (Main), which *)
(* parses the slices and queues jobs, the workers that take the jobs, and how   *)
(* workers are created, started, waited for and joined.  A job is a row of one  *)
(* tile to reconstruct or a row of the picture to convert for display; what     *)
(* happens inside a row is the subject of module CtbWavefront.                  *)
EXTENDS Integers, Sequences, FiniteSets

CONSTANTS MaxCores,     \* MAX_PROCESS_THREADS, the number of contexts
          CoreCounts,   \* the numbers of cores the application asks for
          Setups,       \* what the create call and the stream's headers may fix
          AnyTime,      \* the core count may change while kept workers exist
          Threads,      \* the identities of operating-system threads
          Main          \* the thread that calls the API

ASSUME CoresAssumption == /\ MaxCores \in Nat \ {0}
                          /\ CoreCounts \subseteq 1..MaxCores
ASSUME SetupsAssumption ==
  Setups \subseteq [keepActive : BOOLEAN, fmtAhead : BOOLEAN,
                    rows : Nat \ {0}, tileCols : Nat \ {0}]
ASSUME AnyTimeAssumption == AnyTime \in BOOLEAN
ASSUME ThreadsAssumption == /\ Main \notin Threads
                            /\ IsFiniteSet(Threads)
                            /\ Cardinality(Threads) >= MaxCores - 1

VARIABLES setup,        \* the setup of this decoder
          numCores,     \* i4_num_cores
          created,      \* ai4_process_thread_created
          handle,       \* apv_process_thread_handle
          start,        \* ai4_process_start
          done,         \* ai4_process_done
          breakThreads, \* i4_break_threads
          jobs,         \* the job queue, from its base to pv_buf_wr
          rd,           \* pv_buf_rd, the number of jobs taken
          terminate,    \* i4_terminate
          shown,        \* which picture this call outputs
          parsed,       \* tile rows parsed
          finished,     \* jobs done
          pc,           \* where each thread is
          job,          \* the job each thread has in hand
          ctx,          \* the context a worker was created for
          idx,          \* Main's loop counter
          call          \* the API call Main is in

queueVars == <<jobs, rd, terminate>>
flagVars == <<start, done, breakThreads>>
poolVars == <<numCores, created, handle, ctx>>
picVars == <<shown, parsed, finished>>
callVars == <<call, setup>>
vars == <<queueVars, flagVars, poolVars, picVars, pc, job, idx, callVars>>

Procs == Threads \union {Main}
Contexts == 0..(MaxCores - 1)

KeepActive == setup.keepActive   \* u4_keep_threads_active of the create call
FmtAhead == setup.fmtAhead       \* u4_enable_fmt_conv_ahead
Rows == setup.rows               \* rows of CTBs in a picture

-----------------------------------------------------------------------------
(* Jobs.  Tile rows are numbered in parsing order: tile after tile.            *)

TileRowCount(s) == s.rows * s.tileCols
TileRows == 0..(TileRowCount(setup) - 1)
Proc(k) == [cmd |-> "process", row |-> k]
Fmt(r) == [cmd |-> "fmtconv", row |-> r]
NoJob == [cmd |-> "none", row |-> 0]
ProcJobs(s) == {Proc(k) : k \in 0..(TileRowCount(s) - 1)}
FmtJobs(s) == {Fmt(r) : r \in 0..(s.rows - 1)}
Jobs == ProcJobs(setup) \union FmtJobs(setup)

RowOf(k) == k % Rows
ColOf(k) == k \div Rows

(* Mutant: no room for the format conversion jobs.                          *)
JobCapacityProc == TileRowCount(setup)

\* The picture a decode call outputs: none, an earlier one, or the one it decodes.
Outputs == {"none", "earlier", "current"}
PictureJobSet(o, s) == ProcJobs(s) \union (IF o = "none" THEN {} ELSE FmtJobs(s))
JobCapacity == TileRowCount(setup) + Rows

\* The jobs queued while the picture is initialised, and those queued at its end.
FmtFirst == FmtAhead /\ shown = "earlier"

FmtLast == shown # "none" /\ ~FmtFirst

\* A tile row can be completed when it is parsed and the CTBs above and to the
\* left, those of other tiles included, are.
ProcReady(k) ==
  /\ k < parsed
  /\ \A m \in TileRows :
       /\ m # k
       /\ RowOf(m) \in {RowOf(k), RowOf(k) - 1}
       /\ ColOf(m) \in {ColOf(k), ColOf(k) - 1}
       => Proc(m) \in finished

\* A row of the current picture is converted once the two rows below are complete.
LastRowBelow(r) == IF r + 2 < Rows THEN r + 2 ELSE Rows - 1
FmtReady(r) ==
  shown = "current" => \A m \in TileRows : RowOf(m) = LastRowBelow(r) => Proc(m) \in finished

CanFinish(j) == IF j.cmd = "process" THEN ProcReady(j.row) ELSE FmtReady(j.row)

-----------------------------------------------------------------------------
(* The pieces the actions share.                                               *)

Free == {t \in Threads : pc[t] = "free"}
Goto(p, l) == pc' = [pc EXCEPT ![p] = l]
MainNext(l) == Goto(Main, l) /\ UNCHANGED idx
NextIndex == idx' = idx + 1

\* ihevcd_jobq_queue; QueueNeverFull shows that its failure is out of reach.
Push(j) == jobs' = Append(jobs, j) /\ terminate' = FALSE

(* Mutant: the start flag is set and nobody is woken.                       *)
SignalStartLost(i, l) == start' = [start EXCEPT ![i] = TRUE] /\ Goto(Main, l)

\* ai4_process_start[i] = 1 and ithread_cond_signal, under the start mutex; Main
\* goes on at l.
SignalStart(i, l) ==
  LET sleepers == {t \in Threads : pc[t] = "asleep" /\ ctx[t] = i}
  IN /\ start' = [start EXCEPT ![i] = TRUE]
     /\ IF sleepers = {} THEN Goto(Main, l)
        ELSE \E t \in sleepers : pc' = [pc EXCEPT ![t] = "arrive", ![Main] = l]

Init ==
  /\ setup \in Setups
  /\ numCores = 1
  /\ created = [i \in Contexts |-> FALSE]
  /\ handle = [i \in Contexts |-> Main]
  /\ start = [i \in Contexts |-> FALSE]
  /\ done = [i \in Contexts |-> FALSE]
  /\ breakThreads = FALSE
  /\ jobs = <<>> /\ rd = 0 /\ terminate = FALSE
  /\ shown = "none" /\ parsed = 0 /\ finished = {}
  /\ pc = [p \in Procs |-> IF p = Main THEN "idle" ELSE "free"]
  /\ job = [p \in Procs |-> NoJob]
  /\ ctx = [t \in Threads |-> 0]
  /\ idx = 0
  /\ call = "none"

-----------------------------------------------------------------------------
(* The application's calls.                                                    *)

\* ihevcd_set_num_cores.  Of workers that are kept the application joins first unless
\* AnyTime; a change without a join is bounded by the identities left for workers.
MayChangeCores == \/ \A i \in Contexts : ~created[i]
                  \/ (KeepActive => AnyTime) /\ Cardinality(Free) >= MaxCores - 1
SetNumCores(n) ==
  /\ pc[Main] = "idle" /\ MayChangeCores
  /\ numCores' = n
  /\ UNCHANGED <<created, handle, ctx, flagVars, queueVars, picVars, pc, job, idx, callVars>>

\* ihevcd_decode in flush mode after a change of resolution: with nothing left to
\* output ihevcd_init returns to one core, without ihevcd_join_threads.
AutoReset ==
  /\ pc[Main] = "idle" /\ MayChangeCores
  /\ numCores' = 1
  /\ UNCHANGED <<created, handle, ctx, flagVars, queueVars, picVars, pc, job, idx, callVars>>

\* ihevcd_decode reaches the first slice of a picture: ihevcd_parse_pic_init up to
\* the loop over the contexts.
Decode(o) ==
  /\ pc[Main] = "idle"
  /\ jobs' = <<>> /\ rd' = 0 /\ terminate' = FALSE
  /\ breakThreads' = (breakThreads /\ ~KeepActive)
  /\ shown' = o /\ parsed' = 0 /\ finished' = {}
  /\ Goto(Main, "create") /\ idx' = 0 /\ call' = "decode"
  /\ UNCHANGED <<poolVars, start, done, job, setup>>

(* Mutants: a reset or a delete call that does not join.                    *)
JoinUnless(c, without) ==
  /\ pc[Main] = "idle"
  /\ breakThreads' = (breakThreads \/ KeepActive)
  /\ Goto(Main, "join") /\ idx' = IF KeepActive /\ c # without THEN 0 ELSE MaxCores
  /\ call' = c
  /\ UNCHANGED <<poolVars, start, done, queueVars, picVars, job, setup>>
JoinNotReset(c) == JoinUnless(c, "reset")
JoinNotDelete(c) == JoinUnless(c, "delete")

\* ihevcd_set_flush_mode, ihevcd_reset and the delete call begin with
\* ihevcd_join_threads.
Join(c) ==
  /\ pc[Main] = "idle"
  /\ breakThreads' = (breakThreads \/ KeepActive)
  /\ Goto(Main, "join") /\ idx' = IF KeepActive THEN 0 ELSE MaxCores
  /\ call' = c
  /\ UNCHANGED <<poolVars, start, done, queueVars, picVars, job, setup>>

-----------------------------------------------------------------------------
(* ihevcd_parse_pic_init: the loop over the contexts, then the early jobs.     *)

CreateThread ==
  /\ pc[Main] = "create" /\ idx < numCores - 1 /\ ~created[idx]
  /\ LET t == CHOOSE t \in Free : TRUE
     IN /\ pc' = [pc EXCEPT ![t] = IF KeepActive THEN "arrive" ELSE "take"]
        /\ ctx' = [ctx EXCEPT ![t] = idx]
        /\ handle' = [handle EXCEPT ![idx] = t]
  /\ created' = [created EXCEPT ![idx] = TRUE]
  /\ UNCHANGED <<numCores, flagVars, queueVars, picVars, job, idx, callVars>>

StartThread ==
  /\ pc[Main] = "create" /\ idx < numCores - 1 /\ created[idx]
  /\ IF KeepActive THEN SignalStart(idx, "create") ELSE UNCHANGED <<start, pc>>
  /\ NextIndex
  /\ UNCHANGED <<poolVars, done, breakThreads, queueVars, picVars, job, callVars>>

\* A context this picture does not use: its worker, if any, is forgotten.
SkipContext ==
  /\ pc[Main] = "create" /\ idx \in Contexts /\ idx >= numCores - 1
  /\ created' = [created EXCEPT ![idx] = FALSE]
  /\ NextIndex
  /\ UNCHANGED <<numCores, handle, ctx, flagVars, queueVars, picVars, pc, job, callVars>>

ContextsDone ==
  /\ pc[Main] = "create" /\ idx = MaxCores
  /\ Goto(Main, "ahead") /\ idx' = 0
  /\ UNCHANGED <<poolVars, flagVars, queueVars, picVars, job, callVars>>

QueueAhead ==
  /\ pc[Main] = "ahead"
  /\ IF numCores > 1 /\ FmtFirst /\ idx < Rows
     THEN Push(Fmt(idx)) /\ NextIndex /\ UNCHANGED pc
     ELSE UNCHANGED <<jobs, terminate>> /\ MainNext("parse")
  /\ UNCHANGED <<poolVars, flagVars, rd, picVars, job, callVars>>

-----------------------------------------------------------------------------
(* ihevcd_parse_slice_data, a tile row at a time, and the end of ihevcd_decode. *)

\* The first CTB of a tile row: its job is queued before it is parsed.
QueueRow ==
  /\ pc[Main] = "parse" /\ parsed \in TileRows
  /\ IF numCores > 1 THEN Push(Proc(parsed)) ELSE UNCHANGED <<jobs, terminate>>
  /\ MainNext("parseRow")
  /\ UNCHANGED <<poolVars, flagVars, rd, picVars, job, callVars>>

\* The rest of the row; on one core it is processed at once.
ParseRow ==
  /\ pc[Main] = "parseRow"
  /\ parsed' = parsed + 1
  /\ finished' = IF numCores > 1 THEN finished ELSE finished \union {Proc(parsed)}
  /\ MainNext("parse")
  /\ UNCHANGED <<poolVars, flagVars, queueVars, shown, job, callVars>>

EndOfFrame ==
  /\ pc[Main] = "parse" /\ parsed \notin TileRows
  /\ Goto(Main, "convert") /\ idx' = 0
  /\ UNCHANGED <<poolVars, flagVars, queueVars, picVars, job, callVars>>

\* The format conversion jobs that could not be queued ahead.
QueueFmt ==
  /\ pc[Main] = "convert" /\ numCores > 1 /\ FmtLast /\ idx < Rows
  /\ Push(Fmt(idx)) /\ NextIndex
  /\ UNCHANGED <<poolVars, flagVars, rd, picVars, pc, job, callVars>>

Terminate ==
  /\ pc[Main] = "convert" /\ numCores > 1 /\ (FmtLast => idx = Rows)
  /\ terminate' = TRUE
  /\ MainNext("take")
  /\ UNCHANGED <<poolVars, flagVars, jobs, rd, picVars, job, callVars>>

\* On one core ihevcd_decode converts the picture itself.
ConvertHere ==
  /\ pc[Main] = "convert" /\ numCores = 1
  /\ IF shown # "none" /\ idx < Rows
     THEN finished' = finished \union {Fmt(idx)} /\ NextIndex /\ UNCHANGED pc
     ELSE Goto(Main, "wait") /\ idx' = 0 /\ UNCHANGED finished
  /\ UNCHANGED <<poolVars, flagVars, queueVars, shown, parsed, job, callVars>>

-----------------------------------------------------------------------------
(* Taking and doing jobs: the workers in ihevcd_process_thread and Main at the *)
(* end of ihevcd_decode, as the context numCores - 1.                          *)

(* Mutant: the read pointer stays on the job taken.                         *)
TakeStays(p) ==
  /\ pc[p] = "take" /\ rd < Len(jobs) /\ rd < JobCapacity
  /\ job' = [job EXCEPT ![p] = jobs[rd + 1]]
  /\ Goto(p, "work")
  /\ UNCHANGED <<poolVars, flagVars, queueVars, picVars, idx, callVars>>

Take(p) ==
  /\ pc[p] = "take" /\ rd < Len(jobs) /\ rd < JobCapacity
  /\ job' = [job EXCEPT ![p] = jobs[rd + 1]]
  /\ rd' = rd + 1
  /\ Goto(p, "work")
  /\ UNCHANGED <<poolVars, flagVars, jobs, terminate, picVars, idx, callVars>>

Finish(p) ==
  /\ pc[p] = "work" /\ CanFinish(job[p])
  /\ finished' = finished \union {job[p]}
  /\ job' = [job EXCEPT ![p] = NoJob]
  /\ Goto(p, "take")
  /\ UNCHANGED <<poolVars, flagVars, queueVars, shown, parsed, idx, callVars>>

(* Mutant: terminate is obeyed with jobs left in the queue.                 *)
LeaveAtOnce(p) ==
  /\ pc[p] = "take"
  /\ rd >= JobCapacity \/ terminate
  /\ Goto(p, IF p = Main THEN "wait" ELSE "leave")
  /\ idx' = IF p = Main THEN 0 ELSE idx
  /\ UNCHANGED <<poolVars, flagVars, queueVars, picVars, job, callVars>>

\* ihevcd_jobq_dequeue fails: the queue is used up, or it is empty and terminated.
Leave(p) ==
  /\ pc[p] = "take"
  /\ rd >= JobCapacity \/ (rd >= Len(jobs) /\ terminate)
  /\ Goto(p, IF p = Main THEN "wait" ELSE "leave")
  /\ idx' = IF p = Main THEN 0 ELSE idx
  /\ UNCHANGED <<poolVars, flagVars, queueVars, picVars, job, callVars>>

\* The end of a worker's picture: the done flag and its signal, or the thread ends.
Report(t) ==
  /\ pc[t] = "leave"
  /\ IF KeepActive
     THEN /\ done' = [done EXCEPT ![ctx[t]] = TRUE]
          /\ pc' = [pc EXCEPT ![t] = "arrive",
                              ![Main] = IF @ = "waitAsleep" /\ idx = ctx[t] THEN "wait" ELSE @]
     ELSE Goto(t, "exited") /\ UNCHANGED done
  /\ UNCHANGED <<poolVars, start, breakThreads, queueVars, picVars, job, idx, callVars>>

(* Mutant: the worker leaves its start flag set.                            *)
ArriveKeeps(t) ==
  /\ pc[t] = "arrive"
  /\ IF start[ctx[t]] THEN Goto(t, "started") ELSE Goto(t, "asleep")
  /\ UNCHANGED <<poolVars, flagVars, queueVars, picVars, job, idx, callVars>>

\* The start mutex: the worker takes its start flag or sleeps on the condition.
Arrive(t) ==
  /\ pc[t] = "arrive"
  /\ IF start[ctx[t]]
     THEN start' = [start EXCEPT ![ctx[t]] = FALSE] /\ Goto(t, "started")
     ELSE Goto(t, "asleep") /\ UNCHANGED start
  /\ UNCHANGED <<poolVars, done, breakThreads, queueVars, picVars, job, idx, callVars>>

Started(t) ==
  /\ pc[t] = "started"
  /\ Goto(t, IF breakThreads THEN "exited" ELSE "take")
  /\ UNCHANGED <<poolVars, flagVars, queueVars, picVars, job, idx, callVars>>

-----------------------------------------------------------------------------
(* Waiting for the workers: at the end of ihevcd_decode and in                 *)
(* ihevcd_join_threads.                                                        *)

WaitsFor(i) == pc[Main] = "wait" /\ idx = i /\ i < numCores - 1 /\ created[i]

(* Mutant: the done flag is left set for the next picture.                  *)
WaitDoneKeeps ==
  /\ KeepActive /\ WaitsFor(idx)
  /\ IF done[idx] THEN NextIndex /\ UNCHANGED pc ELSE MainNext("waitAsleep")
  /\ UNCHANGED <<poolVars, flagVars, queueVars, picVars, job, callVars>>

WaitDone ==
  /\ KeepActive /\ WaitsFor(idx)
  /\ IF done[idx]
     THEN done' = [done EXCEPT ![idx] = FALSE] /\ NextIndex /\ UNCHANGED pc
     ELSE MainNext("waitAsleep") /\ UNCHANGED done
  /\ UNCHANGED <<poolVars, start, breakThreads, queueVars, picVars, job, callVars>>

\* ithread_join: the thread's identity may be used again.
WaitJoin ==
  /\ ~KeepActive /\ WaitsFor(idx) /\ pc[handle[idx]] = "exited"
  /\ Goto(handle[idx], "free")
  /\ created' = [created EXCEPT ![idx] = FALSE]
  /\ NextIndex
  /\ UNCHANGED <<numCores, handle, ctx, flagVars, queueVars, picVars, job, callVars>>

DecodeReturns ==
  /\ pc[Main] = "wait" /\ idx >= numCores - 1
  /\ MainNext("idle")
  /\ UNCHANGED <<poolVars, flagVars, queueVars, picVars, job, callVars>>

JoinSignal ==
  /\ pc[Main] = "join" /\ idx \in Contexts /\ created[idx]
  /\ SignalStart(idx, "joining")
  /\ UNCHANGED <<poolVars, done, breakThreads, queueVars, picVars, job, idx, callVars>>

JoinSkip ==
  /\ pc[Main] = "join" /\ idx \in Contexts /\ ~created[idx]
  /\ NextIndex
  /\ UNCHANGED <<poolVars, flagVars, queueVars, picVars, pc, job, callVars>>

JoinThread ==
  /\ pc[Main] = "joining" /\ pc[handle[idx]] = "exited"
  /\ pc' = [pc EXCEPT ![handle[idx]] = "free", ![Main] = "join"]
  /\ created' = [created EXCEPT ![idx] = FALSE]
  /\ NextIndex
  /\ UNCHANGED <<numCores, handle, ctx, flagVars, queueVars, picVars, job, callVars>>

(* Mutant: a reset leaves the decoder without a core.                       *)
JoinReturnsNone ==
  /\ pc[Main] = "join" /\ idx = MaxCores
  /\ MainNext(IF call = "delete" THEN "deleted" ELSE "idle")
  /\ numCores' = IF call = "reset" THEN 0 ELSE numCores
  /\ UNCHANGED <<created, handle, ctx, flagVars, queueVars, picVars, job, callVars>>

\* A reset goes on with ihevcd_init, a delete frees the codec.
JoinReturns ==
  /\ pc[Main] = "join" /\ idx = MaxCores
  /\ MainNext(IF call = "delete" THEN "deleted" ELSE "idle")
  /\ numCores' = IF call = "reset" THEN 1 ELSE numCores
  /\ UNCHANGED <<created, handle, ctx, flagVars, queueVars, picVars, job, callVars>>

Deleted == pc[Main] = "deleted" /\ UNCHANGED vars

\* ithread_cond_wait may also return unsignalled: both waits test their flag again.
Spurious ==
  /\ \/ \E t \in Threads : pc[t] = "asleep" /\ Goto(t, "arrive")
     \/ pc[Main] = "waitAsleep" /\ Goto(Main, "wait")
  /\ UNCHANGED <<poolVars, flagVars, queueVars, picVars, job, idx, callVars>>

-----------------------------------------------------------------------------

Application == \/ \E n \in CoreCounts : SetNumCores(n)
               \/ AutoReset
               \/ \E o \in Outputs : Decode(o)
               \/ \E c \in {"flush", "reset", "delete"} : Join(c)

MainStep == \/ CreateThread \/ StartThread \/ SkipContext \/ ContextsDone \/ QueueAhead
            \/ QueueRow \/ ParseRow \/ EndOfFrame \/ QueueFmt \/ Terminate \/ ConvertHere
            \/ Take(Main) \/ Finish(Main) \/ Leave(Main)
            \/ WaitDone \/ WaitJoin \/ DecodeReturns
            \/ JoinSignal \/ JoinSkip \/ JoinThread \/ JoinReturns

ThreadStep(t) == \/ Take(t) \/ Finish(t) \/ Leave(t)
                 \/ Report(t) \/ Arrive(t) \/ Started(t)

Next == Application \/ MainStep \/ (\E t \in Threads : ThreadStep(t)) \/ Spurious \/ Deleted

\* The operating system schedules every thread that can run; nothing makes the
\* application call.
Fairness == WF_vars(MainStep) /\ \A t \in Threads : WF_vars(ThreadStep(t))

Spec == Init /\ [][Next]_vars /\ Fairness

-----------------------------------------------------------------------------
(* What the threads must guarantee.                                            *)

ThreadPlaces == {"free", "arrive", "asleep", "started", "take", "work", "leave", "exited"}
MainPlaces == {"idle", "create", "ahead", "parse", "parseRow", "convert", "take", "work",
               "wait", "waitAsleep", "join", "joining", "deleted"}

\* Every variable has the type of the codec_t or jobq_t field it models.
TypeOK ==
  /\ setup \in Setups
  /\ numCores \in 1..MaxCores
  /\ created \in [Contexts -> BOOLEAN]
  /\ handle \in [Contexts -> Procs]
  /\ start \in [Contexts -> BOOLEAN] /\ done \in [Contexts -> BOOLEAN]
  /\ breakThreads \in BOOLEAN
  /\ jobs \in Seq(Jobs) /\ rd \in 0..Len(jobs) /\ terminate \in BOOLEAN
  /\ shown \in Outputs /\ parsed \in 0..TileRowCount(setup) /\ finished \subseteq Jobs
  /\ pc \in [Procs -> ThreadPlaces \union MainPlaces]
  /\ job \in [Procs -> Jobs \union {NoJob}]
  /\ ctx \in [Threads -> Contexts]
  /\ idx \in 0..(MaxCores + Rows)
  /\ call \in {"none", "decode", "flush", "reset", "delete"}

InPicture(t) == pc[t] \in {"started", "take", "work", "leave"}

\* Between two calls no worker touches the picture, the queue or its context: the
\* calls that release, flush and reset buffers take no lock because of this
\* (ihevcd_decode's "Wait for threads").  Violated by a done flag that is left over
\* from an earlier picture.
WorkersRest == pc[Main] = "idle" => \A t \in Threads : ~InPicture(t)

\* No start or done flag survives the call it was raised in, so that none is taken
\* for one of the next picture.
FlagsConsumed == pc[Main] \in {"idle", "deleted"} =>
                   \A i \in Contexts : ~start[i] /\ ~done[i]

\* Two threads never work with one process context, Main's numCores - 1 included
\* ("i4_num_cores - 1 contexts are currently being used by other threads").
ContextsPrivate ==
  /\ \A t, u \in Threads : t # u /\ pc[t] # "free" /\ pc[u] # "free" => ctx[t] # ctx[u]
  /\ pc[Main] \in {"take", "work"} => \A t \in Threads : InPicture(t) => ctx[t] # numCores - 1

\* The queue never refuses a job, so no call is left half-way with its workers
\* running: ihevcd_jobq_queue's buffer "is assumed to be allocated to handle worst
\* case number of jobs".
QueueNeverFull == Len(jobs) <= JobCapacity

\* No two threads do the same job, and none is done again: a row reconstructed twice
\* gets its residual added twice.
JobsOnce == \A p \in Procs : job[p] # NoJob =>
              job[p] \notin finished /\ \A q \in Procs \ {p} : job[q] # job[p]

\* A deleted decoder has no worker: the mutexes, conditions and contexts it uses
\* are freed ("Wait for threads", ihevcd_free_static_bufs).
NoThreadLeft == pc[Main] = "deleted" => Free = Threads

Promise == INSTANCE PictureJobs WITH
             JobSets <- {PictureJobSet(o, s) : o \in Outputs, s \in Setups},
             todo <- IF call = "decode" THEN PictureJobSet(shown, setup) \ finished ELSE {},
             inCall <- pc[Main] \notin {"idle", "deleted"}

\* All the jobs of a picture are done before the call returns, and none between calls.
JobsDoneByCall == Promise!Spec

\* Every call returns: no worker and no wait of Main is left waiting for another.
CallsReturn == pc[Main] \notin {"idle", "deleted"} ~> pc[Main] \in {"idle", "deleted"}
=============================================================================
