------------------------ MODULE DecodeThreads_proofs ------------------------
(* Proofs about DecodeThreads for every number of cores, threads, rows and      *)
(* tiles: the handshakes, the queue, and that a decode call returns when all    *)
(* jobs of its picture are done.                                                *)
EXTENDS DecodeThreads, FiniteSetTheorems, TLAPS

(* What the handshakes rely on: the application does not change the number of   *)
(* cores while it has workers kept from picture to picture.  Run threads_left   *)
(* shows what happens otherwise.                                                *)
SafeCores == AnyTime => \A s \in Setups : ~s.keepActive

-----------------------------------------------------------------------------
(* The inductive invariant.                                                    *)

InDecode == pc[Main] \in {"create", "ahead", "parse", "parseRow", "convert", "take",
                          "work", "wait", "waitAsleep"}
InJoin == pc[Main] \in {"join", "joining"}

\* Where Main is, and what its counter counts there.
MainInv ==
  /\ pc[Main] \in MainPlaces
  /\ \A t \in Threads : pc[t] \in ThreadPlaces
  /\ InDecode => call = "decode"
  /\ InJoin => call \in {"flush", "reset", "delete"}
  /\ pc[Main] \in {"create", "join"} => idx <= MaxCores
  /\ pc[Main] \in {"ahead", "convert"} => idx <= Rows
  /\ pc[Main] = "wait" => idx <= numCores - 1
  /\ pc[Main] = "waitAsleep" => KeepActive /\ idx < numCores - 1
  /\ pc[Main] = "join" /\ ~KeepActive => idx = MaxCores
  /\ pc[Main] = "joining" => KeepActive /\ idx < MaxCores /\ created[idx]
  /\ KeepActive /\ InDecode => ~breakThreads
  /\ KeepActive /\ InJoin => breakThreads

\* A thread that exists is the one its context remembers, and the other way round.
PoolInv ==
  /\ \A t \in Threads : pc[t] # "free" => created[ctx[t]] /\ handle[ctx[t]] = t
  /\ \A i \in Contexts : created[i] =>
       i < numCores - 1 /\ handle[i] \in Threads /\ pc[handle[i]] # "free" /\ ctx[handle[i]] = i
  /\ \A i \in Contexts : InJoin /\ i < idx => ~created[i]
  /\ pc[Main] = "deleted" => \A i \in Contexts : ~created[i]

\* Main has started context i for the picture in hand and not yet waited for it.
Engaged(i) == \/ pc[Main] = "create" /\ i < idx
              \/ pc[Main] \in {"ahead", "parse", "parseRow", "convert", "take", "work"}
              \/ pc[Main] \in {"wait", "waitAsleep"} /\ i >= idx
Leaving(i) == pc[Main] = "joining" /\ i = idx

\* A kept worker and its flags: it rests, or has been started, works or has reported,
\* or it has been told to leave.
Resting(i) == ~start[i] /\ ~done[i] /\ pc[handle[i]] \in {"arrive", "asleep"}
Reported(i) == ~start[i] /\ done[i] /\ pc[handle[i]] \in {"arrive", "asleep"}
Called(i) == start[i] /\ ~done[i] /\ pc[handle[i]] = "arrive"
Busy(i) == ~start[i] /\ ~done[i] /\ pc[handle[i]] \in {"started", "take", "work", "leave"}
Going(i) == ~start[i] /\ ~done[i] /\ pc[handle[i]] \in {"started", "exited"}

HandAt(i) ==
  /\ ~created[i] => ~start[i] /\ ~done[i]
  /\ KeepActive /\ created[i] =>
       IF Engaged(i) THEN Called(i) \/ Busy(i) \/ Reported(i)
       ELSE IF Leaving(i) THEN Called(i) \/ Going(i)
       ELSE Resting(i)
  /\ ~KeepActive /\ created[i] =>
       /\ Engaged(i) \/ (pc[Main] = "create" /\ i <= idx)
       /\ ~start[i] /\ ~done[i]
       /\ pc[handle[i]] \in {"take", "work", "leave", "exited"}
HandInv == \A i \in Contexts : HandAt(i)

\* The job at each place of the queue: the early conversion jobs, the tile rows, the
\* other conversion jobs.
EarlyJobs == IF FmtFirst THEN Rows ELSE 0
JobAt(n) == IF n <= EarlyJobs THEN Fmt(n - 1)
            ELSE IF n <= EarlyJobs + TileRowCount(setup) THEN Proc(n - EarlyJobs - 1)
            ELSE Fmt(n - EarlyJobs - TileRowCount(setup) - 1)

\* How many jobs are in the queue of several cores; one core queues none.
PictureJobCount == TileRowCount(setup) + (IF shown = "none" THEN 0 ELSE Rows)
QueueInv ==
  /\ \A n \in 1..Len(jobs) : jobs[n] = JobAt(n)
  /\ Len(jobs) <= PictureJobCount
  /\ pc[Main] = "create" => jobs = <<>> /\ parsed = 0
  /\ pc[Main] = "ahead" => Len(jobs) = idx /\ parsed = 0 /\ (idx > 0 => FmtFirst)
  /\ pc[Main] = "parseRow" => parsed < TileRowCount(setup)
  /\ pc[Main] = "convert" => parsed = TileRowCount(setup)
  /\ InDecode /\ numCores = 1 => jobs = <<>> /\ pc[Main] \notin {"take", "work"}
  /\ numCores > 1 =>
       /\ pc[Main] = "parse" => Len(jobs) = EarlyJobs + parsed
       /\ pc[Main] = "parseRow" => Len(jobs) = EarlyJobs + parsed + 1
       /\ pc[Main] = "convert" =>
            Len(jobs) = EarlyJobs + TileRowCount(setup) + idx /\ (idx > 0 => FmtLast)
       /\ pc[Main] \in {"take", "work", "wait", "waitAsleep"} => Len(jobs) = PictureJobCount

\* Every job taken is in one hand or finished.
Busily(p) == pc[p] = "work"
JobInv ==
  /\ \A p \in Procs : job[p] # NoJob => Busily(p)
  /\ \A p \in Procs : Busily(p) => \E n \in 1..rd : jobs[n] = job[p]
  /\ \A p, q \in Procs : Busily(p) /\ Busily(q) /\ p # q => job[p] # job[q]
  /\ \A p \in Procs : Busily(p) => job[p] \notin finished
  /\ InDecode /\ numCores > 1 => \A j \in finished : \E n \in 1..rd : jobs[n] = j
  /\ InDecode => \A n \in 1..rd : jobs[n] \in finished \/ \E p \in Procs : Busily(p) /\ job[p] = jobs[n]
  /\ pc[Main] \in {"wait", "waitAsleep"} /\ numCores > 1 => rd = Len(jobs)

\* On one core Main has done what it has passed.
AloneInv == numCores = 1 =>
  /\ pc[Main] \in {"parse", "parseRow"} => \A k \in 0..(parsed - 1) : Proc(k) \in finished
  /\ pc[Main] \in {"convert", "wait", "waitAsleep"} => ProcJobs(setup) \subseteq finished
  /\ pc[Main] = "convert" /\ shown # "none" => \A r \in 0..(idx - 1) : Fmt(r) \in finished
  /\ pc[Main] \in {"wait", "waitAsleep"} => PictureJobSet(shown, setup) \subseteq finished

IInv == TypeOK /\ MainInv /\ PoolInv /\ HandInv /\ QueueInv /\ JobInv /\ AloneInv

-----------------------------------------------------------------------------
(* What the constants and the queue's order give.                              *)

LEMMA SetupsType ==
  ASSUME NEW s \in Setups
  PROVE  /\ s.keepActive \in BOOLEAN /\ s.fmtAhead \in BOOLEAN
         /\ s.rows \in Nat \ {0} /\ TileRowCount(s) \in Nat \ {0}
<1>1. /\ s.keepActive \in BOOLEAN /\ s.fmtAhead \in BOOLEAN
      /\ s.rows \in Nat \ {0} /\ s.tileCols \in Nat \ {0}
  BY SetupsAssumption
<1>2. \A m, n \in Nat \ {0} : m * n \in Nat \ {0}
  OBVIOUS
<1> QED BY <1>1, <1>2 DEF TileRowCount

LEMMA SetupType ==
  ASSUME TypeOK
  PROVE  /\ KeepActive \in BOOLEAN /\ FmtAhead \in BOOLEAN
         /\ Rows \in Nat \ {0} /\ TileRowCount(setup) \in Nat \ {0}
         /\ FmtFirst \in BOOLEAN /\ EarlyJobs \in {0, Rows}
BY SetupsType DEF TypeOK, KeepActive, FmtAhead, Rows, FmtFirst, EarlyJobs

\* The queue never holds a job twice.
LEMMA JobsDiffer ==
  ASSUME TypeOK, QueueInv, NEW m \in 1..Len(jobs), NEW n \in 1..Len(jobs),
         jobs[m] = jobs[n]
  PROVE  m = n
<1>1. JobAt(m) = JobAt(n) /\ m \in Nat /\ n \in Nat
  BY DEF QueueInv, TypeOK
<1>2. FmtFirst => m <= Rows + TileRowCount(setup) /\ n <= Rows + TileRowCount(setup)
  BY SetupType DEF QueueInv, PictureJobCount, TypeOK
<1>3. CASE FmtFirst
  BY <1>1, <1>2, <1>3, SetupType DEF JobAt, EarlyJobs, Fmt, Proc
<1>4. CASE ~FmtFirst
  BY <1>1, <1>4, SetupType DEF JobAt, EarlyJobs, Fmt, Proc
<1> QED BY <1>3, <1>4

-----------------------------------------------------------------------------
(* The invariant holds initially and every action keeps it.                    *)

USE DEF queueVars, flagVars, poolVars, picVars, callVars, Procs, Goto, MainNext, NextIndex

LEMMA Facts ==
  ASSUME IInv
  PROVE  /\ TypeOK /\ MainInv /\ PoolInv /\ HandInv /\ QueueInv /\ JobInv /\ AloneInv
         /\ Main \notin Threads /\ MaxCores \in Nat \ {0}
         /\ KeepActive \in BOOLEAN
         /\ Rows \in Nat \ {0} /\ TileRowCount(setup) \in Nat \ {0}
         /\ EarlyJobs \in {0, Rows} /\ FmtFirst \in BOOLEAN
BY SetupType, ThreadsAssumption, CoresAssumption DEF IInv

\* On one core there is no worker.
LEMMA AloneFree ==
  ASSUME IInv, numCores = 1
  PROVE  \A t \in Threads : pc[t] = "free"
BY Facts DEF PoolInv, TypeOK, Contexts

\* A worker that has a picture in hand is engaged, so that Main is in a decode call.
LEMMA InHandInDecode ==
  ASSUME IInv, NEW t \in Threads, pc[t] \in {"take", "work", "leave"}
  PROVE  /\ InDecode /\ numCores > 1
         /\ created[ctx[t]] /\ handle[ctx[t]] = t /\ ctx[t] \in Contexts
         /\ KeepActive => Engaged(ctx[t]) /\ Busy(ctx[t])
<1>1. ctx[t] \in Contexts /\ created[ctx[t]] /\ handle[ctx[t]] = t /\ numCores > 1
  BY Facts DEF PoolInv, TypeOK, Contexts
<1>2. KeepActive => Engaged(ctx[t]) /\ Busy(ctx[t])
  BY <1>1, Facts DEF HandInv, HandAt, Called, Busy, Reported, Resting, Going
<1>3. InDecode
  BY <1>1, <1>2, Facts DEF HandInv, HandAt, Engaged, InDecode
<1> QED BY <1>1, <1>2, <1>3

\* Whoever takes a job does so in a decode call on several cores.
LEMMA TakerInDecode ==
  ASSUME IInv, NEW p \in Procs, pc[p] \in {"take", "work"}
  PROVE  InDecode /\ numCores > 1
<1>1. CASE p = Main
  BY <1>1, Facts DEF InDecode, QueueInv, TypeOK
<1>2. CASE p \in Threads
  BY <1>2, InHandInDecode
<1> QED BY <1>1, <1>2

\* Steps that leave the jobs taken alone.
LEMMA JobFrame ==
  ASSUME JobInv, UNCHANGED <<rd, finished, job>>,
         \A n \in 1..rd : jobs'[n] = jobs[n],
         \A p \in Procs : pc'[p] = "work" <=> pc[p] = "work",
         InDecode' => InDecode /\ numCores' = numCores,
         pc'[Main] \in {"wait", "waitAsleep"} /\ numCores' > 1 =>
           pc[Main] \in {"wait", "waitAsleep"} /\ jobs' = jobs
  PROVE  JobInv'
<1>1. \A p \in Procs : Busily(p)' <=> Busily(p)
  BY DEF Busily
<1>2. \A p \in Procs : job'[p] = job[p]
  OBVIOUS
<1>3. (\A p \in Procs : Busily(p) => \E n \in 1..rd : jobs[n] = job[p])'
  BY <1>1 DEF JobInv
<1>4. (\A p, q \in Procs : Busily(p) /\ Busily(q) /\ p # q => job[p] # job[q])'
  BY <1>1 DEF JobInv
<1>5. (InDecode /\ numCores > 1 => \A j \in finished : \E n \in 1..rd : jobs[n] = j)'
  BY DEF JobInv
<1>6. (InDecode => \A n \in 1..rd : jobs[n] \in finished
                                   \/ \E p \in Procs : Busily(p) /\ job[p] = jobs[n])'
  BY <1>1 DEF JobInv
<1>7. (pc[Main] \in {"wait", "waitAsleep"} /\ numCores > 1 => rd = Len(jobs))'
  BY DEF JobInv, InDecode
<1>8. (\A p \in Procs : job[p] # NoJob => Busily(p))'
  BY <1>1 DEF JobInv
<1>9. (\A p \in Procs : Busily(p) => job[p] \notin finished)'
  BY <1>1 DEF JobInv
<1> QED BY <1>3, <1>4, <1>5, <1>6, <1>7, <1>8, <1>9 DEF JobInv

\* The steps of the picture's jobs leave Main where it is, wake it in its wait, or
\* are its own.
Steady ==
  /\ UNCHANGED <<setup, numCores, breakThreads, jobs, shown, parsed, idx, call>>
  /\ \/ pc'[Main] = pc[Main]
     \/ pc[Main] = "waitAsleep" /\ pc'[Main] = "wait"
     \/ pc[Main] \in {"take", "work"} /\ pc'[Main] \in {"take", "work"}

LEMMA QueueFrame ==
  ASSUME IInv, Steady
  PROVE  QueueInv'
BY Facts DEF Steady, QueueInv, InDecode, JobAt, EarlyJobs, PictureJobCount, FmtFirst,
             FmtLast, FmtAhead, Rows

LEMMA AloneFrame ==
  ASSUME IInv, Steady, finished \subseteq finished'
  PROVE  AloneInv'
BY Facts DEF Steady, AloneInv

LEMMA MainFrame ==
  ASSUME IInv, Steady, created' = created,
         \A t \in Threads : pc'[t] \in ThreadPlaces
  PROVE  MainInv'
BY Facts DEF Steady, MainInv, InDecode, InJoin, KeepActive, MainPlaces, Rows, TypeOK

\* ... and leaves the other contexts alone.
LEMMA HandOther ==
  ASSUME Steady, NEW i \in Contexts, HandAt(i),
         created'[i] = created[i], handle'[i] = handle[i], start'[i] = start[i],
         done'[i] = done[i], created[i] => pc'[handle[i]] = pc[handle[i]]
  PROVE  HandAt(i)'
BY DEF Steady, HandAt, KeepActive, Engaged, Leaving, Called, Busy, Reported, Resting, Going

-----------------------------------------------------------------------------
(* The workers' actions.                                                       *)

LEMMA ArriveStep ==
  ASSUME IInv, NEW t \in Threads, Arrive(t)
  PROVE  IInv'
<1>0. /\ pc[t] = "arrive" /\ ctx[t] \in Contexts /\ created[ctx[t]] /\ handle[ctx[t]] = t
      /\ KeepActive
  BY Facts DEF Arrive, PoolInv, HandInv, HandAt, TypeOK
<1>1. /\ Steady /\ UNCHANGED <<created, handle, ctx, done, rd, terminate, finished, job>>
      /\ \A p \in Procs : p # t => pc'[p] = pc[p]
      /\ \/ start[ctx[t]] /\ start' = [start EXCEPT ![ctx[t]] = FALSE] /\ pc'[t] = "started"
         \/ ~start[ctx[t]] /\ start' = start /\ pc'[t] = "asleep"
  BY Facts DEF Arrive, Steady, TypeOK
<1>2. TypeOK'
  <2>1. start' \in [Contexts -> BOOLEAN]
    BY <1>1, Facts DEF TypeOK
  <2>2. pc' \in [Procs -> ThreadPlaces \union MainPlaces]
    <3>1. "started" \in ThreadPlaces /\ "asleep" \in ThreadPlaces
      BY DEF ThreadPlaces
    <3> QED BY <3>1, Facts DEF Arrive, Goto, TypeOK
  <2>3. UNCHANGED <<poolVars, done, breakThreads, queueVars, picVars, job, idx, callVars>>
    BY DEF Arrive
  <2> QED BY <2>1, <2>2, <2>3, Facts DEF TypeOK, poolVars, queueVars, picVars, callVars, Jobs, Rows
<1>3. MainInv'
  BY <1>1, MainFrame, Facts DEF MainInv, ThreadPlaces
<1>4. PoolInv'
  <2>1. /\ pc'[Main] = pc[Main] /\ idx' = idx /\ numCores' = numCores
        /\ created' = created /\ handle' = handle /\ ctx' = ctx
        /\ \A p \in Procs : pc'[p] = "free" <=> pc[p] = "free"
    BY <1>0, <1>1, Facts, SMTT(30) DEF Steady, TypeOK
  <2>2. PoolInv
    BY Facts
  <2>3. Contexts' = Contexts /\ InJoin' = InJoin
    BY <2>1 DEF InJoin, Contexts
  <2>4. \A i \in Contexts : handle[i] \in Procs
    BY Facts DEF TypeOK
  <2>5. \A u \in Threads : u \in Procs
    BY DEF Procs
  <2> QED BY <2>1, <2>2, <2>3, <2>4, <2>5, SMTT(30) DEF PoolInv
<1>5. HandInv'
  <2> SUFFICES ASSUME NEW i \in Contexts PROVE HandAt(i)'
    BY DEF HandInv
  <2>1. CASE i = ctx[t]
    BY <2>1, <1>0, <1>1, Facts DEF HandInv, HandAt, Steady, TypeOK, KeepActive, Engaged,
                                   Leaving, Called, Busy, Reported, Resting, Going
  <2>2. CASE i # ctx[t]
    <3>1. created[i] => handle[i] # t /\ handle[i] \in Procs
      BY <2>2, Facts DEF PoolInv
    <3> QED BY <3>1, <2>2, <1>0, <1>1, HandOther, Facts DEF HandInv, TypeOK
  <2> QED BY <2>1, <2>2
<1>6. QueueInv' /\ AloneInv'
  BY <1>1, QueueFrame, AloneFrame
<1>7. JobInv'
  BY <1>0, <1>1, JobFrame, Facts DEF Steady, InDecode
<1> QED BY <1>2, <1>3, <1>4, <1>5, <1>6, <1>7 DEF IInv

LEMMA StartedStep ==
  ASSUME IInv, NEW t \in Threads, Started(t)
  PROVE  IInv'
<1>0. /\ pc[t] = "started" /\ ctx[t] \in Contexts /\ created[ctx[t]] /\ handle[ctx[t]] = t
      /\ KeepActive
      /\ \/ Engaged(ctx[t]) /\ Busy(ctx[t]) /\ ~breakThreads
         \/ Leaving(ctx[t]) /\ Going(ctx[t]) /\ breakThreads
  <2>1. pc[t] = "started" /\ ctx[t] \in Contexts /\ created[ctx[t]] /\ handle[ctx[t]] = t
    BY Facts DEF Started, PoolInv, TypeOK
  <2>2. KeepActive /\ HandAt(ctx[t])
    BY <2>1, Facts DEF HandInv, HandAt
  <2>3. \/ Engaged(ctx[t]) /\ Busy(ctx[t])
        \/ Leaving(ctx[t]) /\ Going(ctx[t])
    BY <2>1, <2>2 DEF HandAt, Called, Busy, Reported, Resting, Going
  <2>4. Engaged(ctx[t]) => InDecode
    BY DEF Engaged, InDecode
  <2>5. Leaving(ctx[t]) => InJoin
    BY DEF Leaving, InJoin
  <2> QED BY <2>1, <2>2, <2>3, <2>4, <2>5, Facts DEF MainInv
<1>1. /\ Steady /\ UNCHANGED <<created, handle, ctx, start, done, rd, terminate, finished, job>>
      /\ pc' = [pc EXCEPT ![t] = IF breakThreads THEN "exited" ELSE "take"]
  BY Facts DEF Started, Steady, TypeOK
<1>2. TypeOK'
  BY <1>0, Facts DEF Started, TypeOK, ThreadPlaces, Jobs, Rows
<1>3. MainInv'
  BY <1>1, MainFrame, Facts DEF MainInv, ThreadPlaces, TypeOK
<1>4. PoolInv'
  BY <1>0, <1>1, Facts DEF PoolInv, InJoin, Steady, TypeOK
<1>5. HandInv'
  <2> SUFFICES ASSUME NEW i \in Contexts PROVE HandAt(i)'
    BY DEF HandInv
  <2>1. CASE i = ctx[t]
    BY <2>1, <1>0, <1>1, Facts DEF HandInv, HandAt, Steady, TypeOK, KeepActive, Engaged,
                                   Leaving, Called, Busy, Reported, Resting, Going, InDecode
  <2>2. CASE i # ctx[t]
    <3>1. created[i] => handle[i] # t /\ handle[i] \in Procs
      BY <2>2, Facts DEF PoolInv
    <3> QED BY <3>1, <2>2, <1>0, <1>1, HandOther, Facts DEF HandInv, TypeOK
  <2> QED BY <2>1, <2>2
<1>6. QueueInv' /\ AloneInv'
  BY <1>1, QueueFrame, AloneFrame
<1>7. JobInv'
  BY <1>0, <1>1, JobFrame, Facts DEF Steady, InDecode, TypeOK
<1> QED BY <1>2, <1>3, <1>4, <1>5, <1>6, <1>7 DEF IInv

LEMMA ReportStep ==
  ASSUME IInv, NEW t \in Threads, Report(t)
  PROVE  IInv'
<1>0. /\ pc[t] = "leave" /\ ctx[t] \in Contexts /\ created[ctx[t]] /\ handle[ctx[t]] = t
      /\ InDecode
      /\ KeepActive => Engaged(ctx[t]) /\ Busy(ctx[t])
  BY InHandInDecode, Facts DEF Report
<1>1. /\ Steady /\ UNCHANGED <<created, handle, ctx, start, rd, terminate, finished, job>>
      /\ \A p \in Procs : p # t /\ p # Main => pc'[p] = pc[p]
      /\ pc'[Main] = "work" <=> pc[Main] = "work"
      /\ pc'[t] = (IF KeepActive THEN "arrive" ELSE "exited") /\ pc'[t] # "free"
      /\ done' = IF KeepActive THEN [done EXCEPT ![ctx[t]] = TRUE] ELSE done
  BY Facts DEF Report, Steady, TypeOK
<1>2. TypeOK'
  <2>1. pc' \in [Procs -> ThreadPlaces \union MainPlaces]
    BY <1>1, Facts DEF Report, TypeOK, ThreadPlaces, MainPlaces
  <2> QED BY <2>1, <1>0, <1>1, Facts DEF Steady, TypeOK, Jobs, Rows
<1>3. MainInv'
  BY <1>1, MainFrame, Facts DEF MainInv, ThreadPlaces, TypeOK
<1>4. PoolInv'
  <2>1. \A u \in Threads : pc'[u] # "free" <=> pc[u] # "free"
    BY <1>0, <1>1, Facts DEF TypeOK
  <2>2. (InJoin' <=> InJoin) /\ (pc'[Main] = "deleted" <=> pc[Main] = "deleted")
    BY <1>1 DEF Steady, InJoin
  <2> QED BY <1>1, <2>1, <2>2, Facts DEF PoolInv, Steady
<1>5. HandInv'
  <2> SUFFICES ASSUME NEW i \in Contexts PROVE HandAt(i)'
    BY DEF HandInv
  <2>1. CASE i = ctx[t]
    BY <2>1, <1>0, <1>1, Facts DEF HandInv, HandAt, Steady, TypeOK, KeepActive, Engaged,
                                   Leaving, Called, Busy, Reported, Resting, Going, InDecode
  <2>2. CASE i # ctx[t]
    <3>1. created[i] => handle[i] # t /\ handle[i] \in Threads
      BY <2>2, Facts DEF PoolInv
    <3> QED BY <3>1, <2>2, <1>0, <1>1, HandOther, Facts DEF HandInv, TypeOK
  <2> QED BY <2>1, <2>2
<1>6. QueueInv' /\ AloneInv'
  BY <1>1, QueueFrame, AloneFrame
<1>7. JobInv'
  BY <1>0, <1>1, JobFrame, Facts DEF Steady, InDecode
<1> QED BY <1>2, <1>3, <1>4, <1>5, <1>6, <1>7 DEF IInv

LEMMA SpuriousStep ==
  ASSUME IInv, Spurious
  PROVE  IInv'
<1>1. CASE pc[Main] = "waitAsleep" /\ pc' = [pc EXCEPT ![Main] = "wait"]
  <2>1. /\ Steady
        /\ UNCHANGED <<created, handle, ctx, start, done, rd, terminate, finished, job>>
        /\ \A t \in Threads : pc'[t] = pc[t]
    BY <1>1, Facts DEF Spurious, Steady, TypeOK
  <2>2. TypeOK'
    BY <1>1, Facts DEF Spurious, TypeOK, MainPlaces, Jobs, Rows
  <2>3. MainInv'
    BY <2>1, MainFrame, Facts DEF MainInv
  <2>4. PoolInv'
    BY <1>1, <2>1, Facts DEF PoolInv, InJoin, Steady, TypeOK
  <2>5. HandInv'
    BY <2>1, HandOther, Facts DEF HandInv, PoolInv
  <2>6. QueueInv' /\ AloneInv'
    BY <2>1, QueueFrame, AloneFrame
  <2>7. JobInv'
    BY <1>1, <2>1, JobFrame, Facts DEF Steady, InDecode, TypeOK
  <2> QED BY <2>2, <2>3, <2>4, <2>5, <2>6, <2>7 DEF IInv
<1>2. ASSUME NEW t \in Threads, pc[t] = "asleep", pc' = [pc EXCEPT ![t] = "arrive"]
      PROVE  IInv'
  <2>0. ctx[t] \in Contexts /\ created[ctx[t]] /\ handle[ctx[t]] = t
    BY <1>2, Facts DEF PoolInv, TypeOK
  <2>1. /\ Steady
        /\ UNCHANGED <<created, handle, ctx, start, done, rd, terminate, finished, job>>
    BY <1>2, Facts DEF Spurious, Steady, TypeOK
  <2>2. TypeOK'
    BY <1>2, Facts DEF Spurious, TypeOK, ThreadPlaces, Jobs, Rows
  <2>3. MainInv'
    BY <1>2, <2>1, MainFrame, Facts DEF MainInv, ThreadPlaces, TypeOK
  <2>4. PoolInv'
    BY <1>2, <2>0, <2>1, Facts DEF PoolInv, InJoin, Steady, TypeOK
  <2>5. HandInv'
    <3> SUFFICES ASSUME NEW i \in Contexts PROVE HandAt(i)'
      BY DEF HandInv
    <3>1. CASE i = ctx[t]
      BY <1>2, <3>1, <2>0, <2>1, Facts DEF HandInv, HandAt, Steady, TypeOK, KeepActive,
                     Engaged, Leaving, Called, Busy, Reported, Resting, Going
    <3>2. CASE i # ctx[t]
      <4>1. created[i] => handle[i] # t /\ handle[i] \in Threads
        BY <3>2, Facts DEF PoolInv
      <4> QED BY <4>1, <1>2, <2>1, HandOther, Facts DEF HandInv, TypeOK
    <3> QED BY <3>1, <3>2
  <2>6. QueueInv' /\ AloneInv'
    BY <2>1, QueueFrame, AloneFrame
  <2>7. JobInv'
    BY <1>2, <2>1, JobFrame, Facts DEF Steady, InDecode, TypeOK
  <2> QED BY <2>2, <2>3, <2>4, <2>5, <2>6, <2>7 DEF IInv
<1> QED BY <1>1, <1>2 DEF Spurious

-----------------------------------------------------------------------------
(* Taking and doing jobs, by the workers and by Main.                          *)

LEMMA TakeStep ==
  ASSUME IInv, NEW p \in Procs, Take(p)
  PROVE  IInv'
<1>0. /\ InDecode /\ numCores > 1 /\ pc[p] = "take" /\ rd \in Nat /\ jobs \in Seq(Jobs)
      /\ rd + 1 \in 1..Len(jobs) /\ rd' = rd + 1 /\ jobs[rd + 1] \in Jobs
      /\ job' = [job EXCEPT ![p] = jobs[rd + 1]]
      /\ pc' = [pc EXCEPT ![p] = "work"]
      /\ pc \in [Procs -> ThreadPlaces \union MainPlaces] /\ job \in [Procs -> Jobs \union {NoJob}]
  BY TakerInDecode, Facts DEF Take, TypeOK
<1>1. /\ Steady /\ UNCHANGED <<created, handle, ctx, start, done, terminate, finished>>
      /\ \A q \in Procs : q # p => pc'[q] = pc[q] /\ job'[q] = job[q]
      /\ pc'[p] = "work" /\ job'[p] = jobs[rd + 1]
  BY <1>0, Facts DEF Take, Steady
<1>2. TypeOK'
  BY <1>0, <1>1, Facts DEF Steady, TypeOK, ThreadPlaces, Jobs, Rows
<1>3. MainInv'
  BY <1>0, <1>1, MainFrame, Facts DEF MainInv, ThreadPlaces
<1>4. PoolInv'
  <2>1. \A u \in Threads : pc'[u] # "free" <=> pc[u] # "free"
    BY <1>0, <1>1
  <2>2. (InJoin' <=> InJoin) /\ (pc'[Main] = "deleted" <=> pc[Main] = "deleted")
    BY <1>1 DEF Steady, InJoin
  <2> QED BY <1>1, <2>1, <2>2, Facts DEF PoolInv, Steady
<1>5. HandInv'
  <2> SUFFICES ASSUME NEW i \in Contexts PROVE HandAt(i)'
    BY DEF HandInv
  <2>1. CASE created[i] /\ handle[i] = p
    BY <2>1, <1>0, <1>1, Facts DEF HandInv, HandAt, Steady, KeepActive, Engaged,
                                   Leaving, Called, Busy, Reported, Resting, Going, InDecode
  <2>2. CASE ~(created[i] /\ handle[i] = p)
    <3>1. created[i] => handle[i] # p /\ handle[i] \in Procs
      BY <2>2, Facts DEF PoolInv
    <3> QED BY <3>1, <1>1, HandOther, Facts DEF HandInv
  <2> QED BY <2>1, <2>2
<1>6. QueueInv' /\ AloneInv'
  BY <1>1, QueueFrame, AloneFrame
<1>7. JobInv'
  <2>1. \A q \in Procs : Busily(q)' <=> Busily(q) \/ q = p
    BY <1>0, <1>1 DEF Busily
  <2>2. \A n \in 1..rd : jobs[n] # jobs[rd + 1] /\ n \in 1..rd'
    BY <1>0, JobsDiffer, Facts
  <2>3. jobs[rd + 1] \notin finished /\ \A q \in Procs : Busily(q) => job[q] # jobs[rd + 1]
    BY <2>2, <1>0, Facts DEF JobInv
  <2>4. jobs' = jobs /\ finished' = finished /\ numCores' = numCores /\ InDecode'
    BY <1>0, <1>1 DEF Steady, InDecode
  <2>5. (\A q \in Procs : job[q] # NoJob => Busily(q))'
    BY <2>1, <1>1, Facts DEF JobInv
  <2>6. (\A q \in Procs : Busily(q) => \E n \in 1..rd : jobs[n] = job[q])'
    BY <2>1, <2>4, <1>0, <1>1, <2>2, Facts DEF JobInv
  <2>7. (\A q, u \in Procs : Busily(q) /\ Busily(u) /\ q # u => job[q] # job[u])'
    BY <2>1, <2>3, <1>1, Facts DEF JobInv
  <2>8. (\A q \in Procs : Busily(q) => job[q] \notin finished)'
    BY <2>1, <2>3, <2>4, <1>1, Facts DEF JobInv
  <2>9. (\A j \in finished : \E n \in 1..rd : jobs[n] = j)'
    BY <2>2, <2>4, <1>0, Facts DEF JobInv
  <2>10. (\A n \in 1..rd : jobs[n] \in finished
                           \/ \E q \in Procs : Busily(q) /\ job[q] = jobs[n])'
    <3> SUFFICES ASSUME NEW n \in 1..(rd + 1)
                 PROVE  jobs[n] \in finished \/ \E q \in Procs : Busily(q)' /\ job'[q] = jobs[n]
      BY <1>0, <2>4
    <3>1. CASE n = rd + 1
      BY <3>1, <2>1, <1>1
    <3>2. CASE n \in 1..rd
      BY <3>2, <2>1, <1>0, <1>1, Facts DEF JobInv, Busily
    <3> QED BY <3>1, <3>2, <1>0
  <2>11. (pc[Main] \in {"wait", "waitAsleep"} /\ numCores > 1 => rd = Len(jobs))'
    BY <1>0, <1>1, Facts DEF JobInv, Steady
  <2> QED BY <2>5, <2>6, <2>7, <2>8, <2>9, <2>10, <2>11 DEF JobInv
<1> QED BY <1>2, <1>3, <1>4, <1>5, <1>6, <1>7 DEF IInv

LEMMA FinishStep ==
  ASSUME IInv, NEW p \in Procs, Finish(p)
  PROVE  IInv'
<1>0. /\ InDecode /\ numCores > 1 /\ pc[p] = "work"
      /\ finished' = finished \union {job[p]} /\ job[p] \in Jobs
      /\ job' = [job EXCEPT ![p] = NoJob]
      /\ pc' = [pc EXCEPT ![p] = "take"]
      /\ pc \in [Procs -> ThreadPlaces \union MainPlaces] /\ job \in [Procs -> Jobs \union {NoJob}]
  <2>1. job[p] \in Jobs
    <3>1. PICK n \in 1..rd : jobs[n] = job[p]
      BY Facts DEF Finish, JobInv, Busily
    <3>2. n \in 1..Len(jobs) /\ jobs \in Seq(Jobs)
      BY Facts DEF TypeOK
    <3> QED BY <3>1, <3>2
  <2> QED BY <2>1, TakerInDecode, Facts DEF Finish, TypeOK
<1>1. /\ Steady /\ UNCHANGED <<created, handle, ctx, start, done, rd, terminate>>
      /\ \A q \in Procs : q # p => pc'[q] = pc[q] /\ job'[q] = job[q]
      /\ pc'[p] = "take" /\ job'[p] = NoJob /\ finished \subseteq finished'
  BY <1>0, Facts DEF Finish, Steady
<1>2. TypeOK'
  BY <1>0, <1>1, Facts DEF Steady, TypeOK, ThreadPlaces, Jobs, Rows
<1>3. MainInv'
  BY <1>0, <1>1, MainFrame, Facts DEF MainInv, ThreadPlaces
<1>4. PoolInv'
  <2>1. \A u \in Threads : pc'[u] # "free" <=> pc[u] # "free"
    BY <1>0, <1>1
  <2>2. (InJoin' <=> InJoin) /\ (pc'[Main] = "deleted" <=> pc[Main] = "deleted")
    BY <1>1 DEF Steady, InJoin
  <2> QED BY <1>1, <2>1, <2>2, Facts DEF PoolInv, Steady
<1>5. HandInv'
  <2> SUFFICES ASSUME NEW i \in Contexts PROVE HandAt(i)'
    BY DEF HandInv
  <2>1. CASE created[i] /\ handle[i] = p
    BY <2>1, <1>0, <1>1, Facts DEF HandInv, HandAt, Steady, KeepActive, Engaged,
                                   Leaving, Called, Busy, Reported, Resting, Going, InDecode
  <2>2. CASE ~(created[i] /\ handle[i] = p)
    <3>1. created[i] => handle[i] # p /\ handle[i] \in Procs
      BY <2>2, Facts DEF PoolInv
    <3> QED BY <3>1, <1>1, HandOther, Facts DEF HandInv
  <2> QED BY <2>1, <2>2
<1>6. QueueInv' /\ AloneInv'
  BY <1>1, QueueFrame, AloneFrame
<1>7. JobInv'
  <2>1. \A q \in Procs : Busily(q)' <=> Busily(q) /\ q # p
    BY <1>0, <1>1 DEF Busily
  <2>2. jobs' = jobs /\ rd' = rd /\ numCores' = numCores /\ InDecode'
    BY <1>0, <1>1 DEF Steady, InDecode
  <2>3. (\A q \in Procs : job[q] # NoJob => Busily(q))'
    BY <2>1, <1>1, Facts DEF JobInv
  <2>4. (\A q \in Procs : Busily(q) => \E n \in 1..rd : jobs[n] = job[q])'
    BY <2>1, <2>2, <1>1, Facts DEF JobInv
  <2>5. (\A q, u \in Procs : Busily(q) /\ Busily(u) /\ q # u => job[q] # job[u])'
    BY <2>1, <1>1, Facts DEF JobInv
  <2>6. (\A q \in Procs : Busily(q) => job[q] \notin finished)'
    BY <2>1, <1>0, <1>1, Facts DEF JobInv, Busily
  <2>7. (\A j \in finished : \E n \in 1..rd : jobs[n] = j)'
    BY <2>2, <1>0, Facts DEF JobInv, Busily
  <2>8. (\A n \in 1..rd : jobs[n] \in finished
                          \/ \E q \in Procs : Busily(q) /\ job[q] = jobs[n])'
    <3> SUFFICES ASSUME NEW n \in 1..rd
                 PROVE  jobs[n] \in finished' \/ \E q \in Procs : Busily(q)' /\ job'[q] = jobs[n]
      BY <2>2
    <3>1. CASE jobs[n] \in finished
      BY <3>1, <1>1
    <3>2. CASE \E q \in Procs : Busily(q) /\ job[q] = jobs[n]
      BY <3>2, <2>1, <1>0, <1>1
    <3> QED BY <3>1, <3>2, <1>0, Facts DEF JobInv
  <2>9. (pc[Main] \in {"wait", "waitAsleep"} /\ numCores > 1 => rd = Len(jobs))'
    BY <1>0, <1>1, <2>2, Facts DEF JobInv, Steady
  <2> QED BY <2>3, <2>4, <2>5, <2>6, <2>7, <2>8, <2>9 DEF JobInv
<1> QED BY <1>2, <1>3, <1>4, <1>5, <1>6, <1>7 DEF IInv

LEMMA LeaveStep ==
  ASSUME IInv, NEW p \in Procs, Leave(p)
  PROVE  IInv'
<1>0. /\ InDecode /\ numCores > 1 /\ pc[p] = "take" /\ rd \in Nat /\ jobs \in Seq(Jobs)
      /\ rd = Len(jobs)
      /\ pc \in [Procs -> ThreadPlaces \union MainPlaces]
      /\ UNCHANGED <<setup, created, handle, ctx, numCores, start, done, breakThreads, jobs,
                     rd, terminate, shown, parsed, finished, job, call>>
  <2>1. Len(jobs) <= JobCapacity
    BY Facts DEF QueueInv, PictureJobCount, JobCapacity, TypeOK
  <2> QED BY <2>1, TakerInDecode, Facts DEF Leave, TypeOK, JobCapacity
<1>1. CASE p = Main
  <2>1. pc' = [pc EXCEPT ![Main] = "wait"] /\ idx' = 0
    BY <1>1 DEF Leave
  <2>2. TypeOK'
    BY <2>1, <1>0, Facts DEF TypeOK, MainPlaces, Jobs, Rows
  <2>3. MainInv'
    BY <2>1, <1>0, <1>1, Facts DEF MainInv, InDecode, InJoin, MainPlaces, KeepActive, TypeOK
  <2>4. PoolInv'
    BY <2>1, <1>0, Facts DEF PoolInv, InJoin
  <2>5. HandInv'
    BY <2>1, <1>0, <1>1, Facts DEF HandInv, HandAt, PoolInv, KeepActive, Engaged, Leaving, Called,
                           Busy, Reported, Resting, Going, Contexts
  <2>6. QueueInv'
    BY <2>1, <1>0, <1>1, Facts DEF QueueInv, InDecode, JobAt, EarlyJobs, PictureJobCount,
                                   FmtFirst, FmtAhead, Rows
  <2>7. JobInv'
    <3>1. \A q \in Procs : Busily(q)' <=> Busily(q)
      BY <1>0, <1>1, <2>1 DEF Busily
    <3> QED BY <3>1, <1>0, <1>1, <2>1, Facts DEF JobInv
  <2>8. AloneInv'
    BY <1>0 DEF AloneInv
  <2> QED BY <2>2, <2>3, <2>4, <2>5, <2>6, <2>7, <2>8 DEF IInv
<1>2. CASE p \in Threads
  <2>1. /\ Steady /\ pc' = [pc EXCEPT ![p] = "leave"]
        /\ \A q \in Procs : q # p => pc'[q] = pc[q]
    BY <1>0, <1>2, Facts DEF Leave, Steady
  <2>2. TypeOK'
    BY <2>1, <1>0, Facts DEF Steady, TypeOK, ThreadPlaces, Jobs, Rows
  <2>3. MainInv'
    BY <2>1, <1>0, MainFrame, Facts DEF MainInv, ThreadPlaces
  <2>4. PoolInv'
    BY <2>1, <1>0, <1>2, Facts DEF PoolInv, InJoin, Steady
  <2>5. HandInv'
    <3> SUFFICES ASSUME NEW i \in Contexts PROVE HandAt(i)'
      BY DEF HandInv
    <3>1. CASE created[i] /\ handle[i] = p
      BY <3>1, <2>1, <1>0, Facts DEF HandInv, HandAt, Steady, KeepActive, Engaged, Leaving,
                                     Called, Busy, Reported, Resting, Going, InDecode
    <3>2. CASE ~(created[i] /\ handle[i] = p)
      <4>1. created[i] => handle[i] # p /\ handle[i] \in Procs
        BY <3>2, Facts DEF PoolInv
      <4> QED BY <4>1, <2>1, <1>0, HandOther, Facts DEF HandInv
    <3> QED BY <3>1, <3>2
  <2>6. QueueInv' /\ AloneInv'
    BY <2>1, <1>0, QueueFrame, AloneFrame
  <2>7. JobInv'
    BY <2>1, <1>0, JobFrame, Facts DEF Steady, InDecode
  <2> QED BY <2>2, <2>3, <2>4, <2>5, <2>6, <2>7 DEF IInv
<1> QED BY <1>1, <1>2

-----------------------------------------------------------------------------
(* The application's calls.                                                    *)

\* Outside decode calls nobody has a job in hand.
LEMMA IdleRests ==
  ASSUME IInv, ~InDecode
  PROVE  /\ \A p \in Procs : pc[p] \notin {"take", "work"}
         /\ \A t \in Threads : pc[t] # "leave"
         /\ ~KeepActive => \A i \in Contexts : ~created[i]
<1>1. \A p \in Procs : pc[p] \notin {"take", "work"}
  BY TakerInDecode
<1>2. \A t \in Threads : pc[t] # "leave"
  BY InHandInDecode
<1>3. ~KeepActive => \A i \in Contexts : ~created[i]
  BY Facts DEF HandInv, HandAt, Engaged, InDecode
<1> QED BY <1>1, <1>2, <1>3

LEMMA CoresStep ==
  ASSUME IInv, SafeCores, pc[Main] = "idle", MayChangeCores,
         NEW n \in 1..MaxCores, numCores' = n,
         UNCHANGED <<created, handle, ctx, flagVars, queueVars, picVars, pc, job, idx, callVars>>
  PROVE  IInv'
<1>1. \A i \in Contexts : ~created[i]
  BY IdleRests, Facts DEF MayChangeCores, SafeCores, TypeOK, KeepActive, InDecode
<1>2. TypeOK'
  BY Facts DEF TypeOK, Jobs, Rows
<1>3. MainInv' /\ AloneInv'
  BY Facts DEF MainInv, AloneInv, InDecode, InJoin, KeepActive, Rows
<1>4. PoolInv'
  BY <1>1, Facts DEF PoolInv, InJoin
<1>5. HandInv'
  BY <1>1, Facts DEF HandInv, HandAt, KeepActive
<1>6. QueueInv'
  BY Facts DEF QueueInv, InDecode, JobAt, EarlyJobs, PictureJobCount, FmtFirst, FmtAhead, Rows
<1>7. JobInv'
  BY JobFrame, Facts DEF InDecode
<1> QED BY <1>2, <1>3, <1>4, <1>5, <1>6, <1>7 DEF IInv

LEMMA DecodeStep ==
  ASSUME IInv, NEW o \in Outputs, Decode(o)
  PROVE  IInv'
<1>0. /\ pc[Main] = "idle" /\ pc' = [pc EXCEPT ![Main] = "create"]
      /\ jobs' = <<>> /\ rd' = 0 /\ finished' = {} /\ parsed' = 0 /\ idx' = 0
      /\ pc \in [Procs -> ThreadPlaces \union MainPlaces]
      /\ call' = "decode" /\ terminate' = FALSE /\ shown' = o
      /\ UNCHANGED <<created, handle, ctx, numCores, start, done, job, setup>>
  BY Facts DEF Decode, TypeOK
<1>b. breakThreads' \in BOOLEAN /\ (KeepActive => ~breakThreads')
  <2>1. breakThreads' = (breakThreads /\ ~KeepActive)
    BY DEF Decode
  <2> QED BY <2>1, Zenon
<1>1. ~InDecode
  BY <1>0 DEF InDecode
<1>2. TypeOK'
  <2>1. jobs' \in Seq(Jobs') /\ Len(jobs') = 0
    BY <1>0
  <2>2. Jobs' = Jobs /\ TileRowCount(setup)' = TileRowCount(setup) /\ Rows' = Rows
    BY <1>0 DEF Jobs, Rows
  <2>3. pc' \in [Procs -> ThreadPlaces \union MainPlaces]
    BY <1>0, Facts DEF MainPlaces
  <2>4. setup' \in Setups /\ numCores' \in 1..MaxCores /\ shown' \in Outputs
    BY <1>0, Facts DEF TypeOK
  <2>5. rd' \in 0..Len(jobs') /\ parsed' \in 0..TileRowCount(setup)' /\ finished' \subseteq Jobs'
    BY <2>1, <2>2, <1>0, Facts
  <2>6. idx' \in 0..(MaxCores + Rows') /\ terminate' \in BOOLEAN
    <3>1. MaxCores + Rows' \in Nat
      BY <2>2, Facts
    <3>2. terminate' \in BOOLEAN
      BY <1>0, Zenon
    <3> QED BY <3>1, <3>2, <1>0
  <2>7. job' \in [Procs -> Jobs' \union {NoJob}] /\ ctx' \in [Threads -> Contexts]
    BY <2>2, <1>0, Facts DEF TypeOK
  <2>8. /\ created' \in [Contexts -> BOOLEAN] /\ handle' \in [Contexts -> Procs]
        /\ start' \in [Contexts -> BOOLEAN] /\ done' \in [Contexts -> BOOLEAN]
    BY <1>0, Facts DEF TypeOK
  <2> QED BY <2>1, <2>3, <2>4, <2>5, <2>6, <2>7, <2>8, <1>0, <1>b DEF TypeOK
<1>3. MainInv'
  BY <1>0, <1>b, Facts DEF MainInv, InDecode, InJoin, KeepActive, MainPlaces
<1>4. PoolInv'
  BY <1>0, Facts DEF PoolInv, InJoin
<1>5. HandInv'
  BY <1>0, <1>1, IdleRests, Facts DEF HandInv, HandAt, PoolInv, KeepActive, Engaged, Leaving,
                     Called, Busy, Reported, Resting, Going, Contexts
<1>6. QueueInv'
  <2>1. PictureJobCount' >= 0
    BY <1>0, Facts DEF PictureJobCount, Rows, TypeOK
  <2> QED BY <2>1, <1>0, Facts DEF QueueInv, TypeOK
<1>7. JobInv' /\ AloneInv'
  BY <1>0, <1>1, IdleRests, Facts DEF JobInv, AloneInv, Busily
<1> QED BY <1>2, <1>3, <1>4, <1>5, <1>6, <1>7 DEF IInv

LEMMA JoinStep ==
  ASSUME IInv, NEW c \in {"flush", "reset", "delete"}, Join(c)
  PROVE  IInv'
<1>0. /\ pc[Main] = "idle" /\ pc' = [pc EXCEPT ![Main] = "join"]
      /\ call' = c /\ idx' \in 0..MaxCores /\ breakThreads' \in BOOLEAN
      /\ KeepActive => breakThreads' /\ idx' = 0
      /\ ~KeepActive => idx' = MaxCores
      /\ pc \in [Procs -> ThreadPlaces \union MainPlaces]
      /\ UNCHANGED <<created, handle, ctx, numCores, start, done, jobs, rd, terminate, shown,
                     parsed, finished, job, setup>>
  <2>1. breakThreads' = (breakThreads \/ KeepActive)
    BY DEF Join
  <2>2. breakThreads' \in BOOLEAN /\ (KeepActive => breakThreads')
    BY <2>1, Zenon
  <2>3. idx' = IF KeepActive THEN 0 ELSE MaxCores
    BY DEF Join
  <2>4. idx' \in 0..MaxCores /\ (KeepActive => idx' = 0) /\ (~KeepActive => idx' = MaxCores)
    BY <2>3, Facts
  <2> QED BY <2>2, <2>4, Facts DEF Join, TypeOK
<1>1. ~InDecode
  BY <1>0 DEF InDecode
<1>2. TypeOK'
  BY <1>0, Facts DEF TypeOK, MainPlaces, Jobs, Rows
<1>3. MainInv'
  BY <1>0, Facts DEF MainInv, InDecode, InJoin, KeepActive, MainPlaces
<1>4. PoolInv'
  BY <1>0, <1>1, IdleRests, Facts DEF PoolInv, InJoin, Contexts
<1>5. HandInv'
  BY <1>0, <1>1, IdleRests, Facts DEF HandInv, HandAt, PoolInv, KeepActive, Engaged, Leaving,
                     Called, Busy, Reported, Resting, Going, Contexts
<1>6. QueueInv' /\ AloneInv'
  BY <1>0, Facts DEF QueueInv, AloneInv, InDecode, JobAt, EarlyJobs, PictureJobCount, FmtFirst,
                     FmtAhead, Rows
<1>7. JobInv'
  BY <1>0, JobFrame, Facts DEF InDecode
<1> QED BY <1>2, <1>3, <1>4, <1>5, <1>6, <1>7 DEF IInv

-----------------------------------------------------------------------------
(* The loop over the contexts, and the jobs queued early.                      *)

\* There is a thread for every context that has none: those that exist belong to
\* the other contexts.
LEMMA FreeThread ==
  ASSUME IInv, idx \in Contexts, idx < numCores - 1, ~created[idx]
  PROVE  Free # {}
<1> DEFINE others == (0..(MaxCores - 2)) \ {idx}
<1>1. IsFiniteSet(others) /\ Cardinality(others) < Cardinality(Threads)
  <2>1. 0 \in Int /\ MaxCores - 2 \in Int /\ idx \in 0..(MaxCores - 2)
    BY Facts DEF TypeOK, Contexts
  <2>2. IsFiniteSet(0..(MaxCores - 2)) /\ Cardinality(0..(MaxCores - 2)) = MaxCores - 1
    <3>1. /\ IsFiniteSet(0..(MaxCores - 2))
          /\ Cardinality(0..(MaxCores - 2)) =
               IF 0 > MaxCores - 2 THEN 0 ELSE MaxCores - 2 - 0 + 1
      BY <2>1, FS_Interval
    <3> QED BY <3>1, <2>1, Facts
  <2>3. IsFiniteSet(others) /\ Cardinality(others) = MaxCores - 2
    <3>1. /\ IsFiniteSet(others)
          /\ Cardinality(others) = Cardinality(0..(MaxCores - 2)) - 1
      BY <2>1, <2>2, FS_RemoveElement, Zenon
    <3> QED BY <3>1, <2>2, Facts
  <2>4. Cardinality(Threads) \in Nat
    BY ThreadsAssumption, FS_CardinalityType
  <2> QED BY <2>3, <2>4, ThreadsAssumption, Facts
<1>2. SUFFICES ASSUME Free = {} PROVE FALSE
  OBVIOUS
<1>3. ctx \in [Threads -> others]
  BY <1>2, Facts DEF Free, PoolInv, TypeOK, Contexts
<1>4. \A t, u \in Threads : ctx[t] = ctx[u] => t = u
  BY <1>2, Facts DEF Free, PoolInv
<1> HIDE DEF others
<1> QED BY <1>1, <1>3, <1>4, ThreadsAssumption, FS_PigeonHole

LEMMA CreateStep ==
  ASSUME IInv, CreateThread
  PROVE  IInv'
<1>0. PICK t \in Free :
        /\ KeepActive => pc' = [pc EXCEPT ![t] = "arrive"]
        /\ ~KeepActive => pc' = [pc EXCEPT ![t] = "take"]
        /\ ctx' = [ctx EXCEPT ![t] = idx]
        /\ handle' = [handle EXCEPT ![idx] = t]
  <2>1. Free # {}
    BY FreeThread, Facts DEF CreateThread, TypeOK, Contexts
  <2> QED BY <2>1 DEF CreateThread
<1>1. /\ pc[Main] = "create" /\ idx \in Contexts /\ idx < numCores - 1 /\ ~created[idx]
      /\ t \in Threads /\ t # Main /\ pc[t] = "free"
      /\ created' = [created EXCEPT ![idx] = TRUE]
      /\ UNCHANGED <<numCores, start, done, breakThreads, jobs, rd, terminate, shown, parsed,
                     finished, job, idx, call, setup>>
      /\ pc'[t] \in {"arrive", "take"} /\ (KeepActive => pc'[t] = "arrive")
      /\ (~KeepActive => pc'[t] = "take")
      /\ \A p \in Procs : p # t => pc'[p] = pc[p]
  <2>1. t \in Threads /\ t # Main /\ pc[t] = "free"
    BY Facts DEF Free
  <2>2. pc \in [Procs -> ThreadPlaces \union MainPlaces]
    BY Facts DEF TypeOK
  <2>3. /\ \A p \in Procs : p # t => pc'[p] = pc[p]
        /\ (KeepActive => pc'[t] = "arrive") /\ (~KeepActive => pc'[t] = "take")
    <3>1. CASE KeepActive
      BY <3>1, <1>0, <2>1, <2>2
    <3>2. CASE ~KeepActive
      BY <3>2, <1>0, <2>1, <2>2
    <3> QED BY <3>1, <3>2
  <2> QED BY <2>1, <2>3, Facts DEF CreateThread, TypeOK, Contexts
<1>2. TypeOK'
  <2>1. pc' \in [Procs -> ThreadPlaces \union MainPlaces]
    BY <1>0, <1>1, Facts DEF TypeOK, ThreadPlaces
  <2> QED BY <2>1, <1>0, <1>1, Facts DEF TypeOK, Jobs, Rows
<1>3. MainInv'
  BY <1>1, Facts DEF MainInv, InDecode, InJoin, ThreadPlaces, KeepActive, Rows
<1>4. PoolInv'
  <2>1. \A u \in Threads : u # t => ctx'[u] = ctx[u]
    BY <1>0, <1>1, Facts DEF TypeOK
  <2>2. ctx'[t] = idx /\ handle'[idx] = t
    BY <1>0, <1>1, Facts DEF TypeOK
  <2>3. \A i \in Contexts : i # idx => handle'[i] = handle[i] /\ created'[i] = created[i]
    BY <1>0, <1>1, Facts DEF TypeOK
  <2>4. created'[idx] /\ pc'[t] # "free"
    BY <1>1, Facts DEF TypeOK
  <2>5. \A u \in Threads : u # t /\ pc[u] # "free" => ctx[u] \in Contexts /\ ctx[u] # idx
    BY <1>1, Facts DEF PoolInv, TypeOK
  <2>6. ~InJoin' /\ pc'[Main] # "deleted"
    BY <1>1 DEF InJoin
  <2>7. (\A u \in Threads : pc[u] # "free" => created[ctx[u]] /\ handle[ctx[u]] = u)'
    BY <2>1, <2>2, <2>3, <2>4, <2>5, <1>1, Facts DEF PoolInv
  <2>8. (\A i \in Contexts : created[i] =>
       i < numCores - 1 /\ handle[i] \in Threads /\ pc[handle[i]] # "free" /\ ctx[handle[i]] = i)'
    BY <2>1, <2>2, <2>3, <2>4, <1>1, Facts DEF PoolInv
  <2> QED BY <2>6, <2>7, <2>8 DEF PoolInv
<1>5. HandInv'
  <2> SUFFICES ASSUME NEW i \in Contexts PROVE HandAt(i)'
    BY DEF HandInv
  <2>1. CASE i = idx
    <3>1. created'[i] /\ handle'[i] = t /\ ~start'[i] /\ ~done'[i] /\ ~Engaged(i)' /\ ~Leaving(i)'
      BY <2>1, <1>0, <1>1, Facts DEF HandInv, HandAt, TypeOK, Engaged, Leaving, Contexts
    <3> QED BY <3>1, <2>1, <1>1, Facts DEF HandAt, Resting, KeepActive, Contexts
  <2>2. CASE i # idx
    <3>1. created'[i] = created[i] /\ handle'[i] = handle[i]
          /\ (created[i] => handle[i] # t /\ handle[i] \in Procs)
      BY <2>2, <1>0, <1>1, Facts DEF PoolInv, TypeOK
    <3> QED BY <3>1, <1>1, Facts DEF HandInv, HandAt, KeepActive, Engaged, Leaving, Called, Busy,
                                     Reported, Resting, Going
  <2> QED BY <2>1, <2>2
<1>6. QueueInv'
  BY <1>1, Facts DEF QueueInv, InDecode, JobAt, EarlyJobs, PictureJobCount, FmtFirst, FmtAhead, Rows
<1>7. JobInv' /\ AloneInv'
  BY <1>1, JobFrame, Facts DEF InDecode, AloneInv
<1> QED BY <1>2, <1>3, <1>4, <1>5, <1>6, <1>7 DEF IInv

\* A start signal reaches the worker of its context, asleep or not.
LEMMA SignalReaches ==
  ASSUME IInv, NEW i \in Contexts, created[i], Resting(i),
         NEW l \in MainPlaces, SignalStart(i, l)
  PROVE  /\ start' = [start EXCEPT ![i] = TRUE]
         /\ pc' \in [Procs -> ThreadPlaces \union MainPlaces]
         /\ pc'[Main] = l /\ pc'[handle[i]] = "arrive" /\ handle[i] \in Threads
         /\ \A t \in Threads : t # handle[i] => pc'[t] = pc[t]
<1> DEFINE sleepers == {t \in Threads : pc[t] = "asleep" /\ ctx[t] = i}
<1>1. /\ handle[i] \in Threads /\ ctx[handle[i]] = i /\ sleepers \subseteq {handle[i]}
      /\ pc \in [Procs -> ThreadPlaces \union MainPlaces]
      /\ pc[handle[i]] \in {"arrive", "asleep"}
  BY Facts DEF PoolInv, Resting, TypeOK
<1>2. CASE sleepers = {}
  <2>1. pc' = [pc EXCEPT ![Main] = l] /\ start' = [start EXCEPT ![i] = TRUE]
    BY <1>2 DEF SignalStart
  <2>2. pc[handle[i]] = "arrive"
    BY <1>1, <1>2
  <2> QED BY <1>1, <2>1, <2>2, Facts
<1>3. CASE sleepers # {}
  <2>1. \E t \in sleepers : pc' = [pc EXCEPT ![t] = "arrive", ![Main] = l]
    BY <1>3 DEF SignalStart
  <2>2. pc' = [pc EXCEPT ![handle[i]] = "arrive", ![Main] = l] /\ start' = [start EXCEPT ![i] = TRUE]
    BY <1>1, <2>1 DEF SignalStart
  <2> QED BY <1>1, <2>2, Facts DEF ThreadPlaces
<1> QED BY <1>2, <1>3

LEMMA StartStep ==
  ASSUME IInv, StartThread
  PROVE  IInv'
<1>0. /\ pc[Main] = "create" /\ idx \in Contexts /\ idx < numCores - 1 /\ created[idx]
      /\ idx' = idx + 1
      /\ UNCHANGED <<numCores, created, handle, ctx, done, breakThreads, jobs, rd, terminate,
                     shown, parsed, finished, job, call, setup>>
  BY Facts DEF StartThread, TypeOK, Contexts
<1>1. /\ pc' \in [Procs -> ThreadPlaces \union MainPlaces] /\ pc'[Main] = "create"
      /\ start' \in [Contexts -> BOOLEAN]
      /\ \A i \in Contexts : i # idx => start'[i] = start[i]
      /\ \A t \in Threads : t # handle[idx] => pc'[t] = pc[t]
      /\ KeepActive => start'[idx] /\ ~done[idx] /\ pc'[handle[idx]] = "arrive" /\ handle[idx] \in Threads
                       /\ pc[handle[idx]] \in {"arrive", "asleep"}
      /\ ~KeepActive => start'[idx] = start[idx] /\ pc' = pc
  <2>1. CASE KeepActive
    <3>1. Resting(idx)
      BY <1>0, <2>1, Facts DEF HandInv, HandAt, Engaged, Leaving, Contexts
    <3>2. SignalStart(idx, "create")
      BY <2>1 DEF StartThread
    <3>3. "create" \in MainPlaces
      BY DEF MainPlaces
    <3>4. /\ start' = [start EXCEPT ![idx] = TRUE]
          /\ pc' \in [Procs -> ThreadPlaces \union MainPlaces]
          /\ pc'[Main] = "create" /\ pc'[handle[idx]] = "arrive" /\ handle[idx] \in Threads
          /\ \A t \in Threads : t # handle[idx] => pc'[t] = pc[t]
      BY <1>0, <3>1, <3>2, <3>3, SignalReaches
    <3>5. /\ start' \in [Contexts -> BOOLEAN] /\ start'[idx]
          /\ \A i \in Contexts : i # idx => start'[i] = start[i]
      BY <3>4, <1>0, Facts DEF TypeOK
    <3> QED BY <2>1, <3>1, <3>4, <3>5, Facts DEF Resting
  <2>2. CASE ~KeepActive
    BY <1>0, <2>2, Facts DEF StartThread, TypeOK
  <2> QED BY <2>1, <2>2
<1>2. TypeOK'
  BY <1>0, <1>1, Facts, SMTT(30) DEF TypeOK, Jobs, Rows, Contexts
<1>3. MainInv'
  <2>1. \A t \in Threads : pc'[t] \in ThreadPlaces
    BY <1>1, Facts DEF MainInv, ThreadPlaces
  <2> QED BY <2>1, <1>0, <1>1, Facts DEF MainInv, InDecode, InJoin, KeepActive, Rows, Contexts
<1>4. PoolInv'
  <2>1. \A u \in Threads : pc'[u] # "free" <=> pc[u] # "free"
    BY <1>1
  <2> QED BY <2>1, <1>0, <1>1, Facts DEF PoolInv, InJoin
<1>5. HandInv'
  <2> SUFFICES ASSUME NEW i \in Contexts PROVE HandAt(i)'
    BY DEF HandInv
  <2>1. CASE i = idx
    BY <2>1, <1>0, <1>1, Facts DEF HandInv, HandAt, KeepActive, Engaged, Called, Busy, Reported,
                                   Leaving, Resting, Going, Contexts
  <2>2. CASE i # idx
    <3>1. created[i] => handle[i] # handle[idx] /\ handle[i] \in Threads
      BY <2>2, <1>0, Facts DEF PoolInv
    <3> QED BY <2>2, <3>1, <1>0, <1>1, Facts DEF HandInv, HandAt, KeepActive, Engaged, Called, Busy,
                                         Reported, Leaving, Resting, Going, Contexts
  <2> QED BY <2>1, <2>2
<1>6. QueueInv'
  BY <1>0, <1>1, Facts DEF QueueInv, InDecode, JobAt, EarlyJobs, PictureJobCount, FmtFirst,
                           FmtAhead, Rows
<1>7. JobInv' /\ AloneInv'
  <2>1. \A p \in Procs : pc'[p] = "work" <=> pc[p] = "work"
    BY <1>0, <1>1
  <2> QED BY <2>1, <1>0, <1>1, JobFrame, Facts DEF InDecode, AloneInv
<1> QED BY <1>2, <1>3, <1>4, <1>5, <1>6, <1>7 DEF IInv

LEMMA SkipStep ==
  ASSUME IInv, SkipContext
  PROVE  IInv'
<1>0. /\ pc[Main] = "create" /\ idx \in Contexts /\ idx' = idx + 1
      /\ UNCHANGED <<numCores, handle, ctx, start, done, breakThreads, jobs, rd, terminate,
                     shown, parsed, finished, pc, job, call, setup>>
      /\ created' = created
  BY Facts DEF SkipContext, TypeOK, PoolInv
<1>2. TypeOK'
  BY <1>0, Facts DEF TypeOK, Jobs, Rows, Contexts
<1>3. MainInv' /\ PoolInv'
  BY <1>0, Facts DEF MainInv, PoolInv, InDecode, InJoin, KeepActive, Rows, Contexts
<1>5. HandInv'
  BY <1>0, Facts DEF HandInv, HandAt, PoolInv, SkipContext, KeepActive, Engaged, Leaving, Called,
                     Busy, Reported, Resting, Going, Contexts, TypeOK
<1>6. QueueInv'
  BY <1>0, Facts DEF QueueInv, InDecode, JobAt, EarlyJobs, PictureJobCount, FmtFirst, FmtAhead, Rows
<1>7. JobInv' /\ AloneInv'
  BY <1>0, JobFrame, Facts DEF InDecode, AloneInv
<1> QED BY <1>2, <1>3, <1>5, <1>6, <1>7 DEF IInv

LEMMA ContextsDoneStep ==
  ASSUME IInv, ContextsDone
  PROVE  IInv'
<1>0. /\ pc[Main] = "create" /\ idx = MaxCores /\ idx' = 0
      /\ pc' = [pc EXCEPT ![Main] = "ahead"]
      /\ pc \in [Procs -> ThreadPlaces \union MainPlaces]
      /\ UNCHANGED <<numCores, created, handle, ctx, start, done, breakThreads, jobs, rd, terminate,
                     shown, parsed, finished, job, call, setup>>
  BY Facts DEF ContextsDone, TypeOK
<1>2. TypeOK'
  BY <1>0, Facts DEF TypeOK, MainPlaces, Jobs, Rows
<1>3. MainInv' /\ PoolInv'
  BY <1>0, Facts DEF MainInv, PoolInv, MainPlaces, InDecode, InJoin, KeepActive, Rows
<1>5. HandInv'
  BY <1>0, Facts DEF HandInv, HandAt, PoolInv, KeepActive, Engaged, Leaving, Called,
                     Busy, Reported, Resting, Going, Contexts
<1>6. QueueInv'
  BY <1>0, Facts DEF QueueInv, InDecode, JobAt, EarlyJobs, PictureJobCount, FmtFirst, FmtAhead, Rows
<1>7. JobInv' /\ AloneInv'
  BY <1>0, JobFrame, Facts DEF InDecode, AloneInv
<1> QED BY <1>2, <1>3, <1>5, <1>6, <1>7 DEF IInv

-----------------------------------------------------------------------------
(* Parsing, and the jobs Main queues or, on one core, does itself.             *)

Mid == {"ahead", "parse", "parseRow", "convert", "take"}

\* Main's way from the start of the workers to the wait for them.
LEMMA MidFrame ==
  ASSUME IInv, pc[Main] \in Mid,
         UNCHANGED <<setup, numCores, created, handle, ctx, start, done, breakThreads, call>>,
         \A t \in Threads : pc'[t] = pc[t],
         \/ pc'[Main] \in Mid
         \/ pc'[Main] = "wait" /\ idx' = 0,
         pc'[Main] \in {"ahead", "convert"} => idx' <= Rows
  PROVE  MainInv' /\ PoolInv' /\ HandInv'
<1>1. InDecode /\ InDecode' /\ ~InJoin /\ ~InJoin' /\ pc'[Main] # "deleted"
  BY DEF Mid, InDecode, InJoin
<1>2. MainInv'
  BY <1>1, Facts DEF MainInv, MainPlaces, Mid, KeepActive, Rows, TypeOK
<1>3. PoolInv'
  BY <1>1, Facts DEF PoolInv
<1>4. \A i \in Contexts : Engaged(i) /\ Engaged(i)' /\ ~Leaving(i) /\ ~Leaving(i)'
  BY DEF Engaged, Leaving, Mid, Contexts
<1>5. \A i \in Contexts : created[i] => pc'[handle[i]] = pc[handle[i]]
  BY Facts DEF PoolInv
<1>6. HandInv'
  BY <1>4, <1>5, Facts DEF HandInv, HandAt, KeepActive, Called, Busy, Reported, Resting, Going
<1> QED BY <1>2, <1>3, <1>6

\* The jobs taken stay where they are when one is added.
LEMMA PushKeepsTaken ==
  ASSUME IInv, NEW j \in Jobs, jobs' = Append(jobs, j)
  PROVE  /\ jobs' \in Seq(Jobs) /\ Len(jobs') = Len(jobs) + 1 /\ jobs'[Len(jobs) + 1] = j
         /\ \A n \in 1..Len(jobs) : jobs'[n] = jobs[n]
         /\ \A n \in 1..rd : jobs'[n] = jobs[n]
         /\ rd \in 0..Len(jobs')
BY Facts DEF TypeOK

LEMMA PushKeepsOrder ==
  ASSUME IInv, jobs' = Append(jobs, JobAt(Len(jobs) + 1)), JobAt(Len(jobs) + 1) \in Jobs,
         UNCHANGED <<setup, shown>>
  PROVE  (\A n \in 1..Len(jobs) : jobs[n] = JobAt(n))'
<1>1. \A n : JobAt(n)' = JobAt(n)
  BY DEF JobAt, EarlyJobs, FmtFirst, FmtAhead, Rows
<1>2. \A n \in 1..(Len(jobs) + 1) : jobs'[n] = JobAt(n)
  BY PushKeepsTaken, Facts DEF QueueInv, TypeOK
<1>3. Len(jobs') = Len(jobs) + 1
  BY PushKeepsTaken
<1> QED BY <1>1, <1>2, <1>3

\* On one core nobody has taken a job.
LEMMA AloneTakesNone ==
  ASSUME IInv, InDecode, numCores = 1
  PROVE  rd = 0 /\ \A p \in Procs : ~Busily(p)
BY AloneFree, Facts DEF QueueInv, TypeOK, Busily

LEMMA QueueAheadStep ==
  ASSUME IInv, QueueAhead
  PROVE  IInv'
<1>0. /\ pc[Main] = "ahead" /\ pc \in [Procs -> ThreadPlaces \union MainPlaces]
      /\ UNCHANGED <<numCores, created, handle, ctx, start, done, breakThreads, rd,
                     shown, parsed, finished, job, call, setup>>
  BY Facts DEF QueueAhead, TypeOK
<1>1. CASE numCores > 1 /\ FmtFirst /\ idx < Rows
  <2>1. /\ jobs' = Append(jobs, Fmt(idx)) /\ terminate' = FALSE /\ idx' = idx + 1 /\ pc' = pc
        /\ idx \in Nat
    BY <1>1, Facts DEF QueueAhead, Push, TypeOK
  <2>2. Fmt(idx) \in Jobs
    BY <2>1, <1>1, Facts DEF Jobs, FmtJobs, Rows
  <2>3. TypeOK'
    <3>1. terminate' \in BOOLEAN
      BY <2>1, Zenon
    <3>2. idx' \in 0..(MaxCores + Rows)
      BY <2>1, <1>1, Facts
    <3> QED BY <2>1, <2>2, <3>1, <3>2, <1>0, PushKeepsTaken, Facts DEF TypeOK, Jobs, Rows
  <2>4. MainInv' /\ PoolInv' /\ HandInv'
    BY <2>1, <1>0, <1>1, MidFrame, Facts DEF Mid
  <2>5. QueueInv'
    BY <2>1, <2>2, <1>0, <1>1, PushKeepsTaken, Facts DEF QueueInv, InDecode, JobAt, EarlyJobs,
            PictureJobCount, FmtFirst, FmtAhead, Rows, TypeOK
  <2>6. JobInv' /\ AloneInv'
    BY <2>1, <2>2, <1>0, PushKeepsTaken, JobFrame, Facts DEF InDecode, AloneInv
  <2> QED BY <2>3, <2>4, <2>5, <2>6 DEF IInv
<1>2. CASE ~(numCores > 1 /\ FmtFirst /\ idx < Rows)
  <2>1. /\ jobs' = jobs /\ terminate' = terminate /\ idx' = idx
        /\ pc' = [pc EXCEPT ![Main] = "parse"]
    BY <1>2 DEF QueueAhead
  <2>3. TypeOK'
    BY <2>1, <1>0, Facts DEF TypeOK, MainPlaces, Jobs, Rows
  <2>4. MainInv' /\ PoolInv' /\ HandInv'
    BY <2>1, <1>0, MidFrame, Facts DEF Mid
  <2>5. QueueInv'
    BY <2>1, <1>0, <1>2, Facts DEF QueueInv, MainInv, InDecode, JobAt, EarlyJobs,
            PictureJobCount, FmtFirst, FmtAhead, Rows, TypeOK
  <2>6. JobInv' /\ AloneInv'
    BY <2>1, <1>0, JobFrame, Facts DEF InDecode, AloneInv, QueueInv
  <2> QED BY <2>3, <2>4, <2>5, <2>6 DEF IInv
<1> QED BY <1>1, <1>2

LEMMA QueueRowStep ==
  ASSUME IInv, QueueRow
  PROVE  IInv'
<1>0. /\ pc[Main] = "parse" /\ pc' = [pc EXCEPT ![Main] = "parseRow"] /\ idx' = idx
      /\ pc \in [Procs -> ThreadPlaces \union MainPlaces]
      /\ parsed \in Nat /\ parsed < TileRowCount(setup)
      /\ UNCHANGED <<numCores, created, handle, ctx, start, done, breakThreads, rd,
                     shown, parsed, finished, job, call, setup>>
  BY Facts DEF QueueRow, TypeOK, TileRows
<1>1. MainInv' /\ PoolInv' /\ HandInv'
  BY <1>0, MidFrame, Facts DEF Mid
<1>2. AloneInv'
  BY <1>0, Facts DEF AloneInv
<1>3. CASE numCores > 1
  <2>1. jobs' = Append(jobs, Proc(parsed)) /\ terminate' = FALSE
    BY <1>3 DEF QueueRow, Push
  <2>2. Proc(parsed) \in Jobs
    BY <1>0, Facts DEF Jobs, ProcJobs
  <2>3. TypeOK'
    BY <2>1, <2>2, <1>0, PushKeepsTaken, Facts DEF TypeOK, MainPlaces, Jobs, Rows
  <2>4. QueueInv'
    <3>1. Proc(parsed) = JobAt(Len(jobs) + 1)
      <4> DEFINE n == Len(jobs) + 1
      <4>1. n = EarlyJobs + parsed + 1 /\ EarlyJobs \in Nat
        BY <1>0, <1>3, Facts DEF QueueInv
      <4>2. n - EarlyJobs - 1 = parsed /\ n > EarlyJobs /\ n <= EarlyJobs + TileRowCount(setup)
        BY <4>1, <1>0, Facts
      <4> HIDE DEF n
      <4>3. JobAt(n) = Proc(n - EarlyJobs - 1)
        BY <4>1, <4>2, <1>0, Facts DEF JobAt
      <4> QED BY <4>2, <4>3 DEF n
    <3>2. (\A n \in 1..Len(jobs) : jobs[n] = JobAt(n))'
      BY <3>1, <2>1, <2>2, <1>0, PushKeepsOrder
    <3>3. Len(jobs') = EarlyJobs' + parsed' + 1 /\ Len(jobs') <= PictureJobCount'
      BY <2>1, <2>2, <1>0, <1>3, PushKeepsTaken, Facts, SMTT(30) DEF QueueInv, EarlyJobs, PictureJobCount,
         FmtFirst, FmtAhead, Rows
    <3> QED BY <3>2, <3>3, <1>0, <1>3 DEF QueueInv
  <2>5. JobInv'
    BY <2>1, <2>2, <1>0, PushKeepsTaken, JobFrame, Facts DEF InDecode
  <2> QED BY <1>1, <1>2, <2>3, <2>4, <2>5 DEF IInv
<1>4. CASE ~(numCores > 1)
  <2>1. jobs' = jobs /\ terminate' = terminate
    BY <1>4 DEF QueueRow
  <2>3. TypeOK'
    BY <2>1, <1>0, Facts DEF TypeOK, MainPlaces, Jobs, Rows
  <2>4. QueueInv'
    BY <2>1, <1>0, <1>4, Facts DEF QueueInv, InDecode, JobAt, EarlyJobs, PictureJobCount, FmtFirst,
            FmtAhead, Rows, TypeOK
  <2>5. JobInv'
    BY <2>1, <1>0, JobFrame, Facts DEF InDecode
  <2> QED BY <1>1, <1>2, <2>3, <2>4, <2>5 DEF IInv
<1> QED BY <1>3, <1>4

LEMMA ParseRowStep ==
  ASSUME IInv, ParseRow
  PROVE  IInv'
<1>0. /\ pc[Main] = "parseRow" /\ pc' = [pc EXCEPT ![Main] = "parse"] /\ idx' = idx
      /\ pc \in [Procs -> ThreadPlaces \union MainPlaces]
      /\ parsed' = parsed + 1 /\ parsed \in Nat /\ parsed < TileRowCount(setup)
      /\ finished' = IF numCores > 1 THEN finished ELSE finished \union {Proc(parsed)}
      /\ UNCHANGED <<numCores, created, handle, ctx, start, done, breakThreads, jobs, rd,
                     terminate, shown, job, call, setup>>
      /\ numCores \in Nat /\ numCores >= 1 /\ InDecode
  BY Facts DEF ParseRow, QueueInv, TypeOK, InDecode
<1>1. MainInv' /\ PoolInv' /\ HandInv'
  BY <1>0, MidFrame, Facts DEF Mid
<1>2. TypeOK'
  <2>1. Proc(parsed) \in Jobs
    BY <1>0, Facts DEF Jobs, ProcJobs
  <2>2. finished' \subseteq Jobs /\ Jobs' = Jobs
    BY <2>1, <1>0, Facts DEF TypeOK, Jobs
  <2> QED BY <2>2, <1>0, Facts DEF TypeOK, MainPlaces, Rows
<1>3. QueueInv'
  BY <1>0, Facts, SMTT(30) DEF QueueInv, InDecode, JobAt, EarlyJobs, PictureJobCount, FmtFirst, FmtAhead,
                     Rows, TypeOK
<1>4. JobInv'
  <2>1. CASE numCores > 1
    BY <2>1, <1>0, JobFrame, Facts DEF InDecode
  <2>2. CASE numCores = 1
    BY <2>2, <1>0, AloneTakesNone, Facts DEF JobInv, Busily
  <2> QED BY <2>1, <2>2, <1>0
<1>5. AloneInv'
  BY <1>0, Facts DEF AloneInv
<1> QED BY <1>1, <1>2, <1>3, <1>4, <1>5 DEF IInv

LEMMA EndOfFrameStep ==
  ASSUME IInv, EndOfFrame
  PROVE  IInv'
<1>0. /\ pc[Main] = "parse" /\ pc' = [pc EXCEPT ![Main] = "convert"] /\ idx' = 0
      /\ pc \in [Procs -> ThreadPlaces \union MainPlaces]
      /\ parsed = TileRowCount(setup)
      /\ UNCHANGED <<numCores, created, handle, ctx, start, done, breakThreads, jobs, rd,
                     terminate, shown, parsed, finished, job, call, setup>>
  BY Facts DEF EndOfFrame, TileRows, TypeOK
<1>1. MainInv' /\ PoolInv' /\ HandInv'
  BY <1>0, MidFrame, Facts DEF Mid
<1>2. TypeOK'
  BY <1>0, Facts DEF TypeOK, MainPlaces, Jobs, Rows
<1>3. QueueInv'
  BY <1>0, Facts DEF QueueInv, InDecode, JobAt, EarlyJobs, PictureJobCount, FmtFirst, FmtAhead,
                     Rows, TypeOK
<1>4. JobInv'
  BY <1>0, JobFrame, Facts DEF InDecode
<1>5. AloneInv'
  BY <1>0, Facts DEF AloneInv, ProcJobs
<1> QED BY <1>1, <1>2, <1>3, <1>4, <1>5 DEF IInv

LEMMA QueueFmtStep ==
  ASSUME IInv, QueueFmt
  PROVE  IInv'
<1>0. /\ pc[Main] = "convert" /\ pc' = pc /\ idx' = idx + 1 /\ idx \in Nat /\ idx < Rows
      /\ numCores > 1 /\ FmtLast /\ parsed = TileRowCount(setup)
      /\ jobs' = Append(jobs, Fmt(idx)) /\ terminate' = FALSE
      /\ UNCHANGED <<numCores, created, handle, ctx, start, done, breakThreads, rd,
                     shown, parsed, finished, job, call, setup>>
  BY Facts DEF QueueFmt, Push, QueueInv, TypeOK
<1>1. Fmt(idx) \in Jobs
  BY <1>0, Facts DEF Jobs, FmtJobs, Rows
<1>2. TypeOK'
  <2>1. terminate' \in BOOLEAN
    BY <1>0, Zenon
  <2>2. idx' \in 0..(MaxCores + Rows)
    BY <1>0, Facts
  <2> QED BY <2>1, <2>2, <1>0, <1>1, PushKeepsTaken, Facts DEF TypeOK, Jobs, Rows
<1>3. MainInv' /\ PoolInv' /\ HandInv'
  BY <1>0, MidFrame, Facts DEF Mid
<1>4. QueueInv'
  <2>1. EarlyJobs = 0 /\ shown # "none" /\ EarlyJobs' = EarlyJobs
    BY <1>0 DEF EarlyJobs, FmtLast, FmtFirst, FmtAhead, Rows
  <2>2. Fmt(idx) = JobAt(Len(jobs) + 1)
    <3> DEFINE n == Len(jobs) + 1
    <3>1. n = TileRowCount(setup) + idx + 1
      BY <2>1, <1>0, Facts DEF QueueInv
    <3>2. n - EarlyJobs - TileRowCount(setup) - 1 = idx /\ n > TileRowCount(setup)
      BY <2>1, <3>1, <1>0, Facts
    <3> HIDE DEF n
    <3>3. JobAt(n) = Fmt(n - EarlyJobs - TileRowCount(setup) - 1)
      BY <2>1, <3>1, <3>2, <1>0, Facts DEF JobAt
    <3> QED BY <3>2, <3>3 DEF n
  <2>3. (\A n \in 1..Len(jobs) : jobs[n] = JobAt(n))'
    BY <2>2, <1>0, <1>1, PushKeepsOrder
  <2>4. Len(jobs') = EarlyJobs' + TileRowCount(setup) + idx' /\ Len(jobs') <= PictureJobCount'
    BY <2>1, <1>0, <1>1, PushKeepsTaken, Facts DEF QueueInv, PictureJobCount, Rows
  <2>5. FmtLast'
    BY <1>0 DEF FmtLast, FmtFirst, FmtAhead
  <2> QED BY <2>3, <2>4, <2>5, <1>0 DEF QueueInv
<1>5. JobInv' /\ AloneInv'
  BY <1>0, <1>1, PushKeepsTaken, JobFrame, Facts DEF InDecode, AloneInv
<1> QED BY <1>2, <1>3, <1>4, <1>5 DEF IInv

LEMMA TerminateStep ==
  ASSUME IInv, Terminate
  PROVE  IInv'
<1>0. /\ pc[Main] = "convert" /\ pc' = [pc EXCEPT ![Main] = "take"] /\ idx' = idx
      /\ numCores > 1 /\ (FmtLast => idx = Rows) /\ terminate' = TRUE
      /\ pc \in [Procs -> ThreadPlaces \union MainPlaces]
      /\ UNCHANGED <<numCores, created, handle, ctx, start, done, breakThreads, jobs, rd,
                     shown, parsed, finished, job, call, setup>>
  BY Facts DEF Terminate, TypeOK
<1>1. MainInv' /\ PoolInv' /\ HandInv'
  BY <1>0, MidFrame, Facts DEF Mid
<1>2. TypeOK'
  BY <1>0, Facts DEF TypeOK, MainPlaces, Jobs, Rows
<1>3. QueueInv'
  <2>1. Len(jobs) = PictureJobCount
    BY <1>0, Facts DEF QueueInv, PictureJobCount, EarlyJobs, FmtLast, FmtFirst, TypeOK
  <2> QED BY <2>1, <1>0, Facts DEF QueueInv, InDecode, JobAt, EarlyJobs, PictureJobCount, FmtFirst,
                     FmtAhead, Rows, TypeOK
<1>4. JobInv' /\ AloneInv'
  BY <1>0, JobFrame, Facts DEF InDecode, AloneInv
<1> QED BY <1>1, <1>2, <1>3, <1>4 DEF IInv

LEMMA ConvertHereStep ==
  ASSUME IInv, ConvertHere
  PROVE  IInv'
<1>0. /\ pc[Main] = "convert" /\ numCores = 1 /\ InDecode /\ idx \in Nat
      /\ pc \in [Procs -> ThreadPlaces \union MainPlaces]
      /\ UNCHANGED <<numCores, created, handle, ctx, start, done, breakThreads, jobs, rd,
                     terminate, shown, parsed, job, call, setup>>
  BY Facts DEF ConvertHere, TypeOK, InDecode
<1>1. CASE shown # "none" /\ idx < Rows
  <2>1. finished' = finished \union {Fmt(idx)} /\ idx' = idx + 1 /\ pc' = pc
    BY <1>1 DEF ConvertHere
  <2>2. TypeOK'
    <3>1. Fmt(idx) \in Jobs
      BY <1>0, <1>1, Facts DEF Jobs, FmtJobs, Rows
    <3> QED BY <3>1, <2>1, <1>0, <1>1, Facts DEF TypeOK, Jobs, Rows
  <2>3. MainInv' /\ PoolInv' /\ HandInv'
    BY <2>1, <1>0, <1>1, MidFrame, Facts DEF Mid
  <2>4. QueueInv'
    BY <2>1, <1>0, Facts DEF QueueInv, InDecode, JobAt, EarlyJobs, PictureJobCount, FmtFirst,
                     FmtAhead, Rows, TypeOK
  <2>5. JobInv'
    BY <2>1, <1>0, AloneTakesNone, Facts DEF JobInv, Busily
  <2>6. AloneInv'
    BY <2>1, <1>0, Facts DEF AloneInv
  <2> QED BY <2>2, <2>3, <2>4, <2>5, <2>6 DEF IInv
<1>2. CASE ~(shown # "none" /\ idx < Rows)
  <2>1. pc' = [pc EXCEPT ![Main] = "wait"] /\ idx' = 0 /\ finished' = finished
    BY <1>2 DEF ConvertHere
  <2>2. TypeOK'
    BY <2>1, <1>0, Facts DEF TypeOK, MainPlaces, Jobs, Rows
  <2>3. MainInv' /\ PoolInv' /\ HandInv'
    BY <2>1, <1>0, MidFrame, Facts DEF Mid
  <2>4. QueueInv'
    BY <2>1, <1>0, Facts DEF QueueInv, InDecode, JobAt, EarlyJobs, PictureJobCount, FmtFirst,
                     FmtAhead, Rows, TypeOK
  <2>5. JobInv'
    BY <2>1, <1>0, AloneTakesNone, Facts DEF JobInv, Busily
  <2>6. AloneInv'
    <3>1. shown # "none" => idx = Rows
      BY <1>0, <1>2, Facts DEF MainInv
    <3>2. PictureJobSet(shown, setup) \subseteq finished
      BY <3>1, <1>0, Facts DEF AloneInv, PictureJobSet, FmtJobs, Rows
    <3> QED BY <3>2, <2>1, <1>0, Facts DEF AloneInv
  <2> QED BY <2>2, <2>3, <2>4, <2>5, <2>6 DEF IInv
<1> QED BY <1>1, <1>2

-----------------------------------------------------------------------------
(* Waiting for the workers.                                                    *)

LEMMA WaitDoneStep ==
  ASSUME IInv, WaitDone
  PROVE  IInv'
<1>0. /\ KeepActive /\ pc[Main] = "wait" /\ idx \in Contexts /\ idx < numCores - 1 /\ created[idx]
      /\ pc \in [Procs -> ThreadPlaces \union MainPlaces]
      /\ UNCHANGED <<numCores, created, handle, ctx, start, breakThreads, jobs, rd, terminate,
                     shown, parsed, finished, job, call, setup>>
  BY Facts DEF WaitDone, WaitsFor, TypeOK, Contexts
<1>1. CASE done[idx]
  <2>1. done' = [done EXCEPT ![idx] = FALSE] /\ idx' = idx + 1 /\ pc' = pc
    BY <1>1 DEF WaitDone
  <2>2. TypeOK'
    <3>1. done' \in [Contexts -> BOOLEAN]
      BY <2>1, <1>0, Facts DEF TypeOK
    <3> QED BY <3>1, <2>1, <1>0, Facts, SMTT(30) DEF TypeOK, Jobs, Rows, Contexts
  <2>3. MainInv' /\ PoolInv'
    <3>1. idx' <= numCores - 1
      BY <2>1, <1>0, Facts DEF TypeOK, Contexts
    <3>2. MainInv'
      BY <3>1, <2>1, <1>0, Facts DEF MainInv, InDecode, InJoin, KeepActive
    <3>3. PoolInv'
      BY <2>1, <1>0, Facts DEF PoolInv, InJoin
    <3> QED BY <3>2, <3>3
  <2>4. HandInv'
    <3> SUFFICES ASSUME NEW i \in Contexts PROVE HandAt(i)'
      BY DEF HandInv
    <3>1. i # idx => done'[i] = done[i]
      BY <2>1, Facts DEF TypeOK
    <3>2. ~done'[idx]
      BY <2>1, <1>0, Facts DEF TypeOK
    <3> QED BY <3>1, <3>2, <2>1, <1>0, <1>1, Facts DEF HandInv, HandAt, KeepActive, Engaged, Leaving,
                  Called, Busy, Reported, Resting, Going, Contexts
  <2>5. QueueInv'
    BY <2>1, <1>0, Facts DEF QueueInv, InDecode, JobAt, EarlyJobs, PictureJobCount, FmtFirst,
                     FmtAhead, Rows
  <2>6. JobInv' /\ AloneInv'
    BY <2>1, <1>0, JobFrame, Facts DEF InDecode, AloneInv
  <2> QED BY <2>2, <2>3, <2>4, <2>5, <2>6 DEF IInv
<1>2. CASE ~done[idx]
  <2>1. done' = done /\ idx' = idx /\ pc' = [pc EXCEPT ![Main] = "waitAsleep"]
    BY <1>2 DEF WaitDone
  <2>2. TypeOK'
    BY <2>1, <1>0, Facts DEF TypeOK, MainPlaces, Jobs, Rows
  <2>3. MainInv' /\ PoolInv'
    BY <2>1, <1>0, Facts DEF MainInv, PoolInv, MainPlaces, InDecode, InJoin, KeepActive
  <2>4. HandInv'
    BY <2>1, <1>0, Facts DEF HandInv, HandAt, PoolInv, KeepActive, Engaged, Leaving, Called, Busy,
                             Reported, Resting, Going
  <2>5. QueueInv'
    BY <2>1, <1>0, Facts DEF QueueInv, InDecode, JobAt, EarlyJobs, PictureJobCount, FmtFirst,
                     FmtAhead, Rows
  <2>6. JobInv' /\ AloneInv'
    BY <2>1, <1>0, JobFrame, Facts DEF InDecode, AloneInv
  <2> QED BY <2>2, <2>3, <2>4, <2>5, <2>6 DEF IInv
<1> QED BY <1>1, <1>2

LEMMA WaitJoinStep ==
  ASSUME IInv, WaitJoin
  PROVE  IInv'
<1>0. /\ ~KeepActive /\ pc[Main] = "wait" /\ idx \in Contexts /\ idx < numCores - 1 /\ created[idx]
      /\ pc[handle[idx]] = "exited" /\ handle[idx] \in Threads /\ ctx[handle[idx]] = idx
      /\ pc' = [pc EXCEPT ![handle[idx]] = "free"]
      /\ created' = [created EXCEPT ![idx] = FALSE] /\ idx' = idx + 1
      /\ pc \in [Procs -> ThreadPlaces \union MainPlaces]
      /\ UNCHANGED <<numCores, handle, ctx, start, done, breakThreads, jobs, rd, terminate,
                     shown, parsed, finished, job, call, setup>>
  BY Facts DEF WaitJoin, WaitsFor, PoolInv, TypeOK, Contexts
<1>1. /\ pc'[Main] = pc[Main] /\ ~created'[idx]
      /\ \A t \in Threads : t # handle[idx] => pc'[t] = pc[t]
      /\ \A i \in Contexts : i # idx => created'[i] = created[i]
      /\ pc'[handle[idx]] = "free"
  BY <1>0, Facts DEF TypeOK
<1>2. TypeOK'
  <2>1. created' \in [Contexts -> BOOLEAN] /\ pc' \in [Procs -> ThreadPlaces \union MainPlaces]
    BY <1>0, Facts DEF TypeOK, ThreadPlaces
  <2> QED BY <2>1, <1>0, Facts DEF TypeOK, Jobs, Rows, Contexts
<1>3. MainInv'
  <2>1. idx' <= numCores - 1
    BY <1>0, Facts DEF TypeOK, Contexts
  <2>2. \A t \in Threads : pc'[t] \in ThreadPlaces
    BY <1>1, Facts DEF MainInv, ThreadPlaces
  <2> QED BY <2>1, <2>2, <1>0, <1>1, Facts DEF MainInv, InDecode, InJoin, KeepActive
<1>4. PoolInv'
  <2>1. ~InJoin' /\ pc'[Main] # "deleted"
    BY <1>0, <1>1 DEF InJoin
  <2>2. \A t \in Threads : t # handle[idx] /\ pc[t] # "free" => ctx[t] \in Contexts /\ ctx[t] # idx
    BY <1>0, Facts DEF PoolInv, TypeOK
  <2>3. \A i \in Contexts : i # idx /\ created[i] => handle[i] # handle[idx]
    BY <1>0, Facts DEF PoolInv
  <2> QED BY <2>1, <2>2, <2>3, <1>0, <1>1, Facts DEF PoolInv
<1>5. HandInv'
  <2> SUFFICES ASSUME NEW i \in Contexts PROVE HandAt(i)'
    BY DEF HandInv
  <2>1. CASE i = idx
    BY <2>1, <1>0, <1>1, Facts DEF HandInv, HandAt, KeepActive
  <2>2. CASE i # idx
    <3>1. created[i] => handle[i] # handle[idx] /\ handle[i] \in Threads
      BY <2>2, <1>0, Facts DEF PoolInv
    <3> QED BY <3>1, <2>2, <1>0, <1>1, Facts DEF HandInv, HandAt, KeepActive, Engaged, Contexts
  <2> QED BY <2>1, <2>2
<1>6. QueueInv'
  BY <1>0, <1>1, Facts DEF QueueInv, InDecode, JobAt, EarlyJobs, PictureJobCount, FmtFirst,
                     FmtAhead, Rows
<1>7. JobInv' /\ AloneInv'
  <2>1. \A p \in Procs : pc'[p] = "work" <=> pc[p] = "work"
    BY <1>0, <1>1
  <2> QED BY <2>1, <1>0, <1>1, JobFrame, Facts DEF InDecode, AloneInv
<1> QED BY <1>2, <1>3, <1>4, <1>5, <1>6, <1>7 DEF IInv

\* When Main has waited for every context no worker is in a picture.
LEMMA WaitOver ==
  ASSUME IInv, pc[Main] = "wait", idx >= numCores - 1
  PROVE  /\ \A i \in Contexts : created[i] => KeepActive /\ Resting(i)
         /\ \A t \in Threads : ~InPicture(t)
<1>1. \A i \in Contexts : ~Engaged(i) \/ ~created[i]
  BY Facts DEF Engaged, PoolInv, TypeOK, Contexts
<1>2. \A i \in Contexts : created[i] => KeepActive /\ Resting(i)
  BY <1>1, Facts DEF HandInv, HandAt, Leaving
<1>3. \A t \in Threads : ~InPicture(t)
  BY <1>2, Facts DEF PoolInv, TypeOK, InPicture, Resting
<1> QED BY <1>2, <1>3

LEMMA DecodeReturnsStep ==
  ASSUME IInv, DecodeReturns
  PROVE  IInv'
<1>0. /\ pc[Main] = "wait" /\ pc' = [pc EXCEPT ![Main] = "idle"]
      /\ pc \in [Procs -> ThreadPlaces \union MainPlaces] /\ idx >= numCores - 1
      /\ UNCHANGED <<numCores, created, handle, ctx, start, done, breakThreads, jobs, rd, terminate,
                     shown, parsed, finished, job, idx, call, setup>>
  BY Facts DEF DecodeReturns, TypeOK
<1>1. TypeOK'
  BY <1>0, Facts DEF TypeOK, MainPlaces, Jobs, Rows
<1>2. MainInv' /\ PoolInv'
  BY <1>0, Facts DEF MainInv, PoolInv, MainPlaces, InDecode, InJoin, KeepActive
<1>3. HandInv'
  <2>1. \A i \in Contexts : ~Engaged(i)' /\ ~Leaving(i)'
    BY <1>0, Facts DEF Engaged, Leaving
  <2>2. \A i \in Contexts : created[i] => handle[i] \in Threads
    BY Facts DEF PoolInv
  <2> QED BY <2>1, <2>2, <1>0, WaitOver, Facts DEF HandInv, HandAt, KeepActive, Resting
<1>4. QueueInv'
  BY <1>0, Facts DEF QueueInv, InDecode, JobAt, EarlyJobs, PictureJobCount, FmtFirst, FmtAhead, Rows
<1>5. JobInv' /\ AloneInv'
  BY <1>0, JobFrame, Facts DEF InDecode, AloneInv
<1> QED BY <1>1, <1>2, <1>3, <1>4, <1>5 DEF IInv

-----------------------------------------------------------------------------
(* Joining the workers.                                                        *)

LEMMA JoinSignalStep ==
  ASSUME IInv, JoinSignal
  PROVE  IInv'
<1>0. /\ pc[Main] = "join" /\ idx \in Contexts /\ created[idx] /\ KeepActive
      /\ UNCHANGED <<numCores, created, handle, ctx, done, breakThreads, jobs, rd, terminate,
                     shown, parsed, finished, job, idx, call, setup>>
  BY Facts DEF JoinSignal, MainInv, Contexts
<1>1. Resting(idx)
  BY <1>0, Facts DEF HandInv, HandAt, Engaged, Leaving
<1>2. /\ start' = [start EXCEPT ![idx] = TRUE]
      /\ pc' \in [Procs -> ThreadPlaces \union MainPlaces]
      /\ pc'[Main] = "joining" /\ pc'[handle[idx]] = "arrive" /\ handle[idx] \in Threads
      /\ \A t \in Threads : t # handle[idx] => pc'[t] = pc[t]
  <2>1. "joining" \in MainPlaces /\ SignalStart(idx, "joining")
    BY DEF MainPlaces, JoinSignal
  <2> QED BY <2>1, <1>0, <1>1, SignalReaches
<1>3. /\ start' \in [Contexts -> BOOLEAN] /\ start'[idx] /\ ~done[idx]
      /\ pc[handle[idx]] \in {"arrive", "asleep"}
      /\ \A i \in Contexts : i # idx => start'[i] = start[i]
  BY <1>0, <1>1, <1>2, Facts DEF TypeOK, Resting
<1>4. TypeOK'
  BY <1>0, <1>2, <1>3, Facts DEF TypeOK, Jobs, Rows
<1>5. MainInv'
  <2>1. \A t \in Threads : pc'[t] \in ThreadPlaces
    BY <1>2, Facts DEF MainInv, ThreadPlaces
  <2> QED BY <2>1, <1>0, <1>2, Facts DEF MainInv, InDecode, InJoin, KeepActive, Contexts, MainPlaces
<1>6. PoolInv'
  <2>1. \A u \in Threads : pc'[u] # "free" <=> pc[u] # "free"
    BY <1>2, <1>3
  <2>2. InJoin /\ InJoin' /\ pc'[Main] # "deleted"
    BY <1>0, <1>2 DEF InJoin
  <2> QED BY <2>1, <2>2, <1>0, <1>2, Facts DEF PoolInv
<1>7. HandInv'
  <2> SUFFICES ASSUME NEW i \in Contexts PROVE HandAt(i)'
    BY DEF HandInv
  <2>1. CASE i = idx
    BY <2>1, <1>0, <1>2, <1>3 DEF HandAt, KeepActive, Engaged, Leaving, Called
  <2>2. CASE i # idx
    <3>1. created[i] => handle[i] # handle[idx] /\ handle[i] \in Threads
      BY <2>2, <1>0, Facts DEF PoolInv
    <3> QED BY <2>2, <3>1, <1>0, <1>2, <1>3, Facts DEF HandInv, HandAt, KeepActive, Engaged, Leaving,
                 Resting
  <2> QED BY <2>1, <2>2
<1>8. QueueInv'
  BY <1>0, <1>2, Facts DEF QueueInv, InDecode, JobAt, EarlyJobs, PictureJobCount, FmtFirst,
                           FmtAhead, Rows
<1>9. JobInv' /\ AloneInv'
  <2>1. \A p \in Procs : pc'[p] = "work" <=> pc[p] = "work"
    BY <1>0, <1>2, <1>3
  <2> QED BY <2>1, <1>0, <1>2, JobFrame, Facts DEF InDecode, AloneInv
<1> QED BY <1>4, <1>5, <1>6, <1>7, <1>8, <1>9 DEF IInv

LEMMA JoinSkipStep ==
  ASSUME IInv, JoinSkip
  PROVE  IInv'
<1>0. /\ pc[Main] = "join" /\ idx \in Contexts /\ ~created[idx] /\ idx' = idx + 1 /\ idx \in Nat
      /\ idx < MaxCores
      /\ UNCHANGED <<numCores, created, handle, ctx, start, done, breakThreads, jobs, rd, terminate,
                     shown, parsed, finished, pc, job, call, setup>>
  BY Facts DEF JoinSkip, Contexts
<1>1. TypeOK'
  BY <1>0, Facts DEF TypeOK, Jobs, Rows
<1>2. MainInv'
  BY <1>0, Facts DEF MainInv, InDecode, InJoin, KeepActive
<1>3. PoolInv'
  BY <1>0, Facts DEF PoolInv, InJoin, Contexts
<1>4. HandInv'
  BY <1>0, Facts DEF HandInv, HandAt, KeepActive, Engaged, Leaving, Resting
<1>5. QueueInv'
  BY <1>0, Facts DEF QueueInv, InDecode, JobAt, EarlyJobs, PictureJobCount, FmtFirst, FmtAhead, Rows
<1>6. JobInv' /\ AloneInv'
  BY <1>0, JobFrame, Facts DEF InDecode, AloneInv
<1> QED BY <1>1, <1>2, <1>3, <1>4, <1>5, <1>6 DEF IInv

LEMMA JoinThreadStep ==
  ASSUME IInv, JoinThread
  PROVE  IInv'
<1>0. /\ KeepActive /\ pc[Main] = "joining" /\ idx \in Contexts /\ created[idx]
      /\ idx \in Nat /\ idx < MaxCores
      /\ pc[handle[idx]] = "exited" /\ handle[idx] \in Threads /\ ctx[handle[idx]] = idx
      /\ pc' = [pc EXCEPT ![handle[idx]] = "free", ![Main] = "join"]
      /\ created' = [created EXCEPT ![idx] = FALSE] /\ idx' = idx + 1
      /\ pc \in [Procs -> ThreadPlaces \union MainPlaces]
      /\ UNCHANGED <<numCores, handle, ctx, start, done, breakThreads, jobs, rd, terminate,
                     shown, parsed, finished, job, call, setup>>
  BY Facts DEF JoinThread, MainInv, PoolInv, TypeOK, Contexts
<1>1. /\ pc'[Main] = "join" /\ ~created'[idx]
      /\ \A t \in Threads : t # handle[idx] => pc'[t] = pc[t]
      /\ \A i \in Contexts : i # idx => created'[i] = created[i]
      /\ pc'[handle[idx]] = "free"
      /\ ~start[idx] /\ ~done[idx]
  <2>1. ~start[idx] /\ ~done[idx]
    BY <1>0, Facts DEF HandInv, HandAt, Engaged, Leaving, Called, Going
  <2> QED BY <2>1, <1>0, Facts DEF TypeOK
<1>2. TypeOK'
  <2>1. created' \in [Contexts -> BOOLEAN] /\ pc' \in [Procs -> ThreadPlaces \union MainPlaces]
    BY <1>0, Facts DEF TypeOK, ThreadPlaces, MainPlaces
  <2>2. idx' \in 0..(MaxCores + Rows)
    BY <1>0, Facts
  <2> QED BY <2>1, <2>2, <1>0, Facts DEF TypeOK, Jobs, Rows
<1>3. MainInv'
  BY <1>0, <1>1, Facts DEF MainInv, InDecode, InJoin, KeepActive, MainPlaces, ThreadPlaces
<1>4. PoolInv'
  <2>1. InJoin /\ InJoin' /\ pc'[Main] # "deleted"
    BY <1>0, <1>1 DEF InJoin
  <2>2. \A t \in Threads : t # handle[idx] /\ pc[t] # "free" => ctx[t] \in Contexts /\ ctx[t] # idx
    BY <1>0, Facts DEF PoolInv, TypeOK
  <2>3. \A i \in Contexts : i # idx /\ created[i] => handle[i] # handle[idx]
    BY <1>0, Facts DEF PoolInv
  <2>4. \A i \in Contexts : i < idx' => ~created'[i]
    BY <2>1, <1>0, <1>1, Facts DEF PoolInv, Contexts
  <2> QED BY <2>1, <2>2, <2>3, <2>4, <1>0, <1>1, Facts DEF PoolInv
<1>5. HandInv'
  <2> SUFFICES ASSUME NEW i \in Contexts PROVE HandAt(i)'
    BY DEF HandInv
  <2>1. CASE i = idx
    BY <2>1, <1>0, <1>1, Facts DEF HandAt, KeepActive
  <2>2. CASE i # idx
    <3>1. created[i] => handle[i] # handle[idx] /\ handle[i] \in Threads
      BY <2>2, <1>0, Facts DEF PoolInv
    <3> QED BY <3>1, <2>2, <1>0, <1>1, Facts DEF HandInv, HandAt, KeepActive, Engaged, Leaving, Resting
  <2> QED BY <2>1, <2>2
<1>6. QueueInv'
  BY <1>0, <1>1, Facts DEF QueueInv, InDecode, JobAt, EarlyJobs, PictureJobCount, FmtFirst,
                     FmtAhead, Rows
<1>7. JobInv' /\ AloneInv'
  <2>1. \A p \in Procs : pc'[p] = "work" <=> pc[p] = "work"
    BY <1>0, <1>1
  <2> QED BY <2>1, <1>0, <1>1, JobFrame, Facts DEF InDecode, AloneInv
<1> QED BY <1>2, <1>3, <1>4, <1>5, <1>6, <1>7 DEF IInv

LEMMA JoinReturnsStep ==
  ASSUME IInv, JoinReturns
  PROVE  IInv'
<1>0. /\ pc[Main] = "join" /\ idx = MaxCores /\ numCores' \in {numCores, 1}
      /\ pc \in [Procs -> ThreadPlaces \union MainPlaces]
      /\ pc' \in [Procs -> ThreadPlaces \union MainPlaces]
      /\ pc'[Main] \in {"idle", "deleted"} /\ \A t \in Threads : pc'[t] = pc[t]
      /\ UNCHANGED <<created, handle, ctx, start, done, breakThreads, jobs, rd, terminate,
                     shown, parsed, finished, job, idx, call, setup>>
  BY Facts DEF JoinReturns, MainPlaces, TypeOK
<1>1. \A i \in Contexts : ~created[i]
  BY <1>0, Facts DEF PoolInv, InJoin, Contexts
<1>2. TypeOK'
  BY <1>0, Facts DEF TypeOK, Jobs, Rows
<1>3. MainInv' /\ PoolInv'
  BY <1>0, <1>1, Facts DEF MainInv, PoolInv, InDecode, InJoin, MainPlaces
<1>4. HandInv'
  BY <1>0, <1>1, Facts DEF HandInv, HandAt
<1>5. QueueInv' /\ AloneInv'
  BY <1>0, Facts DEF QueueInv, AloneInv, InDecode, JobAt, EarlyJobs, PictureJobCount, FmtFirst,
                     FmtAhead, Rows
<1>6. JobInv'
  BY <1>0, JobFrame, Facts DEF InDecode
<1> QED BY <1>2, <1>3, <1>4, <1>5, <1>6 DEF IInv

-----------------------------------------------------------------------------
(* The invariant holds in every run.                                           *)

LEMMA InitKeeps == Init => IInv
<1> SUFFICES ASSUME Init PROVE IInv
  OBVIOUS
<1>0. /\ Main \notin Threads /\ MaxCores \in Nat \ {0} /\ pc[Main] = "idle"
      /\ \A t \in Threads : pc[t] = "free"
      /\ \A i \in Contexts : ~created[i] /\ ~start[i] /\ ~done[i]
  BY ThreadsAssumption, CoresAssumption DEF Init
<1>1. TypeOK
  <2>1. jobs \in Seq(Jobs) /\ rd \in 0..Len(jobs)
    BY DEF Init
  <2>2. pc \in [Procs -> ThreadPlaces \union MainPlaces]
    BY <1>0 DEF Init, ThreadPlaces, MainPlaces
  <2>3. parsed \in 0..TileRowCount(setup) /\ idx \in 0..(MaxCores + Rows)
    BY <1>0, SetupsType DEF Init, Rows
  <2>4. /\ setup \in Setups /\ numCores \in 1..MaxCores
        /\ created \in [Contexts -> BOOLEAN] /\ handle \in [Contexts -> Procs]
        /\ start \in [Contexts -> BOOLEAN] /\ done \in [Contexts -> BOOLEAN]
        /\ breakThreads \in BOOLEAN /\ terminate \in BOOLEAN
    <3>1. created \in [Contexts -> BOOLEAN]
      BY DEF Init
    <3>2. handle \in [Contexts -> Procs]
      BY DEF Init, Procs
    <3>3. start \in [Contexts -> BOOLEAN] /\ done \in [Contexts -> BOOLEAN]
      BY DEF Init
    <3>4. setup \in Setups /\ breakThreads \in BOOLEAN /\ terminate \in BOOLEAN
      BY DEF Init
    <3>5. numCores \in 1..MaxCores
      BY <1>0 DEF Init
    <3> QED BY <3>1, <3>2, <3>3, <3>4, <3>5
  <2>5. /\ shown \in Outputs /\ finished \subseteq Jobs
        /\ job \in [Procs -> Jobs \union {NoJob}]
        /\ call \in {"none", "decode", "flush", "reset", "delete"}
    BY DEF Init, Outputs
  <2>6. ctx \in [Threads -> Contexts]
    BY <1>0 DEF Init, Contexts
  <2> QED BY <2>1, <2>2, <2>3, <2>4, <2>5, <2>6, Zenon DEF TypeOK
<1>2. MainInv /\ PoolInv
  BY <1>0 DEF MainInv, PoolInv, MainPlaces, ThreadPlaces, InDecode, InJoin
<1>3. HandInv
  BY <1>0 DEF HandInv, HandAt
<1>4. QueueInv
  BY <1>0, <1>1, SetupType DEF Init, QueueInv, PictureJobCount, InDecode
<1>5. JobInv /\ AloneInv
  BY <1>0 DEF Init, JobInv, AloneInv, Busily, InDecode
<1> QED BY <1>1, <1>2, <1>3, <1>4, <1>5 DEF IInv

LEMMA StutterKeeps ==
  ASSUME IInv, UNCHANGED vars
  PROVE  IInv'
<1> USE DEF vars
<1>1. TypeOK'
  BY Facts DEF TypeOK, Jobs, Rows
<1>2. MainInv' /\ PoolInv' /\ HandInv'
  BY Facts DEF MainInv, PoolInv, HandInv, HandAt, InDecode, InJoin, KeepActive, Engaged, Leaving,
               Called, Busy, Reported, Resting, Going, Rows
<1>3. QueueInv' /\ AloneInv'
  BY Facts DEF QueueInv, AloneInv, InDecode, JobAt, EarlyJobs, PictureJobCount, FmtFirst, FmtLast,
               FmtAhead, Rows
<1>4. JobInv'
  BY JobFrame, Facts DEF InDecode
<1> QED BY <1>1, <1>2, <1>3, <1>4 DEF IInv

LEMMA NextKeeps ==
  ASSUME IInv, SafeCores, [Next]_vars
  PROVE  IInv'
<1>1. ASSUME NEW n \in CoreCounts, SetNumCores(n) PROVE IInv'
  <2>1. n \in 1..MaxCores
    BY <1>1, CoresAssumption
  <2> QED BY <2>1, <1>1, CoresStep DEF SetNumCores
<1>2. CASE AutoReset
  <2>1. 1 \in 1..MaxCores
    BY CoresAssumption
  <2> QED BY <2>1, <1>2, CoresStep DEF AutoReset
<1>3. CASE Application
  BY <1>1, <1>2, <1>3, DecodeStep, JoinStep DEF Application
<1>4. CASE MainStep
  <2>1. CASE CreateThread \/ StartThread \/ SkipContext \/ ContextsDone
    BY <2>1, CreateStep, StartStep, SkipStep, ContextsDoneStep
  <2>2. CASE QueueAhead \/ QueueRow \/ ParseRow \/ EndOfFrame \/ QueueFmt \/ Terminate \/ ConvertHere
    BY <2>2, QueueAheadStep, QueueRowStep, ParseRowStep, EndOfFrameStep, QueueFmtStep,
       TerminateStep, ConvertHereStep
  <2>3. CASE Take(Main) \/ Finish(Main) \/ Leave(Main)
    BY <2>3, TakeStep, FinishStep, LeaveStep
  <2>4. CASE WaitDone \/ WaitJoin \/ DecodeReturns \/ JoinSignal \/ JoinSkip \/ JoinThread \/ JoinReturns
    BY <2>4, WaitDoneStep, WaitJoinStep, DecodeReturnsStep, JoinSignalStep, JoinSkipStep,
       JoinThreadStep, JoinReturnsStep
  <2> QED BY <1>4, <2>1, <2>2, <2>3, <2>4 DEF MainStep
<1>5. ASSUME NEW t \in Threads, ThreadStep(t) PROVE IInv'
  BY <1>5, TakeStep, FinishStep, LeaveStep, ReportStep, ArriveStep, StartedStep DEF ThreadStep
<1>6. CASE Spurious
  BY <1>6, SpuriousStep
<1>7. CASE Deleted \/ UNCHANGED vars
  BY <1>7, StutterKeeps DEF Deleted
<1> QED BY <1>3, <1>4, <1>5, <1>6, <1>7 DEF Next

LEMMA Invariant == SafeCores => (Spec => []IInv)
<1>1. SUFFICES ASSUME SafeCores PROVE Spec => []IInv
  OBVIOUS
<1>2. IInv /\ [Next]_vars => IInv'
  BY <1>1, NextKeeps
<1> QED BY <1>2, InitKeeps, PTL DEF Spec

-----------------------------------------------------------------------------
(* What follows from it.                                                       *)

(* Every field of codec_t and jobq_t that the threads share keeps its type.    *)
THEOREM TypeCorrect == SafeCores => (Spec => []TypeOK)
<1>1. IInv => TypeOK
  BY DEF IInv
<1> QED BY <1>1, Invariant, PTL

(* Between two calls of the application every worker has left its picture,      *)
(* whatever the order in which the workers took their start, finished, were     *)
(* woken for nothing and were waited for.                                       *)
THEOREM HandshakeCorrect == SafeCores => (Spec => []WorkersRest)
<1>1. IInv => WorkersRest
  <2> SUFFICES ASSUME IInv, pc[Main] = "idle", NEW t \in Threads PROVE ~InPicture(t)
    BY DEF WorkersRest
  <2>1. \A i \in Contexts : created[i] => Resting(i)
    BY Facts DEF HandInv, HandAt, Engaged, Leaving
  <2>2. pc[t] # "free" => Resting(ctx[t]) /\ handle[ctx[t]] = t
    BY <2>1, Facts DEF PoolInv, TypeOK
  <2> QED BY <2>2 DEF Resting, InPicture
<1> QED BY <1>1, Invariant, PTL

(* No start or done flag is left over from a picture, which the next one would  *)
(* take for its own.                                                            *)
THEOREM FlagsCorrect == SafeCores => (Spec => []FlagsConsumed)
<1>1. IInv => FlagsConsumed
  <2> SUFFICES ASSUME IInv PROVE FlagsConsumed
    OBVIOUS
  <2>1. ASSUME pc[Main] \in {"idle", "deleted"}, NEW i \in Contexts
        PROVE  created[i] => Resting(i)
    BY <2>1, Facts DEF HandInv, HandAt, Engaged, Leaving
  <2> QED BY <2>1, Facts DEF FlagsConsumed, HandInv, HandAt, Resting
<1> QED BY <1>1, Invariant, PTL

(* No two threads use one process context: not two workers, of this picture or  *)
(* kept from an earlier one, and not a worker and Main.                         *)
THEOREM ContextsCorrect == SafeCores => (Spec => []ContextsPrivate)
<1>1. IInv => ContextsPrivate
  <2> SUFFICES ASSUME IInv PROVE ContextsPrivate
    OBVIOUS
  <2>1. ASSUME NEW t \in Threads, pc[t] # "free"
        PROVE  handle[ctx[t]] = t /\ ctx[t] \in Contexts /\ ctx[t] < numCores - 1
    BY <2>1, Facts DEF PoolInv, TypeOK
  <2>2. ASSUME NEW t \in Threads, InPicture(t) PROVE ctx[t] # numCores - 1
    <3>1. pc[t] # "free"
      BY <2>2 DEF InPicture
    <3> QED BY <3>1, <2>1, Facts DEF Contexts, TypeOK
  <2> QED BY <2>1, <2>2 DEF ContextsPrivate
<1> QED BY <1>1, Invariant, PTL

(* A deleted decoder has no thread left to use what the delete call frees.      *)
THEOREM DeleteCorrect == SafeCores => (Spec => []NoThreadLeft)
<1>1. IInv => NoThreadLeft
  <2> SUFFICES ASSUME IInv, pc[Main] = "deleted" PROVE Free = Threads
    BY DEF NoThreadLeft
  <2>1. \A t \in Threads : pc[t] = "free"
    BY Facts DEF PoolInv, TypeOK
  <2> QED BY <2>1 DEF Free
<1> QED BY <1>1, Invariant, PTL

(* The job queue's buffer has room for the jobs of every picture, with or       *)
(* without jobs queued ahead.                                                   *)
THEOREM CapacityCorrect == SafeCores => (Spec => []QueueNeverFull)
<1>1. IInv => QueueNeverFull
  BY Facts DEF QueueNeverFull, QueueInv, PictureJobCount, JobCapacity, TypeOK
<1> QED BY <1>1, Invariant, PTL

(* Each job of a picture is done by one thread, once.                           *)
THEOREM QueueCorrect == SafeCores => (Spec => []JobsOnce)
<1>1. IInv => JobsOnce
  BY Facts DEF JobsOnce, JobInv
<1> QED BY <1>1, Invariant, PTL

-----------------------------------------------------------------------------
(* The threads do what PictureJobs promises.                                   *)

\* When Main has waited for every worker, the jobs of the picture are done.
LEMMA PictureDone ==
  ASSUME IInv, pc[Main] = "wait", idx >= numCores - 1
  PROVE  PictureJobSet(shown, setup) \subseteq finished
<1>1. CASE numCores = 1
  BY <1>1, Facts DEF AloneInv
<1>2. CASE numCores # 1
  <2>1. numCores > 1 /\ rd = PictureJobCount /\ Len(jobs) = PictureJobCount
    BY <1>2, Facts DEF TypeOK, JobInv, QueueInv
  <2>2. \A p \in Procs : ~Busily(p)
    BY WaitOver DEF Busily, InPicture
  <2>3. \A n \in 1..PictureJobCount : JobAt(n) \in finished
    BY <2>1, <2>2, Facts DEF JobInv, QueueInv, InDecode
  <2>4. ASSUME NEW k \in 0..(TileRowCount(setup) - 1) PROVE Proc(k) \in finished
    <3>1. EarlyJobs + k + 1 \in 1..PictureJobCount
      BY Facts DEF PictureJobCount, EarlyJobs, FmtFirst
    <3>2. JobAt(EarlyJobs + k + 1) = Proc(k)
      BY Facts DEF JobAt
    <3> QED BY <3>1, <3>2, <2>3
  <2>5. ASSUME shown # "none", NEW r \in 0..(Rows - 1) PROVE Fmt(r) \in finished
    <3>1. CASE FmtFirst
      <4>1. r + 1 \in 1..PictureJobCount /\ JobAt(r + 1) = Fmt(r)
        BY <3>1, <2>5, Facts DEF PictureJobCount, EarlyJobs, JobAt
      <4> QED BY <4>1, <2>3
    <3>2. CASE ~FmtFirst
      <4>1. /\ TileRowCount(setup) + r + 1 \in 1..PictureJobCount
            /\ JobAt(TileRowCount(setup) + r + 1) = Fmt(r)
        BY <3>2, <2>5, Facts DEF PictureJobCount, EarlyJobs, JobAt
      <4> QED BY <4>1, <2>3
    <3> QED BY <3>1, <3>2
  <2> QED BY <2>4, <2>5 DEF PictureJobSet, ProcJobs, FmtJobs, Rows
<1> QED BY <1>1, <1>2

Todo == IF call = "decode" THEN PictureJobSet(shown, setup) \ finished ELSE {}
InCall == pc[Main] \notin {"idle", "deleted"}

\* A job done is a step of the promise, and so is one done again.
LEMMA DoesJob ==
  ASSUME IInv, InDecode, NEW j, finished' = finished \union {j}, InCall',
         UNCHANGED <<setup, shown, call>>
  PROVE  [Promise!Next]_(<<Todo, InCall>>)
<1>1. call = "decode" /\ InCall
  BY Facts DEF MainInv, InDecode, InCall
<1>2. Todo' = Todo \ {j} /\ InCall' = InCall
  BY <1>1 DEF Todo, InCall
<1>3. j \in Todo => j \in UNION {PictureJobSet(o, s) : o \in Outputs, s \in Setups}
  BY <1>1, Facts DEF Todo, TypeOK
<1>4. CASE j \in Todo
  BY <1>1, <1>2, <1>3, <1>4 DEF Promise!Next, Promise!Do, Todo, InCall
<1>5. CASE j \notin Todo
  BY <1>2, <1>5
<1> QED BY <1>4, <1>5

\* A step inside a call that finishes no job is a stuttering step.
LEMMA DoesNone ==
  ASSUME UNCHANGED <<setup, shown, call, finished>>, InCall' = InCall
  PROVE  [Promise!Next]_(<<Todo, InCall>>)
BY DEF Todo

LEMMA CallStep ==
  ASSUME IInv, Application
  PROVE  [Promise!Next]_(<<Todo, InCall>>)
<1>0. pc \in [Procs -> ThreadPlaces \union MainPlaces] /\ setup \in Setups
  BY Facts DEF TypeOK
<1>1. ASSUME NEW n \in CoreCounts, SetNumCores(n) PROVE [Promise!Next]_(<<Todo, InCall>>)
  BY <1>1, DoesNone DEF SetNumCores, InCall
<1>2. CASE AutoReset
  BY <1>2, DoesNone DEF AutoReset, InCall
<1>3. ASSUME NEW o \in Outputs, Decode(o) PROVE [Promise!Next]_(<<Todo, InCall>>)
  <2>1. ~InCall /\ InCall' /\ Todo' = PictureJobSet(o, setup)
    BY <1>3, <1>0 DEF Decode, InCall, Todo
  <2>2. PictureJobSet(o, setup) \in {PictureJobSet(q, s) : q \in Outputs, s \in Setups}
    BY <1>3, <1>0
  <2> QED BY <2>1, <2>2 DEF Promise!Next, Promise!Call, Todo, InCall
<1>4. ASSUME NEW c \in {"flush", "reset", "delete"}, Join(c) PROVE [Promise!Next]_(<<Todo, InCall>>)
  <2>1. ~InCall /\ InCall' /\ Todo' = {}
    BY <1>4, <1>0 DEF Join, InCall, Todo
  <2> QED BY <2>1 DEF Promise!Next, Promise!Call, Todo, InCall
<1> QED BY <1>1, <1>2, <1>3, <1>4 DEF Application

LEMMA MainStepRefines ==
  ASSUME IInv, MainStep
  PROVE  [Promise!Next]_(<<Todo, InCall>>)
<1>0. pc \in [Procs -> ThreadPlaces \union MainPlaces] /\ Main \notin Threads
  BY Facts DEF TypeOK
<1>1. CASE CreateThread \/ StartThread \/ SkipContext \/ ContextsDone
  <2>1. InCall /\ InCall'
    <3>1. CASE CreateThread
      <4>1. PICK t \in Free : pc' = [pc EXCEPT ![t] = IF KeepActive THEN "arrive" ELSE "take"]
        <5>1. Free # {}
          BY <3>1, FreeThread, Facts DEF CreateThread, Contexts, TypeOK
        <5> QED BY <3>1, <5>1 DEF CreateThread
      <4> QED BY <4>1, <3>1, <1>0 DEF CreateThread, InCall, Free
    <3>2. CASE StartThread
      BY <3>2, <1>0 DEF StartThread, SignalStart, InCall
    <3>3. CASE SkipContext \/ ContextsDone
      BY <3>3, <1>0 DEF SkipContext, ContextsDone, InCall
    <3> QED BY <1>1, <3>1, <3>2, <3>3
  <2> QED BY <2>1, <1>1, DoesNone DEF CreateThread, StartThread, SkipContext, ContextsDone, InCall
<1>2. CASE QueueAhead \/ QueueRow \/ EndOfFrame \/ QueueFmt \/ Terminate
  <2>1. InCall /\ InCall'
    BY <1>2, <1>0 DEF QueueAhead, QueueRow, EndOfFrame, QueueFmt, Terminate, InCall
  <2> QED BY <2>1, <1>2, DoesNone DEF QueueAhead, QueueRow, EndOfFrame, QueueFmt, Terminate, InCall
<1>3. CASE ParseRow
  <2>1. InDecode /\ InCall /\ InCall' /\ UNCHANGED <<setup, shown, call>>
    BY <1>3, <1>0 DEF ParseRow, InCall, InDecode
  <2>2. CASE numCores > 1
    BY <2>1, <2>2, <1>3, DoesNone DEF ParseRow, InCall
  <2>3. CASE ~(numCores > 1)
    BY <2>1, <2>3, <1>3, DoesJob DEF ParseRow
  <2> QED BY <2>2, <2>3
<1>4. CASE ConvertHere
  <2>1. InDecode /\ InCall /\ InCall' /\ UNCHANGED <<setup, shown, call>>
    BY <1>4, <1>0 DEF ConvertHere, InCall, InDecode
  <2>2. CASE shown # "none" /\ idx < Rows
    BY <2>1, <2>2, <1>4, DoesJob DEF ConvertHere
  <2>3. CASE ~(shown # "none" /\ idx < Rows)
    BY <2>1, <2>3, <1>4, DoesNone DEF ConvertHere, InCall
  <2> QED BY <2>2, <2>3
<1>5. CASE Take(Main) \/ Leave(Main)
  <2>1. InCall /\ InCall'
    BY <1>5, <1>0 DEF Take, Leave, InCall
  <2> QED BY <2>1, <1>5, DoesNone DEF Take, Leave, InCall
<1>6. CASE Finish(Main)
  <2>1. InDecode /\ InCall'
    BY <1>6, <1>0 DEF Finish, InCall, InDecode
  <2> QED BY <2>1, <1>6, DoesJob DEF Finish
<1>7. CASE WaitDone \/ WaitJoin
  <2>1. WaitJoin => handle[idx] # Main
    BY <1>0, Facts DEF WaitJoin, WaitsFor
  <2>2. InCall /\ InCall'
    BY <2>1, <1>7, <1>0 DEF WaitDone, WaitJoin, WaitsFor, InCall
  <2> QED BY <2>2, <1>7, DoesNone DEF WaitDone, WaitJoin, InCall
<1>8. CASE DecodeReturns
  <2>1. InCall /\ ~InCall' /\ Todo' = Todo
    BY <1>8, <1>0 DEF DecodeReturns, InCall, Todo
  <2>2. Todo = {}
    BY <1>8, PictureDone DEF DecodeReturns, Todo
  <2> QED BY <2>1, <2>2 DEF Promise!Next, Promise!Return, Todo, InCall
<1>9. CASE JoinSignal \/ JoinSkip \/ JoinThread
  <2>1. JoinThread => handle[idx] # Main
    BY <1>0, Facts DEF JoinThread
  <2>2. InCall /\ InCall'
    BY <2>1, <1>9, <1>0 DEF JoinSignal, SignalStart, JoinSkip, JoinThread, InCall
  <2> QED BY <2>2, <1>9, DoesNone DEF JoinSignal, JoinSkip, JoinThread, InCall
<1>10. CASE JoinReturns
  <2>1. InCall /\ ~InCall' /\ Todo' = Todo
    BY <1>10, <1>0 DEF JoinReturns, InCall, Todo
  <2>2. Todo = {}
    BY <1>10, Facts DEF JoinReturns, Todo, MainInv, InJoin
  <2> QED BY <2>1, <2>2 DEF Promise!Next, Promise!Return, Todo, InCall
<1> QED BY <1>1, <1>2, <1>3, <1>4, <1>5, <1>6, <1>7, <1>8, <1>9, <1>10 DEF MainStep

LEMMA OtherStepRefines ==
  ASSUME IInv, NEW t \in Threads, ThreadStep(t) \/ Spurious
  PROVE  [Promise!Next]_(<<Todo, InCall>>)
<1>0. pc \in [Procs -> ThreadPlaces \union MainPlaces] /\ Main \notin Threads
  BY Facts DEF TypeOK
<1>1. CASE Finish(t)
  <2>1. InDecode
    BY <1>1, InHandInDecode DEF Finish
  <2>2. InCall'
    BY <2>1, <1>1, <1>0 DEF Finish, InCall, InDecode
  <2> QED BY <2>1, <2>2, <1>1, DoesJob DEF Finish
<1>2. CASE Take(t) \/ Leave(t) \/ Report(t) \/ Arrive(t) \/ Started(t)
  <2>1. InCall' = InCall
    BY <1>2, <1>0 DEF Take, Leave, Report, Arrive, Started, InCall
  <2> QED BY <2>1, <1>2, DoesNone DEF Take, Leave, Report, Arrive, Started
<1>3. CASE Spurious
  <2>1. InCall' = InCall
    BY <1>3, <1>0 DEF Spurious, InCall
  <2> QED BY <2>1, <1>3, DoesNone DEF Spurious
<1> QED BY <1>1, <1>2, <1>3 DEF ThreadStep

LEMMA NextRefines ==
  ASSUME IInv, [Next]_vars
  PROVE  [Promise!Next]_(<<Todo, InCall>>)
<1>1. CASE Deleted \/ UNCHANGED vars
  BY <1>1, DoesNone DEF Deleted, vars, InCall
<1>2. CASE \E t \in Threads : ThreadStep(t)
  BY <1>2, OtherStepRefines
<1>3. CASE Spurious
  <2>1. pc \in [Procs -> ThreadPlaces \union MainPlaces] /\ Main \notin Threads
    BY Facts DEF TypeOK
  <2>2. InCall' = InCall
    BY <2>1, <1>3 DEF Spurious, InCall
  <2> QED BY <2>2, <1>3, DoesNone DEF Spurious
<1> QED BY <1>1, <1>2, <1>3, CallStep, MainStepRefines DEF Next

(* A decode call returns only when all the jobs of its picture are done, and no *)
(* job is done between calls: module PictureJobs, on which PicBufs relies when  *)
(* it treats the decoding of a picture as one step.                             *)
THEOREM PromiseKept == SafeCores => (Spec => JobsDoneByCall)
<1>1. SUFFICES ASSUME SafeCores PROVE Spec => JobsDoneByCall
  OBVIOUS
<1>2. Init => Promise!Init
  BY DEF Init, Promise!Init
<1>3. IInv /\ [Next]_vars => [Promise!Next]_(<<Todo, InCall>>)
  BY NextRefines
<1> QED BY <1>1, <1>2, <1>3, Invariant, PTL DEF Spec, JobsDoneByCall, Promise!Spec, Todo, InCall
=============================================================================
