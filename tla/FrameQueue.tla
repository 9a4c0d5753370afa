------------------------------ MODULE FrameQueue ------------------------------
(***************************************************************************)
(* A queue of buffers between two threads of the encoder.  A producer      *)
(* takes free buffers and later sets each as produced; the consumer gets   *)
(* them in the order in which they were taken, and releases them.  Every   *)
(* operation runs with the queues' mutex locked.                           *)
(***************************************************************************)
EXTENDS Integers

(* Lowest of a set of buffer ids.                                          *)
First(S) == CHOOSE b \in S : \A c \in S : b <= c

(* "users" is pi4_num_users, never more than one; "seq" is pu4_que_seq.    *)
EmptyQueue(bufs) ==
  [used |-> [b \in bufs |-> FALSE], produced |-> [b \in bufs |-> FALSE],
   seq |-> [b \in bufs |-> -1], lastProd |-> 0, lastCons |-> 0]

(* Mutant: a buffer that another thread fills counts as free. *)
UnfilledBufs(q) == {b \in DOMAIN q.used : ~q.produced[b]}

FreeBufs(q) == {b \in DOMAIN q.used : ~q.used[b] /\ ~q.produced[b]}
FreeBuf(q) == First(FreeBufs(q))

TakeBuf(q, b) ==
  [q EXCEPT !.used[b] = TRUE, !.seq[b] = q.lastProd, !.lastProd = @ + 1]

SetProduced(q, b) == [q EXCEPT !.produced[b] = TRUE]

(* The next in the order of taking, if it is produced.                     *)
FilledBufs(q) == {b \in DOMAIN q.used : q.seq[b] = q.lastCons /\ q.produced[b]}
FilledBuf(q) == First(FilledBufs(q))

GetBuf(q) == [q EXCEPT !.lastCons = @ + 1]

ReleaseBuf(q, b) ==
  IF q.produced[b] THEN [q EXCEPT !.used[b] = FALSE, !.produced[b] = FALSE] ELSE q

-----------------------------------------------------------------------------
(* Where a buffer in use is: with the producer, waiting, or got already.   *)
Filling(q) == {b \in DOMAIN q.used : q.used[b] /\ ~q.produced[b]}
Waiting(q) == {b \in DOMAIN q.used : q.produced[b] /\ q.seq[b] >= q.lastCons}
Lent(q) == {b \in DOMAIN q.used : q.produced[b] /\ q.seq[b] < q.lastCons}

=============================================================================
