------------------------------- MODULE BufPool ------------------------------
(***************************************************************************)
(* What the decoder promises about its picture buffers, with no managers,  *)
(* status words or order counts: a buffer is decoded into only when it is  *)
(* neither a reference nor still to be seen, and a decoded picture stays   *)
(* what it is until it is dropped in both roles.                           *)
(***************************************************************************)
EXTENDS Integers

CONSTANT Bufs

VARIABLES
  writing,   \* the buffer being decoded into: {} or a singleton
  refs,      \* the buffers later pictures may refer to
  shown      \* the buffers someone still has to see

vars == <<writing, refs, shown>>

Init == writing = {} /\ refs = {} /\ shown = {}

Take(b) ==
  /\ writing = {}
  /\ b \notin refs \cup shown
  /\ writing' = {b}
  /\ UNCHANGED <<refs, shown>>

(* A picture is complete; at most one picture has now been seen, possibly  *)
(* this one.                                                               *)
Publish(b) ==
  /\ writing = {b}
  /\ writing' = {}
  /\ refs' = refs \cup {b}
  /\ \/ shown' = shown \cup {b}
     \/ \E out \in shown \cup {b} : shown' = (shown \cup {b}) \ {out}

DropRef(b) ==
  /\ b \in refs
  /\ refs' = refs \ {b}
  /\ UNCHANGED <<writing, shown>>

Seen(b) ==
  /\ writing = {}
  /\ b \in shown
  /\ shown' = shown \ {b}
  /\ UNCHANGED <<writing, refs>>

(* The application brings its own buffers, and has them all. *)
HandOver ==
  /\ writing = {} /\ refs = {} /\ shown = {}
  /\ shown' = Bufs
  /\ UNCHANGED <<writing, refs>>

Clear ==
  /\ writing = {}
  /\ writing' = {} /\ refs' = {} /\ shown' = {}

Next ==
  \/ \E b \in Bufs : Take(b) \/ Publish(b) \/ DropRef(b) \/ Seen(b)
  \/ HandOver \/ Clear

Spec == Init /\ [][Next]_vars
=============================================================================
