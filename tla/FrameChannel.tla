----------------------------- MODULE FrameChannel -----------------------------
(***************************************************************************)
(* What a queue of the encoder's buffers promises, with no buffers, flags  *)
(* or sequence numbers: the producer works on some frames at a time, gives *)
(* them up in any order, and the consumer gets every frame once, in the    *)
(* order in which the producer began them.  No more frames are under way   *)
(* than there are buffers.                                                 *)
(***************************************************************************)
EXTENDS Integers, FiniteSets

VARIABLES
  size,      \* how many frames there is room for; never changes
  filling,   \* the frames the producer works on
  ready,     \* those the consumer may get
  lent,      \* those the consumer has
  begun,     \* the next frame the producer begins
  got        \* the next frame the consumer gets

vars == <<size, filling, ready, lent, begun, got>>

Init ==
  /\ size \in Nat
  /\ filling = {} /\ ready = {} /\ lent = {}
  /\ begun = 0 /\ got = 0

Take ==
  /\ Cardinality(filling \cup ready \cup lent) < size
  /\ begun \notin filling \cup ready \cup lent
  /\ filling' = filling \cup {begun}
  /\ begun' = begun + 1
  /\ UNCHANGED <<size, ready, lent, got>>

Give(f) ==
  /\ f \in filling
  /\ filling' = filling \ {f}
  /\ ready' = ready \cup {f}
  /\ UNCHANGED <<size, lent, begun, got>>

Get ==
  /\ got \in ready
  /\ ready' = ready \ {got}
  /\ lent' = lent \cup {got}
  /\ got' = got + 1
  /\ UNCHANGED <<size, filling, begun>>

Release(f) ==
  /\ f \in lent
  /\ lent' = lent \ {f}
  /\ UNCHANGED <<size, filling, ready, begun, got>>

Next ==
  \/ Take \/ Get
  \/ \E f \in filling : Give(f)
  \/ \E f \in lent : Release(f)

Spec == Init /\ [][Next]_vars

=============================================================================
