--------------------------- MODULE MCDecodeThreads ---------------------------
(* Small instances of DecodeThreads for TLC. *)
EXTENDS DecodeThreads

Setup(keep, ahead, r, c) ==
  [keepActive |-> keep, fmtAhead |-> ahead, rows |-> r, tileCols |-> c]

\* Both ways of the create call's two options with pictures of two tiles, and one
\* decoder of pictures of four rows, which the conversion does not wait for at once.
SmallSetups == {Setup(keep, ahead, 2, 2) : keep, ahead \in BOOLEAN}
               \union {Setup(TRUE, FALSE, 4, 1)}

KeptOneRow == {Setup(TRUE, FALSE, 1, 1)}
=============================================================================
