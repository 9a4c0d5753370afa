------------------------------- MODULE BufMgr -------------------------------
(***************************************************************************)
(* common/ihevc_buf_mgr.c: the buffer manager the decoder instantiates     *)
(* twice, once for picture buffers and once for motion vector banks.       *)
(*                                                                         *)
(* The manager keeps one status word per buffer id.  A word is modelled by *)
(* the set of its bits; the buffer is free when the set is empty.  The     *)
(* operators take the status function and return the new one, or are       *)
(* predicates on it: the state lives in the module that uses the manager.  *)
(***************************************************************************)
EXTENDS Integers

DEC  == "DEC"    \* bit 0: being decoded, and still set while any use is left
REF  == "REF"    \* bit 1: needed for reference
DISP == "DISP"   \* bit 2: needed for display
StatusBits == {DEC, REF, DISP}

(* Mutant: only the display bit is tested. *)
IsFreeIfSeen(st, id) == DISP \notin st[id]

(* A buffer the manager may hand out. *)
IsFree(st, id) == st[id] = {}

(* Mutant: the scan starts at the other end. *)
IsLastFree(st, id) ==
  /\ IsFree(st, id)
  /\ \A k \in DOMAIN st : IsFree(st, k) => k <= id

(* ihevc_buf_mgr_get_next_free scans upwards: the lowest free id. *)
IsNextFree(st, id) ==
  /\ IsFree(st, id)
  /\ \A k \in DOMAIN st : IsFree(st, k) => id <= k

(* ihevc_buf_mgr_check_free, and the NULL result of get_next_free. *)
SomeFree(st) == \E id \in DOMAIN st : IsFree(st, id)

(* The buffer get_next_free returns has only DEC set. *)
Acquired(st, id) == [st EXCEPT ![id] = {DEC}]

(* ihevc_buf_mgr_set_status: refused when the bit is set already, which    *)
(* leaves the same set of bits.                                            *)
WithStatus(st, id, bit) == [st EXCEPT ![id] = @ \cup {bit}]

(* Mutants: the word left with DEC alone is not cleared, or DEC goes with  *)
(* the display bit.                                                        *)
ReleasedOnly(st, id, bit) == [st EXCEPT ![id] = @ \ {bit}]
ReleasedWithDec(st, id, bit) ==
  [st EXCEPT ![id] = IF bit = DISP \/ @ \ {bit} = {DEC}
                     THEN @ \ {bit, DEC} ELSE @ \ {bit}]

(* ihevc_buf_mgr_release: clear the bit; DEC alone means that no use is    *)
(* left and frees the buffer.                                              *)
Released(st, id, bit) ==
  [st EXCEPT ![id] = IF @ \ {bit} = {DEC} THEN {} ELSE @ \ {bit}]

=============================================================================
