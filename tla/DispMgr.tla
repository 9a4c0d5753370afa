------------------------------ MODULE DispMgr -------------------------------
(***************************************************************************)
(* common/ihevc_disp_mgr.c: the pictures decoded and not yet output, by    *)
(* buffer id.  `disp` maps a buffer to its POC, or to NotQueued            *)
(* (DEFAULT_POC, with a NULL pointer) when it is not waiting.              *)
(***************************************************************************)
EXTENDS Integers

NotQueued == -1000      \* DEFAULT_POC: outside every set of POCs used

Waiting(disp) == {b \in DOMAIN disp : disp[b] # NotQueued}

(* The id ihevc_disp_mgr_get returns: the lowest POC, and the highest id   *)
(* among equals because the comparison is "<=".                            *)
IsNextOutput(disp, b) ==
  /\ b \in Waiting(disp)
  /\ \A c \in Waiting(disp) : /\ disp[b] <= disp[c]
                              /\ disp[c] = disp[b] => c <= b

(* ihevc_disp_mgr_add refuses an id that is waiting already. *)
Queued(disp, b, p) == IF disp[b] = NotQueued THEN [disp EXCEPT ![b] = p] ELSE disp

Dequeued(disp, b) == [disp EXCEPT ![b] = NotQueued]

=============================================================================
