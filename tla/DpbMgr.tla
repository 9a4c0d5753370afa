------------------------------- MODULE DpbMgr -------------------------------
(***************************************************************************)
(* common/ihevc_dpb_mgr.c: the decoded picture buffer, the set of pictures *)
(* that later pictures may refer to.                                       *)
(*                                                                         *)
(* The C structure is an array of slots (as_dpb_info) threaded by a linked *)
(* list from ps_dpb_head through ps_prev_dpb.  `slots` maps a slot to its  *)
(* picture buffer or to NoBuf; `list` is the linked list, the most recent  *)
(* insertion first, and u1_num_ref_bufs is its length.  `poc` is the       *)
(* i4_abs_poc field of the picture buffers.                                *)
(***************************************************************************)
EXTENDS Integers, Sequences

NoBuf == -1       \* ps_pic_buf == NULL

(* The pictures the DPB holds. *)
DpbBufs(slots) == {slots[s] : s \in DOMAIN slots} \ {NoBuf}

(* The list threads exactly the occupied slots, each once, and no picture  *)
(* is in two of them: ihevc_dpb_mgr_del_ref and the searches follow        *)
(* ps_prev_dpb u1_num_ref_bufs times without a test for NULL.              *)
IsIntact(slots, list) ==
  /\ \A n \in 1 .. Len(list) : slots[list[n]] # NoBuf
  /\ \A s \in DOMAIN slots :
       slots[s] # NoBuf => \E n \in 1 .. Len(list) : list[n] = s
  /\ \A m, n \in 1 .. Len(list) : list[m] = list[n] => m = n
  /\ \A s, t \in DOMAIN slots : slots[s] = slots[t] /\ slots[s] # NoBuf => s = t

(* The position in the list where the search by POC that                   *)
(* ihevc_dpb_mgr_get_ref_by_poc and ihevc_dpb_mgr_del_ref share stops.     *)
IsFirstWithPoc(slots, list, poc, p, n) ==
  /\ n \in 1 .. Len(list)
  /\ poc[slots[list[n]]] = p
  /\ \A m \in 1 .. (n - 1) : poc[slots[list[m]]] # p

(* ihevc_dpb_mgr_get_ref_by_poc for each POC of a set: the pictures found. *)
RefsByPoc(slots, list, poc, pocs) ==
  {b \in DpbBufs(slots) :
     \E n \in 1 .. Len(list) : /\ slots[list[n]] = b
                               /\ IsFirstWithPoc(slots, list, poc, poc[b], n)
                               /\ poc[b] \in pocs}

(* The slot ihevc_dpb_mgr_insert_ref takes: the lowest empty one. *)
IsInsertSlot(slots, s) ==
  /\ slots[s] = NoBuf
  /\ \A t \in DOMAIN slots : slots[t] = NoBuf => s <= t

(* Mutant: the node is unlinked one position too far on. *)
UnlinkedNext(list, n) ==
  [m \in 1 .. (Len(list) - 1) |-> IF m <= n THEN list[m] ELSE list[m + 1]]

(* The list after an insertion at the head, and after unlinking node n. *)
Linked(list, s) == <<s>> \o list
Unlinked(list, n) ==
  [m \in 1 .. (Len(list) - 1) |-> IF m < n THEN list[m] ELSE list[m + 1]]

=============================================================================
