----------------------------- MODULE MCPicBufs ------------------------------
(* Small instances of PicBufs for TLC. *)
EXTENDS PicBufs

=============================================================================
