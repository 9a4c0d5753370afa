-------------------------- MODULE MCCtbWavefront --------------------------
(* CtbWavefront on small pictures; the constants are given by the .cfg files.  *)
EXTENDS CtbWavefront
=============================================================================
