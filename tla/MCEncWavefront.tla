--------------------------- MODULE MCEncWavefront ---------------------------
EXTENDS EncWavefront
=============================================================================
