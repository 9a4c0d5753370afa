---------------------------- MODULE MCPreEncode ----------------------------
EXTENDS PreEncode
=============================================================================
