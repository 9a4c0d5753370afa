----------------------------- MODULE MCOutputOrder ----------------------------
EXTENDS OutputOrder
=============================================================================
