--------------------------- MODULE MCOutputFrame ---------------------------
EXTENDS OutputFrame
=============================================================================
