--------------------------- MODULE MCWorldRuntime ---------------------------
EXTENDS WorldRuntime
=============================================================================
