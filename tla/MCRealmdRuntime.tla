-------------------------- MODULE MCRealmdRuntime --------------------------
EXTENDS RealmdRuntime
=============================================================================
