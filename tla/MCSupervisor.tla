----------------------------- MODULE MCSupervisor -----------------------------
EXTENDS Supervisor
=============================================================================
