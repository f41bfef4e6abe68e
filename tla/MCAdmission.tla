----------------------------- MODULE MCAdmission -----------------------------
EXTENDS Admission
=============================================================================
