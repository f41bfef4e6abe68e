--------------------------- MODULE MCProvisioning ---------------------------
EXTENDS Provisioning
=============================================================================
