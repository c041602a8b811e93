------------------------- MODULE MCMountTransaction -------------------------
EXTENDS MountTransaction
=============================================================================
