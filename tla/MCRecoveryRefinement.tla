------------------------- MODULE MCRecoveryRefinement -------------------------
EXTENDS MCStorageRecovery, RecoveryRefinement
=============================================================================
