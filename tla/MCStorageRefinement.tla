-------------------------- MODULE MCStorageRefinement --------------------------
EXTENDS StorageRefinement, MCStorageCore
=============================================================================
