----------------------------- MODULE MCStorageCore -----------------------------
(***************************************************************************)
(* Instances of StorageCore for TLC.                                       *)
(***************************************************************************)
EXTENDS StorageCore, TLC

CONSTANTS c1, c2, c3, r1, k1, k2

\* One row each: two keys, one key, and a row without columns.
MixedBatches == {[rows |-> 1, keys |-> {k1, k2}], [rows |-> 1, keys |-> {k1}],
                 [rows |-> 1, keys |-> {}]}

KeyBatches == {[rows |-> 1, keys |-> {k1}], [rows |-> 1, keys |-> {k2}]}

OneKeyBatches == {[rows |-> 1, keys |-> {k1}], [rows |-> 1, keys |-> {}]}

ClientSymmetry == Permutations(Clients)
ClientKeySymmetry == Permutations(Clients) \cup Permutations(Keys)
=============================================================================
