-------------------------- MODULE MCBucketsStore --------------------------
(***************************************************************************)
(* BucketsStore for TLC: more readable buckets than workers.               *)
(***************************************************************************)
EXTENDS BucketsStore, TLC

StoreSymmetry == Permutations(MayRead) \cup Permutations(Runs)

============================================================================
