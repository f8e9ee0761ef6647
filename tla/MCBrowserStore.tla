-------------------------- MODULE MCBrowserStore --------------------------
(***************************************************************************)
(* BrowserStore for TLC: a bucket with a folder, which may only be read,   *)
(* one that may be changed and one that may only be written.               *)
(***************************************************************************)
EXTENDS BrowserStore, TLC

CONSTANTS ro, rw, wo, root, sub

Place(bucket, prefix) == [bucket |-> bucket, prefix |-> prefix]

MCPlaces == {Place(ro, root), Place(ro, sub), Place(rw, root), Place(wo, root)}
MCReadable == {ro, rw}
MCWritable == {rw, wo}

(* The bucket that may be changed has a listing of several pages.         *)
MCContent ==
    [p \in MCPlaces |-> CASE p.bucket = rw -> Keys [] p.bucket = ro -> {1} [] OTHER -> {}]

CallSymmetry == Permutations(Calls)

============================================================================
