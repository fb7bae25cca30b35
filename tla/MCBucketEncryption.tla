------------------------- MODULE MCBucketEncryption -------------------------
(* Small instances of BucketEncryption for TLC. *)
EXTENDS BucketEncryption, TLC

\* Callers are interchangeable goroutines.
CallerSymmetry == Permutations(Callers)
=============================================================================
