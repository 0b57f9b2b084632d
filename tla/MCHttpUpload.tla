---------------------------- MODULE MCHttpUpload ----------------------------
(* Small instances of HttpUpload for TLC. *)
EXTENDS HttpUpload, TLC

MCSymmetry == Permutations(Sessions)
=============================================================================
