---------------------------- MODULE MCStoreBoot ----------------------------
(* A small instance of StoreBoot for TLC. *)
EXTENDS StoreBoot
=============================================================================
