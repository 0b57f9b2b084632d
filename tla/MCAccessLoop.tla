---------------------------- MODULE MCAccessLoop ----------------------------
(* Small instances of AccessLoop for TLC. *)
EXTENDS AccessLoop, TLC

\* one verdict: RingKeepsTail and ImplementsJournal are proved for any set of them
MCVerdicts == {1}
=============================================================================
