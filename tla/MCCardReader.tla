---------------------------- MODULE MCCardReader ----------------------------
(* Small instances of CardReader for TLC: numbers of two bytes. *)
EXTENDS CardReader

\* a number and its reverse are different cards, or no card; one holds Hash, one End
MCIds == {<<1, 2>>, <<1, 1>>, <<3, 1>>, <<35, 1>>, <<10, 3>>}
MCNoise == {35, 10, 9}
=============================================================================
