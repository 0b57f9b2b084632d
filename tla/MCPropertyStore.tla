-------------------------- MODULE MCPropertyStore --------------------------
(* Small instances of PropertyStore for TLC. *)
EXTENDS PropertyStore, TLC

\* no key begins with the text of another
MCExtending == [k \in Keys |-> {k}]
MCTestVals == <<"abcd", "12345">>
=============================================================================
