-------------------------- MODULE MCWhiteListSync --------------------------
(* Small instances of WhiteListSync for TLC. *)
EXTENDS WhiteListSync, TLC

MCLists == {"a", "b", "c"}
\* lists b and c have as many cards; the checksum does not grow with the list
MCSum == ("a" :> 7 @@ "b" :> 9 @@ "c" :> 5 @@ Torn :> 1)
MCCards == ("a" :> 1 @@ "b" :> 2 @@ "c" :> 2)
\* list a may come back after b; c is the last
MCNext == ("a" :> {"b", "c"} @@ "b" :> {"a", "c"} @@ "c" :> {})
=============================================================================
