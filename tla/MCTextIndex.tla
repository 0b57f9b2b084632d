---------------------------- MODULE MCTextIndex ----------------------------
(* Small instances of TextIndex for TLC. *)
EXTENDS TextIndex

MCChars == {"a", "b"}
\* every text of up to four characters, and three longer ones
MCTexts == UNION {[1 .. n -> MCChars \cup {NL}] : n \in 0 .. 4}
           \cup {<<"a", "b", NL, "b", "a", NL>>, <<"b", NL, "a", "b", NL, "a">>,
                 <<"a", NL, "b", "a", NL, "b", "b", NL>>}
MCKeys == {<<"a">>, <<"b">>, <<"a", "b">>, <<"b", "a">>, <<"b", "b">>}
=============================================================================
