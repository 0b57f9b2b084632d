---------------------------- MODULE AccessJournal ----------------------------
(***************************************************************************)
(* What the terminal promises of its records while it stays on: they are   *)
(* numbered 1, 2, 3, ..., one for each card, in the order of the cards;    *)
(* the last Count of them can be read back; a record never changes, except *)
(* that it may become `sent', and then stays so.                           *)
(***************************************************************************)
EXTENDS Integers

CONSTANTS Count, Cards, Verdicts

VARIABLES count,     \* how many records have been made
          lastCard,  \* the card of the last of them
          window     \* the records that can be read back

Stages == {"kept", "sent"}
Window(n) == {id \in 1 .. n : id + Count > n}

Init == count = 0 /\ lastCard = 0 /\ window = [id \in {} |-> 0]

Append(card, ok, stage) ==
  /\ card > lastCard
  /\ count' = count + 1
  /\ lastCard' = card
  /\ window' = [id \in Window(count') |->
                  IF id = count' THEN [card |-> card, ok |-> ok, stage |-> stage]
                  ELSE window[id]]

BecomeSent(id) ==
  /\ window[id].stage = "kept"
  /\ window' = [window EXCEPT ![id].stage = "sent"]
  /\ UNCHANGED <<count, lastCard>>

Next == \/ \E card \in Cards, ok \in Verdicts, stage \in Stages : Append(card, ok, stage)
        \/ \E id \in DOMAIN window : BecomeSent(id)

Spec == Init /\ [][Next]_<<count, lastCard, window>>
=============================================================================
