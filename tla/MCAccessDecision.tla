-------------------------- MODULE MCAccessDecision --------------------------
(* Small instances of AccessDecision for TLC: days of three seconds, weeks of
   two days, two groups. *)
EXTENDS AccessDecision, TLC

MCGroups == {"g", "h"}
\* areas 1 and 2 overlap, 3 is one instant, 4 is empty; line 5 is missing
Area(b, e) == [begin |-> b, end |-> e]
MCAreas == <<Area(0, 1), Area(1, 2), Area(2, 2), Area(2, 0)>>
MCPlans == {<<>>, <<4, 3>>, <<5, 1>>, <<2, 0, 1>>, None}
MCTables == {[d \in MCGroups \X {0, 1} |-> IF (d[2] = 0) = (d[1] = "g") THEN p ELSE q] : p, q \in MCPlans}
MCHolidays == {{}, {<<"g", 0>>}, {<<"g", 1>>, <<"h", 0>>}}
=============================================================================
