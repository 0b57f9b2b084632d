------------------------ MODULE AccessDecisionProofs ------------------------
(***************************************************************************)
(* Theorems about the judgement of a card for days and weeks of any        *)
(* length, any files and any time.                                         *)
(* and about the index its text files are read by (TextIndex), for texts   *)
(* of any length.                                                          *)
(*                                                                         *)
(* The inductive invariant says what the loop over the plan knows: every   *)
(* entry it has passed names an area that is there (PassedInv), and, until *)
(* midnight, one that does not hold the time of the card (NotYetInv).      *)
(***************************************************************************)
EXTENDS AccessDecision, TextIndex, FiniteSetTheorems, NaturalsInduction, SequenceTheorems, TLAPS


InArea(area, t) == area.begin <= t % DayLen /\ t % DayLen <= area.end

TypeInv ==
  /\ now \in Nat /\ time \in Nat /\ time <= now
  /\ files.week \in Tables /\ files.holidayWeek \in Tables
  /\ pc \in {"idle", "group", "plan", "area", "done"}
  /\ pc \in {"plan", "area"} => group \in Groups
  /\ pc # "done" => rel = "none"

PassedInv ==
  pc = "area" =>
    /\ list = PlanOn(group, Day(time)) /\ list # None /\ list \in Seq(Nat)
    /\ no \in 0 .. Len(list)
    /\ \A j \in 1 .. no : list[j] \in DOMAIN Areas

NotYetInv ==
  pc = "area" /\ Day(now) = Day(time) => \A j \in 1 .. no : ~InArea(Areas[list[j]], time)

Inv == TypeInv /\ PassedInv /\ NotYetInv

-----------------------------------------------------------------------------
LEMMA DayIs ==
  ASSUME NEW t \in Nat
  PROVE  /\ Day(t) \in Nat /\ t % DayLen \in TimesOfDay
         /\ t = Day(t) * DayLen + (t % DayLen)
<1>1. DayLen \in Nat \ {0}
  BY TimeAssumption
<1> DEFINE d == t \div DayLen
<1>2. d \in Nat /\ t = DayLen * d + (t % DayLen) /\ t % DayLen \in 0 .. DayLen - 1
  BY <1>1
<1> HIDE DEF d
<1>3. DayLen * d = d * DayLen
  BY <1>1, <1>2
<1> QED
  BY <1>2, <1>3 DEF d, Day, TimesOfDay

\* Days come in order.
LEMMA DaysInOrder ==
  ASSUME NEW s \in Nat, NEW t \in Nat, s <= t
  PROVE  Day(s) <= Day(t)
<1> DEFINE d == Day(s)
           e == Day(t)
<1>1. d \in Nat /\ e \in Nat /\ DayLen \in Nat \ {0}
  BY DayIs, TimeAssumption
<1>2. d * DayLen <= t /\ t < e * DayLen + DayLen
  <2> HIDE DEF d, e
  <2>1. /\ s = d * DayLen + (s % DayLen) /\ s % DayLen \in 0 .. DayLen - 1
        /\ t = e * DayLen + (t % DayLen) /\ t % DayLen \in 0 .. DayLen - 1
    BY DayIs DEF TimesOfDay, d, e
  <2>2. d * DayLen \in Nat /\ e * DayLen \in Nat
    BY <1>1
  <2> QED
    BY <1>1, <2>1, <2>2
<1> HIDE DEF d, e
<1>3. CASE e + 1 <= d
  <2>1. (e + 1) * DayLen <= d * DayLen
    BY <1>1, <1>3
  <2>2. (e + 1) * DayLen = e * DayLen + DayLen
    BY <1>1
  <2> QED
    BY <1>1, <1>2, <2>1, <2>2
<1> QED
  BY <1>1, <1>3 DEF d, e

\* An area put on the date of a clock that has run on from the time of the card
\* holds that time only if the date is still that of the card.
LEMMA HoldsToday ==
  ASSUME TypeInv, NEW area \in [begin : TimesOfDay, end : TimesOfDay]
  PROVE  /\ Holds(area) => Day(now) = Day(time) /\ InArea(area, time)
         /\ Day(now) = Day(time) /\ InArea(area, time) => Holds(area)
<1> DEFINE d == Day(now)
           e == Day(time)
           r == time % DayLen
<1>1. d \in Nat /\ e \in Nat /\ DayLen \in Nat \ {0} /\ r \in 0 .. DayLen - 1
      /\ time = e * DayLen + r /\ e <= d /\ time \in Nat
  BY DayIs, DaysInOrder, TimeAssumption DEF TypeInv, TimesOfDay
<1>2. area.begin \in Nat /\ area.end \in Nat
  BY DEF TimesOfDay
<1>3. Holds(area) <=> d * DayLen + area.begin <= time /\ time <= d * DayLen + area.end
  BY DEF Holds, OnToday
<1>4. InArea(area, time) <=> area.begin <= r /\ r <= area.end
  BY DEF InArea
<1> HIDE DEF d, e, r
<1>5. d * DayLen \in Nat /\ e * DayLen \in Nat
  BY <1>1
<1>6. ASSUME d = e PROVE Holds(area) <=> InArea(area, time)
  <2>1. time = d * DayLen + r
    BY <1>1, <1>6
  <2> QED
    BY <1>1, <1>2, <1>3, <1>4, <1>5, <2>1
<1>7. ASSUME e + 1 <= d PROVE ~Holds(area)
  <2>1. (e + 1) * DayLen <= d * DayLen /\ (e + 1) * DayLen = e * DayLen + DayLen
    BY <1>1, <1>7
  <2>2. time < d * DayLen
    BY <1>1, <1>5, <2>1
  <2> QED
    BY <1>1, <1>2, <1>3, <1>5, <2>2
<1> QED
  BY <1>1, <1>6, <1>7 DEF d, e

\* The plan sub_do_cam reads is the one the files have for the group and the day.
LEMMA PlanIs ==
  ASSUME TypeInv, group \in Groups
  PROVE  /\ Plan = PlanOn(group, Day(time))
         /\ Plan # None => Plan \in Seq(Nat)
<1>1. <<group, Weekday(time)>> \in Dates
  <2>1. Day(time) \in Nat /\ WeekLen \in Nat \ {0}
    BY DayIs, TimeAssumption DEF TypeInv
  <2> QED
    BY <2>1 DEF Dates, Weekdays, Weekday
<1>2. Table \in Tables
  BY DEF Table, TypeInv
<1> QED
  BY <1>1, <1>2, TablesAssumption DEF Plan, PlanOn, Table, IsHoliday, Weekday

-----------------------------------------------------------------------------
LEMMA InvInit == Init => Inv
BY DEF Init, Inv, TypeInv, PassedInv, NotYetInv

LEMMA InvStep == Inv /\ [Next]_vars => Inv'
<1> SUFFICES ASSUME TypeInv, PassedInv, NotYetInv, [Next]_vars PROVE Inv'
  BY DEF Inv
<1>1. CASE Tick
  <2>1. TypeInv'
    BY <1>1 DEF Tick, TypeInv
  <2>2. now \in Nat /\ now' = now + 1 /\ UNCHANGED <<files, pc, time, group, list, no, rel>>
    BY <1>1 DEF Tick, TypeInv
  <2>3. PassedInv'
    BY <2>2 DEF PassedInv, PlanOn, Day
  <2>4. Day(now') = Day(time) => Day(now) = Day(time)
    <3>1. Day(time) <= Day(now) /\ Day(now) <= Day(now')
      BY <2>2, DaysInOrder DEF TypeInv
    <3>2. Day(time) \in Nat /\ Day(now) \in Nat
      BY DayIs DEF TypeInv
    <3> QED
      BY <3>1, <3>2
  <2>5. NotYetInv'
    BY <2>2, <2>4 DEF NotYetInv, InArea, Day
  <2> QED
    BY <2>1, <2>3, <2>5 DEF Inv
<1>2. CASE Begin
  <2>1. (pc' = "group" /\ rel' = "none") \/ pc' = "done"
    BY <1>2, Zenon DEF Begin, Returns
  <2>2. time' = now /\ now' = now /\ files' = files
    BY <1>2 DEF Begin
  <2> QED
    BY <2>1, <2>2 DEF Inv, TypeInv, PassedInv, NotYetInv
<1>3. CASE FindGroup
  BY <1>3 DEF FindGroup, Returns, Inv, TypeInv, PassedInv, NotYetInv
<1>4. CASE ReadPlan
  <2>1. TypeInv'
    BY <1>4 DEF ReadPlan, Returns, TypeInv
  <2>2. group \in Groups /\ list' = Plan /\ no' = 0 /\ UNCHANGED <<files, now, time, group>>
        /\ (pc' = "area" => Plan # None)
    BY <1>4 DEF ReadPlan, Returns, TypeInv, FirstNo
  <2>3. Plan = PlanOn(group, Day(time)) /\ (Plan # None => Plan \in Seq(Nat))
    BY <2>2, PlanIs
  <2>4. PlanOn(group, Day(time))' = PlanOn(group, Day(time))
    BY <2>2 DEF PlanOn, Day
  <2>5. PassedInv'
    BY <2>2, <2>3, <2>4 DEF PassedInv
  <2>6. NotYetInv'
    BY <2>2 DEF NotYetInv
  <2> QED
    BY <2>1, <2>5, <2>6 DEF Inv
<1>5. CASE TryArea
  <2>1. TypeInv'
    BY <1>5 DEF TryArea, Returns, TypeInv
  <2>2. /\ pc = "area" /\ AreaNo \in DOMAIN Areas /\ UNCHANGED <<files, now, time, group, list>>
        /\ pc' = "area" => no' = no + 1 /\ ~Holds(Areas[AreaNo])
    BY <1>5 DEF TryArea, Returns
  <2>3. no \in 0 .. Len(list) /\ list \in Seq(Nat) /\ -1 \notin DOMAIN Areas
    BY <2>2, AreasAssumption DEF PassedInv
  <2>4. no < Len(list) /\ AreaNo = list[no + 1] /\ no + 1 \in 0 .. Len(list)
    BY <2>2, <2>3 DEF AreaNo
  <2>5. \A j \in 1 .. no + 1 : j \in 1 .. no \/ j = no + 1
    BY <2>3
  <2>6. PassedInv'
    BY <2>2, <2>4, <2>5 DEF PassedInv, PlanOn, Day
  <2>7. NotYetInv'
    <3>1. Areas[AreaNo] \in [begin : TimesOfDay, end : TimesOfDay]
      BY <2>2, AreasAssumption
    <3>2. pc' = "area" /\ Day(now) = Day(time) => ~InArea(Areas[list[no + 1]], time)
      BY <2>2, <2>4, <3>1, HoldsToday
    <3> QED
      BY <2>2, <2>5, <3>2 DEF NotYetInv, InArea, Day
  <2> QED
    BY <2>1, <2>6, <2>7 DEF Inv
<1>6. CASE NoMoreAreas
  BY <1>6 DEF NoMoreAreas, Returns, Inv, TypeInv, PassedInv, NotYetInv
<1>7. CASE UNCHANGED vars
  BY <1>7 DEF vars, Inv, TypeInv, PassedInv, NotYetInv, PlanOn, InArea, Day
<1> QED
  BY <1>1, <1>2, <1>3, <1>4, <1>5, <1>6, <1>7 DEF Next

LEMMA Invariance == Spec => []Inv
BY InvInit, InvStep, PTL DEF Spec

\* The parts of TypeOK that are not in Inv.
RestOfType ==
  /\ now <= MaxTime
  /\ group \in Groups \cup {None}
  /\ list # None => list \in Seq(Nat) /\ no \in 0 .. Len(list)

ResultInv == rel \in Results

\* Type correctness; in particular the loop over the plan stays inside it.
THEOREM TypeCorrect == Spec => []TypeOK
<1>1. Init => RestOfType
  BY DEF Init, RestOfType
<1>2. Inv /\ RestOfType /\ [Next]_vars => RestOfType'
  <2> SUFFICES ASSUME Inv, RestOfType, [Next]_vars PROVE RestOfType'
    OBVIOUS
  <2>a. TypeInv /\ PassedInv
    BY DEF Inv
  <2>1. CASE Tick
    BY <2>1, <2>a, TimeAssumption DEF Tick, RestOfType, TypeInv
  <2>2. CASE Begin
    BY <2>2 DEF Begin, RestOfType
  <2>3. CASE FindGroup
    BY <2>3 DEF FindGroup, RestOfType
  <2>4. CASE ReadPlan
    <3>1. list' = Plan /\ no' = 0 /\ UNCHANGED <<now, group>> /\ group \in Groups
      BY <2>4, <2>a DEF ReadPlan, FirstNo, TypeInv
    <3>2. Plan # None => Plan \in Seq(Nat)
      BY <2>a, <3>1, PlanIs
    <3> QED
      BY <3>1, <3>2 DEF RestOfType
  <2>5. CASE TryArea
    <3>1. pc = "area" /\ AreaNo \in DOMAIN Areas /\ UNCHANGED <<now, group, list>>
          /\ no' \in {no, no + 1}
      BY <2>5 DEF TryArea
    <3>2. list \in Seq(Nat) /\ no \in 0 .. Len(list)
      BY <2>a, <3>1 DEF PassedInv
    <3>3. no < Len(list)
      BY <3>1, <3>2, AreasAssumption DEF AreaNo
    <3> QED
      BY <3>1, <3>2, <3>3 DEF RestOfType
  <2>6. CASE NoMoreAreas \/ UNCHANGED vars
    BY <2>6 DEF NoMoreAreas, vars, RestOfType
  <2> QED
    BY <2>1, <2>2, <2>3, <2>4, <2>5, <2>6 DEF Next
<1>3. Init => ResultInv
  BY DEF Init, ResultInv, Results
<1>4. ResultInv /\ [Next]_vars => ResultInv'
  BY Zenon DEF Next, Tick, Begin, FindGroup, ReadPlan, TryArea, NoMoreAreas, Returns, vars,
               ResultInv, Results
<1>5. Inv /\ RestOfType /\ ResultInv => TypeOK
  BY TimeAssumption DEF Inv, TypeInv, RestOfType, ResultInv, TypeOK
<1> QED
  BY <1>1, <1>2, <1>3, <1>4, <1>5, Invariance, PTL DEF Spec
-----------------------------------------------------------------------------
\* What the files list for a card does not change while it is judged.
LEMMA ListedStays ==
  ASSUME files' = files, time' = time, group' = group
  PROVE  Listed(group, time)' <=> Listed(group, time)
BY DEF Listed, PlanOn, Day

LEMMA OutsideStep == Inv /\ NeverOutside /\ [Next]_vars => NeverOutside'
<1> SUFFICES ASSUME Inv, NeverOutside, [Next]_vars, rel' = "allowed"
             PROVE  group' \in Groups /\ Listed(group, time)'
  BY DEF NeverOutside
<1>a. TypeInv /\ PassedInv
  BY DEF Inv
<1>1. CASE Tick \/ NoMoreAreas \/ UNCHANGED vars
  <2>1. files' = files /\ time' = time /\ group' = group /\ rel = "allowed"
    BY <1>1 DEF Tick, NoMoreAreas, Returns, vars
  <2> QED
    BY <2>1, ListedStays DEF NeverOutside
<1>2. CASE Begin \/ FindGroup \/ ReadPlan
  <2>1. rel' \in {"none", "no files", "illegal card", "not allowed"} \/ (pc # "done" /\ rel' = rel)
    BY <1>2, Zenon DEF Begin, FindGroup, ReadPlan, Returns
  <2> QED
    BY <1>a, <2>1 DEF TypeInv
<1>3. CASE TryArea
  <2>1. /\ pc = "area" /\ AreaNo \in DOMAIN Areas /\ UNCHANGED <<files, time, group>>
        /\ Holds(Areas[AreaNo])
    BY <1>3, <1>a DEF TryArea, TypeInv
  <2>2. /\ list = PlanOn(group, Day(time)) /\ list # None /\ list \in Seq(Nat)
        /\ no \in 0 .. Len(list) /\ \A j \in 1 .. no : list[j] \in DOMAIN Areas
    BY <1>a, <2>1 DEF PassedInv
  <2>3. no < Len(list) /\ AreaNo = list[no + 1]
    BY <2>1, <2>2, AreasAssumption DEF AreaNo
  <2>4. InArea(Areas[list[no + 1]], time)
    BY <1>a, <2>1, <2>3, HoldsToday, AreasAssumption
  <2>5. no + 1 \in DOMAIN list /\ \A j \in 1 .. no + 1 : list[j] \in DOMAIN Areas
    <3>1. \A j \in 1 .. no + 1 : j \in 1 .. no \/ j = no + 1
      BY <2>2
    <3> QED
      BY <2>1, <2>2, <2>3, <3>1
  <2>6. Listed(group, time)
    BY <2>2, <2>4, <2>5 DEF Listed, InArea
  <2>7. group \in Groups
    BY <1>a, <2>1 DEF TypeInv
  <2> QED
    BY <2>1, <2>6, <2>7, ListedStays
<1> QED
  BY <1>1, <1>2, <1>3 DEF Next

\* Nobody enters but in an area listed for the card's group at the time the card
\* was shown, however the clock runs on while sub_do_cam reads the areas.
THEOREM NobodyEntersOutside == Spec => []NeverOutside
<1>1. Init => NeverOutside
  BY DEF Init, NeverOutside
<1> QED
  BY <1>1, OutsideStep, Invariance, PTL DEF Spec

-----------------------------------------------------------------------------
SameDay == Day(now) = Day(time)
Refused == rel = "not allowed" /\ group \in Groups /\ SameDay

LEMMA RefusedStep == Inv /\ RefusedOnlyOutside /\ [Next]_vars => RefusedOnlyOutside'
<1> SUFFICES ASSUME Inv, RefusedOnlyOutside, [Next]_vars, Refused'
             PROVE  ~Listed(group, time)'
  BY DEF RefusedOnlyOutside, Refused, SameDay
<1>a. TypeInv /\ PassedInv /\ NotYetInv
  BY DEF Inv
<1>1. CASE Tick
  <2>1. files' = files /\ time' = time /\ group' = group /\ now' = now + 1
        /\ now \in Nat /\ time \in Nat /\ time <= now
    BY <1>1, <1>a DEF Tick, TypeInv
  <2>2. Day(time) <= Day(now) /\ Day(now) <= Day(now') /\ Day(time) \in Nat /\ Day(now) \in Nat
    <3>1. now' \in Nat /\ now <= now'
      BY <2>1
    <3>2. Day(time) <= Day(now) /\ Day(time) \in Nat /\ Day(now) \in Nat
      BY <2>1, DaysInOrder, DayIs
    <3>3. Day(now) <= Day(now')
      BY <2>1, <3>1, DaysInOrder
    <3> QED
      BY <3>2, <3>3
  <2>3. Day(now') = Day(time)
    BY <2>1 DEF Refused, SameDay
  <2>4. Day(now) = Day(time)
    BY <2>2, <2>3
  <2>5. group \in Groups
    BY <2>1 DEF Refused
  <2>6. rel = "not allowed"
    BY <1>1, Zenon DEF Tick, Refused
  <2> QED
    BY <2>1, <2>4, <2>5, <2>6, ListedStays, Zenon DEF RefusedOnlyOutside
<1>2. CASE Begin
  <2>1. rel' \in {"none", "no files"}
    BY <1>2, Zenon DEF Begin, Returns
  <2> QED
    BY <2>1 DEF Refused
<1>3. CASE FindGroup
  BY <1>3, <1>a, NoneAssumption DEF FindGroup, Returns, TypeInv, Refused
<1>4. CASE ReadPlan
  <2>1. /\ Plan = None /\ group \in Groups /\ UNCHANGED <<files, time, group>>
    BY <1>4, <1>a DEF ReadPlan, Returns, TypeInv, Refused
  <2>2. PlanOn(group, Day(time)) = None
    BY <1>a, <2>1, PlanIs
  <2>3. ~Listed(group, time)
    BY <2>2 DEF Listed
  <2> QED
    BY <2>1, <2>3, ListedStays
<1>5. CASE TryArea
  BY <1>5, <1>a DEF TryArea, Returns, TypeInv, Refused
<1>6. CASE NoMoreAreas
  <2>1. pc = "area" /\ AreaNo \notin DOMAIN Areas /\ UNCHANGED <<files, time, group, now>>
    BY <1>6 DEF NoMoreAreas
  <2>2. /\ list = PlanOn(group, Day(time)) /\ list \in Seq(Nat) /\ no \in 0 .. Len(list)
        /\ \A j \in 1 .. no : ~InArea(Areas[list[j]], time)
    BY <1>a, <2>1 DEF PassedInv, NotYetInv, Refused, SameDay
  <2>a. list \in Seq(Nat) /\ no \in 0 .. Len(list) /\ Len(list) \in Nat
    BY <2>2
  <2>3. ASSUME NEW k \in DOMAIN list, \A j \in 1 .. k : list[j] \in DOMAIN Areas
        PROVE  ~InArea(Areas[list[k]], time)
    <3>1. k \in 1 .. Len(list)
      BY <2>a
    <3>2. CASE k <= no
      BY <2>2, <2>a, <3>1, <3>2
    <3>3. CASE no < k
      <4>1. no + 1 \in 1 .. k /\ no < Len(list)
        BY <2>a, <3>1, <3>3
      <4>2. AreaNo = list[no + 1]
        BY <4>1 DEF AreaNo
      <4> QED
        BY <2>1, <2>3, <4>1, <4>2
    <3> QED
      BY <2>a, <3>1, <3>2, <3>3
  <2>4. ~Listed(group, time)
    BY <2>2, <2>3 DEF Listed, InArea
  <2> QED
    BY <2>1, <2>4, ListedStays
<1>7. CASE UNCHANGED vars
  BY <1>7, ListedStays DEF vars, RefusedOnlyOutside, Refused, SameDay
<1> QED
  BY <1>1, <1>2, <1>3, <1>4, <1>5, <1>6, <1>7 DEF Next

\* A card that is listed is refused only if midnight has passed while it was
\* judged.
THEOREM NobodyListedIsRefused == Spec => []RefusedOnlyOutside
<1>1. Init => RefusedOnlyOutside
  BY DEF Init, RefusedOnlyOutside
<1> QED
  BY <1>1, RefusedStep, Invariance, PTL DEF Spec

-----------------------------------------------------------------------------
\* The text index.  Lines says of an index x what the searches need of it: it
\* begins with 0, and after that it holds the end of each line of t, in order;
\* of the entry that may follow them it says nothing.
IsText(t) == t \in Seq(Chars \cup {NL})
NLsOf(t) == {i \in 1 .. Len(t) : t[i] = NL}
Lines(t, x, n) ==
  /\ n \in Nat /\ x \in Seq(Nat) /\ Len(x) \in {n + 1, n + 2}
  /\ x[1] = 0
  /\ \A k \in 2 .. n + 1 : x[k] \in NLsOf(t)
  /\ \A i \in NLsOf(t) : \E k \in 2 .. n + 1 : x[k] = i
  /\ \A j, k \in 1 .. n + 1 : j < k => x[j] < x[k]

IndexInv == /\ IsText(text) /\ IsText(made)
            /\ lp # Missing => \E n \in Nat : Lines(made, lp, n)

LEMMA TextConstants ==
  /\ Texts \subseteq Seq(Chars \cup {NL}) /\ Keys \subseteq Seq(Chars) \ {<<>>}
  /\ NL \notin Chars /\ PtrSize \in Nat \ {0}
BY TextsAssumption, KeysAssumption, CharsAssumption, PtrAssumption

LEMMA LeastIs ==
  ASSUME NEW S \in SUBSET Int, NEW m \in S, \A j \in S : m <= j
  PROVE  (CHOOSE i \in S : \A j \in S : i <= j) = m
<1>1. \A i \in S : (\A j \in S : i <= j) => i = m
  BY SMT
<1>2. \E i \in S : \A j \in S : i <= j
  OBVIOUS
<1> QED
  BY <1>1, <1>2

\* Every set of natural numbers with a member has a least one.
LEMMA HasLeast ==
  ASSUME NEW S \in SUBSET Nat, S # {}
  PROVE  \E m \in S : \A j \in S : m <= j
<1>1. IsWellFoundedOn(OpToRel(<, Nat), Nat)
  BY NatLessThanWellFounded
<1>2. PICK m \in S : \A j \in S : ~(<<j, m>> \in OpToRel(<, Nat))
  BY <1>1, WFMin
<1>3. ASSUME NEW j \in S  PROVE m <= j
  <2>1. j \in Nat /\ m \in Nat
    OBVIOUS
  <2>2. ~(<<j, m>> \in OpToRel(<, Nat))
    BY <1>2
  <2>3. ~(j < m)
    BY <2>1, <2>2 DEF OpToRel
  <2> QED
    BY <2>1, <2>3, SMT
<1> QED
  BY <1>3

LEMMA CardinalityIs == \A S : Cardinality(S) = Cardinality(S)
BY DEF Cardinality, Cardinality

\* The k-th NL of a text: EndOf counts the NLs up to it.
Ranked(n) ==
  /\ n \in Nat /\ n = Cardinality(NLs)
  /\ \A k \in 1 .. n : EndOf(k) \in NLs
  /\ \A i \in NLs : \E k \in 1 .. n : EndOf(k) = i
  /\ \A j, k \in 1 .. n : j < k => EndOf(j) < EndOf(k)

LEMMA EndsAreRanked ==
  ASSUME IsText(text)
  PROVE  \E n \in Nat : Ranked(n)
<1> DEFINE N == NLs
           UpTo(i) == {j \in N : j <= i}
           rank == [i \in N |-> Cardinality(UpTo(i))]
<1>1. Len(text) \in Nat
  BY LenProperties DEF IsText
<1>2. N \in SUBSET (1 .. Len(text)) /\ N \in SUBSET Nat
  BY <1>1 DEF NLs
<1>3. IsFiniteSet(N)
  <2>1. IsFiniteSet(1 .. Len(text))
    BY <1>1, FS_Interval
  <2> QED
    BY <1>2, <2>1, FS_Subset
<1>4. PICK n \in Nat : n = Cardinality(N)
  BY <1>3, FS_CardinalityType
<1> HIDE DEF N
<1>5. ASSUME NEW i \in N, NEW j \in N, i < j
      PROVE  rank[i] < rank[j]
  <2>1. UpTo(i) \in SUBSET UpTo(j) /\ j \in UpTo(j) /\ j \notin UpTo(i) /\ UpTo(j) \in SUBSET N
    <3>1. i \in Nat /\ j \in Nat /\ \A k \in N : k \in Nat
      BY <1>2
    <3>2. \A k \in N : k <= i => k <= j
      BY <1>5, <3>1
    <3>3. j <= j /\ ~(j <= i)
      BY <1>5, <3>1
    <3> QED
      BY <3>2, <3>3
  <2>2. IsFiniteSet(UpTo(j))
    BY <1>3, <2>1, FS_Subset
  <2>3. IsFiniteSet(UpTo(i)) /\ Cardinality(UpTo(i)) <= Cardinality(UpTo(j))
        /\ Cardinality(UpTo(j)) # Cardinality(UpTo(i))
    BY <2>1, <2>2, FS_Subset
  <2>4. Cardinality(UpTo(i)) \in Nat /\ Cardinality(UpTo(j)) \in Nat
    BY <2>2, <2>3, FS_CardinalityType
  <2> QED
    BY <2>3, <2>4
<1>6. ASSUME NEW i \in N  PROVE rank[i] \in 1 .. n
  <2>1. UpTo(i) \in SUBSET N /\ i \in UpTo(i)
    BY <1>2
  <2>2. IsFiniteSet(UpTo(i)) /\ Cardinality(UpTo(i)) <= n
    BY <1>3, <1>4, <2>1, FS_Subset
  <2>3. Cardinality(UpTo(i)) \in Nat /\ Cardinality(UpTo(i)) # 0
    BY <2>1, <2>2, FS_CardinalityType, FS_EmptySet
  <2> QED
    BY <2>2, <2>3
<1>7. rank \in [N -> 1 .. n]
  BY <1>6
<1>8. \A i, j \in N : rank[i] = rank[j] => i = j
  <2> SUFFICES ASSUME NEW i \in N, NEW j \in N, i # j  PROVE rank[i] # rank[j]
    OBVIOUS
  <2>1. i \in Nat /\ j \in Nat /\ rank[i] \in 1 .. n /\ rank[j] \in 1 .. n
    BY <1>2, <1>6
  <2>2. i < j \/ j < i
    BY <2>1
  <2> QED
    BY <1>5, <2>1, <2>2
<1>9. rank \in Injection(N, 1 .. n)
  BY <1>7, <1>8 DEF Injection, IsInjective
<1>10. IsFiniteSet(1 .. n) /\ Cardinality(1 .. n) = n
  BY FS_Interval
<1>11. rank \in Surjection(N, 1 .. n)
  BY <1>4, <1>9, <1>10, FS_Injection
<1>12. \A k \in 1 .. n : \E i \in N : rank[i] = k
  BY <1>11 DEF Surjection
<1>13. ASSUME NEW k \in 1 .. n
       PROVE  EndOf(k) \in N /\ rank[EndOf(k)] = k
  <2>1. EndOf(k) = CHOOSE i \in N : Cardinality(UpTo(i)) = k
    BY CardinalityIs DEF EndOf, N
  <2>2. \E i \in N : Cardinality(UpTo(i)) = k
    BY <1>12
  <2> QED
    BY <2>1, <2>2
<1> HIDE DEF rank
<1>14. ASSUME NEW i \in N  PROVE \E k \in 1 .. n : EndOf(k) = i
  BY <1>6, <1>8, <1>13
<1>15. ASSUME NEW j \in 1 .. n, NEW k \in 1 .. n, j < k
       PROVE  EndOf(j) < EndOf(k)
  <2> DEFINE a == EndOf(j)
             b == EndOf(k)
  <2>1. a \in N /\ b \in N /\ rank[a] = j /\ rank[b] = k /\ a \in Nat /\ b \in Nat
    BY <1>2, <1>13
  <2> HIDE DEF a, b
  <2>2. ~(b < a) /\ a # b
    <3>1. ~(k < j) /\ k # j
      BY <1>15
    <3> QED
      BY <1>5, <2>1, <3>1
  <2>3. a < b
    BY <2>1, <2>2
  <2> QED
    BY <2>3 DEF a, b
<1> QED
  BY <1>4, <1>13, <1>14, <1>15 DEF Ranked, N

\* What txt_file_create_line_pointer writes is the lines of the text.
LEMMA IndexIsLines ==
  ASSUME IsText(text), NEW extra \in BOOLEAN
  PROVE  \E n \in Nat : Lines(text, Index(extra), n)
<1>1. PICK n \in Nat : Ranked(n)
  BY EndsAreRanked
<1> DEFINE E == Ends
           A == <<0>> \o E
           more == IF extra THEN <<Len(text) + 1>> ELSE <<>>
           x == Index(extra)
<1>2. Len(text) \in Nat /\ NLs = NLsOf(text)
  BY LenProperties DEF IsText, NLs, NLsOf
<1>3. E = [k \in 1 .. n |-> EndOf(k)]
  BY <1>1, CardinalityIs DEF Ranked, Ends
<1>4. \A k \in 1 .. n : EndOf(k) \in NLsOf(text) /\ EndOf(k) \in Nat
  BY <1>1, <1>2 DEF Ranked, NLsOf
<1>5. E \in Seq(Nat) /\ Len(E) = n /\ \A k \in 1 .. n : E[k] = EndOf(k)
  BY <1>3, <1>4, IsASeq
<1>6. <<0>> \in Seq(Nat) /\ Len(<<0>>) = 1 /\ <<0>>[1] = 0
  OBVIOUS
<1>7. more \in Seq(Nat) /\ Len(more) \in {0, 1}
  BY <1>2
<1>8. x = A \o more
  BY DEF Index
<1> HIDE DEF E, more
<1>9. A \in Seq(Nat) /\ Len(A) = 1 + n
      /\ \A i \in 1 .. 1 + n : A[i] = IF i <= 1 THEN <<0>>[i] ELSE E[i - 1]
  BY <1>5, <1>6, ConcatProperties
<1> HIDE DEF A
<1>10. x \in Seq(Nat) /\ Len(x) = 1 + n + Len(more)
       /\ \A i \in 1 .. 1 + n + Len(more) : x[i] = IF i <= 1 + n THEN A[i] ELSE more[i - (1 + n)]
  <2>1. /\ A \o more \in Seq(Nat) /\ Len(A \o more) = Len(A) + Len(more)
        /\ \A i \in 1 .. Len(A) + Len(more) :
             (A \o more)[i] = IF i <= Len(A) THEN A[i] ELSE more[i - Len(A)]
    BY <1>7, <1>9, ConcatProperties
  <2> QED
    BY <1>8, <1>9, <2>1
<1> HIDE DEF x
<1>11. Len(x) \in {n + 1, n + 2}
  <2>1. CASE Len(more) = 0
    BY <1>10, <2>1
  <2>2. CASE Len(more) = 1
    BY <1>10, <2>2
  <2> QED
    BY <1>7, <2>1, <2>2
<1>12. \A i \in 1 .. n + 1 : x[i] = A[i]
  BY <1>7, <1>10
<1>13. x[1] = 0
  BY <1>6, <1>9, <1>12
<1>14. \A k \in 2 .. n + 1 : k - 1 \in 1 .. n /\ x[k] = EndOf(k - 1)
  BY <1>5, <1>9, <1>12
<1>15. \A k \in 2 .. n + 1 : x[k] \in NLsOf(text)
  BY <1>4, <1>14
<1>16. ASSUME NEW i \in NLsOf(text)  PROVE \E k \in 2 .. n + 1 : x[k] = i
  <2>1. PICK k \in 1 .. n : EndOf(k) = i
    BY <1>1, <1>2 DEF Ranked
  <2>2. k + 1 \in 2 .. n + 1 /\ (k + 1) - 1 = k
    BY <2>1
  <2> QED
    BY <1>14, <2>1, <2>2
<1>17. ASSUME NEW j \in 1 .. n + 1, NEW k \in 1 .. n + 1, j < k
       PROVE  x[j] < x[k]
  <2>1. k \in 2 .. n + 1 /\ x[k] \in 1 .. Len(text)
    BY <1>15, <1>17 DEF NLsOf
  <2>2. CASE j = 1
    BY <1>2, <1>13, <2>1, <2>2
  <2>3. CASE j # 1
    <3>1. j \in 2 .. n + 1 /\ j - 1 < k - 1
      BY <1>17, <2>3
    <3> QED
      BY <1>1, <1>14, <2>1, <3>1 DEF Ranked
  <2> QED
    BY <2>2, <2>3
<1> QED
  BY <1>10, <1>11, <1>13, <1>15, <1>16, <1>17 DEF Lines, x

-----------------------------------------------------------------------------
\* What one reading of a line finds.  t is the text the index was made from, and
\* what the file begins with.
OfText(t, n) ==
  /\ IsText(text) /\ IsText(t) /\ NL \notin Chars
  /\ WellFormed(t) /\ IsPrefix(t, text) /\ Lines(t, lp, n)

\* The same, spelled out: the shape of t, and where its lines begin and end.
Spelled(t, n) ==
  /\ Len(t) \in Nat \ {0} /\ Len(text) \in Nat /\ Len(t) <= Len(text)
  /\ \A i \in 1 .. Len(t) : text[i] = t[i]
  /\ n \in Nat \ {0} /\ lp[1] = 0 /\ lp[n + 1] = Len(t)
  /\ Len(lp) \in Nat /\ n < Len(lp)
  /\ \A k \in 1 .. n + 1 : lp[k] \in 0 .. Len(t)
  /\ \A k \in 2 .. n + 1 : lp[k] # 0 /\ t[lp[k]] = NL
  /\ \A i \in 1 .. Len(t) : t[i] = NL => \E k \in 2 .. n + 1 : lp[k] = i
  /\ \A j, k \in 1 .. n + 1 : j < k => lp[j] < lp[k]
  /\ \A k \in 1 .. n : lp[k] + 1 < lp[k + 1]

LEMMA PrefixIs ==
  ASSUME NEW S, NEW s \in Seq(S), NEW t \in Seq(S)
  PROVE  IsPrefix(s, t) <=> Len(s) <= Len(t) /\ \A i \in 1 .. Len(s) : s[i] = t[i]
<1>1. Len(s) \in Nat /\ Len(t) \in Nat
  BY LenProperties
<1>2. CASE ~(Len(s) <= Len(t))
  BY <1>2 DEF IsPrefix
<1>3. CASE Len(s) <= Len(t)
  <2> DEFINE a == SubSeq(s, 1, Len(s))
             b == SubSeq(t, 1, Len(s))
  <2>1. \A i \in 1 .. Len(s) : s[i] \in S /\ t[i] \in S
    BY <1>1, <1>3, ElementOfSeq
  <2>2. a = s
    BY SubSeqFull
  <2>3. b \in Seq(S) /\ Len(b) = Len(s) /\ \A i \in 1 .. Len(s) : b[i] = t[i]
    <3>1. /\ b \in Seq(S)
          /\ Len(b) = IF 1 <= Len(s) THEN Len(s) - 1 + 1 ELSE 0
          /\ \A i \in 1 .. Len(s) - 1 + 1 : b[i] = t[1 + i - 1]
      BY <1>1, <2>1, SubSeqProperties
    <3> HIDE DEF b
    <3>2. Len(b) = Len(s)
      BY <1>1, <3>1
    <3>3. ASSUME NEW i \in 1 .. Len(s)  PROVE b[i] = t[i]
      <4>1. i \in 1 .. Len(s) - 1 + 1 /\ 1 + i - 1 = i
        BY <1>1
      <4> QED
        BY <3>1, <4>1
    <3> QED
      BY <3>1, <3>2, <3>3
  <2>4. IsPrefix(s, t) <=> s = b
    BY <1>3, <2>2 DEF IsPrefix
  <2> HIDE DEF a, b
  <2>5. s = b <=> \A i \in 1 .. Len(s) : s[i] = b[i]
    BY <2>3, SeqEqual
  <2> QED
    BY <1>3, <2>3, <2>4, <2>5
<1> QED
  BY <1>2, <1>3

\* A piece of a text is the key if it has its characters.
LEMMA PieceIs ==
  ASSUME NEW S, NEW s \in Seq(S), NEW key \in Seq(S), NEW a \in Nat,
         a + Len(key) <= Len(s)
  PROVE  SubSeq(s, a + 1, a + Len(key)) = key <=> \A i \in 1 .. Len(key) : s[a + i] = key[i]
<1> DEFINE b == SubSeq(s, a + 1, a + Len(key))
<1>1. Len(s) \in Nat /\ Len(key) \in Nat
  BY LenProperties
<1>2. \A i \in a + 1 .. a + Len(key) : s[i] \in S
  BY <1>1, ElementOfSeq
<1>3. /\ b \in Seq(S)
      /\ Len(b) = IF a + 1 <= a + Len(key) THEN a + Len(key) - (a + 1) + 1 ELSE 0
      /\ \A i \in 1 .. a + Len(key) - (a + 1) + 1 : b[i] = s[a + 1 + i - 1]
  BY <1>1, <1>2, SubSeqProperties
<1> HIDE DEF b
<1>4. Len(b) = Len(key)
  BY <1>1, <1>3
<1>5. ASSUME NEW i \in 1 .. Len(key)  PROVE b[i] = s[a + i]
  <2>1. i \in 1 .. a + Len(key) - (a + 1) + 1 /\ a + 1 + i - 1 = a + i
    BY <1>1
  <2> QED
    BY <1>3, <2>1
<1>6. b = key <=> \A i \in 1 .. Len(key) : b[i] = key[i]
  BY <1>3, <1>4, SeqEqual
<1> QED
  BY <1>5, <1>6 DEF b

LEMMA OfTextSpelled ==
  ASSUME NEW t, NEW n, OfText(t, n)
  PROVE  Spelled(t, n)
<1>1. IsText(text) /\ IsText(t) /\ WellFormed(t) /\ IsPrefix(t, text) /\ Lines(t, lp, n)
  BY DEF OfText
<1>2. Len(t) \in Nat \ {0} /\ Len(text) \in Nat
  BY <1>1, LenProperties, EmptySeq DEF IsText, WellFormed
<1>3. Len(t) <= Len(text) /\ \A i \in 1 .. Len(t) : text[i] = t[i]
  BY <1>1, PrefixIs DEF IsText
<1>4. n \in Nat /\ Len(lp) \in {n + 1, n + 2} /\ lp[1] = 0
  BY <1>1 DEF Lines
<1>5. \A k \in 2 .. n + 1 : lp[k] \in 1 .. Len(t) /\ t[lp[k]] = NL
  BY <1>1 DEF Lines, NLsOf
<1>6. \A i \in 1 .. Len(t) : t[i] = NL => \E k \in 2 .. n + 1 : lp[k] = i
  BY <1>1 DEF Lines, NLsOf
<1>7. \A j, k \in 1 .. n + 1 : j < k => lp[j] < lp[k]
  BY <1>1 DEF Lines
<1>8. t[1] # NL /\ t[Len(t)] = NL /\ \A i \in 1 .. Len(t) - 1 : t[i] = NL => t[i + 1] # NL
  BY <1>1 DEF WellFormed
<1>9. ASSUME NEW k \in 1 .. n + 1  PROVE lp[k] \in 0 .. Len(t)
  <2>1. CASE k = 1
    BY <1>2, <1>4, <2>1
  <2>2. CASE k # 1
    <3>1. k \in 2 .. n + 1
      BY <1>4, <2>2
    <3>2. lp[k] \in 1 .. Len(t)
      BY <1>5, <3>1
    <3> QED
      BY <1>2, <3>2
  <2> QED
    BY <2>1, <2>2
<1>10. n # 0 /\ lp[n + 1] = Len(t)
  <2>1. PICK k \in 2 .. n + 1 : lp[k] = Len(t)
    BY <1>2, <1>6, <1>8
  <2>2. n \in Nat \ {0} /\ k \in 1 .. n + 1 /\ n + 1 \in 1 .. n + 1 /\ n + 1 \in 2 .. n + 1
    BY <1>4, <2>1
  <2>3. CASE k < n + 1
    <3>1. lp[k] < lp[n + 1]
      BY <1>7, <2>2, <2>3
    <3>2. lp[n + 1] \in 1 .. Len(t)
      BY <1>5, <2>2
    <3> QED
      BY <1>2, <2>1, <3>1, <3>2
  <2>4. CASE k = n + 1
    BY <2>1, <2>2, <2>4
  <2> QED
    BY <1>4, <2>2, <2>3, <2>4
<1>11. ASSUME NEW k \in 1 .. n  PROVE lp[k] + 1 < lp[k + 1]
  <2>1. k \in 1 .. n + 1 /\ k + 1 \in 2 .. n + 1 /\ k + 1 \in 1 .. n + 1 /\ k < k + 1
    BY <1>4
  <2>2. lp[k] < lp[k + 1] /\ lp[k] \in 0 .. Len(t) /\ lp[k + 1] \in 1 .. Len(t)
    BY <1>5, <1>7, <1>9, <2>1
  <2>3. t[lp[k + 1]] = NL
    BY <1>5, <2>1
  <2>4. lp[k] + 1 # lp[k + 1]
    <3>1. CASE k = 1
      <4>1. lp[k] + 1 = 1
        BY <1>4, <3>1
      <4> QED
        BY <1>8, <2>3, <4>1
    <3>2. CASE k # 1
      <4>1. k \in 2 .. n + 1
        BY <2>1, <3>2
      <4>2. t[lp[k]] = NL /\ lp[k] \in 1 .. Len(t)
        BY <1>5, <4>1
      <4>3. lp[k] \in 1 .. Len(t) - 1
        BY <1>2, <2>2, <4>2
      <4> QED
        BY <1>8, <2>3, <4>2, <4>3
    <3> QED
      BY <3>1, <3>2
  <2> QED
    BY <1>2, <2>2, <2>4
<1>12. Len(lp) \in Nat /\ n < Len(lp)
  BY <1>4
<1> QED
  BY <1>2, <1>3, <1>4, <1>5, <1>6, <1>7, <1>9, <1>10, <1>11, <1>12 DEF Spelled

\* The k-th reading gives the k-th line, which is not empty; once the lines are
\* all read there is nothing.
LEMMA ReadsLine ==
  ASSUME NEW t, NEW n, Spelled(t, n), NEW k \in 1 .. n
  PROVE  /\ ReadLine(k - 1).rel = lp[k + 1] - lp[k] - 1
         /\ ReadLine(k - 1).line = SubSeq(text, lp[k] + 1, lp[k + 1] - 1)
<1> DEFINE at == lp[k]
           end == lp[k + 1]
           stops == {i \in NLs : at < i} \cup {Len(text) + 1}
<1>1. /\ Len(t) \in Nat \ {0} /\ Len(text) \in Nat /\ Len(t) <= Len(text)
      /\ n \in Nat \ {0} /\ Len(lp) \in Nat /\ n < Len(lp)
  BY DEF Spelled
<1>2. k \in 1 .. n + 1 /\ k + 1 \in 2 .. n + 1 /\ k + 1 \in 1 .. n + 1 /\ k < k + 1 /\ k < Len(lp)
      /\ k - 1 < Len(lp) /\ (k - 1) + 1 = k
  BY <1>1
<1>3. at \in 0 .. Len(t) /\ end \in 0 .. Len(t) /\ end # 0 /\ at < end /\ t[end] = NL
  BY <1>2 DEF Spelled
<1>4. end \in 1 .. Len(t) /\ end \in 1 .. Len(text) /\ at \in Nat /\ at < Len(text)
  BY <1>1, <1>3
<1>5. end \in stops
  <2>1. text[end] = t[end]
    BY <1>4 DEF Spelled
  <2> QED
    BY <1>3, <1>4, <2>1 DEF NLs
<1>6. ASSUME NEW i \in stops  PROVE end <= i
  <2>1. CASE i = Len(text) + 1
    BY <1>1, <1>4, <2>1
  <2>2. CASE i \in NLs /\ at < i
    <3>1. i \in 1 .. Len(text) /\ text[i] = NL
      BY <2>2 DEF NLs
    <3>2. CASE Len(t) < i
      BY <1>1, <1>4, <3>1, <3>2
    <3>3. CASE i <= Len(t)
      <4>1. i \in 1 .. Len(t)
        BY <1>1, <3>1, <3>3
      <4>2. t[i] = NL
        BY <3>1, <4>1 DEF Spelled
      <4>3. PICK m \in 2 .. n + 1 : lp[m] = i
        BY <4>1, <4>2 DEF Spelled
      <4>4. m \in 1 .. n + 1 /\ m \in Nat
        BY <1>1, <4>3
      <4>5. m < k => lp[m] < lp[k]
        BY <1>2, <4>4 DEF Spelled
      <4>6. k + 1 < m => lp[k + 1] < lp[m]
        BY <1>2, <4>4 DEF Spelled
      <4>7. m = k \/ m = k + 1 \/ m < k \/ k + 1 < m
        BY <4>4
      <4>8. at \in Int /\ end \in Int /\ i \in Int
        BY <1>4, <3>1
      <4>9. ~(i < at) /\ i # at
        BY <2>2, <4>8
      <4>10. i = end \/ end < i
        BY <4>3, <4>5, <4>6, <4>7, <4>9
      <4> QED
        BY <4>8, <4>10
    <3> QED
      BY <1>1, <3>1, <3>2, <3>3
  <2> QED
    BY <2>1, <2>2
<1>7. stops \in SUBSET Int
  BY <1>1 DEF NLs
<1>8. (CHOOSE i \in stops : \A j \in stops : i <= j) = end
  <2> HIDE DEF stops, end
  <2> QED
    BY <1>5, <1>6, <1>7, LeastIs
<1>9. ~(at >= Len(text))
  BY <1>1, <1>4
<1>10. LineAt(at) = [rel |-> end - at - 1, line |-> SubSeq(text, at + 1, end - 1)]
  <2>1. LineAt(at) =
          IF at >= Len(text) THEN Nothing
          ELSE LET stop == CHOOSE i \in stops : \A j \in stops : i <= j
               IN [rel |-> stop - at - 1, line |-> SubSeq(text, at + 1, stop - 1)]
    BY DEF LineAt
  <2> HIDE DEF stops, end, at
  <2> QED
    BY <1>8, <1>9, <2>1
<1>11. ReadLine(k - 1) = LineAt(lp[(k - 1) + 1])
  BY <1>2 DEF ReadLine
<1>12. ReadLine(k - 1) = [rel  |-> lp[k + 1] - lp[k] - 1,
                             line |-> SubSeq(text, lp[k] + 1, lp[k + 1] - 1)]
  BY <1>2, <1>10, <1>11
<1> QED
  BY <1>12

LEMMA ReadsNothing ==
  ASSUME NEW t, NEW n, Spelled(t, n), Len(t) = Len(text)
  PROVE  ReadLine(n) = Nothing
<1>1. n \in Nat /\ n < Len(lp) /\ lp[n + 1] = Len(text) /\ Len(text) \in Nat
  BY DEF Spelled
<1>2. Len(text) >= Len(text)
  BY <1>1
<1>3. LineAt(lp[n + 1]) = Nothing
  BY <1>1, <1>2 DEF LineAt
<1> QED
  BY <1>1, <1>3 DEF ReadLine

\* The line begins with key exactly if key starts there: key has no NL.
LEMMA MatchIs ==
  ASSUME NEW t, NEW n, OfText(t, n), Spelled(t, n), NEW k \in 1 .. n,
         NEW key \in Seq(Chars), key # <<>>
  PROVE  IsPrefix(key, SubSeq(text, lp[k] + 1, lp[k + 1] - 1)) <=> lp[k] \in Starts(t, key)
<1> DEFINE at == lp[k]
           end == lp[k + 1]
           S == Chars \cup {NL}
           piece == SubSeq(text, at + 1, end - 1)
<1>1. /\ Len(t) \in Nat \ {0} /\ Len(text) \in Nat /\ Len(t) <= Len(text)
      /\ n \in Nat \ {0} /\ \A i \in 1 .. Len(t) : text[i] = t[i]
  BY DEF Spelled
<1>2. k \in 1 .. n + 1 /\ k + 1 \in 2 .. n + 1 /\ k + 1 \in 1 .. n + 1
  BY <1>1
<1>3. at \in 0 .. Len(t) /\ end \in 0 .. Len(t) /\ end # 0 /\ at + 1 < end /\ t[end] = NL
  BY <1>2 DEF Spelled
<1>4. at \in Nat /\ end \in 1 .. Len(t) /\ end \in Nat /\ at < end
  BY <1>1, <1>3
<1>5. at = 0 \/ t[at] = NL
  <2>1. k = 1 \/ k \in 2 .. n + 1
    BY <1>1, <1>2
  <2> QED
    BY <2>1 DEF Spelled
<1>6. /\ t \in Seq(S) /\ text \in Seq(S) /\ key \in Seq(S)
      /\ Len(key) \in Nat \ {0} /\ \A i \in 1 .. Len(key) : key[i] # NL
  <2>1. t \in Seq(S) /\ text \in Seq(S) /\ NL \notin Chars
    BY DEF OfText, IsText
  <2>2. Len(key) \in Nat \ {0}
    BY EmptySeq
  <2>3. \A i \in 1 .. Len(key) : key[i] \in Chars
    BY ElementOfSeq
  <2>4. key \in Seq(S)
    BY SeqMonotonic
  <2> QED
    BY <2>1, <2>2, <2>3, <2>4
<1>7. /\ piece \in Seq(S) /\ Len(piece) = end - at - 1
      /\ \A i \in 1 .. Len(piece) : piece[i] = t[at + i]
  <2>1. \A i \in at + 1 .. end - 1 : i \in 1 .. Len(t) /\ i \in 1 .. Len(text)
    BY <1>1, <1>3, <1>4
  <2>2. \A i \in at + 1 .. end - 1 : text[i] \in S
    BY <1>6, <2>1, ElementOfSeq
  <2>3. at + 1 \in Int /\ end - 1 \in Int
    BY <1>4
  <2>4. /\ piece \in Seq(S)
        /\ Len(piece) = IF at + 1 <= end - 1 THEN end - 1 - (at + 1) + 1 ELSE 0
        /\ \A i \in 1 .. end - 1 - (at + 1) + 1 : piece[i] = text[at + 1 + i - 1]
    <3> HIDE DEF S, at, end
    <3> QED
      BY <2>2, <2>3, SubSeqProperties
  <2> HIDE DEF piece, at, end
  <2>5. Len(piece) = end - at - 1
    BY <1>3, <1>4, <2>4
  <2>6. ASSUME NEW i \in 1 .. Len(piece)  PROVE piece[i] = t[at + i]
    <3>1. i \in 1 .. end - 1 - (at + 1) + 1 /\ at + 1 + i - 1 = at + i /\ at + i \in at + 1 .. end - 1
      BY <1>4, <2>5
    <3> QED
      BY <1>1, <2>1, <2>4, <3>1
  <2> QED
    BY <2>4, <2>5, <2>6
<1>8. IsPrefix(key, piece)
        <=> Len(key) <= Len(piece) /\ \A i \in 1 .. Len(key) : key[i] = piece[i]
  <2>1. key \in Seq(S) /\ piece \in Seq(S)
    BY <1>6, <1>7
  <2> HIDE DEF piece, S, at, end
  <2> QED
    BY <2>1, PrefixIs
<1>9. at \in Starts(t, key)
        <=> at + Len(key) <= Len(t) /\ SubSeq(t, at + 1, at + Len(key)) = key
  <2> HIDE DEF at
  <2>1. at \in 0 .. Len(t) - Len(key) <=> at + Len(key) <= Len(t)
    BY <1>1, <1>4, <1>6
  <2> QED
    BY <1>5, <2>1 DEF Starts
<1>10. at + Len(key) <= Len(t) =>
         (SubSeq(t, at + 1, at + Len(key)) = key <=> \A i \in 1 .. Len(key) : t[at + i] = key[i])
  <2> HIDE DEF at, S
  <2> QED
    BY <1>4, <1>6, PieceIs
<1>11. ASSUME IsPrefix(key, piece)  PROVE at \in Starts(t, key)
  <2>1. Len(key) <= Len(piece) /\ \A i \in 1 .. Len(key) : key[i] = piece[i]
    BY <1>8, <1>11
  <2> HIDE DEF piece, at, end
  <2>2. at + Len(key) <= Len(t)
    BY <1>1, <1>4, <1>6, <1>7, <2>1
  <2>3. \A i \in 1 .. Len(key) : i \in 1 .. Len(piece)
    BY <1>4, <1>6, <1>7, <2>1
  <2>4. \A i \in 1 .. Len(key) : t[at + i] = key[i]
    BY <1>7, <2>1, <2>3
  <2> QED
    BY <1>9, <1>10, <2>2, <2>4
<1>12. ASSUME at \in Starts(t, key)  PROVE IsPrefix(key, piece)
  <2>1. at + Len(key) <= Len(t) /\ \A i \in 1 .. Len(key) : t[at + i] = key[i]
    BY <1>9, <1>10, <1>12
  <2> HIDE DEF piece, at, end
  <2>2. Len(key) <= end - at - 1
    <3> SUFFICES ASSUME ~(Len(key) <= end - at - 1)  PROVE FALSE
      OBVIOUS
    <3>1. end - at \in 1 .. Len(key) /\ at + (end - at) = end
      BY <1>4, <1>6
    <3>2. t[at + (end - at)] = key[end - at] /\ key[end - at] # NL
      BY <1>6, <2>1, <3>1
    <3> QED
      BY <1>3, <3>1, <3>2 DEF end
  <2>3. Len(key) <= Len(piece)
    BY <1>7, <2>2
  <2>4. \A i \in 1 .. Len(key) : i \in 1 .. Len(piece)
    BY <1>4, <1>6, <1>7, <2>3
  <2>5. \A i \in 1 .. Len(key) : key[i] = piece[i]
    BY <1>7, <2>1, <2>4
  <2> QED
    BY <1>8, <2>3, <2>5
<1> QED
  BY <1>11, <1>12

\* Nothing starts but where a line begins.
LEMMA StartsAtALine ==
  ASSUME NEW t, NEW n, Spelled(t, n), NEW key, Len(key) \in Nat \ {0},
         NEW s \in Starts(t, key)
  PROVE  \E k \in 1 .. n : lp[k] = s
<1>1. s \in 0 .. Len(t) - Len(key) /\ (s = 0 \/ t[s] = NL)
  BY DEF Starts
<1>2. Len(t) \in Nat \ {0} /\ n \in Nat \ {0} /\ lp[1] = 0 /\ lp[n + 1] = Len(t)
  BY DEF Spelled
<1>3. CASE s = 0
  <2>1. 1 \in 1 .. n
    BY <1>2
  <2> QED
    BY <1>2, <1>3, <2>1
<1>4. CASE s # 0
  <2>1. s \in 1 .. Len(t) /\ s < Len(t) /\ t[s] = NL
    BY <1>1, <1>2, <1>4
  <2>2. PICK k \in 2 .. n + 1 : lp[k] = s
    BY <2>1 DEF Spelled
  <2>3. k # n + 1
    BY <1>2, <2>1, <2>2
  <2>4. k \in 1 .. n
    BY <1>2, <2>3
  <2> QED
    BY <2>2, <2>4
<1> QED
  BY <1>3, <1>4

\* Where the search stops: with the reading that is the first either to give
\* nothing or to begin with key.
LEMMA SearchStops ==
  ASSUME NEW key, NEW m \in Nat, m <= Len(lp) + 1, Len(lp) \in Nat,
         ReadLine(m).rel <= 0 \/ IsPrefix(key, ReadLine(m).line),
         \A i \in 0 .. m - 1 : /\ ~(ReadLine(i).rel <= 0)
                               /\ ~IsPrefix(key, ReadLine(i).line)
  PROVE  Stop(key) = m
<1> DEFINE S == Stops(key)
<1>1. m \in S
  BY DEF Stops
<1>2. S \in SUBSET Int
  BY DEF Stops
<1>3. ASSUME NEW j \in S  PROVE m <= j
  <2>1. j \in Nat /\ (ReadLine(j).rel <= 0 \/ IsPrefix(key, ReadLine(j).line))
    BY DEF Stops
  <2>2. ~(j \in 0 .. m - 1)
    BY <2>1
  <2> QED
    BY <2>1, <2>2
<1> HIDE DEF S
<1>4. (CHOOSE i \in S : \A j \in S : i <= j) = m
  BY <1>1, <1>2, <1>3, LeastIs
<1> QED
  BY <1>4 DEF Stop, S

\* A key that t has is found: the first line of t that begins with it.
LEMMA KeyIsFound ==
  ASSUME NEW t, NEW n, OfText(t, n), NEW key \in Seq(Chars), key # <<>>,
         Starts(t, key) # {}
  PROVE  SearchLine(key) = FirstLine(t, key)
<1> DEFINE A == Starts(t, key)
           C == Chars \cup {NL}
<1>1. Spelled(t, n)
  BY OfTextSpelled
<1>2. /\ Len(t) \in Nat \ {0} /\ Len(text) \in Nat /\ Len(t) <= Len(text)
      /\ n \in Nat \ {0} /\ Len(lp) \in Nat /\ n < Len(lp)
      /\ \A i \in 1 .. Len(t) : text[i] = t[i]
  BY <1>1 DEF Spelled
<1>3. Len(key) \in Nat \ {0}
  BY EmptySeq
<1>4. A \in SUBSET Nat
  BY DEF Starts
<1>5. PICK s \in A : \A j \in A : s <= j
  BY <1>4, HasLeast
<1>a. s \in Nat
  BY <1>4, <1>5
<1>6. PICK k \in 1 .. n : lp[k] = s
  BY <1>1, <1>3, StartsAtALine
<1>7. \A i \in 1 .. n :
        /\ ReadLine(i - 1).rel = lp[i + 1] - lp[i] - 1
        /\ ReadLine(i - 1).line = SubSeq(text, lp[i] + 1, lp[i + 1] - 1)
        /\ lp[i] \in 0 .. Len(t) /\ lp[i + 1] \in 0 .. Len(t) /\ lp[i] + 1 < lp[i + 1]
        /\ t[lp[i + 1]] = NL
  <2> SUFFICES ASSUME NEW i \in 1 .. n
               PROVE  /\ lp[i] \in 0 .. Len(t) /\ lp[i + 1] \in 0 .. Len(t)
                      /\ lp[i] + 1 < lp[i + 1] /\ t[lp[i + 1]] = NL
    BY <1>1, ReadsLine
  <2>1. i \in 1 .. n + 1 /\ i + 1 \in 1 .. n + 1 /\ i + 1 \in 2 .. n + 1
    BY <1>2
  <2> QED
    BY <1>1, <2>1 DEF Spelled
<1>8. \A i \in 1 .. n : ~(ReadLine(i - 1).rel <= 0)
  <2> SUFFICES ASSUME NEW i \in 1 .. n  PROVE ~(ReadLine(i - 1).rel <= 0)
    OBVIOUS
  <2>1. ReadLine(i - 1).rel = lp[i + 1] - lp[i] - 1
    BY <1>7
  <2>2. lp[i] \in 0 .. Len(t) /\ lp[i + 1] \in 0 .. Len(t) /\ lp[i] + 1 < lp[i + 1]
    BY <1>7
  <2> QED
    BY <1>2, <2>1, <2>2
<1>9. \A i \in 1 .. n : IsPrefix(key, ReadLine(i - 1).line) <=> lp[i] \in A
  <2> SUFFICES ASSUME NEW i \in 1 .. n
               PROVE  IsPrefix(key, ReadLine(i - 1).line) <=> lp[i] \in A
    OBVIOUS
  <2>1. ReadLine(i - 1).line = SubSeq(text, lp[i] + 1, lp[i + 1] - 1)
    BY <1>7
  <2>2. IsPrefix(key, SubSeq(text, lp[i] + 1, lp[i + 1] - 1)) <=> lp[i] \in A
    BY <1>1, MatchIs
  <2> QED
    BY <2>1, <2>2
<1> HIDE DEF A
<1>10. \A i \in 0 .. k - 2 : lp[i + 1] \notin A
  <2> SUFFICES ASSUME NEW i \in 0 .. k - 2, lp[i + 1] \in A  PROVE FALSE
    OBVIOUS
  <2>1. i + 1 \in 1 .. n + 1 /\ k \in 1 .. n + 1 /\ i + 1 < k
    BY <1>2
  <2>2. lp[i + 1] < lp[k]
    BY <1>1, <2>1 DEF Spelled
  <2>3. s <= lp[i + 1] /\ lp[i + 1] \in Nat /\ s \in Nat
    BY <1>4, <1>5
  <2> QED
    BY <1>6, <2>2, <2>3
<1>11. Stop(key) = k - 1
  <2>1. k - 1 \in Nat /\ k - 1 <= Len(lp) + 1
    BY <1>2
  <2>2. IsPrefix(key, ReadLine(k - 1).line)
    BY <1>5, <1>6, <1>9
  <2>3. ASSUME NEW i \in 0 .. (k - 1) - 1
        PROVE  ~(ReadLine(i).rel <= 0) /\ ~IsPrefix(key, ReadLine(i).line)
    <3>1. i + 1 \in 1 .. n /\ (i + 1) - 1 = i /\ i \in 0 .. k - 2
      BY <1>2
    <3> QED
      BY <1>8, <1>9, <1>10, <3>1
  <2> QED
    BY <1>2, <2>1, <2>2, <2>3, SearchStops
<1>12. SearchLine(key) = SubSeq(text, lp[k] + 1, lp[k + 1] - 1)
  <2>1. ~(ReadLine(k - 1).rel <= 0)
    BY <1>8
  <2>2. ReadLine(k - 1).line = SubSeq(text, lp[k] + 1, lp[k + 1] - 1)
    BY <1>7
  <2> QED
    BY <1>11, <2>1, <2>2 DEF SearchLine
<1>13. PICK e \in Nat : e = lp[k + 1] /\ s + 1 < e /\ e <= Len(t) /\ t[e] = NL
  <2>1. lp[k + 1] \in 0 .. Len(t) /\ lp[k] + 1 < lp[k + 1] /\ t[lp[k + 1]] = NL
    BY <1>7
  <2> QED
    BY <1>2, <1>6, <2>1
<1>14. \A j \in s + 1 .. e - 1 : t[j] # NL
  <2> SUFFICES ASSUME NEW j \in s + 1 .. e - 1, t[j] = NL  PROVE FALSE
    OBVIOUS
  <2>a. Len(t) \in Nat
    BY <1>2
  <2>1. s \in Nat /\ j \in 1 .. Len(t) /\ s < j /\ j < e /\ j \in Nat
    BY <1>a, <1>13, <2>a
  <2>2. PICK m \in 2 .. n + 1 : lp[m] = j
    BY <1>1, <2>1 DEF Spelled
  <2>3. m \in 1 .. n + 1 /\ k \in 1 .. n + 1 /\ k + 1 \in 1 .. n + 1
        /\ (m = k \/ m = k + 1 \/ m < k \/ k + 1 < m)
    BY <1>2
  <2>4. (m < k => lp[m] < lp[k]) /\ (k + 1 < m => lp[k + 1] < lp[m])
    BY <1>1, <2>3 DEF Spelled
  <2>5. j = s \/ j = e \/ j < s \/ e < j
    BY <1>6, <1>13, <2>2, <2>3, <2>4
  <2> QED
    BY <1>13, <2>1, <2>5
<1>15. (CHOOSE i \in A : \A j \in A : i <= j) = s
  BY <1>4, <1>5, LeastIs
<1>16. (CHOOSE i \in s + 1 .. Len(t) : t[i] = NL /\ \A j \in s + 1 .. i - 1 : t[j] # NL) = e
  <2>1. e \in s + 1 .. Len(t) /\ s \in Nat
    BY <1>2, <1>4, <1>13
  <2>2. ASSUME NEW i \in s + 1 .. Len(t), t[i] = NL, \A j \in s + 1 .. i - 1 : t[j] # NL
        PROVE  i = e
    <3>1. ~(i \in s + 1 .. e - 1)
      BY <1>14, <2>2
    <3>2. ~(e \in s + 1 .. i - 1)
      BY <1>13, <2>2
    <3> QED
      BY <1>13, <2>1, <3>1, <3>2
  <2> QED
    BY <1>13, <1>14, <2>1, <2>2
<1>17. FirstLine(t, key) = SubSeq(t, s + 1, e - 1)
  BY <1>5, <1>15, <1>16 DEF FirstLine, A
<1>18. SubSeq(text, s + 1, e - 1) = SubSeq(t, s + 1, e - 1)
  <2>a. Len(t) \in Nat /\ Len(text) \in Nat /\ Len(t) <= Len(text)
    BY <1>2
  <2>1. s \in Nat /\ \A i \in s + 1 .. e - 1 : i \in 1 .. Len(t) /\ i \in 1 .. Len(text)
    BY <1>a, <1>13, <2>a
  <2>2. t \in Seq(C) /\ text \in Seq(C)
    BY DEF OfText, IsText
  <2>3. \A i \in s + 1 .. e - 1 : t[i] \in C /\ text[i] \in C /\ text[i] = t[i]
    BY <1>2, <2>1, <2>2, ElementOfSeq
  <2> DEFINE a == SubSeq(text, s + 1, e - 1)
             b == SubSeq(t, s + 1, e - 1)
  <2>4. s + 1 \in Int /\ e - 1 \in Int
    BY <2>1
  <2>5. /\ a \in Seq(C) /\ Len(a) = IF s + 1 <= e - 1 THEN e - 1 - (s + 1) + 1 ELSE 0
        /\ \A i \in 1 .. e - 1 - (s + 1) + 1 : a[i] = text[s + 1 + i - 1]
    BY <2>3, <2>4, SubSeqProperties
  <2>6. /\ b \in Seq(C) /\ Len(b) = IF s + 1 <= e - 1 THEN e - 1 - (s + 1) + 1 ELSE 0
        /\ \A i \in 1 .. e - 1 - (s + 1) + 1 : b[i] = t[s + 1 + i - 1]
    BY <2>3, <2>4, SubSeqProperties
  <2> HIDE DEF a, b, C
  <2>7. Len(a) = e - 1 - (s + 1) + 1
    BY <1>13, <2>1, <2>5
  <2>8. ASSUME NEW i \in 1 .. Len(a)  PROVE a[i] = b[i]
    <3>1. i \in 1 .. e - 1 - (s + 1) + 1 /\ s + 1 + i - 1 \in s + 1 .. e - 1
      BY <1>a, <1>13, <2>7
    <3>2. a[i] = text[s + 1 + i - 1] /\ b[i] = t[s + 1 + i - 1]
      BY <2>5, <2>6, <3>1
    <3> QED
      BY <2>3, <3>1, <3>2
  <2>9. a = b
    BY <2>5, <2>6, <2>8, SeqEqual
  <2> QED
    BY <2>9 DEF a, b
<1> QED
  BY <1>6, <1>12, <1>13, <1>17, <1>18

\* A key that a text does not have is not found, when the index is of that text.
LEMMA KeyIsNotFound ==
  ASSUME NEW n, OfText(text, n), NEW key \in Seq(Chars), key # <<>>,
         Starts(text, key) = {}
  PROVE  SearchLine(key) = FirstLine(text, key)
<1>1. Spelled(text, n)
  BY OfTextSpelled
<1>2. n \in Nat \ {0} /\ Len(lp) \in Nat /\ n < Len(lp)
  BY <1>1 DEF Spelled
<1>3. ReadLine(n) = Nothing
  BY <1>1, ReadsNothing
<1>4. ReadLine(n).rel <= 0
  BY <1>3 DEF Nothing
<1>5. ASSUME NEW i \in 0 .. n - 1
      PROVE  ~(ReadLine(i).rel <= 0) /\ ~IsPrefix(key, ReadLine(i).line)
  <2> DEFINE k == i + 1
  <2>1. k \in 1 .. n /\ k - 1 = i
    BY <1>2
  <2> HIDE DEF k
  <2>2. /\ ReadLine(k - 1).rel = lp[k + 1] - lp[k] - 1
        /\ ReadLine(k - 1).line = SubSeq(text, lp[k] + 1, lp[k + 1] - 1)
    BY <1>1, <2>1, ReadsLine
  <2>3. ~IsPrefix(key, SubSeq(text, lp[k] + 1, lp[k + 1] - 1))
    BY <1>1, <2>1, MatchIs
  <2>4. k \in 1 .. n + 1 /\ k + 1 \in 1 .. n + 1
    BY <1>2, <2>1
  <2>5. lp[k] \in 0 .. Len(text) /\ lp[k + 1] \in 0 .. Len(text) /\ lp[k] + 1 < lp[k + 1]
        /\ Len(text) \in Nat
    BY <1>1, <2>1, <2>4 DEF Spelled
  <2>6. ~(lp[k + 1] - lp[k] - 1 <= 0)
    BY <2>5
  <2> QED
    BY <2>1, <2>2, <2>3, <2>6
<1>6. Stop(key) = n
  BY <1>2, <1>4, <1>5, SearchStops
<1>7. SearchLine(key) = <<>>
  BY <1>4, <1>6 DEF SearchLine
<1> QED
  BY <1>7 DEF FirstLine

-----------------------------------------------------------------------------
LEMMA IndexStep ==
  IndexInv /\ [TextNext]_(textVars) => IndexInv'
<1> SUFFICES ASSUME IndexInv, [TextNext]_(textVars)  PROVE IndexInv'
  OBVIOUS
<1> DEFINE C == Chars \cup {NL}
<1>1. IsText(text) /\ IsText(made) /\ (lp # Missing => \E n \in Nat : Lines(made, lp, n))
  BY DEF IndexInv
<1>2. CASE MakeIndex
  <2>1. PICK extra \in BOOLEAN : lp' = Index(extra) /\ made' = text /\ text' = text
    BY <1>2 DEF MakeIndex
  <2>2. \E n \in Nat : Lines(text, Index(extra), n)
    <3>1. PICK n : Lines(text, Index(extra), n)
      BY <1>1, IndexIsLines
    <3> QED
      BY <3>1 DEF Lines
  <2> QED
    BY <1>1, <2>1, <2>2 DEF IndexInv, IsText, Lines, NLsOf
<1>3. ASSUME NEW new \in Texts, Upload(new)  PROVE IndexInv'
  <2> DEFINE rest == SubSeq(text, Len(new) + 1, Len(text))
  <2>1. text' = new \o rest /\ lp' = lp /\ made' = made
    BY <1>3 DEF Upload
  <2>2. new \in Seq(C) /\ text \in Seq(C)
    BY <1>1, TextConstants DEF IsText
  <2>3. Len(new) \in Nat /\ Len(text) \in Nat
    BY <2>2, LenProperties
  <2>4. \A i \in Len(new) + 1 .. Len(text) : text[i] \in C
    BY <2>2, <2>3, ElementOfSeq
  <2>5. Len(new) + 1 \in Int /\ Len(text) \in Int
    BY <2>3
  <2>6. rest \in Seq(C)
    BY <2>4, <2>5, SubSeqProperties
  <2> HIDE DEF rest, C
  <2>7. new \o rest \in Seq(C)
    BY <2>2, <2>6, ConcatProperties
  <2> QED
    BY <1>1, <2>1, <2>7 DEF IndexInv, IsText, Lines, NLsOf, C
<1>4. CASE UNCHANGED textVars
  BY <1>1, <1>4 DEF textVars, IndexInv, IsText, Lines, NLsOf
<1> QED
  BY <1>2, <1>3, <1>4 DEF TextNext

LEMMA IndexAlways == TextSpec => []IndexInv
<1>1. TextInit => IndexInv
  BY EmptySeq, TextConstants DEF TextInit, IndexInv, IsText
<1>2. IndexInv /\ [TextNext]_(textVars) => IndexInv'
  BY IndexStep
<1> QED
  BY <1>1, <1>2, PTL DEF TextSpec

\* In a text whose lines have ends and are not empty, with an index made from
\* it, txt_file_search_line finds the first line that begins with the key.
THEOREM SearchesFind == TextSpec => []SearchFinds
<1>1. IndexInv => SearchFinds
  <2> SUFFICES ASSUME IndexInv, lp # Missing, made = text, WellFormed(text),
                      NEW key \in Keys
               PROVE  SearchLine(key) = FirstLine(text, key)
    BY DEF SearchFinds
  <2>1. PICK n \in Nat : Lines(text, lp, n)
    BY DEF IndexInv
  <2>2. IsText(text) /\ key \in Seq(Chars) /\ key # <<>> /\ NL \notin Chars
    BY TextConstants DEF IndexInv
  <2>3. IsPrefix(text, text)
    <3>1. Len(text) \in Nat
      BY <2>2, LenProperties DEF IsText
    <3> QED
      BY <3>1 DEF IsPrefix
  <2>4. OfText(text, n)
    BY <2>1, <2>2, <2>3 DEF OfText
  <2> QED
    BY <2>2, <2>4, KeyIsFound, KeyIsNotFound
<1>2. TextSpec => []IndexInv
  BY IndexAlways
<1> QED
  BY <1>1, <1>2, PTL

\* Lines added at the end of a text leave the answers of its old index alone.
THEOREM OldLinesAreKept == TextSpec => []OldLinesAreFound
<1>1. IndexInv => OldLinesAreFound
  <2> SUFFICES ASSUME IndexInv, lp # Missing, WellFormed(made),
                      IsPrefix(made, text), NEW key \in Keys, Starts(made, key) # {}
               PROVE  SearchLine(key) = FirstLine(made, key)
    BY DEF OldLinesAreFound
  <2>1. PICK n \in Nat : Lines(made, lp, n)
    BY DEF IndexInv
  <2>2. key \in Seq(Chars) /\ key # <<>>
    BY TextConstants
  <2>3. OfText(made, n)
    BY <2>1, TextConstants DEF OfText, IndexInv
  <2> QED
    BY <2>2, <2>3, KeyIsFound
<1>2. TextSpec => []IndexInv
  BY IndexAlways
<1> QED
  BY <1>1, <1>2, PTL
=============================================================================
