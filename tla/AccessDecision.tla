--------------------------- MODULE AccessDecision ---------------------------
(***************************************************************************)
(* Whether a card may enter (do_cam, sub_do_cam in access_main.c): the     *)
(* card's group, the plan of that group for the weekday, another one on    *)
(* its holidays, and one time area of the plan after the other until one   *)
(* holds the time the card was shown.  The clock runs meanwhile, and each  *)
(* area is put on the date the clock has when it is read.                  *)
(*                                                                         *)
(* A time is a number of seconds; a day has DayLen of them and a week      *)
(* WeekLen days.  A plan is a sequence of numbers of time areas, 0 ends    *)
(* it; how a line of a text is found is the subject of TextIndex.          *)
(***************************************************************************)
EXTENDS Integers, Sequences

CONSTANTS Groups, DayLen, WeekLen, MaxTime,
          Areas,        \* Areas[n]: line n of time_area.txt; a line may be missing
          Tables,       \* the week tables that may be uploaded
          Holidays,     \* the sets of pairs <<group, day>> that may be
          None          \* no group, no plan

Days == 0 .. MaxTime \div DayLen
Weekdays == 0 .. WeekLen - 1
TimesOfDay == 0 .. DayLen - 1
Dates == Groups \X Weekdays

ASSUME TimeAssumption == {DayLen, WeekLen} \subseteq Nat \ {0} /\ MaxTime \in Nat
ASSUME AreasAssumption ==
  \A n \in DOMAIN Areas : n \in Nat \ {0} /\ Areas[n] \in [begin : TimesOfDay, end : TimesOfDay]
ASSUME TablesAssumption ==
  \A t \in Tables : DOMAIN t = Dates /\ \A d \in Dates : t[d] # None => t[d] \in Seq(Nat)
ASSUME NoneAssumption == None \notin Groups
ASSUME HolidaysAssumption == Holidays \subseteq SUBSET (Groups \X Days)

VARIABLES
  files,    \* which of the files there are, and what is in them
  now,      \* the clock
  pc,       \* where sub_do_cam is
  time,     \* its parameter: the clock when it was called
  group,    \* group_id of the card
  list,     \* time_area_list
  no,       \* the entry of the list it is at
  rel       \* what do_cam returned

vars == <<files, now, pc, time, group, list, no, rel>>

Day(t) == t \div DayLen
Weekday(t) == Day(t) % WeekLen

Init == /\ files \in [exist : BOOLEAN, holiday : Holidays, week : Tables, holidayWeek : Tables]
        /\ now \in 0 .. MaxTime
        /\ pc = "idle" /\ time = 0 /\ group = None /\ list = None /\ no = 0 /\ rel = "none"

Tick == /\ now < MaxTime
        /\ now' = now + 1
        /\ UNCHANGED <<files, pc, time, group, list, no, rel>>

Returns(what) == pc' = "done" /\ rel' = what

-----------------------------------------------------------------------------
\* do_cam: without one of the four files no card is judged
Begin == /\ pc \in {"idle", "done"}
         /\ time' = now /\ group' = None /\ list' = None
         /\ IF files.exist THEN pc' = "group" /\ rel' = "none" ELSE Returns("no files")
         /\ UNCHANGED <<files, now, no>>

\* cam_read_group_id_from_white_name_record: the number of the card is taken for
\* the address of a string, so that any record, or none, may be found; one with
\* less than seven fields is refused
FindGroup == /\ pc = "group"
             /\ \/ group' \in Groups /\ pc' = "plan" /\ UNCHANGED rel
                \/ group' = None /\ Returns("illegal card")
                \/ group' = None /\ Returns("not allowed")
             /\ UNCHANGED <<files, now, time, list, no>>

\* today_is_holiday, cam_read_time_area_list_from_week_table
IsHoliday == <<group, Day(time)>> \in files.holiday
TableNever == files.week        \* mutant: holidays are forgotten
Table == IF IsHoliday THEN files.holidayWeek ELSE files.week
Plan == Table[<<group, Weekday(time)>>]

\* mutant: the loop starts with the second entry
FirstNoOne == 1
FirstNo == 0
ReadPlan == /\ pc = "plan"
            /\ list' = Plan /\ no' = FirstNo
            /\ IF Plan = None THEN Returns("not allowed") ELSE pc' = "area" /\ UNCHANGED rel
            /\ UNCHANGED <<files, now, time, group>>

\* cam_get_no_from_time_area_list
AreaNo == IF no < Len(list) THEN list[no + 1] ELSE -1

\* cam_read_time_area_from_time_area_file, on the date of the clock
OnToday(t) == Day(now) * DayLen + t
\* mutant: only the end is looked at
HoldsNoBegin(area) == time <= OnToday(area.end)
Holds(area) == OnToday(area.begin) <= time /\ time <= OnToday(area.end)

TryArea == /\ pc = "area" /\ AreaNo \in DOMAIN Areas
           /\ IF Holds(Areas[AreaNo]) THEN Returns("allowed") /\ UNCHANGED no
              ELSE no' = no + 1 /\ UNCHANGED <<pc, rel>>
           /\ UNCHANGED <<files, now, time, group, list>>

\* the list has ended, or an area of it is missing
NoMoreAreas == /\ pc = "area" /\ AreaNo \notin DOMAIN Areas
               /\ Returns("not allowed")
               /\ UNCHANGED <<files, now, time, group, list, no>>

Next == Tick \/ Begin \/ FindGroup \/ ReadPlan \/ TryArea \/ NoMoreAreas
Spec == Init /\ [][Next]_vars
-----------------------------------------------------------------------------
\* what do_cam may return, "none" before it does
Results == {"none", "no files", "illegal card", "not allowed", "allowed"}

TypeOK == /\ now \in 0 .. MaxTime /\ time \in 0 .. MaxTime
          /\ pc \in {"idle", "group", "plan", "area", "done"}
          /\ group \in Groups \cup {None}
          /\ list # None => list \in Seq(Nat) /\ no \in 0 .. Len(list)
          /\ rel \in Results

\* What the files say: the areas of the group's plan for the day up to the first
\* that is 0 or missing; the plan is the holiday's if the day is one of the
\* group's holidays.
PlanOn(g, day) ==
  LET key == <<g, day % WeekLen>>
  IN IF <<g, day>> \in files.holiday THEN files.holidayWeek[key] ELSE files.week[key]
Listed(g, t) == LET plan == PlanOn(g, Day(t)) IN
  /\ plan # None
  /\ \E k \in DOMAIN plan :
       /\ \A j \in 1 .. k : plan[j] \in DOMAIN Areas
       /\ Areas[plan[k]].begin <= t % DayLen /\ t % DayLen <= Areas[plan[k]].end

\* Nobody enters but in an area listed for the card's group at the time it was
\* shown, although the areas are put on the date of a clock that runs on.
NeverOutside == rel = "allowed" => group \in Groups /\ Listed(group, time)

\* ... and a card that is listed is refused only if midnight has passed while it
\* was judged.
RefusedOnlyOutside ==
  rel = "not allowed" /\ group \in Groups /\ Day(now) = Day(time) => ~Listed(group, time)
=============================================================================
