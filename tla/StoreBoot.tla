------------------------------ MODULE StoreBoot ------------------------------
(***************************************************************************)
(* How the random-access files of the terminal come to be and come back    *)
(* after a power cut: property_init, record_init and white_name_init       *)
(* (HTTP_upload.c 99-103) open them with rand_file_open, and the first two *)
(* make a missing one with rand_file_create, `fn.ri' first and `fn' after  *)
(* it; every open takes handles of UFFS and an entry of g_rand_file_info.  *)
(* Then cards are recorded in positions that start again from 1.           *)
(*                                                                         *)
(* A file that was closed survives a power cut as it is; one that is being *)
(* written survives with any shorter length it had, and the pages of the   *)
(* ring reach the flash in any order.  The length of a data file is        *)
(* counted in slots; its .ri file is none, torn or whole.                  *)
(***************************************************************************)
EXTENDS RandFile, Sequences, FiniteSets, FiniteSetsExt

CONSTANTS MaxHandles,   \* MAX_OBJECT_HANDLE
          MaxId,        \* bound: the last number of a record
          MaxCuts       \* bound: how many times power fails

\* the boot takes six handles and one for the file that is being made
ASSUME BoundsAssumption == MaxHandles \in Nat /\ MaxHandles >= 7 /\ MaxId \in Nat /\ MaxCuts \in Nat

Stores == {"property", "record", "white"}
Own    == Stores \ {"white"}        \* the white names come from the PC
Order  == <<"property", "record", "white">>

VARIABLES
  ri,       \* the .ri file of each store
  size,     \* slots of each data file, -1 when there is none
  kept,     \* slots of it that a power cut leaves
  at,       \* the store that is being opened or made, and the step; "run" after
  pos,      \* g_property_rand_file_pos, g_record_.. and g_white_name_..
  info,     \* g_rand_file_info: the entries with flag 1
  used,     \* handles of UFFS in use
  ring,     \* the record file as it is read
  flash,    \* the record file as the next restart will find it
  recordId, \* g_record_id
  empty,    \* holiday.txt is empty
  cuts,     \* how many times power has failed
  cutIn,    \* history: the stores in whose making power failed
  old       \* history: the records the last restart found

fileVars == <<ri, size, kept>>
ringVars == <<ring, flash, recordId, old>>
vars == <<ri, size, kept, at, pos, info, used, ring, flash, recordId,
          empty, cuts, cutIn, old>>

Entries == 0 .. 9                   \* _d_max_rand_file_info
Starting == [n |-> 1, step |-> "open"]
Running == [n |-> 4, step |-> "run"]
Now == Order[at.n]

Blank == [boot |-> 0, id |-> 0]     \* 0xff in every byte

\* rand_file_get of a live slot: behind the end of the data there is nothing
Readable(file, n) == {file.data[i] : i \in {j \in Live(file) : j < n}} \ {Blank}

Init == /\ ri = [s \in Stores |-> "none"]
        /\ size = [s \in Stores |-> -1]
        /\ kept = size
        /\ at = Starting
        /\ pos = [s \in Stores |-> -1]
        /\ info = {} /\ used = 0
        /\ ring = Created(Blank) /\ flash = Created(Blank)
        /\ recordId = 1 /\ old = {}
        /\ empty \in BOOLEAN
        /\ cuts = 0 /\ cutIn = {}

-----------------------------------------------------------------------------
(* rand_file_open and rand_file_close, on [info, used, pos] *)

\* Mutant: when the .ri file cannot be opened, the data file stays open.
OpenedKeepsFirst(d, s) ==
  IF size[s] # -1 /\ ri[s] # "none"
  THEN [info |-> d.info \cup {Min(Entries \ d.info)}, used |-> d.used + 2, pos |-> Min(Entries \ d.info)]
  ELSE [d EXCEPT !.used = IF size[s] # -1 THEN @ + 1 ELSE @, !.pos = -1]
\* rand_file_open: both files or none
Opened(d, s) ==
  IF size[s] # -1 /\ ri[s] # "none" /\ d.used + 2 <= MaxHandles
  THEN [info |-> d.info \cup {Min(Entries \ d.info)}, used |-> d.used + 2, pos |-> Min(Entries \ d.info)]
  ELSE [d EXCEPT !.pos = -1]
Shut(d) == IF d.pos = -1 THEN d
           ELSE [info |-> d.info \ {d.pos}, used |-> d.used - 2, pos |-> -1]
Entry(s) == [info |-> info, used |-> used, pos |-> pos[s]]
SetEntry(d, s) == info' = d.info /\ used' = d.used /\ pos' = [pos EXCEPT ![s] = d.pos]

-----------------------------------------------------------------------------
(* The boot *)

NextStore == IF at.n = 3 THEN Running ELSE [n |-> at.n + 1, step |-> "open"]
Step(s) == at' = [at EXCEPT !.step = s]

\* property_init, record_init, white_name_init: the first attempt
OpenFirst ==
  /\ at.step = "open"
  /\ SetEntry(Opened(Entry(Now), Now), Now)
  /\ IF pos'[Now] = -1 /\ Now \in Own THEN Step("create") ELSE at' = NextStore
  /\ UNCHANGED <<fileVars, ringVars, empty, cuts, cutIn>>

\* rand_file_create finds a .ri file: it returns without closing it
CreateRefused ==
  /\ at.step = "create" /\ ri[Now] # "none"
  /\ used' = used + 1
  /\ at' = NextStore
  /\ UNCHANGED <<fileVars, ringVars, pos, info, empty, cuts, cutIn>>

\* rand_file_create: the .ri file is made and written
CreateRi ==
  /\ at.step = "create" /\ ri[Now] = "none"
  /\ ri' = [ri EXCEPT ![Now] = "torn"]
  /\ used' = used + 1
  /\ Step("ri")
  /\ UNCHANGED <<size, kept, ringVars, pos, info, empty, cuts, cutIn>>

\* Mutant: the .ri file is not closed.
CloseRiNot ==
  /\ at.step = "ri"
  /\ Step("data")
  /\ UNCHANGED <<fileVars, ringVars, pos, info, used, empty, cuts, cutIn>>
\* ... and closed, and a data file that is there is removed
CloseRi ==
  /\ at.step = "ri"
  /\ ri' = [ri EXCEPT ![Now] = "whole"]
  /\ size' = [size EXCEPT ![Now] = -1] /\ kept' = [kept EXCEPT ![Now] = -1]
  /\ used' = used - 1
  /\ Step("data")
  /\ UNCHANGED <<ringVars, pos, info, empty, cuts, cutIn>>

\* ... the data file is made and filled with 0xff
CreateData ==
  /\ at.step = "data"
  /\ size' = [size EXCEPT ![Now] = Count] /\ kept' = [kept EXCEPT ![Now] = 0]
  /\ used' = used + 1
  /\ Step("close")
  /\ UNCHANGED <<ri, ringVars, pos, info, empty, cuts, cutIn>>
\* ... and closed
CloseData ==
  /\ at.step = "close"
  /\ kept' = [kept EXCEPT ![Now] = size[Now]]
  /\ used' = used - 1
  /\ Step("again")
  /\ UNCHANGED <<ri, size, ringVars, pos, info, empty, cuts, cutIn>>

\* the second attempt
OpenAgain ==
  /\ at.step = "again"
  /\ SetEntry(Opened(Entry(Now), Now), Now)
  /\ at' = NextStore
  /\ UNCHANGED <<fileVars, ringVars, empty, cuts, cutIn>>

Boot == OpenFirst \/ CreateRefused \/ CreateRi \/ CloseRi \/ CreateData \/ CloseData \/ OpenAgain

-----------------------------------------------------------------------------
(* The terminal runs *)

\* Mutant: the slot is that of the number itself.
SlotOfNext(id) == (id + 1) % Count
SlotOf(id) == id % Count

\* save_card_info: the seek stops at the end of the data, that to the flag does
\* not.  The outcome of the send, which the flag becomes, is in AccessLoop.
SaveCardInfo ==
  LET i == SlotOf(recordId)
      j == Min({i, size["record"]})
      file == SetRecordFlag(PutData(ring, j, [boot |-> cuts + 1, id |-> recordId]), i, USED)
  IN /\ at = Running /\ recordId <= MaxId
     /\ recordId' = recordId + 1
     /\ IF pos["record"] = -1 THEN UNCHANGED <<ring, size>>
        ELSE ring' = file /\ size' = [size EXCEPT !["record"] = Max({@, j + 1})]
     /\ UNCHANGED <<ri, kept, at, pos, info, used, flash, empty, cuts, cutIn, old>>

\* UFFS writes a dirty page of the record file out
FlushFlags == /\ flash' = [flash EXCEPT !.flag = ring.flag]
              /\ UNCHANGED <<fileVars, at, pos, info, used, ring, recordId, old, empty, cuts, cutIn>>
FlushData(i) == /\ flash' = [flash EXCEPT !.data[i] = ring.data[i]]
                /\ kept' = [kept EXCEPT !["record"] = Max({@, Min({i + 1, size["record"]})})]
                /\ UNCHANGED <<ri, size, at, pos, info, used, ring, recordId, old, empty, cuts, cutIn>>

\* a file of white names is uploaded
Upload ==
  /\ at = Running
  /\ \/ ri' = [ri EXCEPT !["white"] = "whole"] /\ UNCHANGED <<size, kept>>
     \/ /\ size' = [size EXCEPT !["white"] = Count] /\ kept' = [kept EXCEPT !["white"] = Count]
        /\ UNCHANGED ri
  /\ UNCHANGED <<ringVars, at, pos, info, used, empty, cuts, cutIn>>

\* T-command white_name_change: white_name_init again
WhiteNameChange ==
  /\ at = Running
  /\ SetEntry(Opened(Shut(Entry("white")), "white"), "white")
  /\ UNCHANGED <<fileVars, ringVars, at, empty, cuts, cutIn>>

\* a card is judged: df_get_file_size does not close a file it finds empty
SearchHoliday ==
  /\ at = Running
  /\ empty /\ used < MaxHandles
  /\ used' = used + 1
  /\ UNCHANGED <<fileVars, ringVars, at, pos, info, empty, cuts, cutIn>>

\* power fails and comes back
PowerCycle ==
  LET making == IF at.n < 4 /\ at.step \in {"ri", "data", "close"} THEN {Now} ELSE {}
  IN /\ cuts < MaxCuts
     /\ cuts' = cuts + 1
     /\ \E n \in [Stores -> -1 .. Count] :
          /\ \A s \in Stores : kept[s] <= n[s] /\ n[s] <= size[s]
          /\ size' = n /\ kept' = n
     /\ cutIn' = cutIn \cup making
     /\ at' = Starting
     /\ pos' = [s \in Stores |-> -1] /\ info' = {} /\ used' = 0
     /\ ring' = flash
     /\ recordId' = 1
     /\ old' = Readable(flash, size'["record"])
     /\ UNCHANGED <<ri, flash, empty>>

Next == \/ Boot
        \/ SaveCardInfo
        \/ FlushFlags \/ \E i \in Slots : FlushData(i)
        \/ Upload \/ WhiteNameChange \/ SearchHoliday \/ PowerCycle
Spec == Init /\ [][Next]_vars
-----------------------------------------------------------------------------
\* Once the terminal has booted, a store it makes itself is open, unless power
\* has failed while it was being made; and no store is ever open whose .ri file,
\* from which its sizes are read, may be torn: rand_file_create closes it before
\* it makes the data file (rand_file.c:116-136).
StoresOpen ==
  /\ at = Running => \A s \in Own : pos[s] # -1 \/ s \in cutIn
  /\ \A s \in Stores : pos[s] # -1 => ri[s] = "whole"

\* As long as no text is empty, whatever restarts have left of the files and
\* however often white names are changed, each open store has an entry of its own
\* and three handles are left, for a text, the same text and its new index.
PoolSuffices ==
  /\ \A s, t \in Stores : pos[s] = pos[t] /\ pos[s] # -1 => s = t
  /\ info = {pos[s] : s \in Stores} \ {-1}
  /\ ~empty => used + 3 <= MaxHandles

\* Unless power has failed while the record file was being made, a slot in use
\* holds a record with a number of that position, or nothing, whatever pages a
\* power cut has lost: the number is what the host asks for.
InItsSlot ==
  "record" \notin cutIn =>
    \A i \in Live(ring) : ring.data[i] # Blank => ring.data[i].id % Count = i

\* After a restart the numbers begin again at 1, so that a new record is written
\* over some old one: but never over more than one, sent or not.
RestartCostsOnePerCard ==
  Cardinality(old \ Readable(ring, size["record"])) <= recordId - 1
=============================================================================
