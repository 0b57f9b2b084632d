------------------------------ MODULE RandFile ------------------------------
(***************************************************************************)
(* The random-access record file of src/os/vfs/rand_file.c: a data file    *)
(* `fn' of fixed-size slots and, beside it, `fn.ri' with one flag byte per *)
(* slot.  A file is a record [flag, data]; the operators below are the     *)
(* functions of rand_file.c as they change or read such a file.            *)
(*                                                                         *)
(* The two files are written one after the other, so the operations that   *)
(* touch both are also offered in two halves (PutData, SetRecordFlag) for  *)
(* the modules in which power may fail between them.                       *)
(***************************************************************************)
EXTENDS Integers

CONSTANT Count          \* record_count of the file

ASSUME CountAssumption == Count \in Nat \ {0}

Slots == 0 .. Count - 1

EMPTY == 255            \* 0xff: the slot is free
USED  == 127            \* 0x7f: the slot has been written
FlagValues == 0 .. 255  \* one byte in the .ri file

First(S) == CHOOSE i \in S : \A j \in S : i <= j

\* rand_file_get_record_flag, rand_file_set_record_flag
RecordFlag(file, pos) == file.flag[pos]
SetRecordFlag(file, pos, v) == [file EXCEPT !.flag[pos] = v]

\* Mutant: more bytes are written than a slot has.
PutDataSpills(file, pos, d) ==
  [file EXCEPT !.data = [i \in Slots |-> IF i \in {pos, pos + 1} THEN d ELSE @[i]]]

\* the uffs_seek + uffs_write on the data file
PutData(file, pos, d) == [file EXCEPT !.data[pos] = d]

Live(file) == {i \in Slots : RecordFlag(file, i) # EMPTY}

\* Mutants: the loop runs to i <= record_count; it starts at 1.
FindEmptyPastEnd(file) == IF Live(file) = Slots THEN Count ELSE First(Slots \ Live(file))
FindEmptyFromOne(file) ==
  IF Live(file) \cup {0} = Slots THEN -1 ELSE First(Slots \ (Live(file) \cup {0}))

\* rand_file_find_empty_record_pos: the lowest free slot, -1 if there is none
FindEmptyRecordPos(file) ==
  IF Live(file) = Slots THEN -1 ELSE First(Slots \ Live(file))

\* rand_file_set: the caller names the slot, whatever its flag says
SetRecord(file, pos, d) == SetRecordFlag(PutData(file, pos, d), pos, USED)

\* Mutant: the deletion writes the flag of a slot in use.
DelRecordKeepsUsed(file, pos) == SetRecordFlag(file, pos, USED)

\* rand_file_del: only the flag changes, the data stays behind
DelRecord(file, pos) == SetRecordFlag(file, pos, EMPTY)

\* rand_file_find: the lowest live slot whose data matches; the memcmp on a
\* prefix of the slot is the set of the data it accepts
Matching(file, accepted) == {i \in Live(file) : file.data[i] \in accepted}
FindRecord(file, accepted) ==
  IF Matching(file, accepted) = {} THEN -1 ELSE First(Matching(file, accepted))

\* what rand_file_create leaves: every flag 0xff, every data byte 0xff
Created(blank) == [flag |-> [i \in Slots |-> EMPTY],
                   data |-> [i \in Slots |-> blank]]
=============================================================================
