--------------------------- MODULE PropertyStore ---------------------------
(***************************************************************************)
(* The persistent key/value table of src/os/property.c: a random-access    *)
(* file whose slots hold one `key' and one `value' each.  property_set     *)
(* deletes the slot of the key and adds a new one, in four writes; UFFS    *)
(* keeps every write in its page cache until it happens to flush the page  *)
(* (nothing in the terminal calls uffs_flush on this file), so a power cut *)
(* finds on the flash an arbitrary mixture of old and new pages.           *)
(*                                                                         *)
(*   cache  the file as uffs_read sees it                                  *)
(*   flash  the file as the next power-on will find it                     *)
(*   op     the call of property_set in progress                           *)
(*   boot   the calls property_test still has to make                      *)
(*   want   history: the value of each key that callers may count on       *)
(*   risky  history: the keys written since cache and flash last agreed    *)
(*   cuts   how many times power has failed                                *)
(***************************************************************************)
EXTENDS RandFile, Sequences

CONSTANTS Keys, Vals, None,
          Extending,    \* Extending[k]: the keys that begin with the text of k
          TestKey,      \* "key1" of property_test
          TestVals,     \* the values property_test writes at every power-on
          MaxCuts       \* bound: how many times power fails

ASSUME MaxCutsAssumption == MaxCuts \in Nat
ASSUME KeysAssumption == None \notin Keys \cup Vals
ASSUME TestAssumption == TestKey \in Keys /\ TestVals \in Seq(Vals)
ASSUME ExtendingAssumption ==
  Extending \in [Keys -> SUBSET Keys] /\ \A k \in Keys : k \in Extending[k]

VARIABLES cache, flash, op, boot, want, risky, cuts
vars == <<cache, flash, op, boot, want, risky, cuts>>

Entry == [key : Keys \cup {None}, val : Vals \cup {None}]
Blank == [key |-> None, val |-> None]       \* 0xff in every byte
File  == [flag : [Slots -> FlagValues], data : [Slots -> Entry]]

Idle == [pc |-> "idle", key |-> None, val |-> None, at |-> -1]
Ops  == [pc : {"idle", "del", "add", "mark"}, key : Keys \cup {None},
         val : Vals \cup {None}, at : Slots \cup {-1}]

\* the slots rand_file_find( key, 0, strlen(key) ) accepts
Accepts(k) == {d \in Entry : d.key \in Extending[k]}
FindKey(file, k) == FindRecord(file, Accepts(k))

\* property_get
PropertyGet(file, k) ==
  LET i == FindKey(file, k) IN IF i = -1 THEN None ELSE file.data[i].val

-----------------------------------------------------------------------------
\* property_init on a file rand_file_create has just made
Init == /\ cache = Created(Blank)
        /\ flash = Created(Blank)
        /\ op = Idle
        /\ boot = TestVals
        /\ want = [k \in Keys |-> None]
        /\ risky = {}
        /\ cuts = 0

\* Mutant: the old slot of the key is left alone.
SetBeginNeverDeletes(k, v) ==
  /\ op.pc = "idle"
  /\ op' = [pc |-> "add", key |-> k, val |-> v, at |-> -1]
  /\ risky' = risky \cup {k}
  /\ UNCHANGED <<cache, flash, want, cuts>>

\* property_set: the search.  Whoever is called next depends on its result.
SetBegin(k, v) ==
  LET i == FindKey(cache, k) IN
  /\ op.pc = "idle"
  /\ op' = [pc |-> IF i = -1 THEN "add" ELSE "del", key |-> k, val |-> v, at |-> i]
  /\ risky' = risky \cup {k}
  /\ UNCHANGED <<cache, flash, want, cuts>>

\* property_test, before anyone else can call
BootSet == /\ boot # <<>>
           /\ SetBegin(TestKey, Head(boot))
           /\ boot' = Tail(boot)

\* a T-command or white_name_init
CallSet == /\ boot = <<>>
           /\ \E k \in Keys, v \in Vals : SetBegin(k, v)
           /\ UNCHANGED boot

\* rand_file_del on the slot found
SetDel == /\ op.pc = "del"
          /\ cache' = DelRecord(cache, op.at)
          /\ op' = [op EXCEPT !.pc = "add"]
          /\ UNCHANGED <<flash, boot, want, risky, cuts>>

\* rand_file_add: the data goes to the lowest free slot
SetAdd == LET i == FindEmptyRecordPos(cache) IN
  /\ op.pc = "add"
  /\ i # -1
  /\ cache' = PutData(cache, i, [key |-> op.key, val |-> op.val])
  /\ op' = [op EXCEPT !.pc = "mark", !.at = i]
  /\ UNCHANGED <<flash, boot, want, risky, cuts>>

\* rand_file_add on a full table returns -1, after the deletion
SetFull == /\ op.pc = "add"
           /\ FindEmptyRecordPos(cache) = -1
           /\ op' = Idle
           /\ UNCHANGED <<cache, flash, boot, want, risky, cuts>>

\* Mutant: rand_file_add does not write the flag.
SetMarkForgetsFlag == /\ op.pc = "mark"
                      /\ want' = [want EXCEPT ![op.key] = op.val]
                      /\ op' = Idle
                      /\ UNCHANGED <<cache, flash, boot, risky, cuts>>

\* rand_file_add: the flag is written last
SetMark == /\ op.pc = "mark"
           /\ cache' = SetRecordFlag(cache, op.at, USED)
           /\ want' = [want EXCEPT ![op.key] = op.val]
           /\ op' = Idle
           /\ UNCHANGED <<flash, boot, risky, cuts>>

-----------------------------------------------------------------------------
\* UFFS writes a dirty page out, at a time of its own choosing.  The flags
\* share a page; a slot of 128 bytes may straddle two pages of data.
Settled(fl) == IF op.pc = "idle" /\ fl = cache THEN {} ELSE risky

FlushFlags == /\ flash' = [flash EXCEPT !.flag = cache.flag]
              /\ risky' = Settled(flash')
              /\ UNCHANGED <<cache, op, boot, want, cuts>>
FlushKey(i) == /\ flash' = [flash EXCEPT !.data[i].key = cache.data[i].key]
               /\ risky' = Settled(flash')
               /\ UNCHANGED <<cache, op, boot, want, cuts>>
FlushVal(i) == /\ flash' = [flash EXCEPT !.data[i].val = cache.data[i].val]
               /\ risky' = Settled(flash')
               /\ UNCHANGED <<cache, op, boot, want, cuts>>
Flush == FlushFlags \/ \E i \in Slots : FlushKey(i) \/ FlushVal(i)

\* power fails and comes back: the cache is reloaded, property_test runs again,
\* and callers can count on what they can now read
PowerCycle == /\ cuts < MaxCuts
              /\ cuts' = cuts + 1
              /\ cache' = flash
              /\ op' = Idle
              /\ boot' = TestVals
              /\ want' = [k \in Keys |-> PropertyGet(flash, k)]
              /\ risky' = {}
              /\ UNCHANGED flash

Call == BootSet \/ CallSet \/ SetDel \/ SetAdd \/ SetFull \/ SetMark
Powered == Call \/ Flush
Next == Powered \/ PowerCycle
Spec == Init /\ [][Next]_vars
-----------------------------------------------------------------------------
\* The cache is a store of this shape whatever is called, flushed or cut.
TypeOK == /\ cache \in File
          /\ flash \in File
          /\ op \in Ops
          /\ boot \in Seq(Vals)
          /\ want \in [Keys -> Vals \cup {None}]
          /\ risky \subseteq Keys
          /\ cuts \in 0 .. MaxCuts

(* What follows holds until power fails for the first time: the cut may leave *)
(* two slots of one key, or a hole, and nothing repairs them.                 *)
NeverCut == cuts = 0

\* However calls of property_set are cut into their writes, no two live slots
\* ever hold the same key: property_get cannot find a value that was replaced.
OneSlotPerKey == NeverCut => \A i, j \in Live(cache) :
                    cache.data[i].key = cache.data[j].key => i = j

\* Between calls the live slots are the first ones of the file: what
\* property_set frees it fills again, so replacing a value never leaves a hole.
NoHoles == NeverCut /\ op.pc = "idle" =>
  \A i \in Live(cache), j \in Slots : j < i => j \in Live(cache)

\* Between calls, property_get of every key returns the value last set.
ReadsBack == NeverCut /\ op.pc = "idle" =>
  \A k \in Keys : want[k] # None => PropertyGet(cache, k) = want[k]

\* A replacement always finds room, even in a full table, and it is the very
\* slot the old value was in: the search for a free slot comes after the
\* deletion (property_set, rand_file_add).
ReplacesInPlace ==
  [][NeverCut /\ op.pc = "add" /\ op.at # -1 /\ op' # op /\ cuts' = cuts
       => op'.pc = "mark" /\ op'.at = op.at]_vars

\* The first power cut costs only keys written since the file last reached the
\* flash whole: every other key that had a value keeps it.  A second cut may
\* cost any key, see the README: the first may have left a hole, and the flag
\* of a slot can reach the flash before the data that fills the hole.
FirstCutSparesSettledKeys ==
  [][cuts = 0 /\ cuts' = 1 => \A k \in Keys \ risky :
       want[k] # None => want'[k] = want[k]]_vars
=============================================================================
