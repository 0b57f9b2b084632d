------------------------ MODULE PropertyStoreProofs ------------------------
(***************************************************************************)
(* Theorems about property_set for any number of slots, keys and values,   *)
(* and, for type correctness, for any number of power cuts.                *)
(***************************************************************************)
EXTENDS PropertyStore, WellFoundedInduction, TLAPS

(* Rand files of any size *)

\* A non-empty set of slots has a first element: the scans of
\* rand_file_find_empty_record_pos and rand_file_find stop at it.
LEMMA FirstIsLeast ==
  ASSUME NEW S \in SUBSET Slots, S # {}
  PROVE  First(S) \in S /\ \A j \in S : First(S) <= j
<1>1. S \subseteq Nat
  BY CountAssumption DEF Slots
<1>2. \E i \in S : \A j \in S : ~(<<j, i>> \in OpToRel(<, Nat))
  BY <1>1, WFMin, NatLessThanWellFounded
<1>3. \E i \in S : \A j \in S : i <= j
  <2>1. PICK i \in S : \A j \in S : ~(<<j, i>> \in OpToRel(<, Nat))
    BY <1>2
  <2>2. ASSUME NEW j \in S PROVE i <= j
    <3>1. <<j, i>> \in Nat \X Nat /\ <<j, i>>[1] = j /\ <<j, i>>[2] = i
      BY <1>1, <2>1, <2>2
    <3>2. ~(j < i)
      BY <2>1, <3>1, Zenon DEF OpToRel
    <3>3. i \in Nat /\ j \in Nat
      BY <1>1, <2>1, <2>2
    <3> QED
      BY <3>2, <3>3
  <2> QED
    BY <2>1, <2>2
<1> QED
  BY <1>3 DEF First

\* rand_file_find_empty_record_pos returns the lowest free slot, or -1 when all
\* are live.
LEMMA FindEmptyIsFree ==
  ASSUME NEW file,
         NEW i, i = FindEmptyRecordPos(file)
  PROVE  \/ i = -1 /\ Live(file) = Slots
         \/ /\ i \in Slots \ Live(file) /\ i # -1
            /\ \A j \in Slots : j < i => j \in Live(file)
<1>1. CASE Live(file) = Slots
  BY <1>1 DEF FindEmptyRecordPos
<1>2. CASE Live(file) # Slots
  <2>1. Slots \ Live(file) # {} /\ Slots \ Live(file) \in SUBSET Slots
    BY <1>2 DEF Live
  <2>2. i \in Slots \ Live(file) /\ \A j \in Slots \ Live(file) : i <= j
    BY <1>2, <2>1, FirstIsLeast DEF FindEmptyRecordPos
  <2> QED
    BY <2>2, CountAssumption DEF Slots
<1> QED
  BY <1>1, <1>2

\* rand_file_find returns a live slot with matching data, or -1 when there is none.
LEMMA FindRecordMatches ==
  ASSUME NEW file, NEW accepted,
         NEW i, i = FindRecord(file, accepted)
  PROVE  \/ i = -1 /\ \A j \in Live(file) : file.data[j] \notin accepted
         \/ i \in Live(file) /\ file.data[i] \in accepted /\ i # -1
<1>1. CASE Matching(file, accepted) = {}
  BY <1>1 DEF FindRecord, Matching
<1>2. CASE Matching(file, accepted) # {}
  <2>1. Matching(file, accepted) \in SUBSET Slots
    BY DEF Matching, Live
  <2>2. i \in Matching(file, accepted)
    BY <1>2, <2>1, FirstIsLeast DEF FindRecord
  <2> QED
    BY <2>1, <2>2, CountAssumption DEF Matching, Slots
<1> QED
  BY <1>1, <1>2

RandFiles(D) == [flag : [Slots -> FlagValues], data : [Slots -> D]]

\* rand_file_create makes a file of the shape all other operations keep, with
\* no live slot.
LEMMA CreatedIsEmpty ==
  ASSUME NEW D, NEW blank \in D
  PROVE  Created(blank) \in RandFiles(D) /\ Live(Created(blank)) = {}
BY DEF Created, RandFiles, Live, RecordFlag, FlagValues, EMPTY

\* rand_file_del frees one slot and touches nothing else.
LEMMA DelFreesOne ==
  ASSUME NEW D, NEW file \in RandFiles(D), NEW pos \in Slots
  PROVE  /\ DelRecord(file, pos) \in RandFiles(D)
         /\ Live(DelRecord(file, pos)) = Live(file) \ {pos}
         /\ DelRecord(file, pos).data = file.data
BY DEF DelRecord, SetRecordFlag, RecordFlag, Live, RandFiles, FlagValues, EMPTY

\* Writing 0x7f makes one slot live and touches nothing else.
LEMMA MarkTakesOne ==
  ASSUME NEW D, NEW file \in RandFiles(D), NEW pos \in Slots
  PROVE  /\ SetRecordFlag(file, pos, USED) \in RandFiles(D)
         /\ Live(SetRecordFlag(file, pos, USED)) = Live(file) \cup {pos}
         /\ SetRecordFlag(file, pos, USED).data = file.data
BY DEF SetRecordFlag, RecordFlag, Live, RandFiles, FlagValues, EMPTY, USED

\* Writing the data of one slot changes no flag and no other data.
LEMMA PutKeepsFlags ==
  ASSUME NEW D, NEW file \in RandFiles(D), NEW pos \in Slots, NEW d \in D
  PROVE  /\ PutData(file, pos, d) \in RandFiles(D)
         /\ Live(PutData(file, pos, d)) = Live(file)
         /\ PutData(file, pos, d).data = [file.data EXCEPT ![pos] = d]
BY DEF PutData, RecordFlag, Live, RandFiles

-----------------------------------------------------------------------------
LEMMA FileIsRandFile == File = RandFiles(Entry)
BY DEF File, RandFiles

LEMMA IdleIsOp == Idle \in Ops /\ Idle.pc = "idle"
BY DEF Ops, Idle

\* property_get finds a value or nothing.
LEMMA FindKeyRange ==
  ASSUME NEW file \in File, NEW k
  PROVE  FindKey(file, k) \in Slots \cup {-1}
<1>1. FindKey(file, k) = FindRecord(file, Accepts(k))
  BY DEF FindKey
<1>2. FindKey(file, k) = -1 \/ FindKey(file, k) \in Live(file)
  BY <1>1, FindRecordMatches
<1> QED
  BY <1>2 DEF Live

LEMMA PropertyGetRange ==
  ASSUME NEW file \in File, NEW k
  PROVE  PropertyGet(file, k) \in Vals \cup {None}
BY FindKeyRange DEF PropertyGet, File, Entry

\* What each step of property_set finds in its arguments: rand_file_del is
\* never called with the -1 of a search that found nothing.
ArgsOK == /\ op.pc # "idle" => op.key \in Keys /\ op.val \in Vals
          /\ op.pc \in {"del", "mark"} => op.at \in Slots

LEMMA TypeStep ==
  ASSUME TypeOK, ArgsOK, [Next]_vars
  PROVE  TypeOK' /\ ArgsOK'
<1> USE DEF TypeOK, ArgsOK
<1>1. ASSUME NEW k \in Keys, NEW v \in Vals, SetBegin(k, v), boot' \in Seq(Vals)
      PROVE  TypeOK' /\ ArgsOK'
  <2>1. FindKey(cache, k) \in Slots \cup {-1}
    BY FindKeyRange
  <2> QED
    BY <1>1, <2>1 DEF SetBegin, Ops
<1>2. CASE BootSet
  <2>1. Head(boot) \in Vals /\ Tail(boot) \in Seq(Vals)
    BY <1>2 DEF BootSet
  <2> QED
    BY <1>1, <1>2, <2>1, TestAssumption DEF BootSet
<1>3. CASE CallSet
  BY <1>1, <1>3 DEF CallSet
<1>4. CASE SetDel
  <2>1. DelRecord(cache, op.at) \in File
    BY <1>4, DelFreesOne, FileIsRandFile DEF SetDel
  <2> QED
    BY <1>4, <2>1 DEF SetDel, Ops
<1>5. CASE SetAdd
  <2> DEFINE i == FindEmptyRecordPos(cache)
             e == [key |-> op.key, val |-> op.val]
  <2>1. i \in Slots
    BY <1>5, FindEmptyIsFree DEF SetAdd
  <2>2. e \in Entry
    BY <1>5 DEF SetAdd, Entry
  <2>3. cache' \in File
    BY <1>5, <2>1, <2>2, PutKeepsFlags, FileIsRandFile DEF SetAdd
  <2>4. op' \in Ops /\ op'.pc = "mark" /\ op'.at = i /\ op'.key = op.key /\ op'.val = op.val
    BY <1>5, <2>1 DEF SetAdd, Ops
  <2> QED
    BY <1>5, <2>1, <2>3, <2>4 DEF SetAdd
<1>6. CASE SetFull
  BY <1>6, IdleIsOp DEF SetFull
<1>7. CASE SetMark
  <2>1. cache' \in File
    BY <1>7, MarkTakesOne, FileIsRandFile DEF SetMark
  <2> QED
    BY <1>7, <2>1, IdleIsOp DEF SetMark
<1>8. CASE Flush
  <2>1. flash' \in File
    <3>1. CASE FlushFlags
      BY <3>1 DEF FlushFlags, File
    <3>2. ASSUME NEW i \in Slots, FlushKey(i) \/ FlushVal(i) PROVE flash' \in File
      <4>1. flash.data[i] \in Entry /\ cache.data[i] \in Entry
        BY DEF File
      <4>2. ASSUME NEW e \in Entry
            PROVE  [flash EXCEPT !.data = [flash.data EXCEPT ![i] = e]] \in File
        BY DEF File
      <4>3. [flash.data[i] EXCEPT !.key = cache.data[i].key] \in Entry
            /\ [flash.data[i] EXCEPT !.val = cache.data[i].val] \in Entry
        BY <4>1 DEF Entry
      <4> QED
        BY <3>2, <4>2, <4>3 DEF FlushKey, FlushVal
    <3> QED
      BY <1>8, <3>1, <3>2 DEF Flush
  <2>2. risky' \subseteq Keys
    BY <1>8 DEF Flush, FlushFlags, FlushKey, FlushVal, Settled
  <2> QED
    BY <1>8, <2>1, <2>2 DEF Flush, FlushFlags, FlushKey, FlushVal
<1>9. CASE PowerCycle
  <2>1. want' \in [Keys -> Vals \cup {None}]
    BY <1>9, PropertyGetRange DEF PowerCycle
  <2>2. cuts' \in 0 .. MaxCuts
    BY <1>9, MaxCutsAssumption DEF PowerCycle
  <2> QED
    BY <1>9, <2>1, <2>2, IdleIsOp, TestAssumption DEF PowerCycle
<1>10. CASE UNCHANGED vars
  BY <1>10 DEF vars
<1> QED
  BY <1>2, <1>3, <1>4, <1>5, <1>6, <1>7, <1>8, <1>9, <1>10 DEF Next, Powered, Call

LEMMA TypeInit == Init => TypeOK /\ ArgsOK
<1> SUFFICES ASSUME Init PROVE TypeOK /\ ArgsOK
  OBVIOUS
<1>1. Blank \in Entry
  BY DEF Blank, Entry
<1>2. Created(Blank) \in File
  BY <1>1, CreatedIsEmpty, FileIsRandFile
<1> QED
  BY <1>2, IdleIsOp, TestAssumption, MaxCutsAssumption DEF Init, TypeOK, ArgsOK

\* The store keeps its shape, however calls, flushes and power cuts interleave.
THEOREM TypeCorrect == Spec => []TypeOK
<1>1. Init => TypeOK /\ ArgsOK
  BY TypeInit
<1>2. TypeOK /\ ArgsOK /\ [Next]_vars => TypeOK' /\ ArgsOK'
  BY TypeStep
<1> QED
  BY <1>1, <1>2, PTL DEF Spec
-----------------------------------------------------------------------------
(***************************************************************************)
(* Until power fails the live slots are the first ones of the file, save   *)
(* for the one slot property_set has in hand: the deletion opens a hole    *)
(* and the search for a free slot, starting from 0, can only find that     *)
(* hole.  NoHoles alone is not inductive: it says nothing in mid-call.     *)
(***************************************************************************)
Prefix(S) == \A i \in S, j \in Slots : j < i => j \in S

InHand == IF op.pc \in {"add", "mark"} /\ op.at # -1 THEN {op.at} ELSE {}

HoleInv == /\ Prefix(Live(cache) \cup InHand)
           /\ Live(cache) \cap InHand = {}
           /\ op.pc = "del" => op.at \in Live(cache)

\* No two live slots hold one key, and the slot property_set works on is the
\* one of the key it was called with.
Unique == \A i, j \in Live(cache) : cache.data[i].key = cache.data[j].key => i = j
KeyInv == /\ Unique
          /\ op.pc = "del" => cache.data[op.at].key = op.key
          /\ op.pc \in {"add", "mark"} =>
               \A i \in Live(cache) : cache.data[i].key # op.key
          /\ op.pc = "mark" => cache.data[op.at] = [key |-> op.key, val |-> op.val]

\* A value that was set and is not being replaced is in a live slot.
WantInv == /\ \A k \in Keys :
                want[k] # None => \/ op.pc \in {"add", "mark"} /\ op.key = k
                                  \/ \E i \in Live(cache) :
                                       cache.data[i] = [key |-> k, val |-> want[k]]
           /\ op.pc \in {"add", "mark"} /\ op.at = -1 => want[op.key] = None

LEMMA HoleStep ==
  ASSUME TypeOK, ArgsOK, HoleInv, [Powered]_vars
  PROVE  HoleInv' /\ (op.pc = "add" /\ op.at # -1 /\ op' # op => op'.pc = "mark" /\ op'.at = op.at)
<1> USE DEF TypeOK, ArgsOK
<1>1. ASSUME NEW k, NEW v, SetBegin(k, v) PROVE HoleInv' /\ op.pc # "add"
  <2>1. FindKey(cache, k) # -1 => FindKey(cache, k) \in Live(cache)
    BY FindRecordMatches DEF FindKey
  <2>2. op'.pc = (IF FindKey(cache, k) = -1 THEN "add" ELSE "del")
        /\ op'.at = FindKey(cache, k) /\ cache' = cache /\ op.pc = "idle"
    BY <1>1 DEF SetBegin
  <2>3. InHand = {} /\ InHand' = {}
    BY <2>2 DEF InHand
  <2> QED
    BY <2>1, <2>2, <2>3 DEF HoleInv, Prefix, Live
<1>2. CASE SetDel
  <2>1. op.at \in Slots /\ op.at # -1
    BY <1>2, CountAssumption DEF SetDel, Slots
  <2>2. Live(cache') = Live(cache) \ {op.at}
    BY <1>2, <2>1, DelFreesOne, FileIsRandFile DEF SetDel
  <2>3. op'.pc = "add" /\ op'.at = op.at /\ op.pc = "del"
    BY <1>2 DEF SetDel, Ops
  <2>4. InHand = {} /\ InHand' = {op.at}
    BY <2>1, <2>3 DEF InHand
  <2>5. Live(cache)' = Live(cache')
    BY DEF Live
  <2> QED
    BY <2>2, <2>3, <2>4, <2>5 DEF HoleInv, Prefix
<1>3. CASE SetAdd
  <2> DEFINE i == FindEmptyRecordPos(cache)
             e == [key |-> op.key, val |-> op.val]
  <2>1. /\ i \in Slots \ Live(cache) /\ i # -1
        /\ \A j \in Slots : j < i => j \in Live(cache)
    BY <1>3, FindEmptyIsFree DEF SetAdd
  <2>2. e \in Entry
    BY <1>3 DEF SetAdd, Entry
  <2>3. Live(cache)' = Live(cache)
    <3>0. i \in Slots /\ cache \in RandFiles(Entry)
      BY <2>1, FileIsRandFile
    <3>1. /\ PutData(cache, i, e) \in RandFiles(Entry)
          /\ Live(PutData(cache, i, e)) = Live(cache)
          /\ PutData(cache, i, e).data = [cache.data EXCEPT ![i] = e]
      BY <3>0, <2>2, PutKeepsFlags
    <3>2. cache' = PutData(cache, i, e)
      BY <1>3 DEF SetAdd
    <3> QED
      BY <3>1, <3>2 DEF Live
  <2>4. op.pc = "add" /\ op'.pc = "mark" /\ op'.at = i
    BY <1>3 DEF SetAdd, Ops
  <2>5. InHand' = {i}
    BY <2>1, <2>4 DEF InHand
  <2>6. CASE op.at = -1
    <3>1. InHand = {}
      BY <2>6 DEF InHand
    <3>2. Prefix(Live(cache) \cup {i})
      BY <2>1, <3>1 DEF HoleInv, Prefix
    <3> QED
      BY <2>1, <2>3, <2>4, <2>5, <2>6, <3>2 DEF HoleInv, Prefix
  <2>7. CASE op.at # -1
    <3>1. InHand = {op.at} /\ op.at \in Slots
      BY <2>4, <2>7 DEF InHand, Ops
    <3>2. op.at \notin Live(cache)
      BY <3>1 DEF HoleInv
    <3>3. ~(op.at < i)
      BY <2>1, <3>1, <3>2
    <3>4. ~(i < op.at)
      BY <2>1, <3>1 DEF HoleInv, Prefix
    <3>5. i = op.at
      BY <2>1, <3>1, <3>3, <3>4, CountAssumption DEF Slots
    <3> QED
      BY <2>3, <2>4, <2>5, <3>1, <3>5 DEF HoleInv, Prefix
  <2> QED
    BY <2>6, <2>7
<1>4. CASE SetFull
  <2>1. Live(cache) = Slots
    BY <1>4, FindEmptyIsFree DEF SetFull
  <2>2. InHand \subseteq Slots
    BY DEF InHand, Ops
  <2>3. InHand = {}
    BY <2>1, <2>2 DEF HoleInv
  <2>4. Live(cache)' = Live(cache) /\ op'.pc = "idle"
    BY <1>4, IdleIsOp DEF SetFull, Live
  <2>5. InHand' = {}
    BY <2>4 DEF InHand
  <2>6. op.at = -1
    BY <1>4, <2>3 DEF SetFull, InHand
  <2> QED
    BY <2>3, <2>4, <2>5, <2>6 DEF HoleInv, Prefix
<1>5. CASE SetMark
  <2>1. op.at \in Slots /\ op.at # -1 /\ op.pc = "mark"
    BY <1>5, CountAssumption DEF SetMark, Slots
  <2>2. Live(cache)' = Live(cache) \cup {op.at}
    BY <1>5, <2>1, MarkTakesOne, FileIsRandFile DEF SetMark, Live
  <2>3. op'.pc = "idle"
    BY <1>5, IdleIsOp DEF SetMark
  <2>4. InHand = {op.at} /\ InHand' = {}
    BY <2>1, <2>3 DEF InHand
  <2> QED
    BY <2>1, <2>2, <2>3, <2>4 DEF HoleInv, Prefix
<1>6. CASE Flush \/ UNCHANGED vars
  <2>1. UNCHANGED <<cache, op>>
    BY <1>6 DEF Flush, FlushFlags, FlushKey, FlushVal, vars
  <2> QED
    BY <2>1 DEF HoleInv, Prefix, InHand, Live
<1> QED
  <2>1. \A k, v : SetBegin(k, v) => HoleInv' /\ op.pc # "add"
    BY <1>1
  <2> QED
    BY <1>2, <1>3, <1>4, <1>5, <1>6, <2>1 DEF Powered, Call, BootSet, CallSet

LEMMA HoleInit == Init => HoleInv
<1> SUFFICES ASSUME Init PROVE HoleInv
  OBVIOUS
<1>1. Blank \in Entry
  BY DEF Blank, Entry
<1>2. Live(cache) = {}
  BY <1>1, CreatedIsEmpty DEF Init
<1>3. op.pc = "idle"
  BY IdleIsOp DEF Init
<1> QED
  BY <1>2, <1>3 DEF HoleInv, Prefix, InHand

\* A step that does not end in a power cut started without one.
LEMMA StillNeverCut ==
  ASSUME TypeOK, [Next]_vars, NeverCut'
  PROVE  NeverCut /\ [Powered]_vars
BY MaxCutsAssumption DEF TypeOK, NeverCut, Next, PowerCycle, Powered, Call, BootSet, CallSet,
   SetBegin, SetDel, SetAdd, SetFull, SetMark, Flush, FlushFlags, FlushKey, FlushVal, vars

\* Until power fails, the live slots between two calls of property_set are the
\* first of the file, a replacement always finds room, and it goes to the slot
\* it came from.
THEOREM Holes == Spec => []NoHoles /\ ReplacesInPlace
<1> DEFINE Inv == TypeOK /\ ArgsOK /\ (NeverCut => HoleInv)
           InPlace == NeverCut /\ op.pc = "add" /\ op.at # -1 /\ op' # op /\ cuts' = cuts
                        => op'.pc = "mark" /\ op'.at = op.at
<1>1. Init => Inv
  BY TypeInit, HoleInit
<1>2. Inv /\ [Next]_vars => Inv'
  BY TypeStep, HoleStep, StillNeverCut
<1>3. Inv => NoHoles
  BY DEF NoHoles, HoleInv, Prefix, InHand
<1>4. Inv /\ [Next]_vars => [InPlace]_vars
  BY StillNeverCut, HoleStep DEF NeverCut
<1> QED
  BY <1>1, <1>2, <1>3, <1>4, PTL DEF Spec, ReplacesInPlace
-----------------------------------------------------------------------------
(***************************************************************************)
(* The rest holds only when no key begins with the text of another:        *)
(* rand_file_find compares as many bytes as the key it is given has.       *)
(***************************************************************************)
NoPrefixes == \A k \in Keys : Extending[k] = {k}

LEMMA FindKeyFinds ==
  ASSUME NoPrefixes, NEW file \in File, NEW k \in Keys,
         NEW i, i = FindKey(file, k)
  PROVE  \/ i = -1 /\ \A j \in Live(file) : file.data[j].key # k
         \/ i \in Live(file) /\ file.data[i].key = k /\ i # -1
<1>1. \A j \in Live(file) : file.data[j] \in Accepts(k) <=> file.data[j].key = k
  BY DEF NoPrefixes, Live, File, Accepts
<1>2. i = FindRecord(file, Accepts(k))
  BY DEF FindKey
<1> QED
  BY <1>1, <1>2, FindRecordMatches

LEMMA KeyStep ==
  ASSUME NoPrefixes, TypeOK, ArgsOK, HoleInv, KeyInv, WantInv, [Powered]_vars
  PROVE  KeyInv' /\ WantInv'
<1> USE DEF TypeOK, ArgsOK
<1>1. ASSUME NEW k \in Keys, NEW v \in Vals, SetBegin(k, v) PROVE KeyInv' /\ WantInv'
  <2> DEFINE i == FindKey(cache, k)
  <2>1. \/ i = -1 /\ \A j \in Live(cache) : cache.data[j].key # k
        \/ i \in Live(cache) /\ cache.data[i].key = k /\ i # -1
    BY FindKeyFinds
  <2>2. /\ op' = [pc |-> IF i = -1 THEN "add" ELSE "del", key |-> k, val |-> v, at |-> i]
        /\ op.pc = "idle" /\ cache' = cache /\ want' = want
    BY <1>1 DEF SetBegin
  <2>3. Live(cache)' = Live(cache) /\ op'.key = k /\ op'.at = i
        /\ op'.pc = (IF i = -1 THEN "add" ELSE "del")
    BY <2>2 DEF Live
  <2>4. KeyInv'
    BY <2>1, <2>2, <2>3 DEF KeyInv, Unique
  <2>5. \A q \in Keys : want[q] # None => \E j \in Live(cache) :
                           cache.data[j] = [key |-> q, val |-> want[q]]
    BY <2>2 DEF WantInv
  <2>6. ASSUME i = -1, want[k] # None PROVE FALSE
    <3>1. PICK j \in Live(cache) : cache.data[j] = [key |-> k, val |-> want[k]]
      BY <2>5, <2>6
    <3>2. cache.data[j].key = k
      BY <3>1
    <3> QED
      BY <2>1, <2>6, <3>2 DEF Live
  <2> QED
    BY <2>2, <2>3, <2>4, <2>5, <2>6 DEF WantInv
<1>2. CASE SetDel
  <2>1. op.at \in Slots /\ op.at # -1 /\ op.pc = "del"
    BY <1>2, CountAssumption DEF SetDel, Slots
  <2>2. Live(cache)' = Live(cache) \ {op.at} /\ cache'.data = cache.data
    BY <1>2, <2>1, DelFreesOne, FileIsRandFile DEF SetDel, Live
  <2>3. op'.pc = "add" /\ op'.at = op.at /\ op'.key = op.key /\ want' = want
    BY <1>2 DEF SetDel, Ops
  <2>4. op.at \in Live(cache) /\ cache.data[op.at].key = op.key
    BY <2>1 DEF HoleInv, KeyInv
  <2>5. KeyInv'
    BY <2>1, <2>2, <2>3, <2>4 DEF KeyInv, Unique
  <2>6. \A q \in Keys : want[q] # None => \E j \in Live(cache) :
                           cache.data[j] = [key |-> q, val |-> want[q]]
    BY <2>1 DEF WantInv
  <2>7. \A q \in Keys \ {op.key} : want[q] # None => \E j \in Live(cache) \ {op.at} :
                           cache.data[j] = [key |-> q, val |-> want[q]]
    BY <2>4, <2>6
  <2> QED
    BY <2>1, <2>2, <2>3, <2>5, <2>7 DEF WantInv
<1>3. CASE SetAdd
  <2> DEFINE i == FindEmptyRecordPos(cache)
             e == [key |-> op.key, val |-> op.val]
  <2>1. i \in Slots \ Live(cache) /\ i # -1
    BY <1>3, FindEmptyIsFree DEF SetAdd
  <2>2. e \in Entry
    BY <1>3 DEF SetAdd, Entry
  <2>3. Live(PutData(cache, i, e)) = Live(cache)
        /\ PutData(cache, i, e).data = [cache.data EXCEPT ![i] = e]
    BY <2>1, <2>2, PutKeepsFlags, FileIsRandFile
  <2>4. cache' = PutData(cache, i, e) /\ want' = want
    BY <1>3 DEF SetAdd
  <2>5. Live(cache)' = Live(cache)
    BY <2>3, <2>4 DEF Live
  <2>6. op.pc = "add" /\ op'.pc = "mark" /\ op'.at = i /\ op'.key = op.key /\ op'.val = op.val
    BY <1>3 DEF SetAdd, Ops
  <2>7. \A j \in Live(cache) : cache'.data[j] = cache.data[j]
    BY <2>1, <2>3, <2>4 DEF Live, File
  <2>8. cache'.data[i] = e
    BY <2>1, <2>3, <2>4 DEF File
  <2>9. KeyInv'
    BY <2>5, <2>6, <2>7, <2>8 DEF KeyInv, Unique
  <2> QED
    BY <2>1, <2>4, <2>5, <2>6, <2>7, <2>9 DEF WantInv
<1>4. CASE SetFull
  <2>1. Live(cache) = Slots /\ op.pc = "add"
    BY <1>4, FindEmptyIsFree DEF SetFull
  <2>2. op.at = -1
    BY <2>1 DEF HoleInv, InHand, Ops
  <2>3. Live(cache)' = Live(cache) /\ op'.pc = "idle" /\ cache' = cache /\ want' = want
    BY <1>4, IdleIsOp DEF SetFull, Live
  <2> QED
    BY <2>1, <2>2, <2>3 DEF KeyInv, Unique, WantInv
<1>5. CASE SetMark
  <2>1. op.at \in Slots /\ op.pc = "mark" /\ op.key \in Keys
    BY <1>5 DEF SetMark
  <2>2. Live(cache)' = Live(cache) \cup {op.at} /\ cache'.data = cache.data
    BY <1>5, <2>1, MarkTakesOne, FileIsRandFile DEF SetMark, Live
  <2>3. op'.pc = "idle" /\ want' = [want EXCEPT ![op.key] = op.val]
    BY <1>5, IdleIsOp DEF SetMark
  <2>4. cache.data[op.at] = [key |-> op.key, val |-> op.val]
        /\ \A j \in Live(cache) : cache.data[j].key # op.key
    BY <2>1 DEF KeyInv
  <2>5. KeyInv'
    BY <2>2, <2>3, <2>4 DEF KeyInv, Unique
  <2>6. \A q \in Keys \ {op.key} : want[q] # None => \E j \in Live(cache) :
                           cache.data[j] = [key |-> q, val |-> want[q]]
    BY <2>1 DEF WantInv
  <2> QED
    BY <2>1, <2>2, <2>3, <2>4, <2>5, <2>6 DEF WantInv
<1>6. CASE Flush \/ UNCHANGED vars
  <2>1. UNCHANGED <<cache, op, want>>
    BY <1>6 DEF Flush, FlushFlags, FlushKey, FlushVal, vars
  <2> QED
    BY <2>1 DEF KeyInv, WantInv, Unique, Live
<1> QED
  BY <1>1, <1>2, <1>3, <1>4, <1>5, <1>6, TestAssumption DEF Powered, Call, BootSet, CallSet

LEMMA KeyInit == Init => KeyInv /\ WantInv
<1> SUFFICES ASSUME Init PROVE KeyInv /\ WantInv
  OBVIOUS
<1>1. Blank \in Entry
  BY DEF Blank, Entry
<1>2. Live(cache) = {}
  BY <1>1, CreatedIsEmpty DEF Init
<1>3. op.pc = "idle" /\ \A k \in Keys : want[k] = None
  BY IdleIsOp DEF Init
<1> QED
  BY <1>2, <1>3 DEF KeyInv, Unique, WantInv

KeyLive == TypeOK /\ ArgsOK /\ (NeverCut => HoleInv /\ KeyInv /\ WantInv)

LEMMA KeysHold == NoPrefixes => (Spec => []KeyLive)
<1> SUFFICES ASSUME NoPrefixes PROVE Spec => []KeyLive
  OBVIOUS
<1>1. Init => KeyLive
  BY TypeInit, HoleInit, KeyInit DEF KeyLive
<1>2. KeyLive /\ [Next]_vars => KeyLive'
  BY TypeStep, HoleStep, KeyStep, StillNeverCut DEF KeyLive
<1> QED
  BY <1>1, <1>2, PTL DEF Spec

\* When no key begins with the text of another, no two live slots hold one key
\* until power fails, at whatever write of property_set one looks.
THEOREM NeverTwice == NoPrefixes => (Spec => []OneSlotPerKey)
<1>1. KeyLive => OneSlotPerKey
  BY DEF KeyLive, KeyInv, Unique, OneSlotPerKey
<1> QED
  BY <1>1, KeysHold, PTL

\* When no key begins with the text of another, property_get returns between
\* calls what property_set last stored, until power fails.
THEOREM Reads == NoPrefixes => (Spec => []ReadsBack)
<1> SUFFICES ASSUME NoPrefixes PROVE Spec => []ReadsBack
  OBVIOUS
<1>1. KeyLive => ReadsBack
  <2> SUFFICES ASSUME KeyLive, NeverCut, op.pc = "idle", NEW k \in Keys, want[k] # None
               PROVE  PropertyGet(cache, k) = want[k]
    BY DEF ReadsBack
  <2>1. PICK i \in Live(cache) : cache.data[i] = [key |-> k, val |-> want[k]]
    BY DEF KeyLive, WantInv
  <2>2. FindKey(cache, k) \in Live(cache) /\ cache.data[FindKey(cache, k)].key = k
        /\ FindKey(cache, k) # -1
    BY <2>1, FindKeyFinds DEF KeyLive, TypeOK
  <2>3. FindKey(cache, k) = i
    BY <2>1, <2>2 DEF KeyLive, KeyInv, Unique
  <2> QED
    BY <2>1, <2>2, <2>3 DEF PropertyGet
<1> QED
  BY <1>1, KeysHold, PTL
-----------------------------------------------------------------------------
(***************************************************************************)
(* The first power cut.  Until then a slot, once it has been given to a    *)
(* key, keeps it: property_set replaces in place, so that what the flash   *)
(* has of a slot is blank or of the same key, and no stale copy of a key   *)
(* lies in another slot, where an old flag would bring it back.            *)
(***************************************************************************)
SlotsInv == /\ \A i \in Slots : cache.data[i].key # None => i \in Live(cache) \cup InHand
            /\ \A i \in InHand : cache.data[i].key = op.key
FlashInv == /\ \A i \in Slots : flash.data[i].key \in {None, cache.data[i].key}
            /\ \A k \in Keys \ risky : want[k] # None =>
                 \A i \in Live(cache) : cache.data[i] = [key |-> k, val |-> want[k]] =>
                   i \in Live(flash) /\ flash.data[i] = cache.data[i]
            /\ op.pc # "idle" => op.key \in risky

LEMMA FlashStep ==
  ASSUME TypeOK, ArgsOK, HoleInv, KeyInv, SlotsInv, FlashInv, [Powered]_vars
  PROVE  SlotsInv' /\ FlashInv'
<1> USE DEF TypeOK, ArgsOK
<1>0. \A i \in Live(cache) : i \in Slots
  BY DEF Live
<1>1. ASSUME NEW k \in Keys, NEW v \in Vals, SetBegin(k, v) PROVE SlotsInv' /\ FlashInv'
  <2> DEFINE i == FindKey(cache, k)
  <2>1. /\ op' = [pc |-> IF i = -1 THEN "add" ELSE "del", key |-> k, val |-> v, at |-> i]
        /\ op.pc = "idle" /\ risky' = risky \cup {k} /\ UNCHANGED <<cache, flash, want>>
    BY <1>1 DEF SetBegin
  <2>2. op'.key = k /\ op'.at = i /\ op'.pc = (IF i = -1 THEN "add" ELSE "del")
    BY <2>1
  <2>3. InHand = {} /\ InHand' = {} /\ Live(cache)' = Live(cache) /\ Live(flash)' = Live(flash)
    BY <2>1, <2>2 DEF InHand, Live
  <2>4. SlotsInv'
    BY <2>1, <2>3 DEF SlotsInv
  <2> QED
    BY <2>1, <2>2, <2>3, <2>4 DEF FlashInv
<1>2. CASE SetDel
  <2>1. op.at \in Slots /\ op.at # -1 /\ op.pc = "del"
    BY <1>2, CountAssumption DEF SetDel, Slots
  <2>2. Live(cache)' = Live(cache) \ {op.at} /\ cache'.data = cache.data
    BY <1>2, <2>1, DelFreesOne, FileIsRandFile DEF SetDel, Live
  <2>3. op'.pc = "add" /\ op'.at = op.at /\ op'.key = op.key /\ UNCHANGED <<want, flash, risky>>
    BY <1>2 DEF SetDel, Ops
  <2>4. InHand = {} /\ InHand' = {op.at} /\ Live(flash)' = Live(flash)
    BY <2>1, <2>3 DEF InHand, Live
  <2>5. SlotsInv'
    BY <2>1, <2>2, <2>3, <2>4 DEF SlotsInv, KeyInv
  <2> QED
    BY <2>1, <2>2, <2>3, <2>4, <2>5 DEF FlashInv
<1>3. CASE SetAdd
  <2> DEFINE i == FindEmptyRecordPos(cache)
             e == [key |-> op.key, val |-> op.val]
  <2>1. i \in Slots \ Live(cache) /\ i # -1
    BY <1>3, FindEmptyIsFree DEF SetAdd
  <2>2. e \in Entry
    BY <1>3 DEF SetAdd, Entry
  <2>3. Live(PutData(cache, i, e)) = Live(cache)
        /\ PutData(cache, i, e).data = [cache.data EXCEPT ![i] = e]
    BY <2>1, <2>2, PutKeepsFlags, FileIsRandFile
  <2>4. cache' = PutData(cache, i, e) /\ UNCHANGED <<flash, want, risky>>
    BY <1>3 DEF SetAdd
  <2>5. Live(cache)' = Live(cache) /\ Live(flash)' = Live(flash)
    BY <2>3, <2>4 DEF Live
  <2>6. op.pc = "add" /\ op'.pc = "mark" /\ op'.at = i /\ op'.key = op.key
    BY <1>3 DEF SetAdd, Ops
  <2>7. InHand' = {i} /\ (InHand = {} \/ InHand = {i})
    <3>1. InHand' = {i}
      BY <2>1, <2>6 DEF InHand
    <3>2. op.at = -1 \/ op.at = i
      <4>1. op' # op
        BY <2>6
      <4> QED
        BY <1>3, <2>6, <4>1, HoleStep DEF Powered, Call
    <3> QED
      BY <2>6, <3>1, <3>2 DEF InHand
  <2>8. \A j \in Slots : cache'.data[j] = IF j = i THEN e ELSE cache.data[j]
    BY <2>1, <2>3, <2>4 DEF File
  <2>9. cache.data[i].key \in {None, op.key}
    BY <2>1, <2>7 DEF SlotsInv
  <2>10. SlotsInv'
    BY <2>1, <2>5, <2>6, <2>7, <2>8 DEF SlotsInv
  <2>11. \A j \in Slots : flash.data[j].key \in {None, cache'.data[j].key}
    BY <2>8, <2>9 DEF FlashInv
  <2>12. \A j \in Live(cache) : cache'.data[j] = cache.data[j]
    BY <1>0, <2>1, <2>8
  <2> QED
    BY <2>4, <2>5, <2>6, <2>10, <2>11, <2>12 DEF FlashInv
<1>4. CASE SetFull
  <2>1. Live(cache) = Slots
    BY <1>4, FindEmptyIsFree DEF SetFull
  <2>2. op'.pc = "idle" /\ UNCHANGED <<cache, flash, want, risky>>
    BY <1>4, IdleIsOp DEF SetFull
  <2>3. InHand' = {} /\ Live(cache)' = Slots /\ Live(flash)' = Live(flash)
    BY <2>1, <2>2 DEF InHand, Live
  <2>4. SlotsInv'
    BY <2>2, <2>3 DEF SlotsInv
  <2> QED
    BY <2>1, <2>2, <2>3, <2>4 DEF FlashInv
<1>5. CASE SetMark
  <2>1. op.at \in Slots /\ op.at # -1 /\ op.pc = "mark" /\ op.key \in Keys
    BY <1>5, CountAssumption DEF SetMark, Slots
  <2>2. Live(cache)' = Live(cache) \cup {op.at} /\ cache'.data = cache.data
    BY <1>5, <2>1, MarkTakesOne, FileIsRandFile DEF SetMark, Live
  <2>3. op'.pc = "idle" /\ want' = [want EXCEPT ![op.key] = op.val] /\ UNCHANGED <<flash, risky>>
    BY <1>5, IdleIsOp DEF SetMark
  <2>4. InHand = {op.at} /\ InHand' = {} /\ Live(flash)' = Live(flash)
    BY <2>1, <2>3 DEF InHand, Live
  <2>5. SlotsInv'
    BY <2>2, <2>4 DEF SlotsInv
  <2>6. cache.data[op.at].key = op.key /\ op.key \in risky
    BY <2>1, <2>4 DEF SlotsInv, FlashInv
  <2>7. ASSUME NEW k \in Keys \ risky, want'[k] # None, NEW i \in Live(cache) \cup {op.at},
               cache.data[i] = [key |-> k, val |-> want'[k]]
        PROVE  i \in Live(flash) /\ flash.data[i] = cache.data[i]
    <3>1. cache.data[i].key = k
      BY <2>7
    <3>2. i \in Live(cache) /\ want'[k] = want[k]
      BY <2>3, <2>6, <2>7, <3>1
    <3> QED
      BY <2>7, <3>2 DEF FlashInv
  <2> QED
    BY <2>2, <2>3, <2>4, <2>5, <2>7 DEF FlashInv
<1>6. CASE Flush
  <2>1. UNCHANGED <<cache, op, want>> /\ risky' = Settled(flash')
    BY <1>6 DEF Flush, FlushFlags, FlushKey, FlushVal
  <2>2. SlotsInv' /\ Live(cache)' = Live(cache)
    BY <2>1 DEF SlotsInv, InHand, Live
  <2>3. /\ \A j \in Slots : flash'.data[j].key \in {flash.data[j].key, cache.data[j].key}
        /\ \A j \in Live(cache) : j \in Live(flash) => j \in Live(flash')
        /\ \A j \in Slots : flash.data[j] = cache.data[j] => flash'.data[j] = cache.data[j]
    <3>1. CASE FlushFlags
      BY <3>1 DEF FlushFlags, File, Live, RecordFlag
    <3>2. ASSUME NEW i \in Slots, FlushKey(i) \/ FlushVal(i)
          PROVE  /\ \A j \in Slots : flash'.data[j].key \in {flash.data[j].key, cache.data[j].key}
                 /\ Live(flash') = Live(flash)
                 /\ \A j \in Slots : flash.data[j] = cache.data[j] => flash'.data[j] = cache.data[j]
      <4>1. flash.data[i] \in Entry /\ cache.data[i] \in Entry
        BY DEF File
      <4>2. PICK e : /\ e = [flash.data[i] EXCEPT !.key = cache.data[i].key]
                         \/ e = [flash.data[i] EXCEPT !.val = cache.data[i].val]
                     /\ flash' = [flash EXCEPT !.data[i] = e]
        BY <3>2 DEF FlushKey, FlushVal, File
      <4>3. /\ e.key \in {flash.data[i].key, cache.data[i].key}
            /\ flash.data[i] = cache.data[i] => e = cache.data[i]
        BY <4>1, <4>2 DEF Entry
      <4>4. /\ \A j \in Slots : flash'.data[j] = IF j = i THEN e ELSE flash.data[j]
            /\ flash'.flag = flash.flag
        BY <4>2 DEF File
      <4> QED
        BY <4>3, <4>4 DEF Live, RecordFlag
    <3> QED
      BY <1>6, <3>1, <3>2 DEF Flush
  <2>4. CASE op.pc = "idle" /\ flash' = cache
    BY <2>1, <2>2, <2>4 DEF FlashInv, Live
  <2>5. CASE ~(op.pc = "idle" /\ flash' = cache)
    <3>1. risky' = risky
      BY <2>1, <2>5 DEF Settled
    <3>2. Live(flash)' = Live(flash')
      BY DEF Live
    <3> QED
      BY <1>0, <2>1, <2>2, <2>3, <3>1, <3>2 DEF FlashInv
  <2> QED
    BY <2>4, <2>5
<1>7. CASE UNCHANGED vars
  BY <1>7 DEF vars, SlotsInv, FlashInv, InHand, Live
<1> QED
  BY <1>1, <1>2, <1>3, <1>4, <1>5, <1>6, <1>7, TestAssumption DEF Powered, Call, BootSet, CallSet

LEMMA FlashInit == Init => SlotsInv /\ FlashInv
<1> SUFFICES ASSUME Init PROVE SlotsInv /\ FlashInv
  OBVIOUS
<1>1. op.pc = "idle" /\ want = [k \in Keys |-> None]
  BY IdleIsOp DEF Init
<1>2. \A i \in Slots : cache.data[i].key = None /\ flash.data[i].key = None
  BY DEF Init, Created, Blank
<1> QED
  BY <1>1, <1>2 DEF SlotsInv, FlashInv, InHand

\* When no key begins with the text of another, the first power cut, whatever pages
\* had reached the flash by then, costs no key but those set since the flash was
\* last up to date.
THEOREM FirstCut == NoPrefixes => (Spec => FirstCutSparesSettledKeys)
<1> SUFFICES ASSUME NoPrefixes PROVE Spec => FirstCutSparesSettledKeys
  OBVIOUS
<1> DEFINE Inv == KeyLive /\ (NeverCut => SlotsInv /\ FlashInv)
           Spares == cuts = 0 /\ cuts' = 1 => \A k \in Keys \ risky :
                       want[k] # None => want'[k] = want[k]
<1>1. Init => Inv
  BY TypeInit, HoleInit, KeyInit, FlashInit DEF KeyLive
<1>2. Inv /\ [Next]_vars => Inv'
  BY TypeStep, HoleStep, KeyStep, FlashStep, StillNeverCut DEF KeyLive
<1>3. Inv /\ [Next]_vars => [Spares]_vars
  <2> SUFFICES ASSUME Inv, [Next]_vars, cuts = 0, cuts' = 1, NEW k \in Keys \ risky, want[k] # None
               PROVE  want'[k] = want[k]
    OBVIOUS
  <2>1. PowerCycle
    BY DEF Next, Powered, Call, BootSet, CallSet, SetBegin, SetDel, SetAdd, SetFull, SetMark,
           Flush, FlushFlags, FlushKey, FlushVal, vars
  <2>2. TypeOK /\ KeyInv /\ WantInv /\ SlotsInv /\ FlashInv
    BY DEF KeyLive, NeverCut
  <2>3. op.pc = "idle" \/ op.key # k
    BY <2>2 DEF FlashInv
  <2>4. PICK i \in Live(cache) : cache.data[i] = [key |-> k, val |-> want[k]]
    BY <2>2, <2>3 DEF WantInv
  <2>5. i \in Live(flash) /\ flash.data[i] = cache.data[i] /\ cache.data[i].key = k
    BY <2>2, <2>4 DEF FlashInv
  <2>6. PICK j : j = FindKey(flash, k)
    OBVIOUS
  <2>7. j \in Live(flash) /\ flash.data[j].key = k /\ j # -1
    BY <2>2, <2>5, <2>6, FindKeyFinds DEF TypeOK
  <2>8. j \in Slots /\ cache.data[j].key = k /\ k # None
    BY <2>2, <2>7, KeysAssumption DEF FlashInv, Live
  <2>9. j \in Live(cache)
    BY <2>2, <2>3, <2>8 DEF SlotsInv, InHand
  <2>10. j = i
    BY <2>2, <2>5, <2>8, <2>9 DEF KeyInv, Unique
  <2>11. PropertyGet(flash, k) = want[k]
    BY <2>4, <2>5, <2>6, <2>7, <2>10 DEF PropertyGet
  <2> QED
    BY <2>1, <2>11 DEF PowerCycle
<1> QED
  BY <1>1, <1>2, <1>3, PTL DEF Spec, FirstCutSparesSettledKeys
=============================================================================
