--------------------------- MODULE StoreBootProofs ---------------------------
(***************************************************************************)
(* Theorems about the boot for rings of any size and any number of power   *)
(* cuts: the stores are open, handles remain, records are in their slots   *)
(* and a restart overwrites at most one old record a card.                 *)
(*                                                                         *)
(* The inductive invariant Inv says, besides the types, what each step of  *)
(* rand_file_create leaves in the two files (FilesInv), which entries of   *)
(* g_rand_file_info the stores hold (EntriesInv), which of them are open   *)
(* (OpenInv), what the handles of UFFS were taken for (HandleInv), and     *)
(* that a record has its slot in the flash too (SlotInv).                  *)
(***************************************************************************)
EXTENDS StoreBoot, FiniteSetTheorems, TLAPS

(* Rand files of any size *)

RandFiles(D) == [flag : [Slots -> FlagValues], data : [Slots -> D]]

\* rand_file_create makes a file of the shape all other operations keep, with
\* no live slot.
LEMMA CreatedIsEmpty ==
  ASSUME NEW D, NEW blank \in D
  PROVE  Created(blank) \in RandFiles(D) /\ Live(Created(blank)) = {}
BY DEF Created, RandFiles, Live, RecordFlag, FlagValues, EMPTY

\* Writing 0x7f makes one slot live and touches nothing else.
LEMMA MarkTakesOne ==
  ASSUME NEW D, NEW file \in RandFiles(D), NEW i \in Slots
  PROVE  /\ SetRecordFlag(file, i, USED) \in RandFiles(D)
         /\ Live(SetRecordFlag(file, i, USED)) = Live(file) \cup {i}
         /\ SetRecordFlag(file, i, USED).data = file.data
BY DEF SetRecordFlag, RecordFlag, Live, RandFiles, FlagValues, EMPTY, USED

\* Writing the data of one slot changes no flag and no other data.
LEMMA PutKeepsFlags ==
  ASSUME NEW D, NEW file \in RandFiles(D), NEW i \in Slots, NEW d \in D
  PROVE  /\ PutData(file, i, d) \in RandFiles(D)
         /\ Live(PutData(file, i, d)) = Live(file)
         /\ PutData(file, i, d).data = [file.data EXCEPT ![i] = d]
BY DEF PutData, RecordFlag, Live, RandFiles

-----------------------------------------------------------------------------
Records == [boot : Nat, id : Nat]
BootSteps == {"open", "create", "ri", "data", "close", "again", "run"}

TypeInv ==
  /\ ri \in [Stores -> {"none", "torn", "whole"}]
  /\ size \in [Stores -> -1 .. Count] /\ kept \in [Stores -> -1 .. Count]
  /\ \A s \in Stores : kept[s] <= size[s]
  /\ at \in [n : 1 .. 4, step : BootSteps]
  /\ at.n = 4 <=> at.step = "run"
  /\ at.step \notin {"open", "run"} => at.n <= 2
  /\ pos \in [Stores -> Entries \cup {-1}] /\ info \subseteq Entries /\ used \in Int
  /\ ring \in RandFiles(Records) /\ flash \in RandFiles(Records)
  /\ recordId \in Nat \ {0} /\ empty \in BOOLEAN /\ cuts \in Nat /\ cutIn \subseteq Stores

BeingMade(s) == at.step \in {"ri", "data", "close", "again"} /\ s = Now
Passed(s) == (s = "property" /\ at.n >= 2) \/ (s = "record" /\ at.n >= 3)

FilesInv ==
  /\ ri["white"] # "torn"
  /\ \A s \in Own : ri[s] # "whole" => size[s] = -1
  /\ \A s \in Own \ cutIn :
       \/ BeingMade(s)
       \/ ri[s] = "none"
       \/ ri[s] = "whole" /\ size[s] = Count /\ kept[s] = Count
  /\ at.step = "create" /\ Now \notin cutIn => ri[Now] = "none"
  /\ at.step = "ri" => ri[Now] = "torn"
  /\ at.step = "data" => ri[Now] = "whole" /\ size[Now] = -1
  /\ at.step \in {"close", "again"} => ri[Now] = "whole" /\ size[Now] = Count
  /\ at.step = "again" => kept[Now] = Count

EntriesInv ==
  /\ at.n <= 3 => pos["white"] = -1
  /\ at.n <= 2 => pos["record"] = -1
  /\ at.n = 1 => pos["property"] = -1
  /\ \A s \in Stores : pos[s] # -1 => ri[s] = "whole" /\ size[s] # -1
  /\ \A s, t \in Stores : pos[s] = pos[t] /\ pos[s] # -1 => s = t
  /\ info = {pos[s] : s \in Stores} \ {-1}

OpenInv == \A s \in Own : Passed(s) => pos[s] # -1 \/ s \in cutIn

\* an open store has its two files; a refused creation has left the .ri file open
Cost == [s \in Stores |-> IF pos[s] # -1 THEN 2 ELSE IF Passed(s) THEN 1 ELSE 0]
FileInMaking == IF at.step \in {"ri", "close"} THEN 1 ELSE 0
HandleInv ==
  at # Running \/ ~empty =>
    used <= Cost["property"] + Cost["record"] + Cost["white"] + FileInMaking

SlotInv == "record" \notin cutIn =>
   \A i \in Slots :
     /\ ring.data[i] # Blank => ring.data[i].id % Count = i
     /\ flash.data[i] # Blank => flash.data[i].id % Count = i

CostInv == IsFiniteSet(old) /\ RestartCostsOnePerCard

Inv == TypeInv /\ FilesInv /\ EntriesInv /\ OpenInv /\ HandleInv

-----------------------------------------------------------------------------
LEMMA LeastInNat ==
  ASSUME NEW S \in SUBSET Nat, S # {}
  PROVE  Min(S) \in S /\ \A j \in S : Min(S) <= j
<1>1. \E i \in S : \A j \in S : ~(<<j, i>> \in OpToRel(<, Nat))
  BY WFMin, NatLessThanWellFounded
<1>2. \E i \in S : \A j \in S : i <= j
  <2>1. PICK i \in S : \A j \in S : ~(<<j, i>> \in OpToRel(<, Nat))
    BY <1>1
  <2>2. ASSUME NEW j \in S PROVE i <= j
    <3>1. <<j, i>> \in Nat \X Nat /\ <<j, i>>[1] = j /\ <<j, i>>[2] = i
      BY <2>1, <2>2
    <3>2. ~(j < i)
      BY <2>1, <3>1, Zenon DEF OpToRel
    <3> QED
      BY <3>2
  <2> QED
    BY <2>1, <2>2
<1> QED
  BY <1>2 DEF Min

LEMMA LessOfTwo ==
  ASSUME NEW a \in Int, NEW b \in Int
  PROVE  Min({a, b}) = IF a <= b THEN a ELSE b
<1> DEFINE m == IF a <= b THEN a ELSE b
<1>1. m \in {a, b} /\ \A y \in {a, b} : m <= y
  OBVIOUS
<1>2. ASSUME NEW x \in {a, b}, \A y \in {a, b} : x <= y PROVE x = m
  BY <1>2
<1> HIDE DEF m
<1>3. (CHOOSE x \in {a, b} : \A y \in {a, b} : x <= y) = m
  BY <1>1, <1>2
<1>4. Min({a, b}) = m
  BY <1>3 DEF Min
<1> QED
  BY <1>4 DEF m

LEMMA GreaterOfTwo ==
  ASSUME NEW a \in Int, NEW b \in Int
  PROVE  Max({a, b}) = IF b <= a THEN a ELSE b
<1> DEFINE m == IF b <= a THEN a ELSE b
<1>1. m \in {a, b} /\ \A y \in {a, b} : m >= y
  OBVIOUS
<1>2. ASSUME NEW x \in {a, b}, \A y \in {a, b} : x >= y PROVE x = m
  BY <1>2
<1> HIDE DEF m
<1>3. (CHOOSE x \in {a, b} : \A y \in {a, b} : x >= y) = m
  BY <1>1, <1>2
<1>4. Max({a, b}) = m
  BY <1>3 DEF Max
<1> QED
  BY <1>4 DEF m

\* The store that is being opened.
LEMMA NowIs ==
  /\ at.n = 1 => Now = "property"
  /\ at.n = 2 => Now = "record"
  /\ at.n = 3 => Now = "white"
BY DEF Now, Order

\* rand_file_open takes two handles and an entry nobody has, or nothing.
LEMMA OpenedEffect ==
  ASSUME NEW s \in Stores, NEW i \in SUBSET Entries, NEW u, NEW p, Entries \ i # {},
         NEW d, d = Opened([info |-> i, used |-> u, pos |-> p], s)
  PROVE  \/ /\ size[s] # -1 /\ ri[s] # "none" /\ u + 2 <= MaxHandles
            /\ d.pos \in Entries \ i /\ d.info = i \cup {d.pos} /\ d.used = u + 2
         \/ /\ ~(size[s] # -1 /\ ri[s] # "none" /\ u + 2 <= MaxHandles)
            /\ d.pos = -1 /\ d.info = i /\ d.used = u
<1>1. Entries \ i \in SUBSET Nat
  BY DEF Entries
<1>2. Min(Entries \ i) \in Entries \ i
  BY <1>1, LeastInNat
<1> QED
  BY <1>2 DEF Opened

\* g_rand_file_info has more entries than there are stores.
LEMMA EntryFree ==
  ASSUME TypeInv, EntriesInv
  PROVE  Entries \ info # {}
<1>1. info \subseteq {pos["property"], pos["record"], pos["white"]}
  BY DEF EntriesInv, Stores
<1>2. {0, 1, 2, 3} \subseteq Entries
  BY DEF Entries
<1> QED
  BY <1>1, <1>2

-----------------------------------------------------------------------------
\* The effect of the three steps that open a store.
LEMMA OpensNow ==
  ASSUME TypeInv, EntriesInv, at.step \in {"open", "again"},
         SetEntry(Opened(Entry(Now), Now), Now)
  PROVE  /\ Now \in Stores
         /\ \A s \in Stores : s # Now => pos'[s] = pos[s]
         /\ pos' \in [Stores -> Entries \cup {-1}] /\ info' \subseteq Entries /\ used' \in Int
         /\ \/ /\ size[Now] # -1 /\ ri[Now] # "none" /\ used + 2 <= MaxHandles
               /\ pos'[Now] \in Entries \ info /\ info' = info \cup {pos'[Now]} /\ used' = used + 2
            \/ /\ ~(size[Now] # -1 /\ ri[Now] # "none" /\ used + 2 <= MaxHandles)
               /\ pos'[Now] = -1 /\ info' = info /\ used' = used
<1> DEFINE d == Opened(Entry(Now), Now)
<1>1. at.n \in {1, 2, 3} /\ Now \in Stores
  BY NowIs DEF TypeInv, Stores
<1>2. Entry(Now) = [info |-> info, used |-> used, pos |-> pos[Now]] /\ info \in SUBSET Entries
  BY DEF Entry, TypeInv
<1>3. d = Opened([info |-> info, used |-> used, pos |-> pos[Now]], Now)
  BY <1>2
<1>4. info' = d.info /\ used' = d.used /\ pos' = [pos EXCEPT ![Now] = d.pos]
  BY DEF SetEntry
<1> HIDE DEF d
<1>5. \/ /\ size[Now] # -1 /\ ri[Now] # "none" /\ used + 2 <= MaxHandles
         /\ d.pos \in Entries \ info /\ d.info = info \cup {d.pos} /\ d.used = used + 2
      \/ /\ ~(size[Now] # -1 /\ ri[Now] # "none" /\ used + 2 <= MaxHandles)
         /\ d.pos = -1 /\ d.info = info /\ d.used = used
  BY <1>1, <1>2, <1>3, EntryFree, OpenedEffect
<1>6. pos \in [Stores -> Entries \cup {-1}] /\ used \in Int /\ info \subseteq Entries
  BY DEF TypeInv
<1>7. pos'[Now] = d.pos /\ \A s \in Stores : s # Now => pos'[s] = pos[s]
  BY <1>1, <1>4, <1>6
<1>8. pos' \in [Stores -> Entries \cup {-1}] /\ info' \subseteq Entries /\ used' \in Int
  BY <1>1, <1>4, <1>5, <1>6
<1> QED
  BY <1>1, <1>4, <1>5, <1>7, <1>8

\* white_name_init gives back what the white names held before it opens them.
LEMMA Reopens ==
  ASSUME TypeInv, EntriesInv, WhiteNameChange
  PROVE  \E i \in SUBSET Entries, u \in Int :
           /\ i = info \ {pos["white"]}
           /\ u = IF pos["white"] = -1 THEN used ELSE used - 2
           /\ \A s \in Stores : s # "white" => pos'[s] = pos[s]
           /\ pos' \in [Stores -> Entries \cup {-1}] /\ info' \subseteq Entries /\ used' \in Int
           /\ \/ /\ size["white"] # -1 /\ ri["white"] # "none" /\ u + 2 <= MaxHandles
                 /\ pos'["white"] \in Entries \ i /\ info' = i \cup {pos'["white"]} /\ used' = u + 2
              \/ /\ ~(size["white"] # -1 /\ ri["white"] # "none" /\ u + 2 <= MaxHandles)
                 /\ pos'["white"] = -1 /\ info' = i /\ used' = u
<1> DEFINE i == info \ {pos["white"]}
           u == IF pos["white"] = -1 THEN used ELSE used - 2
           e == Shut(Entry("white"))
           d == Opened(e, "white")
<1>1. "white" \in Stores /\ -1 \notin Entries
  BY DEF Stores, Entries
<1>2. pos \in [Stores -> Entries \cup {-1}] /\ used \in Int /\ info \subseteq Entries
  BY DEF TypeInv
<1>3. e = [info |-> i, used |-> u, pos |-> -1]
  <2>1. CASE pos["white"] = -1
    <3>1. i = info
      BY <1>1, <1>2, <2>1
    <3>2. e = [info |-> info, used |-> used, pos |-> pos["white"]]
      BY <2>1 DEF Shut, Entry
    <3> QED
      BY <2>1, <3>1, <3>2
  <2>2. CASE pos["white"] # -1
    BY <2>2 DEF Shut, Entry
  <2> QED
    BY <2>1, <2>2
<1>4. i \in SUBSET Entries /\ u \in Int /\ Entries \ i # {}
  BY <1>2, EntryFree
<1>5. d = Opened([info |-> i, used |-> u, pos |-> -1], "white")
  BY <1>3
<1>6. info' = d.info /\ used' = d.used /\ pos' = [pos EXCEPT !["white"] = d.pos]
  BY DEF WhiteNameChange, SetEntry
<1> HIDE DEF d, e, i, u
<1>7. \/ /\ size["white"] # -1 /\ ri["white"] # "none" /\ u + 2 <= MaxHandles
         /\ d.pos \in Entries \ i /\ d.info = i \cup {d.pos} /\ d.used = u + 2
      \/ /\ ~(size["white"] # -1 /\ ri["white"] # "none" /\ u + 2 <= MaxHandles)
         /\ d.pos = -1 /\ d.info = i /\ d.used = u
  BY <1>1, <1>4, <1>5, OpenedEffect
<1>8. pos'["white"] = d.pos /\ \A s \in Stores : s # "white" => pos'[s] = pos[s]
  BY <1>1, <1>2, <1>6
<1>9. pos' \in [Stores -> Entries \cup {-1}] /\ info' \subseteq Entries /\ used' \in Int
  BY <1>1, <1>2, <1>4, <1>6, <1>7
<1>10. i = info \ {pos["white"]} /\ u = IF pos["white"] = -1 THEN used ELSE used - 2
  BY DEF i, u
<1> QED
  BY <1>4, <1>6, <1>7, <1>8, <1>9, <1>10

-----------------------------------------------------------------------------
\* The step after each step, and the store it belongs to.
LEMMA NextStoreIs ==
  ASSUME TypeInv, at.step # "run"
  PROVE  /\ at.n \in 1 .. 3
         /\ NextStore \in [n : 1 .. 4, step : BootSteps]
         /\ NextStore.n = at.n + 1
         /\ NextStore.step = IF at.n = 3 THEN "run" ELSE "open"
BY DEF TypeInv, NextStore, Running, BootSteps

\* save_card_info writes a slot and its flag; the file grows by at most a slot.
LEMMA SaveEffect ==
  ASSUME TypeInv, EntriesInv, SaveCardInfo, pos["record"] # -1,
         NEW i, i = SlotOf(recordId),
         NEW j, j = IF i <= size["record"] THEN i ELSE size["record"]
  PROVE  /\ i \in Slots /\ j \in Slots
         /\ ring' \in RandFiles(Records)
         /\ ring'.data = [ring.data EXCEPT ![j] = [boot |-> cuts + 1, id |-> recordId]]
         /\ Live(ring') = Live(ring) \cup {i}
         /\ size' = [size EXCEPT !["record"] = IF j + 1 <= @ THEN @ ELSE j + 1]
<1> DEFINE e == [boot |-> cuts + 1, id |-> recordId]
<1>1. i \in Slots
  BY CountAssumption DEF SlotOf, Slots, TypeInv
<1>2. size["record"] \in -1 .. Count /\ size["record"] # -1
  BY DEF TypeInv, EntriesInv, Stores
<1>3. j \in Slots /\ j = Min({i, size["record"]})
  BY <1>1, <1>2, LessOfTwo, CountAssumption DEF Slots
<1>4. e \in Records /\ ring \in RandFiles(Records)
  BY DEF TypeInv, Records
<1> DEFINE put == PutData(ring, j, e)
<1>5. ring' = SetRecordFlag(put, i, USED) /\ size' = [size EXCEPT !["record"] = Max({@, j + 1})]
  BY <1>3 DEF SaveCardInfo, SlotOf
<1> HIDE DEF e
<1>6. /\ put \in RandFiles(Records) /\ Live(put) = Live(ring)
      /\ put.data = [ring.data EXCEPT ![j] = e]
  BY <1>3, <1>4, PutKeepsFlags
<1> HIDE DEF put
<1>7. /\ ring' \in RandFiles(Records) /\ Live(ring') = Live(ring) \cup {i}
      /\ ring'.data = [ring.data EXCEPT ![j] = e]
  BY <1>1, <1>5, <1>6, MarkTakesOne
<1>8. Max({size["record"], j + 1}) = IF j + 1 <= size["record"] THEN size["record"] ELSE j + 1
  <2>1. size["record"] \in Int /\ j + 1 \in Int
    BY <1>2, <1>3, CountAssumption DEF Slots
  <2> QED
    BY <2>1, GreaterOfTwo
<1> QED
  BY <1>1, <1>3, <1>5, <1>7, <1>8 DEF e

\* A page of data that reaches the flash makes the file there no longer than it
\* is, and never shorter.
LEMMA FlushEffect ==
  ASSUME TypeInv, NEW i \in Slots, FlushData(i)
  PROVE  \E k \in -1 .. Count :
           /\ kept["record"] <= k /\ k <= size["record"]
           /\ kept' = [kept EXCEPT !["record"] = k]
           /\ flash' \in RandFiles(Records)
           /\ flash'.data = [flash.data EXCEPT ![i] = ring.data[i]]
<1> DEFINE w == IF i + 1 <= size["record"] THEN i + 1 ELSE size["record"]
           k == IF w <= kept["record"] THEN kept["record"] ELSE w
<1>1. /\ i + 1 \in Int /\ size["record"] \in -1 .. Count /\ kept["record"] \in -1 .. Count
      /\ kept["record"] <= size["record"] /\ i \in 0 .. Count - 1
  BY CountAssumption DEF TypeInv, Slots, Stores
<1>2. Min({i + 1, size["record"]}) = w
  BY <1>1, LessOfTwo
<1>3. w \in Int /\ kept["record"] \in Int /\ k \in -1 .. Count /\ k <= size["record"] /\ kept["record"] <= k
  BY <1>1, CountAssumption
<1> HIDE DEF w
<1>4. Max({kept["record"], w}) = k
  BY <1>3, GreaterOfTwo
<1>5. kept' = [kept EXCEPT !["record"] = k]
  BY <1>2, <1>4 DEF FlushData
<1>6. flash' \in RandFiles(Records) /\ flash'.data = [flash.data EXCEPT ![i] = ring.data[i]]
  BY DEF FlushData, RandFiles, TypeInv
<1> QED
  BY <1>3, <1>5, <1>6

LEMMA TypeInit == Init => TypeInv
<1> SUFFICES ASSUME Init PROVE TypeInv
  OBVIOUS
<1>1. Blank \in Records
  BY DEF Blank, Records
<1>2. ring \in RandFiles(Records) /\ flash \in RandFiles(Records)
  BY <1>1, CreatedIsEmpty DEF Init
<1>3. at = [n |-> 1, step |-> "open"]
  BY DEF Init, Starting
<1>4. size = [s \in Stores |-> -1] /\ kept = size /\ pos = [s \in Stores |-> -1]
      /\ ri = [s \in Stores |-> "none"]
  BY DEF Init
<1>5. recordId = 1 /\ empty \in BOOLEAN /\ cuts = 0 /\ cutIn = {} /\ info = {} /\ used = 0
  BY DEF Init
<1> QED
  BY <1>2, <1>3, <1>4, <1>5, CountAssumption DEF TypeInv, BootSteps, Entries

LEMMA TypeStep == TypeInv /\ FilesInv /\ EntriesInv /\ [Next]_vars => TypeInv'
<1> SUFFICES ASSUME TypeInv, FilesInv, EntriesInv, [Next]_vars PROVE TypeInv'
  OBVIOUS
<1>a. at.step \notin {"run"} => Now \in Stores
  BY NowIs DEF TypeInv, Stores
<1>b. at.n \in 1 .. 4 /\ at.step \in BootSteps
  BY DEF TypeInv
<1>c. "record" \in Stores /\ "white" \in Stores
  BY DEF Stores
<1> USE CountAssumption
<1>1. CASE OpenFirst
  <2>1. pos' \in [Stores -> Entries \cup {-1}] /\ info' \subseteq Entries /\ used' \in Int
    BY <1>1, OpensNow DEF OpenFirst
  <2>2. /\ at' \in [n : 1 .. 4, step : BootSteps]
        /\ at'.n = 4 <=> at'.step = "run"
        /\ at'.step \notin {"open", "run"} => at'.n <= 2
    <3>1. CASE at' = [at EXCEPT !.step = "create"] /\ Now \in Own
      <4>1. at.n # 3 /\ at.n # 4
        BY <1>1, <3>1, NowIs DEF OpenFirst, Own, TypeInv
      <4> QED
        BY <3>1, <4>1, <1>b DEF TypeInv, BootSteps
    <3>2. CASE at' = NextStore
      BY <1>1, <1>b, <3>2, NextStoreIs DEF OpenFirst
    <3> QED
      BY <1>1, <3>1, <3>2 DEF OpenFirst, Step
  <2> QED
    BY <1>1, <2>1, <2>2 DEF OpenFirst, fileVars, ringVars, TypeInv
<1>2. CASE CreateRefused
  BY <1>2, <1>b, NextStoreIs DEF CreateRefused, fileVars, ringVars, TypeInv
<1>3. CASE CreateRi
  BY <1>3, <1>a, <1>b DEF CreateRi, Step, ringVars, TypeInv, BootSteps
<1>4. CASE CloseRi
  BY <1>4, <1>a, <1>b DEF CloseRi, Step, ringVars, TypeInv, BootSteps
<1>5. CASE CreateData
  BY <1>5, <1>a, <1>b DEF CreateData, Step, ringVars, TypeInv, BootSteps
<1>6. CASE CloseData
  BY <1>6, <1>a, <1>b DEF CloseData, Step, ringVars, TypeInv, BootSteps
<1>7. CASE OpenAgain
  <2>1. pos' \in [Stores -> Entries \cup {-1}] /\ info' \subseteq Entries /\ used' \in Int
    BY <1>7, OpensNow DEF OpenAgain
  <2> QED
    BY <1>7, <1>b, <2>1, NextStoreIs DEF OpenAgain, fileVars, ringVars, TypeInv
<1>8. CASE SaveCardInfo
  <2>1. CASE pos["record"] = -1
    BY <1>8, <2>1 DEF SaveCardInfo, TypeInv
  <2>2. CASE pos["record"] # -1
    <3> DEFINE i == SlotOf(recordId)
               j == IF i <= size["record"] THEN i ELSE size["record"]
    <3>1. /\ j \in Slots /\ ring' \in RandFiles(Records)
          /\ size' = [size EXCEPT !["record"] = IF j + 1 <= @ THEN @ ELSE j + 1]
      BY <1>8, <2>2, SaveEffect
    <3> HIDE DEF j
    <3>2. size' \in [Stores -> -1 .. Count] /\ \A s \in Stores : size[s] <= size'[s]
      BY <3>1, <1>c DEF Slots, TypeInv
    <3>3. recordId' = recordId + 1 /\ UNCHANGED <<ri, kept, at, pos, info, used, flash, empty, cuts, cutIn, old>>
      BY <1>8 DEF SaveCardInfo
    <3>4. \A s \in Stores : kept'[s] <= size'[s]
      BY <3>2, <3>3 DEF TypeInv
    <3> QED
      BY <3>1, <3>2, <3>3, <3>4 DEF TypeInv
  <2> QED
    BY <2>1, <2>2
<1>9. CASE FlushFlags
  <2>1. flash' \in RandFiles(Records)
    BY <1>9 DEF FlushFlags, RandFiles, TypeInv
  <2> QED
    BY <1>9, <2>1 DEF FlushFlags, fileVars, TypeInv
<1>10. ASSUME NEW i \in Slots, FlushData(i) PROVE TypeInv'
  <2>1. PICK k \in -1 .. Count :
          /\ kept["record"] <= k /\ k <= size["record"]
          /\ kept' = [kept EXCEPT !["record"] = k] /\ flash' \in RandFiles(Records)
    BY <1>10, FlushEffect
  <2>2. kept' \in [Stores -> -1 .. Count] /\ \A s \in Stores : kept'[s] <= size[s]
    BY <1>c, <2>1 DEF TypeInv
  <2>3. UNCHANGED <<ri, size, at, pos, info, used, ring, recordId, old, empty, cuts, cutIn>>
    BY <1>10 DEF FlushData
  <2> QED
    BY <2>1, <2>2, <2>3 DEF TypeInv
<1>11. CASE Upload
  BY <1>11, <1>c DEF Upload, ringVars, TypeInv
<1>12. CASE WhiteNameChange
  <2>1. pos' \in [Stores -> Entries \cup {-1}] /\ info' \subseteq Entries /\ used' \in Int
    BY <1>12, Reopens
  <2> QED
    BY <1>12, <2>1 DEF WhiteNameChange, fileVars, ringVars, TypeInv
<1>13. CASE SearchHoliday
  BY <1>13 DEF SearchHoliday, fileVars, ringVars, TypeInv
<1>14. CASE PowerCycle
  <2>1. PICK n \in [Stores -> -1 .. Count] : size' = n /\ kept' = n
    BY <1>14 DEF PowerCycle
  <2>2. \A s \in Stores : kept'[s] <= size'[s]
    BY <2>1
  <2>3. cutIn' \subseteq Stores
    BY <1>14, <1>a DEF PowerCycle, TypeInv
  <2>4. at' = [n |-> 1, step |-> "open"] /\ pos' = [s \in Stores |-> -1] /\ info' = {} /\ used' = 0
        /\ ring' = flash /\ recordId' = 1 /\ cuts' = cuts + 1 /\ UNCHANGED <<ri, flash, empty>>
    BY <1>14 DEF PowerCycle, Starting
  <2> QED
    BY <2>1, <2>2, <2>3, <2>4 DEF TypeInv, BootSteps
<1>15. CASE UNCHANGED vars
  BY <1>15 DEF vars, TypeInv
<1> QED
  BY <1>1, <1>2, <1>3, <1>4, <1>5, <1>6, <1>7, <1>8, <1>9, <1>10, <1>11, <1>12, <1>13, <1>14, <1>15
     DEF Next, Boot

-----------------------------------------------------------------------------
\* While a store is opened there are handles for it.
LEMMA HandlesAtBoot ==
  ASSUME TypeInv, EntriesInv, HandleInv, at.step \in {"open", "again"}
  PROVE  used + 2 <= MaxHandles
<1>1. at.n \in {1, 2, 3} /\ at # Running /\ FileInMaking = 0
  BY DEF TypeInv, Running, FileInMaking
<1>2. Cost["white"] = 0 /\ Cost["property"] \in {0, 1, 2} /\ Cost["record"] \in {0, 1, 2}
  BY <1>1 DEF EntriesInv, Cost, Passed, Stores
<1>3. used \in Int /\ used <= Cost["property"] + Cost["record"] + Cost["white"] + FileInMaking
  BY <1>1 DEF HandleInv, TypeInv
<1> QED
  BY <1>1, <1>2, <1>3, BoundsAssumption

LEMMA FilesInit == Init => FilesInv
BY NowIs DEF Init, FilesInv, Starting, Own, Stores, BeingMade

LEMMA FilesStep == Inv /\ [Next]_vars => FilesInv'
<1> SUFFICES ASSUME TypeInv, FilesInv, EntriesInv, OpenInv, HandleInv, [Next]_vars PROVE FilesInv'
  BY DEF Inv
<1> USE DEF FilesInv, BeingMade
<1>a. at.step # "run" => at.n \in 1 .. 3 /\ Now \in Stores
  BY NowIs DEF TypeInv, Stores
<1>b. at.step \in {"create", "ri", "data", "close", "again"} => Now \in Own
  BY NowIs DEF TypeInv, Stores, Own
<1>c. at \in [n : 1 .. 4, step : BootSteps] /\ (at.n = 4 <=> at.step = "run")
  BY DEF TypeInv
<1>d. ri \in [Stores -> {"none", "torn", "whole"}]
      /\ size \in [Stores -> -1 .. Count] /\ kept \in [Stores -> -1 .. Count] /\ Own \subseteq Stores
      /\ "white" \in Stores \ Own /\ "record" \in Own
  BY DEF TypeInv, Own, Stores
<1>1. CASE OpenFirst
  <2>1. UNCHANGED <<ri, size, kept, cutIn>> /\ at.step = "open"
    BY <1>1 DEF OpenFirst, fileVars
  <2>2. CASE at' = NextStore
    <3>1. at'.step \in {"open", "run"}
      BY <2>1, <2>2, NextStoreIs
    <3> QED
      BY <2>1, <3>1
  <2>3. CASE at' = [at EXCEPT !.step = "create"] /\ pos'[Now] = -1 /\ Now \in Own
    <3>1. at'.step = "create" /\ at'.n = at.n
      BY <1>c, <2>3
    <3>2. Now' = Now
      BY <3>1 DEF Now
    <3>3. ~(size[Now] # -1 /\ ri[Now] # "none" /\ used + 2 <= MaxHandles)
      BY <1>1, <2>1, <2>3, OpensNow DEF OpenFirst, Entries
    <3>4. ~(size[Now] # -1 /\ ri[Now] # "none")
      BY <2>1, <3>3, HandlesAtBoot
    <3>5. Now \notin cutIn => ri[Now] = "none"
      BY <2>1, <2>3, <3>4, CountAssumption
    <3> QED
      BY <2>1, <3>1, <3>2, <3>5
  <2> QED
    BY <1>1, <2>2, <2>3 DEF OpenFirst, Step
<1>2. CASE CreateRefused
  <2>1. at'.step \in {"open", "run"}
    BY <1>2, NextStoreIs DEF CreateRefused
  <2> QED
    BY <1>2, <2>1 DEF CreateRefused, fileVars
<1>3. CASE CreateRi
  <2>1. at'.step = "ri" /\ Now' = Now /\ ri' = [ri EXCEPT ![Now] = "torn"] /\ at.step = "create"
        /\ ri[Now] = "none" /\ UNCHANGED <<size, kept, cutIn>>
    BY <1>3, <1>c DEF CreateRi, Step, Now
  <2> QED
    BY <1>b, <1>d, <2>1
<1>4. CASE CloseRi
  <2>1. at'.step = "data" /\ Now' = Now /\ ri' = [ri EXCEPT ![Now] = "whole"] /\ at.step = "ri"
        /\ size' = [size EXCEPT ![Now] = -1] /\ kept' = [kept EXCEPT ![Now] = -1] /\ cutIn' = cutIn
    BY <1>4, <1>c DEF CloseRi, Step, Now
  <2> QED
    BY <1>b, <1>d, <2>1
<1>5. CASE CreateData
  <2>1. at'.step = "close" /\ Now' = Now /\ at.step = "data"
        /\ size' = [size EXCEPT ![Now] = Count] /\ kept' = [kept EXCEPT ![Now] = 0]
        /\ UNCHANGED <<ri, cutIn>>
    BY <1>5, <1>c DEF CreateData, Step, Now
  <2> QED
    BY <1>b, <1>d, <2>1
<1>6. CASE CloseData
  <2>1. at'.step = "again" /\ Now' = Now /\ at.step = "close"
        /\ kept' = [kept EXCEPT ![Now] = size[Now]] /\ UNCHANGED <<ri, size, cutIn>>
    BY <1>6, <1>c DEF CloseData, Step, Now
  <2> QED
    BY <1>b, <1>d, <2>1
<1>7. CASE OpenAgain
  <2>1. at'.step \in {"open", "run"} /\ at.step = "again" /\ UNCHANGED <<ri, size, kept, cutIn>>
    BY <1>7, NextStoreIs DEF OpenAgain, fileVars
  <2> QED
    BY <1>b, <2>1
<1>8. CASE SaveCardInfo
  <2>1. UNCHANGED <<ri, kept, at, cutIn>> /\ at.step = "run"
    BY <1>8 DEF SaveCardInfo, Running
  <2>2. CASE pos["record"] = -1
    BY <1>8, <2>1, <2>2 DEF SaveCardInfo, Now
  <2>3. CASE pos["record"] # -1
    <3> DEFINE i == SlotOf(recordId)
               j == IF i <= size["record"] THEN i ELSE size["record"]
    <3>1. j \in Slots /\ size' = [size EXCEPT !["record"] = IF j + 1 <= @ THEN @ ELSE j + 1]
      BY <1>8, <2>3, SaveEffect
    <3>2. ri["record"] = "whole"
      BY <1>d, <2>3 DEF EntriesInv
    <3> HIDE DEF j
    <3>3. size["record"] = Count => size' = size
      BY <1>d, <3>1, CountAssumption DEF Slots
    <3>4. \A s \in Own : s # "record" => size'[s] = size[s]
      BY <1>d, <3>1
    <3> QED
      BY <1>d, <2>1, <3>2, <3>3, <3>4
  <2> QED
    BY <2>2, <2>3
<1>9. CASE FlushFlags
  BY <1>9 DEF FlushFlags, fileVars, Now
<1>10. ASSUME NEW i \in Slots, FlushData(i) PROVE FilesInv'
  <2>1. PICK k \in -1 .. Count :
          kept["record"] <= k /\ k <= size["record"] /\ kept' = [kept EXCEPT !["record"] = k]
    BY <1>10, FlushEffect
  <2>2. UNCHANGED <<ri, size, at, cutIn>> /\ Now' = Now
    BY <1>10 DEF FlushData, Now
  <2>3. \A s \in Stores : kept[s] = Count => kept'[s] = Count
    BY <1>d, <2>1, CountAssumption
  <2> QED
    BY <1>b, <1>d, <2>2, <2>3
<1>11. CASE Upload
  <2>1. /\ ri'["white"] \in {"none", "whole"}
        /\ \A s \in Own : ri'[s] = ri[s] /\ size'[s] = size[s] /\ kept'[s] = kept[s]
        /\ at' = at /\ cutIn' = cutIn /\ at.step = "run"
    BY <1>11, <1>d DEF Upload, Running
  <2> QED
    BY <1>d, <2>1
<1>12. CASE WhiteNameChange
  BY <1>12 DEF WhiteNameChange, fileVars, Now
<1>13. CASE SearchHoliday
  BY <1>13 DEF SearchHoliday, fileVars, Now
<1>14. CASE PowerCycle
  <2>1. at'.step = "open" /\ ri' = ri
    BY <1>14 DEF PowerCycle, Starting
  <2>2. \A s \in Stores : kept[s] <= size'[s] /\ size'[s] <= size[s] /\ kept'[s] = size'[s]
                          /\ size'[s] \in -1 .. Count
    BY <1>14 DEF PowerCycle
  <2>3. \A s \in Own : size[s] = -1 => size'[s] = -1
    BY <1>d, <2>2, CountAssumption
  <2>4. \A s \in Own : kept[s] = Count => size'[s] = Count /\ kept'[s] = Count
    BY <1>d, <2>2, CountAssumption
  <2>5. \A s \in Own \ cutIn' : s \notin cutIn /\ ~(at.step \in {"ri", "data", "close"} /\ s = Now)
    BY <1>14, <1>c DEF PowerCycle
  <2>6. \A s \in Own \ cutIn' :
          ri[s] = "none" \/ (ri[s] = "whole" /\ size[s] = Count /\ kept[s] = Count)
    BY <2>5
  <2> QED
    BY <2>1, <2>3, <2>4, <2>6
<1>15. CASE UNCHANGED vars
  BY <1>15 DEF vars, Now
<1> QED
  BY <1>1, <1>2, <1>3, <1>4, <1>5, <1>6, <1>7, <1>8, <1>9, <1>10, <1>11, <1>12, <1>13, <1>14, <1>15
     DEF Next, Boot

-----------------------------------------------------------------------------
LEMMA EntriesInit == Init => EntriesInv
<1> SUFFICES ASSUME Init PROVE EntriesInv
  OBVIOUS
<1>1. \A s \in Stores : pos[s] = -1
  BY DEF Init
<1>2. info = {} /\ "property" \in Stores /\ "record" \in Stores /\ "white" \in Stores
  BY DEF Init, Stores
<1> QED
  BY <1>1, <1>2 DEF EntriesInv

\* A store takes an entry that no other store has.
LEMMA EntryTaken ==
  ASSUME NEW p \in [Stores -> Entries \cup {-1}], NEW q \in [Stores -> Entries \cup {-1}],
         NEW i, NEW s \in Stores, NEW e \in Entries \ i,
         \A t \in Stores : t # s => q[t] = p[t],
         \A t, u \in Stores : p[t] = p[u] /\ p[t] # -1 => t = u,
         i = {p[t] : t \in Stores \ {s}} \ {-1}, q[s] = e
  PROVE  /\ \A t, u \in Stores : q[t] = q[u] /\ q[t] # -1 => t = u
         /\ i \cup {e} = {q[t] : t \in Stores} \ {-1}
<1>1. -1 \notin Entries
  BY DEF Entries
<1>2. \A t \in Stores \ {s} : q[t] = p[t] /\ q[t] # e
  BY <1>1
<1> QED
  BY <1>1, <1>2

LEMMA EntriesStep == Inv /\ [Next]_vars => EntriesInv'
<1> SUFFICES ASSUME TypeInv, FilesInv, EntriesInv, OpenInv, HandleInv, [Next]_vars
             PROVE  EntriesInv'
  BY DEF Inv
<1>a. at.step # "run" => at.n \in 1 .. 3 /\ Now \in Stores
  BY NowIs DEF TypeInv, Stores
<1>b. at \in [n : 1 .. 4, step : BootSteps] /\ (at.n = 4 <=> at.step = "run")
      /\ (at.step \notin {"open", "run"} => at.n <= 2)
  BY DEF TypeInv
<1>c. /\ ri \in [Stores -> {"none", "torn", "whole"}] /\ size \in [Stores -> -1 .. Count]
      /\ pos \in [Stores -> Entries \cup {-1}] /\ -1 \notin Entries
      /\ "white" \in Stores /\ "record" \in Stores /\ "property" \in Stores
  BY DEF TypeInv, Stores, Entries
<1>d. \A s \in Stores : ri[s] # "none" /\ size[s] # -1 => ri[s] = "whole"
  BY <1>c DEF FilesInv, Own, Stores
<1>1. ASSUME at.step \in {"open", "again"}, SetEntry(Opened(Entry(Now), Now), Now),
             UNCHANGED <<ri, size>>,
             (at' = [at EXCEPT !.step = "create"] /\ pos'[Now] = -1) \/ at' = NextStore
      PROVE  EntriesInv'
  <2>1. /\ Now \in Stores
        /\ \A s \in Stores : s # Now => pos'[s] = pos[s]
        /\ pos' \in [Stores -> Entries \cup {-1}]
        /\ \/ /\ size[Now] # -1 /\ ri[Now] # "none"
              /\ pos'[Now] \in Entries \ info /\ info' = info \cup {pos'[Now]}
           \/ pos'[Now] = -1 /\ info' = info
    BY <1>1, OpensNow
  <2>2. pos[Now] = -1
    BY <1>1, <1>a, <1>b, NowIs DEF EntriesInv
  <2>3. info = {pos[t] : t \in Stores \ {Now}} \ {-1}
    BY <2>1, <2>2 DEF EntriesInv
  <2>4. /\ \A s, t \in Stores : pos'[s] = pos'[t] /\ pos'[s] # -1 => s = t
        /\ info' = {pos'[s] : s \in Stores} \ {-1}
    <3>1. CASE pos'[Now] = -1
      <4>1. \A s \in Stores : pos'[s] = pos[s]
        BY <2>1, <2>2, <3>1
      <4>2. info' = info
        BY <1>c, <2>1, <3>1
      <4> QED
        BY <4>1, <4>2 DEF EntriesInv
    <3>2. CASE pos'[Now] # -1
      <4>1. pos'[Now] \in Entries \ info /\ info' = info \cup {pos'[Now]}
        BY <2>1, <3>2
      <4>2. \A s, t \in Stores : pos[s] = pos[t] /\ pos[s] # -1 => s = t
        BY DEF EntriesInv
      <4> QED
        BY <1>c, <2>1, <2>3, <4>1, <4>2, EntryTaken
    <3> QED
      BY <3>1, <3>2
  <2>5. \A s \in Stores : pos'[s] # -1 => ri'[s] = "whole" /\ size'[s] # -1
    BY <1>1, <1>d, <2>1 DEF EntriesInv
  <2>6. /\ at'.n <= 3 => pos'["white"] = -1
        /\ at'.n <= 2 => pos'["record"] = -1
        /\ at'.n = 1 => pos'["property"] = -1
    <3>1. CASE at'.n = at.n /\ pos'[Now] = -1
      BY <1>c, <2>1, <3>1 DEF EntriesInv
    <3>2. CASE at'.n = at.n + 1
      BY <1>1, <1>a, <1>c, <2>1, <3>2, NowIs DEF EntriesInv
    <3> QED
      BY <1>1, <1>b, <3>1, <3>2, NextStoreIs
  <2> QED
    BY <2>4, <2>5, <2>6 DEF EntriesInv
<1>2. CASE OpenFirst
  <2>1. SetEntry(Opened(Entry(Now), Now), Now) /\ UNCHANGED <<ri, size>> /\ at.step = "open"
    BY <1>2 DEF OpenFirst, fileVars
  <2>2. (at' = [at EXCEPT !.step = "create"] /\ pos'[Now] = -1) \/ at' = NextStore
    BY <1>2 DEF OpenFirst, Step
  <2> QED
    BY <1>1, <2>1, <2>2
<1>3. CASE OpenAgain
  BY <1>1, <1>3 DEF OpenAgain, fileVars
<1>4. CASE CreateRefused
  <2>1. at'.n = at.n + 1 /\ UNCHANGED <<pos, info, ri, size>> /\ at.step = "create"
    BY <1>4, NextStoreIs DEF CreateRefused, fileVars
  <2> QED
    BY <1>b, <2>1 DEF EntriesInv
<1>5. CASE CreateRi \/ CloseRi \/ CreateData \/ CloseData
  <2>1. at'.n = at.n /\ pos' = pos /\ info' = info /\ at.step \in {"create", "ri", "data", "close"}
    BY <1>5, <1>b DEF CreateRi, CloseRi, CreateData, CloseData, Step
  <2>2. pos[Now] = -1
    BY <1>a, <1>b, <2>1, NowIs DEF EntriesInv
  <2>3. \A s \in Stores : s # Now => ri'[s] = ri[s] /\ size'[s] = size[s]
    BY <1>5, <1>a, <1>c, <2>1 DEF CreateRi, CloseRi, CreateData, CloseData
  <2> QED
    BY <2>1, <2>2, <2>3 DEF EntriesInv
<1>6. CASE SaveCardInfo
  <2>1. UNCHANGED <<ri, at, pos, info>>
    BY <1>6 DEF SaveCardInfo
  <2>2. \A s \in Stores : size[s] # -1 => size'[s] # -1
    <3>1. CASE pos["record"] = -1
      BY <1>6, <3>1 DEF SaveCardInfo
    <3>2. CASE pos["record"] # -1
      <4> DEFINE i == SlotOf(recordId)
                 j == IF i <= size["record"] THEN i ELSE size["record"]
      <4>1. j \in Slots /\ size' = [size EXCEPT !["record"] = IF j + 1 <= @ THEN @ ELSE j + 1]
        BY <1>6, <3>2, SaveEffect
      <4> HIDE DEF j
      <4> QED
        BY <1>c, <4>1, CountAssumption DEF Slots
    <3> QED
      BY <3>1, <3>2
  <2> QED
    BY <2>1, <2>2 DEF EntriesInv
<1>7. CASE FlushFlags \/ (\E i \in Slots : FlushData(i)) \/ SearchHoliday
  BY <1>7 DEF FlushFlags, FlushData, SearchHoliday, fileVars, EntriesInv
<1>8. CASE Upload
  <2>1. UNCHANGED <<at, pos, info>>
    BY <1>8 DEF Upload
  <2>2. \A s \in Stores : ri[s] = "whole" => ri'[s] = "whole"
    BY <1>8, <1>c DEF Upload
  <2>3. \A s \in Stores : size[s] # -1 => size'[s] # -1
    BY <1>8, <1>c, CountAssumption DEF Upload
  <2> QED
    BY <2>1, <2>2, <2>3 DEF EntriesInv
<1>9. CASE WhiteNameChange
  <2>1. UNCHANGED <<ri, size, at>> /\ at.n = 4
    BY <1>9 DEF WhiteNameChange, fileVars, Running
  <2>2. /\ \A s \in Stores : s # "white" => pos'[s] = pos[s]
        /\ pos' \in [Stores -> Entries \cup {-1}]
        /\ \/ /\ size["white"] # -1 /\ ri["white"] # "none"
              /\ pos'["white"] \in Entries \ (info \ {pos["white"]})
              /\ info' = (info \ {pos["white"]}) \cup {pos'["white"]}
           \/ pos'["white"] = -1 /\ info' = info \ {pos["white"]}
    BY <1>9, Reopens
  <2>3. info \ {pos["white"]} = {pos[t] : t \in Stores \ {"white"}} \ {-1}
    BY <1>c DEF EntriesInv
  <2>4. /\ \A s, t \in Stores : pos'[s] = pos'[t] /\ pos'[s] # -1 => s = t
        /\ info' = {pos'[s] : s \in Stores} \ {-1}
    <3>1. CASE pos'["white"] = -1
      <4>1. info' = {pos[t] : t \in Stores \ {"white"}} \ {-1}
        BY <1>c, <2>2, <2>3, <3>1
      <4>2. info' = {pos'[s] : s \in Stores} \ {-1}
        BY <2>2, <3>1, <4>1
      <4> QED
        BY <2>2, <3>1, <4>2 DEF EntriesInv
    <3>2. CASE pos'["white"] # -1
      <4> DEFINE i == info \ {pos["white"]}
      <4>1. pos'["white"] \in Entries \ i /\ info' = i \cup {pos'["white"]}
            /\ i = {pos[t] : t \in Stores \ {"white"}} \ {-1}
        BY <2>2, <2>3, <3>2
      <4>2. \A s, t \in Stores : pos[s] = pos[t] /\ pos[s] # -1 => s = t
        BY DEF EntriesInv
      <4> HIDE DEF i
      <4> QED
        BY <1>c, <2>2, <4>1, <4>2, EntryTaken
    <3> QED
      BY <3>1, <3>2
  <2>5. \A s \in Stores : pos'[s] # -1 => ri'[s] = "whole" /\ size'[s] # -1
    BY <1>d, <2>1, <2>2 DEF EntriesInv
  <2> QED
    BY <2>1, <2>4, <2>5 DEF EntriesInv
<1>10. CASE PowerCycle
  <2>1. (\A s \in Stores : pos'[s] = -1) /\ info' = {}
    BY <1>10 DEF PowerCycle
  <2> QED
    BY <1>c, <2>1 DEF EntriesInv
<1>11. CASE UNCHANGED vars
  BY <1>11 DEF vars, EntriesInv
<1> QED
  BY <1>2, <1>3, <1>4, <1>5, <1>6, <1>7, <1>8, <1>9, <1>10, <1>11 DEF Next, Boot

-----------------------------------------------------------------------------
LEMMA OpenInit == Init => OpenInv
BY DEF Init, OpenInv, Passed, Starting

LEMMA OpenStep == Inv /\ [Next]_vars => OpenInv'
<1> SUFFICES ASSUME TypeInv, FilesInv, EntriesInv, OpenInv, HandleInv, [Next]_vars PROVE OpenInv'
  BY DEF Inv
<1> USE DEF OpenInv
<1>a. at.step # "run" => at.n \in 1 .. 3 /\ Now \in Stores
  BY NowIs DEF TypeInv, Stores
<1>b. at \in [n : 1 .. 4, step : BootSteps] /\ (at.n = 4 <=> at.step = "run")
      /\ (at.step \notin {"open", "run"} => at.n <= 2)
  BY DEF TypeInv
<1>c. Own = {"property", "record"} /\ Own \subseteq Stores /\ "white" \in Stores \ Own
  BY DEF Own, Stores
\* the store that has just been passed is the one that was being opened
<1>d. ASSUME at.step # "run", at'.n = at.n + 1, NEW s \in Own, Passed(s)'
      PROVE  Passed(s) \/ s = Now
  BY <1>d, <1>a, NowIs DEF Passed
<1>e. ASSUME at'.n = at.n, \A s \in Own : pos[s] # -1 => pos'[s] # -1, cutIn' = cutIn PROVE OpenInv'
  BY <1>e DEF Passed
<1>1. CASE OpenFirst
  <2>1. \A s \in Stores : s # Now => pos'[s] = pos[s]
    BY <1>1, OpensNow DEF OpenFirst
  <2>2. at.step = "open" /\ cutIn' = cutIn
    BY <1>1 DEF OpenFirst
  <2>3. CASE at' = NextStore /\ ~(pos'[Now] = -1 /\ Now \in Own)
    BY <1>c, <1>d, <2>1, <2>2, <2>3, NextStoreIs
  <2>4. CASE at' = [at EXCEPT !.step = "create"]
    <3>1. at'.n = at.n
      BY <1>b, <2>4
    <3>2. ~Passed(Now)
      BY <1>a, <1>b, <2>2, NowIs DEF Passed
    <3> QED
      BY <1>c, <2>1, <2>2, <3>1, <3>2 DEF Passed
  <2> QED
    BY <1>1, <2>3, <2>4 DEF OpenFirst, Step
<1>2. CASE CreateRefused
  <2>1. at'.n = at.n + 1 /\ at.step = "create" /\ pos' = pos /\ cutIn' = cutIn /\ ri[Now] # "none"
    BY <1>2, NextStoreIs DEF CreateRefused
  <2>2. Now \in cutIn
    BY <2>1 DEF FilesInv
  <2> QED
    BY <1>d, <2>1, <2>2
<1>3. CASE CreateRi \/ CloseRi \/ CreateData \/ CloseData
  BY <1>3, <1>b, <1>e DEF CreateRi, CloseRi, CreateData, CloseData, Step
<1>4. CASE OpenAgain
  <2>1. at'.n = at.n + 1 /\ at.step = "again" /\ cutIn' = cutIn
    BY <1>4, NextStoreIs DEF OpenAgain
  <2>2. ri[Now] = "whole" /\ size[Now] = Count /\ used + 2 <= MaxHandles
    BY <2>1, HandlesAtBoot DEF FilesInv
  <2>3. pos'[Now] \in Entries /\ \A s \in Stores : s # Now => pos'[s] = pos[s]
    BY <1>4, <2>2, OpensNow, CountAssumption DEF OpenAgain
  <2>4. pos'[Now] # -1
    BY <2>3 DEF Entries
  <2> QED
    BY <1>c, <1>d, <2>1, <2>3, <2>4
<1>5. CASE SaveCardInfo \/ FlushFlags \/ (\E i \in Slots : FlushData(i)) \/ Upload \/ SearchHoliday
  BY <1>5, <1>e DEF SaveCardInfo, FlushFlags, FlushData, Upload, SearchHoliday
<1>6. CASE WhiteNameChange
  <2>1. \A s \in Stores : s # "white" => pos'[s] = pos[s]
    BY <1>6, Reopens
  <2> QED
    BY <1>6, <1>c, <1>e, <2>1 DEF WhiteNameChange
<1>7. CASE PowerCycle
  BY <1>7 DEF PowerCycle, Starting, Passed
<1>8. CASE UNCHANGED vars
  BY <1>8, <1>e DEF vars
<1> QED
  BY <1>1, <1>2, <1>3, <1>4, <1>5, <1>6, <1>7, <1>8 DEF Next, Boot

-----------------------------------------------------------------------------
LEMMA Balance ==
  ASSUME NEW u \in Int, NEW v \in Int, NEW f \in Int, NEW g \in Int, NEW c \in Int,
         u <= c + f, v + f <= u + g
  PROVE  v <= c + g
OBVIOUS

LEMMA CostIs ==
  /\ \A s \in Stores : Cost[s] = IF pos[s] # -1 THEN 2 ELSE IF Passed(s) THEN 1 ELSE 0
  /\ Cost \in [Stores -> {0, 1, 2}]
  /\ FileInMaking \in {0, 1}
BY DEF Cost, FileInMaking

LEMMA HandleInit == Init => HandleInv
<1> SUFFICES ASSUME Init PROVE HandleInv
  OBVIOUS
<1>1. used = 0 /\ Cost \in [Stores -> {0, 1, 2}] /\ FileInMaking \in {0, 1}
  BY CostIs DEF Init
<1>2. Cost["property"] \in {0, 1, 2} /\ Cost["record"] \in {0, 1, 2} /\ Cost["white"] \in {0, 1, 2}
  BY <1>1 DEF Stores
<1> QED
  BY <1>1, <1>2 DEF HandleInv

LEMMA HandleStep == Inv /\ [Next]_vars => HandleInv'
<1> SUFFICES ASSUME TypeInv, FilesInv, EntriesInv, OpenInv, HandleInv, [Next]_vars
             PROVE  HandleInv'
  BY DEF Inv
<1> DEFINE sum == Cost["property"] + Cost["record"] + Cost["white"]
<1>a. at.step # "run" => at.n \in 1 .. 3 /\ Now \in Stores
  BY NowIs DEF TypeInv, Stores
<1>b. at \in [n : 1 .. 4, step : BootSteps] /\ (at.n = 4 <=> at.step = "run")
      /\ (at.step \notin {"open", "run"} => at.n <= 2) /\ used \in Int
      /\ (at = Running <=> at.step = "run")
  BY DEF TypeInv, Running
<1>c. Stores = {"property", "record", "white"}
  BY DEF Stores
<1>d. Cost \in [Stores -> {0, 1, 2}] /\ Cost' \in [Stores -> {0, 1, 2}]
      /\ FileInMaking \in {0, 1} /\ FileInMaking' \in {0, 1}
  BY DEF Cost, FileInMaking
<1>e. /\ \A s \in Stores : Cost[s] = IF pos[s] # -1 THEN 2 ELSE IF Passed(s) THEN 1 ELSE 0
      /\ \A s \in Stores :
           Cost'[s] = IF pos'[s] # -1 THEN 2
                      ELSE IF (s = "property" /\ at'.n >= 2) \/ (s = "record" /\ at'.n >= 3)
                           THEN 1 ELSE 0
  BY DEF Cost, Passed
\* a step of the creation of a file
<1>f. ASSUME at.step # "run", at'.n = at.n, pos' = pos,
             used' + FileInMaking <= used + FileInMaking', used' \in Int
      PROVE  HandleInv'
  <2>1. /\ Cost'["property"] = Cost["property"] /\ Cost'["record"] = Cost["record"]
        /\ Cost'["white"] = Cost["white"]
    BY <1>c, <1>e, <1>f DEF Passed
  <2>2. used <= sum + FileInMaking
    BY <1>b, <1>f DEF HandleInv
  <2>3. Cost["property"] \in Int /\ Cost["record"] \in Int /\ Cost["white"] \in Int
        /\ used \in Int /\ used' \in Int
    BY <1>b, <1>c, <1>d, <1>f
  <2>4. used' <= Cost'["property"] + Cost'["record"] + Cost'["white"] + FileInMaking'
    <3>1. sum \in Int /\ used <= sum + FileInMaking
      BY <2>2, <2>3
    <3>2. sum = Cost'["property"] + Cost'["record"] + Cost'["white"]
      BY <2>1
    <3> HIDE DEF sum
    <3>3. FileInMaking \in Int /\ FileInMaking' \in Int /\ used' + FileInMaking <= used + FileInMaking'
      BY <1>d, <1>f
    <3>4. used' <= sum + FileInMaking'
      BY <2>3, <3>1, <3>3, Balance
    <3> QED
      BY <3>2, <3>4
  <2> QED
    BY <2>4 DEF HandleInv
\* the end of the turn of a store
<1>g. ASSUME at.step \in {"open", "create", "again"}, at'.n = at.n + 1, at'.step \in {"open", "run"},
             \A s \in Stores : s # Now => pos'[s] = pos[s],
             used' - used <= Cost'[Now], used' \in Int
      PROVE  HandleInv'
  <2>1. pos[Now] = -1 /\ ~Passed(Now)
    BY <1>a, <1>b, <1>g, NowIs DEF EntriesInv, Passed
  <2>2. Cost[Now] = 0 /\ FileInMaking = 0 /\ FileInMaking' = 0
    BY <1>a, <1>b, <1>e, <1>g, <2>1 DEF FileInMaking
  <2>3. \A s \in Stores : s # Now => Cost[s] <= Cost'[s]
    BY <1>b, <1>e, <1>g DEF Passed
  <2>4. used <= sum
    BY <1>b, <1>c, <1>d, <1>g, <2>2 DEF HandleInv
  <2> QED
    BY <1>a, <1>b, <1>c, <1>d, <1>g, <2>2, <2>3, <2>4 DEF HandleInv
<1>1. CASE OpenFirst
  <2>1. /\ \A s \in Stores : s # Now => pos'[s] = pos[s]
        /\ used' \in Int /\ Now \in Stores /\ at.step = "open"
        /\ (pos'[Now] # -1 /\ used' = used + 2) \/ (pos'[Now] = -1 /\ used' = used)
    BY <1>1, OpensNow DEF OpenFirst, Entries
  <2>2. CASE at' = NextStore
    <3>1. used' - used <= Cost'[Now]
      BY <1>b, <1>d, <1>e, <2>1
    <3> QED
      BY <1>g, <2>1, <2>2, <3>1, NextStoreIs
  <2>3. CASE at' = [at EXCEPT !.step = "create"] /\ pos'[Now] = -1
    <3>1. at'.n = at.n /\ at'.step = "create" /\ used' = used
      BY <1>b, <2>1, <2>3
    <3>2. pos[Now] = -1
      BY <1>a, <1>b, <2>1, NowIs DEF EntriesInv
    <3>3. pos' = pos
      <4>1. pos \in [Stores -> Entries \cup {-1}] /\ pos' \in [Stores -> Entries \cup {-1}]
        BY <1>1, OpensNow DEF OpenFirst, TypeInv
      <4> QED
        BY <2>1, <2>3, <3>2, <4>1
    <3>4. FileInMaking' = FileInMaking
      BY <2>1, <3>1 DEF FileInMaking
    <3> QED
      BY <1>b, <1>d, <1>f, <2>1, <3>1, <3>3, <3>4
  <2> QED
    BY <1>1, <2>2, <2>3 DEF OpenFirst, Step
<1>2. CASE CreateRefused
  <2>1. at.step = "create" /\ at'.n = at.n + 1 /\ at'.step \in {"open", "run"}
        /\ used' = used + 1 /\ pos' = pos
    BY <1>2, NextStoreIs DEF CreateRefused
  <2>2. (Now = "property" /\ at'.n >= 2) \/ (Now = "record" /\ at'.n >= 3)
    BY <1>b, <2>1, <1>a, NowIs DEF Passed
  <2>3. used' - used <= Cost'[Now]
    BY <1>a, <1>b, <1>e, <2>1, <2>2
  <2> QED
    BY <1>b, <1>g, <2>1, <2>3
<1>3. CASE CreateRi \/ CloseRi \/ CreateData \/ CloseData
  <2>1. at'.n = at.n /\ pos' = pos /\ at.step # "run" /\ used' \in Int
        /\ used' + FileInMaking <= used + FileInMaking'
    BY <1>3, <1>b DEF CreateRi, CloseRi, CreateData, CloseData, Step, FileInMaking
  <2> QED
    BY <1>f, <2>1
<1>4. CASE OpenAgain
  <2>1. /\ \A s \in Stores : s # Now => pos'[s] = pos[s]
        /\ used' \in Int /\ Now \in Stores /\ at.step = "again" /\ at' = NextStore
        /\ (pos'[Now] # -1 /\ used' = used + 2) \/ (pos'[Now] = -1 /\ used' = used)
    BY <1>4, OpensNow DEF OpenAgain, Entries
  <2>2. used' - used <= Cost'[Now]
    BY <1>b, <1>d, <1>e, <2>1
  <2> QED
    BY <1>g, <2>1, <2>2, NextStoreIs
<1>5. ASSUME UNCHANGED <<at, pos, used, empty>> PROVE HandleInv'
  BY <1>5 DEF HandleInv, Cost, FileInMaking, Passed, Running
<1>6. CASE SaveCardInfo \/ FlushFlags \/ (\E i \in Slots : FlushData(i)) \/ Upload
  BY <1>5, <1>6 DEF SaveCardInfo, FlushFlags, FlushData, Upload
<1>7. CASE WhiteNameChange
  <2> DEFINE gone == used - Cost["white"]
  <2>1. at.step = "run" /\ at' = at /\ empty' = empty
    BY <1>7, <1>b DEF WhiteNameChange
  <2>2. ~Passed("white")
    BY DEF Passed
  <2>3. Cost["white"] = IF pos["white"] = -1 THEN 0 ELSE 2
    BY <1>c, <1>e, <2>2
  <2>4. \E u \in Int :
          /\ u = IF pos["white"] = -1 THEN used ELSE used - 2
          /\ (pos'["white"] # -1 /\ used' = u + 2) \/ (pos'["white"] = -1 /\ used' = u)
    BY <1>7, Reopens DEF Entries
  <2>5. used' \in Int /\ used' <= gone + Cost'["white"]
    BY <1>b, <1>c, <1>d, <1>e, <2>3, <2>4
  <2>6. \A s \in Stores : s # "white" => Cost'[s] = Cost[s]
    <3>1. \A s \in Stores : s # "white" => pos'[s] = pos[s]
      BY <1>7, Reopens
    <3> QED
      BY <1>e, <2>1, <3>1 DEF Passed
  <2>7. FileInMaking' = FileInMaking
    BY <2>1 DEF FileInMaking
  <2> QED
    BY <1>b, <1>c, <1>d, <2>1, <2>5, <2>6, <2>7 DEF HandleInv
<1>8. CASE SearchHoliday
  BY <1>8 DEF SearchHoliday, HandleInv, Running
<1>9. CASE PowerCycle
  BY <1>9, <1>c, <1>d DEF PowerCycle, HandleInv
<1>10. CASE UNCHANGED vars
  BY <1>5, <1>10 DEF vars
<1> QED
  BY <1>1, <1>2, <1>3, <1>4, <1>6, <1>7, <1>8, <1>9, <1>10 DEF Next, Boot

-----------------------------------------------------------------------------
\* Inv is the inductive invariant of the boot.
LEMMA Invariance == Spec => []Inv
<1>1. Init => Inv
  BY TypeInit, FilesInit, EntriesInit, OpenInit, HandleInit DEF Inv
<1>2. Inv /\ [Next]_vars => Inv'
  BY TypeStep, FilesStep, EntriesStep, OpenStep, HandleStep DEF Inv
<1> QED
  BY <1>1, <1>2, PTL DEF Spec

\* A store the terminal makes itself is open after the boot, unless power failed
\* while rand_file_create was making it; no open store has a torn .ri file.
THEOREM StoresAreOpen == Spec => []StoresOpen
<1>1. Inv => StoresOpen
  <2> SUFFICES ASSUME Inv PROVE StoresOpen
    OBVIOUS
  <2>1. at = Running => \A s \in Own : Passed(s)
    BY DEF Running, Passed, Own, Stores
  <2> QED
    BY <2>1 DEF Inv, OpenInv, EntriesInv, StoresOpen
<1> QED
  BY <1>1, Invariance, PTL

\* The ten handles of UFFS are enough for the stores, two texts and a new index,
\* and so are nine; and no two stores share an entry of g_rand_file_info.
THEOREM PoolIsEnough == ASSUME MaxHandles >= 9 PROVE Spec => []PoolSuffices
<1>1. Inv => PoolSuffices
  <2> SUFFICES ASSUME Inv PROVE PoolSuffices
    OBVIOUS
  <2>1. ~empty => used + 3 <= MaxHandles
    <3> SUFFICES ASSUME ~empty PROVE used + 3 <= MaxHandles
      OBVIOUS
    <3>1. Cost["property"] \in {0, 1, 2} /\ Cost["record"] \in {0, 1, 2} /\ Cost["white"] \in {0, 1, 2}
          /\ FileInMaking \in {0, 1}
      BY CostIs DEF Stores
    <3>2. FileInMaking = 1 => Cost["white"] = 0
      BY CostIs DEF Inv, TypeInv, EntriesInv, FileInMaking, Passed, Stores
    <3>3. used \in Int /\ used <= Cost["property"] + Cost["record"] + Cost["white"] + FileInMaking
      BY DEF Inv, TypeInv, HandleInv
    <3> QED
      BY <3>1, <3>2, <3>3, BoundsAssumption
  <2> QED
    BY <2>1 DEF Inv, EntriesInv, PoolSuffices
<1> QED
  BY <1>1, Invariance, PTL

-----------------------------------------------------------------------------
\* Unless the making of the record file was interrupted, it has its full length
\* whenever it is open, so a record is written to the slot whose flag is set.
LEMMA SaveInPlace ==
  ASSUME Inv, SaveCardInfo, "record" \notin cutIn, pos["record"] # -1
  PROVE  /\ SlotOf(recordId) \in Slots
         /\ ring'.data = [ring.data EXCEPT ![SlotOf(recordId)] =
                                             [boot |-> cuts + 1, id |-> recordId]]
<1> DEFINE i == SlotOf(recordId)
           j == IF i <= size["record"] THEN i ELSE size["record"]
<1>1. at.step = "run" /\ "record" \in Own \ cutIn /\ "record" \in Stores
  BY DEF SaveCardInfo, Running, Own, Stores
<1>2. ri["record"] = "whole"
  BY <1>1 DEF Inv, EntriesInv
<1>3. size["record"] = Count
  BY <1>1, <1>2 DEF Inv, FilesInv, BeingMade
<1>4. /\ i \in Slots
      /\ ring'.data = [ring.data EXCEPT ![j] = [boot |-> cuts + 1, id |-> recordId]]
  BY SaveEffect DEF Inv
<1>5. i <= size["record"]
  BY <1>3, <1>4, CountAssumption DEF Slots
<1> QED
  BY <1>4, <1>5

LEMMA SlotStep == Inv /\ SlotInv /\ [Next]_vars => SlotInv'
<1> SUFFICES ASSUME Inv, SlotInv, [Next]_vars, ("record" \notin cutIn)'
             PROVE  \A i \in Slots :
                      /\ ring'.data[i] # Blank => ring'.data[i].id % Count = i
                      /\ flash'.data[i] # Blank => flash'.data[i].id % Count = i
  BY DEF SlotInv
<1>a. TypeInv
  BY DEF Inv
<1>b. ring.data \in [Slots -> Records] /\ flash.data \in [Slots -> Records]
  BY <1>a DEF TypeInv, RandFiles
<1>c. "record" \notin cutIn
  BY DEF Next, Boot, OpenFirst, CreateRefused, CreateRi, CloseRi, CreateData, CloseData, OpenAgain,
         SaveCardInfo, FlushFlags, FlushData, Upload, WhiteNameChange, SearchHoliday, PowerCycle, vars
<1>d. \A i \in Slots : /\ ring.data[i] # Blank => ring.data[i].id % Count = i
                       /\ flash.data[i] # Blank => flash.data[i].id % Count = i
  BY <1>c DEF SlotInv
<1>1. CASE UNCHANGED <<ring, flash>>
  BY <1>1, <1>d
<1>2. CASE Boot \/ Upload \/ WhiteNameChange \/ SearchHoliday \/ UNCHANGED vars
  BY <1>1, <1>2 DEF Boot, OpenFirst, CreateRefused, CreateRi, CloseRi, CreateData, CloseData,
       OpenAgain, Upload, WhiteNameChange, SearchHoliday, ringVars, vars
<1>3. CASE SaveCardInfo
  <2>1. CASE pos["record"] = -1
    BY <1>1, <1>3, <2>1 DEF SaveCardInfo
  <2>2. CASE pos["record"] # -1
    <3> DEFINE e == [boot |-> cuts + 1, id |-> recordId]
    <3>1. SlotOf(recordId) \in Slots /\ ring'.data = [ring.data EXCEPT ![SlotOf(recordId)] = e]
      BY <1>3, <1>c, <2>2, SaveInPlace
    <3>2. e.id % Count = SlotOf(recordId)
      BY DEF SlotOf
    <3> HIDE DEF e
    <3>3. flash' = flash
      BY <1>3 DEF SaveCardInfo
    <3> QED
      BY <1>b, <1>d, <3>1, <3>2, <3>3
  <2> QED
    BY <2>1, <2>2
<1>4. CASE FlushFlags
  <2>1. flash'.data = flash.data /\ ring' = ring
    BY <1>4, <1>a DEF FlushFlags, TypeInv, RandFiles
  <2> QED
    BY <1>d, <2>1
<1>5. ASSUME NEW k \in Slots, FlushData(k)
      PROVE  \A i \in Slots : /\ ring'.data[i] # Blank => ring'.data[i].id % Count = i
                              /\ flash'.data[i] # Blank => flash'.data[i].id % Count = i
  <2>1. flash'.data = [flash.data EXCEPT ![k] = ring.data[k]]
    BY <1>5, <1>a, FlushEffect
  <2>2. ring' = ring
    BY <1>5 DEF FlushData
  <2> QED
    BY <1>b, <1>d, <2>1, <2>2
<1>6. CASE PowerCycle
  BY <1>6, <1>d DEF PowerCycle
<1> QED
  BY <1>2, <1>3, <1>4, <1>5, <1>6 DEF Next

\* Unless power failed while the record file was made, a slot in use holds a
\* record with a number of that position, whatever pages a power cut has lost.
THEOREM RecordsInTheirSlots == Spec => []InItsSlot
<1>1. Init => SlotInv
  <2> SUFFICES ASSUME Init PROVE SlotInv
    OBVIOUS
  <2>1. \A i \in Slots : ring.data[i] = Blank /\ flash.data[i] = Blank
    BY DEF Init, Created
  <2> QED
    BY <2>1 DEF SlotInv
<1>2. SlotInv => InItsSlot
  BY DEF SlotInv, InItsSlot, Live
<1> QED
  BY <1>1, <1>2, SlotStep, Invariance, PTL DEF Spec

-----------------------------------------------------------------------------
\* What rand_file_get returns for the live slots is finite.
LEMMA ReadableFinite ==
  ASSUME NEW file \in RandFiles(Records), NEW n
  PROVE  IsFiniteSet(Readable(file, n))
<1> DEFINE all == {file.data[i] : i \in Slots}
<1>1. IsFiniteSet(Slots)
  BY FS_Interval, CountAssumption DEF Slots
<1>2. file.data \in Surjection(Slots, all)
  BY DEF RandFiles, Surjection
<1>3. IsFiniteSet(all)
  BY <1>1, <1>2, FS_Surjection
<1>4. Readable(file, n) \in SUBSET all
  BY DEF Readable, Live
<1> QED
  BY <1>3, <1>4, FS_Subset

\* save_card_info takes at most one record out of reach.
LEMMA SaveCostsOne ==
  ASSUME Inv, SaveCardInfo, IsFiniteSet(old)
  PROVE  Cardinality(old \ Readable(ring', size'["record"]))
           <= Cardinality(old \ Readable(ring, size["record"])) + 1
<1> DEFINE lost == old \ Readable(ring, size["record"])
           gone == old \ Readable(ring', size'["record"])
<1>1. IsFiniteSet(lost) /\ Cardinality(lost) \in Nat
  BY FS_Difference, FS_CardinalityType
<1>2. CASE pos["record"] = -1
  BY <1>1, <1>2 DEF SaveCardInfo
<1>3. CASE pos["record"] # -1
  <2> DEFINE i == SlotOf(recordId)
             j == IF i <= size["record"] THEN i ELSE size["record"]
             e == [boot |-> cuts + 1, id |-> recordId]
             x == ring.data[j]
  <2>1. /\ i \in Slots /\ j \in Slots
        /\ ring'.data = [ring.data EXCEPT ![j] = e]
        /\ Live(ring') = Live(ring) \cup {i}
        /\ size' = [size EXCEPT !["record"] = IF j + 1 <= @ THEN @ ELSE j + 1]
    BY <1>3, SaveEffect DEF Inv
  <2> HIDE DEF i, j, e
  <2>2. /\ ring.data \in [Slots -> Records] /\ size["record"] \in -1 .. Count
        /\ "record" \in Stores /\ size \in [Stores -> -1 .. Count]
    BY DEF Inv, TypeInv, RandFiles, Stores
  <2>3. size["record"] <= size'["record"] /\ size'["record"] \in Int
    BY <2>1, <2>2, CountAssumption DEF Slots
  <2>4. Readable(ring, size["record"]) \subseteq Readable(ring', size'["record"]) \cup {x}
    <3> SUFFICES ASSUME NEW k \in Live(ring), k < size["record"], ring.data[k] # Blank,
                        ring.data[k] # x
                 PROVE  ring.data[k] \in Readable(ring', size'["record"])
      BY DEF Readable
    <3>1. k \in Slots /\ k # j /\ k \in Live(ring')
      BY <2>1 DEF Live
    <3>2. ring'.data[k] = ring.data[k] /\ k < size'["record"]
      BY <2>1, <2>2, <2>3, <3>1, CountAssumption DEF Slots
    <3> QED
      BY <3>1, <3>2 DEF Readable
  <2>5. gone \in SUBSET (lost \cup {x})
    BY <2>4
  <2> HIDE DEF x, lost, gone
  <2>6. IsFiniteSet(lost \cup {x}) /\ Cardinality(lost \cup {x}) <= Cardinality(lost) + 1
    <3>1. /\ IsFiniteSet(lost \cup {x})
          /\ Cardinality(lost \cup {x}) = IF x \in lost THEN Cardinality(lost) ELSE Cardinality(lost) + 1
      BY <1>1, FS_AddElement
    <3> QED
      BY <1>1, <3>1
  <2>7. Cardinality(gone) <= Cardinality(lost \cup {x})
    BY <2>5, <2>6, FS_Subset
  <2>8. Cardinality(gone) \in Nat /\ Cardinality(lost \cup {x}) \in Nat
    BY <2>5, <2>6, FS_Subset, FS_CardinalityType
  <2>9. Cardinality(gone) <= Cardinality(lost) + 1
    BY <1>1, <2>6, <2>7, <2>8
  <2> QED
    BY <2>9 DEF gone, lost
<1> QED
  BY <1>2, <1>3

LEMMA CostStep == Inv /\ CostInv /\ [Next]_vars => CostInv'
<1> SUFFICES ASSUME Inv, CostInv, [Next]_vars PROVE CostInv'
  OBVIOUS
<1> USE DEF CostInv, RestartCostsOnePerCard
<1>a. TypeInv /\ recordId \in Nat \ {0} /\ size \in [Stores -> -1 .. Count]
      /\ "record" \in Stores
  BY DEF Inv, TypeInv, Stores
\* the file of the record ring is made only when there is none to read
<1>b. ASSUME UNCHANGED <<ring, recordId, old>>, size["record"] = -1 \/ size'["record"] = size["record"]
      PROVE  CostInv'
  <2>1. Readable(ring, size["record"]) \subseteq Readable(ring, size'["record"])
    <3>1. CASE size["record"] = -1
      <4>1. \A k \in Live(ring) : ~(k < -1)
        BY DEF Live, Slots
      <4> QED
        BY <3>1, <4>1 DEF Readable
    <3>2. CASE size'["record"] = size["record"]
      BY <3>2
    <3> QED
      BY <1>b, <3>1, <3>2
  <2> DEFINE lost == old \ Readable(ring, size["record"])
             gone == old \ Readable(ring, size'["record"])
  <2>2. gone \in SUBSET lost /\ IsFiniteSet(lost)
    BY <2>1, FS_Difference
  <2>3. Cardinality(gone) <= Cardinality(lost) /\ Cardinality(lost) <= recordId - 1
    BY <2>2, FS_Subset
  <2>4. Cardinality(gone) \in Nat /\ Cardinality(lost) \in Nat
    BY <2>2, FS_Subset, FS_CardinalityType
  <2> HIDE DEF lost, gone
  <2>5. Cardinality(gone) <= recordId - 1
    BY <1>a, <2>3, <2>4
  <2> QED
    BY <1>b, <2>5 DEF gone
<1>1. CASE OpenFirst \/ CreateRefused \/ CreateRi \/ CloseData \/ OpenAgain
  BY <1>1, <1>b DEF OpenFirst, CreateRefused, CreateRi, CloseData, OpenAgain, fileVars, ringVars
<1>2. CASE CloseRi \/ CreateData
  <2>1. at.step \in {"ri", "data"} /\ at.n <= 2 /\ at.n \in 1 .. 4
    BY <1>2 DEF CloseRi, CreateData, Inv, TypeInv
  <2>2. Now \in Own /\ Own \subseteq Stores
    BY <2>1, NowIs DEF Own, Stores
  <2>3. size[Now] = -1
    <3>1. CASE at.step = "ri"
      BY <2>2, <3>1 DEF Inv, FilesInv
    <3>2. CASE at.step = "data"
      BY <3>2 DEF Inv, FilesInv
    <3> QED
      BY <2>1, <3>1, <3>2
  <2>4. size["record"] = -1 \/ size'["record"] = size["record"]
    BY <1>2, <1>a, <2>2, <2>3 DEF CloseRi, CreateData
  <2> QED
    BY <1>2, <1>b, <2>4 DEF CloseRi, CreateData, ringVars
<1>3. CASE SaveCardInfo
  <2> DEFINE before == Cardinality(old \ Readable(ring, size["record"]))
             after == Cardinality(old \ Readable(ring', size'["record"]))
  <2>1. after <= before + 1 /\ before <= recordId - 1
    BY <1>3, SaveCostsOne
  <2>2. recordId' = recordId + 1 /\ old' = old
    BY <1>3 DEF SaveCardInfo
  <2>3. before \in Nat
    BY FS_Difference, FS_CardinalityType
  <2>4. after \in Nat
    BY FS_Difference, FS_CardinalityType
  <2> HIDE DEF before, after
  <2>5. after <= recordId' - 1
    BY <1>a, <2>1, <2>2, <2>3, <2>4
  <2> QED
    BY <2>2, <2>5 DEF after
<1>4. CASE FlushFlags \/ (\E i \in Slots : FlushData(i)) \/ WhiteNameChange \/ SearchHoliday
  BY <1>4, <1>b DEF FlushFlags, FlushData, WhiteNameChange, SearchHoliday, fileVars, ringVars
<1>5. CASE Upload
  BY <1>5, <1>a, <1>b DEF Upload, ringVars
<1>6. CASE PowerCycle
  <2>1. ring' = flash /\ recordId' = 1 /\ old' = Readable(flash, size'["record"])
    BY <1>6 DEF PowerCycle
  <2>2. flash \in RandFiles(Records)
    BY <1>a DEF TypeInv
  <2>3. IsFiniteSet(old')
    BY <2>1, <2>2, ReadableFinite
  <2>4. old' \ Readable(ring', size'["record"]) = {}
    BY <2>1
  <2> QED
    BY <2>1, <2>3, <2>4, FS_EmptySet
<1>7. CASE UNCHANGED vars
  BY <1>7, <1>b DEF vars
<1> QED
  BY <1>1, <1>2, <1>3, <1>4, <1>5, <1>6, <1>7 DEF Next, Boot

\* After a restart a card costs at most one of the records that were there.
THEOREM CardsCostOne == Spec => []RestartCostsOnePerCard
<1>1. Init => CostInv
  <2> SUFFICES ASSUME Init PROVE CostInv
    OBVIOUS
  <2>1. old = {} /\ recordId = 1
    BY DEF Init
  <2>2. old \ Readable(ring, size["record"]) = {}
    BY <2>1
  <2> QED
    BY <2>1, <2>2, FS_EmptySet DEF CostInv, RestartCostsOnePerCard
<1>2. CostInv => RestartCostsOnePerCard
  BY DEF CostInv
<1> QED
  BY <1>1, <1>2, CostStep, Invariance, PTL DEF Spec
=============================================================================
