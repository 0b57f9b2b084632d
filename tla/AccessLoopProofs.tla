-------------------------- MODULE AccessLoopProofs --------------------------
(***************************************************************************)
(* Theorems about the access loop for a ring of any size, any number of    *)
(* cards and any set of verdicts, and at the end about the interrupt that  *)
(* reads a card for it, for numbers of any length, a buffer of any size    *)
(* that holds a frame, and any noise.                                      *)
(***************************************************************************)
EXTENDS AccessLoop, CardReader, WellFoundedInduction, SequenceTheorems, TLAPS

-----------------------------------------------------------------------------

(* Rand files of any size *)

\* A non-empty set of slots has a first element: the scans of
\* rand_file_find_empty_record_pos and rand_file_find stop at it.
LEMMA FirstIsLeast ==
  ASSUME NEW S \in SUBSET Slots, S # {}
  PROVE  First(S) \in S /\ \A j \in S : First(S) <= j
<1>1. S \subseteq Nat
  BY CountAssumption DEF Slots
<1>2. \E i \in S : \A j \in S : ~(<<j, i>> \in OpToRel(<, Nat))
  BY <1>1, WFMin, NatLessThanWellFounded
<1>3. \E i \in S : \A j \in S : i <= j
  <2>1. PICK i \in S : \A j \in S : ~(<<j, i>> \in OpToRel(<, Nat))
    BY <1>2
  <2>2. ASSUME NEW j \in S PROVE i <= j
    <3>1. <<j, i>> \in Nat \X Nat /\ <<j, i>>[1] = j /\ <<j, i>>[2] = i
      BY <1>1, <2>1, <2>2
    <3>2. ~(j < i)
      BY <2>1, <3>1, Zenon DEF OpToRel
    <3>3. i \in Nat /\ j \in Nat
      BY <1>1, <2>1, <2>2
    <3> QED
      BY <3>2, <3>3
  <2> QED
    BY <2>1, <2>2
<1> QED
  BY <1>3 DEF First

RandFiles(D) == [flag : [Slots -> FlagValues], data : [Slots -> D]]

\* rand_file_create makes a file of the shape all other operations keep, with
\* no live slot.
LEMMA CreatedIsEmpty ==
  ASSUME NEW D, NEW blank \in D
  PROVE  Created(blank) \in RandFiles(D) /\ Live(Created(blank)) = {}
BY DEF Created, RandFiles, Live, RecordFlag, FlagValues, EMPTY

\* Writing a flag changes that flag only.
LEMMA FlagWritesOne ==
  ASSUME NEW D, NEW file \in RandFiles(D), NEW pos \in Slots, NEW v \in FlagValues
  PROVE  /\ SetRecordFlag(file, pos, v) \in RandFiles(D)
         /\ SetRecordFlag(file, pos, v).data = file.data
         /\ SetRecordFlag(file, pos, v).flag = [file.flag EXCEPT ![pos] = v]
BY DEF SetRecordFlag, RandFiles

\* rand_file_set followed by a flag of the caller's (save_card_info).
LEMMA SetThenFlag ==
  ASSUME NEW D, NEW file \in RandFiles(D), NEW pos \in Slots, NEW d \in D,
         NEW v \in FlagValues,
         NEW new, new = SetRecordFlag(SetRecord(file, pos, d), pos, v)
  PROVE  /\ new \in RandFiles(D)
         /\ new.data = [file.data EXCEPT ![pos] = d]
         /\ new.flag = [file.flag EXCEPT ![pos] = v]
<1> DEFINE put == PutData(file, pos, d)
           set == SetRecordFlag(put, pos, USED)
<1>1. /\ put \in RandFiles(D)
      /\ put.data = [file.data EXCEPT ![pos] = d]
      /\ put.flag = file.flag
  BY DEF PutData, RandFiles
<1>2. USED \in FlagValues
  BY DEF USED, FlagValues
<1>3. /\ set \in RandFiles(D)
      /\ set.data = put.data
      /\ set.flag = [put.flag EXCEPT ![pos] = USED]
  BY <1>1, <1>2, FlagWritesOne
<1>4. /\ SetRecordFlag(set, pos, v) \in RandFiles(D)
      /\ SetRecordFlag(set, pos, v).data = set.data
      /\ SetRecordFlag(set, pos, v).flag = [set.flag EXCEPT ![pos] = v]
  BY <1>3, FlagWritesOne
<1>5. new = SetRecordFlag(set, pos, v)
  BY DEF SetRecord
<1>6. file.flag \in [Slots -> FlagValues]
  BY DEF RandFiles
<1> QED
  BY <1>1, <1>3, <1>4, <1>5, <1>6

-----------------------------------------------------------------------------
\* Records less than Count apart are in different slots.
LEMMA PositionsDiffer ==
  ASSUME NEW a \in Nat, NEW b \in Nat, a < b, b < a + Count
  PROVE  Position(a) # Position(b)
<1> USE CountAssumption
<1>1. SUFFICES ASSUME a % Count = b % Count PROVE FALSE
  BY DEF Position
<1> DEFINE p == a \div Count
           q == b \div Count
<1>2. p \in Int /\ q \in Int /\ a = Count * p + (a % Count) /\ b = Count * q + (b % Count)
  OBVIOUS
<1>3. b - a = Count * (q - p)
  BY <1>1, <1>2
<1>4. CASE q - p <= 0
  BY <1>2, <1>3, <1>4
<1>5. CASE q - p >= 1
  BY <1>2, <1>3, <1>5
<1> QED
  BY <1>2, <1>4, <1>5
LEMMA PositionIsSlot ==
  ASSUME NEW id \in Nat
  PROVE  Position(id) \in Slots
BY CountAssumption DEF Position, Slots

LEMMA FlagIsByte ==
  ASSUME NEW v \in SendResults \cup {0}
  PROVE  Byte(v) \in FlagValues \ {EMPTY} /\ (Byte(v) = OK => v = OK)
BY DEF SendResults, Byte, FlagValues, EMPTY, OK

LEMMA FirstUnsentRange ==
  ASSUME NEW file
  PROVE  FirstUnsent(file) = -1 \/ FirstUnsent(file) \in Unsent(file)
<1>1. Unsent(file) \in SUBSET Slots
  BY DEF Unsent, Live
<1> QED
  BY <1>1, FirstIsLeast DEF FirstUnsent

\* save_card_info replaces one slot, data and flag.
LEMMA SaveEffect ==
  ASSUME TypeOK, SaveCardInfo,
         NEW i, i = Position(recordId)
  PROVE  /\ i \in Slots
         /\ ring' \in RandFiles(Entry)
         /\ ring'.data = [ring.data EXCEPT
                            ![i] = [id |-> recordId, card |-> dealNo, ok |-> verdict]]
         /\ ring'.flag = [ring.flag EXCEPT ![i] = Byte(sendFlag)]
<1> DEFINE e == [id |-> recordId, card |-> dealNo, ok |-> verdict]
<1>1. i \in Slots
  BY PositionIsSlot DEF TypeOK
<1>2. e \in Entry
  BY DEF TypeOK, Entry
<1>3. Byte(sendFlag) \in FlagValues
  BY FlagIsByte DEF TypeOK
<1>4. ring \in RandFiles(Entry)
  BY DEF TypeOK, RandFiles
<1>5. ring' = SetRecordFlag(SetRecord(ring, i, e), i, Byte(sendFlag))
  BY DEF SaveCardInfo
<1> HIDE DEF e
<1>6. /\ ring' \in RandFiles(Entry)
      /\ ring'.data = [ring.data EXCEPT ![i] = e]
      /\ ring'.flag = [ring.flag EXCEPT ![i] = Byte(sendFlag)]
  BY <1>1, <1>2, <1>3, <1>4, <1>5, SetThenFlag
<1> QED
  BY <1>1, <1>6 DEF e

\* record_del_first_unsend flags one unsent record, or does nothing.
LEMMA TickEffect ==
  ASSUME TypeOK, HostTick
  PROVE  /\ host'.at = -1 /\ host'.read = host.read
         /\ \/ ring' = ring /\ host'.ticked = host.ticked
            \/ \E i \in Unsent(ring) :
                 /\ i \in Slots
                 /\ ring' \in RandFiles(Entry)
                 /\ ring'.data = ring.data
                 /\ ring'.flag = [ring.flag EXCEPT ![i] = OK]
                 /\ host'.ticked = host.ticked \cup {ring.data[i].id}
<1> DEFINE i == FirstUnsent(ring)
<1>1. ring \in RandFiles(Entry) /\ OK \in FlagValues
  BY DEF TypeOK, RandFiles, OK, FlagValues
<1>2. CASE i = -1
  BY <1>2 DEF HostTick, TypeOK
<1>3. CASE i # -1
  <2>1. i \in Unsent(ring) /\ i \in Slots
    BY <1>3, FirstUnsentRange DEF Unsent, Live
  <2>2. ring' = SetRecordFlag(ring, i, OK)
    BY <1>3 DEF HostTick
  <2>3. host'.ticked = host.ticked \cup {ring.data[i].id} /\ host'.at = -1 /\ host'.read = host.read
    BY <1>3 DEF HostTick, TypeOK
  <2> HIDE DEF i
  <2>4. ring' \in RandFiles(Entry) /\ ring'.data = ring.data
        /\ ring'.flag = [ring.flag EXCEPT ![i] = OK]
    BY <1>1, <2>1, <2>2, FlagWritesOne
  <2> QED
    BY <2>1, <2>3, <2>4
<1> QED
  BY <1>2, <1>3

-----------------------------------------------------------------------------
LEMMA TypeInit == Init => TypeOK
<1> SUFFICES ASSUME Init PROVE TypeOK
  OBVIOUS
<1>1. Blank \in Entry
  BY MaxCardsAssumption DEF Blank, Entry, CardNos
<1>2. ring \in RandFiles(Entry)
  BY <1>1, CreatedIsEmpty DEF Init
<1>3. host \in [at : Slots \cup {-1}, read : SUBSET Nat, ticked : SUBSET Nat]
  BY DEF Init
<1>4. journal \in Seq(Judgement)
  BY DEF Init
<1>5. ring \in [flag : [Slots -> FlagValues], data : [Slots -> Entry]]
  BY <1>2 DEF RandFiles
<1>6. cardNo \in CardNos /\ dealNo \in CardNos /\ shown \in CardNos
  BY MaxCardsAssumption DEF Init, CardNos
<1>7. /\ pc = "net" /\ out = "beat" /\ verdict = 0 /\ sendFlag = 0 /\ recordId = 1
      /\ sock \in {"none", "closed"} /\ unacked = 0 /\ handed = {}
  BY DEF Init
<1>8. /\ pc \in {"net", "poll", "clear", "cam", "send", "wait", "save", "timer"}
      /\ out \in {"record", "beat"}
      /\ verdict \in Verdicts \cup {0}
      /\ sendFlag \in SendResults \cup {0}
      /\ recordId \in Nat \ {0}
      /\ sock \in {"none", "closed", "connecting", "connect"} /\ unacked \in {0, 1}
      /\ handed \subseteq Nat
  BY <1>7
<1> QED
  BY <1>3, <1>4, <1>5, <1>6, <1>8 DEF TypeOK

LEMMA TypeStep == TypeOK /\ [Next]_vars => TypeOK'
<1> SUFFICES ASSUME TypeOK, [Next]_vars PROVE TypeOK'
  OBVIOUS
<1> USE DEF TypeOK
<1>1. CASE CardFrame
  BY <1>1, MaxCardsAssumption DEF CardFrame, netVars, CardNos
<1>2. CASE Connected \/ Dropped \/ Acked
  BY <1>2 DEF Connected, Dropped, Acked, loopVars
<1>3. CASE HostGet
  <2> DEFINE i == FirstUnsent(ring)
  <2>1. i = -1 \/ i \in Slots
    BY FirstUnsentRange DEF Unsent, Live
  <2>2. i # -1 => ring.data[i].id \in Nat
    BY <2>1 DEF Entry
  <2>3. host' \in [at : Slots \cup {-1}, read : SUBSET Nat, ticked : SUBSET Nat]
    BY <1>3, <2>1, <2>2 DEF HostGet
  <2> QED
    BY <1>3, <2>3 DEF HostGet, loopVars, netVars
<1>4. CASE HostTick
  <2>1. ring' \in [flag : [Slots -> FlagValues], data : [Slots -> Entry]]
    BY <1>4, TickEffect DEF RandFiles
  <2>2. host'.ticked \subseteq Nat
    <3>1. CASE host'.ticked = host.ticked
      BY <3>1
    <3>2. ASSUME NEW i \in Slots, host'.ticked = host.ticked \cup {ring.data[i].id}
          PROVE  host'.ticked \subseteq Nat
      <4>1. ring.data[i].id \in Nat
        BY DEF Entry
      <4> QED
        BY <3>2, <4>1
    <3> QED
      BY <1>4, <3>1, <3>2, TickEffect
  <2>3. host' \in [at : Slots \cup {-1}, read : SUBSET Nat, ticked : SUBSET Nat]
    BY <1>4, <2>2 DEF HostTick
  <2> QED
    BY <1>4, <2>1, <2>3 DEF HostTick, netVars
<1>5. CASE NetDone \/ NoCard \/ TakeCard \/ Beat \/ NoBeat
  BY <1>5 DEF NetDone, NoCard, TakeCard, Beat, NoBeat, netVars
<1>6. CASE ClearCard
  BY <1>6, MaxCardsAssumption DEF ClearCard, netVars, CardNos
<1>7. CASE Judge
  <2>1. [card |-> dealNo, ok |-> verdict'] \in Judgement
    BY <1>7 DEF Judge, Judgement
  <2>2. journal' \in Seq(Judgement)
    BY <1>7, <2>1 DEF Judge
  <2>3. /\ UNCHANGED <<cardNo, dealNo, sendFlag, recordId, ring,
                       sock, unacked, shown, handed, host>>
        /\ pc' \in {"net", "poll", "clear", "cam", "send", "wait", "save", "timer"}
        /\ out' \in {"record", "beat"}
        /\ verdict' \in Verdicts \cup {0}
    BY <1>7 DEF Judge, netVars
  <2> QED
    BY <2>2, <2>3
<1>8. CASE Send
  BY <1>8 DEF Send, SendNoSocket, SendClosed, SendConnecting, SendConnected, Transmit,
              SendFails, Return, SendResults, OK, netVars
<1>9. CASE SaveCardInfo
  <2>1. ring' \in RandFiles(Entry)
    BY <1>9, SaveEffect
  <2>2. ring' \in [flag : [Slots -> FlagValues], data : [Slots -> Entry]]
    BY <2>1 DEF RandFiles
  <2>3. /\ recordId' = recordId + 1 /\ pc' = "timer"
        /\ UNCHANGED <<cardNo, dealNo, out, verdict, sendFlag,
                       sock, unacked, shown, journal, handed, host>>
    BY <1>9 DEF SaveCardInfo, netVars
  <2> QED
    BY <2>2, <2>3
<1>10. CASE UNCHANGED vars
  BY <1>10 DEF vars, netVars
<1> QED
  BY <1>1, <1>2, <1>3, <1>4, <1>5, <1>6, <1>7, <1>8, <1>9, <1>10 DEF Next, TcpNet, Loop

\* Type correctness of the loop, the ring and the history; in particular the
\* flag byte is never written with a value out of range.
THEOREM TypeCorrect == Spec => []TypeOK
BY TypeInit, TypeStep, PTL DEF Spec
-----------------------------------------------------------------------------
(***************************************************************************)
(* The order of the journal rests on the window between the copy of        *)
(* g_card_no and its clearing: only there may the card in g_card_no be the *)
(* one already dealt.                                                      *)
(***************************************************************************)
OrderInv ==
  /\ cardNo <= shown /\ dealNo <= shown
  /\ pc = "clear" => dealNo <= cardNo
  /\ pc # "clear" /\ cardNo # 0 => dealNo < cardNo
  /\ \A i \in 1 .. Len(journal) :
       /\ journal[i].card <= dealNo
       /\ pc \in {"clear", "cam"} => journal[i].card < dealNo
  /\ JudgedInOrder

LEMMA OrderStep == TypeOK /\ OrderInv /\ [Next]_vars => OrderInv'
<1> SUFFICES ASSUME TypeOK, OrderInv, [Next]_vars PROVE OrderInv'
  OBVIOUS
<1>0. /\ cardNo \in Nat /\ dealNo \in Nat /\ shown \in Nat /\ Len(journal) \in Nat
      /\ \A i \in 1 .. Len(journal) : journal[i].card \in Nat
  <2>1. cardNo \in Nat /\ dealNo \in Nat /\ shown \in Nat
    BY MaxCardsAssumption DEF TypeOK, CardNos
  <2>2. Len(journal) \in Nat /\ \A i \in 1 .. Len(journal) : journal[i] \in Judgement
    BY DEF TypeOK
  <2>3. \A j \in Judgement : j.card \in Nat
    BY MaxCardsAssumption DEF Judgement, CardNos
  <2> QED
    BY <2>1, <2>2, <2>3
<1> USE DEF OrderInv, JudgedInOrder
<1>1. CASE CardFrame
  BY <1>0, <1>1 DEF CardFrame
<1>2. CASE TcpNet
  BY <1>2 DEF TcpNet, Connected, Dropped, Acked, HostGet, HostTick, InTcpNet, loopVars
<1>3. CASE NetDone \/ NoCard \/ Beat \/ NoBeat
  BY <1>3 DEF NetDone, NoCard, Beat, NoBeat
<1>4. CASE TakeCard
  BY <1>0, <1>4 DEF TakeCard
<1>5. CASE ClearCard
  BY <1>0, <1>5 DEF ClearCard
<1>6. CASE Judge
  <2> DEFINE n == Len(journal)
             e == [card |-> dealNo, ok |-> verdict']
  <2>1. /\ pc = "cam" /\ pc' = "send" /\ journal' = Append(journal, e)
        /\ UNCHANGED <<cardNo, dealNo, shown>>
    BY <1>6 DEF Judge
  <2>2. Len(journal') = n + 1
    BY <2>1 DEF TypeOK
  <2>3. \A i \in 1 .. n : journal'[i] = journal[i]
    BY <2>1 DEF TypeOK
  <2>4. journal'[n + 1].card = dealNo
    BY <2>1 DEF TypeOK
  <2>5. \A i \in 1 .. n + 1 : i \in 1 .. n \/ i = n + 1
    BY <1>0
  <2> QED
    BY <1>0, <2>1, <2>2, <2>3, <2>4, <2>5
<1>7. CASE Send
  BY <1>7 DEF Send, SendNoSocket, SendClosed, SendConnecting, SendConnected, Transmit,
              SendFails, Return
<1>8. CASE SaveCardInfo
  BY <1>8 DEF SaveCardInfo
<1>9. CASE UNCHANGED vars
  BY <1>9 DEF vars
<1> QED
  BY <1>1, <1>2, <1>3, <1>4, <1>5, <1>6, <1>7, <1>8, <1>9 DEF Next, Loop

\* However often the reader interrupts the loop, no card is judged twice or out
\* of order.
THEOREM InOrder == Spec => []JudgedInOrder
<1>1. Init => OrderInv
  BY DEF Init, OrderInv, JudgedInOrder
<1>2. OrderInv => JudgedInOrder
  BY DEF OrderInv
<1> QED
  BY <1>1, <1>2, TypeInit, TypeStep, OrderStep, PTL DEF Spec
-----------------------------------------------------------------------------
(***************************************************************************)
(* The ring.  RingIsTail is inductive once the record in hand is known to  *)
(* be the last card judged; the flag of a sent record is honest because    *)
(* the outcome kept in sendFlag is.                                        *)
(***************************************************************************)
RingInv ==
  /\ RingIsTail
  /\ pc = "save" => out = "record"
  /\ InHand = 1 => journal[Len(journal)] = [card |-> dealNo, ok |-> verdict]

SentInv == /\ SentFlagHonest
           /\ pc = "save" /\ sendFlag = OK => recordId \in handed

\* Flags and data decide which slots are live and what they hold.
LEMMA SameFlags ==
  ASSUME ring'.flag = ring.flag
  PROVE  Live(ring') = Live(ring)
BY DEF Live, RecordFlag

LEMMA RingStep == TypeOK /\ RingInv /\ [Next]_vars => RingInv'
<1> SUFFICES ASSUME TypeOK, RingInv, [Next]_vars PROVE RingInv'
  OBVIOUS
<1> USE DEF RingInv, RingIsTail, InHand, Saved
<1>0. recordId \in Nat \ {0} /\ Len(journal) \in Nat /\ OK # EMPTY
  BY DEF TypeOK, OK, EMPTY
<1>1. CASE CardFrame
  BY <1>1 DEF CardFrame, Live
<1>2. CASE Connected \/ Dropped \/ Acked \/ HostGet
  BY <1>2 DEF Connected, Dropped, Acked, HostGet, loopVars, Live
<1>3. CASE HostTick
  <2>1. ring'.data = ring.data /\ \A i \in Live(ring) : i \in Live(ring')
    <3>1. CASE ring' = ring
      BY <3>1 DEF Live
    <3>2. ASSUME NEW i \in Slots, ring'.data = ring.data,
                 ring'.flag = [ring.flag EXCEPT ![i] = OK]
          PROVE  \A j \in Live(ring) : j \in Live(ring')
      BY <1>0, <3>2 DEF Live, RecordFlag, TypeOK
    <3> QED
      BY <1>3, <3>1, <3>2, TickEffect
  <2>2. UNCHANGED <<dealNo, pc, out, verdict, recordId, journal>>
    BY <1>3 DEF HostTick
  <2>3. Live(ring)' = Live(ring')
    BY DEF Live
  <2> QED
    BY <2>1, <2>2, <2>3
<1>4. CASE NetDone \/ NoCard \/ TakeCard \/ ClearCard \/ Beat \/ NoBeat
  BY <1>4 DEF NetDone, NoCard, TakeCard, ClearCard, Beat, NoBeat, Live
<1>5. CASE Judge
  <2> DEFINE e == [card |-> dealNo, ok |-> verdict']
  <2>1. /\ pc = "cam" /\ pc' = "send" /\ out' = "record"
        /\ journal' = Append(journal, e)
        /\ UNCHANGED <<dealNo, recordId, ring>>
    BY <1>5 DEF Judge
  <2>2. Len(journal') = Len(journal) + 1 /\ journal'[Len(journal) + 1] = e
    BY <2>1 DEF TypeOK
  <2>3. \A id \in 1 .. Len(journal) : journal'[id] = journal[id]
    BY <2>1 DEF TypeOK
  <2>4. Live(ring)' = Live(ring)
    BY <2>1 DEF Live
  <2> QED
    BY <1>0, <2>1, <2>2, <2>3, <2>4
<1>6. CASE Send
  BY <1>6 DEF Send, SendNoSocket, SendClosed, SendConnecting, SendConnected, Transmit,
              SendFails, Return, Live
<1>7. CASE SaveCardInfo
  <2> DEFINE p == Position(recordId)
             e == [id |-> recordId, card |-> dealNo, ok |-> verdict]
  <2>1. /\ p \in Slots
        /\ ring'.data = [ring.data EXCEPT ![p] = e]
        /\ ring'.flag = [ring.flag EXCEPT ![p] = Byte(sendFlag)]
    BY <1>7, SaveEffect
  <2>2. Byte(sendFlag) # EMPTY
    BY FlagIsByte DEF TypeOK
  <2>3. /\ pc = "save" /\ pc' = "timer" /\ recordId' = recordId + 1
        /\ UNCHANGED <<dealNo, out, verdict, journal>>
    BY <1>7 DEF SaveCardInfo
  <2>4. Len(journal) = recordId
        /\ journal[recordId] = [card |-> dealNo, ok |-> verdict]
    BY <1>0, <2>3
  <2>5. p \in Live(ring') /\ ring'.data[p] = e
    BY <2>1, <2>2 DEF Live, RecordFlag, TypeOK
  <2>6. \A i \in Slots \ {p} : ring'.data[i] = ring.data[i]
                               /\ (i \in Live(ring) => i \in Live(ring'))
    BY <2>1 DEF Live, RecordFlag, TypeOK
  <2>7. ASSUME NEW id \in 1 .. recordId, id + Count > recordId
        PROVE  /\ Position(id) \in Live(ring')
               /\ ring'.data[Position(id)] =
                    [id |-> id, card |-> journal[id].card, ok |-> journal[id].ok]
    <3>1. CASE id = recordId
      BY <2>4, <2>5, <3>1
    <3>2. CASE id # recordId
      <4>1. id \in 1 .. recordId - 1 /\ id + Count > recordId - 1 /\ id \in Nat
            /\ id < recordId /\ recordId < id + Count
        BY <1>0, <2>7, <3>2, CountAssumption
      <4>2. Position(id) # p /\ Position(id) \in Slots
        BY <1>0, <4>1, PositionsDiffer, PositionIsSlot
      <4>3. /\ Position(id) \in Live(ring)
            /\ ring.data[Position(id)] =
                 [id |-> id, card |-> journal[id].card, ok |-> journal[id].ok]
        BY <4>1
      <4> QED
        BY <2>6, <4>2, <4>3
    <3> QED
      BY <3>1, <3>2
  <2>8. Live(ring)' = Live(ring')
    BY DEF Live
  <2>9. Saved' = recordId /\ InHand' = 0
    BY <1>0, <2>3
  <2>10. \A id : Position(id)' = Position(id)
    BY DEF Position
  <2> QED
    BY <1>0, <2>3, <2>4, <2>7, <2>8, <2>9, <2>10
<1>8. CASE UNCHANGED vars
  BY <1>8 DEF vars, Live
<1> QED
  BY <1>1, <1>2, <1>3, <1>4, <1>5, <1>6, <1>7, <1>8 DEF Next, TcpNet, Loop

LEMMA RingInit == Init => RingInv
BY CountAssumption DEF Init, RingInv, RingIsTail, InHand, Saved

\* Whatever the size of the ring, it holds the last Count cards judged, each in
\* its slot with its own number, card and verdict.
THEOREM RingKeepsTail == Spec => []RingIsTail
<1>1. RingInv => RingIsTail
  BY DEF RingInv
<1> QED
  BY <1>1, TypeInit, TypeStep, RingInit, RingStep, PTL DEF Spec

LEMMA SentStep == TypeOK /\ RingInv /\ SentInv /\ [Next]_vars => SentInv'
<1> SUFFICES ASSUME TypeOK, RingInv, SentInv, [Next]_vars PROVE SentInv'
  OBVIOUS
<1> USE DEF SentInv, SentFlagHonest
<1>1. CASE CardFrame
  BY <1>1 DEF CardFrame, Live, RecordFlag
<1>2. CASE Connected \/ Dropped \/ Acked
  BY <1>2 DEF Connected, Dropped, Acked, loopVars, Live, RecordFlag
<1>3. CASE HostGet
  <2>1. ring' = ring /\ pc' = pc /\ sendFlag' = sendFlag /\ recordId' = recordId
        /\ handed' = handed /\ host'.ticked = host.ticked
    BY <1>3 DEF HostGet, loopVars, TypeOK
  <2> QED
    BY <2>1 DEF Live, RecordFlag
<1>4. CASE HostTick
  <2>1. pc # "save" /\ pc' = pc /\ handed' = handed
    BY <1>4 DEF HostTick, InTcpNet
  <2>2. CASE ring' = ring /\ host'.ticked = host.ticked
    BY <2>1, <2>2 DEF Live, RecordFlag
  <2>3. ASSUME NEW i \in Slots, ring'.data = ring.data,
               ring'.flag = [ring.flag EXCEPT ![i] = OK],
               host'.ticked = host.ticked \cup {ring.data[i].id}
        PROVE  SentInv'
    <3>1. \A j \in Slots \ {i} : RecordFlag(ring', j) = RecordFlag(ring, j)
      BY <2>3 DEF RecordFlag, TypeOK
    <3>2. ASSUME NEW j \in Live(ring'), RecordFlag(ring', j) = OK
          PROVE  ring'.data[j].id \in handed' \cup host'.ticked
      <4>1. CASE j = i
        BY <2>3, <4>1
      <4>2. CASE j # i
        <5>1. j \in Live(ring) /\ RecordFlag(ring, j) = OK
          BY <3>1, <3>2, <4>2 DEF Live
        <5> QED
          BY <2>1, <2>3, <5>1
      <4> QED
        BY <4>1, <4>2
    <3> QED
      BY <2>1, <3>2 DEF Live, RecordFlag
  <2> QED
    BY <1>4, <2>2, <2>3, TickEffect
<1>5. CASE NetDone \/ NoCard \/ TakeCard \/ ClearCard \/ Judge \/ Beat \/ NoBeat
  BY <1>5 DEF NetDone, NoCard, TakeCard, ClearCard, Judge, Beat, NoBeat, Live, RecordFlag
<1>6. CASE Send
  BY <1>6 DEF Send, SendNoSocket, SendClosed, SendConnecting, SendConnected, Transmit,
              SendFails, Return, Live, RecordFlag, OK
<1>7. CASE SaveCardInfo
  <2> DEFINE p == Position(recordId)
             e == [id |-> recordId, card |-> dealNo, ok |-> verdict]
  <2>1. /\ p \in Slots
        /\ ring'.data = [ring.data EXCEPT ![p] = e]
        /\ ring'.flag = [ring.flag EXCEPT ![p] = Byte(sendFlag)]
    BY <1>7, SaveEffect
  <2>2. pc = "save" /\ pc' = "timer" /\ UNCHANGED <<handed, host>>
    BY <1>7 DEF SaveCardInfo
  <2>3. Byte(sendFlag) = OK => recordId \in handed
    BY <2>2, FlagIsByte DEF TypeOK
  <2>4. RecordFlag(ring', p) = Byte(sendFlag) /\ ring'.data[p].id = recordId
    BY <2>1 DEF RecordFlag, TypeOK
  <2>5. \A j \in Slots \ {p} : RecordFlag(ring', j) = RecordFlag(ring, j)
                               /\ ring'.data[j] = ring.data[j]
    BY <2>1 DEF RecordFlag, TypeOK
  <2>6. ASSUME NEW j \in Live(ring'), RecordFlag(ring', j) = OK
        PROVE  ring'.data[j].id \in handed \cup host.ticked
    <3>1. CASE j = p
      BY <2>3, <2>4, <2>6, <3>1
    <3>2. CASE j # p
      <4>1. j \in Live(ring) /\ RecordFlag(ring, j) = OK /\ ring'.data[j] = ring.data[j]
        BY <2>5, <2>6, <3>2 DEF Live
      <4> QED
        BY <4>1
    <3> QED
      BY <3>1, <3>2
  <2> QED
    BY <2>2, <2>6 DEF Live, RecordFlag
<1>8. CASE UNCHANGED vars
  BY <1>8 DEF vars, Live, RecordFlag
<1> QED
  BY <1>1, <1>2, <1>3, <1>4, <1>5, <1>6, <1>7, <1>8 DEF Next, TcpNet, Loop

\* A record flagged as sent was given to tcp_send or ticked off by the host.
THEOREM SentIsHonest == Spec => []SentFlagHonest
<1>1. Init => SentInv
  <2> SUFFICES ASSUME Init PROVE SentInv
    OBVIOUS
  <2>1. Blank \in Entry
    BY MaxCardsAssumption DEF Blank, Entry, CardNos
  <2>2. Live(ring) = {}
    BY <2>1, CreatedIsEmpty DEF Init
  <2> QED
    BY <2>2 DEF Init, SentInv, SentFlagHonest
<1>2. SentInv => SentFlagHonest
  BY DEF SentInv
<1> QED
  BY <1>1, <1>2, TypeInit, TypeStep, RingInit, RingStep, SentStep, PTL DEF Spec
-----------------------------------------------------------------------------
(***************************************************************************)
(* What the host was given stays the first unsent record until it ticks:   *)
(* as long as the ring has not wrapped, records are saved behind it.       *)
(***************************************************************************)
TickInv ==
  recordId <= Count =>
    /\ \A i \in Live(ring) : i < recordId
    /\ host.at # -1 => /\ host.at \in Unsent(ring) /\ \A j \in Unsent(ring) : host.at <= j
                       /\ ring.data[host.at].id \in host.read
    /\ host.ticked \subseteq host.read

\* record_get_unsend_index returns the first slot that is live and not sent.
LEMMA FirstUnsentIs ==
  ASSUME NEW file
  PROVE  LET i == FirstUnsent(file) IN
         i # -1 => i \in Unsent(file) /\ \A j \in Unsent(file) : i <= j
<1>1. Unsent(file) \in SUBSET Slots
  BY DEF Unsent, Live
<1> QED
  BY <1>1, FirstIsLeast DEF FirstUnsent

LEMMA TickStep == TypeOK /\ TickInv /\ [Next]_vars => TickInv'
<1> SUFFICES ASSUME TypeOK, TickInv, [Next]_vars, recordId' <= Count
             PROVE  /\ \A i \in Live(ring') : i < recordId'
                    /\ host'.at # -1 =>
                         /\ host'.at \in Unsent(ring') /\ \A j \in Unsent(ring') : host'.at <= j
                         /\ ring'.data[host'.at].id \in host'.read
                    /\ host'.ticked \subseteq host'.read
  BY DEF TickInv
<1>a. recordId \in Nat \ {0}
  BY DEF TypeOK
<1>1. CASE UNCHANGED <<ring, host, recordId>>
  BY <1>1 DEF TickInv
<1>2. CASE CardFrame \/ Connected \/ Dropped \/ Acked \/ UNCHANGED vars
  BY <1>1, <1>2 DEF CardFrame, Connected, Dropped, Acked, loopVars, vars
<1>3. CASE NetDone \/ NoCard \/ TakeCard \/ ClearCard \/ Judge \/ Beat \/ NoBeat
  BY <1>1, <1>3 DEF NetDone, NoCard, TakeCard, ClearCard, Judge, Beat, NoBeat
<1>4. CASE Send
  BY <1>1, <1>4 DEF Send, SendNoSocket, SendClosed, SendConnecting, SendConnected, Transmit,
              SendFails
<1>5. CASE HostGet
  <2> DEFINE i == FirstUnsent(ring)
  <2>1. /\ UNCHANGED <<ring, recordId>> /\ host'.at = i /\ host'.ticked = host.ticked
        /\ host'.read = IF i = -1 THEN host.read ELSE host.read \cup {ring.data[i].id}
    BY <1>5 DEF HostGet, loopVars, TypeOK
  <2>2. i # -1 => i \in Unsent(ring) /\ \A j \in Unsent(ring) : i <= j
    BY FirstUnsentIs
  <2> HIDE DEF i
  <2> QED
    BY <2>1, <2>2 DEF TickInv
<1>6. CASE HostTick
  <2> DEFINE i == FirstUnsent(ring)
  <2>1. recordId' = recordId /\ host.at # -1 /\ host'.at = -1 /\ host'.read = host.read
    BY <1>6 DEF HostTick, TypeOK
  <2>2. /\ host.at \in Unsent(ring) /\ \A j \in Unsent(ring) : host.at <= j
        /\ ring.data[host.at].id \in host.read /\ host.ticked \subseteq host.read
        /\ \A j \in Live(ring) : j < recordId
    BY <2>1 DEF TickInv
  <2>3. i = host.at
    <3>1. i # -1 /\ i \in Unsent(ring) /\ \A j \in Unsent(ring) : i <= j
      <4>1. i # -1
        <5>1. Unsent(ring) \in SUBSET Slots /\ Unsent(ring) # {}
          BY <2>2 DEF Unsent, Live
        <5>2. First(Unsent(ring)) \in Slots
          BY <5>1, FirstIsLeast
        <5> QED
          BY <5>1, <5>2, CountAssumption DEF FirstUnsent, Slots
      <4> QED
        BY <4>1, FirstUnsentIs
    <3>2. i \in Slots /\ host.at \in Slots
      BY <2>2, <3>1 DEF Unsent, Live
    <3> QED
      BY <2>2, <3>1, <3>2, CountAssumption DEF Slots
  <2>4. i # -1 /\ i \in Slots
    BY <2>1, <2>2, <2>3 DEF Unsent, Live
  <2>5. host'.ticked = host.ticked \cup {ring.data[i].id} /\ ring' = SetRecordFlag(ring, i, OK)
    BY <1>6, <2>4 DEF HostTick, TypeOK
  <2> HIDE DEF i
  <2>6. host'.ticked \subseteq host'.read
    BY <2>1, <2>2, <2>3, <2>5
  <2>7. ring'.flag = [ring.flag EXCEPT ![i] = OK]
    <3>1. ring \in RandFiles(Entry) /\ OK \in FlagValues
      BY DEF TypeOK, RandFiles, OK, FlagValues
    <3> QED
      BY <2>4, <2>5, <3>1, FlagWritesOne
  <2>8. i \in Live(ring)
    BY <2>2, <2>3 DEF Unsent
  <2>9. \A j \in Live(ring') : j \in Live(ring)
    BY <2>4, <2>7, <2>8 DEF Live, RecordFlag, TypeOK
  <2> QED
    BY <2>1, <2>2, <2>6, <2>9
<1>7. CASE SaveCardInfo
  <2> DEFINE p == Position(recordId)
             e == [id |-> recordId, card |-> dealNo, ok |-> verdict]
  <2>1. /\ p \in Slots
        /\ ring'.data = [ring.data EXCEPT ![p] = e]
        /\ ring'.flag = [ring.flag EXCEPT ![p] = Byte(sendFlag)]
    BY <1>7, SaveEffect
  <2>2. recordId' = recordId + 1 /\ host' = host
    BY <1>7 DEF SaveCardInfo
  <2>3. recordId < Count /\ p = recordId
    BY <1>a, <2>2, CountAssumption DEF Position
  <2> HIDE DEF p, e
  <2>4. /\ \A j \in Live(ring) : j < recordId
        /\ host.at # -1 => /\ host.at \in Unsent(ring) /\ \A j \in Unsent(ring) : host.at <= j
                           /\ ring.data[host.at].id \in host.read
        /\ host.ticked \subseteq host.read
    BY <1>a, <2>2, <2>3, CountAssumption DEF TickInv
  <2>5. \A j \in Slots \ {p} : ring'.flag[j] = ring.flag[j] /\ ring'.data[j] = ring.data[j]
    BY <2>1 DEF TypeOK
  <2>6. \A j \in Live(ring') : j \in Live(ring) \/ j = p
    BY <2>5 DEF Live, RecordFlag
  <2>7. \A j \in Unsent(ring') : j \in Unsent(ring) \/ j = p
    BY <2>5 DEF Unsent, Live, RecordFlag
  <2>8. ASSUME host.at # -1
        PROVE  /\ host.at \in Unsent(ring') /\ \A j \in Unsent(ring') : host.at <= j
               /\ ring'.data[host.at].id \in host.read
    <3>1. host.at \in Slots /\ host.at < recordId /\ host.at # p
      BY <1>a, <2>3, <2>4, <2>8, CountAssumption DEF Unsent, Live, Slots
    <3>2. host.at \in Unsent(ring') /\ ring'.data[host.at].id \in host.read
      BY <2>4, <2>5, <2>8, <3>1 DEF Unsent, Live, RecordFlag
    <3>3. \A j \in Unsent(ring') : host.at <= j
      BY <1>a, <2>3, <2>4, <2>7, <2>8, <3>1, CountAssumption DEF Slots
    <3> QED
      BY <3>2, <3>3
  <2>9. \A j \in Live(ring') : j < recordId'
    <3> SUFFICES ASSUME NEW j \in Live(ring') PROVE j < recordId'
      OBVIOUS
    <3>1. j \in Slots
      BY DEF Live
    <3> QED
      BY <1>a, <2>2, <2>3, <2>4, <2>6, <3>1, CountAssumption DEF Slots
  <2> QED
    BY <2>2, <2>4, <2>8, <2>9
<1> QED
  BY <1>2, <1>3, <1>4, <1>5, <1>6, <1>7 DEF Next, TcpNet, Loop

\* Until the ring wraps, a host ticks off only records it has read, although
\* record_del_first_unsend searches again and records are saved in between.
THEOREM TicksAreOfRead == Spec => []TicksWhatItRead
<1>1. Init => TickInv
  <2> SUFFICES ASSUME Init PROVE TickInv
    OBVIOUS
  <2>1. Blank \in Entry
    BY MaxCardsAssumption DEF Blank, Entry, CardNos
  <2>2. Live(ring) = {}
    BY <2>1, CreatedIsEmpty DEF Init
  <2> QED
    BY <2>2 DEF Init, TickInv
<1>2. TickInv => TicksWhatItRead
  BY DEF TickInv, TicksWhatItRead
<1> QED
  BY <1>1, <1>2, TypeInit, TypeStep, TickStep, PTL DEF Spec

-----------------------------------------------------------------------------
(***************************************************************************)
(* The loop implements AccessJournal.  SaveCardInfo appends, HostTick      *)
(* makes one record sent or touches a slot no record in reach is in, and   *)
(* every other step is invisible.                                          *)
(***************************************************************************)
RealInv == /\ pc \in {"clear", "cam"} => dealNo # 0
           /\ \A i \in 1 .. Len(journal) : journal[i].card # 0

LEMMA RealStep == TypeOK /\ RealInv /\ [Next]_vars => RealInv'
<1> SUFFICES ASSUME TypeOK, RealInv, [Next]_vars PROVE RealInv'
  OBVIOUS
<1> USE DEF RealInv
<1>1. CASE Judge
  <2> DEFINE e == [card |-> dealNo, ok |-> verdict']
  <2>1. pc = "cam" /\ pc' = "send" /\ journal' = Append(journal, e)
    BY <1>1 DEF Judge
  <2>2. \A i \in 1 .. Len(journal') : \/ i \in 1 .. Len(journal) /\ journal'[i] = journal[i]
                                      \/ journal'[i] = e
    BY <2>1 DEF TypeOK
  <2>3. e.card # 0
    BY <2>1
  <2> QED
    BY <2>1, <2>2, <2>3
<1>2. CASE UNCHANGED <<pc, dealNo, journal>>
  BY <1>2
<1>3. CASE TakeCard \/ ClearCard
  BY <1>3 DEF TakeCard, ClearCard
<1>4. CASE NetDone \/ NoCard \/ Beat \/ NoBeat \/ SaveCardInfo
  BY <1>4 DEF NetDone, NoCard, Beat, NoBeat, SaveCardInfo
<1>5. CASE Send
  BY <1>5 DEF Send, SendNoSocket, SendClosed, SendConnecting, SendConnected, Transmit,
              SendFails, Return
<1>6. CardFrame \/ TcpNet \/ UNCHANGED vars => UNCHANGED <<pc, dealNo, journal>>
  BY DEF CardFrame, TcpNet, Connected, Dropped, Acked, HostGet, HostTick, loopVars, vars
<1> QED
  BY <1>1, <1>2, <1>3, <1>4, <1>5, <1>6 DEF Next, Loop

LEMMA SameRecords ==
  ASSUME UNCHANGED <<ring, recordId>>
  PROVE  UNCHANGED <<Saved, LastCard, Readable>>
BY DEF Saved, LastCard, Readable, RecordIn, RecordFlag

LEMMA JournalInit == Init => Journal!Init
<1> SUFFICES ASSUME Init PROVE Journal!Init
  OBVIOUS
<1>1. Saved = 0
  BY DEF Init, Saved
<1>2. Readable = [id \in {} |-> 0]
  BY <1>1, CountAssumption DEF Readable, Reach
<1> QED
  BY <1>1, <1>2 DEF Journal!Init, LastCard

LEMMA SaveAppends ==
  ASSUME TypeOK, OrderInv, RingInv, RealInv, SaveCardInfo
  PROVE  Journal!Next
<1> DEFINE p == Position(recordId)
           e == [id |-> recordId, card |-> dealNo, ok |-> verdict]
           stage == Stage(Byte(sendFlag))
<1>0. /\ recordId \in Nat \ {0} /\ Saved = recordId - 1 /\ Saved \in Nat
      /\ dealNo \in CardNos /\ MaxCards \in Nat
  BY MaxCardsAssumption DEF TypeOK, Saved
<1>1. /\ p \in Slots
      /\ ring'.data = [ring.data EXCEPT ![p] = e]
      /\ ring'.flag = [ring.flag EXCEPT ![p] = Byte(sendFlag)]
  BY SaveEffect
<1>2. pc = "save" /\ recordId' = recordId + 1
  BY DEF SaveCardInfo
<1>3. Len(journal) = recordId /\ journal[recordId] = [card |-> dealNo, ok |-> verdict]
  BY <1>0, <1>2 DEF RingInv, RingIsTail, InHand
<1>4. journal[recordId].card = dealNo /\ journal[recordId].ok = verdict
  BY <1>3
<1>5. journal[recordId] \in Judgement
  BY <1>0, <1>3 DEF TypeOK
<1>6. dealNo \in 1 .. MaxCards /\ verdict \in Verdicts
  BY <1>0, <1>3, <1>4, <1>5 DEF RealInv, Judgement, CardNos
<1>7. dealNo > LastCard
  <2>1. CASE Saved = 0
    BY <1>6, <2>1 DEF LastCard
  <2>2. CASE Saved # 0
    <3>1. Saved \in 1 .. Saved /\ Saved + Count > Saved
      BY <1>0, <2>2, CountAssumption
    <3>2. ring.data[Position(Saved)].card = journal[Saved].card
      <4>1. ring.data[Position(Saved)] =
              [id |-> Saved, card |-> journal[Saved].card, ok |-> journal[Saved].ok]
        BY <3>1 DEF RingInv, RingIsTail
      <4> QED
        BY <4>1
    <3>3. journal[Saved].card < journal[recordId].card
      BY <1>0, <1>3, <2>2 DEF OrderInv, JudgedInOrder
    <3> QED
      BY <1>4, <2>2, <3>2, <3>3 DEF LastCard, RecordIn
  <2> QED
    BY <2>1, <2>2
<1>8. Saved' = recordId /\ recordId # 0
  BY <1>0, <1>2 DEF Saved
<1>9. ring'.data[p] = e /\ RecordFlag(ring', p) = Byte(sendFlag)
  BY <1>1 DEF RecordFlag, TypeOK
<1>10. RecordIn(ring', recordId) = [card |-> dealNo, ok |-> verdict, stage |-> stage]
  BY <1>9 DEF RecordIn
<1>11. ASSUME NEW id \in Reach(recordId), id # recordId
       PROVE  id \in Reach(Saved) /\ RecordIn(ring', id) = RecordIn(ring, id)
  <2>1. id \in Reach(Saved) /\ id \in Nat /\ id < recordId /\ recordId < id + Count
    BY <1>0, <1>11, CountAssumption DEF Reach
  <2>2. Position(id) # p /\ Position(id) \in Slots
    BY <1>0, <2>1, PositionsDiffer, PositionIsSlot
  <2>3. ring'.data[Position(id)] = ring.data[Position(id)]
        /\ RecordFlag(ring', Position(id)) = RecordFlag(ring, Position(id))
    BY <1>1, <2>2 DEF RecordFlag, TypeOK
  <2> QED
    BY <2>1, <2>3 DEF RecordIn
<1>12. Readable' = [id \in Reach(recordId) |->
          IF id = recordId THEN [card |-> dealNo, ok |-> verdict, stage |-> stage]
          ELSE Readable[id]]
  <2>1. Readable' = [id \in Reach(recordId) |-> RecordIn(ring', id)]
    BY <1>8 DEF Readable, Reach, RecordIn, Position
  <2>2. \A id \in Reach(recordId) :
          RecordIn(ring', id) =
            IF id = recordId THEN [card |-> dealNo, ok |-> verdict, stage |-> stage]
            ELSE Readable[id]
    BY <1>10, <1>11 DEF Readable
  <2> QED
    BY <2>1, <2>2
<1>13. LastCard' = dealNo
  <2>1. LastCard' = RecordIn(ring', recordId).card
    BY <1>8 DEF LastCard, RecordIn, Position
  <2> QED
    BY <1>10, <2>1
<1>14. Journal!Append(dealNo, verdict, stage)
  BY <1>0, <1>7, <1>8, <1>12, <1>13 DEF Journal!Append, Journal!Window, Reach
<1> QED
  BY <1>6, <1>14 DEF Journal!Next, Journal!Stages, Stage

LEMMA TickMakesSent ==
  ASSUME TypeOK, HostTick
  PROVE  Journal!Next \/ UNCHANGED <<Saved, LastCard, Readable>>
<1>0. recordId \in Nat \ {0} /\ recordId' = recordId /\ Saved \in Nat /\ Saved' = Saved
  BY DEF TypeOK, HostTick, Saved
<1>1. CASE ring' = ring
  BY <1>0, <1>1, SameRecords
<1>2. ASSUME NEW i \in Unsent(ring), i \in Slots, ring'.data = ring.data,
             ring'.flag = [ring.flag EXCEPT ![i] = OK]
      PROVE  Journal!Next \/ UNCHANGED <<Saved, LastCard, Readable>>
  <2>1. \A j \in Slots \ {i} : RecordFlag(ring', j) = RecordFlag(ring, j)
    BY <1>2 DEF RecordFlag, TypeOK
  <2>2. RecordFlag(ring', i) = OK /\ RecordFlag(ring, i) # OK
    BY <1>2 DEF RecordFlag, TypeOK, Unsent
  <2>3. \A id \in Reach(Saved) : Position(id) \in Slots /\ id \in Nat
    BY <1>0, PositionIsSlot DEF Reach
  <2>4. \A id \in Reach(Saved) : Position(id) # i => RecordIn(ring', id) = RecordIn(ring, id)
    BY <1>2, <2>1, <2>3 DEF RecordIn
  <2>5. LastCard' = LastCard
    BY <1>0, <1>2 DEF LastCard, RecordIn, Position
  <2>6. Readable' = [id \in Reach(Saved) |-> RecordIn(ring', id)]
    BY <1>0 DEF Readable, Reach, RecordIn, Position
  <2>7. CASE \A id \in Reach(Saved) : Position(id) # i
    BY <1>0, <2>4, <2>5, <2>6, <2>7 DEF Readable
  <2>8. ASSUME NEW id \in Reach(Saved), Position(id) = i PROVE Journal!Next
    <3>1. \A n \in Reach(Saved) : n # id => Position(n) # i
      <4>1. SUFFICES ASSUME NEW n \in Reach(Saved), n # id PROVE Position(n) # Position(id)
        BY <2>8
      <4>2. /\ n \in Nat /\ n <= Saved /\ Saved < n + Count
            /\ id \in Nat /\ id <= Saved /\ Saved < id + Count
        BY <1>0, CountAssumption DEF Reach
      <4>3. n < id + Count /\ id < n + Count
        BY <1>0, <4>2, CountAssumption
      <4> QED
        BY <4>1, <4>2, <4>3, PositionsDiffer
    <3>2. RecordIn(ring', id) = [RecordIn(ring, id) EXCEPT !.stage = "sent"]
      <4>1. /\ RecordIn(ring', id) = [card |-> ring.data[i].card, ok |-> ring.data[i].ok,
                                      stage |-> "sent"]
            /\ RecordIn(ring, id) = [card |-> ring.data[i].card, ok |-> ring.data[i].ok,
                                     stage |-> "kept"]
        BY <1>2, <2>2, <2>8 DEF RecordIn, Stage
      <4> QED
        BY <4>1
    <3>3. Readable' = [Readable EXCEPT ![id].stage = "sent"]
      BY <2>4, <2>6, <2>8, <3>1, <3>2 DEF Readable
    <3>4. id \in DOMAIN Readable /\ Readable[id].stage = "kept"
      BY <2>2, <2>8 DEF Readable, RecordIn, Stage
    <3> QED
      BY <1>0, <2>5, <3>3, <3>4 DEF Journal!Next, Journal!BecomeSent
  <2> QED
    BY <2>7, <2>8
<1> QED
  BY <1>1, <1>2, TickEffect

\* The access loop implements its abstract journal: it appends one record per
\* card, in order, and only ever turns a record from unsent to sent.
THEOREM ImplementsJournal == Spec => IsJournal
<1> DEFINE Inv == TypeOK /\ OrderInv /\ RingInv /\ RealInv
<1>1. Init => Inv
  BY TypeInit, RingInit DEF Init, OrderInv, JudgedInOrder, RealInv
<1>2. Inv /\ [Next]_vars => Inv'
  BY TypeStep, OrderStep, RingStep, RealStep
<1>3. Inv /\ [Next]_vars => [Journal!Next]_<<Saved, LastCard, Readable>>
  <2> SUFFICES ASSUME Inv, [Next]_vars
               PROVE  Journal!Next \/ UNCHANGED <<Saved, LastCard, Readable>>
    OBVIOUS
  <2>1. CASE SaveCardInfo
    BY <2>1, SaveAppends
  <2>2. CASE HostTick
    BY <2>2, TickMakesSent
  <2>3. CASE UNCHANGED <<ring, recordId>>
    BY <2>3, SameRecords
  <2>4. CardFrame \/ Connected \/ Dropped \/ Acked \/ HostGet \/ UNCHANGED vars
          => UNCHANGED <<ring, recordId>>
    BY DEF CardFrame, Connected, Dropped, Acked, HostGet, loopVars, vars
  <2>5. NetDone \/ NoCard \/ TakeCard \/ ClearCard \/ Judge \/ Send \/ Beat \/ NoBeat
          => UNCHANGED <<ring, recordId>>
    BY DEF NetDone, NoCard, TakeCard, ClearCard, Judge, Beat, NoBeat, Send, SendNoSocket,
           SendClosed, SendConnecting, SendConnected, Transmit, SendFails, Return
  <2> QED
    BY <2>1, <2>2, <2>3, <2>4, <2>5 DEF Next, TcpNet, Loop
<1> QED
  BY <1>1, <1>2, <1>3, JournalInit, PTL DEF Spec, IsJournal, Journal!Spec

-----------------------------------------------------------------------------
(* The reader.  UARTIntHandler keeps no state of its own, so that what it has read  *)
(* is a matter of what the reader has still to send: as many bytes of the frame are *)
(* in the buffer as have left the line, from the start of it, unless a Hash inside  *)
(* the number has started it anew (ReadInv).                                        *)

ReaderTypeInv == /\ data \in [0 .. Size - 1 -> Bytes]
                 /\ count \in 0 .. Size - 1
                 /\ gCardNo \in [1 .. IdLen -> Bytes]
                 /\ line \in Seq(Bytes)
                 /\ frame \in Ids \cup {None}
                 /\ seen \subseteq Ids
                 /\ quiet \in BOOLEAN

\* a frame on the line
FrameLen == IdLen + 3
ByteOf(id, i) == IF i = 1 THEN Hash ELSE IF i = 2 THEN Kind
                 ELSE IF i = FrameLen THEN End ELSE id[i - 2]
Received == FrameLen - Len(line)

\* What is on the line is the rest of a frame of a card that was presented.
LineInv == /\ Len(line) <= FrameLen
           /\ \A j \in 1 .. Len(line) : line[j] = ByteOf(frame, Received + j)
           /\ line # <<>> => frame \in seen

\* What has left the line is in the buffer.
ReadInv == line # <<>> /\ Received > 0 /\ Hash \notin ToSet(frame) =>
             /\ count = Received
             /\ \A i \in 0 .. Received - 1 : data[i] = ByteOf(frame, i + 1)

\* No frame with a mark in its number is on a quiet line.
QuietInv == quiet => (line # <<>> => Plain(frame)) /\ gCardNo \in seen \cup {None}

ReaderInv == ReaderTypeInv /\ LineInv /\ ReadInv /\ QuietInv

-----------------------------------------------------------------------------
\* A frame is the bytes ByteOf names, FrameLen of them.
LEMMA FrameBytes ==
  ASSUME NEW id \in Ids
  PROVE  /\ Frame(id) \in Seq(Bytes)
         /\ Len(Frame(id)) = FrameLen
         /\ \A i \in 1 .. FrameLen : Frame(id)[i] = ByteOf(id, i)
<1>1. id \in Seq(Bytes) /\ Len(id) = IdLen /\ IdLen \in Nat
  BY IdsAssumption, LenAssumption
<1>2. <<Hash, Kind>> \in Seq(Bytes) /\ <<End>> \in Seq(Bytes)
  BY DEF Bytes
<1>3. /\ <<Hash, Kind>> \o id \in Seq(Bytes)
      /\ Len(<<Hash, Kind>> \o id) = IdLen + 2
      /\ \A i \in 1 .. IdLen + 2 :
           (<<Hash, Kind>> \o id)[i] = IF i = 1 THEN Hash ELSE IF i = 2 THEN Kind ELSE id[i - 2]
  BY <1>1, <1>2, ConcatProperties
<1>4. /\ Frame(id) \in Seq(Bytes)
      /\ Len(Frame(id)) = FrameLen
      /\ \A i \in 1 .. FrameLen :
           Frame(id)[i] = IF i <= IdLen + 2 THEN (<<Hash, Kind>> \o id)[i] ELSE <<End>>[i - IdLen - 2]
  BY <1>1, <1>2, <1>3, ConcatProperties DEF Frame, FrameLen
<1> QED
  BY <1>1, <1>3, <1>4 DEF ByteOf, FrameLen

\* What the handler copies out of a buffer, turned round twice, is the bytes from
\* the third on.
LEMMA SwappedBack ==
  ASSUME NEW buf \in [0 .. Size - 1 -> Bytes]
  PROVE  Swap(Loaded(buf)) = [i \in 1 .. IdLen |-> buf[i + 1]]
<1> DEFINE s == [i \in 1 .. IdLen |-> buf[i + 1]]
<1>1. IdLen \in Nat /\ Size \in Nat /\ Size > IdLen + 3
  BY LenAssumption
<1>2. s \in Seq(Bytes) /\ Len(s) = IdLen /\ \A i \in 1 .. IdLen : s[i] = buf[i + 1]
  BY <1>1
<1> HIDE DEF s
<1>3. /\ Reverse(s) \in Seq(Bytes) /\ Len(Reverse(s)) = IdLen
      /\ \A i \in 1 .. IdLen : Reverse(s)[i] = s[IdLen - i + 1]
  BY <1>1, <1>2 DEF Reverse
<1>4. /\ Reverse(Reverse(s)) \in Seq(Bytes) /\ Len(Reverse(Reverse(s))) = IdLen
      /\ \A i \in 1 .. IdLen : Reverse(Reverse(s))[i] = Reverse(s)[IdLen - i + 1]
  <2> DEFINE r == Reverse(s)
  <2>1. r \in Seq(Bytes) /\ Len(r) = IdLen
    BY <1>3
  <2> HIDE DEF r
  <2>2. /\ Reverse(r) \in Seq(Bytes) /\ Len(Reverse(r)) = IdLen
        /\ \A i \in 1 .. IdLen : Reverse(r)[i] = r[IdLen - i + 1]
    BY <1>1, <2>1 DEF Reverse
  <2> QED
    BY <2>2 DEF r
<1>5. \A i \in 1 .. IdLen : Reverse(Reverse(s))[i] = s[i]
  BY <1>1, <1>3, <1>4
<1>6. Reverse(Reverse(s)) = s
  BY <1>2, <1>4, <1>5, SeqEqual
<1> QED
  BY <1>6 DEF s, Swap, Loaded

\* A number is its bytes.
LEMMA NumberIs ==
  ASSUME NEW id \in Ids
  PROVE  id = [i \in 1 .. IdLen |-> id[i]]
BY IdsAssumption, LenProperties

-----------------------------------------------------------------------------
LEMMA ReaderInitInv == ReaderInit => ReaderInv
<1> SUFFICES ASSUME ReaderInit PROVE ReaderInv
  OBVIOUS
<1> USE LenAssumption
<1>1. None \in [1 .. IdLen -> Bytes]
  BY DEF None, Bytes
<1>2. ReaderTypeInv
  BY <1>1 DEF ReaderInit, ReaderTypeInv, Bytes
<1>3. LineInv /\ ReadInv
  BY DEF ReaderInit, LineInv, ReadInv, FrameLen
<1>4. QuietInv
  BY DEF ReaderInit, QuietInv
<1> QED
  BY <1>2, <1>3, <1>4 DEF ReaderInv

\* The body of the loop keeps the buffer, the count and the number in their types.
LEMMA ReceiveTypes ==
  ASSUME ReaderTypeInv, NEW byte \in Bytes, Receive(byte)
  PROVE  /\ data' \in [0 .. Size - 1 -> Bytes]
         /\ count' \in 0 .. Size - 1
         /\ gCardNo' \in [1 .. IdLen -> Bytes]
<1> DEFINE at == Start(byte)
           buf == IF Room(at) THEN [data EXCEPT ![at] = byte] ELSE data
<1> USE LenAssumption
<1>1. at \in 0 .. Size - 1
  BY DEF ReaderTypeInv, Start
<1>2. buf \in [0 .. Size - 1 -> Bytes]
  BY <1>1 DEF ReaderTypeInv
<1>3. /\ data' = buf
      /\ count' = IF Room(at) THEN at + 1 ELSE at
      /\ gCardNo' = IF byte = End THEN Swap(Loaded(buf)) ELSE gCardNo
  BY DEF Receive
<1> HIDE DEF buf, at
<1>4. count' \in 0 .. Size - 1
  BY <1>1, <1>3 DEF Room
<1>5. Swap(Loaded(buf)) \in [1 .. IdLen -> Bytes]
  <2>1. Swap(Loaded(buf)) = [i \in 1 .. IdLen |-> buf[i + 1]]
    BY <1>2, SwappedBack
  <2> QED
    BY <1>2, <2>1
<1> QED
  BY <1>2, <1>3, <1>4, <1>5 DEF ReaderTypeInv

\* The first byte on the line, and what is left after it.
LEMMA NextOnLine ==
  ASSUME ReaderInv, line # <<>>, line' = Tail(line), frame' = frame
  PROVE  /\ Len(line) \in 1 .. FrameLen
         /\ Head(line) = ByteOf(frame, Received + 1) /\ Head(line) \in Bytes
         /\ line' \in Seq(Bytes) /\ Received' = Received + 1
         /\ frame \in seen /\ seen \subseteq Ids
         /\ Len(line)' <= FrameLen
         /\ \A j \in 1 .. Len(line)' : line'[j] = ByteOf(frame', Received' + j)
<1> USE LenAssumption
<1>1. line \in Seq(Bytes) /\ seen \subseteq Ids /\ frame \in seen
  BY DEF ReaderInv, ReaderTypeInv, LineInv
<1>2. Len(line) \in 1 .. FrameLen
  BY <1>1, EmptySeq DEF ReaderInv, LineInv, FrameLen
<1>3. /\ Head(line) = line[1] /\ Head(line) \in Bytes
      /\ line' \in Seq(Bytes) /\ Len(line') = Len(line) - 1
      /\ \A j \in 1 .. Len(line') : line'[j] = line[j + 1]
  BY <1>1, HeadTailProperties
<1>4. Received' = Received + 1
  BY <1>2, <1>3 DEF Received, FrameLen
<1>5. \A j \in 1 .. Len(line) : line[j] = ByteOf(frame, Received + j)
  BY DEF ReaderInv, LineInv
<1>6. Head(line) = ByteOf(frame, Received + 1)
  BY <1>2, <1>3, <1>5
<1>7. Received \in Nat
  BY <1>2 DEF Received, FrameLen
<1>8. ASSUME NEW j \in 1 .. Len(line')
      PROVE  line'[j] = ByteOf(frame', Received' + j)
  <2>1. line'[j] = line[j + 1] /\ j + 1 \in 1 .. Len(line)
    BY <1>2, <1>3
  <2>2. line[j + 1] = ByteOf(frame, Received + (j + 1))
    BY <1>5, <2>1
  <2>3. Received + (j + 1) = Received' + j
    BY <1>4, <1>7
  <2>4. ByteOf(frame', Received' + j) = ByteOf(frame, Received' + j)
    BY DEF ByteOf, FrameLen
  <2> QED
    BY <2>1, <2>2, <2>3, <2>4
<1> QED
  BY <1>1, <1>2, <1>3, <1>4, <1>6, <1>8 DEF FrameLen

\* A byte of a frame that no Hash takes apart goes where it belongs, and the bytes
\* before it stay where they are.
LEMMA FrameGoesOn ==
  ASSUME ReaderInv, FrameByte, Hash \notin ToSet(frame)
  PROVE  /\ count' = Received'
         /\ \A i \in 0 .. Received' - 1 : data'[i] = ByteOf(frame, i + 1)
<1> USE LenAssumption
<1>1. line # <<>> /\ line' = Tail(line) /\ frame' = frame /\ Receive(Head(line))
  BY DEF FrameByte
<1>2. /\ Len(line) \in 1 .. FrameLen
      /\ Head(line) = ByteOf(frame, Received + 1)
      /\ Received' = Received + 1
      /\ frame \in Ids
  BY <1>1, NextOnLine
<1>3. Received \in 0 .. FrameLen - 1
  BY <1>2 DEF Received, FrameLen
<1>4. Received = 0 \/ (count = Received /\ \A i \in 0 .. Received - 1 : data[i] = ByteOf(frame, i + 1))
  BY <1>1, <1>3 DEF ReaderInv, ReadInv
<1>5. Start(Head(line)) = Received
  <2>1. CASE Received = 0
    BY <1>2, <2>1 DEF ByteOf, Start
  <2>2. CASE Received # 0
    <3>1. Len(frame) = IdLen /\ frame \in Seq(Bytes)
      BY <1>2, IdsAssumption
    <3>2. \A i \in 1 .. IdLen : frame[i] # Hash
      BY <3>1, LenProperties DEF ToSet
    <3>3. ByteOf(frame, Received + 1) # Hash
      BY <1>3, <2>2, <3>2, BytesAssumption DEF ByteOf, FrameLen
    <3> QED
      BY <1>2, <1>4, <2>2, <3>3 DEF Start
  <2> QED
    BY <2>1, <2>2
<1>6. Room(Received)
  BY <1>3 DEF Room, FrameLen
<1>7. data' = [data EXCEPT ![Received] = Head(line)] /\ count' = Received + 1
  BY <1>1, <1>5, <1>6 DEF Receive
<1>8. data \in [0 .. Size - 1 -> Bytes] /\ Received \in 0 .. Size - 1
  BY <1>3 DEF ReaderInv, ReaderTypeInv, FrameLen
<1>9. ASSUME NEW i \in 0 .. Received PROVE data'[i] = ByteOf(frame, i + 1)
  <2>1. CASE i = Received
    BY <1>2, <1>7, <1>8, <2>1
  <2>2. CASE i # Received
    BY <1>3, <1>4, <1>7, <1>8, <2>2
  <2> QED
    BY <2>1, <2>2
<1> QED
  BY <1>2, <1>3, <1>7, <1>9

\* At the last byte of such a frame the number in it is read.
LEMMA LastByteReads ==
  ASSUME ReaderInv, FrameByte, Hash \notin ToSet(frame), Head(line) = End,
         Len(line) = 1 \/ End \notin ToSet(frame)
  PROVE  gCardNo' = frame
<1> USE LenAssumption
<1>1. line # <<>> /\ line' = Tail(line) /\ frame' = frame /\ Receive(Head(line))
  BY DEF FrameByte
<1>2. /\ Len(line) \in 1 .. FrameLen
      /\ Head(line) = ByteOf(frame, Received + 1)
      /\ Received' = Received + 1
      /\ frame \in Ids
  BY <1>1, NextOnLine
<1>3. Len(frame) = IdLen /\ frame \in Seq(Bytes)
  BY <1>2, IdsAssumption
<1>4. Received + 1 = FrameLen
  <2>1. Received + 1 \in 1 .. FrameLen
    BY <1>2 DEF Received, FrameLen
  <2>2. CASE Len(line) = 1
    BY <2>2 DEF Received, FrameLen
  <2>3. CASE End \notin ToSet(frame)
    <3>1. \A i \in 1 .. IdLen : frame[i] # End
      BY <1>3, <2>3, LenProperties DEF ToSet
    <3> QED
      BY <1>2, <2>1, <3>1, BytesAssumption DEF ByteOf, FrameLen
  <2> QED
    BY <2>2, <2>3
<1>5. \A i \in 0 .. FrameLen - 1 : data'[i] = ByteOf(frame, i + 1)
  BY <1>2, <1>4, FrameGoesOn
<1>6. data' \in [0 .. Size - 1 -> Bytes]
  BY <1>1, <1>2, NextOnLine, ReceiveTypes DEF ReaderInv
<1>7. gCardNo' = Swap(Loaded(data'))
  BY <1>1 DEF Receive
<1>8. gCardNo' = [i \in 1 .. IdLen |-> data'[i + 1]]
  BY <1>6, <1>7, SwappedBack
<1>9. \A i \in 1 .. IdLen : data'[i + 1] = frame[i]
  BY <1>5 DEF ByteOf, FrameLen
<1> QED
  BY <1>2, <1>8, <1>9, NumberIs

-----------------------------------------------------------------------------
LEMMA FrameByteInv == ReaderInv /\ FrameByte => ReaderInv'
<1> SUFFICES ASSUME ReaderInv, FrameByte PROVE ReaderInv'
  OBVIOUS
<1> USE LenAssumption
<1>1. /\ line # <<>> /\ line' = Tail(line) /\ Receive(Head(line))
      /\ UNCHANGED <<frame, seen, quiet>>
  BY DEF FrameByte
<1>2. /\ Len(line) \in 1 .. FrameLen
      /\ Head(line) = ByteOf(frame, Received + 1) /\ Head(line) \in Bytes
      /\ line' \in Seq(Bytes)
      /\ frame \in seen /\ seen \subseteq Ids
      /\ LineInv'
  BY <1>1, NextOnLine DEF LineInv
<1>3. ReaderTypeInv'
  <2>1. ReaderTypeInv
    BY DEF ReaderInv
  <2>2. /\ data' \in [0 .. Size - 1 -> Bytes]
        /\ count' \in 0 .. Size - 1
        /\ gCardNo' \in [1 .. IdLen -> Bytes]
    BY <1>1, <1>2, <2>1, ReceiveTypes
  <2> QED
    BY <1>1, <1>2, <2>1, <2>2 DEF ReaderTypeInv
<1>4. ReadInv'
  BY <1>1, FrameGoesOn DEF ReadInv
<1>5. QuietInv'
  <2> SUFFICES ASSUME quiet PROVE Plain(frame) /\ gCardNo' \in seen \cup {None}
    BY <1>1 DEF QuietInv, Plain
  <2>1. Plain(frame) /\ gCardNo \in seen \cup {None}
    BY <1>1 DEF ReaderInv, QuietInv
  <2>2. CASE Head(line) # End
    BY <1>1, <2>1, <2>2 DEF Receive
  <2>3. CASE Head(line) = End
    BY <1>1, <1>2, <2>1, <2>3, LastByteReads DEF Plain
  <2> QED
    BY <2>1, <2>2, <2>3
<1> QED
  BY <1>2, <1>3, <1>4, <1>5 DEF ReaderInv

LEMMA OtherStepsInv == ReaderInv /\ (\/ \E id \in Ids : Present(id)
                                    \/ NoiseByte \/ Taken \/ UNCHANGED readerVars) => ReaderInv'
<1> USE LenAssumption
<1>1. ASSUME ReaderInv, NEW id \in Ids, Present(id) PROVE ReaderInv'
  <2>1. /\ line' = Frame(id) /\ frame' = id /\ seen' = seen \cup {id}
        /\ quiet' = (quiet /\ Plain(id)) /\ UNCHANGED <<data, count, gCardNo>>
    BY <1>1 DEF Present
  <2>2. /\ Frame(id) \in Seq(Bytes) /\ Len(Frame(id)) = FrameLen
        /\ \A i \in 1 .. FrameLen : Frame(id)[i] = ByteOf(id, i)
    BY FrameBytes
  <2>3. FrameLen \in Nat
    BY DEF FrameLen
  <2>4. Received' = 0
    BY <2>1, <2>2, <2>3 DEF Received, FrameLen
  <2>5. ReaderTypeInv'
    BY <1>1, <2>1, <2>2 DEF ReaderInv, ReaderTypeInv
  <2>6. LineInv'
    <3>1. \A j \in 1 .. Len(line') : line'[j] = ByteOf(frame', Received' + j)
      BY <2>1, <2>2, <2>3, <2>4 DEF ByteOf, FrameLen
    <3> QED
      BY <2>1, <2>2, <2>3, <3>1 DEF LineInv, FrameLen
  <2>7. ReadInv'
    BY <2>4 DEF ReadInv
  <2>8. QuietInv'
    BY <1>1, <2>1 DEF ReaderInv, QuietInv, Plain
  <2> QED
    BY <2>5, <2>6, <2>7, <2>8 DEF ReaderInv
<1>2. ASSUME ReaderInv, NoiseByte PROVE ReaderInv'
  <2>1. PICK byte \in Noise : Receive(byte)
    BY <1>2 DEF NoiseByte
  <2>2. line = <<>> /\ quiet' = FALSE /\ UNCHANGED <<line, frame, seen>>
    BY <1>2 DEF NoiseByte
  <2>3. byte \in Bytes /\ ReaderTypeInv
    BY <1>2 DEF Bytes, ReaderInv
  <2>4. ReaderTypeInv'
    BY <2>1, <2>2, <2>3, ReceiveTypes DEF ReaderTypeInv
  <2> QED
    BY <1>2, <2>2, <2>4 DEF ReaderInv, LineInv, ReadInv, QuietInv, FrameLen, Received, ByteOf
<1>3. ASSUME ReaderInv, Taken PROVE ReaderInv'
  <2>1. gCardNo' = None /\ UNCHANGED <<data, count, line, frame, seen, quiet>>
    BY <1>3 DEF Taken
  <2>2. None \in [1 .. IdLen -> Bytes]
    BY DEF None, Bytes
  <2> QED
    BY <1>3, <2>1, <2>2
    DEF ReaderInv, ReaderTypeInv, LineInv, ReadInv, QuietInv, FrameLen, Received, ByteOf, Plain
<1>4. ASSUME ReaderInv, UNCHANGED readerVars PROVE ReaderInv'
  BY <1>4 DEF readerVars, ReaderInv, ReaderTypeInv, LineInv, ReadInv, QuietInv, FrameLen,
              Received, ByteOf, Plain
<1> QED
  BY <1>1, <1>2, <1>3, <1>4

LEMMA ReaderSafe == ReaderSpec => []ReaderInv
<1>1. ReaderInv /\ [ReaderNext]_readerVars => ReaderInv'
  BY FrameByteInv, OtherStepsInv DEF ReaderNext
<1> QED
  BY ReaderInitInv, <1>1, PTL DEF ReaderSpec

-----------------------------------------------------------------------------
\* The count of UARTIntHandler stays below the size of its buffer, and everything
\* it keeps in its type, whatever bytes arrive.
THEOREM ReaderTypeCorrect == ReaderSpec => []ReaderTypeOK
<1>1. ReaderInv => ReaderTypeOK
  BY DEF ReaderInv, ReaderTypeInv, ReaderTypeOK
<1> QED
  BY ReaderSafe, <1>1, PTL

\* As long as no noise and no frame with a mark in its number has been on the line,
\* g_card_no never holds a number that was not presented.
THEOREM NothingElseIsRead == ReaderSpec => []OnlyPresented
<1>1. ReaderInv => OnlyPresented
  BY DEF ReaderInv, QuietInv, OnlyPresented
<1> QED
  BY ReaderSafe, <1>1, PTL

\* A frame without a Hash in its number is read whole, whatever the handler received
\* before it.
THEOREM FramesAreRead == ReaderSpec => FrameIsRead
<1> DEFINE Reads == line = <<End>> /\ line' = <<>> /\ Hash \notin ToSet(frame) => gCardNo' = frame
<1>1. ReaderInv /\ [ReaderNext]_readerVars => [Reads]_readerVars
  <2> SUFFICES ASSUME ReaderInv, ReaderNext, line = <<End>>, line' = <<>>, Hash \notin ToSet(frame)
               PROVE  gCardNo' = frame
    OBVIOUS
  <2>1. FrameByte
    <3>1. line # <<>> /\ line # line'
      OBVIOUS
    <3> QED
      BY <3>1 DEF ReaderNext, Present, NoiseByte, Taken
  <2>2. Head(line) = End /\ Len(line) = 1
    OBVIOUS
  <2> QED
    BY <2>1, <2>2, LastByteReads
<1> QED
  BY ReaderSafe, <1>1, PTL DEF ReaderSpec, FrameIsRead
=============================================================================
