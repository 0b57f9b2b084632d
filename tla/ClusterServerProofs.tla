------------------------ MODULE ClusterServerProofs ------------------------
(***************************************************************************)
(* Theorems about the cluster server: the records it receives (HostLink),  *)
(* for any number of records and connections and any number of items       *)
(* waiting on one, and the white lists it sends out (WhiteListSync).       *)
(*                                                                         *)
(* A record that has left the terminal is in one place only: waiting on a  *)
(* connection, in the hand of a thread that saves it, or in the database   *)
(* (OnceInv), and it is there only if it was flagged as sent (SentInv).    *)
(* While nothing is rough there is one connection and one thread, and what *)
(* is in the database was made before what the thread holds, and that      *)
(* before what waits (OrderInv).                                           *)
(***************************************************************************)
EXTENDS HostLink, WhiteListSync, SequenceTheorems, TLAPS

Waiting(c) == ToSet(stream[c]) \ {Beat}
InHand(c) == IF thread[c] = "save" THEN {Head(chunk[c])} ELSE {}
Under(c) == Waiting(c) \cup InHand(c)

Once(s) == \A i, j \in DOMAIN s : s[i] = s[j] /\ s[i] # Beat => i = j
Rising(s) == \A i, j \in DOMAIN s : i < j /\ s[i] # Beat /\ s[j] # Beat => s[i] < s[j]

\* Only connections that were made are in use.
PlaceInv ==
  /\ sock = "connect" => conns # 0
  /\ \A c \in Conns : c > conns => stream[c] = <<>> /\ thread[c] = "none"
  /\ \A c \in Conns : thread[c] = "save" => chunk[c] # <<>> /\ Head(chunk[c]) \in Records

\* What has left the terminal was made, and is flagged as sent.
SentInv == \A r \in Records :
             r \in Saved \/ (\E c \in Conns : r \in Under(c)) => r <= made /\ flag[r] = OK

\* No record is in two places.
OnceInv ==
  /\ IsInjective(db)
  /\ \A c \in Conns : /\ Once(stream[c])
                      /\ Waiting(c) \cap InHand(c) = {}
                      /\ Under(c) \cap Saved = {}
                      /\ \A d \in Conns \ {c} : Under(c) \cap Under(d) = {}

\* While nothing is rough there is one connection, its thread goes on, and the
\* records under way are in order.
LinkInv == /\ (sock # "connect" /\ conns = 0) \/ (sock = "connect" /\ conns = 1)
           /\ \A c \in Conns : thread[c] # "ended"
InOrder ==
  /\ LinkInv
  /\ Rising(db)
  /\ \A c \in Conns : /\ Rising(stream[c])
                      /\ \A r \in InHand(c), q \in Waiting(c) : r < q
                      /\ \A r \in Saved, q \in Under(c) : r < q
OrderInv == ~rough => InOrder

Inv == TypeOK /\ PlaceInv /\ SentInv /\ OnceInv /\ OrderInv

-----------------------------------------------------------------------------
\* Sequences of items, and what is in them.
LEMMA Appended ==
  ASSUME NEW S, NEW s \in Seq(S), NEW e \in S
  PROVE  /\ Append(s, e) \in Seq(S) /\ ToSet(Append(s, e)) = ToSet(s) \cup {e}
         /\ Len(Append(s, e)) = Len(s) + 1
         /\ \A i \in 1 .. Len(s) : Append(s, e)[i] = s[i]
         /\ Append(s, e)[Len(s) + 1] = e
<1>1. /\ Append(s, e) \in Seq(S) /\ Len(Append(s, e)) = Len(s) + 1
      /\ \A i \in 1 .. Len(s) : Append(s, e)[i] = s[i]
      /\ Append(s, e)[Len(s) + 1] = e
  OBVIOUS
<1>2. DOMAIN Append(s, e) = 1 .. Len(s) + 1 /\ DOMAIN s = 1 .. Len(s) /\ Len(s) \in Nat
  BY <1>1, LenProperties
<1>3. ToSet(Append(s, e)) = ToSet(s) \cup {e}
  BY <1>1, <1>2 DEF ToSet
<1> QED
  BY <1>1, <1>3

LEMMA Divided ==
  ASSUME NEW S, NEW s \in Seq(S), NEW n \in 0 .. Len(s)
  PROVE  LET p == SubSeq(s, 1, n)
             q == SubSeq(s, n + 1, Len(s))
         IN /\ p \in Seq(S) /\ DOMAIN p = 1 .. n /\ \A i \in 1 .. n : p[i] = s[i]
            /\ q \in Seq(S) /\ DOMAIN q = 1 .. Len(s) - n
            /\ \A i \in 1 .. Len(s) - n : n + i \in DOMAIN s /\ q[i] = s[n + i]
            /\ ToSet(p) \subseteq ToSet(s) /\ ToSet(q) \subseteq ToSet(s)
<1> DEFINE p == SubSeq(s, 1, n)
           q == SubSeq(s, n + 1, Len(s))
<1>1. Len(s) \in Nat /\ DOMAIN s = 1 .. Len(s) /\ \A i \in 1 .. Len(s) : s[i] \in S
  BY LenProperties, ElementOfSeq
<1>2. p \in Seq(S) /\ Len(p) = n /\ \A i \in 1 .. n : p[i] = s[i]
  BY <1>1, SubSeqProperties
<1>3. q \in Seq(S) /\ Len(q) = Len(s) - n /\ \A i \in 1 .. Len(s) - n : q[i] = s[n + i]
  <2>1. \A i \in n + 1 .. Len(s) : s[i] \in S
    BY <1>1
  <2>2. /\ q \in Seq(S)
        /\ Len(q) = IF n + 1 <= Len(s) THEN Len(s) - (n + 1) + 1 ELSE 0
        /\ \A i \in 1 .. Len(s) - (n + 1) + 1 : q[i] = s[n + 1 + i - 1]
    BY <1>1, <2>1, SubSeqProperties
  <2> HIDE DEF q
  <2>3. Len(q) = Len(s) - n
    <3>1. CASE n + 1 <= Len(s)
      BY <1>1, <2>2, <3>1
    <3>2. CASE n = Len(s)
      BY <1>1, <2>2, <3>2
    <3>3. n + 1 <= Len(s) \/ n = Len(s)
      <4>1. Len(s) \in Int
        BY <1>1
      <4>2. n \in Int
        BY <4>1
      <4>3. n <= Len(s)
        BY <4>1
      <4>4. Len(s) < n + 1 => n = Len(s)
        BY <4>1, <4>2, <4>3
      <4> QED
        BY <4>1, <4>2, <4>4
    <3> QED
      BY <3>1, <3>2, <3>3
  <2>4. ASSUME NEW i \in 1 .. Len(s) - n PROVE q[i] = s[n + i]
    <3>1. i \in 1 .. Len(s) - (n + 1) + 1 /\ n + 1 + i - 1 = n + i
      BY <1>1
    <3>2. q[i] = s[n + 1 + i - 1]
      BY <2>2, <3>1
    <3> QED
      BY <3>1, <3>2
  <2> QED
    BY <2>2, <2>3, <2>4
<1> HIDE DEF p, q
<1>4. DOMAIN p = 1 .. n /\ DOMAIN q = 1 .. Len(s) - n
  BY <1>2, <1>3, LenProperties
<1>5. \A i \in 1 .. n : i \in DOMAIN s
  BY <1>1
<1>6. \A i \in 1 .. Len(s) - n : n + i \in DOMAIN s
  BY <1>1
<1>7. ToSet(p) \subseteq ToSet(s) /\ ToSet(q) \subseteq ToSet(s)
  <2>1. \A i \in DOMAIN p : i \in DOMAIN s /\ p[i] = s[i]
    BY <1>2, <1>4, <1>5
  <2>2. \A i \in DOMAIN q : n + i \in DOMAIN s /\ q[i] = s[n + i]
    BY <1>3, <1>4, <1>6
  <2>3. ToSet(p) \subseteq ToSet(s)
    BY <2>1 DEF ToSet
  <2>4. ToSet(q) \subseteq ToSet(s)
    BY <2>2 DEF ToSet
  <2> QED
    BY <2>3, <2>4
<1> QED
  BY <1>2, <1>3, <1>4, <1>6, <1>7 DEF p, q

\* A part of a sequence holds each record once, in order, if the sequence does.
LEMMA PartOnce ==
  ASSUME NEW s \in Seq(Items), NEW n \in 0 .. Len(s),
         NEW p, p = SubSeq(s, 1, n) \/ p = SubSeq(s, n + 1, Len(s))
  PROVE  /\ p \in Seq(Items) /\ ToSet(p) \subseteq ToSet(s)
         /\ Once(s) => Once(p)
         /\ Rising(s) => Rising(p)
<1>1. PICK d \in Nat :
        /\ p \in Seq(Items) /\ ToSet(p) \subseteq ToSet(s)
        /\ \A i \in DOMAIN p : d + i \in DOMAIN s /\ p[i] = s[d + i]
  <2>1. CASE p = SubSeq(s, 1, n)
    <3>1. \A i \in DOMAIN p : i \in DOMAIN s /\ i \in Int /\ 0 + i = i
      BY <2>1, Divided, LenProperties
    <3> QED
      BY <2>1, <3>1, Divided
  <2>2. CASE p = SubSeq(s, n + 1, Len(s))
    <3>1. n \in Nat
      BY LenProperties
    <3>2. /\ p \in Seq(Items) /\ ToSet(p) \subseteq ToSet(s) /\ DOMAIN p = 1 .. Len(s) - n
          /\ \A i \in 1 .. Len(s) - n : n + i \in DOMAIN s /\ p[i] = s[n + i]
      BY <2>2, Divided
    <3> QED
      BY <3>1, <3>2
  <2> QED
    BY <2>1, <2>2
<1>2. DOMAIN p \subseteq Int /\ DOMAIN s \subseteq Int
  BY <1>1, LenProperties
<1>3. \A i, j \in DOMAIN p : (d + i = d + j => i = j) /\ (i < j => d + i < d + j)
  BY <1>2
<1>4. Once(s) => Once(p)
  BY <1>1, <1>3 DEF Once
<1>5. Rising(s) => Rising(p)
  BY <1>1, <1>3 DEF Rising
<1> QED
  BY <1>1, <1>4, <1>5

-----------------------------------------------------------------------------
LEMMA ConnUp ==
  ASSUME TypeOK, PlaceInv, sock = "connect"
  PROVE  conns \in Conns /\ stream[conns] \in Seq(Items)
<1>1. conns \in 0 .. MaxConns /\ conns # 0 /\ MaxConns \in Nat
  BY BoundsAssumption DEF TypeOK, PlaceInv
<1>2. conns \in Conns
  BY <1>1 DEF Conns
<1> QED
  BY <1>2 DEF TypeOK

\* What a send does: with a connection the item waits on it, and nothing else
\* changes; without one nothing waits.
LEMMA SendEffect ==
  ASSUME TypeOK, PlaceInv, NEW item \in Items, Send(item)
  PROVE  /\ sock' = IF sock = "closed" THEN "connecting" ELSE sock
         /\ sock = "connect" =>
              /\ conns \in Conns
              /\ stream' = [stream EXCEPT ![conns] = Append(stream[conns], item)]
         /\ sock # "connect" => stream' = stream
         /\ stream' \in [Conns -> Seq(Items)]
<1> USE BoundsAssumption
<1>1. sock = "connect" => conns \in Conns
  BY ConnUp
<1>2. CASE sock = "connect"
  <2>1. Append(stream[conns], item) \in Seq(Items)
    BY <1>1, <1>2 DEF TypeOK
  <2> QED
    BY <1>1, <1>2, <2>1 DEF Send, TypeOK
<1>3. CASE sock # "connect"
  BY <1>3 DEF Send, TypeOK
<1> QED
  BY <1>2, <1>3

LEMMA TypeInit == Init => TypeOK /\ PlaceInv
<1> SUFFICES ASSUME Init PROVE TypeOK /\ PlaceInv
  OBVIOUS
<1>1. 0 \in 0 .. MaxRecords /\ 0 \in 0 .. MaxConns
  BY BoundsAssumption
<1>2. <<>> \in Seq(Items) /\ <<>> \in Seq(Records)
  OBVIOUS
<1>3. stream \in [Conns -> Seq(Items)] /\ chunk \in [Conns -> Seq(Items)]
  BY <1>2 DEF Init
<1>4. flag \in [Records -> {0, OK, -2, -3}]
  BY DEF Init
<1>5. TypeOK
  <2>1. {known, timeout, rough, failed} \subseteq BOOLEAN /\ hasty \subseteq 1 .. conns
    BY DEF Init
  <2> QED
    BY <1>1, <1>2, <1>3, <1>4, <2>1 DEF Init, TypeOK
<1>6. PlaceInv
  BY DEF Init, PlaceInv
<1> QED
  BY <1>5, <1>6

LEMMA TerminalTypes ==
  ASSUME TypeOK, PlaceInv,
         SendRecord \/ SendBeat \/ Connect \/ Break \/ ServerClosed \/ VisitTerminal
  PROVE  TypeOK' /\ PlaceInv'
<1> USE BoundsAssumption DEF timeVars
<1>1. CASE SendRecord
  <2>1. made + 1 \in Records /\ made' = made + 1
    BY <1>1 DEF SendRecord, TypeOK, Records
  <2>2. /\ Send(made + 1) /\ flag' = [flag EXCEPT ![made + 1] = SendResult]
        /\ UNCHANGED <<conns, thread, chunk, db, known, timeout, hasty, rough, failed>>
    BY <1>1 DEF SendRecord
  <2>3. made + 1 \in Items
    BY <2>1 DEF Items
  <2>4. SendResult \in {OK, -2, -3}
    BY DEF SendResult
  <2>5. flag' \in [Records -> {0, OK, -2, -3}] /\ made' \in 0 .. MaxRecords
    BY <2>1, <2>2, <2>4 DEF TypeOK, Records
  <2>6. TypeOK'
    BY <2>2, <2>3, <2>5, SendEffect DEF TypeOK
  <2>7. PlaceInv'
    BY <2>2, <2>3, SendEffect DEF TypeOK, PlaceInv, Conns
  <2> QED
    BY <2>6, <2>7
<1>2. CASE SendBeat
  <2>1. /\ Send(Beat) /\ Beat \in Items
        /\ UNCHANGED <<made, flag, conns, thread, chunk, db, known, timeout, hasty, rough, failed>>
    BY <1>2 DEF SendBeat, terminalVars, Items
  <2>2. TypeOK'
    BY <2>1, SendEffect DEF TypeOK
  <2>3. PlaceInv'
    BY <2>1, SendEffect DEF TypeOK, PlaceInv, Conns
  <2> QED
    BY <2>2, <2>3
<1>3. CASE Connect
  <2>1. conns + 1 \in Conns
    BY <1>3 DEF Connect, TypeOK, Conns
  <2>4. conns' = conns + 1 /\ hasty' \subseteq hasty \cup {conns + 1}
    BY <1>3 DEF Connect
  <2>5. hasty' \subseteq 1 .. conns'
    BY <2>1, <2>4 DEF TypeOK, Conns
  <2>2. TypeOK'
    <3>1. thread' \in [Conns -> {"none", "recv", "save", "ended"}] /\ conns' \in 0 .. MaxConns
      BY <1>3, <2>1 DEF Connect, TypeOK, Conns
    <3>2. sock' = "connect"
          /\ UNCHANGED <<made, flag, stream, chunk, db, known, timeout, rough, failed>>
      BY <1>3 DEF Connect, terminalVars
    <3> QED
      BY <2>5, <3>1, <3>2 DEF TypeOK
  <2>3. PlaceInv'
    BY <1>3, <2>1 DEF Connect, terminalVars, TypeOK, PlaceInv, Conns
  <2> QED
    BY <2>2, <2>3
<1>4. CASE Break
  <2>1. PICK n \in 0 .. Len(stream[conns]) :
          stream' = [stream EXCEPT ![conns] = SubSeq(stream[conns], 1, n)]
    BY <1>4 DEF Break
  <2>2. conns \in Conns /\ stream[conns] \in Seq(Items)
    BY <1>4, ConnUp DEF Break
  <2>3. SubSeq(stream[conns], 1, n) \in Seq(Items)
    BY <2>2, Divided
  <2>4. TypeOK'
    BY <1>4, <2>1, <2>2, <2>3 DEF Break, terminalVars, TypeOK
  <2>5. PlaceInv'
    BY <1>4, <2>1, <2>2 DEF Break, terminalVars, TypeOK, PlaceInv, Conns
  <2> QED
    BY <2>4, <2>5
<1>5. CASE ServerClosed
  <2>1. /\ sock' = "closed" /\ stream' = [stream EXCEPT ![conns] = <<>>]
        /\ UNCHANGED <<made, flag, conns, thread, chunk, db, known, timeout, hasty, rough, failed>>
    BY <1>5 DEF ServerClosed, terminalVars
  <2>2. stream' \in [Conns -> Seq(Items)]
    <3>1. <<>> \in Seq(Items)
      OBVIOUS
    <3> QED
      BY <2>1, <3>1 DEF TypeOK
  <2>3. TypeOK'
    BY <2>1, <2>2 DEF TypeOK
  <2>4. PlaceInv'
    BY <2>1 DEF TypeOK, PlaceInv
  <2> QED
    BY <2>3, <2>4
<1>6. CASE VisitTerminal
  BY <1>6 DEF VisitTerminal, terminalVars, TypeOK, PlaceInv
<1> QED
  BY <1>1, <1>2, <1>3, <1>4, <1>5, <1>6
\* What a thread takes from its connection, and what it leaves there.
LEMMA Taken ==
  ASSUME TypeOK, NEW c \in Conns, NEW n \in Sizes(c)
  PROVE  /\ stream[c] \in Seq(Items) /\ Len(stream[c]) \in Nat \ {0} /\ n \in 0 .. Len(stream[c])
         /\ stream[c][1] = Head(stream[c]) /\ stream[c] # <<>>
         /\ SubSeq(stream[c], 1, n) \in Seq(Items) /\ SubSeq(stream[c], 1, n) # <<>>
         /\ Head(SubSeq(stream[c], 1, n)) = Head(stream[c])
         /\ Head(stream[c]) # Beat => Head(stream[c]) \in Records
         /\ Rest(c, n) \in Seq(Items) /\ ToSet(Rest(c, n)) \subseteq ToSet(stream[c])
         /\ \A i \in DOMAIN Rest(c, n) : i >= 1 /\ n + i \in DOMAIN stream[c]
                                         /\ Rest(c, n)[i] = stream[c][n + i]
<1>1. stream[c] \in Seq(Items) /\ Len(stream[c]) \in Nat
  BY DEF TypeOK
<1>2. n \in 1 .. Len(stream[c])
  BY DEF Sizes
<1>3. Len(stream[c]) \in Nat \ {0} /\ n \in 0 .. Len(stream[c])
  BY <1>1, <1>2
<1>4. stream[c] # <<>> /\ Head(stream[c]) = stream[c][1] /\ Head(stream[c]) \in Items
  BY <1>1, <1>3, HeadTailProperties
<1>5. /\ SubSeq(stream[c], 1, n) \in Seq(Items)
      /\ DOMAIN SubSeq(stream[c], 1, n) = 1 .. n
      /\ \A i \in 1 .. n : SubSeq(stream[c], 1, n)[i] = stream[c][i]
  BY <1>1, <1>3, Divided
<1>6. SubSeq(stream[c], 1, n) # <<>> /\ Head(SubSeq(stream[c], 1, n)) = stream[c][1]
  <2> DEFINE p == SubSeq(stream[c], 1, n)
  <2>1. p \in Seq(Items) /\ DOMAIN p = 1 .. n /\ p[1] = stream[c][1]
    BY <1>1, <1>2, <1>5
  <2> HIDE DEF p
  <2>2. Len(p) = n
    BY <1>1, <1>2, <2>1, LenProperties
  <2>3. p # <<>>
    BY <1>1, <1>2, <2>2
  <2> QED
    BY <2>1, <2>3, HeadTailProperties DEF p
<1>7. /\ Rest(c, n) \in Seq(Items) /\ ToSet(Rest(c, n)) \subseteq ToSet(stream[c])
      /\ DOMAIN Rest(c, n) = 1 .. Len(stream[c]) - n
      /\ \A i \in 1 .. Len(stream[c]) - n :
           n + i \in DOMAIN stream[c] /\ Rest(c, n)[i] = stream[c][n + i]
  BY <1>1, <1>3, Divided DEF Rest
<1>8. \A i \in DOMAIN Rest(c, n) : i >= 1
  BY <1>1, <1>3, <1>7
<1>9. Head(stream[c]) # Beat => Head(stream[c]) \in Records
  BY <1>4 DEF Items
<1> QED
  BY <1>1, <1>3, <1>4, <1>5, <1>6, <1>7, <1>8, <1>9

LEMMA ServerTypes ==
  ASSUME TypeOK, PlaceInv, NEW c \in Conns, Server(c)
  PROVE  TypeOK' /\ PlaceInv'
<1> USE BoundsAssumption DEF timeVars
<1>1. CASE RecvBeat(c)
  <2>1. PICK n \in Sizes(c) : stream' = [stream EXCEPT ![c] = Rest(c, n)] /\ rough' = (rough \/ n > 1)
    BY <1>1 DEF RecvBeat
  <2>2. Rest(c, n) \in Seq(Items)
    BY Taken
  <2>3. /\ thread[c] = "recv" /\ known' = TRUE
        /\ UNCHANGED <<made, flag, sock, conns, thread, chunk, db, timeout, hasty, failed>>
    BY <1>1 DEF RecvBeat, Register, terminalVars
  <2>4. TypeOK'
    BY <2>1, <2>2, <2>3 DEF TypeOK
  <2>5. PlaceInv'
    BY <2>1, <2>3 DEF TypeOK, PlaceInv
  <2> QED
    BY <2>4, <2>5
<1>2. CASE RecvRecord(c)
  <2>1. PICK n \in Sizes(c) :
          /\ thread[c] = "recv" /\ Head(stream[c]) # Beat
          /\ chunk' = [chunk EXCEPT ![c] = SubSeq(stream[c], 1, n)]
          /\ stream' = [stream EXCEPT ![c] = Rest(c, n)]
          /\ thread' = [thread EXCEPT ![c] = "save"]
          /\ rough' = (rough \/ n > 1)
          /\ UNCHANGED <<made, flag, sock, conns, db, known, timeout, hasty, failed>>
    BY <1>2 DEF RecvRecord, terminalVars
  <2>2. /\ Rest(c, n) \in Seq(Items) /\ SubSeq(stream[c], 1, n) \in Seq(Items)
        /\ SubSeq(stream[c], 1, n) # <<>> /\ Head(SubSeq(stream[c], 1, n)) \in Records
    BY <2>1, Taken
  <2>3. TypeOK'
    BY <2>1, <2>2 DEF TypeOK
  <2>4. PlaceInv'
    BY <2>1, <2>2 DEF TypeOK, PlaceInv
  <2> QED
    BY <2>3, <2>4
<1>3. CASE RecvEnds(c)
  BY <1>3 DEF RecvEnds, terminalVars, TypeOK, PlaceInv
<1>4. CASE SaveRecord(c)
  <2>1. Head(chunk[c]) \in Records
    BY <1>4 DEF SaveRecord, PlaceInv
  <2>2. Append(db, Head(chunk[c])) \in Seq(Records)
    BY <2>1 DEF TypeOK
  <2> QED
    BY <1>4, <2>2 DEF SaveRecord, AfterSave, terminalVars, TypeOK, PlaceInv
<1>5. CASE SaveFails(c)
  <2>1. Head(chunk[c]) \in Records
    BY <1>5 DEF SaveFails, PlaceInv
  <2>2. Append(db, Head(chunk[c])) \in Seq(Records)
    BY <2>1 DEF TypeOK
  <2>3. /\ thread' = [thread EXCEPT ![c] = "ended"] /\ chunk' = [chunk EXCEPT ![c] = <<>>]
        /\ db' = db \/ db' = Append(db, Head(chunk[c]))
        /\ rough' = TRUE /\ failed' = TRUE
        /\ UNCHANGED <<made, flag, sock, conns, stream, known, timeout, hasty>>
    BY <1>5 DEF SaveFails, terminalVars
  <2>4. db' \in Seq(Records)
    BY <2>2, <2>3 DEF TypeOK
  <2>5. c > conns => thread[c] # "save"
    BY DEF PlaceInv
  <2>6. TypeOK'
    <3>1. thread' \in [Conns -> {"none", "recv", "save", "ended"}] /\ chunk' \in [Conns -> Seq(Items)]
      BY <2>3 DEF TypeOK
    <3> QED
      BY <2>3, <2>4, <3>1 DEF TypeOK
  <2>7. PlaceInv'
    BY <1>5, <2>3, <2>5 DEF SaveFails, TypeOK, PlaceInv
  <2> QED
    BY <2>6, <2>7
<1> QED
  BY <1>1, <1>2, <1>3, <1>4, <1>5 DEF Server

LEMMA TypeStep == TypeOK /\ PlaceInv /\ [Next]_vars => TypeOK' /\ PlaceInv'
<1>1. TypeOK /\ PlaceInv /\ UNCHANGED vars => TypeOK' /\ PlaceInv'
  BY DEF vars, timeVars, TypeOK, PlaceInv
<1> QED
  BY <1>1, TerminalTypes, ServerTypes DEF Next

-----------------------------------------------------------------------------
Places == SentInv /\ OnceInv /\ OrderInv

LEMMA PlacesInit == Init => Places
<1> SUFFICES ASSUME Init PROVE Places
  OBVIOUS
<1>1. db = <<>> /\ Saved = {} /\ ToSet(<<>>) = {}
  BY DEF Init, Saved, ToSet
<1>2. \A c \in Conns : stream[c] = <<>> /\ Waiting(c) = {} /\ InHand(c) = {}
  BY <1>1 DEF Init, Waiting, InHand
<1>3. SentInv
  BY <1>1, <1>2 DEF SentInv, Under
<1>4. OnceInv
  BY <1>1, <1>2 DEF OnceInv, Under, Once, IsInjective
<1>5. OrderInv
  BY <1>1, <1>2 DEF Init, OrderInv, InOrder, LinkInv, Under, Rising
<1> QED
  BY <1>3, <1>4, <1>5 DEF Places

\* A step after which less is under way, and nothing else is saved, moves no record
\* to a second place.
LEMMA LessUnderWay ==
  ASSUME Places, db' = db, made' = made, flag' = flag, rough => rough',
         LinkInv /\ ~rough' => LinkInv',
         \A c \in Conns : /\ Waiting(c)' \subseteq Waiting(c)
                          /\ InHand(c)' \subseteq InHand(c)
                          /\ Once(stream[c]) => Once(stream'[c])
                          /\ Rising(stream[c]) => Rising(stream'[c])
  PROVE  Places'
<1>1. Saved' = Saved
  BY DEF Saved
<1>2. \A c \in Conns : Under(c)' \subseteq Under(c)
  BY DEF Under
<1>3. SentInv'
  BY <1>1, <1>2 DEF Places, SentInv
<1>4. OnceInv'
  <2>1. IsInjective(db')
    BY DEF Places, OnceInv
  <2>2. ASSUME NEW c \in Conns
        PROVE  /\ Once(stream'[c])
               /\ Waiting(c)' \cap InHand(c)' = {}
               /\ Under(c)' \cap Saved' = {}
               /\ \A d \in Conns \ {c} : Under(c)' \cap Under(d)' = {}
    <3>1. Once(stream[c]) /\ Waiting(c) \cap InHand(c) = {} /\ Under(c) \cap Saved = {}
          /\ \A d \in Conns \ {c} : Under(c) \cap Under(d) = {}
      BY DEF Places, OnceInv
    <3> QED
      BY <1>1, <1>2, <3>1
  <2> QED
    BY <2>1, <2>2 DEF OnceInv
<1>5. OrderInv'
  <2> SUFFICES ASSUME ~rough' PROVE InOrder'
    BY DEF OrderInv
  <2>1. InOrder
    BY DEF Places, OrderInv
  <2>2. LinkInv' /\ Rising(db')
    BY <2>1 DEF InOrder
  <2>3. ASSUME NEW c \in Conns
        PROVE  /\ Rising(stream'[c])
               /\ \A r \in InHand(c)', q \in Waiting(c)' : r < q
               /\ \A r \in Saved', q \in Under(c)' : r < q
    BY <1>1, <1>2, <2>1 DEF InOrder
  <2> QED
    BY <2>2, <2>3 DEF InOrder
<1> QED
  BY <1>3, <1>4, <1>5 DEF Places

LEMMA UnchangedPlaces ==
  ASSUME Places, UNCHANGED <<made, flag, sock, conns, stream, thread, chunk, db, rough>>
  PROVE  Places'
<1>1. \A c \in Conns : Waiting(c)' = Waiting(c) /\ InHand(c)' = InHand(c) /\ stream'[c] = stream[c]
  BY DEF Waiting, InHand
<1> QED
  BY <1>1, LessUnderWay DEF LinkInv

\* A connection of which only a part is left.
LEMMA PartLeft ==
  ASSUME TypeOK, Places, NEW c \in Conns, NEW n \in 0 .. Len(stream[c]),
         NEW p, p = SubSeq(stream[c], 1, n) \/ p = SubSeq(stream[c], n + 1, Len(stream[c])),
         stream' = [stream EXCEPT ![c] = p],
         UNCHANGED <<made, flag, db>>, rough => rough', LinkInv /\ ~rough' => LinkInv',
         \A d \in Conns : InHand(d)' \subseteq InHand(d)
  PROVE  Places'
<1>1. stream[c] \in Seq(Items)
  BY DEF TypeOK
<1>2. /\ ToSet(p) \subseteq ToSet(stream[c])
      /\ Once(stream[c]) => Once(p)
      /\ Rising(stream[c]) => Rising(p)
  BY <1>1, PartOnce
<1>3. \A d \in Conns : stream'[d] = IF d = c THEN p ELSE stream[d]
  BY DEF TypeOK
<1>4. \A d \in Conns : /\ Waiting(d)' \subseteq Waiting(d)
                       /\ Once(stream[d]) => Once(stream'[d])
                       /\ Rising(stream[d]) => Rising(stream'[d])
  BY <1>2, <1>3 DEF Waiting
<1> QED
  BY <1>4, LessUnderWay

LEMMA OneMore ==
  ASSUME NEW s \in Seq(Items), NEW e \in Items
  PROVE  /\ Once(s) /\ (e = Beat \/ e \notin ToSet(s)) => Once(Append(s, e))
         /\ Rising(s) /\ (e = Beat \/ \A q \in ToSet(s) \ {Beat} : q < e)
              => Rising(Append(s, e))
<1> DEFINE t == Append(s, e)
<1>1. /\ t \in Seq(Items) /\ Len(t) = Len(s) + 1
      /\ \A i \in 1 .. Len(s) : t[i] = s[i]
      /\ t[Len(s) + 1] = e
  BY Appended
<1> HIDE DEF t
<1>2. DOMAIN t = 1 .. Len(s) + 1 /\ DOMAIN s = 1 .. Len(s) /\ Len(s) \in Nat
  BY <1>1, LenProperties
<1>3. \A i \in DOMAIN t : (i \in DOMAIN s /\ t[i] = s[i] /\ t[i] \in ToSet(s))
                          \/ (i = Len(s) + 1 /\ t[i] = e)
  BY <1>1, <1>2 DEF ToSet
<1>4. \A i \in DOMAIN s : ~(Len(s) + 1 < i)
  BY <1>2
<1>5. Once(s) /\ (e = Beat \/ e \notin ToSet(s)) => Once(t)
  BY <1>3 DEF Once
<1>6. Rising(s) /\ (e = Beat \/ \A q \in ToSet(s) \ {Beat} : q < e) => Rising(t)
  <2> SUFFICES ASSUME Rising(s), e = Beat \/ \A q \in ToSet(s) \ {Beat} : q < e,
                      NEW i \in DOMAIN t, NEW j \in DOMAIN t, i < j, t[i] # Beat, t[j] # Beat
               PROVE  t[i] < t[j]
    BY DEF Rising
  <2>1. CASE j \in DOMAIN s /\ t[j] = s[j]
    <3>1. i \in DOMAIN s /\ t[i] = s[i]
      BY <1>2, <1>3, <2>1
    <3> QED
      BY <2>1, <3>1 DEF Rising
  <2>2. CASE j = Len(s) + 1 /\ t[j] = e
    <3>1. t[i] \in ToSet(s)
      BY <1>2, <1>3, <2>2
    <3> QED
      BY <2>2, <3>1
  <2> QED
    BY <1>3, <2>1, <2>2
<1> QED
  BY <1>5, <1>6 DEF t

LEMMA SendBeatPlaces ==
  ASSUME TypeOK, PlaceInv, Places, SendBeat
  PROVE  Places'
<1>1. /\ Send(Beat) /\ Beat \in Items
      /\ UNCHANGED <<made, flag, conns, thread, chunk, db, rough>>
  BY DEF SendBeat, terminalVars, Items
<1>2. LinkInv => LinkInv'
  BY <1>1, SendEffect DEF LinkInv
<1>3. \A c \in Conns : InHand(c)' = InHand(c)
  BY <1>1 DEF InHand
<1>4. \A c \in Conns : /\ Waiting(c)' \subseteq Waiting(c)
                       /\ Once(stream[c]) => Once(stream'[c])
                       /\ Rising(stream[c]) => Rising(stream'[c])
  <2>1. CASE sock = "connect"
    <3>1. conns \in Conns /\ stream' = [stream EXCEPT ![conns] = Append(stream[conns], Beat)]
      BY <1>1, <2>1, SendEffect
    <3>2. stream[conns] \in Seq(Items)
      BY <2>1, ConnUp
    <3>3. /\ Once(stream[conns]) => Once(Append(stream[conns], Beat))
          /\ Rising(stream[conns]) => Rising(Append(stream[conns], Beat))
          /\ ToSet(Append(stream[conns], Beat)) = ToSet(stream[conns]) \cup {Beat}
      BY <1>1, <3>2, OneMore, Appended
    <3>4. \A c \in Conns :
            stream'[c] = IF c = conns THEN Append(stream[conns], Beat) ELSE stream[c]
      BY <3>1 DEF TypeOK
    <3> QED
      BY <3>3, <3>4 DEF Waiting
  <2>2. CASE sock # "connect"
    <3>1. stream' = stream
      BY <1>1, <2>2, SendEffect
    <3> QED
      BY <3>1 DEF Waiting
  <2> QED
    BY <2>1, <2>2
<1> QED
  BY <1>1, <1>2, <1>3, <1>4, LessUnderWay

LEMMA ConnectPlaces ==
  ASSUME TypeOK, PlaceInv, Places, Connect
  PROVE  Places'
<1>1. /\ sock = "connecting" /\ sock' = "connect" /\ conns' = conns + 1
      /\ thread' = [thread EXCEPT ![conns + 1] = "recv"]
      /\ UNCHANGED <<made, flag, stream, chunk, db, rough>>
  BY DEF Connect, terminalVars
<1>2. \A c \in Conns : thread'[c] = IF c = conns + 1 THEN "recv" ELSE thread[c]
  BY <1>1 DEF TypeOK
<1>3. \A c \in Conns : Waiting(c)' = Waiting(c) /\ InHand(c)' \subseteq InHand(c)
  BY <1>1, <1>2 DEF Waiting, InHand
<1>4. LinkInv => LinkInv'
  BY <1>1, <1>2 DEF LinkInv
<1> QED
  BY <1>1, <1>3, <1>4, LessUnderWay

LEMMA LostPlaces ==
  ASSUME TypeOK, PlaceInv, Places, Break \/ ServerClosed
  PROVE  Places'
<1>1. /\ sock = "connect" /\ UNCHANGED <<made, flag, thread, chunk, db>>
  BY DEF Break, ServerClosed, terminalVars
<1>2. conns \in Conns /\ stream[conns] \in Seq(Items)
  BY <1>1, ConnUp
<1>3. \A d \in Conns : InHand(d)' \subseteq InHand(d)
  BY <1>1 DEF InHand
<1>4. CASE Break
  <2>1. PICK n \in 0 .. Len(stream[conns]) :
          stream' = [stream EXCEPT ![conns] = SubSeq(stream[conns], 1, n)]
    BY <1>4 DEF Break
  <2>2. rough'
    BY <1>4 DEF Break
  <2> QED
    BY <1>1, <1>2, <1>3, <2>1, <2>2, PartLeft
<1>5. CASE ServerClosed
  <2>1. SubSeq(stream[conns], 1, 0) = <<>> /\ 0 \in 0 .. Len(stream[conns])
    BY <1>2, SubSeqEmpty, LenProperties
  <2>2. stream' = [stream EXCEPT ![conns] = <<>>] /\ rough' = rough /\ ~LinkInv
    BY <1>2, <1>5 DEF ServerClosed, LinkInv
  <2> QED
    BY <1>1, <1>2, <1>3, <2>1, <2>2, PartLeft
<1> QED
  BY <1>4, <1>5

\* The record just made is in no place yet, and comes after every other.
LEMMA SendRecordPlaces ==
  ASSUME TypeOK, PlaceInv, Places, SendRecord
  PROVE  Places'
<1> DEFINE new == made + 1
<1> USE BoundsAssumption
<1>1. new \in Records /\ new \in Items /\ new # Beat /\ made \in Nat
  BY BeatAssumption DEF SendRecord, TypeOK, Records, Items
<1>2. /\ made' = new /\ Send(new) /\ flag' = [flag EXCEPT ![new] = SendResult]
      /\ UNCHANGED <<conns, thread, chunk, db, rough>>
  BY DEF SendRecord
<1>3. \A r \in Records : flag'[r] = IF r = new THEN SendResult ELSE flag[r]
  BY <1>2 DEF TypeOK
<1>4. \A c \in Conns : InHand(c)' = InHand(c)
  BY <1>2 DEF InHand
<1>5. Saved' = Saved /\ Saved \subseteq Records
  BY <1>2, LenProperties DEF Saved, ToSet, TypeOK
<1>6. \A c \in Conns : Waiting(c) \subseteq Records /\ InHand(c) \subseteq Records
  <2>1. \A c \in Conns : \A i \in DOMAIN stream[c] : stream[c][i] \in Items
    BY LenProperties DEF TypeOK
  <2> QED
    BY <2>1 DEF Waiting, InHand, Items, ToSet, PlaceInv
<1>7. /\ \A r \in Saved : r <= made /\ r # new /\ flag'[r] = flag[r] /\ flag[r] = OK /\ r < new
      /\ \A c \in Conns : \A r \in Under(c) :
           r \in Records /\ r <= made /\ r # new /\ flag'[r] = flag[r] /\ flag[r] = OK /\ r < new
  <2>1. \A r \in Records : r <= made => r # new /\ r < new
    BY <1>1 DEF Records
  <2>2. \A r \in Saved : r <= made /\ flag[r] = OK
    BY <1>5 DEF Places, SentInv
  <2>3. \A c \in Conns : \A r \in Under(c) : r \in Records /\ r <= made /\ flag[r] = OK
    BY <1>6 DEF Places, SentInv, Under
  <2> HIDE DEF new
  <2> QED
    BY <1>3, <1>5, <2>1, <2>2, <2>3
<1>8. LinkInv => LinkInv'
  BY <1>1, <1>2, SendEffect DEF LinkInv
<1> HIDE DEF new
<1>9. CASE sock = "connect"
  <2>1. /\ conns \in Conns /\ stream[conns] \in Seq(Items)
        /\ stream' = [stream EXCEPT ![conns] = Append(stream[conns], new)]
    BY <1>1, <1>2, <1>9, ConnUp, SendEffect
  <2>2. new \notin ToSet(stream[conns])
    BY <1>1, <1>7, <2>1 DEF Under, Waiting
  <2>3. \A q \in ToSet(stream[conns]) \ {Beat} : q < new
    BY <1>7, <2>1 DEF Under, Waiting
  <2>4. /\ Once(stream[conns]) => Once(Append(stream[conns], new))
        /\ Rising(stream[conns]) => Rising(Append(stream[conns], new))
        /\ ToSet(Append(stream[conns], new)) = ToSet(stream[conns]) \cup {new}
    BY <1>1, <2>1, <2>2, <2>3, OneMore, Appended
  <2>5. \A c \in Conns :
          stream'[c] = IF c = conns THEN Append(stream[conns], new) ELSE stream[c]
    BY <2>1 DEF TypeOK
  <2>6. \A c \in Conns : Waiting(c)' = IF c = conns THEN Waiting(c) \cup {new} ELSE Waiting(c)
    BY <1>1, <2>4, <2>5 DEF Waiting
  <2>7. \A c \in Conns : /\ Under(c)' = IF c = conns THEN Under(c) \cup {new} ELSE Under(c)
                         /\ Once(stream[c]) => Once(stream'[c])
                         /\ Rising(stream[c]) => Rising(stream'[c])
    BY <1>4, <2>4, <2>5, <2>6 DEF Under
  <2>8. flag'[new] = OK
    BY <1>1, <1>3, <1>9 DEF SendResult
  <2>9. SentInv'
    <3> SUFFICES ASSUME NEW r \in Records, r \in Saved \/ \E c \in Conns : r \in Under(c)'
                 PROVE  r <= new /\ flag'[r] = OK
      BY <1>2, <1>5 DEF SentInv
    <3>1. CASE r = new
      BY <1>1, <2>8, <3>1 DEF Records
    <3>2. CASE r # new
      <4>1. r \in Saved \/ \E c \in Conns : r \in Under(c)
        BY <2>7, <3>2
      <4>2. r < new /\ flag'[r] = OK
        BY <1>7, <4>1
      <4> QED
        BY <1>1, <4>2 DEF Records
    <3> QED
      BY <3>1, <3>2
  <2>10. OnceInv'
    <3>1. IsInjective(db')
      BY <1>2 DEF Places, OnceInv
    <3>2. ASSUME NEW c \in Conns
          PROVE  /\ Once(stream'[c])
                 /\ Waiting(c)' \cap InHand(c)' = {}
                 /\ Under(c)' \cap Saved' = {}
                 /\ \A d \in Conns \ {c} : Under(c)' \cap Under(d)' = {}
      <4>1. /\ Once(stream[c]) /\ Waiting(c) \cap InHand(c) = {} /\ Under(c) \cap Saved = {}
            /\ \A d \in Conns \ {c} : Under(c) \cap Under(d) = {}
        BY DEF Places, OnceInv
      <4>2. new \notin Saved /\ new \notin InHand(c) /\ \A d \in Conns : new \notin Under(d)
        BY <1>7 DEF Under
      <4>3. Once(stream'[c]) /\ Waiting(c)' \cap InHand(c)' = {} /\ Under(c)' \cap Saved' = {}
        BY <1>4, <1>5, <2>6, <2>7, <4>1, <4>2
      <4>4. \A d \in Conns \ {c} : Under(c)' \cap Under(d)' = {}
        BY <2>7, <4>1, <4>2
      <4> QED
        BY <4>3, <4>4
    <3> QED
      BY <3>1, <3>2 DEF OnceInv
  <2>11. OrderInv'
    <3> SUFFICES ASSUME ~rough PROVE InOrder'
      BY <1>2 DEF OrderInv
    <3>1. InOrder
      BY DEF Places, OrderInv
    <3>2. LinkInv' /\ Rising(db')
      BY <1>2, <1>8, <3>1 DEF InOrder
    <3>3. ASSUME NEW c \in Conns
          PROVE  /\ Rising(stream'[c])
                 /\ \A r \in InHand(c)', q \in Waiting(c)' : r < q
                 /\ \A r \in Saved', q \in Under(c)' : r < q
      <4>1. /\ Rising(stream[c])
            /\ \A r \in InHand(c), q \in Waiting(c) : r < q
            /\ \A r \in Saved, q \in Under(c) : r < q
        BY <3>1 DEF InOrder
      <4>2. \A r \in InHand(c) : r < new
        BY <1>7 DEF Under
      <4> QED
        BY <1>4, <1>5, <1>7, <2>6, <2>7, <4>1, <4>2
    <3> QED
      BY <3>2, <3>3 DEF InOrder
  <2> QED
    BY <2>9, <2>10, <2>11 DEF Places
<1>10. CASE sock # "connect"
  <2>1. stream' = stream
    BY <1>1, <1>2, <1>10, SendEffect
  <2>2. \A c \in Conns : Waiting(c)' = Waiting(c) /\ Under(c)' = Under(c)
    BY <1>4, <2>1 DEF Waiting, Under
  <2>3. SentInv'
    <3> SUFFICES ASSUME NEW r \in Records, r \in Saved \/ \E c \in Conns : r \in Under(c)
                 PROVE  r <= new /\ flag'[r] = OK
      BY <1>2, <1>5, <2>2 DEF SentInv
    <3>1. r < new /\ flag'[r] = OK
      BY <1>7
    <3> QED
      BY <1>1, <3>1 DEF Records
  <2>4. OnceInv'
    BY <1>2, <1>4, <1>5, <2>1, <2>2 DEF Places, OnceInv
  <2>5. OrderInv'
    BY <1>2, <1>4, <1>5, <1>8, <2>1, <2>2 DEF Places, OrderInv, InOrder
  <2> QED
    BY <2>3, <2>4, <2>5 DEF Places
<1> QED
  BY <1>9, <1>10

LEMMA RecvBeatPlaces ==
  ASSUME TypeOK, Places, NEW c \in Conns, RecvBeat(c)
  PROVE  Places'
<1>1. PICK n \in Sizes(c) : stream' = [stream EXCEPT ![c] = Rest(c, n)] /\ rough' = (rough \/ n > 1)
  BY DEF RecvBeat
<1>2. UNCHANGED <<made, flag, sock, conns, thread, chunk, db>>
  BY DEF RecvBeat, terminalVars
<1>3. \A d \in Conns : InHand(d)' = InHand(d)
  BY <1>2 DEF InHand
<1>4. LinkInv => LinkInv'
  BY <1>2 DEF LinkInv
<1>5. n \in 0 .. Len(stream[c]) /\ Rest(c, n) = SubSeq(stream[c], n + 1, Len(stream[c]))
  BY Taken DEF Rest
<1> QED
  BY <1>1, <1>2, <1>3, <1>4, <1>5, PartLeft

LEMMA EndsPlaces ==
  ASSUME TypeOK, Places, NEW c \in Conns, RecvEnds(c) \/ SaveFails(c), db' = db
  PROVE  Places'
<1>1. /\ thread' = [thread EXCEPT ![c] = "ended"] /\ rough'
      /\ UNCHANGED <<made, flag, stream, db>>
      /\ \A d \in Conns \ {c} : chunk'[d] = chunk[d]
  BY DEF RecvEnds, SaveFails, terminalVars, TypeOK
<1>2. \A d \in Conns : thread'[d] = IF d = c THEN "ended" ELSE thread[d]
  BY <1>1 DEF TypeOK
<1>3. \A d \in Conns : Waiting(d)' = Waiting(d) /\ InHand(d)' \subseteq InHand(d)
  BY <1>1, <1>2 DEF Waiting, InHand
<1> QED
  BY <1>1, <1>3, LessUnderWay

\* A record received goes from the connection to the hand of its thread; what was
\* lumped with it is lost.
LEMMA RecvRecordPlaces ==
  ASSUME TypeOK, Places, NEW c \in Conns, RecvRecord(c)
  PROVE  Places'
<1>1. PICK n \in Sizes(c) :
        /\ thread[c] = "recv" /\ Head(stream[c]) # Beat
        /\ chunk' = [chunk EXCEPT ![c] = SubSeq(stream[c], 1, n)]
        /\ stream' = [stream EXCEPT ![c] = Rest(c, n)]
        /\ thread' = [thread EXCEPT ![c] = "save"]
        /\ rough' = (rough \/ n > 1)
        /\ UNCHANGED <<made, flag, sock, conns, db>>
  BY DEF RecvRecord, terminalVars
<1> DEFINE r == Head(stream[c])
<1>2. /\ stream[c] \in Seq(Items) /\ n \in 0 .. Len(stream[c]) /\ Len(stream[c]) \in Nat \ {0}
      /\ r = stream[c][1] /\ Head(SubSeq(stream[c], 1, n)) = r
      /\ ToSet(Rest(c, n)) \subseteq ToSet(stream[c])
      /\ \A i \in DOMAIN Rest(c, n) : /\ i >= 1 /\ n + i \in DOMAIN stream[c]
                                      /\ Rest(c, n)[i] = stream[c][n + i]
  BY Taken
<1>3. DOMAIN stream[c] = 1 .. Len(stream[c]) /\ 1 \in DOMAIN stream[c] /\ r \in Waiting(c)
  BY <1>1, <1>2, LenProperties DEF Waiting, ToSet
<1>4. \A i \in DOMAIN Rest(c, n) : 1 < n + i /\ n + i \in DOMAIN stream[c]
                                   /\ Rest(c, n)[i] = stream[c][n + i]
  BY <1>2, <1>3 DEF Sizes
<1>5. \A d \in Conns : /\ stream'[d] = IF d = c THEN Rest(c, n) ELSE stream[d]
                       /\ InHand(d)' = IF d = c THEN {r} ELSE InHand(d)
  BY <1>1, <1>2 DEF TypeOK, InHand
<1>6. InHand(c) = {}
  BY <1>1 DEF InHand
<1> HIDE DEF r
<1>7. /\ Waiting(c)' = ToSet(Rest(c, n)) \ {Beat} /\ Waiting(c)' \subseteq Waiting(c)
      /\ \A d \in Conns \ {c} : Waiting(d)' = Waiting(d)
  BY <1>2, <1>5 DEF Waiting
<1>8. /\ \A d \in Conns : Under(d)' \subseteq Under(d)
      /\ Saved' = Saved
  BY <1>1, <1>3, <1>5, <1>7 DEF Under, Saved
<1>9. SentInv'
  BY <1>1, <1>8 DEF Places, SentInv
<1>10. (Once(stream[c]) => Once(Rest(c, n))) /\ (Rising(stream[c]) => Rising(Rest(c, n)))
  <2>1. Rest(c, n) = SubSeq(stream[c], n + 1, Len(stream[c]))
    BY DEF Rest
  <2> QED
    BY <1>2, <2>1, PartOnce
<1>11. Once(stream[c]) => r \notin Waiting(c)'
  <2> SUFFICES ASSUME Once(stream[c]), r \in Waiting(c)' PROVE FALSE
    OBVIOUS
  <2>1. PICK i \in DOMAIN Rest(c, n) : Rest(c, n)[i] = r /\ r # Beat
    BY <1>7 DEF ToSet
  <2>2. stream[c][n + i] = stream[c][1] /\ stream[c][1] # Beat
    BY <1>2, <1>4, <2>1
  <2>3. n + i = 1
    BY <1>3, <1>4, <2>2 DEF Once
  <2> QED
    BY <1>4, <2>3
<1>12. OnceInv'
  <2>1. IsInjective(db')
    BY <1>1 DEF Places, OnceInv
  <2>2. ASSUME NEW d \in Conns
        PROVE  /\ Once(stream'[d])
               /\ Waiting(d)' \cap InHand(d)' = {}
               /\ Under(d)' \cap Saved' = {}
               /\ \A e \in Conns \ {d} : Under(d)' \cap Under(e)' = {}
    <3>1. /\ Once(stream[d]) /\ Waiting(d) \cap InHand(d) = {} /\ Under(d) \cap Saved = {}
          /\ \A e \in Conns \ {d} : Under(d) \cap Under(e) = {}
      BY DEF Places, OnceInv
    <3>2. Once(stream'[d]) /\ Waiting(d)' \cap InHand(d)' = {}
      BY <1>5, <1>7, <1>10, <1>11, <3>1
    <3> QED
      BY <1>8, <3>1, <3>2
  <2> QED
    BY <2>1, <2>2 DEF OnceInv
<1>13. OrderInv'
  <2> SUFFICES ASSUME ~rough' PROVE InOrder'
    BY DEF OrderInv
  <2>1. InOrder
    BY <1>1 DEF Places, OrderInv
  <2>2. LinkInv'
    BY <1>1, <2>1 DEF InOrder, LinkInv, TypeOK
  <2>3. \A q \in Waiting(c)' : r < q
    <3> SUFFICES ASSUME NEW q \in Waiting(c)' PROVE r < q
      OBVIOUS
    <3>1. PICK i \in DOMAIN Rest(c, n) : Rest(c, n)[i] = q /\ q # Beat
      BY <1>7 DEF ToSet
    <3>2. stream[c][1] # Beat /\ stream[c][n + i] # Beat /\ 1 < n + i /\ n + i \in DOMAIN stream[c]
      BY <1>3, <1>2, <1>4, <3>1 DEF Waiting
    <3>3. Rising(stream[c])
      BY <2>1 DEF InOrder
    <3>4. stream[c][1] < stream[c][n + i]
      BY <1>3, <3>2, <3>3 DEF Rising
    <3> QED
      BY <1>2, <1>4, <3>1, <3>4
  <2>4. ASSUME NEW d \in Conns
        PROVE  /\ Rising(stream'[d])
               /\ \A p \in InHand(d)', q \in Waiting(d)' : p < q
               /\ \A p \in Saved', q \in Under(d)' : p < q
    <3>1. /\ Rising(stream[d])
          /\ \A p \in InHand(d), q \in Waiting(d) : p < q
          /\ \A p \in Saved, q \in Under(d) : p < q
      BY <2>1 DEF InOrder
    <3> QED
      BY <1>5, <1>7, <1>8, <1>10, <2>3, <3>1
  <2>5. Rising(db')
    BY <1>1, <2>1 DEF InOrder
  <2> QED
    BY <2>2, <2>4, <2>5 DEF InOrder
<1> QED
  BY <1>9, <1>12, <1>13 DEF Places

\* A record saved goes from the hand of its thread to the end of the database, also
\* if the thread ends then.
LEMMA SaveRecordPlaces ==
  ASSUME TypeOK, PlaceInv, Places, NEW c \in Conns,
         SaveRecord(c) \/ (SaveFails(c) /\ db' = Append(db, Head(chunk[c])))
  PROVE  Places'
<1> DEFINE r == Head(chunk[c])
<1>1. PICK t \in {"recv", "ended"} :
        /\ thread[c] = "save" /\ db' = Append(db, r)
        /\ chunk' = [chunk EXCEPT ![c] = <<>>] /\ thread' = [thread EXCEPT ![c] = t]
        /\ UNCHANGED <<made, flag, sock, conns, stream>>
        /\ rough' \/ (t = "recv" /\ rough' = rough)
  BY DEF SaveRecord, SaveFails, AfterSave, terminalVars
<1>2. r \in Records /\ InHand(c) = {r}
  BY <1>1 DEF PlaceInv, InHand
<1>3. r # Beat /\ r \in Int /\ Records \subseteq Int
  BY <1>2, BeatAssumption, BoundsAssumption DEF Records
<1>4. \A d \in Conns : /\ stream'[d] = stream[d] /\ Waiting(d)' = Waiting(d)
                       /\ InHand(d)' = IF d = c THEN {} ELSE InHand(d)
  BY <1>1 DEF TypeOK, InHand, Waiting
<1> HIDE DEF r
<1>5. db \in Seq(Records)
  BY DEF TypeOK
<1>6. /\ Saved' = Saved \cup {r} /\ Len(db') = Len(db) + 1
      /\ \A i \in 1 .. Len(db) : db'[i] = db[i]
      /\ db'[Len(db) + 1] = r /\ db' \in Seq(Records)
  BY <1>1, <1>2, <1>5, Appended DEF Saved
<1>7. DOMAIN db = 1 .. Len(db) /\ DOMAIN db' = 1 .. Len(db) + 1 /\ Len(db) \in Nat
  BY <1>5, <1>6, LenProperties
<1>8. \A i \in DOMAIN db' : \/ i \in DOMAIN db /\ db'[i] = db[i] /\ db'[i] \in Saved
                            \/ i = Len(db) + 1 /\ db'[i] = r
  BY <1>6, <1>7 DEF Saved, ToSet
<1>9. r \in Under(c) /\ \A d \in Conns : Under(d)' \subseteq Under(d)
  BY <1>2, <1>4 DEF Under
<1>10. SentInv'
  BY <1>1, <1>6, <1>9 DEF Places, SentInv
<1>11. OnceInv'
  <2>1. r \notin Saved /\ IsInjective(db)
    BY <1>9 DEF Places, OnceInv
  <2>2. IsInjective(db')
    BY <1>8, <2>1 DEF IsInjective
  <2>3. ASSUME NEW d \in Conns
        PROVE  /\ Once(stream'[d])
               /\ Waiting(d)' \cap InHand(d)' = {}
               /\ Under(d)' \cap Saved' = {}
               /\ \A e \in Conns \ {d} : Under(d)' \cap Under(e)' = {}
    <3>1. /\ Once(stream[d]) /\ Waiting(d) \cap InHand(d) = {} /\ Under(d) \cap Saved = {}
          /\ \A e \in Conns \ {d} : Under(d) \cap Under(e) = {}
      BY DEF Places, OnceInv
    <3>2. r \notin Under(d)'
      <4>1. CASE d = c
        BY <1>2, <1>4, <3>1, <4>1 DEF Under
      <4>2. CASE d # c
        BY <1>9, <3>1, <4>2
      <4> QED
        BY <4>1, <4>2
    <3>3. Once(stream'[d]) /\ Waiting(d)' \cap InHand(d)' = {}
      BY <1>4, <3>1
    <3> QED
      BY <1>6, <1>9, <3>1, <3>2, <3>3
  <2> QED
    BY <2>2, <2>3 DEF OnceInv
<1>12. OrderInv'
  <2> SUFFICES ASSUME ~rough' PROVE InOrder'
    BY DEF OrderInv
  <2>1. InOrder
    BY <1>1 DEF Places, OrderInv
  <2>2. LinkInv'
    BY <1>1, <2>1 DEF InOrder, LinkInv, TypeOK
  <2>3. \A q \in Saved : q < r
    BY <1>9, <2>1 DEF InOrder
  <2>4. Rising(db')
    <3> SUFFICES ASSUME NEW i \in DOMAIN db', NEW j \in DOMAIN db', i < j,
                        db'[i] # Beat, db'[j] # Beat
                 PROVE  db'[i] < db'[j]
      BY DEF Rising
    <3>1. i \in DOMAIN db /\ db'[i] = db[i] /\ db'[i] \in Saved
      BY <1>7, <1>8
    <3>2. CASE j \in DOMAIN db /\ db'[j] = db[j]
      BY <2>1, <3>1, <3>2 DEF InOrder, Rising
    <3>3. CASE db'[j] = r
      BY <2>3, <3>1, <3>3
    <3> QED
      BY <1>8, <3>2, <3>3
  <2>5. ASSUME NEW d \in Conns
        PROVE  /\ Rising(stream'[d])
               /\ \A p \in InHand(d)', q \in Waiting(d)' : p < q
               /\ \A p \in Saved', q \in Under(d)' : p < q
    <3>1. /\ Rising(stream[d])
          /\ \A p \in InHand(d), q \in Waiting(d) : p < q
          /\ \A p \in Saved, q \in Under(d) : p < q
      BY <2>1 DEF InOrder
    <3>2. \A q \in Under(d)' : r < q
      <4>1. CASE d = c
        BY <1>2, <1>4, <3>1, <4>1 DEF Under
      <4>2. CASE d # c
        <5>1. Waiting(d) = {} /\ InHand(d) = {}
          <6>0. c <= conns
            <7>1. thread[c] = "save" /\ ~(c > conns)
              BY <1>1 DEF PlaceInv
            <7>2. c \in Int /\ conns \in Int
              BY BoundsAssumption DEF Conns, TypeOK
            <7> QED
              BY <7>1, <7>2
          <6>1. c <= conns /\ conns <= 1 /\ d > conns
            BY <2>1, <4>2, <6>0 DEF InOrder, LinkInv, Conns, TypeOK
          <6>2. stream[d] = <<>> /\ thread[d] = "none" /\ ToSet(<<>>) = {}
            BY <6>1 DEF PlaceInv, ToSet
          <6> QED
            BY <6>2 DEF Waiting, InHand
        <5> QED
          BY <1>4, <4>2, <5>1 DEF Under
      <4> QED
        BY <4>1, <4>2
    <3> QED
      BY <1>4, <1>6, <1>9, <3>1, <3>2
  <2> QED
    BY <2>2, <2>4, <2>5 DEF InOrder
<1> QED
  BY <1>10, <1>11, <1>12 DEF Places

LEMMA PlacesStep == TypeOK /\ PlaceInv /\ Places /\ [Next]_vars => Places'
<1> SUFFICES ASSUME TypeOK, PlaceInv, Places, [Next]_vars PROVE Places'
  OBVIOUS
<1>1. CASE VisitTerminal \/ UNCHANGED vars
  BY <1>1, UnchangedPlaces DEF VisitTerminal, terminalVars, vars
<1>2. ASSUME NEW c \in Conns, Server(c) PROVE Places'
  <2>1. SaveFails(c) => db' = db \/ db' = Append(db, Head(chunk[c]))
    BY DEF SaveFails
  <2>2. RecvEnds(c) => db' = db
    BY DEF RecvEnds
  <2> QED
    BY <1>2, <2>1, <2>2, RecvBeatPlaces, RecvRecordPlaces, EndsPlaces, SaveRecordPlaces DEF Server
<1> QED
  BY <1>1, <1>2, SendRecordPlaces, SendBeatPlaces, ConnectPlaces, LostPlaces DEF Next

-----------------------------------------------------------------------------
\* Everything is of its type, and only connections that were made are in use.
THEOREM LinkTypes == Spec => [](TypeOK /\ PlaceInv)
BY TypeInit, TypeStep, PTL DEF Spec

\* No record is saved twice, nor one that the terminal has flagged as unsent,
\* however connections break and threads end; while nothing is lumped and nothing
\* ends, records are saved in the order they were made.
THEOREM NoneTwiceInOrder == Spec => []SavedOnceInOrder
<1>1. Init => TypeOK /\ PlaceInv /\ Places
  BY TypeInit, PlacesInit
<1>2. TypeOK /\ PlaceInv /\ Places /\ [Next]_vars => TypeOK' /\ PlaceInv' /\ Places'
  BY TypeStep, PlacesStep
<1>3. TypeOK /\ Places => SavedOnceInOrder
  <2> SUFFICES ASSUME TypeOK, Places PROVE SavedOnceInOrder
    OBVIOUS
  <2>1. db \in Seq(Records) /\ DOMAIN db = 1 .. Len(db) /\ \A i \in DOMAIN db : db[i] \in Records
    BY LenProperties DEF TypeOK
  <2>2. \A i \in DOMAIN db : db[i] # Beat
    BY <2>1, BeatAssumption, BoundsAssumption DEF Records
  <2>3. IsInjective(db) /\ \A r \in Saved : flag[r] = OK
    BY <2>1 DEF Places, OnceInv, SentInv, Saved, ToSet
  <2>4. ~rough => \A i, j \in DOMAIN db : i < j => db[i] < db[j]
    BY <2>2 DEF Places, OrderInv, InOrder, Rising
  <2> QED
    BY <2>3, <2>4 DEF SavedOnceInOrder
<1> QED
  BY <1>1, <1>2, <1>3, PTL DEF Spec

-----------------------------------------------------------------------------
(***************************************************************************)
(* The other thing the server does is to keep the white lists of its       *)
(* terminals up to date (WhiteListSync), here for any lists, any number of *)
(* changes and restarts, and any checksums.                                *)
(***************************************************************************)
\* What is assumed of the constants.
LEMMA SyncConstants ==
  /\ Sum \in [Lists \cup {Torn} -> Nat \ {0}] /\ First \in Lists \cup {Missing}
  /\ NextList \in [Lists -> SUBSET Lists] /\ MaxChanges \in Nat /\ MaxBoots \in Nat
  /\ {Torn, Missing} \cap Lists = {} /\ Torn # Missing
BY SumAssumption, FirstAssumption, NextAssumption, ChangesAssumption, TornAssumption

\* Sums of bytes are what the server compares: it never tells two lists of the same
\* sum apart.
SumsDiffer == \A a, b \in Lists \cup {Torn} : Sum[a] = Sum[b] => a = b

\* The server's checksum is that of its list.
ListInv == /\ sum = IF list = Missing THEN 0 ELSE Sum[list]
           /\ tpc # "idle" => sum # 0
\* The terminal's is that of the cards it has, unless something came in between.
CardsInv == ~touched /\ cs # 0 => file["rf"] # Missing /\ cs = Sum[file["rf"]]
SyncInv == SyncTypeOK /\ ListInv /\ CardsInv

LEMMA SyncStarts == SyncInit => SyncInv
<1> SUFFICES ASSUME SyncInit PROVE SyncInv
  OBVIOUS
<1>1. /\ dbList \in Lists /\ changes = 0 /\ past = {dbList, First} \ {Missing}
      /\ back = FALSE /\ list = Missing /\ sum = 0
      /\ local = [f \in Files |-> Missing]
      /\ lpc = "idle" /\ tpc = "idle" /\ reply = 0 /\ post = Missing
      /\ file = [f \in Files |-> First] /\ kept = file
      /\ cs = IF First = Missing THEN 0 ELSE Sum[First]
      /\ answer = 0 /\ boots = 0 /\ touched = FALSE
  BY DEF SyncInit
<1>2. cs \in Nat
  BY <1>1, SyncConstants
<1>3. SyncTypeOK
  <2>1. past \subseteq Lists /\ 0 \in 0 .. MaxChanges /\ 0 \in 0 .. MaxBoots
    BY <1>1, SyncConstants
  <2>2. local \in [Files -> Lists \cup {Missing}] /\ file \in [Files -> Contents]
    BY <1>1, SyncConstants DEF Contents
  <2> QED
    BY <1>1, <1>2, <2>1, <2>2 DEF SyncTypeOK
<1> QED
  BY <1>1, <1>3 DEF SyncInv, ListInv, CardsInv, Files

\* white_name_init takes the sum of the cards, if both files open.
LEMMA InitSumIs ==
  ASSUME cs \in Nat, NEW g \in [Files -> Contents],
         NEW x, x = InitSum(g)
  PROVE  /\ x \in Nat
         /\ Opens(g) => g["rf"] # Missing /\ x = Sum[g["rf"]]
         /\ ~Opens(g) => x = cs
BY SyncConstants DEF InitSum, Opens, Files, Contents

LEMMA SyncStep == SyncInv /\ [SyncNext]_(syncVars) => SyncInv'
<1> SUFFICES ASSUME SyncInv, [SyncNext]_(syncVars) PROVE SyncInv'
  OBVIOUS
<1> USE DEF serverVars, cardVars
<1>1. /\ dbList \in Lists /\ list \in Lists \cup {Missing} /\ changes \in 0 .. MaxChanges
      /\ past \subseteq Lists /\ back \in BOOLEAN
      /\ sum \in Nat /\ reply \in Nat \cup {-1} /\ answer \in Nat \cup {-1} /\ cs \in Nat
      /\ local \in [Files -> Lists \cup {Missing}]
      /\ file \in [Files -> Contents] /\ kept \in [Files -> Contents]
      /\ post \in Lists \cup {Missing}
      /\ lpc \in {"idle", "unlink rf", "unlink ri", "rename rf", "rename ri", "dead"}
      /\ tpc \in {"idle", "decide", "rf", "ri", "change"}
      /\ boots \in 0 .. MaxBoots /\ touched \in BOOLEAN
  BY DEF SyncInv, SyncTypeOK
<1>2. Files = {"rf", "ri"} /\ Contents = Lists \cup {Torn, Missing}
  BY DEF Files, Contents
<1>3. CASE UNCHANGED syncVars
  <2>1. /\ UNCHANGED <<dbList, changes, past, back, list, sum, local, lpc, tpc, reply, post>>
        /\ UNCHANGED <<file, kept, cs, answer, boots, touched>>
    BY <1>3 DEF syncVars
  <2>2. SyncTypeOK'
    BY <1>1, <2>1 DEF SyncTypeOK
  <2> QED
    BY <2>1, <2>2 DEF SyncInv, ListInv, CardsInv
<1>4. CASE DbChange
  <2>1. dbList' \in Lists /\ past' \subseteq Lists /\ back' \in BOOLEAN
    BY <1>1, <1>4, SyncConstants DEF DbChange
  <2>2. changes' \in 0 .. MaxChanges
    <3>1. changes < MaxChanges /\ changes' = changes + 1 /\ MaxChanges \in Nat
      BY <1>4, SyncConstants DEF DbChange
    <3>2. changes \in 0 .. MaxChanges
      BY <1>1
    <3> QED
      BY <3>1, <3>2
  <2> QED
    <3>1. /\ UNCHANGED <<list, sum, local, lpc, tpc, reply, post>>
          /\ UNCHANGED <<file, kept, cs, answer, boots, touched>>
      BY <1>4 DEF DbChange
    <3>2. SyncTypeOK'
      BY <1>1, <2>1, <2>2, <3>1 DEF SyncTypeOK
    <3> QED
      BY <3>1, <3>2 DEF SyncInv, ListInv, CardsInv
<1>5. CASE ListThread
  <2>1. UNCHANGED <<dbList, changes, past, back, tpc, reply, post, file, kept, cs, answer, boots, touched>>
    BY <1>5 DEF ListThread, ListChanged, Unlink, Rename
  <2>2. /\ list' \in Lists \cup {Missing} /\ sum' \in Nat
        /\ sum' = (IF list' = Missing THEN 0 ELSE Sum[list'])
        /\ lpc' \in {"idle", "unlink rf", "unlink ri", "rename rf", "rename ri", "dead"}
        /\ local' \in [Files -> Lists \cup {Missing}]
        /\ sum # 0 => sum' # 0
    <3>1. CASE ListChanged
      BY <1>1, <3>1, SyncConstants DEF ListChanged, SyncInv, ListInv
    <3>2. ASSUME NEW g \in Files, NEW pc, NEW next \in {"unlink ri", "rename rf"}, Unlink(g, pc, next)
          PROVE  /\ list' = list /\ sum' = sum /\ local' \in [Files -> Lists \cup {Missing}]
                 /\ lpc' \in {"idle", "unlink rf", "unlink ri", "rename rf", "rename ri", "dead"}
      BY <1>1, <3>2 DEF Unlink
    <3>3. ASSUME NEW g \in Files, NEW pc, NEW next \in {"rename ri", "idle"}, Rename(g, pc, next)
          PROVE  /\ list' = list /\ sum' = sum /\ local' \in [Files -> Lists \cup {Missing}]
                 /\ lpc' \in {"idle", "unlink rf", "unlink ri", "rename rf", "rename ri", "dead"}
      BY <1>1, <3>3 DEF Rename
    <3>4. CASE Unlink("rf", "unlink rf", "unlink ri") \/ Unlink("ri", "unlink ri", "rename rf")
      BY <1>1, <1>2, <3>2, <3>4 DEF SyncInv, ListInv
    <3>5. CASE Rename("rf", "rename rf", "rename ri") \/ Rename("ri", "rename ri", "idle")
      BY <1>1, <1>2, <3>3, <3>5 DEF SyncInv, ListInv
    <3> QED
      BY <1>5, <3>1, <3>4, <3>5 DEF ListThread
  <2> QED
    BY <2>1, <2>2 DEF SyncInv, SyncTypeOK, ListInv, CardsInv
<1>6. CASE AskOK \/ AskFails
  <2>1. /\ UNCHANGED <<dbList, changes, past, back, list, sum, local, lpc, post, file, kept, cs, boots, touched>>
        /\ tpc' = "decide" /\ sum # 0 /\ reply' \in Nat \cup {-1} /\ answer' \in Nat \cup {-1}
    BY <1>1, <1>6 DEF AskOK, AskFails, GetSum
  <2> QED
    BY <2>1 DEF SyncInv, SyncTypeOK, ListInv, CardsInv
<1>7. CASE Decide
  <2>1. /\ UNCHANGED <<dbList, changes, past, back, list, sum, local, lpc, reply, post, file, kept, cs, answer, boots, touched>>
        /\ tpc = "decide" /\ tpc' \in {"rf", "idle"}
    BY <1>7 DEF Decide
  <2> QED
    BY <2>1 DEF SyncInv, SyncTypeOK, ListInv, CardsInv
<1>8. ASSUME NEW g \in Files, Post(g) PROVE SyncInv'
  <2>1. After(g) \in {"ri", "change"}
    BY DEF After
  <2>2. /\ UNCHANGED <<dbList, changes, past, back, list, sum, local, lpc, reply, cs, answer, boots>>
        /\ tpc # "idle" /\ tpc' \in {tpc, "ri", "change"} /\ post' \in Lists \cup {Missing}
        /\ file' \in [Files -> Contents] /\ kept' \in [Files -> Contents]
        /\ touched' \in BOOLEAN /\ (touched' \/ (~touched /\ file'["rf"] = file["rf"]))
    <3>1. CASE PostOpen(g) \/ PostNoFile(g) \/ PostFails(g)
      BY <1>1, <1>2, <2>1, <3>1 DEF PostOpen, PostNoFile, PostFails
    <3>2. CASE PostWrite(g)
      <4>1. file' = [file EXCEPT ![g] = IF file[g] = post THEN file[g] ELSE Torn] /\ touched' = (touched \/ g = "rf")
            /\ UNCHANGED <<dbList, changes, past, back, list, sum, local, lpc, tpc, reply, post, kept, cs, answer, boots>>
            /\ tpc = g
        BY <3>2 DEF PostWrite
      <4> QED
        BY <1>1, <1>2, <4>1
    <3>3. CASE PostDone(g)
      <4>1. file' = [file EXCEPT ![g] = post] /\ kept' = [kept EXCEPT ![g] = post] /\ touched' = (touched \/ g = "rf")
            /\ UNCHANGED <<dbList, changes, past, back, list, sum, local, lpc, reply, cs, answer, boots>>
            /\ tpc = g /\ post' = Missing /\ tpc' = After(g) /\ post # Missing
        BY <3>3 DEF PostDone
      <4> QED
        BY <1>1, <1>2, <2>1, <4>1
    <3> QED
      BY <1>8, <3>1, <3>2, <3>3 DEF Post
  <2>3. SyncTypeOK'
    BY <1>1, <2>2 DEF SyncTypeOK
  <2> QED
    BY <1>1, <2>2, <2>3 DEF SyncInv, ListInv, CardsInv
<1>9. CASE ChangeOK
  <2>1. PICK x : x = InitSum(file)
    OBVIOUS
  <2>2. /\ x \in Nat /\ (Opens(file) => file["rf"] # Missing /\ x = Sum[file["rf"]])
        /\ ~Opens(file) => x = cs
    BY <1>1, <2>1, InitSumIs
  <2>3. /\ UNCHANGED <<dbList, changes, past, back, list, sum, local, lpc, reply, post, file, kept, boots>>
        /\ cs' = x /\ answer' = (IF Opens(file) THEN x ELSE -1) /\ tpc' = "idle"
        /\ touched' = (touched /\ ~Opens(file))
    BY <1>9, <2>1 DEF ChangeOK
  <2>4. SyncTypeOK'
    BY <1>1, <2>2, <2>3 DEF SyncTypeOK
  <2> QED
    BY <1>1, <2>2, <2>3, <2>4 DEF SyncInv, ListInv, CardsInv
<1>10. CASE ChangeLost
  <2>1. /\ UNCHANGED <<dbList, changes, past, back, list, sum, local, lpc, reply, post>>
        /\ UNCHANGED <<file, kept, cs, answer, boots, touched>> /\ tpc' = "idle"
    BY <1>10 DEF ChangeLost
  <2>2. SyncTypeOK'
    BY <1>1, <2>1 DEF SyncTypeOK
  <2> QED
    BY <2>1, <2>2 DEF SyncInv, ListInv, CardsInv
<1>11. CASE ShowRecord
  <2>1. /\ UNCHANGED <<dbList, changes, past, back, list, sum, local, lpc, tpc, reply, post>>
        /\ UNCHANGED <<file, kept, cs, boots, touched>> /\ answer' = 0
    BY <1>11 DEF ShowRecord
  <2>2. SyncTypeOK'
    BY <1>1, <2>1 DEF SyncTypeOK
  <2> QED
    BY <2>1, <2>2 DEF SyncInv, ListInv, CardsInv
<1>12. CASE Reboot
  <2>1. PICK g \in [Files -> Contents] :
          file' = g /\ kept' = g /\ cs' = InitSum(g) /\ touched' = ~Opens(g)
    BY <1>12 DEF Reboot
  <2>2. PICK x : x = InitSum(g)
    OBVIOUS
  <2>3. /\ x \in Nat /\ (Opens(g) => g["rf"] # Missing /\ x = Sum[g["rf"]])
        /\ ~Opens(g) => x = cs
    BY <1>1, <2>2, InitSumIs
  <2>4. /\ UNCHANGED <<dbList, changes, past, back, list, sum, local, lpc, tpc, reply, post>>
        /\ boots' \in 0 .. MaxBoots /\ answer' = 0
    <3>1. boots < MaxBoots /\ boots' = boots + 1 /\ MaxBoots \in Nat
      BY <1>12, SyncConstants DEF Reboot
    <3>3. boots \in 0 .. MaxBoots
      BY <1>1
    <3>2. boots' \in 0 .. MaxBoots
      BY <3>1, <3>3
    <3> QED
      BY <1>12, <3>2 DEF Reboot
  <2>5. Opens(g) \in BOOLEAN
    BY DEF Opens
  <2>6. SyncTypeOK'
    BY <1>1, <2>1, <2>2, <2>3, <2>4, <2>5 DEF SyncTypeOK
  <2> QED
    BY <2>1, <2>2, <2>3, <2>4, <2>6 DEF SyncInv, ListInv, CardsInv
<1> QED
  BY <1>3, <1>4, <1>5, <1>6, <1>7, <1>8, <1>9, <1>10, <1>11, <1>12 DEF SyncNext, TerminalThread

\* When the server leaves a terminal alone because its checksum is the list's
\* (cluster_server_termial_main), the terminal has the cards of that list, however
\* often lists change, posts and commands fail and the terminal restarts, if no two
\* lists have one sum.  It may have no files at first.
THEOREM SkipsHaveTheCards == SumsDiffer => (SyncSpec => SkipMeansCards)
<1> SUFFICES ASSUME SumsDiffer PROVE SyncSpec => SkipMeansCards
  OBVIOUS
<1>1. SyncInit => SyncInv
  BY SyncStarts
<1>2. SyncInv /\ [SyncNext]_(syncVars) => SyncInv'
  BY SyncStep
<1>3. SyncInv => (Skips /\ reply = sum /\ cs = sum /\ ~touched => file["rf"] = list)
  <2> SUFFICES ASSUME SyncInv, Skips, reply = sum, cs = sum, ~touched PROVE file["rf"] = list
    OBVIOUS
  <2>1. tpc = "decide"
    BY DEF Skips
  <2>2. sum # 0 /\ sum = (IF list = Missing THEN 0 ELSE Sum[list])
    BY <2>1 DEF SyncInv, ListInv
  <2>3. file["rf"] # Missing /\ Sum[file["rf"]] = Sum[list] /\ list # Missing
    BY <2>2 DEF SyncInv, CardsInv
  <2>4. list \in Lists /\ file["rf"] \in Lists \cup {Torn}
    BY <2>3 DEF SyncInv, SyncTypeOK, Files, Contents
  <2> QED
    BY <2>3, <2>4 DEF SumsDiffer
<1> QED
  BY <1>1, <1>2, <1>3, PTL DEF SyncSpec, SkipMeansCards
=============================================================================
