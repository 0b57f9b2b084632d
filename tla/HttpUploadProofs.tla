-------------------------- MODULE HttpUploadProofs --------------------------
(***************************************************************************)
(* Theorems about HttpUpload, for any number of sessions, handles, files   *)
(* and uploads.                                                            *)
(*                                                                         *)
(* A handle is free or open, whoever closes whose (PoolInv).  While forms  *)
(* come one at a time the session that posts is the one f belongs to, each *)
(* session and the store have handles of their own, and what was posted is *)
(* what the file begins with (CleanInv).                                   *)
(***************************************************************************)
EXTENDS HttpUpload, SequenceTheorems, FiniteSetTheorems, TLAPS

Names   == Files \cup {Missing}
Values  == Handles \cup {Font, Bad}
Objects == [file : Names, at : Nat, mode : {"r", "w", "closed"}]
Chunks  == Nat \X Nat
Forms   == [kind : {"idle", "post", "blank", "get"}, file : Names, h : Values, up : Nat, sent : Nat]

\* A handle is on the free list, once, exactly if it is closed.
PoolInv(pool) ==
  /\ pool.free \in Seq(Handles) /\ pool.open \in [Handles -> Objects]
  /\ IsInjective(pool.free) /\ ToSet(pool.free) = {h \in Handles : pool.open[h] = Closed}

\* What is open can be written to.
FilesInv ==
  /\ content[Fonts] \in Seq(Chunks)
  /\ \A h \in Handles : open[h] # Closed =>
       open[h].file \in Files /\ content[open[h].file] \in Seq(Chunks)

Inv ==
  /\ PoolInv(Pool) /\ FilesInv
  /\ content \in [Files -> Seq(Chunks) \cup {Missing}]
  /\ f \in Values /\ session \in [Sessions -> Forms]
  /\ store \in [rf : Handles \cup {Bad}, ri : Handles \cup {Bad}]
  /\ uploads \in 0 .. MaxUploads /\ left \in SUBSET Handles /\ clean \in BOOLEAN

\* What a session that holds handle h has open, what it has posted of it, and that it
\* is the one f belongs to.
FormInv(s) ==
  /\ session[s].kind = "idle" => session[s] = Idle
  /\ session[s].kind # "blank"
  /\ session[s].h \in Handles =>
       /\ open[session[s].h] # Closed /\ open[session[s].h].file = session[s].file
       /\ session[s].h \notin {store.rf, store.ri} \cup left
       /\ \A t \in Sessions \ {s} : session[t].h # session[s].h
  /\ session[s].kind = "post" => f = session[s].h /\ \A t \in Sessions \ {s} : t \notin Busy
\* What a form has sent is where its file begins.
PostInv(s) ==
  session[s].kind = "post" /\ session[s].h # Bad =>
    LET text == content[session[s].file]
    IN /\ session[s].file \in Files /\ text \in Seq(Chunks) /\ session[s].sent <= Len(text)
       /\ \A i \in 1 .. session[s].sent : text[i] = <<session[s].up, i>>
       /\ session[s].h = Font => session[s].file = Fonts /\ session[s].sent = Len(text)
       /\ session[s].h # Font => /\ open[session[s].h].at = session[s].sent
                                 /\ open[session[s].h].mode = "w"
StoreOwns ==
  store = NoStore \/
  /\ store.rf \in Handles /\ store.ri \in Handles /\ store.rf # store.ri
  /\ {store.rf, store.ri} \cap left = {}
  /\ open[store.rf] # Closed /\ open[store.rf].file = Rf
  /\ open[store.ri] # Closed /\ open[store.ri].file = Ri
\* An open handle is held, or was left behind.
NoneLost == \A h \in Handles : open[h] # Closed <=> h \in Held \cup left
CleanInv == clean => /\ \A s \in Sessions : FormInv(s) /\ PostInv(s)
                     /\ StoreOwns /\ NoneLost

-----------------------------------------------------------------------------
(* The pool of handles *)

LEMMA HandleFacts ==
  /\ Font \notin Handles /\ Bad \notin Handles /\ Font # Bad
BY HandlesAssumption

LEMMA ClosedIs == Closed \in Objects /\ Closed.mode = "closed" /\ Closed.file = Missing
BY DEF Closed, Objects, Names

LEMMA InToSet ==
  ASSUME NEW s, NEW e
  PROVE  e \in ToSet(s) <=> \E i \in DOMAIN s : s[i] = e
BY DEF ToSet

LEMMA ContainsIs ==
  ASSUME NEW S, NEW s \in Seq(S), NEW e
  PROVE  Contains(s, e) <=> e \in ToSet(s)
BY LenProperties DEF Contains, ToSet

\* uffs_open takes the first handle that is free.
Taken(pool, x, h, file, mode) ==
  /\ h \in Handles /\ pool.open[h] = Closed
  /\ x.open[h] = [file |-> file, at |-> 0, mode |-> mode] /\ x.open[h] # Closed
  /\ \A k \in Handles : k # h => x.open[k] = pool.open[k]
  /\ x.free = Tail(pool.free) /\ Len(x.free) = Len(pool.free) - 1
LEMMA OpenedIs ==
  ASSUME NEW pool, PoolInv(pool), pool.free # <<>>, NEW file \in Files, NEW mode \in {"r", "w"},
         NEW x, x = Opened(pool, file, mode), NEW h, h = Got(pool)
  PROVE  PoolInv(x) /\ Taken(pool, x, h, file, mode)
<1>1. pool.free \in Seq(Handles) /\ pool.open \in [Handles -> Objects]
  BY DEF PoolInv
<1>2. h = Head(pool.free) /\ h = pool.free[1] /\ h \in Handles
  BY <1>1, HeadTailProperties DEF Got
<1>3. PICK o : o = [file |-> file, at |-> 0, mode |-> mode]
  OBVIOUS
<1>4. o \in Objects /\ o # Closed
  <2>1. o.mode # "closed"
    BY <1>3
  <2>2. o \in Objects
    BY <1>3 DEF Objects, Names
  <2> QED
    BY <2>1, <2>2, ClosedIs
<1>5. x = [free |-> Tail(pool.free), open |-> [pool.open EXCEPT ![h] = o]]
  BY <1>2, <1>3 DEF Opened
<1>6. /\ x.free = Tail(pool.free) /\ x.open \in [Handles -> Objects] /\ x.open[h] = o
      /\ \A k \in Handles : k # h => x.open[k] = pool.open[k]
  BY <1>1, <1>2, <1>4, <1>5
<1>7. /\ x.free \in Seq(Handles) /\ Len(x.free) = Len(pool.free) - 1 /\ Len(pool.free) \in Nat
      /\ DOMAIN x.free = 1 .. Len(pool.free) - 1 /\ DOMAIN pool.free = 1 .. Len(pool.free)
      /\ \A i \in 1 .. Len(pool.free) - 1 : x.free[i] = pool.free[i + 1]
  <2>1. /\ Tail(pool.free) \in Seq(Handles) /\ Len(Tail(pool.free)) = Len(pool.free) - 1
        /\ \A i \in 1 .. Len(Tail(pool.free)) : Tail(pool.free)[i] = pool.free[i + 1]
    BY <1>1, HeadTailProperties
  <2>2. Len(pool.free) \in Nat /\ DOMAIN pool.free = 1 .. Len(pool.free)
        /\ DOMAIN Tail(pool.free) = 1 .. Len(Tail(pool.free))
    BY <1>1, <2>1, LenProperties
  <2> QED
    BY <1>6, <2>1, <2>2
<1>8. Len(pool.free) >= 1
  BY <1>1, LenProperties, EmptySeq
<1>9. IsInjective(pool.free) /\ ToSet(pool.free) = {k \in Handles : pool.open[k] = Closed}
  BY DEF PoolInv
<1>10. \A i, j \in 1 .. Len(pool.free) : pool.free[i] = pool.free[j] => i = j
  BY <1>7, <1>9 DEF IsInjective
<1>11. IsInjective(x.free)
  <2> SUFFICES ASSUME NEW i \in 1 .. Len(pool.free) - 1, NEW j \in 1 .. Len(pool.free) - 1,
                      x.free[i] = x.free[j]
               PROVE  i = j
    BY <1>7 DEF IsInjective
  <2>1. pool.free[i + 1] = pool.free[j + 1] /\ i + 1 \in 1 .. Len(pool.free)
        /\ j + 1 \in 1 .. Len(pool.free)
    BY <1>7
  <2>2. i + 1 = j + 1
    BY <1>10, <2>1
  <2> QED
    BY <1>7, <2>2
<1>12. ToSet(x.free) = ToSet(pool.free) \ {h}
  <2>1. ASSUME NEW i \in 1 .. Len(pool.free) - 1 PROVE x.free[i] \in ToSet(pool.free) \ {h}
    <3>1. x.free[i] = pool.free[i + 1] /\ i + 1 \in 1 .. Len(pool.free) /\ i + 1 # 1
          /\ 1 \in 1 .. Len(pool.free)
      BY <1>7, <1>8
    <3> QED
      BY <1>2, <1>7, <1>10, <3>1 DEF ToSet
  <2>2. ASSUME NEW k \in ToSet(pool.free) \ {h} PROVE k \in ToSet(x.free)
    <3>1. PICK j \in 1 .. Len(pool.free) : k = pool.free[j]
      BY <1>7, <2>2 DEF ToSet
    <3>2. j # 1
      BY <1>2, <2>2, <3>1
    <3>3. PICK i \in 1 .. Len(pool.free) - 1 : j = i + 1
      BY <1>7, <3>2
    <3> QED
      BY <1>7, <3>1, <3>3 DEF ToSet
  <2>3. ASSUME NEW k \in ToSet(x.free) PROVE k \in ToSet(pool.free) \ {h}
    BY <1>7, <2>1, <2>3, InToSet
  <2> QED
    BY <2>2, <2>3
<1>13. h \in ToSet(pool.free)
  BY <1>2, <1>7, <1>8 DEF ToSet
<1>14. pool.open[h] = Closed
  BY <1>9, <1>13
<1>15. ToSet(x.free) = {k \in Handles : x.open[k] = Closed}
  BY <1>4, <1>6, <1>9, <1>12
<1> QED
  BY <1>2, <1>3, <1>4, <1>6, <1>7, <1>11, <1>14, <1>15 DEF PoolInv, Taken

\* uffs_close puts a handle that is not free in front of the list, and does nothing
\* with any other number.
Shut(pool, x, h) ==
  /\ h \in Handles => x.open[h] = Closed
  /\ \A k \in Handles : k # h => x.open[k] = pool.open[k]
LEMMA ClosedInIs ==
  ASSUME NEW pool, PoolInv(pool), NEW h, NEW x, x = ClosedIn(pool, h)
  PROVE  PoolInv(x) /\ Shut(pool, x, h)
<1>1. /\ pool.free \in Seq(Handles) /\ pool.open \in [Handles -> Objects]
      /\ IsInjective(pool.free) /\ ToSet(pool.free) = {k \in Handles : pool.open[k] = Closed}
  BY DEF PoolInv
<1>2. Passes(pool, h) <=> h \in Handles /\ pool.open[h] # Closed
  BY <1>1, ContainsIs DEF Passes
<1>3. CASE ~Passes(pool, h)
  <2>1. x = pool
    BY <1>3 DEF ClosedIn
  <2> QED
    BY <1>2, <1>3, <2>1 DEF Shut
<1>4. CASE Passes(pool, h)
  <2>1. x = [free |-> <<h>> \o pool.free, open |-> [pool.open EXCEPT ![h] = Closed]]
    BY <1>4 DEF ClosedIn
  <2>2. /\ x.open \in [Handles -> Objects] /\ x.open[h] = Closed
        /\ \A k \in Handles : k # h => x.open[k] = pool.open[k]
    BY <1>1, <1>2, <1>4, <2>1, ClosedIs
  <2>3. PICK n \in Nat : n = Len(pool.free)
    BY <1>1, LenProperties
  <2>4. /\ x.free \in Seq(Handles) /\ DOMAIN x.free = 1 .. n + 1 /\ DOMAIN pool.free = 1 .. n
        /\ x.free[1] = h /\ \A i \in 1 .. n : x.free[i + 1] = pool.free[i]
    <3>1. <<h>> \in Seq(Handles) /\ Len(<<h>>) = 1 /\ <<h>>[1] = h
      BY <1>2, <1>4
    <3>2. /\ <<h>> \o pool.free \in Seq(Handles) /\ Len(<<h>> \o pool.free) = 1 + n
          /\ \A i \in 1 .. 1 + n :
               (<<h>> \o pool.free)[i] = IF i <= 1 THEN <<h>>[i] ELSE pool.free[i - 1]
      BY <1>1, <2>3, <3>1, ConcatProperties
    <3>3. DOMAIN (<<h>> \o pool.free) = 1 .. 1 + n /\ DOMAIN pool.free = 1 .. n
      BY <1>1, <2>3, <3>2, LenProperties
    <3>4. PICK a : a = <<h>> \o pool.free
      OBVIOUS
    <3>5. a[1] = h /\ \A i \in 1 .. n : a[i + 1] = pool.free[i]
      <4>1. a[1] = h
        BY <3>1, <3>2, <3>4
      <4>2. ASSUME NEW i \in 1 .. n PROVE a[i + 1] = pool.free[i]
        <5>1. i + 1 \in 1 .. 1 + n /\ ~(i + 1 <= 1) /\ (i + 1) - 1 = i
          OBVIOUS
        <5> QED
          BY <3>2, <3>4, <5>1
      <4> QED
        BY <4>1, <4>2
    <3>6. x.free = a
      BY <2>1, <3>4
    <3>7. 1 + n = n + 1
      OBVIOUS
    <3>8. a \in Seq(Handles) /\ DOMAIN a = 1 .. n + 1
      BY <3>2, <3>3, <3>4, <3>7
    <3> QED
      BY <3>3, <3>5, <3>6, <3>8
  <2>5. \A i, j \in 1 .. n : pool.free[i] = pool.free[j] => i = j
    BY <1>1, <2>4 DEF IsInjective
  <2>6. \A i \in 1 .. n : pool.free[i] # h
    <3>1. h \notin ToSet(pool.free)
      BY <1>1, <1>2, <1>4
    <3> QED
      BY <2>4, <3>1, InToSet
  <2>7. \A i \in 1 .. n + 1 : i = 1 \/ \E j \in 1 .. n : i = j + 1
    <3> SUFFICES ASSUME NEW i \in 1 .. n + 1, i # 1 PROVE \E j \in 1 .. n : i = j + 1
      OBVIOUS
    <3>1. i - 1 \in 1 .. n /\ i = (i - 1) + 1
      OBVIOUS
    <3> QED
      BY <3>1
  <2>8. IsInjective(x.free)
    <3> SUFFICES ASSUME NEW i \in 1 .. n + 1, NEW j \in 1 .. n + 1, x.free[i] = x.free[j]
                 PROVE  i = j
      BY <2>4 DEF IsInjective
    <3>1. CASE i = 1
      BY <2>4, <2>6, <2>7, <3>1
    <3>2. CASE i # 1
      <4>1. PICK a \in 1 .. n : i = a + 1
        BY <2>7, <3>2
      <4>2. j # 1
        BY <2>4, <2>6, <4>1
      <4>3. PICK b \in 1 .. n : j = b + 1
        BY <2>7, <4>2
      <4>4. x.free[i] = pool.free[a] /\ x.free[j] = pool.free[b]
        BY <2>4, <4>1, <4>3
      <4>5. a = b
        BY <2>5, <4>4
      <4> QED
        BY <4>1, <4>3, <4>5
    <3> QED
      BY <3>1, <3>2
  <2>9. ToSet(x.free) = ToSet(pool.free) \cup {h}
    <3>1. ASSUME NEW i \in 1 .. n + 1 PROVE x.free[i] \in ToSet(pool.free) \cup {h}
      <4>1. CASE i = 1
        BY <2>4, <4>1
      <4>2. CASE i # 1
        <5>1. PICK j \in 1 .. n : i = j + 1
          BY <2>7, <4>2
        <5>2. x.free[i] = pool.free[j] /\ j \in DOMAIN pool.free
          BY <2>4, <5>1
        <5> QED
          BY <5>2, InToSet
      <4> QED
        BY <4>1, <4>2
    <3>2. ASSUME NEW k \in ToSet(pool.free) \cup {h} PROVE \E i \in 1 .. n + 1 : x.free[i] = k
      <4>1. CASE k = h
        <5>1. 1 \in 1 .. n + 1
          OBVIOUS
        <5> QED
          BY <2>4, <4>1, <5>1
      <4>2. CASE k # h
        <5>1. PICK i \in 1 .. n : k = pool.free[i]
          BY <2>4, <3>2, <4>2 DEF ToSet
        <5>2. i + 1 \in 1 .. n + 1
          OBVIOUS
        <5> QED
          BY <2>4, <5>1, <5>2
      <4> QED
        BY <4>1, <4>2
    <3>3. ASSUME NEW k \in ToSet(x.free) PROVE k \in ToSet(pool.free) \cup {h}
      BY <2>4, <3>1, <3>3, InToSet
    <3>4. ASSUME NEW k \in ToSet(pool.free) \cup {h} PROVE k \in ToSet(x.free)
      BY <2>4, <3>2, <3>4, InToSet
    <3> QED
      BY <3>3, <3>4
  <2>10. ToSet(x.free) = {k \in Handles : x.open[k] = Closed}
    BY <1>1, <1>2, <1>4, <2>2, <2>9
  <2> QED
    BY <2>2, <2>4, <2>8, <2>10 DEF PoolInv, Shut
<1> QED
  BY <1>3, <1>4

\* The handle behind an empty list is none.
LEMMA GotIs ==
  ASSUME NEW pool, PoolInv(pool)
  PROVE  /\ Got(pool) \in Handles \cup {Bad}
         /\ Got(pool) = Bad <=> pool.free = <<>>
<1>1. pool.free \in Seq(Handles)
  BY DEF PoolInv
<1>2. CASE pool.free = <<>>
  BY <1>2 DEF Got
<1>3. CASE pool.free # <<>>
  <2>1. Head(pool.free) \in Handles
    BY <1>1, <1>3, HeadTailProperties
  <2> QED
    BY <1>3, <2>1, HandleFacts DEF Got
<1> QED
  BY <1>2, <1>3

\* A pool that is set is in order.
LEMMA SetPoolIs ==
  ASSUME NEW pool, PoolInv(pool), SetPool(pool)
  PROVE  PoolInv(Pool)' /\ open' = pool.open
BY DEF SetPool, Pool, PoolInv

LEMMA PoolSame ==
  ASSUME PoolInv(Pool), UNCHANGED free, open' \in [Handles -> Objects],
         \A h \in Handles : open'[h] = Closed <=> open[h] = Closed
  PROVE  PoolInv(Pool)'
<1>1. ToSet(free) = {h \in Handles : open'[h] = Closed}
  BY DEF PoolInv, Pool
<1> QED
  BY <1>1 DEF PoolInv, Pool

LEMMA HeldIs ==
  ASSUME NEW k
  PROVE  k \in Held <=> (\E s \in Sessions : session[s].h = k) \/ k = store.rf \/ k = store.ri
BY DEF Held

LEMMA IdleIs == Idle \in Forms /\ Idle.h = Bad /\ Idle.kind = "idle" /\ Idle.file = Missing
BY DEF Idle, Forms, Names, Values

LEMMA NoStoreIs == NoStore.rf = Bad /\ NoStore.ri = Bad /\ NoStore \in [rf : Handles \cup {Bad}, ri : Handles \cup {Bad}]
BY DEF NoStore

-----------------------------------------------------------------------------
(* Each step keeps the types *)

\* What was written to stays.
LEMMA FilesStay ==
  ASSUME Inv, content' \in [Files -> Seq(Chunks) \cup {Missing}],
         \A n \in Files : content[n] \in Seq(Chunks) => content'[n] \in Seq(Chunks),
         \A h \in Handles : open'[h] # Closed /\ open'[h] # open[h] =>
           open'[h].file \in Files /\ content'[open'[h].file] \in Seq(Chunks)
  PROVE  FilesInv'
<1>1. Fonts \in Files
  BY FilesAssumption
<1>2. content'[Fonts] \in Seq(Chunks)
  BY <1>1 DEF Inv, FilesInv
<1>3. ASSUME NEW h \in Handles, open'[h] # Closed
      PROVE  open'[h].file \in Files /\ content'[open'[h].file] \in Seq(Chunks)
  BY <1>3 DEF Inv, FilesInv
<1> QED
  BY <1>2, <1>3 DEF FilesInv

LEMMA InitInv == Init => Inv /\ CleanInv
<1> SUFFICES ASSUME Init PROVE Inv /\ CleanInv
  OBVIOUS
<1>1. PICK n \in Nat : n = Cardinality(Handles) /\ Handles = 1 .. n
  BY HandlesAssumption, FS_CardinalityType
<1>2. /\ free = [i \in 1 .. n |-> i] /\ open = [h \in Handles |-> Closed]
      /\ content = [m \in Files |-> IF m = Fonts THEN <<>> ELSE Missing]
      /\ f = Bad /\ session = [s \in Sessions |-> Idle] /\ store = NoStore
      /\ uploads = 0 /\ left = {} /\ clean = TRUE
  BY <1>1 DEF Init
<1>3. free \in Seq(Handles) /\ DOMAIN free = 1 .. n
  <2>1. free \in [1 .. n -> Handles]
    BY <1>1, <1>2
  <2> QED
    BY <2>1
<1>4. IsInjective(free)
  BY <1>2, <1>3 DEF IsInjective
<1>5. ToSet(free) = Handles
  BY <1>1, <1>2 DEF ToSet
<1>6. PoolInv(Pool)
  BY <1>2, <1>3, <1>4, <1>5, ClosedIs DEF PoolInv, Pool
<1>7. content \in [Files -> Seq(Chunks) \cup {Missing}] /\ content[Fonts] = <<>>
  BY <1>2, FilesAssumption
<1>8. Inv
  <2>3. <<>> \in Seq(Chunks) /\ \A h \in Handles : open[h] = Closed
    BY <1>2
  <2>1. FilesInv
    BY <1>7, <2>3 DEF FilesInv
  <2>2. 0 \in 0 .. MaxUploads
    BY BoundsAssumption
  <2> QED
    BY <1>2, <1>6, <1>7, <2>1, <2>2, IdleIs, NoStoreIs DEF Inv, Values
<1>9. \A s \in Sessions : FormInv(s) /\ PostInv(s)
  BY <1>2, IdleIs, HandleFacts DEF FormInv, PostInv
<1>10. NoneLost
  BY <1>2, HeldIs, IdleIs, NoStoreIs, HandleFacts DEF NoneLost
<1> QED
  BY <1>2, <1>8, <1>9, <1>10 DEF CleanInv, StoreOwns

LEMMA BeginInv ==
  ASSUME Inv, CleanInv, NEW s \in Sessions, NEW file \in Files, Begin(s, file)
  PROVE  Inv' /\ CleanInv'
<1> DEFINE new == [kind |-> "post", file |-> file, h |-> FileOf(file), up |-> uploads + 1, sent |-> 0]
<1>1. /\ PoolInv(Pool) /\ open \in [Handles -> Objects] /\ session \in [Sessions -> Forms]
      /\ content \in [Files -> Seq(Chunks) \cup {Missing}] /\ uploads \in Nat /\ Pool.open = open
      /\ Pool.free = free
  BY BoundsAssumption DEF Inv, PoolInv, Pool
<1>2. PICK h \in Handles \cup {Bad} : h = Got(Pool) /\ (h = Bad <=> free = <<>>)
  BY <1>1, GotIs
<1>3. FileOf(file) = IF file = Fonts THEN Font ELSE h
  BY <1>2 DEF FileOf
<1>4. new \in Forms
  BY <1>1, <1>3 DEF Forms, Names, Values
<1>5. /\ session[s] = Idle /\ uploads' = uploads + 1 /\ uploads < MaxUploads
      /\ f' = FileOf(file) /\ session' = [session EXCEPT ![s] = new]
      /\ clean' = (clean /\ Busy = {}) /\ store' = store /\ left' = left
  BY DEF Begin
<1>6. /\ session' \in [Sessions -> Forms] /\ session'[s] = new
      /\ \A t \in Sessions : t # s => session'[t] = session[t]
  BY <1>1, <1>4, <1>5
<1> HIDE DEF new
<1>7. /\ content' \in [Files -> Seq(Chunks) \cup {Missing}]
      /\ \A n \in Files : content[n] \in Seq(Chunks) => content'[n] \in Seq(Chunks)
      /\ file = Fonts => content'[Fonts] = <<>>
      /\ h # Bad => content'[file] \in Seq(Chunks)
  <2>1. <<>> \in Seq(Chunks)
    OBVIOUS
  <2>2. content' = IF file = Fonts \/ (content[file] = Missing /\ h # Bad)
                   THEN [content EXCEPT ![file] = <<>>] ELSE content
    BY <1>2 DEF Begin
  <2> QED
    BY <1>1, <2>1, <2>2
<1>8. /\ PoolInv(Pool)'
      /\ \/ open' = open /\ (file = Fonts \/ h = Bad)
         \/ /\ file # Fonts /\ h \in Handles
            /\ open[h] = Closed /\ open'[h] = [file |-> file, at |-> 0, mode |-> "w"]
            /\ open'[h] # Closed /\ \A k \in Handles : k # h => open'[k] = open[k]
  <2>1. CASE file = Fonts \/ h = Bad
    <3>1. free' = free /\ open' = open
      BY <1>2, <2>1 DEF Begin
    <3> QED
      BY <1>1, <2>1, <3>1 DEF PoolInv, Pool
  <2>2. CASE file # Fonts /\ h # Bad
    <3>4. PICK pool : pool = Pool
      OBVIOUS
    <3>5. PICK mode : mode = "w"
      OBVIOUS
    <3>6. mode \in {"r", "w"}
      BY <3>5
    <3>1. PICK x : x = Opened(pool, file, mode)
      OBVIOUS
    <3>2. SetPool(x)
      BY <1>2, <2>2, <3>1, <3>4, <3>5 DEF Begin
    <3>3. /\ PoolInv(x) /\ pool.open[h] = Closed
          /\ x.open[h] = [file |-> file, at |-> 0, mode |-> mode] /\ x.open[h] # Closed
          /\ \A k \in Handles : k # h => x.open[k] = pool.open[k]
      <4>1. PoolInv(pool) /\ pool.free # <<>> /\ h = Got(pool)
        BY <1>1, <1>2, <2>2, <3>4
      <4>2. PoolInv(x) /\ Taken(pool, x, h, file, mode)
        BY <3>1, <3>6, <4>1, OpenedIs
      <4> QED
        BY <4>2 DEF Taken
    <3> QED
      BY <1>1, <1>2, <2>2, <3>2, <3>3, <3>4, <3>5, SetPoolIs
  <2> QED
    BY <2>1, <2>2
<1>9. FilesInv'
  <2>1. \A k \in Handles : open'[k] # Closed /\ open'[k] # open[k] =>
          open'[k].file \in Files /\ content'[open'[k].file] \in Seq(Chunks)
    BY <1>7, <1>8, HandleFacts
  <2> QED
    BY <1>7, <2>1, FilesStay
<1>10. Inv'
  <2>1. uploads' \in 0 .. MaxUploads /\ f' \in Values /\ clean' \in BOOLEAN
    BY <1>1, <1>3, <1>5, BoundsAssumption DEF Values, Inv
  <2> QED
    BY <1>5, <1>6, <1>7, <1>8, <1>9, <2>1 DEF Inv
<1>11. ASSUME clean' PROVE (\A t \in Sessions : FormInv(t) /\ PostInv(t))' /\ StoreOwns' /\ NoneLost'
  <2>1. /\ clean /\ Busy = {} /\ \A t \in Sessions : FormInv(t) /\ PostInv(t)
        /\ StoreOwns /\ NoneLost
    BY <1>5, <1>11 DEF CleanInv
  <2>2. \A t \in Sessions : session[t].kind \in {"idle", "get"}
    BY <1>1, <2>1 DEF Busy, Forms
  <2>3. session[s].h = Bad
    BY <1>5, IdleIs
  <2>4. h \in Handles /\ open[h] = Closed => h \notin Held /\ h \notin left
    BY <2>1 DEF NoneLost
  <2>5. /\ new.kind = "post" /\ new.file = file /\ new.h = FileOf(file) /\ new.sent = 0
        /\ new.up = uploads + 1
    BY DEF new
  <2>6. Busy' = {s}
    BY <1>6, <2>2, <2>5 DEF Busy
  <2>7. ASSUME NEW t \in Sessions, t # s PROVE FormInv(t)' /\ PostInv(t)'
    <3>1. session'[t] = session[t] /\ session[t].kind \in {"idle", "get"} /\ FormInv(t)
      BY <1>6, <2>1, <2>2, <2>7
    <3>2. ASSUME session[t].h \in Handles
          PROVE  /\ open'[session[t].h] = open[session[t].h]
                 /\ \A u \in Sessions \ {t} : session'[u].h # session[t].h
      <4>1. open[session[t].h] # Closed /\ \A u \in Sessions \ {t} : session[u].h # session[t].h
        BY <3>1, <3>2 DEF FormInv
      <4>2. open'[session[t].h] = open[session[t].h]
        BY <1>8, <3>2, <4>1
      <4>3. FileOf(file) # session[t].h
        BY <1>3, <1>8, <3>2, <4>1, HandleFacts
      <4> QED
        BY <1>6, <2>5, <4>1, <4>2, <4>3
    <3> QED
      BY <1>5, <3>1, <3>2 DEF FormInv, PostInv
  <2>8. FormInv(s)'
    <3>1. ASSUME FileOf(file) \in Handles
          PROVE  /\ FileOf(file) = h /\ file # Fonts /\ open'[h] # Closed /\ open'[h].file = file
                 /\ h \notin {store.rf, store.ri} \cup left
                 /\ \A t \in Sessions \ {s} : session'[t].h # h
      <4>1. FileOf(file) = h /\ file # Fonts
        BY <1>3, <3>1, HandleFacts
      <4>2. h \in Handles /\ open[h] = Closed /\ open'[h] # Closed /\ open'[h].file = file
        BY <1>8, <3>1, <4>1, HandleFacts
      <4>3. h \notin Held \cup left
        BY <2>4, <4>2
      <4> QED
        BY <1>6, <4>1, <4>2, <4>3, HeldIs
    <3> QED
      BY <1>5, <1>6, <2>5, <2>6, <3>1 DEF FormInv
  <2>9. PostInv(s)'
    <3>1. CASE file = Fonts
      BY <1>3, <1>6, <1>7, <2>5, <3>1, HandleFacts DEF PostInv
    <3>2. CASE file # Fonts /\ h # Bad
      <4>1. content'[file] \in Seq(Chunks) /\ Len(content'[file]) \in Nat
        BY <1>7, <3>2, LenProperties
      <4>2. open'[h].at = 0 /\ open'[h].mode = "w" /\ h # Font
        BY <1>8, <3>2, HandleFacts
      <4> QED
        BY <1>3, <1>6, <2>5, <3>2, <4>1, <4>2 DEF PostInv
    <3>3. CASE file # Fonts /\ h = Bad
      BY <1>3, <1>6, <2>5, <3>3 DEF PostInv
    <3> QED
      BY <3>1, <3>2, <3>3
  <2>10. StoreOwns'
    BY <1>5, <1>8, <2>1 DEF StoreOwns
  <2>11. NoneLost'
    <3> SUFFICES ASSUME NEW k \in Handles PROVE open'[k] # Closed <=> k \in Held' \cup left'
      BY DEF NoneLost
    <3>1. k \in Held' <=> (\E t \in Sessions : session'[t].h = k) \/ k = store.rf \/ k = store.ri
      BY <1>5 DEF Held
    <3>2. (\E t \in Sessions : session'[t].h = k) <=>
            (\E t \in Sessions : session[t].h = k) \/ k = FileOf(file)
      BY <1>6, <2>3, <2>5, HandleFacts
    <3>3. open[k] # Closed <=> k \in Held \cup left
      BY <2>1 DEF NoneLost
    <3>4. open'[k] # Closed <=> open[k] # Closed \/ k = FileOf(file)
      BY <1>3, <1>8, HandleFacts
    <3> QED
      BY <1>5, <3>1, <3>2, <3>3, <3>4, HeldIs
  <2> QED
    BY <2>7, <2>8, <2>9, <2>10, <2>11
<1> QED
  BY <1>10, <1>11 DEF CleanInv

LEMMA BlankInv ==
  ASSUME Inv, CleanInv, NEW s \in Sessions, BeginBlank(s)
  PROVE  Inv' /\ CleanInv'
<1>1. session \in [Sessions -> Forms] /\ session' = [session EXCEPT ![s] = [session[s] EXCEPT !.kind = "blank"]]
  BY DEF Inv, BeginBlank
<1>2. [session[s] EXCEPT !.kind = "blank"] \in Forms
  BY <1>1 DEF Forms
<1>3. session' \in [Sessions -> Forms]
  BY <1>1, <1>2
<1>4. PoolInv(Pool)' /\ FilesInv'
  BY DEF Inv, BeginBlank, PoolInv, Pool, FilesInv
<1> QED
  BY <1>3, <1>4 DEF Inv, BeginBlank, CleanInv

\* uffs_write at the position of a handle.
WritesAt(text, at, chunk, x) ==
  at <= Len(text) => /\ at + 1 <= Len(x) /\ x[at + 1] = chunk
                     /\ \A i \in 1 .. at : x[i] = text[i]
LEMMA WrittenIs ==
  ASSUME NEW text \in Seq(Chunks), NEW at \in Nat, NEW chunk \in Chunks,
         NEW x, x = Written(text, at, chunk)
  PROVE  x \in Seq(Chunks) /\ WritesAt(text, at, chunk, x)
<1>1. PICK n \in Nat : n = Len(text) /\ DOMAIN text = 1 .. n
  BY LenProperties
<1>2. CASE at < n
  <2>1. x = [text EXCEPT ![at + 1] = chunk] /\ at + 1 \in 1 .. n
    BY <1>1, <1>2 DEF Written
  <2>2. /\ x \in Seq(Chunks) /\ Len(x) = n /\ x[at + 1] = chunk
        /\ \A i \in 1 .. n : i # at + 1 => x[i] = text[i]
    BY <1>1, <2>1, ExceptSeq
  <2> QED
    BY <1>2, <2>2 DEF WritesAt
<1>3. CASE ~(at < n)
  <2>1. x = Append(text, chunk)
    BY <1>1, <1>3 DEF Written
  <2>2. /\ x \in Seq(Chunks) /\ Len(x) = n + 1 /\ x[n + 1] = chunk
        /\ \A i \in 1 .. n : x[i] = text[i]
    BY <1>1, <2>1, AppendProperties
  <2> QED
    BY <1>1, <1>3, <2>2 DEF WritesAt
<1> QED
  BY <1>2, <1>3

LEMMA DataInv ==
  ASSUME Inv, CleanInv, NEW s \in Sessions, Data(s)
  PROVE  Inv' /\ CleanInv'
<1> DEFINE h == session[s].h
           sent == session[s].sent
           chunk == <<session[s].up, sent + 1>>
           new == [session[s] EXCEPT !.sent = @ + 1]
<1>1. /\ PoolInv(Pool) /\ open \in [Handles -> Objects] /\ session \in [Sessions -> Forms]
      /\ content \in [Files -> Seq(Chunks) \cup {Missing}] /\ FilesInv /\ f \in Values
      /\ Pool.open = open /\ Pool.free = free
  BY DEF Inv, PoolInv, Pool
<1>2. /\ session[s] \in Forms /\ sent \in Nat /\ chunk \in Chunks /\ new \in Forms
      /\ new.kind = session[s].kind /\ new.file = session[s].file /\ new.h = h
      /\ new.up = session[s].up /\ new.sent = sent + 1
  <2>1. PICK r \in Forms : r = session[s]
    BY <1>1
  <2>2. r.sent \in Nat /\ r.up \in Nat /\ [r EXCEPT !.sent = r.sent + 1] \in Forms
    BY DEF Forms
  <2>3. PICK n : n = [r EXCEPT !.sent = r.sent + 1]
    OBVIOUS
  <2>4. n \in Forms /\ n.kind = r.kind /\ n.file = r.file /\ n.h = r.h /\ n.up = r.up /\ n.sent = r.sent + 1
    BY <2>2, <2>3 DEF Forms
  <2>5. new = n /\ sent = r.sent /\ h = r.h /\ chunk = <<r.up, r.sent + 1>>
    BY <2>1, <2>3
  <2>6. chunk \in Chunks
    BY <2>2, <2>5 DEF Chunks
  <2> QED
    BY <2>1, <2>2, <2>4, <2>5, <2>6
<1>3. /\ session[s].kind = "post" /\ session' = [session EXCEPT ![s] = new] /\ WriteTo(chunk)
      /\ UNCHANGED <<free, f, store, uploads, left, clean>>
  BY DEF Data
<1> HIDE DEF h, sent, chunk, new
<1>4. /\ session' \in [Sessions -> Forms] /\ session'[s] = new
      /\ \A t \in Sessions : t # s => session'[t] = session[t]
  BY <1>1, <1>2, <1>3
<1>5. Passes(Pool, f) <=> f \in Handles /\ open[f] # Closed
  BY <1>1, ContainsIs DEF Passes, PoolInv
\* what is written, and where
<1>6. \/ \E n \in Files, at \in Nat :
           /\ content' = [content EXCEPT ![n] = Written(content[n], at, chunk)] /\ content[n] \in Seq(Chunks)
           /\ \/ f = Font /\ n = Fonts /\ at = Len(content[n]) /\ UNCHANGED open
              \/ /\ f \in Handles /\ open[f] # Closed /\ n = open[f].file /\ at = open[f].at
                 /\ open[f].mode = "w" /\ open' = [open EXCEPT ![f] = [open[f] EXCEPT !.at = at + 1]]
      \/ /\ UNCHANGED <<content, open>> /\ f # Font
         /\ f \in Handles => open[f] = Closed \/ open[f].mode # "w"
  <2>1. CASE f = Font /\ content' = [content EXCEPT ![Fonts] = Append(@, chunk)] /\ UNCHANGED open
    <3>1. PICK n \in Files : n = Fonts
      BY FilesAssumption
    <3>2. content[n] \in Seq(Chunks)
      BY <1>1, <3>1 DEF FilesInv
    <3>3. PICK at \in Nat : at = Len(content[n])
      BY <3>2, LenProperties
    <3>4. Written(content[n], at, chunk) = Append(content[n], chunk)
      BY <3>3 DEF Written
    <3>5. content' = [content EXCEPT ![n] = Written(content[n], at, chunk)]
      BY <2>1, <3>1, <3>4
    <3> QED
      BY <2>1, <3>1, <3>2, <3>3, <3>5
  <2>2. CASE /\ Passes(Pool, f) /\ open[f].mode = "w"
             /\ content' = [content EXCEPT ![open[f].file] = Written(@, open[f].at, chunk)]
             /\ open' = [open EXCEPT ![f].at = Moved(@)]
    <3>1. f \in Handles /\ open[f] # Closed
      BY <1>5, <2>2
    <3>2. PICK n \in Files : n = open[f].file /\ content[n] \in Seq(Chunks)
      BY <1>1, <3>1 DEF FilesInv
    <3>3. PICK at \in Nat : at = open[f].at
      BY <1>1, <3>1 DEF Objects
    <3>4. open' = [open EXCEPT ![f] = [open[f] EXCEPT !.at = at + 1]]
      BY <2>2, <3>3 DEF Moved
    <3>5. content' = [content EXCEPT ![n] = Written(content[n], at, chunk)]
      BY <2>2, <3>2, <3>3
    <3> QED
      BY <2>2, <3>1, <3>2, <3>3, <3>4, <3>5
  <2>3. CASE f # Font /\ ~(Passes(Pool, f) /\ open[f].mode = "w") /\ UNCHANGED <<content, open>>
    BY <1>5, <2>3
  <2> QED
    BY <1>3, <2>1, <2>2, <2>3, Zenon DEF WriteTo
<1>7. /\ content' \in [Files -> Seq(Chunks) \cup {Missing}]
      /\ \A n \in Files : content[n] \in Seq(Chunks) => content'[n] \in Seq(Chunks)
      /\ open' \in [Handles -> Objects]
      /\ \A k \in Handles : /\ open'[k].file = open[k].file /\ open'[k].mode = open[k].mode
                            /\ open'[k] = Closed <=> open[k] = Closed
                            /\ k # f => open'[k] = open[k]
  <2>1. CASE UNCHANGED <<content, open>>
    BY <1>1, <2>1
  <2>2. CASE \E n \in Files, at \in Nat :
        /\ content' = [content EXCEPT ![n] = Written(content[n], at, chunk)] /\ content[n] \in Seq(Chunks)
        /\ \/ UNCHANGED open
           \/ /\ f \in Handles /\ open[f] # Closed /\ open[f].mode = "w"
              /\ open' = [open EXCEPT ![f] = [open[f] EXCEPT !.at = at + 1]]
    <3>1. PICK n \in Files, at \in Nat :
        /\ content' = [content EXCEPT ![n] = Written(content[n], at, chunk)] /\ content[n] \in Seq(Chunks)
        /\ \/ UNCHANGED open
           \/ /\ f \in Handles /\ open[f] # Closed /\ open[f].mode = "w"
              /\ open' = [open EXCEPT ![f] = [open[f] EXCEPT !.at = at + 1]]
      BY <2>2
    <3>2. Written(content[n], at, chunk) \in Seq(Chunks)
      BY <1>2, <3>1, WrittenIs
    <3>3. /\ content' \in [Files -> Seq(Chunks) \cup {Missing}]
          /\ \A m \in Files : content[m] \in Seq(Chunks) => content'[m] \in Seq(Chunks)
      BY <1>1, <3>1, <3>2
    <3>4. CASE UNCHANGED open
      BY <1>1, <3>3, <3>4
    <3>5. CASE /\ f \in Handles /\ open[f] # Closed /\ open[f].mode = "w"
               /\ open' = [open EXCEPT ![f] = [open[f] EXCEPT !.at = at + 1]]
      <4>1. PICK o : o = [open[f] EXCEPT !.at = at + 1]
        OBVIOUS
      <4>2. o \in Objects /\ o.file = open[f].file /\ o.mode = open[f].mode
        BY <1>1, <3>5, <4>1 DEF Objects
      <4>3. o # Closed
        BY <3>5, <4>2, ClosedIs
      <4>4. open' \in [Handles -> Objects] /\ open'[f] = o /\ \A k \in Handles : k # f => open'[k] = open[k]
        BY <1>1, <3>5, <4>1, <4>2
      <4> QED
        BY <3>3, <3>5, <4>2, <4>3, <4>4
    <3> QED
      BY <3>1, <3>4, <3>5
  <2> QED
    BY <1>6, <2>1, <2>2
<1>8. PoolInv(Pool)'
  BY <1>1, <1>3, <1>7, PoolSame
<1>9. FilesInv'
  <2>1. ASSUME NEW k \in Handles, open'[k] # Closed
        PROVE  open'[k].file \in Files /\ content'[open'[k].file] \in Seq(Chunks)
    BY <1>1, <1>7, <2>1 DEF FilesInv
  <2> QED
    BY <1>7, <2>1, FilesStay DEF Inv
<1>10. Inv'
  BY <1>3, <1>4, <1>7, <1>8, <1>9 DEF Inv
<1>11. ASSUME clean' PROVE (\A t \in Sessions : FormInv(t) /\ PostInv(t))' /\ StoreOwns' /\ NoneLost'
  <2>1. /\ clean /\ \A t \in Sessions : FormInv(t) /\ PostInv(t)
        /\ StoreOwns /\ NoneLost
    BY <1>3, <1>11 DEF CleanInv
  <2>2. \A t \in Sessions : /\ session'[t].h = session[t].h /\ session'[t].file = session[t].file
                            /\ session'[t].kind = session[t].kind
    BY <1>2, <1>4 DEF h
  <2>3. f = h /\ \A t \in Sessions \ {s} : t \notin Busy
    BY <1>3, <2>1 DEF FormInv, h
  <2>4. Busy' = Busy /\ Held' = Held
    BY <1>3, <2>2 DEF Busy, Held
  <2>5. ASSUME NEW t \in Sessions PROVE FormInv(t)'
    <3>1. FormInv(t) /\ (t = s => session[t].kind = "post") /\ session[t].kind = "idle" => session[t].kind # "post"
      BY <2>1, <1>3
    <3>2. session'[t].kind = "idle" => session'[t] = Idle
      BY <1>3, <1>4, <2>1, <2>2 DEF FormInv
    <3> QED
      BY <1>3, <1>7, <2>1, <2>2, <2>4, <3>2 DEF FormInv
  <2>6. ASSUME NEW t \in Sessions, t # s PROVE PostInv(t)'
    <3>1. session'[t].kind # "post"
      BY <2>2, <2>3, <2>6 DEF Busy
    <3> QED
      BY <3>1 DEF PostInv
  <2>7. PostInv(s)'
    <3> SUFFICES ASSUME h # Bad
                 PROVE  LET text == content'[session[s].file]
                        IN /\ session[s].file \in Files /\ text \in Seq(Chunks) /\ sent + 1 <= Len(text)
                           /\ \A i \in 1 .. sent + 1 : text[i] = <<session[s].up, i>>
                           /\ h = Font => session[s].file = Fonts /\ sent + 1 = Len(text)
                           /\ h # Font => open'[h].at = sent + 1 /\ open'[h].mode = "w"
      BY <1>2, <1>4 DEF PostInv, h
    <3>0. PICK text : text = content[session[s].file]
      OBVIOUS
    <3>1. /\ session[s].file \in Files /\ text \in Seq(Chunks) /\ sent <= Len(text)
          /\ \A i \in 1 .. sent : text[i] = <<session[s].up, i>>
          /\ h = Font => session[s].file = Fonts /\ sent = Len(text)
          /\ h # Font => open[h].at = sent /\ open[h].mode = "w"
      BY <1>3, <2>1, <3>0 DEF PostInv, h, sent
    <3>2. h \in Values /\ (h # Font => h \in Handles /\ open[h] # Closed /\ open[h].file = session[s].file)
      BY <1>1, <2>1, <2>3 DEF FormInv, h, Values
    <3>3. PICK n \in Files, at \in Nat :
        /\ content' = [content EXCEPT ![n] = Written(content[n], at, chunk)] /\ content[n] \in Seq(Chunks)
        /\ \/ f = Font /\ n = Fonts /\ at = Len(content[n]) /\ UNCHANGED open
           \/ /\ f \in Handles /\ open[f] # Closed /\ n = open[f].file /\ at = open[f].at
              /\ open[f].mode = "w" /\ open' = [open EXCEPT ![f] = [open[f] EXCEPT !.at = at + 1]]
      BY <1>6, <2>3, <3>1, <3>2
    <3>4. n = session[s].file /\ at = sent
      <4>1. CASE h = Font
        BY <2>3, <3>0, <3>1, <3>3, <4>1, HandleFacts
      <4>2. CASE h # Font
        BY <2>3, <3>1, <3>2, <3>3, <4>2
      <4> QED
        BY <4>1, <4>2
    <3>5. PICK x : x = Written(text, sent, chunk)
      OBVIOUS
    <3>6. content'[session[s].file] = x
      BY <1>1, <3>0, <3>1, <3>3, <3>4, <3>5
    <3>7. /\ x \in Seq(Chunks) /\ sent + 1 <= Len(x) /\ x[sent + 1] = chunk
          /\ \A i \in 1 .. sent : x[i] = text[i]
      <4>1. PICK m \in Nat, c \in Chunks : m = sent /\ c = chunk
        BY <1>2
      <4>2. text \in Seq(Chunks) /\ x = Written(text, m, c) /\ m <= Len(text)
        BY <3>1, <3>5, <4>1
      <4>3. x \in Seq(Chunks) /\ WritesAt(text, m, c, x)
        BY <4>2, WrittenIs
      <4> QED
        BY <4>1, <4>2, <4>3 DEF WritesAt
    <3>8. \A i \in 1 .. sent + 1 : x[i] = <<session[s].up, i>>
      <4> SUFFICES ASSUME NEW i \in 1 .. sent + 1 PROVE x[i] = <<session[s].up, i>>
        OBVIOUS
      <4>1. CASE i = sent + 1
        BY <3>7, <4>1 DEF chunk
      <4>2. CASE i # sent + 1
        <5>1. i \in 1 .. sent
          BY <1>2, <4>2
        <5> QED
          BY <3>1, <3>7, <5>1
      <4> QED
        BY <4>1, <4>2
    <3>9. h = Font => session[s].file = Fonts /\ sent + 1 = Len(x)
      <4>1. h = Font => x = Append(text, chunk)
        BY <3>1, <3>5 DEF Written
      <4> QED
        BY <1>2, <3>1, <4>1, AppendProperties
    <3>10. h # Font => open'[h].at = sent + 1 /\ open'[h].mode = "w"
      <4>1. ASSUME h # Font PROVE open'[h].at = sent + 1 /\ open'[h].mode = "w"
        <5>1. h \in Handles /\ open' = [open EXCEPT ![h] = [open[h] EXCEPT !.at = sent + 1]]
              /\ open[h].mode = "w" /\ open[h] \in Objects
          BY <1>1, <2>3, <3>2, <3>3, <3>4, <4>1, HandleFacts
        <5> QED
          BY <1>1, <5>1 DEF Objects
      <4> QED
        BY <4>1
    <3> QED
      BY <3>1, <3>6, <3>7, <3>8, <3>9, <3>10
  <2>8. StoreOwns'
    BY <1>3, <1>7, <2>1 DEF StoreOwns
  <2>9. NoneLost'
    BY <1>3, <1>7, <2>1, <2>4 DEF NoneLost
  <2> QED
    BY <2>5, <2>6, <2>7, <2>8, <2>9
<1> QED
  BY <1>10, <1>11 DEF CleanInv

\* A session that ends closes a handle: its own, while forms come one at a time.
LEMMA ReleaseInv ==
  ASSUME Inv, CleanInv, NEW s \in Sessions, NEW h,
         session' = [session EXCEPT ![s] = Idle], SetPool(ClosedIn(Pool, h)),
         UNCHANGED <<content, f, store, uploads, left, clean>>,
         clean => session[s].h = h
  PROVE  Inv' /\ CleanInv'
<1>1. /\ PoolInv(Pool) /\ open \in [Handles -> Objects] /\ session \in [Sessions -> Forms]
      /\ Pool.open = open
  BY DEF Inv, PoolInv, Pool
<1>2. /\ session' \in [Sessions -> Forms] /\ session'[s] = Idle
      /\ \A t \in Sessions : t # s => session'[t] = session[t]
  BY <1>1, IdleIs
<1>3. /\ PoolInv(Pool)'
      /\ h \in Handles => open'[h] = Closed
      /\ \A k \in Handles : k # h => open'[k] = open[k]
  <2>1. PICK pool : pool = Pool
    OBVIOUS
  <2>2. PICK x : x = ClosedIn(pool, h)
    OBVIOUS
  <2>3. PoolInv(pool) /\ SetPool(x) /\ pool.open = open
    BY <1>1, <2>1, <2>2
  <2>4. PoolInv(x) /\ Shut(pool, x, h)
    BY <2>2, <2>3, ClosedInIs
  <2>5. PoolInv(Pool)' /\ open' = x.open
    BY <2>3, <2>4, SetPoolIs
  <2> QED
    BY <2>3, <2>4, <2>5 DEF Shut
<1>4. FilesInv'
  <2>1. content' \in [Files -> Seq(Chunks) \cup {Missing}]
    BY DEF Inv
  <2>2. \A k \in Handles : open'[k] # Closed => open'[k] = open[k]
    BY <1>3
  <2> QED
    BY <2>1, <2>2, FilesStay
<1>5. Inv'
  BY <1>2, <1>3, <1>4 DEF Inv
<1>6. ASSUME clean' PROVE (\A t \in Sessions : FormInv(t) /\ PostInv(t))' /\ StoreOwns' /\ NoneLost'
  <2>1. /\ clean /\ session[s].h = h /\ \A t \in Sessions : FormInv(t) /\ PostInv(t)
        /\ StoreOwns /\ NoneLost
    BY <1>6 DEF CleanInv
  <2>2. h \in Handles => h \notin {store.rf, store.ri} \cup left
    BY <2>1 DEF FormInv
  <2>3. \A t \in Sessions : t # s => h \notin Handles \/ session[t].h # h
    BY <2>1 DEF FormInv
  <2>4. FormInv(s)' /\ PostInv(s)'
    BY <1>2, IdleIs, HandleFacts DEF FormInv, PostInv
  <2>5. ASSUME NEW t \in Sessions, t # s PROVE FormInv(t)' /\ PostInv(t)'
    <3>1. session'[t] = session[t] /\ FormInv(t) /\ PostInv(t) /\ session[t] \in Forms
      BY <1>1, <1>2, <2>1, <2>5
    <3>2. ASSUME session[t].h \in Handles
          PROVE  /\ open'[session[t].h] = open[session[t].h]
                 /\ \A u \in Sessions \ {t} : session'[u].h # session[t].h
      BY <1>2, <1>3, <2>3, <2>5, <3>1, <3>2, IdleIs, HandleFacts DEF FormInv
    <3>3. \A u \in Sessions : u \in Busy' => u \in Busy
      BY <1>2, IdleIs DEF Busy
    <3>4. FormInv(t)'
      BY <3>1, <3>2, <3>3 DEF FormInv
    <3>5. session[t].h \in Values
      BY <3>1 DEF Forms
    <3> QED
      BY <3>1, <3>2, <3>4, <3>5 DEF PostInv, Values
  <2>6. StoreOwns'
    BY <1>3, <2>1, <2>2 DEF StoreOwns
  <2>7. NoneLost'
    <3> SUFFICES ASSUME NEW k \in Handles PROVE open'[k] # Closed <=> k \in Held' \cup left'
      BY DEF NoneLost
    <3>1. k \in Held' <=> (\E t \in Sessions : session'[t].h = k) \/ k = store.rf \/ k = store.ri
      BY DEF Held
    <3>2. (\E t \in Sessions : session'[t].h = k) <=> (\E t \in Sessions : t # s /\ session[t].h = k)
      BY <1>2, IdleIs, HandleFacts
    <3>3. open[k] # Closed <=> k \in Held \cup left
      BY <2>1 DEF NoneLost
    <3>4. CASE k = h
      BY <1>3, <2>2, <2>3, <3>1, <3>2, <3>4
    <3>5. CASE k # h
      BY <1>3, <2>1, <3>1, <3>2, <3>3, <3>5, HeldIs
    <3> QED
      BY <3>4, <3>5
  <2> QED
    BY <2>4, <2>5, <2>6, <2>7
<1> QED
  BY <1>5, <1>6 DEF CleanInv

LEMMA EndInv ==
  ASSUME Inv, CleanInv, NEW s \in Sessions, End(s)
  PROVE  Inv' /\ CleanInv'
<1>1. clean => session[s].h = f
  BY DEF CleanInv, FormInv, End, Busy
<1>2. /\ session' = [session EXCEPT ![s] = Idle] /\ SetPool(ClosedIn(Pool, f))
      /\ UNCHANGED <<content, f, store, uploads, left, clean>>
  BY DEF End, EndPool
<1> QED
  BY <1>1, <1>2, ReleaseInv

LEMMA GetEndInv ==
  ASSUME Inv, CleanInv, NEW s \in Sessions, GetEnd(s)
  PROVE  Inv' /\ CleanInv'
<1>1. PICK h : h = session[s].h
  OBVIOUS
<1>2. /\ session' = [session EXCEPT ![s] = Idle] /\ SetPool(ClosedIn(Pool, h))
      /\ UNCHANGED <<content, f, store, uploads, left, clean>>
  BY <1>1 DEF GetEnd
<1> QED
  BY <1>1, <1>2, ReleaseInv

LEMMA CutOffInv ==
  ASSUME Inv, CleanInv, NEW s \in Sessions, CutOff(s)
  PROVE  Inv' /\ CleanInv'
<1>1. /\ session' = [session EXCEPT ![s] = Idle] /\ left' = left \cup ({session[s].h} \cap Handles)
      /\ UNCHANGED <<free, open, content, f, store, uploads, clean>>
  BY DEF CutOff
<1>2. /\ session \in [Sessions -> Forms] /\ session' \in [Sessions -> Forms] /\ session'[s] = Idle
      /\ \A t \in Sessions : t # s => session'[t] = session[t]
  BY <1>1, IdleIs DEF Inv
<1>3. Inv'
  BY <1>1, <1>2 DEF Inv, PoolInv, Pool, FilesInv
<1>4. ASSUME clean' PROVE (\A t \in Sessions : FormInv(t) /\ PostInv(t))' /\ StoreOwns' /\ NoneLost'
  <2>1. /\ clean /\ \A t \in Sessions : FormInv(t) /\ PostInv(t)
        /\ StoreOwns /\ NoneLost
    BY <1>1, <1>4 DEF CleanInv
  <2>2. PICK h : h = session[s].h
    OBVIOUS
  <2>3. h \in Handles => h \notin {store.rf, store.ri} /\ \A t \in Sessions \ {s} : session[t].h # h
    BY <2>1, <2>2 DEF FormInv
  <2>4. FormInv(s)' /\ PostInv(s)'
    BY <1>2, IdleIs, HandleFacts DEF FormInv, PostInv
  <2>5. ASSUME NEW t \in Sessions, t # s PROVE FormInv(t)' /\ PostInv(t)'
    <3>1. session'[t] = session[t] /\ FormInv(t) /\ PostInv(t)
      BY <1>2, <2>1, <2>5
    <3>2. ASSUME session[t].h \in Handles
          PROVE  /\ session[t].h \notin left'
                 /\ \A u \in Sessions \ {t} : session'[u].h # session[t].h
      BY <1>1, <1>2, <2>2, <2>3, <2>5, <3>1, <3>2, IdleIs, HandleFacts DEF FormInv
    <3>3. \A u \in Sessions : u \in Busy' => u \in Busy
      BY <1>2, IdleIs DEF Busy
    <3> QED
      BY <1>1, <3>1, <3>2, <3>3 DEF FormInv, PostInv
  <2>6. StoreOwns'
    BY <1>1, <2>1, <2>2, <2>3 DEF StoreOwns
  <2>7. NoneLost'
    <3> SUFFICES ASSUME NEW k \in Handles PROVE open'[k] # Closed <=> k \in Held' \cup left'
      BY DEF NoneLost
    <3>1. k \in Held' <=> (\E t \in Sessions : session'[t].h = k) \/ k = store.rf \/ k = store.ri
      BY <1>1 DEF Held
    <3>2. (\E t \in Sessions : session'[t].h = k) <=> (\E t \in Sessions : t # s /\ session[t].h = k)
      BY <1>2, IdleIs, HandleFacts
    <3>3. open[k] # Closed <=> k \in Held \cup left
      BY <2>1 DEF NoneLost
    <3>4. k \in left' <=> k \in left \/ k = session[s].h
      BY <1>1
    <3> QED
      BY <1>1, <3>1, <3>2, <3>3, <3>4, HeldIs
  <2> QED
    BY <2>4, <2>5, <2>6, <2>7
<1> QED
  BY <1>3, <1>4 DEF CleanInv

LEMMA GetBeginInv ==
  ASSUME Inv, CleanInv, NEW s \in Sessions, NEW file \in Files, GetBegin(s, file)
  PROVE  Inv' /\ CleanInv'
<1>1. /\ PoolInv(Pool) /\ open \in [Handles -> Objects] /\ session \in [Sessions -> Forms]
      /\ content \in [Files -> Seq(Chunks) \cup {Missing}] /\ Pool.open = open /\ Pool.free = free
  BY DEF Inv, PoolInv, Pool
<1>2. PICK h \in Handles : h = Got(Pool) /\ free # <<>>
  BY <1>1, GotIs DEF GetBegin
<1>3. PICK new : new = [Idle EXCEPT !.kind = "get", !.file = file, !.h = h]
  OBVIOUS
<1>4. /\ new \in Forms /\ new.kind = "get" /\ new.file = file /\ new.h = h
  BY <1>3 DEF Idle, Forms, Names, Values
<1>5. /\ session[s] = Idle /\ session' = [session EXCEPT ![s] = new]
      /\ content[file] \in Seq(Chunks) /\ SetPool(Opened(Pool, file, "r"))
      /\ UNCHANGED <<content, f, store, uploads, left, clean>>
  BY <1>1, <1>2, <1>3 DEF GetBegin
<1>6. /\ session' \in [Sessions -> Forms] /\ session'[s] = new
      /\ \A t \in Sessions : t # s => session'[t] = session[t]
  BY <1>1, <1>4, <1>5
<1>7. /\ PoolInv(Pool)' /\ open[h] = Closed /\ open'[h].file = file /\ open'[h] # Closed
      /\ \A k \in Handles : k # h => open'[k] = open[k]
  <2>1. PICK pool : pool = Pool
    OBVIOUS
  <2>2. PICK mode \in {"r", "w"} : mode = "r"
    OBVIOUS
  <2>3. PICK x : x = Opened(pool, file, mode)
    OBVIOUS
  <2>4. SetPool(x) /\ PoolInv(pool) /\ pool.free # <<>> /\ h = Got(pool) /\ pool.open = open
    BY <1>1, <1>2, <1>5, <2>1, <2>2, <2>3
  <2>5. PoolInv(x) /\ Taken(pool, x, h, file, mode)
    BY <2>3, <2>4, OpenedIs
  <2>6. PoolInv(Pool)' /\ open' = x.open
    BY <2>4, <2>5, SetPoolIs
  <2> QED
    BY <2>4, <2>5, <2>6 DEF Taken
<1>8. FilesInv'
  <2>1. \A k \in Handles : open'[k] # Closed /\ open'[k] # open[k] =>
          open'[k].file \in Files /\ content'[open'[k].file] \in Seq(Chunks)
    BY <1>5, <1>7
  <2>2. content' \in [Files -> Seq(Chunks) \cup {Missing}] /\ content' = content
    BY <1>1, <1>5
  <2> QED
    BY <2>1, <2>2, FilesStay
<1>9. Inv'
  BY <1>5, <1>6, <1>7, <1>8 DEF Inv
<1>10. ASSUME clean' PROVE (\A t \in Sessions : FormInv(t) /\ PostInv(t))' /\ StoreOwns' /\ NoneLost'
  <2>1. /\ clean /\ \A t \in Sessions : FormInv(t) /\ PostInv(t)
        /\ StoreOwns /\ NoneLost
    BY <1>5, <1>10 DEF CleanInv
  <2>2. h \notin Held \cup left
    BY <1>7, <2>1 DEF NoneLost
  <2>3. Busy' = Busy
    BY <1>4, <1>5, <1>6, IdleIs DEF Busy
  <2>4. FormInv(s)' /\ PostInv(s)'
    <3>1. h \notin {store.rf, store.ri} \cup left /\ \A t \in Sessions \ {s} : session'[t].h # h
      BY <1>6, <2>2, HeldIs
    <3> QED
      BY <1>4, <1>5, <1>6, <1>7, <3>1 DEF FormInv, PostInv
  <2>5. ASSUME NEW t \in Sessions, t # s PROVE FormInv(t)' /\ PostInv(t)'
    <3>1. session'[t] = session[t] /\ FormInv(t) /\ PostInv(t) /\ session[t].h # h
      BY <1>6, <2>1, <2>2, <2>5, HeldIs
    <3>2. ASSUME session[t].h \in Handles
          PROVE  /\ open'[session[t].h] = open[session[t].h]
                 /\ \A u \in Sessions \ {t} : session'[u].h # session[t].h
      BY <1>4, <1>6, <1>7, <2>5, <3>1, <3>2 DEF FormInv
    <3>3. session[t].h \in Values
      BY <1>1 DEF Forms
    <3>4. FormInv(t)'
      BY <1>5, <2>3, <3>1, <3>2 DEF FormInv
    <3> QED
      BY <1>5, <3>1, <3>2, <3>3, <3>4 DEF PostInv, Values
  <2>6. StoreOwns'
    BY <1>5, <1>7, <2>1 DEF StoreOwns
  <2>7. NoneLost'
    <3> SUFFICES ASSUME NEW k \in Handles PROVE open'[k] # Closed <=> k \in Held' \cup left'
      BY DEF NoneLost
    <3>1. k \in Held' <=> (\E t \in Sessions : session'[t].h = k) \/ k = store.rf \/ k = store.ri
      BY <1>5 DEF Held
    <3>2. (\E t \in Sessions : session'[t].h = k) <=>
            (\E t \in Sessions : session[t].h = k) \/ k = h
      BY <1>4, <1>5, <1>6, IdleIs, HandleFacts
    <3>3. open[k] # Closed <=> k \in Held \cup left
      BY <2>1 DEF NoneLost
    <3> QED
      BY <1>5, <1>7, <3>1, <3>2, <3>3, HeldIs
  <2> QED
    BY <2>4, <2>5, <2>6, <2>7
<1> QED
  BY <1>9, <1>10 DEF CleanInv

\* The store of white names lets go of its handles and takes two, or none.
LEMMA StoreChangeInv ==
  ASSUME Inv, CleanInv, StoreChange
  PROVE  Inv' /\ CleanInv'
<1>1. /\ PoolInv(Pool) /\ open \in [Handles -> Objects]
      /\ content \in [Files -> Seq(Chunks) \cup {Missing}] /\ Pool.open = open /\ Pool.free = free
      /\ store.rf \in Handles \cup {Bad} /\ store.ri \in Handles \cup {Bad}
  BY DEF Inv, PoolInv, Pool
<1>2. PICK half : half = ClosedIn(Pool, store.ri)
  OBVIOUS
<1>3. PICK shut : shut = ClosedIn(half, store.rf)
  OBVIOUS
<1>4. /\ PoolInv(shut)
      /\ \A k \in Handles : /\ k \in {store.rf, store.ri} => shut.open[k] = Closed
                            /\ k \notin {store.rf, store.ri} => shut.open[k] = open[k]
  <2>1. PICK pool : pool = Pool
    OBVIOUS
  <2>2. PICK rf, ri : rf = store.rf /\ ri = store.ri
    OBVIOUS
  <2>3. PoolInv(half) /\ Shut(pool, half, ri)
    <3>1. PoolInv(pool) /\ half = ClosedIn(pool, ri)
      BY <1>1, <1>2, <2>1, <2>2
    <3> QED
      BY <3>1, ClosedInIs
  <2>4. PoolInv(shut) /\ Shut(half, shut, rf)
    BY <1>3, <2>2, <2>3, ClosedInIs
  <2>5. \A k \in Handles : /\ k \in {rf, ri} => shut.open[k] = Closed
                           /\ k \notin {rf, ri} => shut.open[k] = pool.open[k]
    BY <2>3, <2>4 DEF Shut
  <2> QED
    BY <1>1, <2>1, <2>2, <2>4, <2>5
<1>5. UNCHANGED <<content, f, session, uploads, left, clean>>
  BY DEF StoreChange
\* the two outcomes
<1>6. \/ store' = NoStore /\ SetPool(shut)
      \/ /\ content[Rf] # Missing /\ content[Ri] # Missing /\ Len(shut.free) >= 2
         /\ store' = [rf |-> Got(shut), ri |-> Got(Opened(shut, Rf, "w"))]
         /\ SetPool(Opened(Opened(shut, Rf, "w"), Ri, "w"))
  BY <1>2, <1>3 DEF StoreChange
<1>7. /\ PoolInv(Pool)'
      /\ \/ store' = NoStore /\ open' = shut.open
         \/ /\ content[Rf] \in Seq(Chunks) /\ content[Ri] \in Seq(Chunks)
            /\ store'.rf \in Handles /\ store'.ri \in Handles /\ store'.rf # store'.ri
            /\ store' = [rf |-> store'.rf, ri |-> store'.ri]
            /\ shut.open[store'.rf] = Closed /\ shut.open[store'.ri] = Closed
            /\ open'[store'.rf] # Closed /\ open'[store'.rf].file = Rf
            /\ open'[store'.ri] # Closed /\ open'[store'.ri].file = Ri
            /\ \A k \in Handles : k \notin {store'.rf, store'.ri} => open'[k] = shut.open[k]
  <2>1. CASE store' = NoStore /\ SetPool(shut)
    BY <1>4, <2>1, SetPoolIs
  <2>2. CASE /\ content[Rf] # Missing /\ content[Ri] # Missing /\ Len(shut.free) >= 2
             /\ store' = [rf |-> Got(shut), ri |-> Got(Opened(shut, Rf, "w"))]
             /\ SetPool(Opened(Opened(shut, Rf, "w"), Ri, "w"))
    <3>1. PICK mode \in {"r", "w"} : mode = "w"
      OBVIOUS
    <3>2. PICK one : one = Opened(shut, Rf, mode)
      OBVIOUS
    <3>3. PICK two : two = Opened(one, Ri, mode)
      OBVIOUS
    <3>4. PICK a, b : a = Got(shut) /\ b = Got(one)
      OBVIOUS
    <3>5. Rf \in Files /\ Ri \in Files /\ shut.free \in Seq(Handles)
      BY <1>4, FilesAssumption DEF PoolInv
    <3>6. shut.free # <<>>
      BY <2>2
    <3>7. PoolInv(one) /\ Taken(shut, one, a, Rf, mode)
      BY <1>4, <3>2, <3>4, <3>5, <3>6, OpenedIs
    <3>8. one.free # <<>>
      <4>1. Len(one.free) = Len(shut.free) - 1 /\ Len(shut.free) \in Nat
        BY <3>5, <3>7, LenProperties DEF Taken
      <4> QED
        BY <2>2, <4>1
    <3>9. PoolInv(two) /\ Taken(one, two, b, Ri, mode)
      BY <3>3, <3>4, <3>5, <3>7, <3>8, OpenedIs
    <3>10. /\ store' = [rf |-> a, ri |-> b] /\ SetPool(two)
      BY <2>2, <3>1, <3>2, <3>3, <3>4
    <3>11. PoolInv(Pool)' /\ open' = two.open
      BY <3>9, <3>10, SetPoolIs
    <3>12. /\ a \in Handles /\ b \in Handles /\ a # b
           /\ shut.open[a] = Closed /\ shut.open[b] = Closed
           /\ two.open[a] # Closed /\ two.open[a].file = Rf
           /\ two.open[b] # Closed /\ two.open[b].file = Ri
           /\ \A k \in Handles : k \notin {a, b} => two.open[k] = shut.open[k]
      <4>1. /\ a \in Handles /\ shut.open[a] = Closed /\ one.open[a] # Closed /\ one.open[a].file = Rf
            /\ \A k \in Handles : k # a => one.open[k] = shut.open[k]
        BY <3>7 DEF Taken
      <4>2. /\ b \in Handles /\ one.open[b] = Closed /\ two.open[b] # Closed /\ two.open[b].file = Ri
            /\ \A k \in Handles : k # b => two.open[k] = one.open[k]
        BY <3>9 DEF Taken
      <4> QED
        BY <4>1, <4>2
    <3>13. content[Rf] \in Seq(Chunks) /\ content[Ri] \in Seq(Chunks)
      BY <1>1, <2>2, <3>5
    <3> QED
      BY <3>10, <3>11, <3>12, <3>13
  <2> QED
    BY <1>6, <2>1, <2>2
<1>8. FilesInv'
  <2>1. \A k \in Handles : open'[k] # Closed /\ open'[k] # open[k] =>
          open'[k].file \in Files /\ content'[open'[k].file] \in Seq(Chunks)
    BY <1>4, <1>5, <1>7, FilesAssumption
  <2>2. content' \in [Files -> Seq(Chunks) \cup {Missing}] /\ content' = content
    BY <1>1, <1>5
  <2> QED
    BY <2>1, <2>2, FilesStay
<1>9. Inv'
  <2>1. store' \in [rf : Handles \cup {Bad}, ri : Handles \cup {Bad}]
    BY <1>7, NoStoreIs
  <2> QED
    BY <1>5, <1>7, <1>8, <2>1 DEF Inv
<1>10. ASSUME clean' PROVE (\A t \in Sessions : FormInv(t) /\ PostInv(t))' /\ StoreOwns' /\ NoneLost'
  <2>1. /\ clean /\ \A t \in Sessions : FormInv(t) /\ PostInv(t)
        /\ StoreOwns /\ NoneLost
    BY <1>5, <1>10 DEF CleanInv
  <2>2. Busy' = Busy
    BY <1>5 DEF Busy
  \* a handle that is open and not the store's is left alone
  <2>3. ASSUME NEW k \in Handles, open[k] # Closed, k \notin {store.rf, store.ri}
        PROVE  open'[k] = open[k] /\ k \notin {store'.rf, store'.ri}
    BY <1>4, <1>7, <2>3, NoStoreIs, HandleFacts
  <2>4. ASSUME NEW t \in Sessions PROVE FormInv(t)' /\ PostInv(t)'
    <3>1. FormInv(t) /\ PostInv(t)
      BY <2>1
    <3>2. session[t].h \in Handles =>
            open'[session[t].h] = open[session[t].h] /\ session[t].h \notin {store'.rf, store'.ri}
      BY <2>3, <3>1 DEF FormInv
    <3>3. session[t].h \in Values
      BY DEF Inv, Forms
    <3>4. FormInv(t)'
      BY <1>5, <2>2, <3>1, <3>2 DEF FormInv
    <3> QED
      BY <1>5, <3>1, <3>2, <3>3, <3>4 DEF PostInv, Values
  <2>5. ASSUME NEW k \in Handles, k \in left PROVE open[k] # Closed /\ k \notin {store.rf, store.ri}
    BY <2>1, <2>5, NoStoreIs, HandleFacts DEF NoneLost, StoreOwns
  <2>6. StoreOwns'
    BY <1>5, <1>7, <2>3, <2>5 DEF StoreOwns
  <2>7. NoneLost'
    <3> SUFFICES ASSUME NEW k \in Handles PROVE open'[k] # Closed <=> k \in Held' \cup left'
      BY DEF NoneLost
    <3>1. k \in Held' <=> (\E t \in Sessions : session[t].h = k) \/ k = store'.rf \/ k = store'.ri
      BY <1>5 DEF Held
    <3>2. open[k] # Closed <=> (\E t \in Sessions : session[t].h = k) \/ k = store.rf \/ k = store.ri \/ k \in left
      BY <2>1, HeldIs DEF NoneLost
    <3>3. CASE k \in {store.rf, store.ri}
      <4>1. k \notin left /\ \A t \in Sessions : session[t].h # k
        BY <2>1, <2>5, <3>3 DEF FormInv
      <4> QED
        BY <1>4, <1>5, <1>7, <3>1, <3>3, <4>1, NoStoreIs, HandleFacts
    <3>4. CASE k \notin {store.rf, store.ri}
      BY <1>4, <1>5, <1>7, <3>1, <3>2, <3>4, NoStoreIs, HandleFacts
    <3> QED
      BY <3>3, <3>4
  <2> QED
    BY <2>4, <2>6, <2>7
<1> QED
  BY <1>9, <1>10 DEF CleanInv

LEMMA NextInv == Inv /\ CleanInv /\ [Next]_vars => Inv' /\ CleanInv'
<1> SUFFICES ASSUME Inv, CleanInv, [Next]_vars PROVE Inv' /\ CleanInv'
  OBVIOUS
<1>1. CASE UNCHANGED vars
  BY <1>1 DEF vars, Inv, PoolInv, Pool, FilesInv, CleanInv, FormInv, PostInv, StoreOwns, NoneLost, Busy, Held
<1>2. ASSUME NEW s \in Sessions, NEW file \in Files, Begin(s, file) \/ GetBegin(s, file)
      PROVE  Inv' /\ CleanInv'
  BY <1>2, BeginInv, GetBeginInv
<1>3. ASSUME NEW s \in Sessions, BeginBlank(s) \/ Data(s) \/ End(s) \/ CutOff(s) \/ GetEnd(s)
      PROVE  Inv' /\ CleanInv'
  BY <1>3, BlankInv, DataInv, EndInv, CutOffInv, GetEndInv
<1>4. CASE StoreChange
  BY <1>4, StoreChangeInv
<1> QED
  BY <1>1, <1>2, <1>3, <1>4 DEF Next

LEMMA Inductive == Spec => [](Inv /\ CleanInv)
<1>1. Init => Inv /\ CleanInv
  BY InitInv
<1>2. (Inv /\ CleanInv) /\ [Next]_vars => (Inv /\ CleanInv)'
  BY NextInv
<1> QED
  BY <1>1, <1>2, PTL DEF Spec

-----------------------------------------------------------------------------
\* The pool of handles of UFFS is never corrupted: whatever the sessions and the store
\* close, and however often (CHK_OBJ_LOCK in uffs_close), each handle is on the free
\* list exactly once if it is closed, and never while it is open.
THEOREM PoolIsSound == Spec => []TypeOK
<1>1. Inv => TypeOK
  BY DEF Inv, PoolInv, Pool, Values, TypeOK
<1> QED
  BY <1>1, Inductive, PTL

\* While forms come one at a time no handle of UFFS is shared, and none is lost but
\* those of uploads that were cut off (cgi_process_data, http_fopen, white_name_init).
THEOREM HandlesAreAccountedFor == Spec => []HandlesAccountedFor
<1>1. Inv /\ CleanInv => HandlesAccountedFor
  <2> SUFFICES ASSUME Inv, CleanInv, clean PROVE HandlesAccountedFor
    BY DEF HandlesAccountedFor
  <2>1. (\A s \in Sessions : FormInv(s)) /\ StoreOwns /\ NoneLost
    BY DEF CleanInv
  <2>2. ToSet(free) = {h \in Handles : open[h] = Closed} /\ left \subseteq Handles
    BY DEF Inv, PoolInv, Pool
  <2>3. Handles \ ToSet(free) = (Held \cap Handles) \cup left
    BY <2>1, <2>2 DEF NoneLost
  <2>4. store # NoStore => open[store.rf].file = Rf /\ open[store.ri].file = Ri
    BY <2>1 DEF StoreOwns
  <2> QED
    BY <2>1, <2>3, <2>4 DEF HandlesAccountedFor, FormInv
<1> QED
  BY <1>1, Inductive, PTL

\* While forms come one at a time, what a form has sent so far is how its file begins,
\* whatever downloads and changes of the store come in between, and though f is one
\* variable for all sessions and the file is not cut when a form begins.
THEOREM UploadsLand == Spec => []UploadLands
<1>1. Inv /\ CleanInv => UploadLands
  BY DEF CleanInv, FormInv, PostInv, UploadLands, Busy
<1> QED
  BY <1>1, Inductive, PTL
=============================================================================
