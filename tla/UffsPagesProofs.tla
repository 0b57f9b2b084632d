-------------------------- MODULE UffsPagesProofs --------------------------
(***************************************************************************)
(* What UffsStore promises of the content of its files, for any number of  *)
(* files, pages, blocks, buffers and writes: that the files are a page     *)
(* store with a write-back cache, on the blocks and buffers of which       *)
(* UffsStoreProofs says that they stay sound.                              *)
(*                                                                         *)
(* A page of a group is what the dirty buffer of it holds, or else the     *)
(* last version of it on the block (Content); a restart may find it as the *)
(* block of one of the flashes a power cut may leave has it (Poss).  No    *)
(* operator may lose a page in front of another one, because a page is     *)
(* looked for on its block from the place its id names (Tidy).  Each       *)
(* operator of UffsDevice then leaves the content of all groups alone      *)
(* (Calm), writes a page of one (Alters), or empties one (Clears), and     *)
(* each call of UffsStore keeps what PageStore promises (PagesInv).        *)
(*                                                                         *)
(* Nothing of that is claimed of a group whose torn page looks free        *)
(* (`stale'): its file is given up when the restart that finds the torn    *)
(* page ends.  That no other file is given up rests on Rests: the block of *)
(* a group without dirty pages is not written, wherever power fails in a   *)
(* call that does not write it.                                            *)
(***************************************************************************)
EXTENDS UffsStoreProofs

-----------------------------------------------------------------------------
(* The versions on a block *)

\* The pages of a block are laid out so that in front of each, unless it is torn,
\* there are all the pages with lower ids, wherever it was rewritten.
LaidOut(p) ==
  \A i \in 1 .. Len(p) : p[i] # Dead =>
    p[i].ver # 0 /\ \A k \in 0 .. p[i].id - 1 : \E j \in 1 .. i - 1 : p[j].id = k
Laid(b) == LaidOut(b.pages)

LEMMA PageAt ==
  ASSUME NEW x \in PageSet
  PROVE  /\ x.id \in Int /\ x.ver \in Vers
         /\ x = Dead \/ (x.id \in Ids /\ x # Dead)
         /\ x = Dead => x.id = -1 /\ x.ver = 0
<1>1. CASE x = Dead
  BY <1>1, Sizes DEF Dead
<1>2. CASE x \in [id : Ids, ver : Vers]
  <2>1. x.id \in Ids /\ x.ver \in Vers
    BY <1>2
  <2>2. x.id \in Nat
    BY <2>1, Sizes
  <2>3. Dead.id = -1
    BY DEF Dead
  <2>4. x # Dead
    BY <2>2, <2>3
  <2> QED
    BY <2>1, <2>2, <2>4
<1> QED
  BY <1>1, <1>2 DEF PageSet

\* A page is behind as many others as its id says.
LEMMA LaidReaches ==
  ASSUME NEW b \in Block, Laid(b), NEW i \in 1 .. Len(b.pages)
  PROVE  b.pages[i].id < i
<1> DEFINE p == b.pages
<1>1. p \in Seq(PageSet) /\ Len(p) \in Nat /\ p[i] \in PageSet
  BY BlockAt
<1> HIDE DEF p
<1>2. CASE p[i] = Dead
  BY <1>1, <1>2, PageAt DEF p
<1>3. CASE p[i] # Dead
  <2>1. p[i].id \in Nat
    BY <1>1, <1>3, PageAt, Sizes
  <2> DEFINE n == p[i].id
             f == [k \in 0 .. n - 1 |-> CHOOSE j \in 1 .. i - 1 : p[j].id = k]
  <2>2. \A k \in 0 .. n - 1 : \E j \in 1 .. i - 1 : p[j].id = k
    BY <1>1, <1>3 DEF Laid, LaidOut, p
  <2>3. \A k \in 0 .. n - 1 : f[k] \in 1 .. i - 1 /\ p[f[k]].id = k
    BY <2>2
  <2>4. n \in Nat
    BY <2>1
  <2> HIDE DEF n
  <2>5. f \in [0 .. n - 1 -> 1 .. i - 1]
    BY <2>3
  <2> HIDE DEF f
  <2>6. /\ IsFiniteSet(0 .. n - 1) /\ Cardinality(0 .. n - 1) = n
        /\ IsFiniteSet(1 .. i - 1) /\ Cardinality(1 .. i - 1) = i - 1
    <3>1. 0 \in Int /\ n - 1 \in Int /\ 1 \in Int /\ i - 1 \in Int
      BY <2>4
    <3>2. /\ IsFiniteSet(0 .. n - 1) /\ Cardinality(0 .. n - 1) = IF 0 > n - 1 THEN 0 ELSE n - 1 - 0 + 1
          /\ IsFiniteSet(1 .. i - 1) /\ Cardinality(1 .. i - 1) = IF 1 > i - 1 THEN 0 ELSE i - 1 - 1 + 1
      BY <3>1, FS_Interval
    <3> QED
      BY <2>4, <3>2
  <2>7. ~(n >= i)
    <3> SUFFICES ASSUME n >= i PROVE FALSE
      OBVIOUS
    <3>1. Cardinality(1 .. i - 1) < Cardinality(0 .. n - 1)
      BY <2>4, <2>6
    <3>2. PICK x, y \in 0 .. n - 1 : x # y /\ f[x] = f[y]
      BY <2>5, <2>6, <3>1, FS_PigeonHole
    <3> QED
      BY <2>3, <3>2
  <2>8. n < i
    BY <2>4, <2>7
  <2> QED
    BY <2>8 DEF n, p
<1> QED
  BY <1>2, <1>3

\* The page that is found for an id is the last one with it.
LEMMA FoundIs ==
  ASSUME NEW b \in Block, Laid(b), NEW id \in Ids
  PROVE  /\ PlacesIn(b, id) = {i \in 1 .. Len(b.pages) : b.pages[i].id = id}
         /\ (\A i \in 1 .. Len(b.pages) : b.pages[i].id # id) => BestVer(b, id) = 0
         /\ \A i \in 1 .. Len(b.pages) :
              b.pages[i].id = id /\ (\A j \in 1 .. Len(b.pages) : j > i => b.pages[j].id # id)
                => BestVer(b, id) = b.pages[i].ver
         /\ BestVer(b, id) # 0 <=> \E i \in 1 .. Len(b.pages) : b.pages[i].id = id
         /\ id \in IdsOf(b) <=> BestVer(b, id) # 0
<1> DEFINE p == b.pages
           S == PlacesIn(b, id)
<1>1. p \in Seq(PageSet) /\ Len(p) \in Nat /\ DOMAIN p = 1 .. Len(p) /\ \A i \in 1 .. Len(p) : p[i] \in PageSet
  BY BlockAt
<1>2. \A i \in 1 .. Len(p) : p[i].id < i
  BY LaidReaches
<1>3. S = {i \in 1 .. Len(p) : p[i].id = id}
  BY <1>1, <1>2 DEF PlacesIn
<1>4. \A i \in S : p[i].ver # 0
  <2> SUFFICES ASSUME NEW i \in 1 .. Len(p), p[i].id = id PROVE p[i].ver # 0
    BY <1>3
  <2>1. id # -1
    BY Sizes
  <2>2. p[i] # Dead
    BY <1>1, <2>1, PageAt
  <2> QED
    BY <2>2 DEF Laid, LaidOut
<1>5. BestVer(b, id) = IF S = {} THEN 0 ELSE p[Max(S)].ver
  BY DEF BestVer
<1>6. id \in IdsOf(b) <=> S # {}
  BY DEF IdsOf
<1> HIDE DEF S, p
<1>7. S # {} => Max(S) \in S /\ \A j \in S : j <= Max(S)
  <2>1. S \in SUBSET Nat /\ \A j \in S : j <= Len(p)
    BY <1>1, <1>3
  <2> QED
    BY <1>1, <2>1, GreatestIs
<1>8. ASSUME NEW i \in 1 .. Len(p), p[i].id = id, \A j \in 1 .. Len(p) : j > i => p[j].id # id
      PROVE  BestVer(b, id) = p[i].ver
  <2>1. i \in S
    BY <1>3, <1>8
  <2>2. Max(S) \in S /\ i <= Max(S)
    BY <1>7, <2>1
  <2>3. Max(S) \in 1 .. Len(p) /\ p[Max(S)].id = id
    BY <1>3, <2>2
  <2>4. ~(Max(S) > i)
    BY <1>8, <2>3
  <2>5. Max(S) = i
    BY <1>1, <2>2, <2>3, <2>4
  <2> QED
    BY <1>5, <2>1, <2>5
<1>9. (\A i \in 1 .. Len(p) : p[i].id # id) => BestVer(b, id) = 0
  BY <1>3, <1>5
<1>10. BestVer(b, id) # 0 <=> S # {}
  BY <1>4, <1>5, <1>7
<1> QED
  BY <1>3, <1>6, <1>8, <1>9, <1>10 DEF S, p

\* With a page the block has those with lower ids.
LEMMA FoundLower ==
  ASSUME NEW b \in Block, Laid(b), NEW id \in Ids, BestVer(b, id) # 0, NEW k \in 0 .. id - 1
  PROVE  k \in Ids /\ BestVer(b, k) # 0
<1>1. PICK i \in 1 .. Len(b.pages) : b.pages[i].id = id
  BY FoundIs
<1>2. b.pages[i] \in PageSet /\ Len(b.pages) \in Nat
  BY BlockAt
<1>3. id \in Nat /\ k \in Ids
  BY Sizes DEF Ids
<1>4. b.pages[i] # Dead
  BY <1>1, <1>2, <1>3, PageAt
<1>5. PICK j \in 1 .. i - 1 : b.pages[j].id = k
  BY <1>1, <1>4 DEF Laid, LaidOut
<1>6. j \in 1 .. Len(b.pages)
  BY <1>2
<1> QED
  BY <1>3, <1>5, <1>6, FoundIs

\* No block has no page.
LEMMA NoBlockHas ==
  /\ Laid(NoBlock) /\ \A id \in Ids : BestVer(NoBlock, id) = 0
<1>1. NoBlock.pages = <<>> /\ Len(<<>>) = 0
  BY DEF NoBlock
<1>2. Laid(NoBlock)
  BY <1>1 DEF Laid, LaidOut
<1>3. ASSUME NEW id \in Ids PROVE BestVer(NoBlock, id) = 0
  BY <1>1, <1>2, NoBlockType, FoundIs
<1> QED
  BY <1>2, <1>3

-----------------------------------------------------------------------------
(* Blocks being written *)

\* p is the first n pages of q, and perhaps a torn one.
Begins(p, q, n) ==
  /\ n \in 0 .. Len(q) /\ \A i \in 1 .. n : p[i] = q[i]
  /\ Len(p) = n \/ (Len(p) = n + 1 /\ p[n + 1] = Dead)

LEMMA PartialAre ==
  ASSUME NEW done \in Seq(PageSet), NEW more \in Seq(PageSet), NEW p \in Partial(done, more)
  PROVE  p \in Seq(PageSet) /\ \E n \in Len(done) .. Len(done) + Len(more) : Begins(p, done \o more, n)
<1>1. PICK k \in 0 .. Len(more) : \/ p = done \o SubSeq(more, 1, k)
                                  \/ p = done \o SubSeq(more, 1, k) \o <<Dead>>
  <2>1. Len(more) \in Nat
    BY LenProperties
  <2>2. \A k \in 0 .. Len(more) - 1 : k \in 0 .. Len(more)
    BY <2>1
  <2>3. \/ \E k \in 0 .. Len(more) : p = done \o SubSeq(more, 1, k)
        \/ \E k \in 0 .. Len(more) - 1 : p = done \o SubSeq(more, 1, k) \o <<Dead>>
    BY DEF Partial
  <2> QED
    BY <2>2, <2>3
<1>2. /\ Len(more) \in Nat /\ Len(done) \in Nat /\ \A i \in 1 .. k : more[i] \in PageSet
  BY LenProperties, ElementOfSeq
<1> DEFINE s == SubSeq(more, 1, k)
           d == done \o s
           t == <<Dead>>
           q == done \o more
           n == Len(done) + k
<1>3. s \in Seq(PageSet) /\ Len(s) = k /\ \A i \in 1 .. k : s[i] = more[i]
  <2>1. /\ s \in Seq(PageSet) /\ Len(s) = IF 1 <= k THEN k - 1 + 1 ELSE 0
        /\ \A i \in 1 .. k - 1 + 1 : s[i] = more[1 + i - 1]
    BY <1>2, SubSeqProperties
  <2> HIDE DEF s
  <2>2. Len(s) = k
    BY <2>1
  <2>3. ASSUME NEW i \in 1 .. k PROVE s[i] = more[i]
    <3>1. i \in 1 .. k - 1 + 1 /\ 1 + i - 1 = i
      OBVIOUS
    <3> QED
      BY <2>1, <3>1
  <2> QED
    BY <2>1, <2>2, <2>3
<1> HIDE DEF s
<1>4. /\ d \in Seq(PageSet) /\ Len(d) = n
      /\ \A i \in 1 .. n : d[i] = IF i <= Len(done) THEN done[i] ELSE s[i - Len(done)]
  BY <1>3, ConcatProperties
<1>5. /\ q \in Seq(PageSet) /\ Len(q) = Len(done) + Len(more)
      /\ \A i \in 1 .. Len(done) + Len(more) : q[i] = IF i <= Len(done) THEN done[i] ELSE more[i - Len(done)]
  BY ConcatProperties
<1> HIDE DEF d, q
<1>6. n \in Len(done) .. Len(done) + Len(more) /\ n \in 0 .. Len(q) /\ n \in Nat
  BY <1>2, <1>5
<1>7. ASSUME NEW i \in 1 .. n PROVE d[i] = q[i]
  <2>1. i \in 1 .. Len(done) + Len(more)
    BY <1>2
  <2>2. CASE i <= Len(done)
    BY <1>4, <1>5, <2>1, <2>2
  <2>3. CASE ~(i <= Len(done))
    <3>1. i - Len(done) \in 1 .. k
      BY <1>2, <2>3
    <3> QED
      BY <1>3, <1>4, <1>5, <2>1, <2>3, <3>1
  <2> QED
    BY <2>2, <2>3
<1> HIDE DEF n
<1>8. CASE p = d
  BY <1>4, <1>6, <1>7, <1>8 DEF Begins, q
<1>9. CASE p = d \o t
  <2>1. t \in Seq(PageSet) /\ Len(t) = 1 /\ t[1] = Dead
    BY DeadType
  <2> HIDE DEF t
  <2>2. /\ p \in Seq(PageSet) /\ Len(p) = Len(d) + Len(t)
        /\ \A i \in 1 .. Len(d) + Len(t) : p[i] = IF i <= Len(d) THEN d[i] ELSE t[i - Len(d)]
    BY <1>4, <1>9, <2>1, ConcatProperties
  <2>3. Len(p) = n + 1 /\ \A i \in 1 .. n : p[i] = d[i]
    BY <1>4, <1>6, <2>1, <2>2
  <2>4. p[n + 1] = t[1]
    <3> DEFINE m == n + 1
    <3>1. m \in 1 .. Len(d) + Len(t) /\ ~(m <= Len(d)) /\ m - Len(d) = 1
      BY <1>4, <1>6, <2>1
    <3> HIDE DEF m
    <3>2. p[m] = t[m - Len(d)]
      BY <2>2, <3>1
    <3>3. p[m] = t[1]
      BY <3>1, <3>2
    <3> QED
      BY <3>3 DEF m
  <2> QED
    BY <1>6, <1>7, <2>1, <2>2, <2>3, <2>4 DEF Begins, q
<1> QED
  BY <1>1, <1>8, <1>9 DEF d, s, t
LEMMA LaidPart ==
  ASSUME NEW p \in Seq(PageSet), NEW q \in Seq(PageSet), NEW n, Begins(p, q, n), LaidOut(q)
  PROVE  LaidOut(p)
<1> SUFFICES ASSUME NEW i \in 1 .. Len(p), p[i] # Dead
             PROVE  p[i].ver # 0 /\ \A k \in 0 .. p[i].id - 1 : \E j \in 1 .. i - 1 : p[j].id = k
  BY DEF LaidOut
<1>1. Len(p) \in Nat /\ Len(q) \in Nat /\ n \in 0 .. Len(q)
  BY LenProperties DEF Begins
<1>2. i \in 1 .. n
  BY <1>1 DEF Begins
<1>3. p[i] = q[i] /\ i \in 1 .. Len(q) /\ \A j \in 1 .. i - 1 : p[j] = q[j]
  BY <1>1, <1>2 DEF Begins
<1> QED
  BY <1>3 DEF LaidOut

\* each page from the m-th on has an id of its own
Distinct(p, m) == \A i, j \in m + 1 .. Len(p) : p[i].id = p[j].id => i = j
\* q finds what is among the first n pages of c but not in b, and else what b finds
Finds(q, b, c, n, id) ==
  /\ \A i \in Len(b.pages) + 1 .. n : c.pages[i].id = id => BestVer(q, id) = c.pages[i].ver
  /\ (\A i \in Len(b.pages) + 1 .. n : c.pages[i].id # id) => BestVer(q, id) = BestVer(b, id)

\* q is what there is of c when it is written behind b.
LEMMA PartFinds ==
  ASSUME NEW b \in Block, NEW c \in Block, Laid(c), Begins(b.pages, c.pages, Len(b.pages)),
         Distinct(c.pages, Len(b.pages)),
         NEW q \in Block, NEW n, n >= Len(b.pages), Begins(q.pages, c.pages, n), NEW id \in Ids
  PROVE  Laid(b) /\ Laid(q) /\ Finds(q, b, c, n, id)
<1> DEFINE bp == b.pages
           cp == c.pages
           qp == q.pages
           m == Len(b.pages)
<1>1. /\ bp \in Seq(PageSet) /\ cp \in Seq(PageSet) /\ qp \in Seq(PageSet)
      /\ m \in Nat /\ Len(cp) \in Nat /\ Len(qp) \in Nat
  BY BlockAt
<1>2. Laid(b) /\ Laid(q)
  BY <1>1, LaidPart DEF Laid
<1>3. n \in 0 .. Len(cp) /\ n >= m /\ m <= Len(cp)
  BY <1>1 DEF Begins
<1>4. /\ \A i \in 1 .. m : bp[i] = cp[i]
      /\ \A i \in 1 .. n : qp[i] = cp[i]
      /\ Len(qp) >= n
      /\ \A i \in 1 .. Len(qp) : i > n => qp[i] = Dead
  <2>1. Len(qp) \in {n, n + 1} /\ (Len(qp) = n + 1 => qp[n + 1] = Dead)
    BY DEF Begins
  <2>2. ASSUME NEW i \in 1 .. Len(qp), i > n PROVE qp[i] = Dead
    <3>1. i = n + 1 /\ Len(qp) = n + 1
      BY <1>1, <1>3, <2>1, <2>2
    <3> QED
      BY <2>1, <3>1
  <2>3. Len(qp) >= n
    BY <1>3, <2>1
  <2> QED
    BY <2>2, <2>3 DEF Begins
<1>5. \A i \in 1 .. Len(qp) : i > n => qp[i].id # id
  BY <1>4, Sizes DEF Dead
<1>6. \A i, j \in m + 1 .. Len(cp) : cp[i].id = cp[j].id => i = j
  BY DEF Distinct
<1> HIDE DEF m, bp, cp, qp
<1>7. ASSUME NEW i \in m + 1 .. n, cp[i].id = id PROVE BestVer(q, id) = cp[i].ver
  <2>1. i \in 1 .. Len(qp) /\ qp[i] = cp[i]
    BY <1>1, <1>3, <1>4
  <2>2. ASSUME NEW j \in 1 .. Len(qp), j > i PROVE qp[j].id # id
    <3>1. CASE j > n
      BY <1>5, <3>1
    <3>2. CASE j <= n
      <4>1. j \in m + 1 .. Len(cp) /\ i \in m + 1 .. Len(cp) /\ j \in 1 .. n /\ i # j
        BY <1>1, <1>3, <2>2, <3>2
      <4>2. cp[j].id # cp[i].id
        BY <1>6, <4>1
      <4> QED
        BY <1>4, <1>7, <4>1, <4>2
    <3> QED
      BY <1>1, <1>3, <3>1, <3>2
  <2> QED
    BY <1>2, <1>7, <2>1, <2>2, FoundIs DEF qp
<1>8. ASSUME \A i \in m + 1 .. n : cp[i].id # id PROVE BestVer(q, id) = BestVer(b, id)
  <2>1. /\ PlacesIn(b, id) = {i \in 1 .. m : bp[i].id = id}
        /\ PlacesIn(q, id) = {i \in 1 .. Len(qp) : qp[i].id = id}
    BY <1>2, FoundIs DEF m, bp, qp
  <2>2. ASSUME NEW i \in 1 .. Len(qp), qp[i].id = id PROVE i \in 1 .. m /\ bp[i] = qp[i]
    <3>1. i \in 1 .. n
      BY <1>1, <1>3, <1>5, <2>2
    <3>2. cp[i].id = id
      BY <1>4, <2>2, <3>1
    <3>3. i \in 1 .. m
      BY <1>1, <1>3, <1>8, <3>1, <3>2
    <3> QED
      BY <1>4, <3>1, <3>3
  <2>3. ASSUME NEW i \in 1 .. m PROVE i \in 1 .. Len(qp) /\ bp[i] = qp[i]
    <3>1. i \in 1 .. n /\ i \in 1 .. Len(qp)
      BY <1>1, <1>3, <1>4
    <3> QED
      BY <1>4, <3>1
  <2>4. PlacesIn(b, id) = PlacesIn(q, id)
    BY <2>1, <2>2, <2>3
  <2>5. PlacesIn(b, id) # {} => Max(PlacesIn(b, id)) \in PlacesIn(b, id)
    <3>1. PlacesIn(b, id) \in SUBSET Nat /\ \A i \in PlacesIn(b, id) : i <= m
      BY <1>1, <2>1
    <3> QED
      BY <1>1, <3>1, GreatestIs
  <2>6. PlacesIn(b, id) # {} => bp[Max(PlacesIn(b, id))] = qp[Max(PlacesIn(b, id))]
    BY <2>1, <2>3, <2>5
  <2> QED
    BY <2>4, <2>6 DEF BestVer, bp, qp
<1> QED
  BY <1>2, <1>7, <1>8 DEF m, cp, Finds

-----------------------------------------------------------------------------
(* What a group holds *)

\* the version of a page, wherever it is
Content(w, g, id) == IF id \in DirtyIds(w, g) THEN VerIn(w, g, id) ELSE BestVer(w.home[g], id)
\* no page is missing in front of another one
Solid(w, g) ==
  /\ Laid(w.home[g])
  /\ \A id \in DirtyIds(w, g) : VerIn(w, g, id) # 0
  /\ \A id \in Ids : Content(w, g, id) # 0 => \A k \in 0 .. id - 1 : Content(w, g, k) # 0

LEMMA HomeAt ==
  ASSUME NEW w \in Work, NEW g \in Groups
  PROVE  w.home[g] \in Block
BY DEF Work

LEMMA ContentIs ==
  ASSUME NEW w \in Work, Ends(w.bufs), NEW g \in Groups, Solid(w, g), NEW id \in Ids
  PROVE  /\ Content(w, g, id) \in Vers
         /\ Content(w, g, id) # 0 <=> id \in DirtyIds(w, g) \/ BestVer(w.home[g], id) # 0
<1>1. w.home[g] \in Block
  BY HomeAt
<1>2. CASE id \in DirtyIds(w, g)
  BY <1>2, VerInType DEF Content, Solid
<1>3. CASE id \notin DirtyIds(w, g)
  BY <1>1, <1>3, BestVerType DEF Content
<1> QED
  BY <1>2, <1>3

\* The dirty pages, the lowest first.
Listed(d, w, g) ==
  /\ d \in Seq(PageSet)
  /\ \A k \in 1 .. Len(d) : d[k].id \in DirtyIds(w, g) /\ d[k].ver = VerIn(w, g, d[k].id)
  /\ \A id \in DirtyIds(w, g) : \E k \in 1 .. Len(d) : d[k].id = id
  /\ \A k, l \in 1 .. Len(d) : k < l => d[k].id < d[l].id

LEMMA DirtyPagesAre ==
  ASSUME NEW w \in Work, Ends(w.bufs), NEW g
  PROVE  Listed(DirtyPages(w, g), w, g)
<1> DEFINE S == DirtyIds(w, g)
           n == Cardinality(S)
           ids == Arranged(S, Rising(S))
           d == DirtyPages(w, g)
<1>1. S \in SUBSET Ids /\ IsFiniteSet(S) /\ n \in Nat
  BY DirtyIdsType, FS_CardinalityType
<1>2. d \in Seq(PageSet)
  BY DirtyPagesType
<1>3. Orders(S, Rising(S))
  BY <1>1, RisingOrders, Sizes
<1>4. /\ ids \in [1 .. n -> S]
      /\ \A i \in S : \E k \in 1 .. n : ids[k] = i
      /\ \A k, l \in 1 .. n : k < l => <<ids[k], ids[l]>> \in Rising(S)
  BY <1>1, <1>3, ArrangedLists
<1>5. d = [k \in DOMAIN ids |-> [id |-> ids[k], ver |-> VerIn(w, g, ids[k])]]
  BY DEF DirtyPages
<1> HIDE DEF S, ids, d, n
<1>6. DOMAIN ids = 1 .. n
  BY <1>4
<1>7. \A k \in 1 .. n : d[k].id = ids[k] /\ d[k].ver = VerIn(w, g, ids[k])
  BY <1>5, <1>6
<1>8. Len(d) = n
  <2>1. DOMAIN d = 1 .. n /\ DOMAIN d = 1 .. Len(d) /\ Len(d) \in Nat
    BY <1>2, <1>5, <1>6, LenProperties
  <2> QED
    BY <1>1, <2>1
<1>9. \A k, l \in 1 .. n : k < l => ids[k] < ids[l]
  BY <1>4 DEF Rising
<1>10. \A k \in 1 .. n : ids[k] \in S
  BY <1>4
<1> QED
  BY <1>2, <1>4, <1>7, <1>8, <1>9, <1>10 DEF Listed, S, d

\* The dirty pages written behind the others: as far as it has come, the block finds
\* for each page what it found before or what is new.
LEMMA AppendedIs ==
  ASSUME NEW w \in Work, Ends(w.bufs), NEW g \in Groups, Solid(w, g), NEW d, d = DirtyPages(w, g),
         NEW c \in Block, c.pages = w.home[g].pages \o d
  PROVE  /\ Laid(c) /\ \A id \in Ids : BestVer(c, id) = Content(w, g, id)
         /\ \A q \in Block : q.pages \in Partial(w.home[g].pages, d) =>
              /\ Laid(q)
              /\ \A id \in Ids : BestVer(q, id) \in {BestVer(w.home[g], id), Content(w, g, id)}
<1> DEFINE b == w.home[g]
           D == DirtyIds(w, g)
           m == Len(b.pages)
           cp == c.pages
<1>1. b \in Block /\ b.pages \in Seq(PageSet) /\ m \in Nat /\ Laid(b)
  BY HomeAt, BlockAt DEF Solid
<1>2. Listed(d, w, g)
  BY DirtyPagesAre
<1>3. d \in Seq(PageSet) /\ Len(d) \in Nat
  BY <1>2, LenProperties DEF Listed
<1>4. /\ cp \in Seq(PageSet) /\ Len(cp) = m + Len(d)
      /\ \A i \in 1 .. m + Len(d) : cp[i] = IF i <= m THEN b.pages[i] ELSE d[i - m]
  BY <1>1, <1>3, ConcatProperties
<1>5. D \in SUBSET Ids /\ D \in SUBSET Nat
  BY DirtyIdsType, Sizes
<1>6. \A id \in D : VerIn(w, g, id) # 0 /\ Content(w, g, id) = VerIn(w, g, id)
  BY DEF Solid, Content
<1> HIDE DEF b, D, m, cp
<1>7. \A i \in 1 .. m : cp[i] = b.pages[i]
  BY <1>1, <1>3, <1>4
<1>8. ASSUME NEW i \in m + 1 .. Len(cp)
      PROVE  /\ i - m \in 1 .. Len(d) /\ cp[i] = d[i - m]
             /\ cp[i].id \in D /\ cp[i].ver = Content(w, g, cp[i].id) /\ cp[i].ver # 0
  <2>1. i - m \in 1 .. Len(d) /\ i \in 1 .. m + Len(d) /\ ~(i <= m)
    BY <1>1, <1>3, <1>4
  <2>2. cp[i] = d[i - m]
    BY <1>4, <2>1
  <2>3. d[i - m].id \in D /\ d[i - m].ver = VerIn(w, g, d[i - m].id)
    BY <1>2, <2>1 DEF Listed, D
  <2> QED
    BY <1>6, <2>1, <2>2, <2>3
<1>9. ASSUME NEW k \in 1 .. Len(d) PROVE m + k \in m + 1 .. Len(cp) /\ cp[m + k] = d[k]
  <2> DEFINE i == m + k
  <2>1. i \in m + 1 .. Len(cp) /\ i - m = k
    BY <1>1, <1>3, <1>4
  <2> HIDE DEF i
  <2>2. cp[i] = d[k]
    BY <1>8, <2>1
  <2> QED
    BY <2>1, <2>2 DEF i
<1>10. Distinct(cp, m)
  <2> SUFFICES ASSUME NEW i \in m + 1 .. Len(cp), NEW j \in m + 1 .. Len(cp), i < j
               PROVE  cp[i].id # cp[j].id
    BY <1>1 DEF Distinct
  <2> DEFINE k == i - m
             l == j - m
  <2>1. k \in 1 .. Len(d) /\ l \in 1 .. Len(d) /\ cp[i] = d[k] /\ cp[j] = d[l] /\ cp[i].id \in D /\ cp[j].id \in D
    BY <1>8
  <2>2. k < l
    BY <1>1
  <2> HIDE DEF k, l
  <2>3. d[k].id < d[l].id
    BY <1>2, <2>1, <2>2 DEF Listed
  <2> QED
    BY <1>5, <2>1, <2>3
<1>11. LaidOut(cp)
  <2> SUFFICES ASSUME NEW i \in 1 .. Len(cp), cp[i] # Dead
               PROVE  cp[i].ver # 0 /\ \A k \in 0 .. cp[i].id - 1 : \E j \in 1 .. i - 1 : cp[j].id = k
    BY DEF LaidOut
  <2>1. CASE i <= m
    <3>1. i \in 1 .. m /\ \A j \in 1 .. i - 1 : j \in 1 .. m
      BY <1>1, <2>1
    <3>2. cp[i] = b.pages[i] /\ \A j \in 1 .. i - 1 : cp[j] = b.pages[j]
      BY <1>7, <3>1
    <3>3. b.pages[i].ver # 0 /\ \A k \in 0 .. b.pages[i].id - 1 : \E j \in 1 .. i - 1 : b.pages[j].id = k
      <4>1. LaidOut(b.pages) /\ i \in 1 .. Len(b.pages) /\ b.pages[i] # Dead
        BY <1>1, <3>1, <3>2 DEF Laid, m
      <4> QED
        BY <4>1 DEF LaidOut
    <3> QED
      BY <3>2, <3>3
  <2>2. CASE ~(i <= m)
    <3>1. i \in m + 1 .. Len(cp)
      BY <1>1, <1>4, <1>3, <2>2
    <3> DEFINE l == i - m
    <3>2. l \in 1 .. Len(d) /\ cp[i] = d[l] /\ cp[i].id \in D /\ cp[i].ver # 0
          /\ cp[i].ver = Content(w, g, cp[i].id) /\ i = m + l
      BY <1>1, <1>8, <3>1
    <3> HIDE DEF l
    <3>3. ASSUME NEW k \in 0 .. cp[i].id - 1 PROVE \E j \in 1 .. i - 1 : cp[j].id = k
      <4>1. cp[i].id \in Ids /\ k \in Ids /\ cp[i].id \in Nat
        <5>1. cp[i].id \in Ids /\ cp[i].id \in Nat
          BY <1>5, <3>2
        <5>2. \A x, y \in Nat : x \in Ids /\ y < x => y \in Ids
          BY Sizes DEF Ids
        <5> HIDE DEF cp
        <5>3. k \in Nat /\ k < cp[i].id
          BY <5>1
        <5> QED
          BY <5>1, <5>2, <5>3
      <4>2. Content(w, g, k) # 0
        BY <3>2, <4>1 DEF Solid
      <4>3. CASE k \in D
        <5>1. PICK h \in 1 .. Len(d) : d[h].id = k
          BY <1>2, <4>3 DEF Listed, D
        <5>2. ~(d[l].id < d[h].id) /\ ~(h = l)
          BY <3>2, <4>1, <5>1
        <5>3. h < l
          BY <1>2, <1>3, <3>2, <5>1, <5>2 DEF Listed
        <5>4. m + h \in 1 .. i - 1
          BY <1>1, <1>3, <3>2, <5>3
        <5> QED
          BY <1>9, <5>1, <5>4
      <4>4. CASE k \notin D
        <5>1. BestVer(b, k) # 0
          BY <4>2, <4>4 DEF Content, D, b
        <5>2. PICK j \in 1 .. m : b.pages[j].id = k
          BY <1>1, <4>1, <5>1, FoundIs DEF m
        <5>3. j \in 1 .. i - 1
          BY <1>1, <3>1
        <5> QED
          BY <1>7, <5>2, <5>3
      <4> QED
        BY <4>3, <4>4
    <3> QED
      BY <3>2, <3>3
  <2> QED
    BY <2>1, <2>2
<1>12. Laid(c)
  BY <1>11 DEF Laid, cp
<1>13. Begins(b.pages, cp, m)
  BY <1>1, <1>3, <1>4, <1>7 DEF Begins, m
<1>14. ASSUME NEW q \in Block, NEW n, n \in m .. Len(cp), Begins(q.pages, cp, n), NEW id \in Ids
       PROVE  Laid(q) /\ BestVer(q, id) \in {BestVer(b, id), Content(w, g, id)}
  <2>0. n >= Len(b.pages)
    BY <1>1, <1>3, <1>4, <1>14 DEF m
  <2>1. Laid(q) /\ Finds(q, b, c, n, id)
    BY <1>1, <1>10, <1>12, <1>13, <1>14, <2>0, PartFinds DEF m, cp
  <2>2. ASSUME NEW i \in m + 1 .. n, cp[i].id = id PROVE BestVer(q, id) = Content(w, g, id)
    <3>1. i \in m + 1 .. Len(cp)
      BY <1>1, <1>3, <1>4, <1>14
    <3> QED
      BY <1>8, <2>1, <2>2, <3>1 DEF Finds, m, cp
  <2> QED
    BY <2>1, <2>2 DEF Finds, m, cp
<1>15. ASSUME NEW id \in Ids PROVE BestVer(c, id) = Content(w, g, id)
  <2> DEFINE n == Len(cp)
  <2>1. n \in m .. Len(cp) /\ n >= m
    BY <1>1, <1>3, <1>4
  <2>2. Begins(cp, cp, n)
    BY <1>1, <1>3, <1>4 DEF Begins
  <2>3. /\ \A i \in m + 1 .. n : cp[i].id = id => BestVer(c, id) = cp[i].ver
        /\ (\A i \in m + 1 .. n : cp[i].id # id) => BestVer(c, id) = BestVer(b, id)
    <3> HIDE DEF n
    <3>0. n >= Len(b.pages) /\ Begins(c.pages, c.pages, n)
      BY <2>1, <2>2 DEF m, cp
    <3>1. Finds(c, b, c, n, id)
      BY <1>1, <1>10, <1>12, <1>13, <3>0, PartFinds DEF m, cp
    <3> QED
      BY <3>1 DEF Finds, m, cp
  <2>4. CASE id \in D
    <3>1. PICK k \in 1 .. Len(d) : d[k].id = id
      BY <1>2, <2>4 DEF Listed, D
    <3>2. m + k \in m + 1 .. n /\ cp[m + k].id = id
      BY <1>9, <3>1
    <3> QED
      BY <1>8, <2>3, <3>2
  <2>5. CASE id \notin D
    <3>1. \A i \in m + 1 .. n : cp[i].id # id
      BY <1>8, <2>5
    <3> QED
      BY <2>3, <2>5, <3>1 DEF Content, D, b
  <2> QED
    BY <2>4, <2>5
<1>16. ASSUME NEW q \in Block, q.pages \in Partial(b.pages, d)
       PROVE  Laid(q) /\ \A id \in Ids : BestVer(q, id) \in {BestVer(b, id), Content(w, g, id)}
  <2>1. PICK n \in m .. m + Len(d) : Begins(q.pages, b.pages \o d, n)
    BY <1>1, <1>3, <1>16, PartialAre DEF m
  <2>2. n \in m .. Len(cp) /\ Begins(q.pages, cp, n)
    BY <1>4, <2>1 DEF cp, b
  <2>3. \E id : id \in Ids
    BY Sizes
  <2> QED
    BY <1>14, <2>2, <2>3
<1> QED
  BY <1>12, <1>15, <1>16 DEF b

\* The pages a cover writes: as far as it has come, the new block finds what the group
\* holds or nothing.
LEMMA CoveredIs ==
  ASSUME NEW w \in Work, Ends(w.bufs), NEW g \in Groups, Solid(w, g),
         0 \in DirtyIds(w, g) \cup IdsOf(w.home[g]),
         NEW c \in Block, c.pages = CoverPages(w, g)
  PROVE  /\ Laid(c) /\ \A id \in Ids : BestVer(c, id) = Content(w, g, id)
         /\ \A q \in Block : q.pages \in Partial(<<>>, CoverPages(w, g)) =>
              Laid(q) /\ \A id \in Ids : BestVer(q, id) \in {0, Content(w, g, id)}
<1> DEFINE n == CoverCount(w, g)
           T == {i \in Ids : i \notin DirtyIds(w, g) \cup IdsOf(w.home[g])} \cup {Pages}
           cp == c.pages
<1>1. n \in T /\ \A i \in T : n <= i
  <2>1. T \in SUBSET Nat /\ T # {}
    BY Sizes
  <2>2. n = Min(T)
    BY DEF CoverCount
  <2> HIDE DEF n, T
  <2> QED
    BY <2>1, <2>2, LeastIs
<1>2. n \in Nat /\ n <= Pages
  <2>1. Pages \in T /\ T \in SUBSET Nat
    BY Sizes
  <2> HIDE DEF n, T
  <2> QED
    BY <1>1, <2>1
<1>3. w.home[g] \in Block /\ Laid(w.home[g])
  BY HomeAt DEF Solid
<1>4. \A id \in Ids : Content(w, g, id) # 0 <=> id \in DirtyIds(w, g) \cup IdsOf(w.home[g])
  BY <1>3, ContentIs, FoundIs
<1>5. \A id \in Ids : id < n => Content(w, g, id) # 0
  <2> SUFFICES ASSUME NEW id \in Ids, id < n, Content(w, g, id) = 0 PROVE FALSE
    OBVIOUS
  <2>1. id \in T
    BY <1>4
  <2>2. n <= id
    BY <1>1, <2>1
  <2>3. id \in Nat
    BY Sizes
  <2> HIDE DEF n, T
  <2> QED
    BY <1>2, <2>2, <2>3
<1>6. \A id \in Ids : id >= n => Content(w, g, id) = 0
  <2> SUFFICES ASSUME NEW id \in Ids, id >= n, Content(w, g, id) # 0 PROVE FALSE
    OBVIOUS
  <2>1. id \in 0 .. Pages - 1 /\ Pages \in Nat
    BY Sizes DEF Ids
  <2>2. n \in Ids /\ n # Pages
    <3> HIDE DEF n
    <3> QED
      BY <1>2, <2>1 DEF Ids
  <2>3. n \notin DirtyIds(w, g) \cup IdsOf(w.home[g])
    BY <1>1, <2>2
  <2>4. Content(w, g, n) = 0
    BY <1>4, <2>2, <2>3
  <2>5. n = id \/ n \in 0 .. id - 1
    <3> HIDE DEF n
    <3> QED
      BY <1>2, <2>1
  <2> HIDE DEF n
  <2> QED
    BY <2>4, <2>5 DEF Solid
<1>7. cp = [k \in 1 .. n |-> [id |-> k - 1, ver |-> Content(w, g, k - 1)]]
  BY DEF CoverPages, Content
<1>8. cp \in Seq(PageSet) /\ Len(cp) = n /\ \A k \in 1 .. n : cp[k].id = k - 1 /\ cp[k].ver = Content(w, g, k - 1)
  <2>1. cp \in Seq(PageSet)
    BY BlockAt
  <2> HIDE DEF cp, n
  <2>2. DOMAIN cp = 1 .. n /\ DOMAIN cp = 1 .. Len(cp) /\ Len(cp) \in Nat
    BY <1>7, <2>1, LenProperties
  <2>3. Len(cp) = n
    BY <1>2, <2>2
  <2> QED
    BY <1>7, <2>1, <2>3
<1> HIDE DEF n, T, cp
<1>9. \A k \in 1 .. n : k - 1 \in Ids /\ cp[k].ver # 0
  <2> SUFFICES ASSUME NEW k \in 1 .. n PROVE k - 1 \in Ids /\ cp[k].ver # 0
    OBVIOUS
  <2>1. k - 1 \in Ids
    BY <1>2, Sizes DEF Ids
  <2>2. k - 1 < n
    BY <1>2
  <2> QED
    BY <1>5, <1>8, <2>1, <2>2
<1>10. LaidOut(cp)
  <2> SUFFICES ASSUME NEW i \in 1 .. Len(cp)
               PROVE  cp[i].ver # 0 /\ \A k \in 0 .. cp[i].id - 1 : \E j \in 1 .. i - 1 : cp[j].id = k
    BY DEF LaidOut
  <2>1. i \in 1 .. n /\ cp[i].id = i - 1 /\ cp[i].ver # 0
    BY <1>8, <1>9
  <2>2. ASSUME NEW k \in 0 .. i - 1 - 1 PROVE \E j \in 1 .. i - 1 : cp[j].id = k
    <3>1. k + 1 \in 1 .. i - 1 /\ k + 1 \in 1 .. n /\ k + 1 - 1 = k
      BY <1>2, <2>1
    <3> QED
      BY <1>8, <3>1
  <2> QED
    BY <2>1, <2>2
<1>11. Laid(c)
  BY <1>10 DEF Laid, cp
<1>12. ASSUME NEW q \in Block, NEW m \in 0 .. n, Begins(q.pages, cp, m), NEW id \in Ids
       PROVE  Laid(q) /\ BestVer(q, id) = IF id < m THEN Content(w, g, id) ELSE 0
  <2> DEFINE b == [ts |-> 0, pages |-> <<>>]
  <2>1. b \in Block /\ b.pages = <<>> /\ Len(b.pages) = 0 /\ b = NoBlock
    BY NoBlockType DEF NoBlock
  <2>2. Distinct(cp, 0)
    <3> SUFFICES ASSUME NEW i \in 1 .. n, NEW j \in 1 .. n, cp[i].id = cp[j].id PROVE i = j
      BY <1>8 DEF Distinct
    <3>1. cp[i].id = i - 1 /\ cp[j].id = j - 1
      BY <1>8
    <3>2. cp[i].id = cp[j].id /\ i \in Int /\ j \in Int
      BY <1>2
    <3>3. i - 1 = j - 1
      BY <3>1, <3>2
    <3> QED
      BY <3>2, <3>3
  <2>3. Begins(b.pages, cp, 0)
    BY <1>2, <1>8, <2>1 DEF Begins
  <2>4. BestVer(b, id) = 0
    BY <2>1, NoBlockHas
  <2> HIDE DEF b
  <2>5. Laid(q) /\ Finds(q, b, c, m, id)
    <3>1. m >= Len(b.pages) /\ Distinct(c.pages, Len(b.pages)) /\ Begins(b.pages, c.pages, Len(b.pages))
      BY <1>2, <2>1, <2>2, <2>3 DEF cp
    <3> QED
      BY <1>11, <1>12, <2>1, <3>1, PartFinds DEF cp
  <2>6. /\ \A i \in 1 .. m : cp[i].id = id => BestVer(q, id) = cp[i].ver
        /\ (\A i \in 1 .. m : cp[i].id # id) => BestVer(q, id) = 0
    BY <2>1, <2>4, <2>5 DEF Finds, cp
  <2>7. id \in Nat
    BY Sizes
  <2>8. CASE id < m
    <3> DEFINE l == id + 1
    <3>1. l \in 1 .. m /\ l \in 1 .. n /\ l - 1 = id
      BY <1>2, <2>7, <2>8
    <3> HIDE DEF l
    <3>2. cp[l].id = id /\ cp[l].ver = Content(w, g, id)
      BY <1>8, <3>1
    <3> QED
      BY <2>5, <2>6, <2>8, <3>1, <3>2
  <2>9. CASE ~(id < m)
    <3>1. ASSUME NEW i \in 1 .. m PROVE cp[i].id # id
      <4>1. i \in 1 .. n /\ i - 1 # id
        BY <1>2, <2>7, <2>9
      <4> QED
        BY <1>8, <4>1
    <3> QED
      BY <2>5, <2>6, <2>9, <3>1
  <2> QED
    BY <2>8, <2>9
<1>13. ASSUME NEW id \in Ids PROVE BestVer(c, id) = Content(w, g, id)
  <2>1. Begins(cp, cp, n) /\ n \in 0 .. n
    BY <1>2, <1>8 DEF Begins
  <2>2. BestVer(c, id) = IF id < n THEN Content(w, g, id) ELSE 0
    BY <1>12, <2>1 DEF cp
  <2>3. id < n \/ id >= n
    BY <1>2, Sizes
  <2> QED
    BY <1>6, <2>2, <2>3
<1>14. ASSUME NEW q \in Block, q.pages \in Partial(<<>>, cp)
       PROVE  Laid(q) /\ \A id \in Ids : BestVer(q, id) \in {0, Content(w, g, id)}
  <2>1. <<>> \in Seq(PageSet) /\ Len(<<>>) = 0 /\ <<>> \o cp = cp
    BY <1>8, EmptySeq, ConcatEmptySeq
  <2>2. PICK m \in 0 .. 0 + n : Begins(q.pages, cp, m)
    BY <1>8, <1>14, <2>1, PartialAre
  <2>3. m \in 0 .. n
    BY <1>2
  <2>4. \E id : id \in Ids
    BY Sizes
  <2> QED
    BY <1>12, <2>2, <2>3, <2>4
<1> QED
  BY <1>11, <1>13, <1>14 DEF cp

-----------------------------------------------------------------------------
(* What a restart keeps *)

LEMMA KeepNone == Keep({}) = NoBlock
BY DEF Keep, Valid

LEMMA KeepOne ==
  ASSUME NEW b, Headed(b)
  PROVE  Keep({b}) = b
<1>1. b.pages[1] # Dead
  BY DEF Headed, Dead
<1>2. Valid({b}) = {b}
  BY <1>1 DEF Valid, Headed
<1> QED
  BY <1>2 DEF Keep

\* Of a block and the one written to take its place, the old one is kept.
LEMMA KeepOld ==
  ASSUME NEW b \in Block, Headed(b), NEW n \in Block, n.ts = NextStamp(b.ts)
  PROVE  Keep({b, n}) = b
<1>1. b.pages[1] # Dead
  BY DEF Headed, Dead
<1>2. b.ts \in 0 .. 2
  BY BlockAt
<1>3. n.ts \in 0 .. 2 /\ n.ts # b.ts /\ ~Newer(b.ts, n.ts) /\ Newer(n.ts, b.ts)
  BY <1>2 DEF NextStamp, Newer
<1>4. n # b
  BY <1>3
<1>5. b \in Valid({b, n})
  BY <1>1 DEF Valid, Headed
<1>6. \A c \in Valid({b, n}) : c = b \/ c = n
  BY DEF Valid
<1>7. \A c \in Valid({b, n}) : c = b \/ ~Newer(b.ts, c.ts)
  BY <1>3, <1>6
<1>8. \A d \in Valid({b, n}) : (\A c \in Valid({b, n}) : c = d \/ ~Newer(d.ts, c.ts)) => d = b
  BY <1>3, <1>4, <1>5, <1>6
<1>9. Keep({b, n}) = CHOOSE d \in Valid({b, n}) : \A c \in Valid({b, n}) : c = d \/ ~Newer(d.ts, c.ts)
  BY <1>5 DEF Keep
<1> QED
  BY <1>5, <1>7, <1>8, <1>9

\* What is kept of a block alone.
LEMMA KeepAlone ==
  ASSUME NEW b
  PROVE  Keep({b}) \in {b, NoBlock}
BY DEF Keep, Valid

-----------------------------------------------------------------------------
(* Steps that change no content *)

\* the trees a restart may find, now or where power may have failed in the call
Homes(w) == {w.home} \cup {[g \in Groups |-> Keep(image[g])] : image \in w.cuts}
Trees(w) == {Tree(home) : home \in Homes(w)}
\* what can be found of a page, now or after a restart
Poss(w, g, id) == {Content(w, g, id)} \cup {BestVer(home[g], id) : home \in Homes(w)}

\* no page of g is missing in front of another one, neither here nor on what a
\* restart may find, and a clean buffer shows what is on the block
Tidy(w, g) ==
  /\ Solid(w, g)
  /\ \A home \in Homes(w) : Laid(home[g])
  /\ \A i \in 1 .. Buffers : w.bufs[i].mark = "valid" /\ w.bufs[i].g = g =>
       w.bufs[i].ver = BestVer(w.home[g], w.bufs[i].id)

\* without dirty pages the block of g is not written
Rests(w, x, g) ==
  DirtyIds(w, g) = {} =>
    DirtyIds(x, g) = {} /\ \A home \in Homes(x) : \E old \in Homes(w) : home[g] = old[g]

\* x has the pages of g that w has, and a restart finds nothing new, unless a torn
\* page of g may look free
Same(w, x, g) ==
  /\ Rests(w, x, g)
  /\ Tidy(w, g) /\ g \notin stale =>
       /\ Tidy(x, g)
       /\ \A id \in Ids : Content(x, g, id) = Content(w, g, id) /\ Poss(x, g, id) \in SUBSET Poss(w, g, id)
AllSame(w, x) == \A g \in Groups : Same(w, x, g)
Calm(w, x) == AllSame(w, x) /\ Trees(x) \in SUBSET Trees(w)

LEMMA SameThen ==
  ASSUME NEW w, NEW x, NEW y, NEW g, Same(w, x, g), Same(x, y, g)
  PROVE  Same(w, y, g)
<1>1. Rests(w, y, g)
  BY DEF Same, Rests
<1> QED
  BY <1>1 DEF Same
LEMMA SameSelf ==
  ASSUME NEW w, NEW g
  PROVE  Same(w, w, g)
BY DEF Same, Rests
LEMMA CalmThen ==
  ASSUME NEW w, NEW x, NEW y, Calm(w, x), Calm(x, y)
  PROVE  Calm(w, y)
BY SameThen DEF Calm, AllSame

LEMMA CalmSelf ==
  ASSUME NEW w
  PROVE  Calm(w, w)
BY SameSelf DEF Calm, AllSame

\* The version of a dirty page is that of its buffer.
LEMMA VerIs ==
  ASSUME NEW w \in Work, Ends(w.bufs), NEW i \in 1 .. Buffers, w.bufs[i].mark = "dirty"
  PROVE  /\ w.bufs[i].id \in DirtyIds(w, w.bufs[i].g)
         /\ VerIn(w, w.bufs[i].g, w.bufs[i].id) = w.bufs[i].ver
<1> DEFINE g == w.bufs[i].g
           id == w.bufs[i].id
           j == CHOOSE k \in DirtyOf(w, g) : w.bufs[k].id = id
<1>1. DOMAIN w.bufs = 1 .. Buffers /\ Single(w.bufs)
  BY BufAt DEF Ends
<1>2. i \in DirtyOf(w, g) /\ w.bufs[i].id = id
  BY <1>1 DEF DirtyOf
<1>3. j \in DirtyOf(w, g) /\ w.bufs[j].id = id
  BY <1>2
<1>4. j \in 1 .. Buffers /\ w.bufs[j].mark = "dirty" /\ w.bufs[j].g = g
  BY <1>1, <1>3 DEF DirtyOf
<1>5. VerIn(w, g, id) = w.bufs[j].ver
  BY DEF VerIn
<1> HIDE DEF j
<1>6. i = j
  BY <1>1, <1>3, <1>4 DEF Single, Bound
<1>7. id \in DirtyIds(w, g)
  BY <1>2 DEF DirtyIds
<1> QED
  BY <1>5, <1>6, <1>7

\* A dirty page has its buffer.
LEMMA DirtyBuf ==
  ASSUME NEW w \in Work, Ends(w.bufs), NEW g, NEW id \in DirtyIds(w, g)
  PROVE  \E i \in 1 .. Buffers : /\ w.bufs[i].mark = "dirty" /\ w.bufs[i].g = g /\ w.bufs[i].id = id
                                 /\ w.bufs[i].ver = VerIn(w, g, id)
<1>1. PICK i \in 1 .. Buffers : w.bufs[i].mark = "dirty" /\ w.bufs[i].g = g /\ w.bufs[i].id = id
  BY DirtyIdsAre
<1> QED
  BY <1>1, VerIs

\* each dirty buffer of g has one like it
Shown(w, x, g) ==
  \A i \in 1 .. Buffers : w.bufs[i].mark = "dirty" /\ w.bufs[i].g = g =>
    \E j \in 1 .. Buffers : /\ x.bufs[j].mark = "dirty" /\ x.bufs[j].g = g
                            /\ x.bufs[j].id = w.bufs[i].id /\ x.bufs[j].ver = w.bufs[i].ver

LEMMA ShownIs ==
  ASSUME NEW w \in Work, Ends(w.bufs), NEW x \in Work, Ends(x.bufs), NEW g, Shown(w, x, g),
         NEW id \in DirtyIds(w, g)
  PROVE  id \in DirtyIds(x, g) /\ VerIn(x, g, id) = VerIn(w, g, id)
<1>1. PICK i \in 1 .. Buffers : /\ w.bufs[i].mark = "dirty" /\ w.bufs[i].g = g /\ w.bufs[i].id = id
                                /\ w.bufs[i].ver = VerIn(w, g, id)
  BY DirtyBuf
<1>2. PICK j \in 1 .. Buffers : /\ x.bufs[j].mark = "dirty" /\ x.bufs[j].g = g
                                /\ x.bufs[j].id = id /\ x.bufs[j].ver = VerIn(w, g, id)
  BY <1>1 DEF Shown
<1> QED
  BY <1>2, VerIs

\* The dirty pages of g are the same.
LEMMA SameDirt ==
  ASSUME NEW w \in Work, Ends(w.bufs), NEW x \in Work, Ends(x.bufs), NEW g, Shown(w, x, g), Shown(x, w, g)
  PROVE  DirtyIds(x, g) = DirtyIds(w, g) /\ \A id \in DirtyIds(w, g) : VerIn(x, g, id) = VerIn(w, g, id)
BY ShownIs

\* a clean buffer of g was there, or shows what is on the block
Shows(w, x, g) ==
  \A j \in 1 .. Buffers : x.bufs[j].mark = "valid" /\ x.bufs[j].g = g =>
    \/ \E i \in 1 .. Buffers : /\ w.bufs[i].mark = "valid" /\ w.bufs[i].g = g
                               /\ w.bufs[i].id = x.bufs[j].id /\ w.bufs[i].ver = x.bufs[j].ver
    \/ x.bufs[j].ver = BestVer(x.home[g], x.bufs[j].id)

\* A group whose block stays, and whose buffers are like those of before.
LEMMA SameIf ==
  ASSUME NEW w \in Work, Ends(w.bufs), NEW x \in Work, Ends(x.bufs), NEW g \in Groups,
         Shown(w, x, g), Shown(x, w, g), Shows(w, x, g), x.home[g] = w.home[g],
         \A home \in Homes(x) : \E old \in Homes(w) : home[g] = old[g]
  PROVE  Same(w, x, g)
<1>1. DirtyIds(x, g) = DirtyIds(w, g) /\ \A id \in DirtyIds(w, g) : VerIn(x, g, id) = VerIn(w, g, id)
  BY SameDirt
<1> SUFFICES ASSUME Tidy(w, g)
             PROVE  /\ Tidy(x, g)
                    /\ \A id \in Ids : /\ Content(x, g, id) = Content(w, g, id)
                                       /\ Poss(x, g, id) \in SUBSET Poss(w, g, id)
  BY <1>1 DEF Same, Rests
<1>2. \A id : Content(x, g, id) = Content(w, g, id)
  BY <1>1 DEF Content
<1>3. Solid(x, g)
  BY <1>1, <1>2 DEF Tidy, Solid
<1>4. \A home \in Homes(x) : Laid(home[g])
  BY DEF Tidy
<1>5. \A i \in 1 .. Buffers : x.bufs[i].mark = "valid" /\ x.bufs[i].g = g =>
        x.bufs[i].ver = BestVer(x.home[g], x.bufs[i].id)
  BY DEF Tidy, Shows
<1>6. \A id \in Ids : Poss(x, g, id) \in SUBSET Poss(w, g, id)
  BY <1>2 DEF Poss
<1> QED
  BY <1>2, <1>3, <1>4, <1>5, <1>6 DEF Tidy

LEMMA KeptShown ==
  ASSUME NEW w \in Work, Ends(w.bufs), NEW x \in Work, Ends(x.bufs), NEW g, Kept(w.bufs, x.bufs, g),
         NEW h, h # g
  PROVE  Shown(w, x, h) /\ Shown(x, w, h) /\ Shows(w, x, h)
<1>1. \A b : b.g = h => CleanBuf(b, g) = b
  BY DEF CleanBuf
<1>2. \A i \in 1 .. Buffers : w.bufs[i] \in Buffer
  BY BufAt
<1>3. ASSUME NEW j \in 1 .. Buffers, x.bufs[j].mark # "empty", x.bufs[j].g = h
      PROVE  \E i \in 1 .. Buffers : x.bufs[j] = w.bufs[i]
  <2>1. x.bufs[j] # SpareBuf
    BY <1>3 DEF SpareBuf
  <2>2. PICK i \in 1 .. Buffers : x.bufs[j] = CleanBuf(w.bufs[i], g)
    BY <2>1 DEF Kept
  <2>3. w.bufs[i].g = h
    BY <1>2, <1>3, <2>2, CleanType
  <2> QED
    BY <1>1, <2>2, <2>3
<1>4. Shown(x, w, h)
  <2> SUFFICES ASSUME NEW j \in 1 .. Buffers, x.bufs[j].mark = "dirty", x.bufs[j].g = h
               PROVE  \E i \in 1 .. Buffers : /\ w.bufs[i].mark = "dirty" /\ w.bufs[i].g = h
                                              /\ w.bufs[i].id = x.bufs[j].id /\ w.bufs[i].ver = x.bufs[j].ver
    BY DEF Shown
  <2>1. PICK i \in 1 .. Buffers : x.bufs[j] = w.bufs[i]
    BY <1>3
  <2> QED
    BY <2>1
<1>5. Shows(w, x, h)
  <2> SUFFICES ASSUME NEW j \in 1 .. Buffers, x.bufs[j].mark = "valid", x.bufs[j].g = h
               PROVE  \E i \in 1 .. Buffers : /\ w.bufs[i].mark = "valid" /\ w.bufs[i].g = h
                                              /\ w.bufs[i].id = x.bufs[j].id /\ w.bufs[i].ver = x.bufs[j].ver
    BY DEF Shows
  <2>1. PICK i \in 1 .. Buffers : x.bufs[j] = w.bufs[i]
    BY <1>3
  <2> QED
    BY <2>1
<1>6. Shown(w, x, h)
  <2> SUFFICES ASSUME NEW i \in 1 .. Buffers, w.bufs[i].mark = "dirty", w.bufs[i].g = h
               PROVE  \E j \in 1 .. Buffers : /\ x.bufs[j].mark = "dirty" /\ x.bufs[j].g = h
                                              /\ x.bufs[j].id = w.bufs[i].id /\ x.bufs[j].ver = w.bufs[i].ver
    BY DEF Shown
  <2>1. PICK j \in 1 .. Buffers : x.bufs[j] = CleanBuf(w.bufs[i], g)
    BY DEF Kept, Used
  <2>2. x.bufs[j] = w.bufs[i]
    BY <1>1, <2>1
  <2> QED
    BY <2>2
<1> QED
  BY <1>4, <1>5, <1>6

\* Of the group that was flushed no buffer is dirty, and the clean ones were in use.
LEMMA KeptClean ==
  ASSUME NEW w \in Work, Ends(w.bufs), NEW x \in Work, Ends(x.bufs), NEW g, Kept(w.bufs, x.bufs, g)
  PROVE  /\ DirtyIds(x, g) = {}
         /\ \A j \in 1 .. Buffers : x.bufs[j].mark # "empty" /\ x.bufs[j].g = g =>
              \E i \in 1 .. Buffers : /\ w.bufs[i].mark # "empty" /\ w.bufs[i].g = g
                                      /\ w.bufs[i].id = x.bufs[j].id /\ w.bufs[i].ver = x.bufs[j].ver
<1>1. \A i \in 1 .. Buffers : w.bufs[i] \in Buffer
  BY BufAt
<1>2. ASSUME NEW j \in 1 .. Buffers, x.bufs[j].mark # "empty", x.bufs[j].g = g
      PROVE  /\ x.bufs[j].mark # "dirty"
             /\ \E i \in 1 .. Buffers : /\ w.bufs[i].mark # "empty" /\ w.bufs[i].g = g
                                        /\ w.bufs[i].id = x.bufs[j].id /\ w.bufs[i].ver = x.bufs[j].ver
  <2>1. x.bufs[j] # SpareBuf
    BY <1>2 DEF SpareBuf
  <2>2. PICK i \in 1 .. Buffers : x.bufs[j] = CleanBuf(w.bufs[i], g)
    BY <2>1 DEF Kept
  <2>3. PICK b \in Buffer : b = w.bufs[i]
    BY <1>1
  <2>4. /\ x.bufs[j].g = b.g /\ x.bufs[j].id = b.id
        /\ x.bufs[j].mark = IF b.mark = "dirty" /\ b.g = g THEN "valid" ELSE b.mark
    BY <2>2, <2>3, CleanType
  <2>5. x.bufs[j].ver = b.ver
    BY <2>2, <2>3 DEF CleanBuf, Buffer
  <2> QED
    BY <1>2, <2>3, <2>4, <2>5
<1>3. DirtyIds(x, g) = {}
  <2> SUFFICES ASSUME NEW id \in DirtyIds(x, g) PROVE FALSE
    OBVIOUS
  <2>1. PICK j \in 1 .. Buffers : x.bufs[j].mark = "dirty" /\ x.bufs[j].g = g
    BY DirtyIdsAre
  <2> QED
    BY <1>2, <2>1
<1> QED
  BY <1>2, <1>3

\* What a restart keeps of a flash on which g has the blocks S.
LEMMA ClaimedKeeps ==
  ASSUME NEW w \in Work, HeadsInv(w), NEW g \in Groups, NEW S, NEW h \in Groups
  PROVE  Keep(Claimed(w, g, S)[h]) = IF h = g THEN Keep(S) ELSE w.home[h]
<1>1. Claimed(w, g, S)[h] = IF h = g THEN S ELSE IF w.home[h] = NoBlock THEN {} ELSE {w.home[h]}
  BY DEF Claimed, Image
<1>2. w.home[h] # NoBlock => Headed(w.home[h])
  BY DEF HeadsInv, Tree
<1> QED
  BY <1>1, <1>2, KeepNone, KeepOne

\* n is a block for what g holds, and what a restart keeps of the blocks SS, which
\* power cuts leave, is part of it
Renews(w, g, n, SS) ==
  Solid(w, g) /\ g \notin stale =>
    /\ Laid(n) /\ \A id \in Ids : BestVer(n, id) = Content(w, g, id)
    /\ \A S \in SS : /\ Laid(Keep(S))
                     /\ \A id \in Ids : BestVer(Keep(S), id) \in {Content(w, g, id), BestVer(w.home[g], id)}

\* what a restart may find of x: g is where it was or in one of SS
Found3(w, x, g, SS) ==
  \A home \in Homes(x) :
    \/ home = x.home \/ home \in Homes(w)
    \/ \E S \in SS : home[g] = Keep(S) /\ \A h \in Groups : h # g => home[h] = w.home[h]

LEMMA RehomedFound ==
  ASSUME NEW w \in Work, HeadsInv(w), NEW x, NEW g \in Groups, NEW n, NEW SS, Rehomed(w, x, g, n, SS)
  PROVE  Found3(w, x, g, SS)
<1>1. ASSUME NEW home \in Homes(x), home # x.home
      PROVE  \/ home \in Homes(w)
             \/ \E S \in SS : /\ home[g] = Keep(S)
                              /\ \A h \in Groups : h # g => home[h] = w.home[h]
  <2>1. PICK image \in x.cuts : home = [h \in Groups |-> Keep(image[h])]
    BY <1>1 DEF Homes
  <2>2. CASE image \in w.cuts
    BY <2>1, <2>2 DEF Homes
  <2>3. CASE \E S \in SS : image = Claimed(w, g, S)
    <3>1. PICK S \in SS : image = Claimed(w, g, S)
      BY <2>3
    <3>2. \A h \in Groups : home[h] = IF h = g THEN Keep(S) ELSE w.home[h]
      BY <2>1, <3>1, ClaimedKeeps
    <3> QED
      BY <3>2
  <2> QED
    BY <2>1, <2>2, <2>3 DEF Rehomed
<1> QED
  BY <1>1 DEF Found3

\* what the flush of a group leaves of the others
Beside(w, x, g) == /\ \A h \in Groups : h # g => Same(w, x, h)
                   /\ Trees(x) \in SUBSET (Trees(w) \cup {Tree(w.home) \cup {g}})

LEMMA BesideIs ==
  ASSUME NEW w \in Work, Ends(w.bufs), HeadsInv(w), NEW x \in Work, Ends(x.bufs), NEW g \in Groups,
         Kept(w.bufs, x.bufs, g), NEW n, NEW SS, Rehomed(w, x, g, n, SS),
         \A S \in SS : w.home[g] # NoBlock => Keep(S) # NoBlock
  PROVE  Beside(w, x, g)
<1>1. w.home \in [Groups -> Block] /\ n # NoBlock /\ x.home = [w.home EXCEPT ![g] = n]
  BY DEF Work, Rehomed
<1>2. /\ x.home[g] = n /\ \A h \in Groups : h # g => x.home[h] = w.home[h]
      /\ Tree(x.home) = Tree(w.home) \cup {g}
  BY <1>1 DEF Tree
<1>3. Found3(w, x, g, SS)
  BY RehomedFound
<1>4. w.home \in Homes(w)
  BY DEF Homes
<1>5. ASSUME NEW h \in Groups, h # g PROVE Same(w, x, h)
  <2>1. \A home \in Homes(x) : \E old \in Homes(w) : home[h] = old[h]
    BY <1>2, <1>3, <1>4, <1>5 DEF Found3
  <2>2. Shown(w, x, h) /\ Shown(x, w, h) /\ Shows(w, x, h) /\ x.home[h] = w.home[h]
    BY <1>2, <1>5, KeptShown
  <2> QED
    BY <2>1, <2>2, SameIf
<1>6. ASSUME NEW home \in Homes(x) PROVE Tree(home) \in Trees(w) \cup {Tree(w.home) \cup {g}}
  <2>1. CASE home = x.home
    BY <1>2, <2>1
  <2>2. CASE home \in Homes(w)
    BY <2>2 DEF Trees
  <2>3. CASE \E S \in SS : home[g] = Keep(S) /\ \A h \in Groups : h # g => home[h] = w.home[h]
    <3>1. PICK S \in SS : home[g] = Keep(S) /\ \A h \in Groups : h # g => home[h] = w.home[h]
      BY <2>3
    <3>2. CASE Keep(S) = NoBlock
      <4>1. Tree(home) = Tree(w.home)
        BY <3>1, <3>2 DEF Tree
      <4> QED
        BY <1>4, <4>1 DEF Trees
    <3>3. CASE Keep(S) # NoBlock
      <4>1. Tree(home) = Tree(w.home) \cup {g}
        BY <3>1, <3>3 DEF Tree
      <4> QED
        BY <4>1
    <3> QED
      BY <3>2, <3>3
  <2> QED
    BY <1>3, <2>1, <2>2, <2>3 DEF Found3
<1> QED
  BY <1>5, <1>6 DEF Beside, Trees

\* A group is flushed to block n.
LEMMA RenewedIs ==
  ASSUME NEW w \in Work, Ends(w.bufs), HeadsInv(w), NEW x \in Work, Ends(x.bufs), NEW g \in Groups,
         Kept(w.bufs, x.bufs, g), NEW n, NEW SS, Rehomed(w, x, g, n, SS), Renews(w, g, n, SS),
         DirtyIds(w, g) # {}
  PROVE  Same(w, x, g)
<1>1. x.home = [w.home EXCEPT ![g] = n] /\ w.home \in [Groups -> Block]
  BY DEF Rehomed, Work
<1>2. x.home[g] = n
  BY <1>1
<1>3. ASSUME NEW home \in Homes(x)
      PROVE  home = x.home \/ home \in Homes(w) \/ \E S \in SS : home[g] = Keep(S)
  <2>1. Found3(w, x, g, SS)
    BY RehomedFound
  <2> QED
    BY <2>1 DEF Found3
<1>4. w.home \in Homes(w)
  BY DEF Homes
<1> SUFFICES ASSUME Tidy(w, g), g \notin stale
             PROVE  /\ Tidy(x, g)
                    /\ \A id \in Ids : /\ Content(x, g, id) = Content(w, g, id)
                                       /\ Poss(x, g, id) \in SUBSET Poss(w, g, id)
  BY DEF Same, Rests
<1>5. /\ Laid(n) /\ \A id \in Ids : BestVer(n, id) = Content(w, g, id)
      /\ \A S \in SS : /\ Laid(Keep(S))
                       /\ \A id \in Ids : BestVer(Keep(S), id) \in {Content(w, g, id), BestVer(w.home[g], id)}
  BY DEF Renews, Tidy
<1>6. /\ DirtyIds(x, g) = {}
      /\ \A j \in 1 .. Buffers : x.bufs[j].mark # "empty" /\ x.bufs[j].g = g =>
           \E i \in 1 .. Buffers : /\ w.bufs[i].mark # "empty" /\ w.bufs[i].g = g
                                   /\ w.bufs[i].id = x.bufs[j].id /\ w.bufs[i].ver = x.bufs[j].ver
  BY KeptClean
<1>7. \A id \in Ids : Content(x, g, id) = Content(w, g, id)
  BY <1>2, <1>5, <1>6 DEF Content
<1>8. Solid(x, g)
  <2>1. \A id \in Ids : \A k \in 0 .. id - 1 : k \in Ids
    BY Sizes DEF Ids
  <2> QED
    BY <1>2, <1>5, <1>6, <1>7, <2>1 DEF Solid, Tidy
<1>9. ASSUME NEW home \in Homes(x) PROVE Laid(home[g])
  <2>1. CASE home = x.home
    BY <1>2, <1>5, <2>1
  <2>2. CASE home \in Homes(w)
    BY <2>2 DEF Tidy
  <2>3. CASE \E S \in SS : home[g] = Keep(S)
    BY <1>5, <2>3
  <2> QED
    BY <1>3, <2>1, <2>2, <2>3
<1>10. ASSUME NEW j \in 1 .. Buffers, x.bufs[j].mark = "valid", x.bufs[j].g = g
      PROVE  x.bufs[j].ver = BestVer(x.home[g], x.bufs[j].id)
  <2>1. PICK i \in 1 .. Buffers : /\ w.bufs[i].mark # "empty" /\ w.bufs[i].g = g
                                  /\ w.bufs[i].id = x.bufs[j].id /\ w.bufs[i].ver = x.bufs[j].ver
    BY <1>6, <1>10
  <2>2. w.bufs[i] \in Buffer
    BY BufAt
  <2>3. w.bufs[i].id \in Ids /\ w.bufs[i].mark \in {"valid", "dirty"}
    BY <2>1, <2>2 DEF Buffer
  <2>4. CASE w.bufs[i].mark = "dirty"
    <3>1. w.bufs[i].id \in DirtyIds(w, g) /\ VerIn(w, g, w.bufs[i].id) = w.bufs[i].ver
      BY <2>1, <2>4, VerIs
    <3>2. Content(w, g, w.bufs[i].id) = w.bufs[i].ver
      BY <3>1 DEF Content
    <3> QED
      BY <1>2, <1>5, <2>1, <2>3, <3>2
  <2>5. CASE w.bufs[i].mark = "valid"
    <3>1. w.bufs[i].ver = BestVer(w.home[g], w.bufs[i].id)
      BY <2>1, <2>5 DEF Tidy
    <3>2. w.bufs[i].id \notin DirtyIds(w, g)
      <4> SUFFICES ASSUME w.bufs[i].id \in DirtyIds(w, g) PROVE FALSE
        OBVIOUS
      <4>1. PICK k \in 1 .. Buffers : w.bufs[k].mark = "dirty" /\ w.bufs[k].g = g /\ w.bufs[k].id = w.bufs[i].id
        BY DirtyIdsAre
      <4> QED
        BY <2>1, <2>5, <4>1 DEF Ends, Single, Bound
    <3>3. Content(w, g, w.bufs[i].id) = w.bufs[i].ver
      BY <3>1, <3>2 DEF Content
    <3> QED
      BY <1>2, <1>5, <2>1, <2>3, <3>3
  <2> QED
    BY <2>3, <2>4, <2>5
<1>11. ASSUME NEW id \in Ids PROVE Poss(x, g, id) \in SUBSET Poss(w, g, id)
  <2>1. /\ Content(w, g, id) \in Poss(w, g, id)
        /\ \A home \in Homes(w) : BestVer(home[g], id) \in Poss(w, g, id)
    BY DEF Poss
  <2>2. ASSUME NEW home \in Homes(x) PROVE BestVer(home[g], id) \in Poss(w, g, id)
    <3>1. CASE home = x.home
      BY <1>2, <1>5, <2>1, <3>1
    <3>2. CASE home \in Homes(w)
      BY <2>1, <3>2
    <3>3. CASE \E S \in SS : home[g] = Keep(S)
      BY <1>4, <1>5, <2>1, <3>3
    <3> QED
      BY <1>3, <3>1, <3>2, <3>3
  <2> QED
    BY <1>7, <2>1, <2>2 DEF Poss
<1> QED
  BY <1>7, <1>8, <1>9, <1>10, <1>11 DEF Tidy

\* Appending the dirty pages of a group changes no content.
LEMMA AppendCalm ==
  ASSUME NEW w, Sound(w), NEW g \in Tree(w.home), DirtyIds(w, g) # {}, NEW x, x = Append2Block(w, g)
  PROVE  Calm(w, x)
<1> DEFINE b == w.home[g]
           u == UsedPages(w, g)
           d == Programmed(w, g)
           n == Appended(w, g)
<1>1. /\ w \in Work /\ Ends(w.bufs) /\ HeadsInv(w) /\ g \in Groups
      /\ b \in Block /\ Headed(b) /\ b # NoBlock
  BY HomeAt DEF Sound, Body, HeadsInv, Tree
<1>2. /\ x \in Work /\ Ends(x.bufs) /\ Kept(w.bufs, x.bufs, g)
      /\ Rehomed(w, x, g, n, Appending(w, g))
  BY AppendIs DEF Sound, Body, Flushed
<1>3. /\ u \in Seq(PageSet) /\ d \in Seq(PageSet) /\ u # <<>> /\ u[1].id = 0
      /\ Len(u) \in Nat /\ Len(u) >= 1
      /\ ~LooksFree(w, g) => u = b.pages /\ d = DirtyPages(w, g)
  BY <1>1, UsedIs, EmptySeq
<1>4. n \in Block /\ n.pages = u \o d
  BY <1>1, <1>2 DEF Rehomed, Appended, Block
<1>11. PagesLeft(w, g) = {b.pages} \cup (Partial(u, d) \ {u})
  BY DEF PagesLeft
<1> HIDE DEF b, u, d, n
<1>5. ASSUME NEW S \in Appending(w, g)
      PROVE  \E q \in Block : /\ S = {q} /\ (q = b \/ q.pages \in Partial(u, d))
                              /\ Keep(S) = q /\ q # NoBlock
  <2>1. PICK p \in PagesLeft(w, g) : S = {[b EXCEPT !.pages = p]}
    BY <1>5 DEF Appending, b
  <2>2. CASE p = b.pages
    <3>1. [b EXCEPT !.pages = p] = b
      BY <1>1, <2>2 DEF Block
    <3> QED
      BY <1>1, <2>1, <3>1, KeepOne
  <2>3. CASE p \in Partial(u, d)
    <3>1. p \in Seq(PageSet)
      BY <1>3, <2>3, PartialAre
    <3>2. PICK q : q = [b EXCEPT !.pages = p]
      OBVIOUS
    <3>3. q \in Block /\ q.pages = p
      BY <1>1, <3>1, <3>2 DEF Block
    <3>4. PICK m \in Len(u) .. Len(u) + Len(d) : Begins(p, u \o d, m)
      BY <1>3, <2>3, PartialAre
    <3>5. Len(p) \in Nat /\ Len(p) >= 1 /\ Len(d) \in Nat /\ m \in Int /\ m >= 1
      BY <1>3, <3>1, <3>4, LenProperties DEF Begins
    <3>6. p[1] = (u \o d)[1]
      BY <3>4, <3>5 DEF Begins
    <3>7. (u \o d)[1] = u[1]
      BY <1>3, <3>5, ConcatProperties
    <3>8. p # <<>>
      BY <3>1, <3>5, EmptySeq
    <3>9. Headed(q)
      BY <1>3, <3>3, <3>6, <3>7, <3>8 DEF Headed
    <3>10. Keep(S) = q
      BY <2>1, <3>2, <3>9, KeepOne
    <3>11. q # NoBlock
      BY <3>9 DEF Headed, NoBlock
    <3> QED
      BY <2>1, <2>3, <3>2, <3>3, <3>10, <3>11
  <2> QED
    BY <1>11, <2>2, <2>3
<1>6. \A S \in Appending(w, g) : Keep(S) # NoBlock
  BY <1>5
<1>7. Renews(w, g, n, Appending(w, g))
  <2> SUFFICES ASSUME Solid(w, g), g \notin stale
               PROVE  /\ Laid(n) /\ \A id \in Ids : BestVer(n, id) = Content(w, g, id)
                      /\ \A S \in Appending(w, g) :
                           /\ Laid(Keep(S))
                           /\ \A id \in Ids : BestVer(Keep(S), id) \in {Content(w, g, id), BestVer(w.home[g], id)}
    BY DEF Renews
  <2>1. u = b.pages /\ d = DirtyPages(w, g) /\ n.pages = w.home[g].pages \o d
    BY <1>3, <1>4 DEF LooksFree, b
  <2>2. /\ Laid(n) /\ \A id \in Ids : BestVer(n, id) = Content(w, g, id)
        /\ \A q \in Block : q.pages \in Partial(w.home[g].pages, d) =>
               /\ Laid(q)
               /\ \A id \in Ids : BestVer(q, id) \in {BestVer(w.home[g], id), Content(w, g, id)}
    BY <1>1, <1>4, <2>1, AppendedIs
  <2>3. ASSUME NEW S \in Appending(w, g)
        PROVE  /\ Laid(Keep(S))
               /\ \A id \in Ids : BestVer(Keep(S), id) \in {Content(w, g, id), BestVer(w.home[g], id)}
    <3>1. PICK q \in Block : /\ q = w.home[g] \/ q.pages \in Partial(w.home[g].pages, d)
                             /\ Keep(S) = q
      BY <1>5, <2>1 DEF b
    <3>2. Laid(w.home[g])
      BY DEF Solid
    <3> QED
      BY <2>2, <3>1, <3>2
  <2> QED
    BY <2>2, <2>3
<1>8. Same(w, x, g)
  BY <1>1, <1>2, <1>7, RenewedIs
<1>9. Beside(w, x, g)
  BY <1>1, <1>2, <1>6, BesideIs
<1>10. Tree(w.home) \cup {g} \in Trees(w)
  <2>1. Tree(w.home) \cup {g} = Tree(w.home)
    OBVIOUS
  <2> QED
    BY <2>1 DEF Trees, Homes
<1> QED
  BY <1>8, <1>9, <1>10 DEF Calm, AllSame, Beside

\* Of the blocks a cut leaves in a cover, the old one is kept as long as it is there.
LEMMA CoveringKeeps ==
  ASSUME NEW w \in Work, HeadsInv(w), NEW g \in Groups, NEW pages, Leading(pages),
         NEW S \in Covering(w, g, pages)
  PROVE  \/ w.home[g] # NoBlock /\ Keep(S) = w.home[g]
         \/ Keep(S) = CoverOf(w, g, pages) /\ CoverOf(w, g, pages) # NoBlock
         \/ /\ w.home[g] = NoBlock
            /\ Keep(S) = NoBlock \/ \E q \in Block : q.pages \in Partial(<<>>, pages) /\ Keep(S) = q
<1> DEFINE b == w.home[g]
           n == CoverOf(w, g, pages)
<1>1. /\ b \in Block /\ (b # NoBlock => Headed(b)) /\ NextStamp(b.ts) \in 0 .. 2
      /\ pages \in Seq(PageSet) /\ pages # <<>> /\ pages[1].id = 0
  BY HomeAt, BlockAt DEF HeadsInv, Tree, Leading
<1>2. n \in Block /\ Headed(n) /\ n # NoBlock /\ n.ts = NextStamp(b.ts)
  BY <1>1 DEF CoverOf, Block, Headed, NoBlock
<1>3. CASE S = {n}
  BY <1>2, <1>3, KeepOne
<1>4. ASSUME NEW p \in Partial(<<>>, pages), S = (IF b = NoBlock THEN {} ELSE {b}) \cup {[n EXCEPT !.pages = p]}
      PROVE  \/ b # NoBlock /\ Keep(S) = b
             \/ b = NoBlock /\ (Keep(S) = NoBlock \/ \E q \in Block : q.pages \in Partial(<<>>, pages) /\ Keep(S) = q)
  <2>1. p \in Seq(PageSet)
    BY <1>1, EmptySeq, PartialAre
  <2>2. PICK q : q = [n EXCEPT !.pages = p]
    OBVIOUS
  <2>3. q \in Block /\ q.pages = p /\ q.ts = NextStamp(b.ts)
    BY <1>2, <2>1, <2>2 DEF Block
  <2>4. CASE b = NoBlock
    <3>1. S = {q}
      BY <1>4, <2>2, <2>4
    <3>2. Keep(S) \in {q, NoBlock}
      BY <3>1, KeepAlone
    <3> QED
      BY <2>3, <2>4, <3>2
  <2>5. CASE b # NoBlock
    <3>1. S = {b, q}
      BY <1>4, <2>2, <2>5
    <3> HIDE DEF b, n
    <3>2. Keep({b, q}) = b
      BY <1>1, <2>3, <2>5, KeepOld
    <3> QED
      BY <2>5, <3>1, <3>2
  <2> QED
    BY <2>4, <2>5
<1> QED
  BY <1>1, <1>3, <1>4 DEF Covering

\* Covering a group changes nothing of the others.
LEMMA CoverBeside ==
  ASSUME NEW w, Body(w), NEW g \in Groups, RoomFor(w, g), NEW pages, Leading(pages),
         NEW copies \in Nat, NEW x, x = CoverWith(w, g, pages, copies)
  PROVE  Beside(w, x, g)
<1>1. w \in Work /\ Ends(w.bufs) /\ HeadsInv(w)
  BY DEF Body
<1>2. PICK n : n = CoverOf(w, g, pages)
  OBVIOUS
<1>3. x \in Work /\ Ends(x.bufs) /\ Kept(w.bufs, x.bufs, g) /\ Rehomed(w, x, g, n, Covering(w, g, pages))
  BY <1>2, CoverWithIs DEF Body, Flushed
<1>4. \A S \in Covering(w, g, pages) : w.home[g] # NoBlock => Keep(S) # NoBlock
  BY <1>1, CoveringKeeps
<1> QED
  BY <1>1, <1>3, <1>4, BesideIs

\* Covering a group with all its pages changes no content.
LEMMA CoverCalm ==
  ASSUME NEW w, Body(w), NEW g \in Groups, RoomFor(w, g),
         w.spare \in Nat \ {0}, 0 \in DirtyIds(w, g) \cup IdsOf(w.home[g]), DirtyIds(w, g) # {},
         NEW x, x = Cover(w, g)
  PROVE  AllSame(w, x) /\ Beside(w, x, g)
<1>1. w \in Work /\ Ends(w.bufs) /\ HeadsInv(w) /\ w.home[g] \in Block
  BY HomeAt DEF Body
<1>2. PICK pages : pages = CoverPages(w, g)
  OBVIOUS
<1>3. PICK copies : copies = Copies(w, g)
  OBVIOUS
<1>4. Leading(pages) /\ copies \in Nat
  BY <1>1, <1>2, <1>3, CoverPagesType DEF Leading
<1>5. FreeBufs(w) # {}
  BY <1>1, LastIsFree
<1>6. x = CoverWith(w, g, pages, copies)
  BY <1>2, <1>3, <1>5 DEF Cover
<1>7. Beside(w, x, g)
  BY <1>4, <1>6, CoverBeside
<1>8. PICK n : n = CoverOf(w, g, pages)
  OBVIOUS
<1>9. x \in Work /\ Ends(x.bufs) /\ Kept(w.bufs, x.bufs, g) /\ Rehomed(w, x, g, n, Covering(w, g, pages))
  BY <1>4, <1>6, <1>8, CoverWithIs DEF Body, Flushed
<1>10. n \in Block /\ n.pages = CoverPages(w, g)
  BY <1>2, <1>8, <1>9 DEF Rehomed, CoverOf
<1>11. Renews(w, g, n, Covering(w, g, pages))
  <2> SUFFICES ASSUME Solid(w, g)
               PROVE  /\ Laid(n) /\ \A id \in Ids : BestVer(n, id) = Content(w, g, id)
                      /\ \A S \in Covering(w, g, pages) :
                           /\ Laid(Keep(S))
                           /\ \A id \in Ids : BestVer(Keep(S), id) \in {Content(w, g, id), BestVer(w.home[g], id)}
    BY DEF Renews
  <2>1. /\ Laid(n) /\ \A id \in Ids : BestVer(n, id) = Content(w, g, id)
        /\ \A q \in Block : q.pages \in Partial(<<>>, CoverPages(w, g)) =>
             Laid(q) /\ \A id \in Ids : BestVer(q, id) \in {0, Content(w, g, id)}
    BY <1>1, <1>10, CoveredIs
  <2>2. ASSUME NEW S \in Covering(w, g, pages)
        PROVE  /\ Laid(Keep(S))
               /\ \A id \in Ids : BestVer(Keep(S), id) \in {Content(w, g, id), BestVer(w.home[g], id)}
    <3>1. CASE Keep(S) = w.home[g]
      BY <3>1 DEF Solid
    <3>2. CASE Keep(S) = n
      BY <2>1, <3>2
    <3>3. CASE w.home[g] = NoBlock /\ \E q \in Block : q.pages \in Partial(<<>>, pages) /\ Keep(S) = q
      <4>1. \A id \in Ids : BestVer(w.home[g], id) = 0
        BY <3>3, NoBlockHas
      <4> QED
        BY <1>2, <2>1, <3>3, <4>1
    <3> QED
      BY <1>1, <1>4, <1>8, <3>1, <3>2, <3>3, CoveringKeeps
  <2> QED
    BY <2>1, <2>2
<1>12. Same(w, x, g)
  BY <1>1, <1>9, <1>11, RenewedIs
<1> QED
  BY <1>7, <1>12 DEF AllSame, Beside

-----------------------------------------------------------------------------
(* Flushing changes no content *)

\* The blocks, the buffers and what a restart finds are the same.
Alike(w, x) == x.home = w.home /\ x.bufs = w.bufs /\ x.cuts = w.cuts

LEMMA AlikeCalm ==
  ASSUME NEW w, NEW x, Alike(w, x)
  PROVE  Calm(w, x) /\ Homes(x) = Homes(w)
<1>1. Homes(x) = Homes(w) /\ Trees(x) = Trees(w)
  BY DEF Alike, Homes, Trees
<1>2. ASSUME NEW g \in Groups PROVE Same(w, x, g)
  <2>1. /\ DirtyIds(x, g) = DirtyIds(w, g)
        /\ \A id : VerIn(x, g, id) = VerIn(w, g, id)
        /\ \A id : Content(x, g, id) = Content(w, g, id)
    BY DEF Alike, DirtyIds, DirtyOf, VerIn, Content
  <2>2. \A id : Poss(x, g, id) = Poss(w, g, id)
    BY <1>1, <2>1 DEF Poss
  <2>3. Tidy(w, g) => Tidy(x, g)
    <3>1. Solid(w, g) => Solid(x, g)
      BY <2>1 DEF Solid, Alike
    <3> QED
      BY <1>1, <3>1 DEF Tidy, Alike
  <2> QED
    BY <1>1, <2>1, <2>2, <2>3 DEF Same, Rests
<1> QED
  BY <1>1, <1>2 DEF Calm, AllSame

LEMMA AnswerCalm ==
  ASSUME NEW w, NEW ret, NEW x, x = [w EXCEPT !.ret = ret], Sound(w)
  PROVE  Calm(w, x)
<1>1. Alike(w, x)
  BY DEF Alike, Sound, Body, Work
<1> QED
  BY <1>1, AlikeCalm

\* Flushing a group that has a block.
LEMMA FlushHomeCalm ==
  ASSUME NEW w, Sound(w), NEW s \in 1 .. Slots, NEW force, w.slots[s] \in Tree(w.home),
         NEW x, x = FlushSlot(w, s, force)
  PROVE  Calm(w, x)
<1>1. PICK g : g = w.slots[s]
  OBVIOUS
<1>2. /\ Body(w) /\ g \in Groups /\ g # None /\ w.home[g] # NoBlock
      /\ w.spare \in Nat \ {0} /\ w.spare + Cardinality(Tree(w.home)) = Blocks
      /\ Headed(w.home[g]) /\ w.home[g] \in Block
  BY <1>1, Sizes DEF Sound, Body, BlocksInv, Tree, HeadsInv, Work
<1>3. /\ Tree(w.home) \cup {g} = Tree(w.home) /\ Cardinality(Tree(w.home)) \in Nat
      /\ Cardinality(Tree(w.home) \cup {g}) = Cardinality(Tree(w.home))
  BY <1>1, TreeFinite
<1>4. RoomFor(w, g)
  BY <1>2, <1>3, Sizes DEF RoomFor
<1>5. 0 \in IdsOf(w.home[g])
  <2>1. 1 \in DOMAIN w.home[g].pages
    BY <1>2, BlockAt, EmptySeq DEF Headed
  <2>2. 1 \in PlacesIn(w.home[g], 0)
    BY <1>2, <2>1 DEF Headed, PlacesIn
  <2> QED
    BY <2>2, Sizes DEF IdsOf
<1>9. DirtyIds(w, g) # {}
  <2>1. PICK i \in 1 .. Buffers : w.bufs[i].mark = "dirty" /\ w.bufs[i].g = g
    BY <1>1, <1>2 DEF Body, SlotsInv
  <2> QED
    BY <1>2, <2>1, VerIs DEF Body
<1>6. x = Cover(w, g) \/ x = Append2Block(w, g)
  BY <1>1, <1>2 DEF FlushSlot
<1>7. CASE x = Cover(w, g)
  <2>1. AllSame(w, x) /\ Beside(w, x, g)
    BY <1>2, <1>4, <1>5, <1>7, <1>9, CoverCalm
  <2> QED
    BY <1>3, <2>1 DEF Calm, Beside, Trees, Homes
<1>8. CASE x = Append2Block(w, g)
  BY <1>1, <1>8, <1>9, AppendCalm
<1> QED
  BY <1>6, <1>7, <1>8

\* Flushing a new group.
LEMMA FlushNewSame ==
  ASSUME NEW w, Sound(w), NEW s \in 1 .. Slots, NEW force, w.slots[s] \in Groups,
         w.home[w.slots[s]] = NoBlock, w.spare >= 2, 0 \in DirtyIds(w, w.slots[s]),
         NEW x, x = FlushSlot(w, s, force)
  PROVE  AllSame(w, x) /\ Beside(w, x, w.slots[s])
<1>1. PICK g : g = w.slots[s]
  OBVIOUS
<1>2. PICK y : y = [w EXCEPT !.spare = @ - 1]
  OBVIOUS
<1>3. PICK z : z = Cover(y, g)
  OBVIOUS
<1>4. /\ w \in Work /\ w.spare \in Int /\ g # None /\ g \notin Tree(w.home) /\ g \in Groups
      /\ w.spare + Cardinality(Tree(w.home)) = Blocks
  BY <1>1, Sizes DEF Sound, Body, Work, BlocksInv, Tree
<1>5. /\ y \in Work /\ y.spare = w.spare - 1 /\ y.home = w.home /\ y.bufs = w.bufs
      /\ y.slots = w.slots /\ y.cuts = w.cuts
  BY <1>2, <1>4 DEF Work
<1>6. FlushSlot(w, s, force) = IF z.ret = "ok" THEN z ELSE [z EXCEPT !.spare = @ + 1]
  BY <1>1, <1>2, <1>3, <1>4 DEF FlushSlot, NewBlock
<1>7. Body(y) /\ y.spare \in Nat \ {0}
  BY <1>4, <1>5 DEF Sound, Body, HeadsInv, SlotsInv, CutsInv
<1>8. Cardinality(Tree(y.home) \cup {g}) = Cardinality(Tree(w.home)) + 1
      /\ Cardinality(Tree(w.home)) \in Nat
  BY <1>4, <1>5, TreeFinite
<1>9. RoomFor(y, g)
  BY <1>4, <1>8, Sizes DEF RoomFor
<1>10. 0 \in DirtyIds(y, g)
  BY <1>1, <1>5 DEF DirtyIds, DirtyOf
<1>11. z.ret = "ok"
  BY <1>3, <1>4, <1>7, <1>9, <1>10, CoverIs DEF Flushed
<1>12. x = z
  BY <1>6, <1>11
<1>13. AllSame(y, x) /\ Beside(y, x, g)
  BY <1>3, <1>4, <1>7, <1>9, <1>10, <1>12, CoverCalm
<1>14. Calm(w, y) /\ Homes(y) = Homes(w)
  BY <1>5, AlikeCalm DEF Alike
<1>15. ASSUME NEW h \in Groups PROVE Same(w, x, h)
  BY <1>13, <1>14, SameThen DEF Calm, AllSame
<1> QED
  BY <1>1, <1>5, <1>13, <1>14, <1>15 DEF AllSame, Beside, Trees

LEMMA FlushSlotCalm ==
  ASSUME NEW w, Sound(w), AtHome(w), NEW s \in 1 .. Slots, NEW force, NEW x, x = FlushSlot(w, s, force)
  PROVE  Calm(w, x)
<1>1. CASE w.slots[s] = None
  <2>1. x = [w EXCEPT !.ret = "ok"]
    BY <1>1 DEF FlushSlot
  <2> QED
    BY <2>1, AnswerCalm
<1>2. CASE w.slots[s] # None
  <2>1. w.slots[s] \in Tree(w.home)
    BY <1>2 DEF AtHome, Tree, Sound, Body, Work
  <2> QED
    BY <2>1, FlushHomeCalm
<1> QED
  BY <1>1, <1>2

\* uffs_BufFlushGroupEx.
LEMMA FlushGroupSame ==
  ASSUME NEW w, Sound(w), NEW g \in Groups, Ready(w, g), NEW force, NEW x, x = FlushGroupEx(w, g, force)
  PROVE  /\ AllSame(w, x) /\ Beside(w, x, g) /\ DirtyIds(x, g) = {}
         /\ w.home[g] # NoBlock => Calm(w, x)
<1>1. w \in Work /\ Ends(w.bufs) /\ g # None
  BY Sizes DEF Sound, Body, Work
<1>2. DirtyIds(x, g) = {}
  <2>1. Sound(x) /\ \A t \in 1 .. Slots : x.slots[t] # g
    BY FlushGroupIs
  <2> QED
    BY <2>1, NoSlotNoDirt DEF Sound, Body
<1>3. CASE SlotsOf(w, g) = {}
  <2>1. x = [w EXCEPT !.ret = "ok"]
    BY <1>3 DEF FlushGroupEx
  <2>2. Calm(w, x)
    BY <2>1, AnswerCalm
  <2> QED
    BY <1>2, <2>2 DEF Calm, AllSame, Beside
<1>4. CASE SlotsOf(w, g) # {}
  <2>1. PICK s \in 1 .. Slots : w.slots[s] = g /\ x = FlushSlot(w, s, force)
    BY <1>1, <1>4, SlotsOfIs DEF FlushGroupEx
  <2>2. CASE w.home[g] # NoBlock
    <3>1. Calm(w, x)
      BY <2>1, <2>2, FlushHomeCalm DEF Tree
    <3> QED
      BY <1>2, <3>1 DEF Calm, AllSame, Beside
  <2>3. CASE w.home[g] = NoBlock
    <3>1. w.spare >= 2 /\ 0 \in DirtyIds(w, g)
      BY <1>1, <2>1, <2>3 DEF Ready
    <3> QED
      BY <1>2, <2>1, <2>3, <3>1, FlushNewSame
  <2> QED
    BY <2>2, <2>3
<1> QED
  BY <1>3, <1>4

LEMMA FlushMostCalm ==
  ASSUME NEW w, Sound(w), AtHome(w), NEW x, x = FlushMostDirty(w)
  PROVE  Calm(w, x)
<1>1. FlushedOne(w, x)
  BY FlushMostIs
<1>2. CASE x = [w EXCEPT !.ret = "ok"]
  BY <1>2, AnswerCalm
<1>3. CASE \E s \in 1 .. Slots, force \in BOOLEAN : x = FlushSlot(w, s, force)
  BY <1>3, FlushSlotCalm
<1> QED
  BY <1>1, <1>2, <1>3 DEF FlushedOne

LEMMA RoomCalm ==
  ASSUME NEW w, Sound(w), AtHome(w), NEW x, x = WithRoom(w)
  PROVE  Calm(w, x)
<1>1. x = w \/ x = FlushMostDirty(w)
  BY DEF WithRoom
<1> QED
  BY <1>1, CalmSelf, FlushMostCalm

\* Flushing the slots of some groups: none of them has a slot afterwards.
LEMMA FlushStepCalm ==
  ASSUME NEW w, Sound(w), AtHome(w), w.ret = "ok", NEW s, NEW wanted, NEW x, x = FlushStep(w, s, wanted)
  PROVE  /\ Calm(w, x)
         /\ s \in 1 .. Slots /\ None \notin wanted => x.slots[s] \notin wanted
<1>1. DOMAIN w.slots = 1 .. Slots
  BY DEF Sound, Body, Work
<1>2. CASE s \in 1 .. Slots /\ w.slots[s] \in wanted
  <2>1. PICK force : x = FlushSlot(w, s, force)
    BY <1>1, <1>2 DEF FlushStep
  <2>2. Calm(w, x)
    BY <1>2, <2>1, FlushSlotCalm
  <2>3. x.slots[s] = None
    BY <1>2, <2>1, FlushSlotIs
  <2> QED
    BY <2>2, <2>3
<1>3. CASE ~(s \in 1 .. Slots /\ w.slots[s] \in wanted)
  <2>1. x = w
    BY <1>1, <1>3 DEF FlushStep
  <2> QED
    BY <1>3, <2>1, CalmSelf
<1> QED
  BY <1>2, <1>3

LEMMA FlushSlotsCalm ==
  ASSUME NEW w, Sound(w), AtHome(w), NEW wanted, None \notin wanted, NEW x, x = FlushSlots(w, wanted)
  PROVE  Calm(w, x) /\ \A t \in 1 .. Slots : x.slots[t] \notin wanted
<1>1. PICK a : a = [w EXCEPT !.ret = "ok"]
  OBVIOUS
<1>2. PICK b : b = FlushStep(a, 1, wanted)
  OBVIOUS
<1>3. PICK c : c = FlushStep(b, 2, wanted)
  OBVIOUS
<1>4. x = FlushStep(c, 3, wanted)
  BY <1>1, <1>2, <1>3 DEF FlushSlots, FlushStep
<1>5. Sound(a) /\ AtHome(a) /\ a.ret = "ok" /\ Calm(w, a)
  <2>1. "ok" \in Answers
    BY DEF Answers
  <2>2. Sound(a) /\ AtHome(a) /\ a.ret = "ok"
    BY <1>1, <2>1, AnswerIs
  <2> QED
    BY <1>1, <2>2, AnswerCalm
<1>6. Flushes(a, b) /\ Calm(a, b) /\ (1 \in 1 .. Slots => b.slots[1] \notin wanted)
  BY <1>2, <1>5, FlushStepIs, FlushStepCalm
<1>7. Sound(b) /\ AtHome(b) /\ b.ret = "ok"
  BY <1>6 DEF Flushes
<1>8. Flushes(b, c) /\ Calm(b, c) /\ (2 \in 1 .. Slots => c.slots[2] \notin wanted)
  BY <1>3, <1>7, FlushStepIs, FlushStepCalm
<1>9. Sound(c) /\ AtHome(c) /\ c.ret = "ok"
  BY <1>8 DEF Flushes
<1>10. Flushes(c, x) /\ Calm(c, x) /\ (3 \in 1 .. Slots => x.slots[3] \notin wanted)
  BY <1>4, <1>9, FlushStepIs, FlushStepCalm
<1>11. Calm(w, x)
  <2>1. Calm(w, b)
    BY <1>5, <1>6, CalmThen
  <2>2. Calm(w, c)
    BY <2>1, <1>8, CalmThen
  <2> QED
    BY <2>2, <1>10, CalmThen
<1>12. ASSUME NEW t \in 1 .. Slots PROVE x.slots[t] \notin wanted
  <2>1. t \in {1, 2, 3}
    BY Sizes
  <2>2. /\ \A u \in 1 .. Slots : c.slots[u] \in {b.slots[u], None}
        /\ \A u \in 1 .. Slots : x.slots[u] \in {c.slots[u], None}
    BY <1>8, <1>10 DEF Flushes
  <2>3. CASE t = 1
    BY <1>6, <2>2, <2>3
  <2>4. CASE t = 2
    BY <1>8, <2>2, <2>4
  <2>5. CASE t = 3
    BY <1>10, <2>5
  <2> QED
    BY <2>1, <2>3, <2>4, <2>5
<1> QED
  BY <1>11, <1>12

\* no page of the file is dirty
Settled(w, f) == \A n \in 0 .. MaxFdn : DirtyIds(w, <<f, n>>) = {}

\* uffs_FlushObject writes every dirty page of the file.
LEMMA FlushFileCalm ==
  ASSUME NEW w, Sound(w), AtHome(w), NEW f \in Files, NEW x, x = FlushFile(w, f)
  PROVE  Calm(w, x) /\ Settled(x, f)
<1>1. PICK wanted : wanted = {f} \X (1 .. MaxFdn)
  OBVIOUS
<1>2. PICK y : y = FlushSlots(w, wanted)
  OBVIOUS
<1>3. wanted \in SUBSET Groups /\ None \notin wanted
  BY <1>1, Sizes DEF Groups
<1>4. Flushes(w, y) /\ Calm(w, y) /\ \A t \in 1 .. Slots : y.slots[t] \notin wanted
  BY <1>2, <1>3, FlushSlotsIs, FlushSlotsCalm
<1>5. Sound(y) /\ AtHome(y) /\ y.ret = "ok"
  BY <1>4 DEF Flushes
<1>6. PICK g : g = <<f, 0>>
  OBVIOUS
<1>7. g \in Groups
  BY <1>6, Sizes DEF Groups
<1>8. PICK force : x = FlushGroupEx(y, g, force)
  BY <1>1, <1>2, <1>5, <1>6 DEF FlushFile, FlushGroup
<1>9. Ready(y, g)
  BY <1>5 DEF AtHome, Ready
<1>10. /\ Sound(x) /\ AtHome(x) /\ SameTree(y, x)
       /\ \A t \in 1 .. Slots : x.slots[t] \in {y.slots[t], None} \ {g}
  BY <1>5, <1>7, <1>8, <1>9, FlushGroupIs
<1>11. Calm(y, x)
  <2>1. CASE y.home[g] # NoBlock
    BY <1>5, <1>7, <1>8, <1>9, <2>1, FlushGroupSame
  <2>2. CASE y.home[g] = NoBlock
    <3>1. SlotsOf(y, g) = {}
      BY <1>5, <1>7, <2>2, Sizes, SlotsOfIs DEF AtHome, Sound, Body
    <3>2. x = [y EXCEPT !.ret = "ok"]
      BY <1>8, <3>1 DEF FlushGroupEx
    <3> QED
      BY <1>5, <3>2, AnswerCalm
  <2> QED
    BY <2>1, <2>2
<1>12. ASSUME NEW n \in 0 .. MaxFdn PROVE DirtyIds(x, <<f, n>>) = {}
  <2>1. \A t \in 1 .. Slots : x.slots[t] # <<f, n>>
    <3>1. CASE n = 0
      BY <1>6, <1>10, <3>1
    <3>2. CASE n # 0
      <4>1. <<f, n>> \in wanted /\ <<f, n>> # None
        BY <1>1, <1>3, <3>2, Sizes
      <4> QED
        BY <1>4, <1>10, <4>1
    <3> QED
      BY <3>1, <3>2
  <2> QED
    BY <1>10, <2>1, NoSlotNoDirt DEF Sound, Body
<1> QED
  BY <1>4, <1>11, <1>12, CalmThen DEF Settled

-----------------------------------------------------------------------------
(* Handing out a buffer changes no content *)

\* what is handed out for the old buffer has its version, if that was dirty, and if it
\* is clean the one on the block
Fits(w, old, new) == /\ old.mark = "dirty" => new.ver = old.ver
                     /\ new.mark = "valid" => new.ver = BestVer(w.home[new.g], new.id)

LEMMA HandsSame ==
  ASSUME NEW w, Sound(w), NEW x, Sound(x), NEW g \in Groups, NEW id, NEW i, NEW new, Hands(w, x, i, new, g, id)
  PROVE  /\ \A h \in Groups : h # g => Same(w, x, h)
         /\ Trees(x) = Trees(w)
         /\ (Tidy(w, g) => Fits(w, w.bufs[i], new)) => Same(w, x, g)
<1>1. w \in Work /\ Ends(w.bufs) /\ x \in Work /\ Ends(x.bufs)
  BY DEF Sound, Body
<1>2. PICK c, k : HandedOut(c, k, w.bufs, i, g, id) /\ c[k] = new /\ x = WithBufs(w, c)
  BY DEF Hands
<1>3. x.home = w.home /\ x.cuts = w.cuts /\ x.bufs = c
  BY <1>1, <1>2 DEF WithBufs, Work
<1>4. Homes(x) = Homes(w) /\ Trees(x) = Trees(w)
  BY <1>3 DEF Homes, Trees
<1>5. /\ k \in 1 .. Buffers /\ i \in 1 .. Buffers
      /\ \A m \in 1 .. Buffers : m # k => \E j \in 1 .. Buffers : c[m] = w.bufs[j]
      /\ \A j \in 1 .. Buffers : j # i => \E m \in 1 .. Buffers : c[m] = w.bufs[j]
  BY <1>2 DEF HandedOut, Replaced
<1>6. /\ new.g = g /\ new.id = id
      /\ new.mark = "dirty" => w.bufs[i].mark = "dirty"
      /\ w.bufs[i].mark = "dirty" => new.mark = "dirty" /\ w.bufs[i].g = g /\ w.bufs[i].id = id
  BY <1>2 DEF HandedOut, Handing
<1>7. ASSUME NEW h \in Groups, h # g PROVE Same(w, x, h)
  <2>1. Shown(w, x, h)
    <3> SUFFICES ASSUME NEW j \in 1 .. Buffers, w.bufs[j].mark = "dirty", w.bufs[j].g = h
                 PROVE  \E m \in 1 .. Buffers : c[m] = w.bufs[j]
      BY <1>3 DEF Shown
    <3> QED
      BY <1>5, <1>6, <1>7
  <2>2. ASSUME NEW m \in 1 .. Buffers, c[m].g = h PROVE \E j \in 1 .. Buffers : c[m] = w.bufs[j]
    BY <1>2, <1>5, <1>6, <1>7, <2>2
  <2>3. Shown(x, w, h)
    BY <1>3, <2>2, Zenon DEF Shown
  <2>4. Shows(w, x, h)
    BY <1>3, <2>2, Zenon DEF Shows
  <2> QED
    BY <1>1, <1>3, <1>4, <2>1, <2>3, <2>4, SameIf
<1>8. ASSUME Tidy(w, g), Fits(w, w.bufs[i], new) PROVE Same(w, x, g)
  <2>0. new.id = id /\ (w.bufs[i].mark = "dirty" => new.ver = w.bufs[i].ver) /\ c[k] = new
    BY <1>2, <1>6, <1>8 DEF Fits
  <2>1. Shown(w, x, g)
    <3> SUFFICES ASSUME NEW j \in 1 .. Buffers, w.bufs[j].mark = "dirty", w.bufs[j].g = g
                 PROVE  \E m \in 1 .. Buffers : /\ c[m].mark = "dirty" /\ c[m].g = g
                                                /\ c[m].id = w.bufs[j].id /\ c[m].ver = w.bufs[j].ver
      BY <1>3 DEF Shown
    <3>1. CASE j = i
      BY <1>5, <1>6, <2>0, <3>1
    <3>2. CASE j # i
      BY <1>5, <3>2
    <3> QED
      BY <3>1, <3>2
  <2>2. Shown(x, w, g)
    <3> SUFFICES ASSUME NEW m \in 1 .. Buffers, c[m].mark = "dirty", c[m].g = g
                 PROVE  \E j \in 1 .. Buffers : /\ w.bufs[j].mark = "dirty" /\ w.bufs[j].g = g
                                                /\ w.bufs[j].id = c[m].id /\ w.bufs[j].ver = c[m].ver
      BY <1>3 DEF Shown
    <3>1. CASE m = k
      BY <1>5, <1>6, <2>0, <3>1
    <3>2. CASE m # k
      BY <1>5, <3>2
    <3> QED
      BY <3>1, <3>2
  <2>3. Shows(w, x, g)
    <3> SUFFICES ASSUME NEW m \in 1 .. Buffers, c[m].mark = "valid", c[m].g = g
                 PROVE  \/ \E j \in 1 .. Buffers : /\ w.bufs[j].mark = "valid" /\ w.bufs[j].g = g
                                                   /\ w.bufs[j].id = c[m].id /\ w.bufs[j].ver = c[m].ver
                        \/ c[m].ver = BestVer(w.home[g], c[m].id)
      BY <1>3 DEF Shows
    <3>1. CASE m = k
      BY <1>6, <1>8, <2>0, <3>1 DEF Fits
    <3>2. CASE m # k
      BY <1>5, <3>2
    <3> QED
      BY <3>1, <3>2
  <2> QED
    BY <1>1, <1>3, <1>4, <2>1, <2>2, <2>3, SameIf
<1>9. ASSUME ~Tidy(w, g) PROVE Same(w, x, g)
  <2>1. ASSUME NEW m \in 1 .. Buffers, c[m].mark = "dirty", c[m].g = g
        PROVE  \E j \in 1 .. Buffers : w.bufs[j].mark = "dirty" /\ w.bufs[j].g = g
    <3>1. CASE m = k
      BY <1>2, <1>5, <1>6, <2>1, <3>1
    <3>2. CASE m # k
      BY <1>5, <2>1, <3>2
    <3> QED
      BY <3>1, <3>2
  <2>2. ASSUME NEW e \in DirtyIds(x, g) PROVE DirtyIds(w, g) # {}
    <3>1. PICK m \in 1 .. Buffers : c[m].mark = "dirty" /\ c[m].g = g
      BY <1>1, <1>3, DirtyIdsAre
    <3> QED
      BY <1>1, <2>1, <3>1, VerIs
  <2> QED
    BY <1>4, <1>9, <2>2 DEF Same, Rests
<1> QED
  BY <1>4, <1>7, <1>8, <1>9

\* A buffer that has the page of a tidy group shows what the group holds.
LEMMA BufShows ==
  ASSUME NEW w, Sound(w), NEW g, Tidy(w, g), NEW i \in 1 .. Buffers, w.bufs[i].g = g,
         w.bufs[i].mark # "empty"
  PROVE  w.bufs[i].ver = Content(w, g, w.bufs[i].id)
<1>1. w \in Work /\ Ends(w.bufs) /\ w.bufs[i] \in Buffer
  BY BufAt DEF Sound, Body
<1>2. CASE w.bufs[i].mark = "dirty"
  BY <1>1, <1>2, VerIs DEF Content
<1>3. CASE w.bufs[i].mark = "valid"
  <2>1. w.bufs[i].ver = BestVer(w.home[g], w.bufs[i].id)
    BY <1>3 DEF Tidy
  <2>2. w.bufs[i].id \notin DirtyIds(w, g)
    <3>1. SUFFICES ASSUME w.bufs[i].id \in DirtyIds(w, g) PROVE FALSE
      OBVIOUS
    <3>2. PICK j \in 1 .. Buffers : w.bufs[j].mark = "dirty" /\ w.bufs[j].g = g /\ w.bufs[j].id = w.bufs[i].id
      BY <1>1, <3>1, DirtyIdsAre
    <3> QED
      BY <1>1, <1>3, <3>2 DEF Ends, Single, Bound
  <2> QED
    BY <2>1, <2>2 DEF Content
<1> QED
  BY <1>1, <1>2, <1>3 DEF Buffer

\* uffs_BufNew: a page that is not there yet.
LEMMA NewSame ==
  ASSUME NEW w, Idle(w), NEW g \in Groups, NEW id \in Ids, NEW x, x = BufNew(w, g, id)
  PROVE  /\ \A h \in Groups : h # g => Same(w, x, h)
         /\ Trees(x) \in SUBSET Trees(w)
         /\ Content(w, g, id) = 0 => Same(w, x, g)
<1>1. Sound(w) /\ AtHome(w) /\ NoneHeld(w)
  BY DEF Idle
<1>2. Sound(x) /\ NewFrom(w, x, g, id)
  BY <1>1, BufNewIs DEF Got
<1>3. CASE \E i \in 1 .. Buffers : /\ w.bufs[i].g = g /\ w.bufs[i].id = id /\ w.bufs[i].mark # "empty"
                                   /\ Hands(w, x, i, [w.bufs[i] EXCEPT !.ver = 0, !.ref = 1], g, id)
  <2>1. PICK i \in 1 .. Buffers : /\ w.bufs[i].g = g /\ w.bufs[i].id = id /\ w.bufs[i].mark # "empty"
                                  /\ Hands(w, x, i, [w.bufs[i] EXCEPT !.ver = 0, !.ref = 1], g, id)
    BY <1>3
  <2>2. PICK new : new = [w.bufs[i] EXCEPT !.ver = 0, !.ref = 1]
    OBVIOUS
  <2>3. Hands(w, x, i, new, g, id)
    BY <2>1, <2>2
  <2>4. w.bufs[i] \in Buffer
    BY <1>1, BufAt DEF Sound, Body
  <2>5. new.ver = 0 /\ new.mark = w.bufs[i].mark /\ new.g = g /\ new.id = id
    BY <2>1, <2>2, <2>4 DEF Buffer
  <2>6. ASSUME Content(w, g, id) = 0, Tidy(w, g) PROVE Fits(w, w.bufs[i], new)
    <3>1. w.bufs[i].ver = 0
      BY <1>1, <2>1, <2>6, BufShows
    <3>2. new.mark = "valid" => w.bufs[i].ver = BestVer(w.home[g], id)
      BY <2>1, <2>5, <2>6 DEF Tidy
    <3> QED
      BY <2>5, <3>1, <3>2 DEF Fits
  <2> QED
    BY <1>1, <1>2, <2>3, <2>6, HandsSame
<1>4. CASE \E u, i : /\ u = WithRoom(w) /\ u.bufs[i].mark # "dirty"
                     /\ Hands(u, x, i, [SpareBuf EXCEPT !.g = g, !.id = id, !.ref = 1], g, id)
  <2>1. PICK u, i : /\ u = WithRoom(w) /\ u.bufs[i].mark # "dirty"
                    /\ Hands(u, x, i, [SpareBuf EXCEPT !.g = g, !.id = id, !.ref = 1], g, id)
    BY <1>4
  <2>2. PICK new : new = [SpareBuf EXCEPT !.g = g, !.id = id, !.ref = 1]
    OBVIOUS
  <2>3. new.mark = "empty"
    BY <2>2 DEF SpareBuf
  <2>4. Sound(u) /\ Calm(w, u)
    BY <1>1, <2>1, RoomIs, RoomCalm
  <2>5. Fits(u, u.bufs[i], new)
    BY <2>1, <2>3 DEF Fits
  <2>6. (\A h \in Groups : Same(u, x, h)) /\ Trees(x) = Trees(u)
    BY <1>2, <2>1, <2>2, <2>4, <2>5, HandsSame
  <2> QED
    BY <2>4, <2>6, SameThen DEF Calm, AllSame
<1> QED
  BY <1>2, <1>3, <1>4 DEF NewFrom

\* uffs_BufGetEx changes no content, and does not find a page only when there is none or
\* when its group has been moved.
LEMMA GetCalm ==
  ASSUME NEW w, Idle(w), NEW g \in Groups, NEW id \in Ids, NEW x, x = BufGetEx(w, g, id)
  PROVE  /\ Calm(w, x)
         /\ x.ret # "ok" /\ Tidy(w, g) /\ g \notin stale =>
              x.home[g].ts # w.home[g].ts \/ Content(w, g, id) = 0
<1>1. Sound(w) /\ AtHome(w) /\ NoneHeld(w) /\ w \in Work /\ Ends(w.bufs)
  BY DEF Idle, Sound, Body
<1>2. \/ Got(w, x, g, id) /\ (HeldFrom(w, x, g, id) \/ LoadedFrom(w, x, g, id))
      \/ NotGot(w, x) /\ MissedFrom(w, x, g, id)
  BY <1>1, BufGetIs
<1>3. CASE Got(w, x, g, id) /\ HeldFrom(w, x, g, id)
  <2>1. PICK i \in 1 .. Buffers : /\ w.bufs[i].g = g /\ w.bufs[i].id = id /\ w.bufs[i].mark # "empty"
                                  /\ Hands(w, x, i, [w.bufs[i] EXCEPT !.ref = 1], g, id)
    BY <1>3 DEF HeldFrom
  <2>2. PICK new : new = [w.bufs[i] EXCEPT !.ref = 1]
    OBVIOUS
  <2>3. Hands(w, x, i, new, g, id)
    BY <2>1, <2>2
  <2>4. w.bufs[i] \in Buffer
    BY <1>1, BufAt
  <2>5. new.ver = w.bufs[i].ver /\ new.mark = w.bufs[i].mark /\ new.g = g /\ new.id = id
    BY <2>1, <2>2, <2>4 DEF Buffer
  <2>6. ASSUME Tidy(w, g) PROVE Fits(w, w.bufs[i], new)
    BY <2>1, <2>5, <2>6 DEF Tidy, Fits
  <2>7. AllSame(w, x) /\ Trees(x) = Trees(w)
    BY <1>1, <1>3, <2>3, <2>6, HandsSame DEF AllSame, Got
  <2> QED
    BY <1>3, <2>7 DEF Calm, Got
<1>4. CASE Got(w, x, g, id) /\ LoadedFrom(w, x, g, id)
  <2>1. PICK u, i : /\ u = WithRoom(w) /\ u.bufs[i].mark # "dirty"
                    /\ Hands(u, x, i, [g |-> g, id |-> id, ver |-> BestVer(u.home[g], id),
                                       mark |-> "valid", ref |-> 1], g, id)
    BY <1>4 DEF LoadedFrom
  <2>2. PICK new : new = [g |-> g, id |-> id, ver |-> BestVer(u.home[g], id), mark |-> "valid", ref |-> 1]
    OBVIOUS
  <2>3. Sound(u) /\ Calm(w, u)
    BY <1>1, <2>1, RoomIs, RoomCalm
  <2>4. Fits(u, u.bufs[i], new)
    BY <2>1, <2>2 DEF Fits
  <2>5. AllSame(u, x) /\ Trees(x) = Trees(u)
    BY <1>4, <2>1, <2>2, <2>3, <2>4, HandsSame DEF AllSame, Got
  <2>6. Calm(u, x)
    BY <2>5 DEF Calm
  <2> QED
    BY <1>4, <2>3, <2>6, CalmThen DEF Got
<1>5. CASE NotGot(w, x) /\ MissedFrom(w, x, g, id)
  <2>1. /\ BufFind(w, g, id) = {}
        /\ \E u : /\ u = WithRoom(w) /\ x = [u EXCEPT !.ret = "nopage"]
                  /\ u.home[g].ts # w.home[g].ts \/ id \notin IdsOf(u.home[g])
    BY <1>5 DEF MissedFrom
  <2>2. PICK u : /\ u = WithRoom(w) /\ x = [u EXCEPT !.ret = "nopage"]
                 /\ u.home[g].ts # w.home[g].ts \/ id \notin IdsOf(u.home[g])
    BY <2>1
  <2>3. Sound(u) /\ Calm(w, u) /\ SameHeld(w, u)
    BY <1>1, <2>2, RoomIs, RoomCalm
  <2>4. Calm(w, x)
    BY <2>2, <2>3, AnswerCalm, CalmThen
  <2>5. u \in Work /\ x.home = u.home
    BY <2>2, <2>3 DEF Sound, Body, Work
  <2>6. ASSUME Tidy(w, g), g \notin stale, id \notin IdsOf(u.home[g]) PROVE Content(w, g, id) = 0
    <3>1. id \notin DirtyIds(u, g)
      <4>1. id \notin DirtyIds(w, g)
        <5>1. \A i \in 1 .. Buffers : ~ (w.bufs[i].mark # "empty" /\ w.bufs[i].g = g /\ w.bufs[i].id = id)
          BY <1>1, <2>1, BufAt DEF BufFind
        <5>2. \A i \in 1 .. Buffers : ~ (w.bufs[i].mark = "dirty" /\ w.bufs[i].g = g /\ w.bufs[i].id = id)
          BY <5>1
        <5> QED
          BY <1>1, <5>2, DirtyIdsAre
      <4> QED
        BY <2>3, <4>1 DEF SameHeld, Drains
    <3>2. Tidy(u, g) /\ Content(w, g, id) = Content(u, g, id)
      BY <2>3, <2>6 DEF Calm, AllSame, Same
    <3>3. u.home[g] \in Block /\ Laid(u.home[g])
      BY <2>5, <3>2, HomeAt DEF Tidy, Solid
    <3>4. BestVer(u.home[g], id) = 0
      BY <2>6, <3>3, FoundIs
    <3> QED
      BY <3>1, <3>2, <3>4 DEF Content
  <2> QED
    BY <2>2, <2>4, <2>5, <2>6
<1> QED
  BY <1>2, <1>3, <1>4, <1>5

\* uffs_BufPut.
LEMMA PutCalm ==
  ASSUME NEW w, Sound(w), NEW x, x = BufPut(w)
  PROVE  Calm(w, x)
<1>1. w \in Work /\ Ends(w.bufs) /\ Sound(x)
  BY BufPutIs DEF Sound, Body
<1>2. x \in Work /\ Ends(x.bufs) /\ DOMAIN w.bufs = 1 .. Buffers /\ \A i \in 1 .. Buffers : w.bufs[i] \in Buffer
  BY <1>1, BufAt DEF Sound, Body
<1>3. x.home = w.home /\ x.cuts = w.cuts /\ x.bufs = [i \in 1 .. Buffers |-> [w.bufs[i] EXCEPT !.ref = 0]]
  BY <1>1, <1>2 DEF BufPut, Work
<1>4. \A i \in 1 .. Buffers : /\ x.bufs[i].mark = w.bufs[i].mark /\ x.bufs[i].g = w.bufs[i].g
                              /\ x.bufs[i].id = w.bufs[i].id /\ x.bufs[i].ver = w.bufs[i].ver
  BY <1>2, <1>3 DEF Buffer
<1>5. Homes(x) = Homes(w) /\ Trees(x) = Trees(w)
  BY <1>3 DEF Homes, Trees
<1>6. ASSUME NEW g \in Groups PROVE Same(w, x, g)
  <2>1. Shown(w, x, g) /\ Shown(x, w, g) /\ Shows(w, x, g)
    BY <1>4 DEF Shown, Shows
  <2> QED
    BY <1>1, <1>2, <1>3, <1>5, <2>1, SameIf
<1> QED
  BY <1>5, <1>6 DEF Calm, AllSame

-----------------------------------------------------------------------------
(* Writing a page changes that page *)

\* of x page id of g is v and the others are those of w
Alters(w, x, g, id, v) ==
  Tidy(w, g) /\ g \notin stale /\ v # 0 /\ (\A k \in 0 .. id - 1 : Content(w, g, k) # 0) =>
    /\ Tidy(x, g)
    /\ \A i \in Ids : /\ Content(x, g, i) = IF i = id THEN v ELSE Content(w, g, i)
                      /\ Poss(x, g, i) \in SUBSET (Poss(w, g, i) \cup (IF i = id THEN {v} ELSE {}))
\* and no other group is changed
Puts(w, x, g, id, v) ==
  /\ Alters(w, x, g, id, v) /\ \A h \in Groups : h # g => Same(w, x, h)
  /\ Trees(x) \in SUBSET (Trees(w) \cup {Tree(w.home) \cup {g}})

LEMMA PutsThen ==
  ASSUME NEW w, NEW x, NEW y, NEW g \in Groups, NEW id, NEW v, Puts(w, x, g, id, v),
         AllSame(x, y), Trees(y) \in SUBSET (Trees(x) \cup {Tree(w.home) \cup {g}})
  PROVE  Puts(w, y, g, id, v)
<1>1. \A h \in Groups : h # g => Same(w, y, h)
  BY SameThen DEF Puts, AllSame
<1>2. Same(x, y, g)
  BY DEF AllSame
<1>3. Alters(w, x, g, id, v)
  BY DEF Puts
<1>4. Alters(w, y, g, id, v)
  <2> SUFFICES ASSUME Tidy(w, g) /\ g \notin stale /\ v # 0 /\ (\A k \in 0 .. id - 1 : Content(w, g, k) # 0)
               PROVE  /\ Tidy(y, g)
                      /\ \A i \in Ids : /\ Content(y, g, i) = IF i = id THEN v ELSE Content(w, g, i)
                                        /\ Poss(y, g, i) \in SUBSET (Poss(w, g, i) \cup (IF i = id THEN {v} ELSE {}))
    BY Zenon DEF Alters
  <2>1. /\ Tidy(x, g)
        /\ \A i \in Ids : /\ Content(x, g, i) = IF i = id THEN v ELSE Content(w, g, i)
                          /\ Poss(x, g, i) \in SUBSET (Poss(w, g, i) \cup (IF i = id THEN {v} ELSE {}))
    BY <1>3, Zenon DEF Alters
  <2>2. Tidy(y, g) /\ \A i \in Ids : Content(y, g, i) = Content(x, g, i) /\ Poss(y, g, i) \in SUBSET Poss(x, g, i)
    BY <1>2, <2>1 DEF Same
  <2> QED
    BY <2>1, <2>2
<1> QED
  BY <1>1, <1>4 DEF Puts

LEMMA ThenPuts ==
  ASSUME NEW w, NEW x, NEW y, NEW g \in Groups, NEW id \in Ids, NEW v, AllSame(w, x),
         Trees(x) \in SUBSET Trees(w), Tree(x.home) = Tree(w.home), Puts(x, y, g, id, v)
  PROVE  Puts(w, y, g, id, v)
<1>1. \A h \in Groups : h # g => Same(w, y, h)
  BY SameThen DEF Puts, AllSame
<1>2. Same(w, x, g)
  BY DEF AllSame
<1>3. Alters(x, y, g, id, v)
  BY DEF Puts
<1>4. Alters(w, y, g, id, v)
  <2> SUFFICES ASSUME Tidy(w, g) /\ g \notin stale /\ v # 0 /\ (\A k \in 0 .. id - 1 : Content(w, g, k) # 0)
               PROVE  /\ Tidy(y, g)
                      /\ \A i \in Ids : /\ Content(y, g, i) = IF i = id THEN v ELSE Content(w, g, i)
                                        /\ Poss(y, g, i) \in SUBSET (Poss(w, g, i) \cup (IF i = id THEN {v} ELSE {}))
    BY Zenon DEF Alters
  <2>1. Tidy(x, g) /\ \A i \in Ids : Content(x, g, i) = Content(w, g, i) /\ Poss(x, g, i) \in SUBSET Poss(w, g, i)
    BY <1>2 DEF Same
  <2>2. \A k \in 0 .. id - 1 : k \in Ids
    BY Sizes DEF Ids
  <2>3. \A k \in 0 .. id - 1 : Content(x, g, k) # 0
    BY <2>1, <2>2
  <2>4. /\ Tidy(y, g)
        /\ \A i \in Ids : /\ Content(y, g, i) = IF i = id THEN v ELSE Content(x, g, i)
                          /\ Poss(y, g, i) \in SUBSET (Poss(x, g, i) \cup (IF i = id THEN {v} ELSE {}))
    BY <1>3, <2>1, <2>3, Zenon DEF Alters
  <2> QED
    BY <2>1, <2>4
<1> QED
  BY <1>1, <1>4 DEF Puts

\* Page id of g is the buffer in hand, which becomes dirty.
LEMMA MarksPut ==
  ASSUME NEW w, Sound(w), NEW g \in Groups, NEW id \in Ids, Holds(w, g, id), NEW v \in Vers,
         NEW x, Sound(x), Marks(w, x, g, id, v)
  PROVE  Puts(w, x, g, id, v)
<1>1. w \in Work /\ Ends(w.bufs) /\ x \in Work /\ Ends(x.bufs)
  BY DEF Sound, Body
<1>2. x.home = w.home /\ x.cuts = w.cuts /\ Homes(x) = Homes(w) /\ Trees(x) = Trees(w)
  BY DEF Marks, Homes, Trees
<1>3. PICK i \in 1 .. Buffers :
        /\ w.bufs[i].ref = 1 /\ w.bufs[i].g = g /\ w.bufs[i].id = id
        /\ x.bufs = [w.bufs EXCEPT ![i] = [w.bufs[i] EXCEPT !.ver = v, !.mark = "dirty"]]
  BY DEF Marks
<1>4. /\ x.bufs[i].mark = "dirty" /\ x.bufs[i].g = g /\ x.bufs[i].id = id /\ x.bufs[i].ver = v
      /\ \A j \in 1 .. Buffers : j # i => x.bufs[j] = w.bufs[j]
  <2>1. DOMAIN w.bufs = 1 .. Buffers /\ w.bufs[i] \in Buffer
    BY <1>1, BufAt
  <2> QED
    BY <1>3, <2>1 DEF Buffer
<1>5. ASSUME NEW h \in Groups, h # g PROVE Same(w, x, h)
  <2>1. Shown(w, x, h) /\ Shown(x, w, h) /\ Shows(w, x, h)
    <3>1. \A j \in 1 .. Buffers : w.bufs[j].g = h \/ x.bufs[j].g = h => x.bufs[j] = w.bufs[j]
      BY <1>3, <1>4, <1>5
    <3>2. Shown(w, x, h)
      BY <3>1 DEF Shown
    <3>3. Shown(x, w, h)
      BY <3>1 DEF Shown
    <3>4. Shows(w, x, h)
      BY <3>1 DEF Shows
    <3> QED
      BY <3>2, <3>3, <3>4
  <2> QED
    BY <1>1, <1>2, <2>1, SameIf
<1>6. id \in DirtyIds(x, g) /\ VerIn(x, g, id) = v
  BY <1>1, <1>4, VerIs
<1>7. ASSUME NEW e \in DirtyIds(w, g), e # id PROVE e \in DirtyIds(x, g) /\ VerIn(x, g, e) = VerIn(w, g, e)
  <2>1. PICK j \in 1 .. Buffers : /\ w.bufs[j].mark = "dirty" /\ w.bufs[j].g = g /\ w.bufs[j].id = e
                                  /\ w.bufs[j].ver = VerIn(w, g, e)
    BY <1>1, <1>7, DirtyBuf
  <2>2. x.bufs[j] = w.bufs[j]
    BY <1>3, <1>4, <1>7, <2>1
  <2> QED
    BY <1>1, <2>1, <2>2, VerIs
<1>8. ASSUME NEW e \in DirtyIds(x, g), e # id PROVE e \in DirtyIds(w, g)
  <2>1. PICK j \in 1 .. Buffers : x.bufs[j].mark = "dirty" /\ x.bufs[j].g = g /\ x.bufs[j].id = e
    BY <1>1, DirtyIdsAre
  <2>2. x.bufs[j] = w.bufs[j]
    BY <1>4, <1>8, <2>1
  <2> QED
    BY <1>1, <2>1, <2>2, DirtyIdsAre
<1>9. \A e \in Ids : Content(x, g, e) = IF e = id THEN v ELSE Content(w, g, e)
  BY <1>2, <1>6, <1>7, <1>8 DEF Content
<1>10. \A e \in Ids : Poss(x, g, e) \in SUBSET (Poss(w, g, e) \cup (IF e = id THEN {v} ELSE {}))
  <2> SUFFICES ASSUME NEW e \in Ids
               PROVE  Poss(x, g, e) \in SUBSET (Poss(w, g, e) \cup (IF e = id THEN {v} ELSE {}))
    OBVIOUS
  <2>1. Content(x, g, e) = IF e = id THEN v ELSE Content(w, g, e)
    BY <1>9
  <2>2. Content(x, g, e) \in {Content(w, g, e)} \cup (IF e = id THEN {v} ELSE {})
    BY <2>1
  <2> QED
    BY <1>2, <2>2 DEF Poss
<1>11. ASSUME Tidy(w, g), v # 0, \A k \in 0 .. id - 1 : Content(w, g, k) # 0 PROVE Tidy(x, g)
  <2>1. Solid(w, g)
    BY <1>11 DEF Tidy
  <2>2. \A e \in DirtyIds(x, g) : VerIn(x, g, e) # 0
    <3> SUFFICES ASSUME NEW e \in DirtyIds(x, g) PROVE VerIn(x, g, e) # 0
      OBVIOUS
    <3>1. CASE e = id
      BY <1>6, <1>11, <3>1
    <3>2. CASE e # id
      <4>1. e \in DirtyIds(w, g)
        BY <1>8, <3>2
      <4>2. VerIn(w, g, e) # 0
        BY <2>1, <4>1 DEF Solid
      <4> QED
        BY <1>7, <3>2, <4>1, <4>2
    <3> QED
      BY <3>1, <3>2
  <2>3. ASSUME NEW e \in Ids, Content(x, g, e) # 0, NEW k \in 0 .. e - 1 PROVE Content(x, g, k) # 0
    <3>1. k \in Ids
      BY Sizes DEF Ids
    <3>2. e # id => Content(w, g, e) # 0
      BY <1>9, <2>3
    <3>3. e # id => Content(w, g, k) # 0
      BY <2>1, <3>2 DEF Solid
    <3>4. e = id => Content(w, g, k) # 0
      BY <1>11
    <3> QED
      BY <1>9, <1>11, <3>1, <3>3, <3>4
  <2>4. Solid(x, g)
    BY <1>2, <2>1, <2>2, <2>3 DEF Solid
  <2>5. \A j \in 1 .. Buffers : x.bufs[j].mark = "valid" => x.bufs[j] = w.bufs[j]
    BY <1>4
  <2> QED
    BY <1>2, <1>11, <2>4, <2>5 DEF Tidy
<1>12. Alters(w, x, g, id, v)
  BY <1>9, <1>10, <1>11, Zenon DEF Alters
<1> QED
  BY <1>2, <1>5, <1>12 DEF Puts

\* uffs_BufWrite.
LEMMA WritePuts ==
  ASSUME NEW w, Sound(w), AtHome(w), NEW g \in Groups, NEW id \in Ids, NEW v \in Vers,
         NEW x, WriteFrom(w, x, g, id, v)
  PROVE  Puts(w, x, g, id, v)
<1>1. PICK u, y : /\ u = w \/ u = FlushMostDirty(w)
                  /\ Sound(u) /\ AtHome(u) /\ Holds(u, g, id) /\ Marks(u, y, g, id, v)
                  /\ Sound(y) /\ Ready(y, g) /\ (w.home[g] # NoBlock => AtHome(y))
                  /\ \/ x = y /\ ~IsFull(y, g)
                     \/ IsFull(y, g) /\ \E force \in BOOLEAN : x = FlushGroupEx(y, g, force)
  BY DEF WriteFrom
<1>2. Calm(w, u) /\ Tree(u.home) = Tree(w.home)
  BY <1>1, CalmSelf, FlushMostCalm, FlushMostIs DEF SameTree
<1>3. Puts(u, y, g, id, v)
  BY <1>1, MarksPut
<1>4. Puts(w, y, g, id, v)
  BY <1>2, <1>3, ThenPuts DEF Calm
<1>5. CASE x = y
  BY <1>4, <1>5
<1>6. ASSUME NEW force \in BOOLEAN, x = FlushGroupEx(y, g, force) PROVE Puts(w, x, g, id, v)
  <2>1. AllSame(y, x) /\ Beside(y, x, g)
    BY <1>1, <1>6, FlushGroupSame
  <2>2. Tree(y.home) = Tree(w.home)
    BY <1>1, <1>2 DEF Marks
  <2>3. Trees(x) \in SUBSET (Trees(y) \cup {Tree(w.home) \cup {g}})
    BY <2>1, <2>2 DEF Beside
  <2> QED
    BY <1>4, <2>1, <2>3, PutsThen
<1> QED
  BY <1>1, <1>5, <1>6

\* A page is written and put back.
LEMMA PutWrittenPuts ==
  ASSUME NEW w, Sound(w), AtHome(w), NEW g \in Groups, NEW id \in Ids, Holds(w, g, id), NEW v \in Vers,
         w.home[g] # NoBlock \/ (w.spare >= 2 /\ id = 0), w.ret = "ok", NEW x, x = PutWritten(w, v)
  PROVE  Puts(w, x, g, id, v)
<1>1. PICK y : Sound(y) /\ WriteFrom(w, y, g, id, v) /\ x = BufPut(y)
  BY PutWrittenIs
<1>2. Calm(y, x)
  BY <1>1, PutCalm
<1>3. Puts(w, y, g, id, v)
  BY <1>1, WritePuts
<1> QED
  BY <1>2, <1>3, PutsThen DEF Calm

-----------------------------------------------------------------------------
(* The calls that change no page, or one *)

\* uffs_BufGetEx and uffs_BufPut.
LEMMA PutBackCalm ==
  ASSUME NEW w, Idle(w), NEW g \in Groups, NEW id \in Ids, NEW x, x = PutBack(BufGetEx(w, g, id))
  PROVE  /\ Calm(w, x) /\ x.ret \in {"ok", "nopage"}
         /\ x.ret # "ok" /\ Tidy(w, g) /\ g \notin stale =>
              x.home[g].ts # w.home[g].ts \/ Content(w, g, id) = 0
<1>1. PICK y : y = BufGetEx(w, g, id)
  OBVIOUS
<1>2. Sound(y) /\ y.ret \in {"ok", "nopage"}
  BY <1>1, BufGetIs DEF Idle, Got, NotGot
<1>3. /\ Calm(w, y)
      /\ y.ret # "ok" /\ Tidy(w, g) /\ g \notin stale =>
           y.home[g].ts # w.home[g].ts \/ Content(w, g, id) = 0
  BY <1>1, GetCalm
<1>4. CASE y.ret = "ok"
  <2>1. x = BufPut(y)
    BY <1>1, <1>4 DEF PutBack
  <2> QED
    BY <1>2, <1>3, <1>4, <2>1, PutCalm, BufPutIs, CalmThen
<1>5. CASE y.ret # "ok"
  BY <1>1, <1>2, <1>3, <1>5 DEF PutBack
<1> QED
  BY <1>4, <1>5

\* Steps beside g, one after the other.
LEMMA BesideThen ==
  ASSUME NEW w, NEW x, NEW y, NEW g \in Groups, Beside(w, x, g), Beside(x, y, g),
         Tree(x.home) \in {Tree(w.home), Tree(w.home) \cup {g}}
  PROVE  Beside(w, y, g)
<1>1. \A h \in Groups : h # g => Same(w, y, h)
  BY SameThen DEF Beside
<1>2. Tree(x.home) \cup {g} = Tree(w.home) \cup {g}
  OBVIOUS
<1> QED
  BY <1>1, <1>2 DEF Beside

\* A step that changes nothing, or page id of g alone, which it answers.
Changes(x, g, id, v) == /\ Beside(dev, x, g)
                        /\ x.ret # "ok" => Same(dev, x, g)
                        /\ x.ret = "ok" => Alters(dev, x, g, id, v)

LEMMA CalmChanges ==
  ASSUME NEW x, Calm(dev, x), x.ret # "ok", NEW g \in Groups, NEW id, NEW v
  PROVE  Changes(x, g, id, v)
BY DEF Changes, Beside, Calm, AllSame

\* the trees of a device between calls
LEMMA IdleTrees ==
  ASSUME NEW w, w.cuts = {}
  PROVE  Trees(w) = {Tree(w.home)} /\ Homes(w) = {w.home}
<1>1. Homes(w) = {w.home}
  BY DEF Homes
<1> QED
  BY <1>1 DEF Trees

\* do_WriteNewBlock and uffs_CreateObjectEx: nothing of the new page is left to be
\* flushed.
LEMMA WriteNewChanges ==
  ASSUME Idle(dev), dev.cuts = {}, NEW f \in Files, NEW p, FdnOf(p) \in 0 .. MaxFdn, IdOf(p) = 0,
         NEW v \in Vers, NEW x, x = WriteNew(f, p, v), NEW g, g = <<f, FdnOf(p)>>
  PROVE  /\ Beside(dev, x, g)
         /\ Content(dev, g, 0) = 0 => Changes(x, g, 0, v)
         /\ x.ret = "ok" => DirtyIds(x, g) = {}
<1>0. g \in Groups /\ 0 \in Ids /\ MinErased = 2 /\ dev.spare \in Int /\ Sound(dev) /\ AtHome(dev) /\ NoneHeld(dev)
  BY GroupIs, Sizes, StoreAssumption DEF Groups, Idle, Sound, Body, Work
<1>1. CASE dev.spare < MinErased
  <2>1. x = [dev EXCEPT !.ret = "full"]
    BY <1>1 DEF WriteNew
  <2>2. x.ret = "full" /\ Calm(dev, x)
    BY <1>0, <2>1, AnswerCalm DEF Sound, Body, Work
  <2> QED
    BY <1>0, <2>2, CalmChanges DEF Changes
<1>2. CASE ~(dev.spare < MinErased)
  <2>1. PICK n : n = BufNew(dev, g, IdOf(p))
    OBVIOUS
  <2>2. PICK y : y = PutWritten(n, v)
    OBVIOUS
  <2>3. PICK z : z = FlushGroup(y, g)
    OBVIOUS
  <2>4. x = IF y.ret = "ok" THEN [z EXCEPT !.ret = "ok"] ELSE y
    BY <1>2, <2>1, <2>2, <2>3 DEF WriteNew
  <2>5. Got(dev, n, g, 0) /\ dev.spare >= 2
    BY <1>0, <1>2, <2>1, BufNewIs
  <2>6. /\ Sound(n) /\ AtHome(n) /\ Holds(n, g, 0) /\ n.ret = "ok" /\ n.spare >= 2
        /\ Tree(n.home) = Tree(dev.home)
    BY <2>5 DEF Got, SameTree
  <2>7. Written(n, y, g) /\ Puts(n, y, g, 0, v)
    BY <1>0, <2>2, <2>6, PutWrittenIs, PutWrittenPuts
  <2>8. /\ \A h \in Groups : h # g => Same(dev, n, h)
        /\ Trees(n) \in SUBSET Trees(dev)
        /\ Content(dev, g, 0) = 0 => Same(dev, n, g)
    BY <1>0, <2>1, NewSame
  <2>9. Trees(y) \in SUBSET {Tree(dev.home), Tree(dev.home) \cup {g}}
    BY <2>6, <2>7, <2>8, IdleTrees DEF Puts
  <2>10. Tree(y.home) \in {Tree(dev.home), Tree(dev.home) \cup {g}}
    BY <2>9 DEF Trees, Homes
  <2>11. Beside(dev, y, g)
    <3>1. \A h \in Groups : h # g => Same(dev, y, h)
      BY <2>7, <2>8, SameThen DEF Puts
    <3> QED
      BY <2>9, <3>1, IdleTrees DEF Beside
  <2>12. Sound(z) /\ AllSame(y, z) /\ Beside(y, z, g) /\ DirtyIds(z, g) = {}
    BY <1>0, <2>3, <2>7, FlushGroupSame, FlushGroupIs DEF Written, FlushGroup
  <2>13. Calm(z, x) /\ y.ret = "ok" /\ x = [z EXCEPT !.ret = "ok"] /\ x.ret = "ok" /\ x.bufs = z.bufs
    BY <2>4, <2>7, <2>12, AnswerCalm DEF Written, Sound, Body, Work
  <2>14. AllSame(y, x) /\ Beside(y, x, g) /\ DirtyIds(x, g) = {}
    <3>1. AllSame(y, x)
      BY <2>12, <2>13, SameThen DEF AllSame, Calm
    <3>2. Beside(y, x, g)
      BY <2>12, <2>13, <3>1 DEF Beside, AllSame, Calm
    <3> QED
      BY <2>12, <2>13, <3>1, <3>2 DEF DirtyIds, DirtyOf
  <2>15. Beside(dev, x, g)
    BY <1>0, <2>10, <2>11, <2>14, BesideThen
  <2>16. ASSUME Content(dev, g, 0) = 0 PROVE Alters(dev, x, g, 0, v)
    <3>1. AllSame(dev, n)
      BY <2>8, <2>16 DEF AllSame
    <3>2. Puts(dev, y, g, 0, v)
      BY <1>0, <2>6, <2>7, <2>8, <3>1, ThenPuts
    <3>3. Trees(x) \in SUBSET (Trees(y) \cup {Tree(dev.home) \cup {g}})
      <4>1. Tree(y.home) \cup {g} = Tree(dev.home) \cup {g}
        BY <2>10
      <4> QED
        BY <2>14, <4>1 DEF Beside
    <3> QED
      BY <1>0, <2>14, <3>2, <3>3, PutsThen DEF Puts
  <2> QED
    BY <2>13, <2>14, <2>15, <2>16 DEF Changes
<1> QED
  BY <1>1, <1>2

\* A page of a group that has a block is got, written and put back.
LEMMA InternalChanges ==
  ASSUME Idle(dev), NEW w, NoneHeld(dev), NEW g \in Groups, NEW id \in Ids, NEW v \in Vers,
         dev.home[g] # NoBlock, Got(dev, w, g, id), Beside(dev, w, g), Trees(w) \in SUBSET Trees(dev),
         NEW x, x = PutWritten(w, v)
  PROVE  Beside(dev, x, g) /\ x.ret = "ok" /\ (Same(dev, w, g) => Puts(dev, x, g, id, v))
<1>1. /\ Sound(w) /\ AtHome(w) /\ Holds(w, g, id) /\ w.ret = "ok" /\ Tree(w.home) = Tree(dev.home)
      /\ w.home[g] # NoBlock
  BY DEF Got, SameTree, Tree
<1>2. Written(w, x, g) /\ Puts(w, x, g, id, v)
  BY <1>1, PutWrittenIs, PutWrittenPuts
<1>3. Beside(dev, x, g)
  BY <1>1, <1>2, BesideThen DEF Puts, Beside
<1>4. Same(dev, w, g) => AllSame(dev, w)
  BY DEF Beside, AllSame
<1> QED
  BY <1>1, <1>2, <1>3, <1>4, ThenPuts DEF Written

\* do_WriteInternalBlock.
LEMMA WriteInternalChanges ==
  ASSUME Idle(dev), NEW f \in Files, NEW p \in Positions, NEW v \in Vers,
         NEW x, x = WriteInternal(f, p, v), NEW g, g = <<f, FdnOf(p)>>
  PROVE  /\ Beside(dev, x, g)
         /\ (p = len[f] => Content(dev, g, IdOf(p)) = 0) => Changes(x, g, IdOf(p), v)
<1>0. g \in Groups /\ IdOf(p) \in Ids /\ Sound(dev) /\ AtHome(dev) /\ NoneHeld(dev)
  BY PlaceIs, PositionIs, GroupIs DEF Idle
<1>1. CASE dev.home[g] = NoBlock
  <2>1. x = [dev EXCEPT !.ret = "nonode"]
    BY <1>1 DEF WriteInternal
  <2>2. x.ret = "nonode" /\ Calm(dev, x)
    BY <1>0, <2>1, AnswerCalm DEF Sound, Body, Work
  <2> QED
    BY <1>0, <2>2, CalmChanges DEF Changes
<1>2. CASE dev.home[g] # NoBlock /\ p = len[f]
  <2>1. PICK w : w = BufNew(dev, g, IdOf(p))
    OBVIOUS
  <2>2. x = PutWritten(w, v)
    BY <1>2, <2>1 DEF WriteInternal
  <2>3. Got(dev, w, g, IdOf(p))
    BY <1>0, <2>1, BufNewIs
  <2>4. /\ Beside(dev, w, g) /\ Trees(w) \in SUBSET Trees(dev)
        /\ Content(dev, g, IdOf(p)) = 0 => Same(dev, w, g)
    BY <1>0, <2>1, NewSame DEF Beside
  <2>5. Beside(dev, x, g) /\ x.ret = "ok" /\ (Same(dev, w, g) => Puts(dev, x, g, IdOf(p), v))
    BY <1>0, <1>2, <2>2, <2>3, <2>4, InternalChanges
  <2> QED
    BY <1>2, <2>4, <2>5 DEF Changes, Puts
<1>3. CASE dev.home[g] # NoBlock /\ p # len[f]
  <2>1. PICK w : w = BufGetEx(dev, g, IdOf(p))
    OBVIOUS
  <2>2. x = PutWritten(w, v)
    BY <1>3, <2>1 DEF WriteInternal
  <2>3. Calm(dev, w)
    BY <1>0, <2>1, GetCalm
  <2>4. Beside(dev, w, g) /\ Trees(w) \in SUBSET Trees(dev) /\ Same(dev, w, g)
    BY <1>0, <2>3 DEF Beside, Calm, AllSame
  <2>5. CASE Got(dev, w, g, IdOf(p))
    <3>1. Beside(dev, x, g) /\ x.ret = "ok" /\ Puts(dev, x, g, IdOf(p), v)
      BY <1>0, <1>3, <2>2, <2>4, <2>5, InternalChanges
    <3> QED
      BY <3>1 DEF Changes, Puts
  <2>6. CASE NotGot(dev, w)
    <3>1. x = w /\ x.ret = "nopage"
      BY <2>2, <2>6 DEF NotGot, PutWritten
    <3> QED
      BY <1>0, <2>3, <2>4, <3>1, CalmChanges
  <2> QED
    BY <1>0, <2>1, <2>5, <2>6, BufGetIs
<1> QED
  BY <1>1, <1>2, <1>3

\* uffs_WriteObject.
LEMMA WriteObjectChanges ==
  ASSUME Idle(dev), dev.cuts = {}, NEW f \in Files, NEW p \in Positions, NEW v \in Vers,
         NEW x, x = WriteObject(f, p, v), NEW g, g = <<f, FdnOf(p)>>
  PROVE  /\ Beside(dev, x, g)
         /\ (p = len[f] => Content(dev, g, IdOf(p)) = 0) => Changes(x, g, IdOf(p), v)
         /\ StartsBlock(f, p) /\ x.ret = "ok" => DirtyIds(x, g) = {}
<1>1. CASE StartsBlock(f, p)
  <2>1. p = len[f] /\ FdnOf(p) > 0 /\ p = StartOf(FdnOf(p)) /\ x = WriteNew(f, p, v)
    BY <1>1 DEF StartsBlock, WriteObject
  <2>2. FdnOf(p) \in 0 .. MaxFdn /\ IdOf(p) = 0
    BY <2>1, PlaceIs, PositionIs
  <2> QED
    BY <2>1, <2>2, WriteNewChanges
<1>2. CASE ~StartsBlock(f, p)
  <2>1. x = WriteInternal(f, p, v)
    BY <1>2 DEF WriteObject
  <2> QED
    BY <1>2, <2>1, WriteInternalChanges
<1> QED
  BY <1>1, <1>2

LEMMA OpenedCalm ==
  ASSUME Idle(dev), NEW f \in Files, NEW x, x = Opened(f)
  PROVE  /\ Calm(dev, x) /\ x.ret \in {"ok", "nopage"}
         /\ x.ret # "ok" /\ Tidy(dev, <<f, 0>>) /\ <<f, 0>> \notin stale =>
              x.home[<<f, 0>>].ts # dev.home[<<f, 0>>].ts \/ Content(dev, <<f, 0>>, 0) = 0
<1>1. <<f, 0>> \in Groups /\ 0 \in Ids
  BY GroupIs, Sizes
<1>2. x = PutBack(BufGetEx(dev, <<f, 0>>, 0))
  BY DEF Opened
<1> QED
  BY <1>1, <1>2, PutBackCalm

LEMMA ReadObjectCalm ==
  ASSUME Idle(dev), NEW f \in Files, NEW p \in Positions, NEW x, x = ReadObject(f, p), NEW g, g = <<f, FdnOf(p)>>
  PROVE  /\ Calm(dev, x)
         /\ dev.home[g] # NoBlock => x.ret \in {"ok", "nopage"}
         /\ dev.home[g] # NoBlock /\ x.ret # "ok" /\ Tidy(dev, g) /\ g \notin stale =>
              x.home[g].ts # dev.home[g].ts \/ Content(dev, g, IdOf(p)) = 0
<1>0. g \in Groups /\ IdOf(p) \in Ids /\ Sound(dev)
  BY PlaceIs, PositionIs, GroupIs DEF Idle
<1>1. CASE dev.home[g] = NoBlock
  BY <1>0, <1>1, AnswerCalm DEF ReadObject
<1>2. CASE dev.home[g] # NoBlock
  <2>1. x = PutBack(BufGetEx(dev, g, IdOf(p)))
    BY <1>2 DEF ReadObject
  <2> QED
    BY <1>0, <2>1, PutBackCalm
<1> QED
  BY <1>1, <1>2

\* uffs_RenameObject: the file information is written and its group covered.
LEMMA MoveObjectChanges ==
  ASSUME Idle(dev), dev.cuts = {}, NEW f \in Files, NEW g, g = <<f, 0>>, g \in Tree(dev.home), NEW v \in Vers,
         NEW x, x = MoveObject(f, v)
  PROVE  Changes(x, g, 0, v) /\ (x.ret = "ok" => DirtyIds(x, g) = {})
<1>0. g \in Groups /\ 0 \in Ids
  BY GroupIs, Sizes
<1>1. PICK o : o = Opened(f)
  OBVIOUS
<1>2. Idle(o) /\ SameTree(dev, o) /\ Calm(dev, o)
  BY <1>1, OpenedIs, OpenedCalm DEF Ended
<1>3. CASE o.ret # "ok"
  <2>1. x = o
    BY <1>1, <1>3 DEF MoveObject
  <2> QED
    BY <1>0, <1>2, <1>3, <2>1, CalmChanges
<1>4. CASE o.ret = "ok"
  <2>1. PICK y : y = BufGetEx(o, g, 0)
    OBVIOUS
  <2>2. Calm(dev, y)
    BY <1>0, <1>2, <2>1, GetCalm, CalmThen
  <2>3. x = IF y.ret = "ok" THEN FlushGroupEx(PutWritten(y, v), g, TRUE) ELSE y
    BY <1>1, <1>4, <2>1 DEF MoveObject
  <2>4. CASE NotGot(o, y)
    <3>1. x = y /\ x.ret = "nopage"
      BY <2>3, <2>4 DEF NotGot
    <3> QED
      BY <1>0, <2>2, <3>1, CalmChanges
  <2>5. CASE Got(o, y, g, 0)
    <3>1. PICK z : z = PutWritten(y, v)
      OBVIOUS
    <3>2. PICK force \in BOOLEAN : force = TRUE
      OBVIOUS
    <3>3. x = FlushGroupEx(z, g, force)
      BY <2>3, <2>5, <3>1, <3>2 DEF Got
    <3>4. /\ Sound(y) /\ AtHome(y) /\ Holds(y, g, 0) /\ y.ret = "ok" /\ Tree(y.home) = Tree(dev.home)
          /\ y.home[g] # NoBlock
      BY <1>2, <2>5 DEF Got, SameTree, Tree
    <3>5. Written(y, z, g) /\ Puts(y, z, g, 0, v)
      BY <1>0, <3>1, <3>4, PutWrittenIs, PutWrittenPuts
    <3>6. Puts(dev, z, g, 0, v)
      BY <1>0, <2>2, <3>4, <3>5, ThenPuts DEF Calm
    <3>7. AllSame(z, x) /\ DirtyIds(x, g) = {} /\ (z.home[g] # NoBlock => Calm(z, x))
      BY <1>0, <3>3, <3>5, FlushGroupSame DEF Written
    <3>8. z.home[g] # NoBlock /\ x.ret = "ok"
      BY <1>0, <3>3, <3>4, <3>5, FlushGroupIs DEF Written, SameTree, Tree
    <3>9. Puts(dev, x, g, 0, v)
      BY <1>0, <3>6, <3>7, <3>8, PutsThen DEF Calm
    <3> QED
      BY <3>7, <3>8, <3>9 DEF Changes, Puts, Beside
  <2> QED
    BY <1>0, <1>2, <2>1, <2>4, <2>5, BufGetIs DEF Idle
<1> QED
  BY <1>3, <1>4

-----------------------------------------------------------------------------
(* Truncating and deleting *)

\* of x all pages of g are gone, and a restart finds those of w or none
Clears(w, x, g) ==
  Tidy(w, g) /\ g \notin stale =>
    /\ Tidy(x, g)
    /\ \A id \in Ids : Content(x, g, id) = 0 /\ Poss(x, g, id) \in SUBSET (Poss(w, g, id) \cup {0})
\* wherever a file has a block, it has its head
Rooted(w, f) == \A T \in Trees(w), n \in 0 .. MaxFdn : <<f, n>> \in T => <<f, 0>> \in T

\* the buffers without those of the pages ids of the groups gone
Pruned(w, x, gone, ids) ==
  x.bufs = [i \in 1 .. Buffers |-> IF w.bufs[i].g \in gone /\ w.bufs[i].id \in ids THEN SpareBuf ELSE w.bufs[i]]

LEMMA PrunedSame ==
  ASSUME NEW w \in Work, Ends(w.bufs), NEW x \in Work, Ends(x.bufs), NEW gone, NEW ids,
         Pruned(w, x, gone, ids), NEW g \in Groups, g \notin gone, x.home[g] = w.home[g],
         \A home \in Homes(x) : \E old \in Homes(w) : home[g] = old[g]
  PROVE  Same(w, x, g)
<1>1. \A i \in 1 .. Buffers : w.bufs[i].g = g \/ x.bufs[i].g = g => x.bufs[i] = w.bufs[i]
  BY Sizes DEF Pruned, SpareBuf
<1>2. Shown(w, x, g)
  BY <1>1 DEF Shown
<1>3. Shown(x, w, g)
  BY <1>1 DEF Shown
<1>4. Shows(w, x, g)
  BY <1>1 DEF Shows
<1> QED
  BY <1>2, <1>3, <1>4, SameIf

\* A group without a block and without buffers that show a page.
LEMMA BareClears ==
  ASSUME NEW w \in Work, Ends(w.bufs), NEW x \in Work, Ends(x.bufs), NEW g \in Groups, x.home[g] = NoBlock,
         DirtyIds(x, g) = {},
         \A i \in 1 .. Buffers : x.bufs[i].mark = "valid" /\ x.bufs[i].g = g => x.bufs[i].ver = 0,
         \A home \in Homes(x) : home[g] = NoBlock \/ \E old \in Homes(w) : home[g] = old[g]
  PROVE  Clears(w, x, g)
<1> SUFFICES ASSUME Tidy(w, g)
             PROVE  /\ Tidy(x, g)
                    /\ \A id \in Ids : Content(x, g, id) = 0 /\ Poss(x, g, id) \in SUBSET (Poss(w, g, id) \cup {0})
  BY DEF Clears
<1>1. Laid(NoBlock) /\ \A id \in Ids : BestVer(NoBlock, id) = 0
  BY NoBlockHas
<1>2. \A id \in Ids : Content(x, g, id) = 0
  BY <1>1 DEF Content
<1>3. Solid(x, g)
  <2>1. \A id \in Ids : Content(x, g, id) # 0 => \A k \in 0 .. id - 1 : Content(x, g, k) # 0
    BY <1>2
  <2> QED
    BY <1>1, <2>1 DEF Solid
<1>4. \A home \in Homes(x) : Laid(home[g])
  BY <1>1 DEF Tidy
<1>5. ASSUME NEW i \in 1 .. Buffers, x.bufs[i].mark = "valid", x.bufs[i].g = g
      PROVE  x.bufs[i].ver = BestVer(x.home[g], x.bufs[i].id)
  <2>1. x.bufs[i].id \in Ids
    BY BufAt DEF Buffer
  <2> QED
    BY <1>1, <1>5, <2>1
<1>6. ASSUME NEW id \in Ids PROVE Poss(x, g, id) \in SUBSET (Poss(w, g, id) \cup {0})
  <2>1. \A home \in Homes(x) : BestVer(home[g], id) = 0 \/ \E old \in Homes(w) : BestVer(home[g], id) = BestVer(old[g], id)
    BY <1>1
  <2> QED
    BY <1>2, <2>1 DEF Poss
<1> QED
  BY <1>2, <1>3, <1>4, <1>5, <1>6 DEF Tidy

\* A restart keeps of an image what is there.
LEMMA ImageKeeps ==
  ASSUME NEW home, \A g \in Groups : home[g] = NoBlock \/ Headed(home[g]), NEW w, w.home = home
  PROVE  \A g \in Groups : Keep(Image(w)[g]) = home[g]
<1> SUFFICES ASSUME NEW g \in Groups PROVE Keep(Image(w)[g]) = home[g]
  OBVIOUS
<1>1. Image(w)[g] = IF home[g] = NoBlock THEN {} ELSE {home[g]}
  BY DEF Image
<1> QED
  BY <1>1, KeepNone, KeepOne

\* do_TruncateObject.
LEMMA TruncateDataClears ==
  ASSUME NEW w, Idle(w), NEW x, Idle(x), NEW f \in Files, DataGone(w, x, f)
  PROVE  /\ \A g \in Groups : IF g \in DataBlocks(f) THEN Clears(w, x, g) ELSE Same(w, x, g)
         /\ \A e \in Files : Rooted(w, e) => Rooted(x, e)
<1>1. /\ w \in Work /\ Ends(w.bufs) /\ HeadsInv(w) /\ x \in Work /\ Ends(x.bufs)
  BY DEF Idle, Sound, Body
<1>2. \A g \in DataBlocks(f) : g \in Groups /\ g[1] = f /\ g[2] >= 1
  BY DEF DataGone
<1>3. /\ x.home = Without(w, f, 1) /\ Pruned(w, x, DataBlocks(f), Ids)
      /\ x.cuts = w.cuts \cup {Image([w EXCEPT !.home = Without(w, f, k)]) : k \in 1 .. MaxFdn}
  BY DEF DataGone, Emptied, Pruned
<1>4. ASSUME NEW home \in Homes(x)
      PROVE  \/ home \in Homes(w)
             \/ \E gone \in SUBSET DataBlocks(f) :
                  \A g \in Groups : home[g] = IF g \in gone THEN NoBlock ELSE w.home[g]
  <2>1. CASE home = x.home
    <3>1. \A g \in Groups : home[g] = IF g \in {h \in DataBlocks(f) : h[2] >= 1} THEN NoBlock ELSE w.home[g]
      BY <1>3, <2>1 DEF Without
    <3>2. PICK gone : gone = {h \in DataBlocks(f) : h[2] >= 1}
      OBVIOUS
    <3>3. gone \in SUBSET DataBlocks(f)
      BY <3>2
    <3> QED
      BY <3>1, <3>2, <3>3
  <2>2. ASSUME NEW image \in x.cuts, home = [g \in Groups |-> Keep(image[g])] PROVE <1>4!2
    <3>1. CASE image \in w.cuts
      BY <2>2, <3>1 DEF Homes
    <3>2. CASE image \notin w.cuts
      <4>1. PICK k \in 1 .. MaxFdn : image = Image([w EXCEPT !.home = Without(w, f, k)])
        BY <1>3, <2>2, <3>2
      <4>2. PICK gone : gone = {h \in DataBlocks(f) : h[2] >= k}
        OBVIOUS
      <4>3. \A g \in Groups : Without(w, f, k)[g] = IF g \in gone THEN NoBlock ELSE w.home[g]
        BY <4>2 DEF Without
      <4>4. PICK h : h = Without(w, f, k)
        OBVIOUS
      <4>5. PICK z : z = [w EXCEPT !.home = h]
        OBVIOUS
      <4>6. z.home = h
        BY <1>1, <4>5 DEF Work
      <4>7. \A g \in Groups : h[g] = NoBlock \/ Headed(h[g])
        BY <1>1, <4>3, <4>4 DEF HeadsInv, Tree
      <4>11. image = Image(z)
        BY <4>1, <4>4, <4>5
      <4>8. \A g \in Groups : Keep(image[g]) = h[g]
        BY <4>6, <4>7, <4>11, ImageKeeps
      <4>9. \A g \in Groups : home[g] = IF g \in gone THEN NoBlock ELSE w.home[g]
        BY <2>2, <4>3, <4>4, <4>8
      <4>10. gone \in SUBSET DataBlocks(f)
        BY <4>2
      <4> QED
        BY <4>9, <4>10
    <3> QED
      BY <3>1, <3>2
  <2> QED
    BY <2>1, <2>2 DEF Homes
<1>5. w.home \in Homes(w)
  BY DEF Homes
<1>6. ASSUME NEW g \in Groups, g \notin DataBlocks(f) PROVE Same(w, x, g)
  <2>1. x.home[g] = w.home[g]
    BY <1>3, <1>6 DEF Without
  <2>2. \A home \in Homes(x) : \E old \in Homes(w) : home[g] = old[g]
    BY <1>4, <1>5, <1>6
  <2> QED
    BY <1>1, <1>3, <1>6, <2>1, <2>2, PrunedSame
<1>7. ASSUME NEW g \in DataBlocks(f) PROVE Clears(w, x, g)
  <2>1. g \in Groups /\ x.home[g] = NoBlock
    BY <1>2, <1>3 DEF Without
  <2>2. \A i \in 1 .. Buffers : x.bufs[i].g # g
    <3>1. \A i \in 1 .. Buffers : w.bufs[i].id \in Ids
      BY <1>1, BufAt DEF Buffer
    <3> QED
      BY <1>3, <2>1, <3>1, Sizes DEF Pruned, SpareBuf
  <2>3. DirtyIds(x, g) = {}
    BY <1>1, <2>2, DirtyIdsAre
  <2>4. \A home \in Homes(x) : home[g] = NoBlock \/ \E old \in Homes(w) : home[g] = old[g]
    BY <1>4, <1>5, <2>1
  <2> QED
    BY <1>1, <2>1, <2>2, <2>3, <2>4, BareClears
<1>8. ASSUME NEW e \in Files, Rooted(w, e), NEW T \in Trees(x), NEW n \in 0 .. MaxFdn, <<e, n>> \in T
      PROVE  <<e, 0>> \in T
  <2>1. PICK home \in Homes(x) : T = Tree(home)
    BY DEF Trees
  <2>2. CASE home \in Homes(w)
    BY <1>8, <2>1, <2>2 DEF Rooted, Trees
  <2>3. CASE \E gone \in SUBSET DataBlocks(f) :
               \A g \in Groups : home[g] = IF g \in gone THEN NoBlock ELSE w.home[g]
    <3>1. PICK gone \in SUBSET DataBlocks(f) :
               \A g \in Groups : home[g] = IF g \in gone THEN NoBlock ELSE w.home[g]
      BY <2>3
    <3>2. <<e, n>> \in Tree(w.home)
      BY <1>8, <2>1, <3>1 DEF Tree
    <3>3. <<e, 0>> \in Tree(w.home)
      BY <1>5, <1>8, <3>2 DEF Rooted, Trees
    <3>4. <<e, 0>> \notin gone
      BY <1>2
    <3> QED
      BY <2>1, <3>1, <3>3, <3>4 DEF Tree
  <2> QED
    BY <1>4, <2>2, <2>3
<1>9. \A e \in Files : Rooted(w, e) => Rooted(x, e)
  BY <1>8 DEF Rooted
<1> QED
  BY <1>6, <1>7, <1>9

\* the buffers of g are those of page 0 and one of page 1 without data
Stripped(w, x, g) ==
  \A i \in 1 .. Buffers : x.bufs[i].mark # "empty" /\ x.bufs[i].g = g =>
    \/ x.bufs[i].id = 1 /\ x.bufs[i].ver = 0
    \/ /\ x.bufs[i].id = 0 /\ x.bufs[i].mark = "valid"
       /\ \E j \in 1 .. Buffers : /\ w.bufs[j].mark = "valid" /\ w.bufs[j].g = g
                                  /\ w.bufs[j].id = 0 /\ w.bufs[j].ver = x.bufs[i].ver
\* z is s with page 1 of g without data, and no dirty page of g but that
HeadMarks(s, z, g) ==
  /\ Sound(s) /\ DirtyIds(s, g) = {} /\ z.home = s.home /\ z.cuts = s.cuts
  /\ \A h \in Groups : h # g => Same(s, z, h)
  /\ Stripped(s, z, g)

LEMMA HeadMarked ==
  ASSUME NEW y, Sound(y), AtHome(y), NEW g \in Groups, Holds(y, g, 1), y.ret = "ok",
         y.home[g] # NoBlock, DirtyIds(y, g) = {},
         NEW z, Sound(z), Emptied(PutWritten(y, 0), z, {g}, Ids \ {0, 1})
  PROVE  \E s : HeadMarks(s, z, g) /\ Calm(y, s) /\ Tree(s.home) = Tree(y.home)
<1>0. 1 \in Ids /\ 0 \in Ids /\ 0 \in Vers
  BY Sizes DEF Ids
<1>1. PICK v : v = 0
  OBVIOUS
<1>2. PICK a : a = PutWritten(y, v)
  OBVIOUS
<1>3. PICK b : Sound(b) /\ WriteFrom(y, b, g, 1, v) /\ a = BufPut(b)
  BY <1>0, <1>1, <1>2, PutWrittenIs
<1>4. PICK s, c : /\ s = y \/ s = FlushMostDirty(y)
                  /\ Sound(s) /\ AtHome(s) /\ Holds(s, g, 1) /\ Marks(s, c, g, 1, v)
                  /\ Sound(c)
                  /\ b = c \/ IsFull(c, g)
  BY <1>3 DEF WriteFrom
<1>5. /\ s \in Work /\ Ends(s.bufs) /\ c \in Work /\ Ends(c.bufs) /\ z \in Work /\ Ends(z.bufs)
      /\ y \in Work /\ Ends(y.bufs)
  BY <1>4 DEF Sound, Body
<1>6. Calm(y, s) /\ Tree(s.home) = Tree(y.home) /\ DirtyIds(s, g) = {}
  <2>1. CASE s = y
    BY <2>1, CalmSelf
  <2>2. CASE s = FlushMostDirty(y)
    <3>1. SameHeld(y, s) /\ SameTree(y, s) /\ Calm(y, s)
      BY <2>2, FlushMostIs, FlushMostCalm
    <3> QED
      BY <3>1 DEF SameHeld, Drains, SameTree
  <2> QED
    BY <1>4, <2>1, <2>2
<1>7. PICK i \in 1 .. Buffers :
        /\ s.bufs[i].ref = 1 /\ s.bufs[i].g = g /\ s.bufs[i].id = 1
        /\ c.bufs = [s.bufs EXCEPT ![i] = [s.bufs[i] EXCEPT !.ver = v, !.mark = "dirty"]]
  BY <1>4 DEF Marks
<1>8. /\ c.bufs[i].mark = "dirty" /\ c.bufs[i].g = g /\ c.bufs[i].id = 1 /\ c.bufs[i].ver = 0
      /\ \A j \in 1 .. Buffers : j # i => c.bufs[j] = s.bufs[j]
  <2>1. DOMAIN s.bufs = 1 .. Buffers /\ s.bufs[i] \in Buffer
    BY <1>5, BufAt
  <2> QED
    BY <1>1, <1>7, <2>1 DEF Buffer
<1>9. b = c
  <2>1. DirtyIds(c, g) \in SUBSET {1}
    <3> SUFFICES ASSUME NEW e \in DirtyIds(c, g) PROVE e = 1
      OBVIOUS
    <3>1. PICK j \in 1 .. Buffers : c.bufs[j].mark = "dirty" /\ c.bufs[j].g = g /\ c.bufs[j].id = e
      BY <1>5, DirtyIdsAre
    <3>2. CASE j = i
      BY <1>8, <3>1, <3>2
    <3>3. CASE j # i
      <4>1. e \in DirtyIds(s, g)
        BY <1>5, <1>8, <3>1, <3>3, DirtyIdsAre
      <4> QED
        BY <1>6, <4>1
    <3> QED
      BY <3>2, <3>3
  <2>2. IsFiniteSet({1}) /\ Cardinality({1}) = 1
    BY FS_Singleton
  <2>3. Cardinality(DirtyIds(c, g)) \in Nat /\ Cardinality(DirtyIds(c, g)) <= 1
    BY <2>1, <2>2, FS_Subset, FS_CardinalityType
  <2>4. Cardinality(DirtyOf(c, g)) = Cardinality(DirtyIds(c, g))
    BY <1>5, DirtyCard
  <2>5. ~IsFull(c, g)
    BY <2>3, <2>4, SizesAssumption DEF IsFull
  <2> QED
    BY <1>4, <2>5
<1>10. /\ Sound(a) /\ Calm(c, a) /\ a.home = c.home /\ a.cuts = c.cuts /\ a \in Work /\ Ends(a.bufs)
       /\ \A j \in 1 .. Buffers : /\ a.bufs[j].mark = c.bufs[j].mark /\ a.bufs[j].g = c.bufs[j].g
                                  /\ a.bufs[j].id = c.bufs[j].id /\ a.bufs[j].ver = c.bufs[j].ver
  <2>1. Sound(a) /\ Calm(c, a)
    BY <1>3, <1>4, <1>9, BufPutIs, PutCalm
  <2>2. DOMAIN c.bufs = 1 .. Buffers /\ \A j \in 1 .. Buffers : c.bufs[j] \in Buffer
    BY <1>5, BufAt
  <2>3. a.home = c.home /\ a.cuts = c.cuts /\ a.bufs = [j \in 1 .. Buffers |-> [c.bufs[j] EXCEPT !.ref = 0]]
    BY <1>3, <1>5, <1>9, <2>2 DEF BufPut, Work
  <2> QED
    BY <2>1, <2>2, <2>3 DEF Buffer, Sound, Body
<1>11. z.home = a.home /\ z.cuts = a.cuts /\ Pruned(a, z, {g}, Ids \ {0, 1})
  BY <1>1, <1>2 DEF Emptied, Pruned
<1>12. c.home = s.home /\ c.cuts = s.cuts
  BY <1>4 DEF Marks
<1>13. ASSUME NEW h \in Groups, h # g PROVE Same(s, z, h)
  <2>1. Puts(s, c, g, 1, v)
    BY <1>0, <1>1, <1>4, MarksPut
  <2>2. Same(s, c, h) /\ Same(c, a, h)
    BY <1>10, <1>13, <2>1 DEF Puts, Calm, AllSame
  <2>3. Same(a, z, h)
    <3>1. h \notin {g} /\ Homes(z) = Homes(a)
      BY <1>11, <1>13 DEF Homes
    <3> QED
      BY <1>5, <1>10, <1>11, <3>1, PrunedSame
  <2> QED
    BY <2>2, <2>3, SameThen
<1>14. Stripped(s, z, g)
  <2> SUFFICES ASSUME NEW k \in 1 .. Buffers, z.bufs[k].mark # "empty", z.bufs[k].g = g
               PROVE  \/ z.bufs[k].id = 1 /\ z.bufs[k].ver = 0
                      \/ /\ z.bufs[k].id = 0 /\ z.bufs[k].mark = "valid"
                         /\ \E j \in 1 .. Buffers : /\ s.bufs[j].mark = "valid" /\ s.bufs[j].g = g
                                                    /\ s.bufs[j].id = 0 /\ s.bufs[j].ver = z.bufs[k].ver
    BY DEF Stripped
  <2>1. z.bufs[k] = a.bufs[k] /\ a.bufs[k].id \notin Ids \ {0, 1}
    BY <1>11 DEF Pruned, SpareBuf
  <2>2. a.bufs[k].id \in {0, 1}
    BY <1>10, <2>1, BufAt DEF Buffer
  <2>3. CASE k = i
    BY <1>8, <1>10, <2>1, <2>3
  <2>4. CASE k # i
    <3>1. /\ s.bufs[k].mark = z.bufs[k].mark /\ s.bufs[k].g = g
          /\ s.bufs[k].id = z.bufs[k].id /\ s.bufs[k].ver = z.bufs[k].ver
      BY <1>8, <1>10, <2>1, <2>4
    <3>2. s.bufs[k].mark # "dirty"
      <4>1. SUFFICES ASSUME s.bufs[k].mark = "dirty" PROVE FALSE
        OBVIOUS
      <4>2. s.bufs[k].id \in DirtyIds(s, g)
        BY <1>5, <3>1, <4>1, DirtyIdsAre
      <4> QED
        BY <1>6, <4>2
    <3>3. s.bufs[k].mark = "valid"
      BY <1>5, <3>1, <3>2, BufAt DEF Buffer
    <3>4. s.bufs[k].id # 1
      BY <1>5, <1>7, <2>4, <3>1 DEF Ends, Single, Bound
    <3> QED
      BY <2>1, <2>2, <3>1, <3>3, <3>4
  <2> QED
    BY <2>3, <2>4
<1>15. HeadMarks(s, z, g)
  BY <1>4, <1>6, <1>10, <1>11, <1>12, <1>13, <1>14 DEF HeadMarks
<1> QED
  BY <1>6, <1>15

\* of x page 0 of g is that of w and the others are gone, and a restart finds what is
\* in w or nothing
Trims(w, x, g) ==
  Tidy(w, g) /\ g \notin stale /\ Content(w, g, 0) # 0 =>
    /\ Tidy(x, g)
    /\ \A id \in Ids : /\ Content(x, g, id) = IF id = 0 THEN Content(w, g, 0) ELSE 0
                       /\ Poss(x, g, id) \in SUBSET (Poss(w, g, id) \cup {0})

\* The page the head is covered with is the one the group holds.
LEMMA HeadPageIs ==
  ASSUME NEW s, NEW z, Sound(z), NEW g \in Groups, HeadMarks(s, z, g), Tidy(s, g)
  PROVE  /\ PageVer(z, g, 0) = Content(s, g, 0)
         /\ \A i \in 1 .. Buffers : z.bufs[i].mark # "empty" /\ z.bufs[i].g = g =>
              \/ z.bufs[i].id = 1 /\ z.bufs[i].ver = 0
              \/ z.bufs[i].id = 0 /\ z.bufs[i].ver = Content(s, g, 0)
<1>1. z \in Work /\ Ends(z.bufs)
  BY DEF Sound, Body
<1>2. Content(s, g, 0) = BestVer(s.home[g], 0)
  BY DEF HeadMarks, Content
<1>3. ASSUME NEW i \in 1 .. Buffers, z.bufs[i].mark # "empty", z.bufs[i].g = g
      PROVE  \/ z.bufs[i].id = 1 /\ z.bufs[i].ver = 0
             \/ z.bufs[i].id = 0 /\ z.bufs[i].ver = Content(s, g, 0)
  BY <1>2, <1>3 DEF HeadMarks, Stripped, Tidy
<1>4. PageVer(z, g, 0) = Content(s, g, 0)
  <2>1. CASE BufFind(z, g, 0) = {}
    BY <1>2, <2>1 DEF PageVer, HeadMarks
  <2>2. CASE BufFind(z, g, 0) # {}
    <3>1. PICK i \in 1 .. Buffers : /\ i = Min(BufFind(z, g, 0))
                                    /\ z.bufs[i].g = g /\ z.bufs[i].id = 0 /\ z.bufs[i].mark # "empty"
      BY <1>1, <2>2, HitIs
    <3>2. PageVer(z, g, 0) = z.bufs[i].ver
      BY <2>2, <3>1 DEF PageVer
    <3> QED
      BY <1>3, <3>1, <3>2
  <2> QED
    BY <2>1, <2>2
<1> QED
  BY <1>3, <1>4

LEMMA HeadCovered ==
  ASSUME NEW s, NEW z, Sound(z), NEW g \in Groups, HeadMarks(s, z, g), g \in Tree(s.home), RoomFor(z, g),
         NEW pages, pages = <<[id |-> 0, ver |-> PageVer(z, g, 0)]>>, Leading(pages),
         NEW x, x = CoverWith(z, g, pages, 1)
  PROVE  /\ Trims(s, x, g) /\ Trees(x) \in SUBSET Trees(s)
         /\ \A h \in Groups : h # g => Same(s, x, h)
<1>1. /\ z \in Work /\ Ends(z.bufs) /\ HeadsInv(z) /\ Body(z)
      /\ z.home = s.home /\ z.cuts = s.cuts /\ s \in Work /\ Ends(s.bufs)
  BY DEF Sound, Body, HeadMarks
<1>2. PICK n, SS, one : n = CoverOf(z, g, pages) /\ SS = Covering(z, g, pages) /\ one = 1
  OBVIOUS
<1>3. /\ Body(x) /\ Kept(z.bufs, x.bufs, g) /\ Rehomed(z, x, g, n, SS) /\ x \in Work /\ Ends(x.bufs)
      /\ Beside(z, x, g)
  BY <1>1, <1>2, CoverWithIs, CoverBeside DEF Flushed, Body
<1>4. Homes(z) = Homes(s) /\ Trees(z) = Trees(s) /\ Tree(z.home) = Tree(s.home) /\ s.home \in Homes(s)
  BY <1>1 DEF Homes, Trees
<1>5. Tree(s.home) \cup {g} = Tree(s.home) /\ Tree(s.home) \in Trees(s)
  BY <1>4 DEF Trees
<1>6. Trees(x) \in SUBSET Trees(s)
  BY <1>3, <1>4, <1>5 DEF Beside
<1>7. ASSUME NEW h \in Groups, h # g PROVE Same(s, x, h)
  <2>1. Same(s, z, h) /\ Same(z, x, h)
    BY <1>3, <1>7 DEF HeadMarks, Beside
  <2> QED
    BY <2>1, SameThen
<1>8. ASSUME Tidy(s, g), g \notin stale, Content(s, g, 0) # 0
      PROVE  /\ Tidy(x, g)
             /\ \A id \in Ids : /\ Content(x, g, id) = IF id = 0 THEN Content(s, g, 0) ELSE 0
                                /\ Poss(x, g, id) \in SUBSET (Poss(s, g, id) \cup {0})
  <2>1. PICK v : v = Content(s, g, 0)
    OBVIOUS
  <2>2. /\ v # 0 /\ pages = <<[id |-> 0, ver |-> v]>>
        /\ \A i \in 1 .. Buffers : z.bufs[i].mark # "empty" /\ z.bufs[i].g = g =>
             (z.bufs[i].id = 1 /\ z.bufs[i].ver = 0) \/ (z.bufs[i].id = 0 /\ z.bufs[i].ver = v)
    BY <1>8, <2>1, HeadPageIs
  <2>3. n \in Block /\ n # NoBlock /\ x.home = [z.home EXCEPT ![g] = n] /\ n.pages = pages
    BY <1>2, <1>3 DEF Rehomed, CoverOf
  <2>4. x.home[g] = n /\ z.home[g] # NoBlock
    BY <1>1, <2>3 DEF Work, Tree
  <2>5. Len(pages) = 1 /\ pages[1].id = 0 /\ pages[1].ver = v
    BY <2>2
  <2>6. Laid(n)
    BY <2>2, <2>3, <2>5 DEF Laid, LaidOut
  <2>7. \A id \in Ids : BestVer(n, id) = IF id = 0 THEN v ELSE 0
    <3> SUFFICES ASSUME NEW id \in Ids PROVE BestVer(n, id) = IF id = 0 THEN v ELSE 0
      OBVIOUS
    <3>1. /\ (\A i \in 1 .. Len(n.pages) : n.pages[i].id # id) => BestVer(n, id) = 0
          /\ \A i \in 1 .. Len(n.pages) :
               n.pages[i].id = id /\ (\A j \in 1 .. Len(n.pages) : j > i => n.pages[j].id # id)
                 => BestVer(n, id) = n.pages[i].ver
      BY <2>3, <2>6, FoundIs
    <3>2. 1 .. Len(n.pages) = {1} /\ n.pages[1].id = 0 /\ n.pages[1].ver = v
      BY <2>3, <2>5
    <3> QED
      BY <3>1, <3>2
  <2>8. /\ DirtyIds(x, g) = {}
        /\ \A j \in 1 .. Buffers : x.bufs[j].mark # "empty" /\ x.bufs[j].g = g =>
             \E i \in 1 .. Buffers : /\ z.bufs[i].mark # "empty" /\ z.bufs[i].g = g
                                     /\ z.bufs[i].id = x.bufs[j].id /\ z.bufs[i].ver = x.bufs[j].ver
    BY <1>1, <1>3, KeptClean
  <2>9. \A id \in Ids : Content(x, g, id) = IF id = 0 THEN v ELSE 0
    BY <2>4, <2>7, <2>8 DEF Content
  <2>10. Solid(x, g)
    <3>1. \A id \in Ids : Content(x, g, id) # 0 => id = 0
      BY <2>9
    <3> QED
      BY <2>4, <2>6, <2>8, <3>1 DEF Solid
  <2>11. ASSUME NEW home \in Homes(x)
         PROVE  home[g] = n \/ \E old \in Homes(s) : home[g] = old[g]
    <3>1. Found3(z, x, g, SS)
      BY <1>1, <1>3, RehomedFound
    <3>2. CASE home = x.home \/ home \in Homes(z)
      BY <1>4, <2>4, <3>2
    <3>3. CASE \E S \in SS : home[g] = Keep(S) /\ \A h \in Groups : h # g => home[h] = z.home[h]
      <4>1. PICK S \in SS : home[g] = Keep(S)
        BY <3>3
      <4>2. Keep(S) = z.home[g] \/ Keep(S) = n
        BY <1>1, <1>2, <2>4, <4>1, CoveringKeeps
      <4> QED
        BY <1>1, <1>4, <4>1, <4>2
    <3> QED
      BY <3>1, <3>2, <3>3 DEF Found3
  <2>12. \A home \in Homes(x) : Laid(home[g])
    BY <1>8, <2>6, <2>11 DEF Tidy
  <2>13. \A i \in 1 .. Buffers : x.bufs[i].mark = "valid" /\ x.bufs[i].g = g =>
           x.bufs[i].ver = BestVer(x.home[g], x.bufs[i].id)
    <3>1. 0 \in Ids /\ 1 \in Ids
      BY Sizes DEF Ids
    <3> QED
      BY <2>2, <2>4, <2>7, <2>8, <3>1
  <2>14. Tidy(x, g)
    BY <2>10, <2>12, <2>13 DEF Tidy
  <2>15. ASSUME NEW id \in Ids PROVE Poss(x, g, id) \in SUBSET (Poss(s, g, id) \cup {0})
    <3>1. {v} \cup {0} \in SUBSET (Poss(s, g, 0) \cup {0})
      BY <2>1 DEF Poss
    <3>2. ASSUME NEW home \in Homes(x) PROVE BestVer(home[g], id) \in Poss(s, g, id) \cup {0}
      <4>1. CASE home[g] = n
        BY <2>7, <3>1, <4>1
      <4>2. CASE \E old \in Homes(s) : home[g] = old[g]
        BY <4>2 DEF Poss
      <4> QED
        BY <2>11, <3>2, <4>1, <4>2
    <3>3. Content(x, g, id) \in Poss(s, g, id) \cup {0}
      BY <2>9, <3>1
    <3> QED
      BY <3>2, <3>3 DEF Poss
  <2> QED
    BY <2>1, <2>9, <2>14, <2>15
<1> QED
  BY <1>6, <1>7, <1>8 DEF Trims

\* do_TruncateInternalWithBlockRecover of the head.
LEMMA TruncateHeadTrims ==
  ASSUME NEW w, Idle(w), NEW g \in Tree(w.home), NEW x, HeadCut(w, x, g)
  PROVE  /\ \A h \in Groups : h # g => Same(w, x, h)
         /\ Trees(x) \in SUBSET Trees(w)
         /\ IF x.ret = "loops" THEN Same(w, x, g) ELSE Trims(w, x, g)
<1>0. g \in Groups /\ w.home[g] # NoBlock /\ 1 \in Ids /\ 0 \in Ids
  BY Sizes DEF Tree, Ids
<1>1. PICK u, y : \E force \in BOOLEAN :
        /\ u = FlushGroupEx(w, g, force) /\ Idle(u) /\ y = BufGetEx(u, g, 1)
        /\ \/ NotGot(u, y) /\ x = [y EXCEPT !.ret = "loops"]
           \/ Got(u, y, g, 1) /\ HeadWritten(y, x, g)
  BY DEF HeadCut
<1>2. PICK force \in BOOLEAN : u = FlushGroupEx(w, g, force)
  BY <1>1
<1>3. Sound(w) /\ Ready(w, g) /\ AtHome(w)
  BY DEF Idle, AtHome, Ready
<1>4. Calm(w, u) /\ DirtyIds(u, g) = {} /\ Tree(u.home) = Tree(w.home)
  BY <1>0, <1>2, <1>3, FlushGroupSame, FlushGroupIs DEF SameTree
<1>5. Calm(u, y)
  BY <1>0, <1>1, GetCalm
<1>6. Calm(w, y)
  BY <1>4, <1>5, CalmThen
<1>7. CASE NotGot(u, y) /\ x = [y EXCEPT !.ret = "loops"]
  <2>1. PICK ret : ret = "loops"
    OBVIOUS
  <2>2. Sound(y) /\ y \in Work /\ x = [y EXCEPT !.ret = ret]
    BY <1>7, <2>1 DEF NotGot, Sound, Body
  <2>3. x.ret = "loops"
    BY <1>7, <2>2 DEF Work
  <2>4. Calm(y, x)
    BY <2>2, AnswerCalm
  <2>5. Calm(w, x)
    BY <1>6, <2>4, CalmThen
  <2> QED
    BY <1>0, <2>3, <2>5 DEF Calm, AllSame
<1>8. CASE Got(u, y, g, 1) /\ HeadWritten(y, x, g)
  <2>1. PICK z, pages : /\ Emptied(PutWritten(y, 0), z, {g}, Ids \ {0, 1}) /\ Sound(z) /\ RoomFor(z, g)
                        /\ pages = <<[id |-> 0, ver |-> PageVer(z, g, 0)]>> /\ Leading(pages)
                        /\ x = CoverWith(z, g, pages, 1)
    BY <1>8 DEF HeadWritten
  <2>2. /\ Sound(y) /\ AtHome(y) /\ Holds(y, g, 1) /\ y.ret = "ok" /\ Tree(y.home) = Tree(u.home)
        /\ DirtyIds(y, g) = {}
    BY <1>4, <1>8 DEF Got, SameTree, Drains
  <2>3. g \in Tree(y.home) /\ y.home[g] # NoBlock
    BY <1>4, <2>2 DEF Tree
  <2>4. PICK s : HeadMarks(s, z, g) /\ Calm(y, s) /\ Tree(s.home) = Tree(y.home)
    BY <1>0, <2>1, <2>2, <2>3, HeadMarked
  <2>5. /\ Trims(s, x, g) /\ Trees(x) \in SUBSET Trees(s)
        /\ \A h \in Groups : h # g => Same(s, x, h)
    BY <1>0, <2>1, <2>3, <2>4, HeadCovered
  <2>6. Calm(w, s)
    BY <1>6, <2>4, CalmThen
  <2>7. Trees(x) \in SUBSET Trees(w)
    BY <2>5, <2>6 DEF Calm
  <2>8. ASSUME NEW h \in Groups, h # g PROVE Same(w, x, h)
    <3>1. Same(w, s, h) /\ Same(s, x, h)
      BY <2>5, <2>6, <2>8 DEF Calm, AllSame
    <3> QED
      BY <3>1, SameThen
  <2>9. Trims(w, x, g)
    <3>1. Same(w, s, g)
      BY <1>0, <2>6 DEF Calm, AllSame
    <3>2. ASSUME Tidy(w, g), g \notin stale, Content(w, g, 0) # 0
          PROVE  /\ Tidy(x, g)
                 /\ \A id \in Ids : /\ Content(x, g, id) = IF id = 0 THEN Content(w, g, 0) ELSE 0
                                    /\ Poss(x, g, id) \in SUBSET (Poss(w, g, id) \cup {0})
      <4>1. /\ Tidy(s, g)
            /\ \A id \in Ids : Content(s, g, id) = Content(w, g, id) /\ Poss(s, g, id) \in SUBSET Poss(w, g, id)
        BY <3>1, <3>2 DEF Same
      <4>2. Content(s, g, 0) = Content(w, g, 0)
        BY <1>0, <4>1
      <4>3. /\ Tidy(x, g)
            /\ \A id \in Ids : /\ Content(x, g, id) = IF id = 0 THEN Content(s, g, 0) ELSE 0
                               /\ Poss(x, g, id) \in SUBSET (Poss(s, g, id) \cup {0})
        BY <2>5, <3>2, <4>1, <4>2 DEF Trims
      <4>4. ASSUME NEW id \in Ids PROVE Poss(x, g, id) \in SUBSET (Poss(w, g, id) \cup {0})
        <5>1. Poss(x, g, id) \in SUBSET (Poss(s, g, id) \cup {0}) /\ Poss(s, g, id) \in SUBSET Poss(w, g, id)
          BY <4>1, <4>3
        <5> QED
          BY <5>1
      <4> QED
        BY <4>2, <4>3, <4>4
    <3> QED
      BY <3>2 DEF Trims
  <2>10. x.ret = "ok"
    BY <1>0, <2>1, CoverWithIs DEF Flushed, Sound
  <2> QED
    BY <2>7, <2>8, <2>9, <2>10
<1> QED
  BY <1>1, <1>7, <1>8

\* All groups are flushed and the head block is erased: its other pages are gone already.
LEMMA HeadGoneClears ==
  ASSUME NEW h, Idle(h), NEW g \in Groups, NEW x, Idle(x), HeadGone(h, x, g)
  PROVE  /\ \A k \in Groups : k # g => Same(h, x, k)
         /\ (\A id \in Ids \ {0} : Content(h, g, id) = 0) => Clears(h, x, g)
         /\ Trees(x) \in SUBSET (Trees(h) \cup {Tree(h.home) \ {g}})
<1>1. PICK a, m : /\ Idle(a) /\ a = FlushSlots(h, Groups) /\ \A s \in 1 .. Slots : a.slots[s] = None
                  /\ Emptied(a, m, {g}, {0}) /\ Idle(m) /\ g \in Tree(m.home)
                  /\ \A s \in 1 .. Slots : m.slots[s] # g
                  /\ x = Erased(m, g)
  BY DEF HeadGone
<1>2. /\ a \in Work /\ Ends(a.bufs) /\ HeadsInv(a) /\ SlotsInv(a) /\ x \in Work /\ Ends(x.bufs)
      /\ Sound(h) /\ AtHome(h)
  BY <1>1 DEF Idle, Sound, Body
<1>3. Calm(h, a) /\ Tree(a.home) = Tree(h.home)
  BY <1>1, <1>2, Sizes, FlushSlotsCalm, FlushSlotsIs DEF Flushes, SameTree
<1>4. \A k \in Groups : DirtyIds(a, k) = {}
  BY <1>1, <1>2, Sizes, NoSlotNoDirt
<1>5. x.home = [m.home EXCEPT ![g] = NoBlock] /\ x.bufs = m.bufs /\ x.cuts = m.cuts \cup {Image(x)}
  <2>1. Bare(m, x, g)
    BY <1>1, ErasedIs
  <2> QED
    BY <2>1 DEF Bare
<1>6. m.home = a.home /\ m.cuts = a.cuts /\ Pruned(a, x, {g}, {0})
  BY <1>1, <1>5 DEF Emptied, Pruned
<1>7. \A k \in Groups : x.home[k] = IF k = g THEN NoBlock ELSE a.home[k]
  BY <1>2, <1>5, <1>6 DEF Work
<1>8. ASSUME NEW home \in Homes(x)
      PROVE  home \in Homes(a) \/ \A k \in Groups : home[k] = IF k = g THEN NoBlock ELSE a.home[k]
  <2>1. CASE home = x.home
    BY <1>7, <2>1
  <2>2. ASSUME NEW image \in x.cuts, home = [k \in Groups |-> Keep(image[k])] PROVE <1>8!2
    <3>1. CASE image \in a.cuts
      BY <2>2, <3>1 DEF Homes
    <3>2. CASE image = Image(x)
      <4>1. PICK y : y = x.home
        OBVIOUS
      <4>2. \A k \in Groups : y[k] = NoBlock \/ Headed(y[k])
        BY <1>2, <1>7, <4>1 DEF HeadsInv, Tree
      <4>3. \A k \in Groups : Keep(image[k]) = y[k]
        BY <3>2, <4>1, <4>2, ImageKeeps
      <4> QED
        BY <1>7, <2>2, <4>1, <4>3
    <3> QED
      BY <1>5, <1>6, <2>2, <3>1, <3>2
  <2> QED
    BY <2>1, <2>2 DEF Homes
<1>9. a.home \in Homes(a)
  BY DEF Homes
<1>10. ASSUME NEW k \in Groups, k # g PROVE Same(h, x, k)
  <2>1. x.home[k] = a.home[k] /\ k \notin {g}
    BY <1>7, <1>10
  <2>2. \A home \in Homes(x) : \E old \in Homes(a) : home[k] = old[k]
    BY <1>8, <1>9, <1>10
  <2>3. Same(a, x, k)
    BY <1>2, <1>6, <1>10, <2>1, <2>2, PrunedSame
  <2>4. Same(h, a, k)
    BY <1>3 DEF Calm, AllSame
  <2> QED
    BY <2>3, <2>4, SameThen
<1>11. ASSUME \A id \in Ids \ {0} : Content(h, g, id) = 0, Tidy(h, g), g \notin stale
       PROVE  /\ Tidy(x, g)
              /\ \A id \in Ids : /\ Content(x, g, id) = 0
                                 /\ Poss(x, g, id) \in SUBSET (Poss(h, g, id) \cup {0})
  <2>1. Same(h, a, g)
    BY <1>3 DEF Calm, AllSame
  <2>2. /\ Tidy(a, g)
        /\ \A id \in Ids : Content(a, g, id) = Content(h, g, id) /\ Poss(a, g, id) \in SUBSET Poss(h, g, id)
    BY <1>11, <2>1 DEF Same
  <2>3. \A id \in Ids : Content(a, g, id) = BestVer(a.home[g], id)
    BY <1>4 DEF Content
  <2>4. \A i \in 1 .. Buffers : x.bufs[i].g = g => x.bufs[i] = a.bufs[i] /\ a.bufs[i].id \in Ids \ {0}
    <3>1. \A i \in 1 .. Buffers : a.bufs[i].id \in Ids
      BY <1>2, BufAt DEF Buffer
    <3> QED
      BY <1>6, <3>1, Sizes DEF Pruned, SpareBuf
  <2>5. ASSUME NEW i \in 1 .. Buffers, x.bufs[i].mark = "valid", x.bufs[i].g = g
        PROVE  x.bufs[i].ver = 0
    <3>1. a.bufs[i].ver = BestVer(a.home[g], a.bufs[i].id)
      BY <2>2, <2>4, <2>5 DEF Tidy
    <3> QED
      BY <1>11, <2>2, <2>3, <2>4, <2>5, <3>1
  <2>6. DirtyIds(x, g) = {}
    <3>1. ASSUME NEW id \in DirtyIds(x, g) PROVE FALSE
      <4>1. PICK i \in 1 .. Buffers : x.bufs[i].mark = "dirty" /\ x.bufs[i].g = g /\ x.bufs[i].id = id
        BY <1>2, DirtyIdsAre
      <4>2. id \in DirtyIds(a, g)
        BY <1>2, <2>4, <4>1, DirtyIdsAre
      <4> QED
        BY <1>4, <4>2
    <3> QED
      BY <3>1
  <2>7. \A home \in Homes(x) : home[g] = NoBlock \/ \E old \in Homes(a) : home[g] = old[g]
    BY <1>8
  <2>8. Clears(a, x, g)
    BY <1>2, <1>7, <2>5, <2>6, <2>7, BareClears
  <2>9. ASSUME NEW id \in Ids PROVE Poss(x, g, id) \in SUBSET (Poss(h, g, id) \cup {0})
    <3>1. Poss(x, g, id) \in SUBSET (Poss(a, g, id) \cup {0}) /\ Poss(a, g, id) \in SUBSET Poss(h, g, id)
      BY <1>11, <2>2, <2>8 DEF Clears
    <3> QED
      BY <3>1
  <2> QED
    BY <1>11, <2>2, <2>8, <2>9 DEF Clears
<1>12. ASSUME NEW home \in Homes(x) PROVE Tree(home) \in Trees(h) \cup {Tree(h.home) \ {g}}
  <2>1. CASE home \in Homes(a)
    BY <1>3, <2>1 DEF Calm, Trees
  <2>2. CASE \A k \in Groups : home[k] = IF k = g THEN NoBlock ELSE a.home[k]
    <3>1. Tree(home) = Tree(a.home) \ {g}
      BY <2>2 DEF Tree
    <3> QED
      BY <1>3, <3>1
  <2> QED
    BY <1>8, <2>1, <2>2
<1>13. Trees(x) \in SUBSET (Trees(h) \cup {Tree(h.home) \ {g}})
  BY <1>12 DEF Trees
<1>14. (\A id \in Ids \ {0} : Content(h, g, id) = 0) => Clears(h, x, g)
  BY <1>11 DEF Clears
<1> QED
  BY <1>10, <1>13, <1>14

-----------------------------------------------------------------------------
(* Deleting a file *)

\* A group in the tree has its page 0.
LEMMA TreeHasPage ==
  ASSUME NEW w, Sound(w), NEW g \in Tree(w.home), Solid(w, g)
  PROVE  Content(w, g, 0) # 0 /\ BestVer(w.home[g], 0) # 0
<1>1. g \in Groups /\ w.home[g] \in Block /\ Headed(w.home[g]) /\ Laid(w.home[g]) /\ 0 \in Ids
  BY Sizes, HomeAt DEF Sound, Body, HeadsInv, Tree, Solid
<1>2. 1 \in 1 .. Len(w.home[g].pages) /\ w.home[g].pages[1].id = 0
  BY <1>1, BlockAt DEF Headed
<1>3. BestVer(w.home[g], 0) # 0
  BY <1>1, <1>2, FoundIs
<1> QED
  BY <1>1, <1>3, ContentIs DEF Sound, Body

\* A group with a page has a block, or a slot.
LEMMA PageHasHome ==
  ASSUME NEW w, Sound(w), AtHome(w), NEW g \in Groups, NEW id \in Ids, Content(w, g, id) # 0
  PROVE  g \in Tree(w.home)
<1>1. CASE id \in DirtyIds(w, g)
  <2>1. PICK i \in 1 .. Buffers : w.bufs[i].mark = "dirty" /\ w.bufs[i].g = g
    BY <1>1, DirtyIdsAre DEF Sound, Body
  <2> QED
    BY <2>1, Sizes DEF Sound, Body, SlotsInv, AtHome, Tree
<1>2. CASE id \notin DirtyIds(w, g)
  BY <1>2, NoBlockHas DEF Content, Tree
<1> QED
  BY <1>1, <1>2

\* of x a page of f is that of w or is gone, and so is what a restart finds
Shrinks(w, x, f) ==
  \A n \in 0 .. MaxFdn : Tidy(w, <<f, n>>) /\ <<f, n>> \notin stale =>
    /\ Tidy(x, <<f, n>>)
    /\ \A id \in Ids : /\ Content(x, <<f, n>>, id) \in {Content(w, <<f, n>>, id), 0}
                       /\ Poss(x, <<f, n>>, id) \in SUBSET (Poss(w, <<f, n>>, id) \cup {0})
\* all pages of f are gone
Empty(w, f) == \A n \in 0 .. MaxFdn, id \in Ids : Content(w, <<f, n>>, id) = 0

LEMMA ShrinksThen ==
  ASSUME NEW w, NEW x, NEW y, NEW f, Shrinks(w, x, f), Shrinks(x, y, f)
  PROVE  Shrinks(w, y, f)
<1> SUFFICES ASSUME NEW n \in 0 .. MaxFdn, Tidy(w, <<f, n>>), <<f, n>> \notin stale
             PROVE  /\ Tidy(y, <<f, n>>)
                    /\ \A id \in Ids : /\ Content(y, <<f, n>>, id) \in {Content(w, <<f, n>>, id), 0}
                                       /\ Poss(y, <<f, n>>, id) \in SUBSET (Poss(w, <<f, n>>, id) \cup {0})
  BY DEF Shrinks
<1> DEFINE g == <<f, n>>
<1> HIDE DEF g
<1>1. Tidy(x, g) /\ \A id \in Ids : /\ Content(x, g, id) \in {Content(w, g, id), 0}
                                    /\ Poss(x, g, id) \in SUBSET (Poss(w, g, id) \cup {0})
  BY DEF g, Shrinks
<1>2. Tidy(y, g) /\ \A id \in Ids : /\ Content(y, g, id) \in {Content(x, g, id), 0}
                                    /\ Poss(y, g, id) \in SUBSET (Poss(x, g, id) \cup {0})
  BY <1>1 DEF g, Shrinks
<1>3. ASSUME NEW id \in Ids
      PROVE  /\ Content(y, g, id) \in {Content(w, g, id), 0}
             /\ Poss(y, g, id) \in SUBSET (Poss(w, g, id) \cup {0})
  <2>1. /\ Content(x, g, id) \in {Content(w, g, id), 0} /\ Poss(x, g, id) \in SUBSET (Poss(w, g, id) \cup {0})
        /\ Content(y, g, id) \in {Content(x, g, id), 0} /\ Poss(y, g, id) \in SUBSET (Poss(x, g, id) \cup {0})
    BY <1>1, <1>2
  <2> QED
    BY <2>1
<1> QED
  BY <1>2, <1>3 DEF g

LEMMA ClearsShrinks ==
  ASSUME NEW w, NEW x, NEW f,
         \A n \in 0 .. MaxFdn : Same(w, x, <<f, n>>) \/ Clears(w, x, <<f, n>>)
  PROVE  Shrinks(w, x, f)
<1> SUFFICES ASSUME NEW n \in 0 .. MaxFdn, Tidy(w, <<f, n>>), <<f, n>> \notin stale
             PROVE  /\ Tidy(x, <<f, n>>)
                    /\ \A id \in Ids : /\ Content(x, <<f, n>>, id) \in {Content(w, <<f, n>>, id), 0}
                                       /\ Poss(x, <<f, n>>, id) \in SUBSET (Poss(w, <<f, n>>, id) \cup {0})
  BY DEF Shrinks
<1>1. CASE Same(w, x, <<f, n>>)
  BY <1>1 DEF Same
<1>2. CASE Clears(w, x, <<f, n>>)
  BY <1>2 DEF Clears
<1> QED
  BY <1>1, <1>2

\* no torn page of f looks free
Marked(f) == \A n \in 0 .. MaxFdn : <<f, n>> \notin stale
\* a file without holes, group by group
Plain(w, f) ==
  /\ Marked(f) /\ \A n \in 0 .. MaxFdn : Tidy(w, <<f, n>>)
  /\ Content(w, <<f, 0>>, 0) # 0
  /\ \A n \in 1 .. MaxFdn : IF n <= FdnOf(len[f] - 1) THEN Content(w, <<f, n>>, 0) # 0
                                                      ELSE \A id \in Ids : Content(w, <<f, n>>, id) = 0
  /\ len[f] = 0 => \A id \in Ids \ {0} : Content(w, <<f, 0>>, id) = 0
  /\ Rooted(w, f)
\* the files but f are not touched
Spares(w, x, f) == /\ \A g \in Groups : g[1] # f => Same(w, x, g)
                   /\ \A e \in Files : e # f /\ Rooted(w, e) => Rooted(x, e)
\* what is left of f is its file information
HeadOnly(w, f) == /\ Marked(f) /\ \A n \in 0 .. MaxFdn : Tidy(w, <<f, n>>)
                  /\ \A n \in 0 .. MaxFdn, id \in Ids : n > 0 \/ id > 0 => Content(w, <<f, n>>, id) = 0
                  /\ Rooted(w, f)

LEMMA SparesThen ==
  ASSUME NEW w, NEW x, NEW y, NEW f, Spares(w, x, f), Spares(x, y, f)
  PROVE  Spares(w, y, f)
BY SameThen DEF Spares

LEMMA CalmSpares ==
  ASSUME NEW w, NEW x, Calm(w, x), NEW f \in Files
  PROVE  /\ Spares(w, x, f) /\ Shrinks(w, x, f) /\ \A e \in Files : Rooted(w, e) => Rooted(x, e)
         /\ Plain(w, f) => Plain(x, f)
<1>1. \A e \in Files : Rooted(w, e) => Rooted(x, e)
  BY DEF Calm, Rooted
<1>2. \A n \in 0 .. MaxFdn : <<f, n>> \in Groups /\ Same(w, x, <<f, n>>)
  BY GroupIs DEF Calm, AllSame
<1>3. ASSUME Plain(w, f) PROVE Plain(x, f)
  <2>1. \A n \in 0 .. MaxFdn : /\ Tidy(x, <<f, n>>)
                               /\ \A id \in Ids : Content(x, <<f, n>>, id) = Content(w, <<f, n>>, id)
    BY <1>2, <1>3 DEF Plain, Marked, Same
  <2>2. 0 \in 0 .. MaxFdn /\ 0 \in Ids /\ 1 .. MaxFdn \in SUBSET (0 .. MaxFdn)
    BY Sizes
  <2> QED
    BY <1>1, <1>3, <2>1, <2>2 DEF Plain
<1> QED
  BY <1>1, <1>2, <1>3, ClearsShrinks DEF Spares, Calm, AllSame

LEMMA LastFdn ==
  ASSUME NEW n \in 0 .. HeadPages + MaxFdn * Pages
  PROVE  FdnOf(n - 1) \in 0 .. MaxFdn
<1>1. HeadPages \in Int /\ MaxFdn * Pages \in Int
  BY Sizes DEF HeadPages
<1>2. PICK p \in Int : p = n - 1 /\ p >= -1 /\ p < HeadPages + MaxFdn * Pages
  BY <1>1
<1> QED
  BY <1>2, PlaceIs

\* The data of a file is truncated.
LEMMA DataStage ==
  ASSUME NEW o, Idle(o), NEW f \in Files, len[f] \in 0 .. HeadPages + MaxFdn * Pages,
         NEW t, Idle(t), t = TruncateData(o, f)
  PROVE  /\ Spares(o, t, f)
         /\ Plain(o, f) => /\ t.ret = "ok" /\ Shrinks(o, t, f) /\ Rooted(t, f)
                           /\ \A n \in 0 .. MaxFdn : Tidy(t, <<f, n>>)
                           /\ \A n \in 1 .. MaxFdn, id \in Ids : Content(t, <<f, n>>, id) = 0
                           /\ \A id \in Ids : Content(t, <<f, 0>>, id) = Content(o, <<f, 0>>, id)
<1>1. /\ t.ret \in {"ok", "nonode"}
      /\ t.ret = "ok" => DataGone(o, t, f)
      /\ t.ret = "nonode" => t = [o EXCEPT !.ret = "nonode"] /\ \E g \in DataBlocks(f) : o.home[g] = NoBlock
  BY TruncateDataIs
<1>2. Sound(o) /\ AtHome(o) /\ o \in Work /\ 0 \in Ids /\ 0 \in 0 .. MaxFdn
  BY Sizes DEF Idle, Sound, Body
<1>3. CASE t.ret = "nonode"
  <2>1. PICK ret : ret = "nonode"
    OBVIOUS
  <2>2. t = [o EXCEPT !.ret = ret]
    BY <1>1, <1>3, <2>1
  <2>3. Calm(o, t)
    BY <1>2, <2>2, AnswerCalm
  <2>4. ASSUME Plain(o, f) PROVE FALSE
    <3>1. PICK g \in DataBlocks(f) : o.home[g] = NoBlock
      BY <1>1, <1>3
    <3>2. PICK n \in 1 .. FdnOf(len[f] - 1) : g = <<f, n>>
      BY <3>1 DEF DataBlocks
    <3>3. FdnOf(len[f] - 1) \in 0 .. MaxFdn
      BY LastFdn
    <3>4. n \in 1 .. MaxFdn /\ n <= FdnOf(len[f] - 1) /\ n \in 0 .. MaxFdn
      BY <3>2, <3>3, Sizes
    <3>5. Content(o, g, 0) # 0 /\ g \in Groups
      BY <2>4, <3>2, <3>4, GroupIs DEF Plain
    <3> QED
      BY <1>2, <3>1, <3>5, PageHasHome DEF Tree
  <2> QED
    BY <2>3, <2>4, CalmSpares
<1>4. CASE t.ret = "ok"
  <2>1. /\ \A g \in Groups : IF g \in DataBlocks(f) THEN Clears(o, t, g) ELSE Same(o, t, g)
        /\ \A e \in Files : Rooted(o, e) => Rooted(t, e)
    BY <1>1, <1>4, TruncateDataClears
  <2>2. Spares(o, t, f)
    BY <2>1 DEF Spares, DataBlocks
  <2>3. ASSUME Plain(o, f)
        PROVE  /\ Shrinks(o, t, f) /\ Rooted(t, f)
               /\ \A n \in 0 .. MaxFdn : Tidy(t, <<f, n>>)
               /\ \A n \in 1 .. MaxFdn, id \in Ids : Content(t, <<f, n>>, id) = 0
               /\ \A id \in Ids : Content(t, <<f, 0>>, id) = Content(o, <<f, 0>>, id)
    <3>1. \A n \in 0 .. MaxFdn : <<f, n>> \in Groups /\ Tidy(o, <<f, n>>) /\ <<f, n>> \notin stale
      BY <2>3, GroupIs DEF Plain, Marked
    <3>2. \A n \in 0 .. MaxFdn : Same(o, t, <<f, n>>) \/ Clears(o, t, <<f, n>>)
      BY <2>1, <3>1
    <3>3. \A n \in 0 .. MaxFdn : Tidy(t, <<f, n>>)
      BY <3>1, <3>2 DEF Same, Clears
    <3>4. <<f, 0>> \notin DataBlocks(f)
      BY DEF DataBlocks
    <3>5. \A id \in Ids : Content(t, <<f, 0>>, id) = Content(o, <<f, 0>>, id)
      BY <1>2, <2>1, <3>1, <3>4 DEF Same
    <3>6. ASSUME NEW n \in 1 .. MaxFdn, NEW id \in Ids PROVE Content(t, <<f, n>>, id) = 0
      <4>1. FdnOf(len[f] - 1) \in 0 .. MaxFdn /\ n \in 0 .. MaxFdn
        BY LastFdn, Sizes
      <4>2. CASE n <= FdnOf(len[f] - 1)
        <5>1. <<f, n>> \in DataBlocks(f)
          BY <4>1, <4>2 DEF DataBlocks
        <5> QED
          BY <2>1, <3>1, <4>1, <5>1 DEF Clears
      <4>3. CASE ~(n <= FdnOf(len[f] - 1))
        <5>1. <<f, n>> \notin DataBlocks(f)
          BY <4>1, <4>3 DEF DataBlocks
        <5> QED
          BY <2>1, <2>3, <3>1, <4>1, <4>3, <5>1 DEF Same, Plain
      <4> QED
        BY <4>2, <4>3
    <3> QED
      BY <2>1, <2>3, <3>2, <3>3, <3>5, <3>6, ClearsShrinks DEF Plain
  <2> QED
    BY <1>4, <2>2, <2>3
<1> QED
  BY <1>1, <1>3, <1>4

\* And its head, unless page 1 is asked for again and again.
LEMMA HeadStage ==
  ASSUME NEW t, Idle(t), NEW f \in Files, <<f, 0>> \in Tree(t.home),
         NEW h, h = IF t.ret = "ok" /\ len[f] > 0 THEN TruncateHead(t, f) ELSE t
  PROVE  /\ Spares(t, h, f)
         /\ /\ t.ret = "ok" /\ Rooted(t, f) /\ Content(t, <<f, 0>>, 0) # 0 /\ Marked(f)
            /\ \A n \in 0 .. MaxFdn : Tidy(t, <<f, n>>)
            /\ \A n \in 1 .. MaxFdn, id \in Ids : Content(t, <<f, n>>, id) = 0
            /\ len[f] \in Nat
            /\ len[f] = 0 => \A id \in Ids \ {0} : Content(t, <<f, 0>>, id) = 0
            => /\ Shrinks(t, h, f) /\ Rooted(h, f)
               /\ h.ret # "loops" => HeadOnly(h, f)
<1> DEFINE g == <<f, 0>>
<1>0. g \in Groups /\ \A n \in 0 .. MaxFdn : <<f, n>> \in Groups /\ (n # 0 => <<f, n>> # g)
  BY GroupIs, Sizes
<1>1. CASE ~(t.ret = "ok" /\ len[f] > 0)
  <2>1. Spares(t, h, f) /\ Shrinks(t, h, f) /\ h = t
    BY <1>1, CalmSelf, CalmSpares
  <2>2. Ids \in SUBSET Nat
    BY Sizes
  <2> QED
    BY <1>1, <2>1, <2>2 DEF HeadOnly
<1>2. CASE t.ret = "ok" /\ len[f] > 0
  <2>1. HeadCut(t, h, g)
    BY <1>2, TruncateHeadIs
  <2>2. /\ \A k \in Groups : k # g => Same(t, h, k)
        /\ Trees(h) \in SUBSET Trees(t)
        /\ IF h.ret = "loops" THEN Same(t, h, g) ELSE Trims(t, h, g)
    BY <2>1, TruncateHeadTrims
  <2>3. \A e \in Files : Rooted(t, e) => Rooted(h, e)
    BY <2>2 DEF Rooted
  <2>4. Spares(t, h, f)
    BY <2>2, <2>3 DEF Spares
  <2>5. ASSUME /\ t.ret = "ok" /\ Rooted(t, f) /\ Content(t, g, 0) # 0 /\ Marked(f)
               /\ \A n \in 0 .. MaxFdn : Tidy(t, <<f, n>>)
               /\ \A n \in 1 .. MaxFdn, id \in Ids : Content(t, <<f, n>>, id) = 0
        PROVE  /\ Shrinks(t, h, f) /\ Rooted(h, f)
               /\ h.ret # "loops" => HeadOnly(h, f)
    <3>1. Tidy(t, g) /\ \A n \in 0 .. MaxFdn : <<f, n>> \notin stale
      BY <2>5, Sizes DEF Marked
    <3>2. \A n \in 0 .. MaxFdn : n # 0 => Same(t, h, <<f, n>>)
      BY <1>0, <2>2
    <3>3. CASE h.ret = "loops"
      <4>1. \A n \in 0 .. MaxFdn : Same(t, h, <<f, n>>)
        BY <2>2, <3>2, <3>3
      <4> QED
        BY <2>3, <2>5, <3>3, <4>1, ClearsShrinks
    <3>4. CASE h.ret # "loops"
      <4>1. /\ Tidy(h, g)
            /\ \A id \in Ids : /\ Content(h, g, id) = IF id = 0 THEN Content(t, g, 0) ELSE 0
                               /\ Poss(h, g, id) \in SUBSET (Poss(t, g, id) \cup {0})
        BY <2>2, <2>5, <3>1, <3>4, Sizes DEF Trims
      <4>2. ASSUME NEW n \in 0 .. MaxFdn, Tidy(t, <<f, n>>)
            PROVE  /\ Tidy(h, <<f, n>>)
                   /\ \A id \in Ids : /\ Content(h, <<f, n>>, id) \in {Content(t, <<f, n>>, id), 0}
                                      /\ Poss(h, <<f, n>>, id) \in SUBSET (Poss(t, <<f, n>>, id) \cup {0})
        <5>1. CASE n = 0
          BY <4>1, <5>1
        <5>2. CASE n # 0
          BY <3>1, <3>2, <4>2, <5>2 DEF Same
        <5> QED
          BY <5>1, <5>2
      <4>3. Shrinks(t, h, f) /\ \A n \in 0 .. MaxFdn : Tidy(h, <<f, n>>)
        BY <2>5, <4>2 DEF Shrinks
      <4>4. ASSUME NEW n \in 0 .. MaxFdn, NEW id \in Ids, n > 0 \/ id > 0
            PROVE  Content(h, <<f, n>>, id) = 0
        <5>1. CASE n = 0
          BY <4>1, <4>4, <5>1, Sizes
        <5>2. CASE n # 0
          <6>1. n \in 1 .. MaxFdn
            BY <5>2
          <6> QED
            BY <2>5, <3>1, <3>2, <4>4, <5>2, <6>1 DEF Same
        <5> QED
          BY <5>1, <5>2
      <4> QED
        BY <2>3, <2>5, <4>3, <4>4 DEF HeadOnly
    <3> QED
      BY <3>3, <3>4
  <2> QED
    BY <2>4, <2>5
<1> QED
  BY <1>1, <1>2

\* Everything is flushed and the head block is erased.
LEMMA GoneStage ==
  ASSUME NEW h, Idle(h), NEW f \in Files, NEW x, Idle(x), HeadGone(h, x, <<f, 0>>)
  PROVE  /\ Spares(h, x, f) /\ x.home[<<f, 0>>] = NoBlock
         /\ HeadOnly(h, f) => Shrinks(h, x, f) /\ Rooted(x, f) /\ Empty(x, f)
<1> DEFINE g == <<f, 0>>
<1>0. /\ g \in Groups /\ \A n \in 0 .. MaxFdn : <<f, n>> \in Groups /\ (n # 0 => <<f, n>> # g)
      /\ 0 \in 0 .. MaxFdn /\ 0 \in Ids /\ Ids \in SUBSET Nat
  BY GroupIs, Sizes
<1>1. /\ \A k \in Groups : k # g => Same(h, x, k)
      /\ (\A id \in Ids \ {0} : Content(h, g, id) = 0) => Clears(h, x, g)
      /\ Trees(x) \in SUBSET (Trees(h) \cup {Tree(h.home) \ {g}})
  BY <1>0, HeadGoneClears
<1>2. x.home[g] = NoBlock
  <2>1. PICK m : Idle(m) /\ g \in Tree(m.home) /\ (\A s \in 1 .. Slots : m.slots[s] # g) /\ x = Erased(m, g)
    BY DEF HeadGone
  <2>2. Bare(m, x, g)
    BY <2>1, ErasedIs
  <2> QED
    BY <1>0, <2>1, <2>2 DEF Bare, Idle, Sound, Body, Work
<1>3. Tree(h.home) \in Trees(h)
  BY DEF Trees, Homes
<1>4. ASSUME NEW e \in Files, Rooted(h, e), e # f \/ \A n \in 1 .. MaxFdn : <<f, n>> \notin Tree(h.home)
      PROVE  Rooted(x, e)
  <2> SUFFICES ASSUME NEW T \in Trees(x), NEW n \in 0 .. MaxFdn, <<e, n>> \in T PROVE <<e, 0>> \in T
    BY DEF Rooted
  <2>1. CASE T \in Trees(h)
    BY <1>4, <2>1 DEF Rooted
  <2>2. CASE T = Tree(h.home) \ {g}
    <3>1. <<e, n>> \in Tree(h.home) /\ <<e, n>> # g
      BY <2>2
    <3>2. e # f
      <4>1. SUFFICES ASSUME e = f PROVE FALSE
        OBVIOUS
      <4>2. n \in 1 .. MaxFdn
        BY <3>1, <4>1
      <4> QED
        BY <1>4, <3>1, <4>1, <4>2
    <3> QED
      BY <1>3, <1>4, <2>2, <3>1, <3>2 DEF Rooted
  <2> QED
    BY <1>1, <2>1, <2>2
<1>5. Spares(h, x, f)
  BY <1>1, <1>4 DEF Spares
<1>6. ASSUME HeadOnly(h, f) PROVE Shrinks(h, x, f) /\ Rooted(x, f) /\ Empty(x, f)
  <2>1. Clears(h, x, g)
    BY <1>0, <1>1, <1>6 DEF HeadOnly
  <2>6. Tidy(h, g) /\ \A n \in 0 .. MaxFdn : <<f, n>> \notin stale
    BY <1>0, <1>6 DEF HeadOnly, Marked
  <2>2. \A n \in 0 .. MaxFdn : n # 0 => Same(h, x, <<f, n>>)
    BY <1>0, <1>1
  <2>3. Shrinks(h, x, f)
    <3>1. \A n \in 0 .. MaxFdn : Same(h, x, <<f, n>>) \/ Clears(h, x, <<f, n>>)
      BY <2>1, <2>2
    <3> QED
      BY <3>1, ClearsShrinks
  <2>4. Empty(x, f)
    <3> SUFFICES ASSUME NEW n \in 0 .. MaxFdn, NEW id \in Ids PROVE Content(x, <<f, n>>, id) = 0
      BY DEF Empty
    <3>1. CASE n = 0
      BY <1>0, <2>1, <2>6, <3>1 DEF Clears
    <3>2. CASE n # 0
      <4>1. n > 0
        BY <3>2
      <4> QED
        BY <1>6, <2>2, <2>6, <3>2, <4>1 DEF HeadOnly, Same
    <3> QED
      BY <3>1, <3>2
  <2>5. ASSUME NEW n \in 1 .. MaxFdn, <<f, n>> \in Tree(h.home) PROVE FALSE
    <3>1. n \in 0 .. MaxFdn /\ n > 0
      OBVIOUS
    <3>2. Solid(h, <<f, n>>) /\ Content(h, <<f, n>>, 0) = 0
      BY <1>0, <1>6, <3>1 DEF HeadOnly, Tidy
    <3> QED
      BY <2>5, <3>2, TreeHasPage DEF Idle
  <2> QED
    BY <1>4, <1>6, <2>3, <2>4, <2>5 DEF HeadOnly
<1> QED
  BY <1>2, <1>5, <1>6

\* uffs_DeleteObject: the pages of other files stay, those of the file go, and a restart
\* finds each page of it as it was or not at all.
LEMMA DeleteObjectClears ==
  ASSUME Idle(dev), NEW f \in Files, <<f, 0>> \in Tree(dev.home),
         len[f] \in 0 .. HeadPages + MaxFdn * Pages, NEW x, x = DeleteObject(f)
  PROVE  /\ Spares(dev, x, f)
         /\ Plain(dev, f) =>
              /\ Shrinks(dev, x, f) /\ Rooted(x, f)
              /\ x.ret # "loops" => \/ x.home[<<f, 0>>] = NoBlock /\ Empty(x, f)
                                    \/ x.home[<<f, 0>>] # NoBlock /\ Calm(dev, x)
<1>1. PICK o : /\ o = Opened(f) /\ Idle(o)
               /\ IF o.ret = "ok" THEN DeletedBy(o, x, f) ELSE x = o
  BY DeleteObjectIs
<1>2. /\ Idle(x) /\ Calm(dev, o) /\ Tree(o.home) = Tree(dev.home)
      /\ Spares(dev, o, f) /\ Shrinks(dev, o, f) /\ (\A e \in Files : Rooted(dev, e) => Rooted(o, e))
      /\ Plain(dev, f) => Plain(o, f)
  BY <1>1, DeleteObjectIs, OpenedCalm, OpenedIs, CalmSpares DEF SameTree
<1>3. CASE o.ret # "ok"
  <2>1. x = o /\ x.home[<<f, 0>>] # NoBlock
    BY <1>1, <1>2, <1>3 DEF Tree
  <2> QED
    BY <1>2, <2>1 DEF Plain
<1>4. CASE o.ret = "ok"
  <2>1. PICK t, h : /\ Idle(t) /\ t = TruncateData(o, f) /\ <<f, 0>> \in Tree(t.home)
                    /\ Idle(h) /\ h = IF t.ret = "ok" /\ len[f] > 0 THEN TruncateHead(t, f) ELSE t
                    /\ IF h.ret = "loops" THEN x = h ELSE HeadGone(h, x, <<f, 0>>)
    BY <1>1, <1>4 DEF DeletedBy
  <2>2. /\ Spares(o, t, f)
        /\ Plain(o, f) => /\ t.ret = "ok" /\ Shrinks(o, t, f) /\ Rooted(t, f)
                          /\ \A n \in 0 .. MaxFdn : Tidy(t, <<f, n>>)
                          /\ \A n \in 1 .. MaxFdn, id \in Ids : Content(t, <<f, n>>, id) = 0
                          /\ \A id \in Ids : Content(t, <<f, 0>>, id) = Content(o, <<f, 0>>, id)
    BY <1>1, <2>1, DataStage
  <2>3. /\ Spares(t, h, f)
        /\ Plain(o, f) => /\ Shrinks(t, h, f) /\ Rooted(h, f)
                          /\ h.ret # "loops" => HeadOnly(h, f)
    <3>1. len[f] \in Nat /\ 0 \in Ids
      BY Sizes DEF HeadPages
    <3> QED
      BY <2>1, <2>2, <3>1, HeadStage DEF Plain
  <2>4. Spares(dev, h, f) /\ (Plain(o, f) => Shrinks(dev, h, f))
    BY <1>2, <2>2, <2>3, SparesThen, ShrinksThen
  <2>5. CASE h.ret = "loops"
    BY <1>2, <2>1, <2>3, <2>4, <2>5
  <2>6. CASE h.ret # "loops"
    <3>1. /\ Spares(h, x, f) /\ x.home[<<f, 0>>] = NoBlock
          /\ HeadOnly(h, f) => Shrinks(h, x, f) /\ Rooted(x, f) /\ Empty(x, f)
      BY <1>2, <2>1, <2>6, GoneStage
    <3> QED
      BY <1>2, <2>3, <2>4, <2>6, <3>1, SparesThen, ShrinksThen
  <2> QED
    BY <2>5, <2>6
<1> QED
  BY <1>3, <1>4

-----------------------------------------------------------------------------
(* Positions and pages *)

\* the positions that any file could have
AllPos == -1 .. HeadPages + MaxFdn * Pages - 1

LEMMA PosIs ==
  ASSUME NEW n \in 0 .. MaxFdn, NEW id \in Ids
  PROVE  /\ PosOf(n, id) \in AllPos
         /\ PosOf(n, id) = IF n = 0 THEN id - 1 ELSE HeadPages + (n - 1) * Pages + id
<1>1. Pages \in Nat /\ Pages >= 2 /\ MaxFdn \in Nat /\ HeadPages = Pages - 1 /\ id \in 0 .. Pages - 1
  BY Sizes DEF HeadPages, Ids
<1>2. PICK k : k = MaxFdn * Pages
  OBVIOUS
<1>3. 0 * Pages <= MaxFdn * Pages
  BY <1>1, MoreTimes
<1>4. k \in Nat
  BY <1>1, <1>2, <1>3
<1>5. CASE n = 0
  <2>1. PosOf(n, id) = id - 1
    BY <1>5 DEF PosOf
  <2> QED
    BY <1>1, <1>2, <1>4, <1>5, <2>1 DEF AllPos
<1>6. CASE n # 0
  <2>1. PosOf(n, id) = HeadPages + (n - 1) * Pages + id
    BY <1>1, <1>6 DEF PosOf, StartOf
  <2>2. n \in Nat /\ n - 1 \in Nat /\ n <= MaxFdn /\ n * Pages <= MaxFdn * Pages /\ 0 * Pages <= (n - 1) * Pages
    BY <1>1, <1>6, MoreTimes
  <2>3. PICK j : j = (n - 1) * Pages
    OBVIOUS
  <2>4. j \in Nat /\ j + Pages <= k
    BY <1>1, <1>2, <2>2, <2>3
  <2> QED
    BY <1>1, <1>2, <1>4, <1>6, <2>1, <2>3, <2>4 DEF AllPos
<1> QED
  BY <1>5, <1>6

\* The pages of a block have the positions from its first on, and those of the next
\* block follow.
LEMMA PosOrder ==
  ASSUME NEW n \in 0 .. MaxFdn, NEW id \in Ids, NEW m \in 0 .. MaxFdn, NEW k \in Ids
  PROVE  /\ PosOf(n, id) = PosOf(n, 0) + id
         /\ n < m => PosOf(n, id) < PosOf(m, k)
         /\ PosOf(n, id) < PosOf(n, k) <=> id < k
         /\ PosOf(n, id) < HeadPages <=> n = 0
<1>1. Pages \in Nat /\ Pages >= 2 /\ HeadPages = Pages - 1 /\ id \in 0 .. Pages - 1 /\ k \in 0 .. Pages - 1
      /\ 0 \in Ids
  BY Sizes DEF HeadPages, Ids
<1>2. /\ PosOf(n, id) = IF n = 0 THEN id - 1 ELSE HeadPages + (n - 1) * Pages + id
      /\ PosOf(n, k) = IF n = 0 THEN k - 1 ELSE HeadPages + (n - 1) * Pages + k
      /\ PosOf(n, 0) = IF n = 0 THEN 0 - 1 ELSE HeadPages + (n - 1) * Pages + 0
      /\ PosOf(m, k) = IF m = 0 THEN k - 1 ELSE HeadPages + (m - 1) * Pages + k
  BY <1>1, PosIs
<1>3. n # 0 => n - 1 \in Nat /\ (n - 1) * Pages \in Nat
  <2>1. ASSUME n # 0 PROVE n - 1 \in Nat /\ (n - 1) * Pages \in Nat
    <3>1. n - 1 \in Nat /\ 0 * Pages <= (n - 1) * Pages
      BY <1>1, <2>1, MoreTimes
    <3> QED
      BY <1>1, <3>1
  <2> QED
    BY <2>1
<1>4. PICK j : j = (n - 1) * Pages
  OBVIOUS
<1>5. PosOf(n, id) = PosOf(n, 0) + id /\ (PosOf(n, id) < PosOf(n, k) <=> id < k) /\ (PosOf(n, id) < HeadPages <=> n = 0)
  BY <1>1, <1>2, <1>3, <1>4
<1>6. ASSUME n < m PROVE PosOf(n, id) < PosOf(m, k)
  <2>1. m - 1 \in Nat /\ m # 0 /\ 0 * Pages <= (m - 1) * Pages
    BY <1>1, <1>6, MoreTimes
  <2>2. PICK i : i = (m - 1) * Pages
    OBVIOUS
  <2>3. i \in Nat
    BY <1>1, <2>1, <2>2
  <2>4. CASE n = 0
    BY <1>1, <1>2, <2>1, <2>2, <2>3, <2>4
  <2>5. CASE n # 0
    <3>1. n \in Nat /\ n <= m - 1 /\ n * Pages <= (m - 1) * Pages
      BY <1>1, <1>6, <2>1, MoreTimes
    <3>2. n * Pages = j + Pages /\ j \in Nat
      BY <1>1, <1>3, <1>4, <2>5
    <3> QED
      BY <1>1, <1>2, <1>4, <2>1, <2>2, <2>3, <2>5, <3>1, <3>2
  <2> QED
    BY <2>4, <2>5
<1> QED
  BY <1>5, <1>6

\* Every position is that of one page.
LEMMA PlaceBack ==
  ASSUME NEW p \in AllPos
  PROVE  FdnOf(p) \in 0 .. MaxFdn /\ IdOf(p) \in Ids /\ PosOf(FdnOf(p), IdOf(p)) = p
<1>1. Pages \in Nat /\ Pages >= 2 /\ MaxFdn \in Nat /\ HeadPages = Pages - 1 /\ MaxFdn * Pages \in Int
  BY Sizes DEF HeadPages
<1>2. p \in Int /\ p >= -1 /\ p < HeadPages + MaxFdn * Pages
  BY <1>1 DEF AllPos
<1>3. FdnOf(p) \in 0 .. MaxFdn /\ IdOf(p) \in Ids
  BY <1>2, PlaceIs
<1>4. CASE FdnOf(p) = 0
  BY <1>2, <1>3, <1>4 DEF PosOf, IdOf
<1>5. CASE FdnOf(p) # 0
  <2>1. StartOf(FdnOf(p)) \in Int
    BY <1>1, <1>3, <1>5 DEF StartOf
  <2> QED
    BY <1>2, <1>3, <1>5, <2>1 DEF PosOf, IdOf
<1> QED
  BY <1>3, <1>4, <1>5

LEMMA PlaceOf ==
  ASSUME NEW n \in 0 .. MaxFdn, NEW id \in Ids, NEW p, p = PosOf(n, id)
  PROVE  p \in AllPos /\ FdnOf(p) = n /\ IdOf(p) = id
<1>1. p \in AllPos
  BY PosIs
<1>2. FdnOf(p) \in 0 .. MaxFdn /\ IdOf(p) \in Ids /\ PosOf(FdnOf(p), IdOf(p)) = p
  BY <1>1, PlaceBack
<1>3. PICK m \in 0 .. MaxFdn, k \in Ids : m = FdnOf(p) /\ k = IdOf(p) /\ PosOf(m, k) = p
  BY <1>2
<1>4. p \in Int /\ id \in Nat /\ k \in Nat
  BY <1>1, Sizes DEF AllPos
<1>5. ~(m < n) /\ ~(n < m)
  BY <1>3, <1>4, PosOrder
<1>6. m = n
  BY <1>5
<1>7. ~(k < id) /\ ~(id < k)
  BY <1>3, <1>4, <1>6, PosOrder
<1> QED
  BY <1>1, <1>3, <1>4, <1>6, <1>7

LEMMA PositionsAre == Positions \in SUBSET AllPos
<1>1. HeadPages \in Int /\ MaxFdn * Pages \in Int
  BY Sizes DEF HeadPages
<1>2. ASSUME NEW p \in Positions PROVE p \in AllPos
  <2>1. p \in Int /\ p >= -1 /\ p < HeadPages + MaxFdn * Pages
    BY PositionIs
  <2> QED
    BY <1>1, <2>1 DEF AllPos
<1> QED
  BY <1>2

-----------------------------------------------------------------------------
(* The pages of a file *)

AllTidy(w, f) == \A n \in 0 .. MaxFdn : Tidy(w, <<f, n>>)
\* the pages of f are those in front of position l
Upto(w, f, l) == \A n \in 0 .. MaxFdn, id \in Ids : Content(w, <<f, n>>, id) # 0 <=> PosOf(n, id) < l
\* the versions that may be found at a position
Allowed(c, f, p) == IF p \in Positions THEN c[<<f, p>>] ELSE {0}
Within(w, c, f) ==
  /\ AllTidy(w, f)
  /\ \A n \in 0 .. MaxFdn, id \in Ids : Poss(w, <<f, n>>, id) \in SUBSET Allowed(c, f, PosOf(n, id))
\* the pages of f are those in front of its end, but that a restart counts the last page
\* of a full head block although it is missing
Filled(w, length, r, f) ==
  \/ Upto(w, f, length[f])
  \/ r # 0 /\ length[f] = HeadPages /\ Upto(w, f, HeadPages - 1)

\* What is promised of a file that never had a hole.
PagesInv == /\ view = View(dev) /\ Holed(view) \in SUBSET holed /\ holed \in SUBSET Files
            /\ restarts = 0 => holed = {}
            /\ \A f \in Files \ holed : /\ Marked(f)
                                     /\ Within(dev, cand, f) /\ Filled(dev, len, restarts, f)

LEMMA UptoIs ==
  ASSUME NEW f, NEW w, NEW length, NEW r, Filled(w, length, r, f), length[f] \in Int
  PROVE  \E l \in Int : l <= length[f] /\ Upto(w, f, l)
<1>1. HeadPages \in Int
  BY Sizes DEF HeadPages
<1>2. CASE Upto(w, f, length[f])
  BY <1>2
<1>3. CASE length[f] = HeadPages /\ Upto(w, f, HeadPages - 1)
  <2>1. HeadPages - 1 \in Int /\ HeadPages - 1 <= length[f]
    BY <1>1, <1>3
  <2> QED
    BY <1>3, <2>1
<1> QED
  BY <1>2, <1>3 DEF Filled

\* A read of a page returns what its group holds.
LEMMA ViewShows ==
  ASSUME NEW w, Sound(w), NEW f \in Files, AllTidy(w, f), NEW p \in Positions
  PROVE  View(w)[<<f, p>>] = Content(w, <<f, FdnOf(p)>>, IdOf(p))
<1> DEFINE g == <<f, FdnOf(p)>>
           id == IdOf(p)
<1>1. FdnOf(p) \in 0 .. MaxFdn /\ id \in Ids
  BY PositionsAre, PlaceBack
<1>2. g \in Groups /\ Tidy(w, g) /\ w \in Work /\ Ends(w.bufs)
  BY <1>1, GroupIs DEF AllTidy, Sound, Body
<1>3. View(w)[<<f, p>>] = PageVer(w, g, id)
  BY DEF View, Places
<1> HIDE DEF g, id
<1>4. CASE BufFind(w, g, id) # {}
  <2>1. PICK i \in 1 .. Buffers : i = Min(BufFind(w, g, id)) /\ w.bufs[i].g = g /\ w.bufs[i].id = id
                                  /\ w.bufs[i].mark # "empty"
    BY <1>2, <1>4, HitIs
  <2>2. PageVer(w, g, id) = w.bufs[i].ver
    BY <1>4, <2>1 DEF PageVer
  <2> QED
    BY <1>2, <1>3, <2>1, <2>2, BufShows DEF g, id
<1>5. CASE BufFind(w, g, id) = {}
  <2>1. id \notin DirtyIds(w, g)
    <3>1. SUFFICES ASSUME id \in DirtyIds(w, g) PROVE FALSE
      OBVIOUS
    <3>2. PICK i \in 1 .. Buffers : w.bufs[i].mark = "dirty" /\ w.bufs[i].g = g /\ w.bufs[i].id = id
      BY <1>2, <3>1, DirtyIdsAre
    <3>3. i \in BufFind(w, g, id)
      BY <1>2, <3>2, BufAt DEF BufFind
    <3> QED
      BY <1>5, <3>3
  <2> QED
    BY <1>3, <1>5, <2>1 DEF PageVer, Content, g, id
<1> QED
  BY <1>4, <1>5

\* A file with the pages in front of a position has no hole.
LEMMA UptoNotHoled ==
  ASSUME NEW w, Sound(w), NEW f \in Files, AllTidy(w, f), NEW l \in Int, Upto(w, f, l)
  PROVE  f \notin Holed(View(w))
<1>1. ASSUME NEW p \in Positions PROVE p \in Int /\ (View(w)[<<f, p>>] # 0 <=> p < l)
  <2>1. FdnOf(p) \in 0 .. MaxFdn /\ IdOf(p) \in Ids /\ PosOf(FdnOf(p), IdOf(p)) = p
    BY PositionsAre, PlaceBack
  <2> QED
    BY <2>1, ViewShows, PositionIs DEF Upto
<1>2. PICK v : v = View(w)
  OBVIOUS
<1>3. \A p, q \in Positions : ~(p < q /\ v[<<f, p>>] = 0 /\ v[<<f, q>>] # 0)
  BY <1>1, <1>2
<1>4. f \notin Holed(v)
  BY <1>3 DEF Holed
<1> QED
  BY <1>2, <1>4

\* the groups of a file are not touched
Stays(w, x, f) == \A n \in 0 .. MaxFdn : Same(w, x, <<f, n>>)

\* What is the same for each group of a file.
LEMMA SameFile ==
  ASSUME NEW w, NEW x, NEW f, Stays(w, x, f), AllTidy(w, f), Marked(f)
  PROVE  /\ AllTidy(x, f)
         /\ \A l : Upto(w, f, l) => Upto(x, f, l)
         /\ \A c : Within(w, c, f) => Within(x, c, f)
         /\ \A n \in 0 .. MaxFdn, id \in Ids : Content(x, <<f, n>>, id) = Content(w, <<f, n>>, id)
<1>1. \A n \in 0 .. MaxFdn : /\ Tidy(x, <<f, n>>)
                             /\ \A id \in Ids : /\ Content(x, <<f, n>>, id) = Content(w, <<f, n>>, id)
                                                /\ Poss(x, <<f, n>>, id) \in SUBSET Poss(w, <<f, n>>, id)
  BY DEF Stays, Same, AllTidy, Marked
<1>2. \A l : Upto(w, f, l) => Upto(x, f, l)
  BY <1>1 DEF Upto
<1>3. AllTidy(x, f)
  BY <1>1 DEF AllTidy
<1>4. ASSUME NEW c, Within(w, c, f), NEW n \in 0 .. MaxFdn, NEW id \in Ids
      PROVE  Poss(x, <<f, n>>, id) \in SUBSET Allowed(c, f, PosOf(n, id))
  <2>1. Poss(x, <<f, n>>, id) \in SUBSET Poss(w, <<f, n>>, id)
    BY <1>1
  <2>2. Poss(w, <<f, n>>, id) \in SUBSET Allowed(c, f, PosOf(n, id))
    BY <1>4 DEF Within
  <2> QED
    BY <2>1, <2>2
<1> QED
  BY <1>1, <1>2, <1>3, <1>4 DEF Within

\* A file whose pages are those in front of a position has a head if it has a block.
LEMMA RootedIs ==
  ASSUME StoreInv, NEW f \in Files, AllTidy(dev, f), NEW l \in Int, Upto(dev, f, l)
  PROVE  Rooted(dev, f)
<1> SUFFICES ASSUME NEW n \in 0 .. MaxFdn, <<f, n>> \in Tree(dev.home) PROVE <<f, 0>> \in Tree(dev.home)
  BY IdleTrees DEF StoreInv, Rooted
<1>1. 0 \in 0 .. MaxFdn /\ 0 \in Ids /\ <<f, 0>> \in Groups /\ Sound(dev) /\ AtHome(dev) /\ Tidy(dev, <<f, n>>)
  BY Sizes, GroupIs DEF StoreInv, Idle, AllTidy
<1>2. Content(dev, <<f, n>>, 0) # 0
  BY <1>1, TreeHasPage DEF Tidy
<1>3. PosOf(n, 0) < l /\ PosOf(n, 0) \in Int /\ PosOf(0, 0) \in Int
  BY <1>1, <1>2, PosIs DEF Upto, AllPos
<1>4. n = 0 \/ PosOf(0, 0) < PosOf(n, 0)
  BY <1>1, PosOrder
<1>5. PosOf(0, 0) < l
  BY <1>3, <1>4
<1>6. Content(dev, <<f, 0>>, 0) # 0
  BY <1>1, <1>5 DEF Upto
<1> QED
  BY <1>1, <1>6, PageHasHome

LEMMA PlainIs ==
  ASSUME StoreInv, NEW f \in Files, Exists(f), AllTidy(dev, f), Marked(f), Filled(dev, len, restarts, f)
  PROVE  Plain(dev, f)
<1>0. /\ HeadPages \in Nat /\ HeadPages >= 1 /\ MaxFdn * Pages \in Int
      /\ Ids \in SUBSET Nat /\ 0 \in Ids /\ 0 \in 0 .. MaxFdn
  BY Sizes DEF HeadPages
<1>1. /\ len[f] \in Int /\ 0 <= len[f] /\ len[f] <= HeadPages + MaxFdn * Pages
      /\ HeadPages \in Nat /\ HeadPages >= 1 /\ MaxFdn * Pages \in Int
      /\ Ids \in SUBSET Nat /\ 0 \in Ids /\ 0 \in 0 .. MaxFdn
  <2>1. len[f] \in 0 .. HeadPages + MaxFdn * Pages
    BY HeadIs
  <2> QED
    BY <1>0, <2>1
<1>2. PICK l \in Int : Upto(dev, f, l) /\ (l = len[f] \/ (len[f] = HeadPages /\ l = HeadPages - 1))
  BY <1>1 DEF Filled
<1>3. Rooted(dev, f)
  BY <1>2, RootedIs
<1>4. PosOf(0, 0) = -1
  BY <1>1, PosIs
<1>5. Content(dev, <<f, 0>>, 0) # 0
  BY <1>1, <1>2, <1>4 DEF Upto
<1>6. ASSUME len[f] = 0, NEW id \in Ids \ {0} PROVE Content(dev, <<f, 0>>, id) = 0
  <2>1. PosOf(0, id) = id - 1
    BY <1>1, PosIs
  <2> QED
    BY <1>1, <1>2, <1>6, <2>1 DEF Upto
<1>7. ASSUME NEW n \in 1 .. MaxFdn
      PROVE  IF n <= FdnOf(len[f] - 1) THEN Content(dev, <<f, n>>, 0) # 0
                                       ELSE \A id \in Ids : Content(dev, <<f, n>>, id) = 0
  <2>1. PICK p : p = len[f] - 1
    OBVIOUS
  <2>2. p \in AllPos /\ p \in Int
    BY <1>1, <2>1 DEF AllPos
  <2>3. PICK m \in 0 .. MaxFdn, k \in Ids : m = FdnOf(p) /\ PosOf(m, k) = p
    BY <2>2, PlaceBack
  <2>4. n \in 0 .. MaxFdn /\ n # 0 /\ m \in Int
    BY Sizes
  <2>5. \A id \in Ids : PosOf(n, id) \in Int /\ ~(PosOf(n, id) < HeadPages)
    BY <2>4, PosIs, PosOrder DEF AllPos
  <2>6. len[f] = HeadPages => m = 0
    BY <1>1, <2>1, <2>3, PosOrder
  <2>7. CASE n <= m
    <3>1. PosOf(n, 0) <= PosOf(m, k)
      <4>1. CASE n < m
        BY <1>1, <2>3, <2>4, <2>5, <4>1, PosOrder, <2>2
      <4>2. CASE n = m
        BY <1>1, <2>3, <2>4, <2>5, <4>2, PosOrder, <2>2
      <4> QED
        BY <2>4, <2>7, <4>1, <4>2
    <3>2. l = len[f] /\ PosOf(n, 0) < l
      BY <1>1, <1>2, <2>1, <2>3, <2>4, <2>5, <2>6, <2>7, <3>1
    <3> QED
      BY <1>1, <2>1, <2>3, <2>4, <2>7, <3>2, <1>2 DEF Upto
  <2>8. CASE ~(n <= m)
    <3> SUFFICES ASSUME NEW id \in Ids PROVE Content(dev, <<f, n>>, id) = 0
      BY <2>1, <2>3, <2>8
    <3>1. PosOf(m, k) < PosOf(n, id)
      BY <2>4, <2>8, PosOrder
    <3>2. ~(PosOf(n, id) < l)
      BY <1>1, <1>2, <2>1, <2>2, <2>3, <2>5, <3>1
    <3> QED
      BY <1>2, <2>4, <3>2 DEF Upto
  <2> QED
    BY <2>7, <2>8
<1> QED
  BY <1>3, <1>5, <1>6, <1>7 DEF Plain, AllTidy

-----------------------------------------------------------------------------
(* The calls and the promises *)

\* When a call has ended no cut in it is possible any more.
LEMMA AfterCalm ==
  ASSUME NEW w, Idle(w), After(w)
  PROVE  /\ Calm(w, dev') /\ Sound(dev') /\ dev'.home = w.home /\ dev'.cuts = {}
         /\ \A g : DirtyIds(dev', g) = DirtyIds(w, g)
<1>1. PICK x : x = [w EXCEPT !.cuts = {}] /\ dev' = x
  BY DEF After
<1>2. w \in Work /\ Ends(w.bufs)
  BY DEF Idle, Sound, Body
<1>3. x.home = w.home /\ x.bufs = w.bufs /\ x.cuts = {} /\ Sound(x)
  BY <1>1, <1>2, CutsGone DEF Work, Idle
<1>4. x \in Work /\ Ends(x.bufs)
  BY <1>3 DEF Sound, Body
<1>5. Homes(x) = {w.home} /\ Trees(x) = {Tree(w.home)} /\ w.home \in Homes(w)
  BY <1>3, IdleTrees DEF Homes
<1>6. ASSUME NEW g \in Groups PROVE Same(w, x, g)
  <2>1. Shown(w, x, g) /\ Shown(x, w, g) /\ Shows(w, x, g)
    BY <1>3 DEF Shown, Shows
  <2> QED
    BY <1>2, <1>3, <1>4, <1>5, <2>1, SameIf
<1>7. Trees(x) \in SUBSET Trees(w)
  BY <1>5 DEF Trees
<1>8. \A g : DirtyIds(x, g) = DirtyIds(w, g)
  BY <1>3 DEF DirtyIds, DirtyOf
<1> QED
  BY <1>1, <1>3, <1>6, <1>7, <1>8 DEF Calm, AllSame

LEMMA StaysIs ==
  ASSUME PagesInv, NEW f \in Files \ holed, NEW d, Stays(dev, d, f)
  PROVE  /\ AllTidy(d, f) /\ (\A l : Upto(dev, f, l) => Upto(d, f, l)) /\ Within(d, cand, f)
         /\ \A n \in 0 .. MaxFdn, id \in Ids : Content(d, <<f, n>>, id) = Content(dev, <<f, n>>, id)
<1>1. PICK o : o = dev
  OBVIOUS
<1>2. Within(dev, cand, f) /\ AllTidy(o, f) /\ Marked(f)
  BY <1>1 DEF PagesInv, Within
<1>3. Stays(o, d, f)
  BY <1>1
<1>4. /\ AllTidy(d, f)
      /\ \A l : Upto(o, f, l) => Upto(d, f, l)
      /\ \A c : Within(o, c, f) => Within(d, c, f)
      /\ \A n \in 0 .. MaxFdn, id \in Ids : Content(d, <<f, n>>, id) = Content(o, <<f, n>>, id)
  BY <1>2, <1>3, SameFile
<1>5. \A n \in 0 .. MaxFdn, id \in Ids : Content(d, <<f, n>>, id) = Content(dev, <<f, n>>, id)
  BY <1>1, <1>4
<1>6. (\A l : Upto(dev, f, l) => Upto(d, f, l)) /\ Within(d, cand, f)
  BY <1>1, <1>2, <1>4
<1> QED
  BY <1>4, <1>5, <1>6

LEMMA FileStays ==
  ASSUME StoreInv, PagesInv, NEW w, Idle(w), After(w), NEW f \in Files \ holed, Stays(dev, w, f),
         len'[f] = len[f], restarts' = restarts, \A p \in Positions : cand'[<<f, p>>] = cand[<<f, p>>]
  PROVE  /\ Within(dev', cand', f) /\ Filled(dev', len', restarts', f)
         /\ \A p \in Positions : view'[<<f, p>>] = view[<<f, p>>]
<1>1. Calm(w, dev') /\ Sound(dev')
  BY AfterCalm
<1>2. \A n \in 0 .. MaxFdn : Same(dev, dev', <<f, n>>)
  BY <1>1, GroupIs, SameThen DEF Stays, Calm, AllSame
<1>3. /\ Within(dev, cand, f) /\ Filled(dev, len, restarts, f) /\ AllTidy(dev, f) /\ Sound(dev)
      /\ Marked(f)
  BY DEF PagesInv, Within, StoreInv, Idle
<1>4. /\ AllTidy(dev', f) /\ (\A l : Upto(dev, f, l) => Upto(dev', f, l)) /\ Within(dev', cand, f)
      /\ \A n \in 0 .. MaxFdn, id \in Ids : Content(dev', <<f, n>>, id) = Content(dev, <<f, n>>, id)
  <2>1. PICK d : d = dev'
    OBVIOUS
  <2>2. Stays(dev, d, f)
    BY <1>2, <2>1 DEF Stays
  <2> QED
    BY <2>1, <2>2, StaysIs
<1>5. \A p : Allowed(cand', f, p) = Allowed(cand, f, p)
  BY DEF Allowed
<1>6. Within(dev', cand', f) /\ Filled(dev', len', restarts', f)
  BY <1>3, <1>4, <1>5 DEF Within, Filled
<1>7. ASSUME NEW p \in Positions PROVE view'[<<f, p>>] = view[<<f, p>>]
  <2>1. FdnOf(p) \in 0 .. MaxFdn /\ IdOf(p) \in Ids
    BY PositionsAre, PlaceBack
  <2>2. PICK d : d = dev'
    OBVIOUS
  <2>3. View(d)[<<f, p>>] = Content(d, <<f, FdnOf(p)>>, IdOf(p))
    BY <1>1, <1>4, <2>2, ViewShows
  <2>4. View(dev)[<<f, p>>] = Content(dev, <<f, FdnOf(p)>>, IdOf(p))
    BY <1>3, ViewShows
  <2>5. view' = View(dev') /\ View(dev') = View(d)
    BY <2>2 DEF After
  <2> QED
    BY <1>4, <2>1, <2>2, <2>3, <2>4, <2>5 DEF PagesInv
<1> QED
  BY <1>6, <1>7

\* What holds of each file that is promised holds of all.
LEMMA PagesAre ==
  ASSUME PagesInv, NEW w, Idle(w), After(w), restarts' = restarts, \A f \in Files : len'[f] \in Int,
         \A f \in Files \ holed : /\ Within(dev', cand', f)
                                  /\ f \notin holed' \/ restarts = 0 => Filled(dev', len', restarts', f)
  PROVE  PagesInv'
<1>1. Sound(dev') /\ view' = View(dev') /\ holed' = holed \cup Holed(view')
  BY AfterCalm DEF After
<1>2. Holed(view') \in SUBSET Files
  BY DEF Holed
<1>3. ASSUME restarts' = 0 PROVE holed' = {}
  <2>1. holed = {}
    BY <1>3 DEF PagesInv
  <2>2. ASSUME NEW f \in Files PROVE f \notin Holed(view')
    <3>1. Within(dev', cand', f) /\ Filled(dev', len', restarts', f) /\ len'[f] \in Int
      BY <1>3, <2>1
    <3>2. PICK l \in Int : Upto(dev', f, l)
      BY <3>1, UptoIs
    <3>3. PICK d : d = dev'
      OBVIOUS
    <3>4. f \notin Holed(View(d))
      BY <1>1, <3>1, <3>2, <3>3, UptoNotHoled DEF Within
    <3> QED
      BY <1>1, <3>3, <3>4
  <2> QED
    BY <1>1, <1>2, <2>1, <2>2
<1>4. holed' \in SUBSET Files
  BY <1>1, <1>2 DEF PagesInv
<1>5. \A f \in Files \ holed' : Marked(f)'
  BY <1>1 DEF PagesInv, Marked, After
<1> QED
  BY <1>1, <1>3, <1>4, <1>5 DEF PagesInv

-----------------------------------------------------------------------------
(* A page is written *)

\* In front of the place where a file is written no page is missing, but for the one
\* case of a full head that lacks its last page.
LEMMA LowerAre ==
  ASSUME StoreInv, PagesInv, NEW f \in Files \ holed, NEW p \in Positions, p <= len[f]
  PROVE  /\ \A k \in 0 .. IdOf(p) - 1 : Content(dev, <<f, FdnOf(p)>>, k) # 0
         /\ p = len[f] => Content(dev, <<f, FdnOf(p)>>, IdOf(p)) = 0
         /\ \E l \in Int : /\ Upto(dev, f, l)
                           /\ \/ l = len[f]
                              \/ l = HeadPages - 1 /\ len[f] = HeadPages /\ restarts # 0
<1>1. /\ len[f] \in Int /\ p \in Int /\ HeadPages \in Int
      /\ FdnOf(p) \in 0 .. MaxFdn /\ IdOf(p) \in Ids /\ PosOf(FdnOf(p), IdOf(p)) = p
  <2>1. len[f] \in -1 .. HeadPages + MaxFdn * Pages
    BY DEF StoreInv, Lengthy
  <2>2. HeadPages \in Int /\ MaxFdn * Pages \in Int
    BY Sizes DEF HeadPages
  <2>3. len[f] \in Int
    BY <2>1, <2>2
  <2> QED
    BY <2>2, <2>3, PositionIs, PositionsAre, PlaceBack
<1>2. Filled(dev, len, restarts, f)
  BY DEF PagesInv
<1>3. PICK l \in Int : /\ Upto(dev, f, l)
                       /\ \/ l = len[f]
                          \/ l = HeadPages - 1 /\ len[f] = HeadPages /\ restarts # 0
  BY <1>1, <1>2 DEF Filled
<1>4. ASSUME p = len[f] PROVE Content(dev, <<f, FdnOf(p)>>, IdOf(p)) = 0
  <2>1. ~(PosOf(FdnOf(p), IdOf(p)) < l)
    BY <1>1, <1>3, <1>4
  <2> QED
    BY <1>1, <1>3, <2>1 DEF Upto
<1>5. ASSUME NEW k \in 0 .. IdOf(p) - 1 PROVE Content(dev, <<f, FdnOf(p)>>, k) # 0
  <2>0. IdOf(p) \in Int /\ IdOf(p) # 0
    BY <1>1, <1>5, Sizes DEF Ids
  <2>1. k \in Ids /\ k \in Int /\ k < IdOf(p)
    BY <1>1, <2>0, Sizes DEF Ids
  <2>2. PosOf(FdnOf(p), k) < p /\ PosOf(FdnOf(p), k) \in Int
    <3>1. PosOf(FdnOf(p), k) < PosOf(FdnOf(p), IdOf(p))
      BY <1>1, <2>1, PosOrder
    <3>2. PosOf(FdnOf(p), k) \in Int
      BY <1>1, <2>1, PosIs DEF AllPos
    <3> QED
      BY <1>1, <3>1, <3>2
  <2>3. p # HeadPages
    <3> SUFFICES ASSUME p = HeadPages PROVE FALSE
      OBVIOUS
    <3>1. FdnOf(p) = 1 /\ MaxFdn >= 1
      <4>1. (p - HeadPages) \div Pages = 0
        BY <1>1, Sizes
      <4> QED
        BY <1>1, <4>1, Sizes DEF FdnOf
    <3>2. p = StartOf(FdnOf(p)) /\ FdnOf(p) > 0
      BY <1>1, <3>1, Sizes DEF StartOf
    <3> QED
      BY <2>0, <3>2, PositionIs, PlaceIs
  <2>4. PosOf(FdnOf(p), k) < l
    BY <1>1, <1>3, <2>2, <2>3
  <2> QED
    BY <1>1, <1>3, <2>1, <2>4 DEF Upto
<1> QED
  BY <1>3, <1>4, <1>5

\* x has at position p version v, and else what w has
Rewrites(w, x, f, p, v) ==
  \A n \in 0 .. MaxFdn, i \in Ids :
    Content(x, <<f, n>>, i) = IF PosOf(n, i) = p THEN v ELSE Content(w, <<f, n>>, i)
\* what a restart may find is what it might before, and at p version v as well
Adds(w, x, f, p, v) ==
  \A n \in 0 .. MaxFdn, i \in Ids :
    Poss(x, <<f, n>>, i) \in SUBSET (Poss(w, <<f, n>>, i) \cup (IF PosOf(n, i) = p THEN {v} ELSE {}))

LEMMA RewrittenIs ==
  ASSUME NEW w, NEW x, NEW f, NEW p \in Positions, NEW v, v # 0, AllTidy(w, f), Marked(f),
         Alters(w, x, <<f, FdnOf(p)>>, IdOf(p), v), \A n \in 0 .. MaxFdn : n # FdnOf(p) => Same(w, x, <<f, n>>),
         \A k \in 0 .. IdOf(p) - 1 : Content(w, <<f, FdnOf(p)>>, k) # 0
  PROVE  AllTidy(x, f) /\ Rewrites(w, x, f, p, v) /\ Adds(w, x, f, p, v)
<1>1. p \in AllPos /\ FdnOf(p) \in 0 .. MaxFdn /\ IdOf(p) \in Ids /\ PosOf(FdnOf(p), IdOf(p)) = p
  BY PositionsAre, PlaceBack
<1>2. \A n \in 0 .. MaxFdn : Tidy(w, <<f, n>>) /\ <<f, n>> \notin stale
  BY DEF AllTidy, Marked
<1>3. /\ Tidy(x, <<f, FdnOf(p)>>)
      /\ \A i \in Ids :
           /\ Content(x, <<f, FdnOf(p)>>, i) = IF i = IdOf(p) THEN v ELSE Content(w, <<f, FdnOf(p)>>, i)
           /\ Poss(x, <<f, FdnOf(p)>>, i) \in
                SUBSET (Poss(w, <<f, FdnOf(p)>>, i) \cup (IF i = IdOf(p) THEN {v} ELSE {}))
  BY <1>1, <1>2 DEF Alters
<1>4. ASSUME NEW n \in 0 .. MaxFdn, n # FdnOf(p)
      PROVE  /\ Tidy(x, <<f, n>>)
             /\ \A i \in Ids : /\ Content(x, <<f, n>>, i) = Content(w, <<f, n>>, i)
                               /\ Poss(x, <<f, n>>, i) \in SUBSET Poss(w, <<f, n>>, i)
  BY <1>2, <1>4 DEF Same
<1>5. ASSUME NEW n \in 0 .. MaxFdn, NEW i \in Ids
      PROVE  PosOf(n, i) = p <=> n = FdnOf(p) /\ i = IdOf(p)
  BY <1>1, PlaceOf
<1>6. AllTidy(x, f)
  BY <1>3, <1>4 DEF AllTidy
<1>7. Rewrites(w, x, f, p, v)
  <2> SUFFICES ASSUME NEW n \in 0 .. MaxFdn, NEW i \in Ids
               PROVE  Content(x, <<f, n>>, i) = IF PosOf(n, i) = p THEN v ELSE Content(w, <<f, n>>, i)
    BY DEF Rewrites
  <2>1. CASE n = FdnOf(p)
    BY <1>3, <1>5, <2>1
  <2>2. CASE n # FdnOf(p)
    BY <1>4, <1>5, <2>2
  <2> QED
    BY <2>1, <2>2
<1>8. Adds(w, x, f, p, v)
  <2> SUFFICES ASSUME NEW n \in 0 .. MaxFdn, NEW i \in Ids
               PROVE  Poss(x, <<f, n>>, i) \in
                        SUBSET (Poss(w, <<f, n>>, i) \cup (IF PosOf(n, i) = p THEN {v} ELSE {}))
    BY DEF Adds
  <2>1. CASE n = FdnOf(p)
    BY <1>3, <1>5, <2>1
  <2>2. CASE n # FdnOf(p)
    BY <1>4, <1>5, <2>2
  <2> QED
    BY <2>1, <2>2
<1> QED
  BY <1>6, <1>7, <1>8

\* The end of a file in which a page is written.
LEMMA RewrittenUpto ==
  ASSUME NEW w, NEW x, NEW f, NEW p \in Positions, NEW v, v # 0, Rewrites(w, x, f, p, v),
         NEW l \in Int, Upto(w, f, l), p <= l
  PROVE  Upto(x, f, IF p = l THEN l + 1 ELSE l)
<1> SUFFICES ASSUME NEW n \in 0 .. MaxFdn, NEW i \in Ids
             PROVE  Content(x, <<f, n>>, i) # 0 <=> PosOf(n, i) < IF p = l THEN l + 1 ELSE l
  BY DEF Upto
<1>1. /\ Content(x, <<f, n>>, i) = IF PosOf(n, i) = p THEN v ELSE Content(w, <<f, n>>, i)
      /\ Content(w, <<f, n>>, i) # 0 <=> PosOf(n, i) < l
  BY DEF Rewrites, Upto
<1>2. PosOf(n, i) \in Int /\ p \in Int
  BY PosIs, PositionIs DEF AllPos
<1> QED
  BY <1>1, <1>2

\* the length of a file in which position p was written
Grown(f, p) == len'[f] = IF len[f] < p + 1 THEN p + 1 ELSE len[f]
\* what a restart may find in it
Offered(w, f, p, v) ==
  /\ \A q \in Positions : q # p => cand'[<<f, q>>] = cand[<<f, q>>]
  /\ \/ cand'[<<f, p>>] = cand[<<f, p>>] \cup {v}
     \/ cand'[<<f, p>>] = {v} /\ DirtyIds(w, <<f, FdnOf(p)>>) = {}
Wrote(w, f, p, v) == /\ Alters(dev, w, <<f, FdnOf(p)>>, IdOf(p), v)
                     /\ \A n \in 0 .. MaxFdn : n # FdnOf(p) => Same(dev, w, <<f, n>>)
                     /\ Grown(f, p) /\ Offered(w, f, p, v)

LEMMA WroteContent ==
  ASSUME StoreInv, PagesInv, NEW w, Idle(w), After(w), NEW f \in Files \ holed, NEW p \in Positions, p <= len[f],
         NEW v, v # 0, Wrote(w, f, p, v)
  PROVE  AllTidy(dev', f) /\ Rewrites(dev, dev', f, p, v) /\ Adds(dev, dev', f, p, v)
<1>1. AllTidy(dev, f) /\ Marked(f) /\ \A k \in 0 .. IdOf(p) - 1 : Content(dev, <<f, FdnOf(p)>>, k) # 0
  BY LowerAre DEF PagesInv, Within
<1>2. AllTidy(w, f) /\ Rewrites(dev, w, f, p, v) /\ Adds(dev, w, f, p, v)
  BY <1>1, RewrittenIs DEF Wrote
<1>3. PICK d : d = dev'
  OBVIOUS
<1>4. \A n \in 0 .. MaxFdn : Same(w, d, <<f, n>>)
  BY <1>3, AfterCalm, GroupIs DEF Calm, AllSame
<1>5. \A n \in 0 .. MaxFdn : /\ Tidy(d, <<f, n>>)
                             /\ \A i \in Ids : /\ Content(d, <<f, n>>, i) = Content(w, <<f, n>>, i)
                                               /\ Poss(d, <<f, n>>, i) \in SUBSET Poss(w, <<f, n>>, i)
  BY <1>1, <1>2, <1>4 DEF AllTidy, Marked, Same
<1>6. AllTidy(d, f)
  BY <1>5 DEF AllTidy
<1>7. Rewrites(dev, d, f, p, v)
  BY <1>2, <1>5 DEF Rewrites
<1>8. ASSUME NEW n \in 0 .. MaxFdn, NEW i \in Ids
      PROVE  Poss(d, <<f, n>>, i) \in
               SUBSET (Poss(dev, <<f, n>>, i) \cup (IF PosOf(n, i) = p THEN {v} ELSE {}))
  <2>1. Poss(d, <<f, n>>, i) \in SUBSET Poss(w, <<f, n>>, i)
    BY <1>5
  <2>2. Poss(w, <<f, n>>, i) \in SUBSET (Poss(dev, <<f, n>>, i) \cup (IF PosOf(n, i) = p THEN {v} ELSE {}))
    BY <1>2 DEF Adds
  <2> QED
    BY <2>1, <2>2
<1>9. Adds(dev, d, f, p, v)
  BY <1>8 DEF Adds
<1> QED
  BY <1>3, <1>6, <1>7, <1>9

\* Of a page that is not dirty a restart finds what there is.
LEMMA CleanPoss ==
  ASSUME NEW w, w.cuts = {}, NEW g, NEW id, id \notin DirtyIds(w, g)
  PROVE  Poss(w, g, id) = {Content(w, g, id)}
<1>1. Homes(w) = {w.home}
  BY IdleTrees
<1>2. Content(w, g, id) = BestVer(w.home[g], id)
  BY DEF Content
<1> QED
  BY <1>1, <1>2 DEF Poss

LEMMA WroteWithin ==
  ASSUME StoreInv, PagesInv, NEW w, Idle(w), After(w), NEW f \in Files \ holed, NEW p \in Positions, p <= len[f],
         NEW v, v # 0, Wrote(w, f, p, v)
  PROVE  Within(dev', cand', f)
<1>1. PICK d : d = dev'
  OBVIOUS
<1>2. AllTidy(d, f) /\ Rewrites(dev, d, f, p, v) /\ Adds(dev, d, f, p, v)
  BY <1>1, WroteContent
<1>3. d.cuts = {} /\ \A g : DirtyIds(d, g) = DirtyIds(w, g)
  BY <1>1, AfterCalm
<1>4. PICK c : c = cand'
  OBVIOUS
<1>5. /\ \A q \in Positions : q # p => c[<<f, q>>] = cand[<<f, q>>]
      /\ \/ c[<<f, p>>] = cand[<<f, p>>] \cup {v}
         \/ c[<<f, p>>] = {v} /\ DirtyIds(w, <<f, FdnOf(p)>>) = {}
  BY <1>4 DEF Wrote, Offered
<1>6. ASSUME NEW n \in 0 .. MaxFdn, NEW i \in Ids
      PROVE  Poss(d, <<f, n>>, i) \in SUBSET Allowed(c, f, PosOf(n, i))
  <2>0. PICK q : q = PosOf(n, i)
    OBVIOUS
  <2>1. Poss(dev, <<f, n>>, i) \in SUBSET Allowed(cand, f, q)
    BY <2>0 DEF PagesInv, Within
  <2>2. Poss(d, <<f, n>>, i) \in SUBSET (Poss(dev, <<f, n>>, i) \cup (IF q = p THEN {v} ELSE {}))
    BY <1>2, <2>0 DEF Adds
  <2>3. CASE q # p
    <3>1. Allowed(c, f, q) = Allowed(cand, f, q)
      BY <1>5, <2>3 DEF Allowed
    <3> QED
      BY <2>0, <2>1, <2>2, <2>3, <3>1
  <2>4. CASE q = p /\ c[<<f, p>>] = cand[<<f, p>>] \cup {v}
    <3>1. Allowed(c, f, q) = Allowed(cand, f, q) \cup {v}
      BY <2>4 DEF Allowed
    <3> QED
      BY <2>0, <2>1, <2>2, <3>1
  <2>5. CASE q = p /\ c[<<f, p>>] = {v} /\ DirtyIds(w, <<f, FdnOf(p)>>) = {}
    <3>1. n = FdnOf(p) /\ i = IdOf(p)
      BY <2>0, <2>5, PlaceOf
    <3>2. i \notin DirtyIds(d, <<f, n>>)
      BY <1>3, <2>5, <3>1
    <3>3. Content(d, <<f, n>>, i) = v
      BY <1>2, <2>0, <2>5 DEF Rewrites
    <3>4. Poss(d, <<f, n>>, i) = {v}
      BY <1>3, <3>2, <3>3, CleanPoss
    <3>5. Allowed(c, f, q) = {v}
      BY <2>5 DEF Allowed
    <3> QED
      BY <2>0, <3>4, <3>5
  <2> QED
    BY <1>5, <2>3, <2>4, <2>5
<1>7. Within(d, c, f)
  BY <1>2, <1>6 DEF Within
<1> QED
  BY <1>1, <1>4, <1>7

\* The view of a file in which a page is written.
LEMMA WroteView ==
  ASSUME StoreInv, PagesInv, NEW w, Idle(w), After(w), NEW f \in Files \ holed, NEW p \in Positions, p <= len[f],
         NEW v, v # 0, Wrote(w, f, p, v), NEW q \in Positions
  PROVE  view'[<<f, q>>] = IF q = p THEN v ELSE view[<<f, q>>]
<1>1. PICK d : d = dev'
  OBVIOUS
<1>2. AllTidy(d, f) /\ Rewrites(dev, d, f, p, v) /\ Sound(d)
  BY <1>1, WroteContent, AfterCalm
<1>3. AllTidy(dev, f) /\ Sound(dev) /\ view = View(dev) /\ view' = View(d)
  BY <1>1 DEF PagesInv, Within, StoreInv, Idle, After
<1>4. FdnOf(q) \in 0 .. MaxFdn /\ IdOf(q) \in Ids /\ PosOf(FdnOf(q), IdOf(q)) = q
  BY PositionsAre, PlaceBack
<1>5. View(d)[<<f, q>>] = Content(d, <<f, FdnOf(q)>>, IdOf(q))
  BY <1>2, ViewShows
<1>6. View(dev)[<<f, q>>] = Content(dev, <<f, FdnOf(q)>>, IdOf(q))
  BY <1>3, ViewShows
<1>7. Content(d, <<f, FdnOf(q)>>, IdOf(q)) = IF q = p THEN v ELSE Content(dev, <<f, FdnOf(q)>>, IdOf(q))
  BY <1>2, <1>4 DEF Rewrites
<1> QED
  BY <1>3, <1>5, <1>6, <1>7

LEMMA WroteFilled ==
  ASSUME StoreInv, PagesInv, NEW w, Idle(w), After(w), NEW f \in Files \ holed, NEW p \in Positions, p <= len[f],
         NEW v, v # 0, Wrote(w, f, p, v), restarts' = restarts, f \notin holed' \/ restarts = 0
  PROVE  Filled(dev', len', restarts', f)
<1>1. PICK d : d = dev'
  OBVIOUS
<1>2. AllTidy(d, f) /\ Rewrites(dev, d, f, p, v) /\ Sound(d)
  BY <1>1, WroteContent, AfterCalm
<1>3. PICK l \in Int : /\ Upto(dev, f, l)
                       /\ \/ l = len[f]
                          \/ l = HeadPages - 1 /\ len[f] = HeadPages /\ restarts # 0
  BY LowerAre
<1>4. PICK m : m = len'[f]
  OBVIOUS
<1>5. m = IF len[f] < p + 1 THEN p + 1 ELSE len[f]
  BY <1>4 DEF Wrote, Grown
<1>6. p \in Int /\ len[f] \in Int /\ HeadPages \in Int
  BY <1>3, PositionIs, Sizes DEF HeadPages
<1>7. CASE p <= l
  <2>1. Upto(d, f, IF p = l THEN l + 1 ELSE l)
    BY <1>2, <1>3, <1>7, RewrittenUpto
  <2>2. CASE l = len[f]
    <3>1. m = IF p = l THEN l + 1 ELSE l
      BY <1>5, <1>6, <1>7, <2>2
    <3>2. Upto(d, f, m)
      BY <2>1, <3>1
    <3> QED
      BY <1>1, <1>4, <3>2 DEF Filled
  <2>3. CASE l = HeadPages - 1 /\ len[f] = HeadPages /\ restarts # 0
    <3>1. m = HeadPages
      BY <1>5, <1>6, <1>7, <2>3
    <3>2. Upto(d, f, m) \/ Upto(d, f, HeadPages - 1)
      BY <1>6, <2>1, <2>3, <3>1
    <3> QED
      BY <1>1, <1>4, <2>3, <3>1, <3>2 DEF Filled
  <2> QED
    BY <1>3, <2>2, <2>3
<1>8. CASE ~(p <= l)
  <2>1. p = HeadPages /\ l = HeadPages - 1 /\ restarts # 0
    BY <1>3, <1>6, <1>8
  <2>2. PICK q : q = HeadPages - 1
    OBVIOUS
  <2>3. q \in Positions /\ q < p
    BY <1>6, <2>1, <2>2, StoreAssumption, Sizes DEF Positions, HeadPages
  <2>4. FdnOf(q) \in 0 .. MaxFdn /\ IdOf(q) \in Ids /\ PosOf(FdnOf(q), IdOf(q)) = q
    BY <2>3, PositionsAre, PlaceBack
  <2>5. Content(dev, <<f, FdnOf(q)>>, IdOf(q)) = 0
    BY <1>3, <1>6, <2>1, <2>2, <2>4 DEF Upto
  <2>6. view[<<f, q>>] = 0
    <3>1. AllTidy(dev, f) /\ Sound(dev) /\ view = View(dev)
      BY DEF PagesInv, Within, StoreInv, Idle
    <3> QED
      BY <2>3, <2>5, <3>1, ViewShows
  <2>7. PICK u : u = view'
    OBVIOUS
  <2>8. u[<<f, q>>] = 0 /\ u[<<f, p>>] = v
    BY <1>6, <2>3, <2>6, <2>7, WroteView
  <2>9. f \in Holed(u)
    BY <2>3, <2>8 DEF Holed
  <2> QED
    BY <2>1, <2>7, <2>9 DEF After
<1> QED
  BY <1>6, <1>7, <1>8

-----------------------------------------------------------------------------
(* The calls are those of a page store *)

\* nothing of f changes
FileRests(f) == \A p \in Positions : view'[<<f, p>>] = view[<<f, p>>] /\ cand'[<<f, p>>] = cand[<<f, p>>]

LEMMA PlaceAt ==
  ASSUME NEW x \in Places
  PROVE  x[1] \in Files /\ x[2] \in Positions /\ x = <<x[1], x[2]>>
BY DEF Places

\* A file has dirty pages if one of its groups has.
LEMMA DirtyFile ==
  ASSUME NEW w, Sound(w), NEW f \in Files
  PROVE  (\E i \in 1 .. Buffers : w.bufs[i].mark = "dirty" /\ w.bufs[i].g[1] = f) <=> ~Settled(w, f)
<1>0. w \in Work /\ Ends(w.bufs)
  BY DEF Sound, Body
<1>1. ASSUME NEW i \in 1 .. Buffers, w.bufs[i].mark = "dirty", w.bufs[i].g[1] = f PROVE ~Settled(w, f)
  <2>1. w.bufs[i].g \in Groups
    BY <1>1, Sizes DEF Sound, Body, SlotsInv
  <2>2. PICK n \in 0 .. MaxFdn : w.bufs[i].g = <<f, n>>
    BY <1>1, <2>1 DEF Groups
  <2>3. w.bufs[i].id \in DirtyIds(w, <<f, n>>)
    BY <1>0, <1>1, <2>1, <2>2, DirtyIdsAre
  <2> QED
    BY <2>3 DEF Settled
<1>2. ASSUME ~Settled(w, f)
      PROVE  \E i \in 1 .. Buffers : w.bufs[i].mark = "dirty" /\ w.bufs[i].g[1] = f
  <2>1. PICK n \in 0 .. MaxFdn : DirtyIds(w, <<f, n>>) # {}
    BY <1>2 DEF Settled
  <2>2. PICK id : id \in DirtyIds(w, <<f, n>>)
    BY <2>1
  <2>3. PICK i \in 1 .. Buffers : w.bufs[i].mark = "dirty" /\ w.bufs[i].g = <<f, n>>
    BY <1>0, <2>2, DirtyIdsAre
  <2> QED
    BY <2>3
<1> QED
  BY <1>1, <1>2

\* the promised files with dirty pages are among F
Pends(F) == Pending' \in SUBSET (F \cup holed)

\* A call saves the files without dirty pages.
LEMMA PendsIs ==
  ASSUME NEW w, Idle(w), After(w), NEW F, \A e \in Files \ holed : e \in F \/ Settled(w, e)
  PROVE  Pends(F)
<1> SUFFICES ASSUME NEW e \in Files \ holed, e \in Pending' PROVE e \in F
  BY DEF Pends, Pending
<1>1. PICK d : d = dev'
  OBVIOUS
<1>2. Sound(d) /\ \A g : DirtyIds(d, g) = DirtyIds(w, g)
  BY <1>1, AfterCalm
<1>3. \E i \in 1 .. Buffers : d.bufs[i].mark = "dirty" /\ d.bufs[i].g[1] = e
  BY <1>1 DEF Pending
<1>4. ~Settled(d, e)
  BY <1>2, <1>3, DirtyFile
<1> QED
  BY <1>2, <1>4 DEF Settled

\* A file that is not touched has no more dirty pages than before.
LEMMA StaysSettled ==
  ASSUME StoreInv, NEW w, NEW f \in Files, Stays(dev, w, f)
  PROVE  f \in Pending \/ Settled(w, f)
<1>1. Sound(dev)
  BY DEF StoreInv, Idle
<1>2. CASE Settled(dev, f)
  BY <1>2 DEF Settled, Stays, Same, Rests
<1>3. CASE ~Settled(dev, f)
  BY <1>1, <1>3, DirtyFile DEF Pending
<1> QED
  BY <1>2, <1>3

LEMMA RestIs ==
  ASSUME \A f \in Files \ holed : FileRests(f), Pends(Pending), NEW w, After(w)
  PROVE  PS!Call
<1>1. ASSUME NEW x \in Places, x[1] \notin holed PROVE view'[x] = view[x] /\ cand'[x] = cand[x]
  BY <1>1, PlaceAt DEF FileRests
<1>2. PS!Rest
  BY <1>1 DEF PS!Rest, PS!Unchanged, PS!Promised, PS!Places, Places, PS!Pending, Pends
<1> QED
  BY <1>2 DEF PS!Call, After, PS!Holed, Holed

LEMMA PutIs ==
  ASSUME NEW f \in Files \ holed, NEW p \in Positions, NEW v \in 1 .. MaxWrites,
         \A e \in Files \ (holed \cup {f}) : FileRests(e),
         \A q \in Positions : view'[<<f, q>>] = IF q = p THEN v ELSE view[<<f, q>>],
         \A q \in Positions : q # p => cand'[<<f, q>>] = cand[<<f, q>>],
         \/ cand'[<<f, p>>] = cand[<<f, p>>] \cup {v} /\ Pends(Pending \cup {f})
         \/ cand'[<<f, p>>] = {v} /\ Pends(Pending),
         NEW w, After(w)
  PROVE  PS!Call
<1>0. holed' = holed \cup PS!Holed(view')
  BY DEF After, PS!Holed, Holed
<1>1. ASSUME NEW x \in Places, x[1] \notin holed, x # <<f, p>>
      PROVE  view'[x] = view[x] /\ cand'[x] = cand[x]
  <2>1. x[1] \in Files /\ x[2] \in Positions /\ x = <<x[1], x[2]>>
    BY PlaceAt
  <2>2. CASE x[1] = f
    BY <1>1, <2>1, <2>2
  <2>3. CASE x[1] # f
    BY <1>1, <2>1, <2>3 DEF FileRests
  <2> QED
    BY <2>2, <2>3
<1>2. PS!Unchanged(PS!Promised \ {<<f, p>>})
  BY <1>1 DEF PS!Unchanged, PS!Promised, PS!Places, Places
<1>3. view'[<<f, p>>] = v /\ <<f, p>> \in PS!Places
  BY DEF PS!Places
<1>4. CASE cand'[<<f, p>>] = cand[<<f, p>>] \cup {v} /\ Pends(Pending \cup {f})
  <2>1. PS!Write(<<f, p>>, view'[<<f, p>>])
    BY <1>2, <1>3, <1>4 DEF PS!Write, PS!Pending, Pends
  <2> QED
    BY <1>0, <1>3, <2>1 DEF PS!Call
<1>5. CASE cand'[<<f, p>>] = {v} /\ Pends(Pending)
  <2>1. PS!WriteThrough(<<f, p>>, view'[<<f, p>>])
    BY <1>2, <1>3, <1>5 DEF PS!WriteThrough, PS!Pending, Pends
  <2> QED
    BY <1>0, <1>3, <2>1 DEF PS!Call
<1> QED
  BY <1>4, <1>5

\* the other files keep their length and what a restart may find in them
OthersRest(f) == \A e \in Files \ {f} : /\ len'[e] = len[e]
                                        /\ \A q \in Positions : cand'[<<e, q>>] = cand[<<e, q>>]
\* and so does f if it was not written
Taken(w, f, p, v) == IF w.ret = "ok" THEN Grown(f, p) /\ Offered(w, f, p, v)
                     ELSE len'[f] = len[f] /\ \A q \in Positions : cand'[<<f, q>>] = cand[<<f, q>>]

\* A group that is written leaves the other files.
LEMMA BesideStays ==
  ASSUME NEW w, NEW x, NEW g \in Groups, Beside(w, x, g), NEW e \in Files, e # g[1]
  PROVE  Stays(w, x, e)
<1>1. ASSUME NEW n \in 0 .. MaxFdn PROVE Same(w, x, <<e, n>>)
  <2>1. <<e, n>> \in Groups
    BY GroupIs
  <2>2. <<e, n>>[1] = e
    OBVIOUS
  <2>3. <<e, n>> # g
    BY <2>2
  <2> QED
    BY <2>1, <2>3 DEF Beside
<1> QED
  BY <1>1 DEF Stays

LEMMA WriteStep ==
  ASSUME StoreInv, PagesInv, NEW w, Idle(w), After(w), restarts' = restarts, \A e \in Files : len'[e] \in Int,
         NEW f \in Files, NEW p \in Positions, p <= len[f], NEW v \in 1 .. MaxWrites,
         NEW g, g = <<f, FdnOf(p)>>, Beside(dev, w, g), f \notin holed => Changes(w, g, IdOf(p), v),
         OthersRest(f), f \notin holed => Taken(w, f, p, v)
  PROVE  PagesInv' /\ PS!Call
<1>0. v \in Int /\ v # 0
  BY Sizes
<1>1. g \in Groups /\ g[1] = f /\ FdnOf(p) \in 0 .. MaxFdn
  BY PositionsAre, PlaceBack, GroupIs
<1>2. \A e \in Files \ {f} : Stays(dev, w, e)
  BY <1>1, BesideStays
<1>3. ASSUME NEW e \in Files \ (holed \cup {f})
      PROVE  Within(dev', cand', e) /\ Filled(dev', len', restarts', e) /\ FileRests(e)
  <2>1. /\ Stays(dev, w, e) /\ len'[e] = len[e] /\ \A q \in Positions : cand'[<<e, q>>] = cand[<<e, q>>]
        /\ e \in Files \ holed
    BY <1>2 DEF OthersRest
  <2>2. /\ Within(dev', cand', e) /\ Filled(dev', len', restarts', e)
        /\ \A q \in Positions : view'[<<e, q>>] = view[<<e, q>>]
    BY <2>1, FileStays
  <2> QED
    BY <2>1, <2>2 DEF FileRests
<1>7. \A e \in Files \ (holed \cup {f}) : e \in Pending \/ Settled(w, e)
  BY <1>2, StaysSettled
<1>4. CASE f \in holed
  <2>1. PagesInv'
    BY <1>3, <1>4, PagesAre
  <2>2. Pends(Pending)
    BY <1>4, <1>7, PendsIs
  <2> QED
    BY <1>3, <1>4, <2>1, <2>2, RestIs
<1>5. CASE f \notin holed /\ w.ret # "ok"
  <2>1. Same(dev, w, g)
    BY <1>5 DEF Changes
  <2>2. Stays(dev, w, f)
    <3> SUFFICES ASSUME NEW n \in 0 .. MaxFdn PROVE Same(dev, w, <<f, n>>)
      BY DEF Stays
    <3>1. <<f, n>> \in Groups
      BY GroupIs
    <3> QED
      BY <2>1, <3>1 DEF Beside
  <2>3. /\ f \in Files \ holed /\ len'[f] = len[f] /\ \A q \in Positions : cand'[<<f, q>>] = cand[<<f, q>>]
    BY <1>5 DEF Taken
  <2>4. /\ Within(dev', cand', f) /\ Filled(dev', len', restarts', f)
        /\ \A q \in Positions : view'[<<f, q>>] = view[<<f, q>>]
    BY <2>2, <2>3, FileStays
  <2>5. FileRests(f)
    BY <2>3, <2>4 DEF FileRests
  <2>6. PagesInv'
    BY <1>3, <2>4, PagesAre
  <2>7. Pends(Pending)
    BY <1>7, <2>2, StaysSettled, PendsIs
  <2> QED
    BY <1>3, <2>5, <2>6, <2>7, RestIs
<1>6. CASE f \notin holed /\ w.ret = "ok"
  <2>1. f \in Files \ holed /\ Wrote(w, f, p, v)
    <3>1. Alters(dev, w, g, IdOf(p), v)
      BY <1>6 DEF Changes
    <3>2. Grown(f, p) /\ Offered(w, f, p, v)
      BY <1>6 DEF Taken
    <3>3. ASSUME NEW n \in 0 .. MaxFdn, n # FdnOf(p) PROVE Same(dev, w, <<f, n>>)
      <4>1. <<f, n>> \in Groups /\ <<f, n>> # g
        BY <3>3, GroupIs
      <4> QED
        BY <4>1 DEF Beside
    <3> QED
      BY <1>6, <3>1, <3>2, <3>3 DEF Wrote
  <2>2. Within(dev', cand', f) /\ (f \notin holed' \/ restarts = 0 => Filled(dev', len', restarts', f))
    BY <1>0, <2>1, WroteWithin, WroteFilled
  <2>3. PagesInv'
    BY <1>3, <2>2, PagesAre
  <2>4. \A q \in Positions : view'[<<f, q>>] = IF q = p THEN v ELSE view[<<f, q>>]
    BY <1>0, <2>1, WroteView
  <2>7. Pends(Pending \cup {f})
    BY <1>7, PendsIs
  <2>8. ASSUME DirtyIds(w, <<f, FdnOf(p)>>) = {} PROVE Pends(Pending)
    <3>1. ASSUME Settled(dev, f), NEW n \in 0 .. MaxFdn PROVE DirtyIds(w, <<f, n>>) = {}
      <4>1. CASE n = FdnOf(p)
        BY <2>8, <4>1
      <4>2. CASE n # FdnOf(p)
        BY <2>1, <3>1, <4>2 DEF Wrote, Same, Rests, Settled
      <4> QED
        BY <4>1, <4>2
    <3>2. f \in Pending \/ Settled(w, f)
      <4>1. CASE Settled(dev, f)
        BY <3>1, <4>1 DEF Settled
      <4>2. CASE ~Settled(dev, f)
        BY <4>2, DirtyFile DEF Pending, StoreInv, Idle
      <4> QED
        BY <4>1, <4>2
    <3> QED
      BY <1>7, <3>2, PendsIs
  <2>5. /\ \A q \in Positions : q # p => cand'[<<f, q>>] = cand[<<f, q>>]
        /\ \/ cand'[<<f, p>>] = cand[<<f, p>>] \cup {v} /\ Pends(Pending \cup {f})
           \/ cand'[<<f, p>>] = {v} /\ Pends(Pending)
    BY <2>1, <2>7, <2>8 DEF Wrote, Offered
  <2>6. PS!Call
    BY <1>3, <2>1, <2>4, <2>5, PutIs
  <2> QED
    BY <2>3, <2>6
<1> QED
  BY <1>4, <1>5, <1>6

LEMMA PlacesAre ==
  ASSUME NEW e \in Files, NEW q \in Positions
  PROVE  <<e, q>> \in Places
BY DEF Places

\* c is cand with S at position p of f
Amended(c, f, p, S) == c = [cand EXCEPT ![<<f, p>>] = S]
Amends(c, f, p, S) ==
  \A e \in Files, q \in Positions : c[<<e, q>>] = IF e = f /\ q = p THEN S ELSE cand[<<e, q>>]
LEMMA CandOne ==
  ASSUME HistInv, NEW f \in Files, NEW p \in Positions, NEW S, NEW c, Amended(c, f, p, S)
  PROVE  Amends(c, f, p, S)
<1> SUFFICES ASSUME NEW e \in Files, NEW q \in Positions
             PROVE  c[<<e, q>>] = IF e = f /\ q = p THEN S ELSE cand[<<e, q>>]
  BY DEF Amends
<1>0. c = [cand EXCEPT ![<<f, p>>] = S]
  BY DEF Amended
<1>1. <<f, p>> \in Places /\ <<e, q>> \in Places /\ (<<e, q>> = <<f, p>> <=> e = f /\ q = p)
  BY PlacesAre
<1>2. PICK x, y : x = <<f, p>> /\ y = <<e, q>>
  OBVIOUS
<1>3. c[y] = IF y = x THEN S ELSE cand[y]
  BY <1>0, <1>1, <1>2 DEF HistInv
<1> QED
  BY <1>1, <1>2, <1>3

\* What a call leaves of len and cand, that made the length of f n and the versions of p S.
LEMMA TakenIs ==
  ASSUME StoreInv, HistInv, NEW f \in Files, NEW p \in Positions, NEW n, NEW S, NEW w, NEW v,
         \/ w.ret = "ok" /\ len' = [len EXCEPT ![f] = n] /\ cand' = [cand EXCEPT ![<<f, p>>] = S]
         \/ w.ret # "ok" /\ len' = len /\ cand' = cand,
         w.ret = "ok" => /\ n = IF len[f] < p + 1 THEN p + 1 ELSE len[f]
                         /\ \/ S = cand[<<f, p>>] \cup {v}
                            \/ S = {v} /\ DirtyIds(w, <<f, FdnOf(p)>>) = {}
  PROVE  OthersRest(f) /\ Taken(w, f, p, v)
<1>1. len \in [Files -> -1 .. HeadPages + MaxFdn * Pages]
  BY DEF StoreInv, Lengthy
<1>2. CASE w.ret # "ok"
  <2>1. len' = len /\ cand' = cand
    BY <1>2
  <2> QED
    BY <1>2, <2>1 DEF OthersRest, Taken
<1>3. CASE w.ret = "ok"
  <2>1. PICK c : c = cand'
    OBVIOUS
  <2>2. Amended(c, f, p, S)
    BY <1>3, <2>1 DEF Amended
  <2>3. Amends(c, f, p, S)
    BY <2>2, CandOne
  <2>4. len' = [len EXCEPT ![f] = n]
    BY <1>3
  <2>5. \A e \in Files : len'[e] = IF e = f THEN n ELSE len[e]
    BY <1>1, <2>4
  <2>6. OthersRest(f)
    BY <2>1, <2>3, <2>5 DEF OthersRest, Amends
  <2>7. Grown(f, p)
    BY <1>3, <2>5 DEF Grown
  <2>8. Offered(w, f, p, v)
    BY <1>3, <2>1, <2>3 DEF Offered, Amends
  <2> QED
    BY <1>3, <2>6, <2>7, <2>8 DEF Taken
<1> QED
  BY <1>2, <1>3

\* A group with a page that is not dirty has a block.
LEMMA FreshHome ==
  ASSUME NEW w, NEW f \in Files, NEW p \in Positions, NEW v, v # 0, DirtyIds(w, <<f, FdnOf(p)>>) = {},
         Alters(dev, w, <<f, FdnOf(p)>>, IdOf(p), v), f \notin holed, StoreInv, PagesInv, p <= len[f]
  PROVE  w.home[<<f, FdnOf(p)>>] # NoBlock
<1>1. FdnOf(p) \in 0 .. MaxFdn /\ IdOf(p) \in Ids
  BY PositionsAre, PlaceBack
<1>2. f \in Files \ holed
  OBVIOUS
<1>3. /\ Tidy(dev, <<f, FdnOf(p)>>) /\ <<f, FdnOf(p)>> \notin stale
      /\ \A k \in 0 .. IdOf(p) - 1 : Content(dev, <<f, FdnOf(p)>>, k) # 0
  BY <1>1, <1>2, LowerAre DEF PagesInv, Within, AllTidy, Marked
<1>4. Content(w, <<f, FdnOf(p)>>, IdOf(p)) = v
  BY <1>1, <1>2, <1>3 DEF Alters
<1>5. BestVer(w.home[<<f, FdnOf(p)>>], IdOf(p)) # 0
  BY <1>4 DEF Content
<1> QED
  BY <1>1, <1>5, NoBlockHas

LEMMA LengthsInt ==
  ASSUME StoreInv'
  PROVE  \A e \in Files : len'[e] \in Int
<1>1. len' \in [Files -> -1 .. HeadPages + MaxFdn * Pages]
  BY DEF StoreInv, Lengthy
<1>2. HeadPages \in Int /\ MaxFdn * Pages \in Int
  BY Sizes DEF HeadPages
<1> QED
  BY <1>1, <1>2

\* The page of file information.
LEMMA InfoPlace ==
  ASSUME NEW p \in Int, p = -1
  PROVE  FdnOf(p) = 0 /\ IdOf(p) = 0 /\ p \in Positions /\ 0 \in 0 .. MaxFdn
<1>1. HeadPages \in Nat /\ p < HeadPages
  BY Sizes DEF HeadPages
<1>2. FdnOf(p) = 0 /\ IdOf(p) = 0
  BY <1>1 DEF FdnOf, IdOf
<1>3. p \in Positions
  BY StoreAssumption, <1>1, Sizes DEF Positions
<1> QED
  BY <1>2, <1>3, Sizes

LEMMA CreatePages ==
  ASSUME StoreInv, HistInv, PagesInv, StoreInv', NEW f \in Files, Create(f)
  PROVE  PagesInv' /\ PS!Call
<1>1. PICK v : v = clock + 1
  OBVIOUS
<1>2. v \in Vers /\ v \in 1 .. MaxWrites /\ v = clock' /\ v # 0
  BY <1>1, StampedIs, Sizes DEF Create, StoreInv, Vers
<1>3. PICK p \in Int : p = -1
  OBVIOUS
<1>4. FdnOf(p) = 0 /\ IdOf(p) = 0 /\ p \in Positions /\ 0 \in 0 .. MaxFdn
  BY <1>3, InfoPlace
<1>5. PICK w : /\ w = WriteNew(f, p, v) /\ After(w)
               /\ len' = IF Succeeds(w) /\ w.home[<<f, 0>>] # NoBlock THEN [len EXCEPT ![f] = 0] ELSE len
               /\ cand' = IF Succeeds(w) /\ w.home[<<f, 0>>] # NoBlock
                          THEN [cand EXCEPT ![<<f, p>>] = {v}] ELSE cand
  BY <1>1, <1>2, <1>3 DEF Create
<1>6. restarts' = restarts /\ len[f] = -1
  BY DEF Create, Creatable
<1>7. Idle(w)
  BY <1>2, <1>4, <1>5, WriteNewIs DEF StoreInv, Ended
<1>8. PICK g : g = <<f, FdnOf(p)>>
  OBVIOUS
<1>9. /\ Beside(dev, w, g)
      /\ Content(dev, g, 0) = 0 => Changes(w, g, 0, v)
      /\ w.ret = "ok" => DirtyIds(w, g) = {}
  BY <1>2, <1>4, <1>5, <1>8, WriteNewChanges DEF StoreInv
<1>10. ASSUME f \notin holed PROVE Changes(w, g, IdOf(p), v)
  <2>1. Content(dev, g, IdOf(p)) = 0
    BY <1>3, <1>4, <1>6, <1>8, <1>10, LowerAre
  <2> QED
    BY <1>4, <1>9, <2>1
<1>11. ASSUME f \notin holed PROVE Taken(w, f, p, v) /\ OthersRest(f)
  <2>1. ASSUME w.ret = "ok" PROVE w.home[<<f, 0>>] # NoBlock
    <3>1. Alters(dev, w, g, IdOf(p), v)
      BY <1>10, <1>11, <2>1 DEF Changes
    <3>2. Alters(dev, w, <<f, FdnOf(p)>>, IdOf(p), v) /\ DirtyIds(w, <<f, FdnOf(p)>>) = {} /\ p <= len[f]
      BY <1>3, <1>6, <1>8, <1>9, <2>1, <3>1
    <3>3. w.home[<<f, FdnOf(p)>>] # NoBlock
      BY <1>2, <1>4, <1>11, <3>2, FreshHome
    <3> QED
      BY <1>4, <3>3
  <2>2. \/ w.ret = "ok" /\ len' = [len EXCEPT ![f] = 0] /\ cand' = [cand EXCEPT ![<<f, p>>] = {v}]
        \/ w.ret # "ok" /\ len' = len /\ cand' = cand
    BY <1>5, <2>1 DEF Succeeds
  <2>3. w.ret = "ok" => /\ 0 = IF len[f] < p + 1 THEN p + 1 ELSE len[f]
                        /\ {v} = {v} /\ DirtyIds(w, <<f, FdnOf(p)>>) = {}
    BY <1>3, <1>6, <1>8, <1>9
  <2> QED
    BY <1>4, <2>2, <2>3, TakenIs
<1>12. OthersRest(f)
  <2>1. CASE len' = len /\ cand' = cand
    BY <2>1 DEF OthersRest
  <2>2. CASE len' = [len EXCEPT ![f] = 0] /\ cand' = [cand EXCEPT ![<<f, p>>] = {v}]
    <3>1. len \in [Files -> -1 .. HeadPages + MaxFdn * Pages]
      BY DEF StoreInv, Lengthy
    <3>2. PICK c : c = cand'
      OBVIOUS
    <3>3. Amended(c, f, p, {v})
      BY <2>2, <3>2 DEF Amended
    <3>5. Amends(c, f, p, {v})
      BY <1>4, <3>3, CandOne
    <3>4. \A e \in Files \ {f} : len'[e] = len[e]
      BY <2>2, <3>1
    <3> QED
      BY <3>2, <3>5, <3>4 DEF OthersRest, Amends
  <2> QED
    BY <1>5, <2>1, <2>2
<1>13. \A e \in Files : len'[e] \in Int
  BY LengthsInt
<1>14. p <= len[f]
  BY <1>3, <1>6
<1> QED
  BY <1>2, <1>4, <1>5, <1>6, <1>7, <1>8, <1>9, <1>10, <1>11, <1>12, <1>13, <1>14, WriteStep

LEMMA LongerIs ==
  ASSUME NEW a \in Int, NEW b \in Int
  PROVE  Max({a, b}) = IF a < b THEN b ELSE a
<1>1. \E m \in {a, b} : \A k \in {a, b} : m >= k
  OBVIOUS
<1>2. Max({a, b}) \in {a, b} /\ \A k \in {a, b} : Max({a, b}) >= k
  BY <1>1 DEF Max
<1> QED
  BY <1>2

LEMMA WritePages ==
  ASSUME StoreInv, HistInv, PagesInv, StoreInv', NEW f \in Files, NEW p \in Positions, Write(f, p)
  PROVE  PagesInv' /\ PS!Call
<1>1. PICK v : v = clock + 1
  OBVIOUS
<1>2. v \in Vers /\ v \in 1 .. MaxWrites /\ v = clock' /\ v # 0
  BY <1>1, StampedIs, Sizes DEF Write, StoreInv, Vers
<1>3. PICK S : S = IF StartsBlock(f, p) THEN {v} ELSE cand[<<f, p>>] \cup {v}
  OBVIOUS
<1>4. PICK n : n = Max({len[f], p + 1})
  OBVIOUS
<1>5. PICK w : /\ w = WriteObject(f, p, v) /\ After(w)
               /\ len' = IF Succeeds(w) THEN [len EXCEPT ![f] = n] ELSE len
               /\ cand' = IF Succeeds(w) THEN [cand EXCEPT ![<<f, p>>] = S] ELSE cand
  BY <1>1, <1>2, <1>3, <1>4 DEF Write
<1>6. restarts' = restarts /\ p <= len[f]
  BY DEF Write, Writable
<1>7. Idle(w)
  BY <1>2, <1>5, WriteObjectIs DEF StoreInv, Ended
<1>8. PICK g : g = <<f, FdnOf(p)>>
  OBVIOUS
<1>9. /\ Beside(dev, w, g)
      /\ (p = len[f] => Content(dev, g, IdOf(p)) = 0) => Changes(w, g, IdOf(p), v)
      /\ StartsBlock(f, p) /\ w.ret = "ok" => DirtyIds(w, g) = {}
  BY <1>2, <1>5, <1>8, WriteObjectChanges DEF StoreInv
<1>10. ASSUME f \notin holed PROVE Changes(w, g, IdOf(p), v)
  <2>1. p = len[f] => Content(dev, g, IdOf(p)) = 0
    BY <1>6, <1>8, <1>10, LowerAre
  <2> QED
    BY <1>9, <2>1
<1>11. Taken(w, f, p, v) /\ OthersRest(f)
  <2>1. len[f] \in Int /\ p + 1 \in Int
    <3>1. len[f] \in -1 .. HeadPages + MaxFdn * Pages
      BY DEF StoreInv, Lengthy
    <3>2. HeadPages \in Int /\ MaxFdn * Pages \in Int
      BY Sizes DEF HeadPages
    <3> QED
      BY <3>1, <3>2, PositionIs
  <2>2. n = IF len[f] < p + 1 THEN p + 1 ELSE len[f]
    BY <1>4, <2>1, LongerIs
  <2>3. \/ w.ret = "ok" /\ len' = [len EXCEPT ![f] = n] /\ cand' = [cand EXCEPT ![<<f, p>>] = S]
        \/ w.ret # "ok" /\ len' = len /\ cand' = cand
    BY <1>5 DEF Succeeds
  <2>4. w.ret = "ok" => \/ S = cand[<<f, p>>] \cup {v}
                        \/ S = {v} /\ DirtyIds(w, <<f, FdnOf(p)>>) = {}
    BY <1>3, <1>8, <1>9
  <2> QED
    BY <2>2, <2>3, <2>4, TakenIs
<1>12. \A e \in Files : len'[e] \in Int
  BY LengthsInt
<1> QED
  BY <1>2, <1>5, <1>6, <1>7, <1>8, <1>9, <1>10, <1>11, <1>12, WriteStep

LEMMA RenamePages ==
  ASSUME StoreInv, HistInv, PagesInv, StoreInv', NEW f \in Files, Rename(f)
  PROVE  PagesInv' /\ PS!Call
<1>1. PICK v : v = clock + 1
  OBVIOUS
<1>2. v \in Vers /\ v \in 1 .. MaxWrites /\ v = clock' /\ v # 0
  BY <1>1, StampedIs, Sizes DEF Rename, StoreInv, Vers
<1>3. PICK p \in Int : p = -1
  OBVIOUS
<1>4. FdnOf(p) = 0 /\ IdOf(p) = 0 /\ p \in Positions /\ 0 \in 0 .. MaxFdn
  BY <1>3, InfoPlace
<1>5. PICK w : /\ w = MoveObject(f, v) /\ After(w)
               /\ cand' = IF Succeeds(w) THEN [cand EXCEPT ![<<f, p>>] = {v}] ELSE cand
  BY <1>1, <1>2, <1>3 DEF Rename
<1>6. restarts' = restarts /\ len' = len /\ Exists(f)
  BY DEF Rename
<1>7. <<f, 0>> \in Tree(dev.home) /\ len[f] \in 0 .. HeadPages + MaxFdn * Pages
  BY <1>6, HeadIs
<1>8. PICK g : g = <<f, FdnOf(p)>>
  OBVIOUS
<1>9. Idle(w)
  BY <1>2, <1>5, <1>7, MoveObjectIs DEF StoreInv, Ended
<1>10. Changes(w, g, IdOf(p), v) /\ (w.ret = "ok" => DirtyIds(w, g) = {})
  BY <1>2, <1>4, <1>5, <1>7, <1>8, MoveObjectChanges DEF StoreInv
<1>11. Beside(dev, w, g)
  BY <1>10 DEF Changes
<1>12. len[f] \in Int /\ 0 <= len[f]
  <2>1. HeadPages \in Int /\ MaxFdn * Pages \in Int
    BY Sizes DEF HeadPages
  <2> QED
    BY <1>7, <2>1
<1>13. Taken(w, f, p, v) /\ OthersRest(f)
  <2>1. PICK n : n = len[f]
    OBVIOUS
  <2>2. len = [len EXCEPT ![f] = n]
    <3>1. len \in [Files -> -1 .. HeadPages + MaxFdn * Pages]
      BY DEF StoreInv, Lengthy
    <3> QED
      BY <2>1, <3>1
  <2>3. \/ w.ret = "ok" /\ len' = [len EXCEPT ![f] = n] /\ cand' = [cand EXCEPT ![<<f, p>>] = {v}]
        \/ w.ret # "ok" /\ len' = len /\ cand' = cand
    BY <1>5, <1>6, <2>2 DEF Succeeds
  <2>4. w.ret = "ok" => /\ n = IF len[f] < p + 1 THEN p + 1 ELSE len[f]
                        /\ {v} = {v} /\ DirtyIds(w, <<f, FdnOf(p)>>) = {}
    BY <1>3, <1>8, <1>10, <1>12, <2>1
  <2> QED
    BY <1>4, <2>3, <2>4, TakenIs
<1>14. \A e \in Files : len'[e] \in Int
  BY LengthsInt
<1>15. p <= len[f]
  BY <1>3, <1>12
<1> QED
  BY <1>2, <1>4, <1>5, <1>6, <1>8, <1>9, <1>10, <1>11, <1>13, <1>14, <1>15, WriteStep

\* A call that changes no page.
LEMMA RestPages ==
  ASSUME StoreInv, PagesInv, StoreInv', NEW w, Idle(w), After(w), Calm(dev, w),
         len' = len, cand' = cand, restarts' = restarts
  PROVE  PagesInv' /\ PS!Call
<1>1. ASSUME NEW f \in Files \ holed
      PROVE  Within(dev', cand', f) /\ Filled(dev', len', restarts', f) /\ FileRests(f)
  <2>1. Stays(dev, w, f)
    BY GroupIs DEF Stays, Calm, AllSame
  <2>2. /\ Within(dev', cand', f) /\ Filled(dev', len', restarts', f)
        /\ \A p \in Positions : view'[<<f, p>>] = view[<<f, p>>]
    BY <2>1, FileStays
  <2> QED
    BY <2>2 DEF FileRests
<1>2. \A e \in Files : len'[e] \in Int
  BY LengthsInt
<1>3. PagesInv'
  BY <1>1, <1>2, PagesAre
<1>4. ASSUME NEW f \in Files PROVE f \in Pending \/ Settled(w, f)
  <2>1. Stays(dev, w, f)
    BY GroupIs DEF Stays, Calm, AllSame
  <2> QED
    BY <2>1, StaysSettled
<1>5. Pends(Pending)
  BY <1>4, PendsIs
<1> QED
  BY <1>1, <1>3, <1>5, RestIs

LEMMA OpenPages ==
  ASSUME StoreInv, PagesInv, StoreInv', NEW f \in Files, Open(f)
  PROVE  PagesInv' /\ PS!Call
<1>1. PICK w : w = Opened(f) /\ After(w)
  BY DEF Open
<1>2. Idle(w) /\ Calm(dev, w)
  BY <1>1, OpenedIs, OpenedCalm DEF StoreInv, Ended
<1> QED
  BY <1>1, <1>2, RestPages DEF Open

LEMMA ReadPages ==
  ASSUME StoreInv, PagesInv, StoreInv', NEW f \in Files, NEW p \in Positions, Read(f, p)
  PROVE  PagesInv' /\ PS!Call
<1>1. PICK w : w = ReadObject(f, p) /\ After(w)
  BY DEF Read
<1>2. Idle(w) /\ Calm(dev, w)
  BY <1>1, ReadObjectIs, ReadObjectCalm DEF StoreInv, Ended
<1> QED
  BY <1>1, <1>2, RestPages DEF Read

\* what closing f leaves of the versions a restart may find
Settles(f) == \A e \in Files, q \in Positions :
                cand'[<<e, q>>] = IF e = f THEN {view[<<e, q>>]} ELSE cand[<<e, q>>]

LEMMA CloseFile ==
  ASSUME StoreInv, PagesInv, NEW w, Idle(w), After(w), NEW f \in Files \ holed, Stays(dev, w, f),
         Settled(w, f), Settles(f), len'[f] = len[f], restarts' = restarts
  PROVE  /\ Within(dev', cand', f) /\ Filled(dev', len', restarts', f)
         /\ \A p \in Positions : view'[<<f, p>>] = view[<<f, p>>]
<1>1. PICK d : d = dev'
  OBVIOUS
<1>2. Calm(w, d) /\ Sound(d) /\ d.cuts = {} /\ \A g : DirtyIds(d, g) = DirtyIds(w, g)
  BY <1>1, AfterCalm
<1>3. \A n \in 0 .. MaxFdn : Same(dev, d, <<f, n>>)
  BY <1>2, GroupIs, SameThen DEF Stays, Calm, AllSame
<1>4. /\ Within(dev, cand, f) /\ Filled(dev, len, restarts, f) /\ AllTidy(dev, f) /\ Marked(f)
      /\ Sound(dev) /\ view = View(dev)
  BY DEF PagesInv, Within, StoreInv, Idle
<1>5. /\ AllTidy(d, f) /\ (\A l : Upto(dev, f, l) => Upto(d, f, l)) /\ Within(d, cand, f)
      /\ \A n \in 0 .. MaxFdn, id \in Ids : Content(d, <<f, n>>, id) = Content(dev, <<f, n>>, id)
  <2>1. Stays(dev, d, f)
    BY <1>3 DEF Stays
  <2> QED
    BY <2>1, StaysIs
<1>6. Filled(d, len', restarts', f)
  BY <1>4, <1>5 DEF Filled
<1>7. ASSUME NEW p \in Positions
      PROVE  /\ View(d)[<<f, p>>] = view[<<f, p>>]
             /\ view[<<f, p>>] = Content(dev, <<f, FdnOf(p)>>, IdOf(p))
  <2>1. FdnOf(p) \in 0 .. MaxFdn /\ IdOf(p) \in Ids
    BY PositionsAre, PlaceBack
  <2>2. View(d)[<<f, p>>] = Content(d, <<f, FdnOf(p)>>, IdOf(p))
    BY <1>2, <1>5, ViewShows
  <2>3. View(dev)[<<f, p>>] = Content(dev, <<f, FdnOf(p)>>, IdOf(p))
    BY <1>4, ViewShows
  <2> QED
    BY <1>4, <1>5, <2>1, <2>2, <2>3
<1>8. PICK c : c = cand'
  OBVIOUS
<1>9. ASSUME NEW n \in 0 .. MaxFdn, NEW i \in Ids
      PROVE  Poss(d, <<f, n>>, i) \in SUBSET Allowed(c, f, PosOf(n, i))
  <2>1. DirtyIds(d, <<f, n>>) = {}
    BY <1>2 DEF Settled
  <2>2. Poss(d, <<f, n>>, i) = {Content(dev, <<f, n>>, i)}
    BY <1>2, <1>5, <2>1, CleanPoss
  <2>3. PICK q : q = PosOf(n, i)
    OBVIOUS
  <2>4. CASE q \in Positions
    <3>1. FdnOf(q) = n /\ IdOf(q) = i
      BY <2>3, PlaceOf
    <3>2. Allowed(c, f, q) = {view[<<f, q>>]}
      BY <1>8, <2>4 DEF Allowed, Settles
    <3> QED
      BY <1>7, <2>2, <2>3, <2>4, <3>1, <3>2
  <2>5. CASE q \notin Positions
    <3>1. Allowed(c, f, q) = {0} /\ Allowed(cand, f, q) = {0}
      BY <2>5 DEF Allowed
    <3>2. Poss(d, <<f, n>>, i) \in SUBSET Allowed(cand, f, q)
      BY <1>5, <2>3 DEF Within
    <3> QED
      BY <2>3, <3>1, <3>2
  <2> QED
    BY <2>4, <2>5
<1>10. Within(d, c, f)
  BY <1>5, <1>9 DEF Within
<1>11. view' = View(d)
  BY <1>1 DEF After
<1> QED
  BY <1>1, <1>6, <1>7, <1>8, <1>10, <1>11

LEMMA ClosePages ==
  ASSUME StoreInv, HistInv, PagesInv, StoreInv', NEW f \in Files, Close(f)
  PROVE  PagesInv' /\ PS!Call
<1>1. PICK w : /\ w = FlushFile(dev, f) /\ After(w)
               /\ Succeeds(w) => cand' = [x \in Places |-> IF x[1] = f THEN {view[x]} ELSE cand[x]]
  BY DEF Close
<1>2. len' = len /\ restarts' = restarts
  BY DEF Close
<1>3. Idle(w) /\ Calm(dev, w) /\ Settled(w, f)
  BY <1>1, CloseIs, FlushFileCalm DEF StoreInv, Ended, Idle
<1>4. w.ret = "ok"
  BY <1>1, FlushFileIs DEF StoreInv, Idle, Flushes
<1>5. ASSUME NEW e \in Files, NEW q \in Positions
      PROVE  cand'[<<e, q>>] = IF e = f THEN {view[<<e, q>>]} ELSE cand[<<e, q>>]
  <2>1. <<e, q>> \in Places /\ <<e, q>>[1] = e
    BY PlacesAre
  <2>2. cand' = [x \in Places |-> IF x[1] = f THEN {view[x]} ELSE cand[x]]
    BY <1>1, <1>4 DEF Succeeds
  <2>3. PICK y : y = <<e, q>>
    OBVIOUS
  <2>4. cand'[y] = IF y[1] = f THEN {view[y]} ELSE cand[y]
    BY <2>1, <2>2, <2>3
  <2> QED
    BY <2>1, <2>3, <2>4
<1>6. Settles(f)
  BY <1>5 DEF Settles
<1>7. \A e \in Files : Stays(dev, w, e)
  BY <1>3, GroupIs DEF Stays, Calm, AllSame
<1>8. ASSUME NEW e \in Files \ holed, e # f
      PROVE  Within(dev', cand', e) /\ Filled(dev', len', restarts', e) /\ FileRests(e)
  <2>1. \A p \in Positions : cand'[<<e, p>>] = cand[<<e, p>>]
    BY <1>5, <1>8
  <2>2. /\ Within(dev', cand', e) /\ Filled(dev', len', restarts', e)
        /\ \A p \in Positions : view'[<<e, p>>] = view[<<e, p>>]
    BY <1>1, <1>2, <1>3, <1>7, <2>1, FileStays
  <2> QED
    BY <2>1, <2>2 DEF FileRests
<1>9. ASSUME f \notin holed
      PROVE  /\ Within(dev', cand', f) /\ Filled(dev', len', restarts', f)
             /\ \A p \in Positions : view'[<<f, p>>] = view[<<f, p>>]
  BY <1>1, <1>2, <1>3, <1>6, <1>7, <1>9, CloseFile
<1>10. \A e \in Files : len'[e] \in Int
  BY LengthsInt
<1>11. PagesInv'
  BY <1>1, <1>2, <1>3, <1>8, <1>9, <1>10, PagesAre
<1>12. ASSUME NEW x \in Places, x[1] \notin holed
       PROVE  view'[x] = view[x] /\ cand'[x] = IF x[1] = f THEN {view[x]} ELSE cand[x]
  <2>1. x[1] \in Files /\ x[2] \in Positions /\ x = <<x[1], x[2]>>
    BY PlaceAt
  <2>2. PICK e, q : e = x[1] /\ q = x[2]
    OBVIOUS
  <2>3. view'[<<e, q>>] = view[<<e, q>>]
    BY <1>8, <1>9, <1>12, <2>1, <2>2 DEF FileRests
  <2>4. cand'[<<e, q>>] = IF e = f THEN {view[<<e, q>>]} ELSE cand[<<e, q>>]
    BY <1>5, <2>1, <2>2
  <2> QED
    BY <2>1, <2>2, <2>3, <2>4
<1>14. Pends(Pending \ {f})
  <2>1. \A e \in Files \ {f} : e \in Pending \/ Settled(w, e)
    BY <1>7, StaysSettled
  <2> QED
    BY <1>1, <1>3, <2>1, PendsIs
<1>13. PS!Flush(f)
  <2>1. ASSUME NEW x \in Places, x[1] \notin holed
        PROVE  x \in PS!PlacesOf(f) <=> x[1] = f
    <3>1. x[1] \in Files /\ x[2] \in Positions /\ x = <<x[1], x[2]>>
      BY <2>1, PlaceAt
    <3> QED
      BY <3>1 DEF PS!PlacesOf
  <2> QED
    BY <1>12, <1>14, <2>1 DEF PS!Flush, PS!Unchanged, PS!Promised, PS!Places, Places, PS!Pending, Pends
<1>15. holed' = holed \cup PS!Holed(view')
  BY <1>1 DEF After, PS!Holed, Holed
<1> QED
  BY <1>11, <1>13, <1>15 DEF PS!Call

\* what deleting f leaves of the versions a restart may find
Removes(f) == \A e \in Files, q \in Positions :
                cand'[<<e, q>>] = IF e = f THEN {0, view'[<<e, q>>]} ELSE cand[<<e, q>>]

\* A page that is not there is not found by a restart either.
LEMMA GonePoss ==
  ASSUME NEW w, w.cuts = {}, NEW g, NEW id, Solid(w, g), Content(w, g, id) = 0
  PROVE  Poss(w, g, id) = {0}
<1>1. id \notin DirtyIds(w, g)
  BY DEF Solid, Content
<1> QED
  BY <1>1, CleanPoss

LEMMA DeletedFile ==
  ASSUME StoreInv, PagesInv, NEW w, Idle(w), After(w), NEW f \in Files \ holed,
         Shrinks(dev, w, f), Empty(w, f), Removes(f), len'[f] = -1
  PROVE  /\ Within(dev', cand', f) /\ Filled(dev', len', restarts', f)
         /\ \A p \in Positions : view'[<<f, p>>] = 0 /\ cand'[<<f, p>>] = {0}
<1>1. PICK d : d = dev'
  OBVIOUS
<1>2. Calm(w, d) /\ Sound(d) /\ d.cuts = {}
  BY <1>1, AfterCalm
<1>3. AllTidy(dev, f) /\ \A n \in 0 .. MaxFdn : <<f, n>> \notin stale
  BY DEF PagesInv, Within, Marked
<1>4. \A n \in 0 .. MaxFdn : Tidy(w, <<f, n>>)
  BY <1>3 DEF AllTidy, Shrinks
<1>5. \A n \in 0 .. MaxFdn : /\ Tidy(d, <<f, n>>)
                             /\ \A id \in Ids : Content(d, <<f, n>>, id) = Content(w, <<f, n>>, id)
  <2>1. \A n \in 0 .. MaxFdn : Same(w, d, <<f, n>>)
    BY <1>2, GroupIs DEF Calm, AllSame
  <2> QED
    BY <1>3, <1>4, <2>1 DEF Same
<1>6. \A n \in 0 .. MaxFdn, id \in Ids : Content(d, <<f, n>>, id) = 0
  BY <1>5 DEF Empty
<1>7. AllTidy(d, f)
  BY <1>5 DEF AllTidy
<1>8. \A n \in 0 .. MaxFdn, id \in Ids : Poss(d, <<f, n>>, id) = {0}
  <2> SUFFICES ASSUME NEW n \in 0 .. MaxFdn, NEW id \in Ids PROVE Poss(d, <<f, n>>, id) = {0}
    OBVIOUS
  <2>1. Solid(d, <<f, n>>)
    BY <1>5 DEF Tidy
  <2> QED
    BY <1>2, <1>6, <2>1, GonePoss
<1>9. Upto(d, f, -1)
  <2> SUFFICES ASSUME NEW n \in 0 .. MaxFdn, NEW id \in Ids PROVE ~(PosOf(n, id) < -1)
    BY <1>6 DEF Upto
  <2>1. PosOf(n, id) \in AllPos
    BY PosIs
  <2> QED
    BY <2>1 DEF AllPos
<1>10. Filled(d, len', restarts', f)
  BY <1>9 DEF Filled
<1>11. PICK u : u = view'
  OBVIOUS
<1>12. ASSUME NEW p \in Positions PROVE u[<<f, p>>] = 0
  <2>1. FdnOf(p) \in 0 .. MaxFdn /\ IdOf(p) \in Ids
    BY PositionsAre, PlaceBack
  <2>2. View(d)[<<f, p>>] = Content(d, <<f, FdnOf(p)>>, IdOf(p))
    BY <1>2, <1>7, ViewShows
  <2> QED
    BY <1>1, <1>6, <1>11, <2>1, <2>2 DEF After
<1>13. PICK c : c = cand'
  OBVIOUS
<1>14. \A p \in Positions : c[<<f, p>>] = {0}
  BY <1>11, <1>12, <1>13 DEF Removes
<1>15. \A q : 0 \in Allowed(c, f, q)
  BY <1>14 DEF Allowed
<1>16. Within(d, c, f)
  BY <1>7, <1>8, <1>15 DEF Within
<1> QED
  BY <1>1, <1>10, <1>11, <1>12, <1>13, <1>14, <1>16

LEMMA DeletePages ==
  ASSUME StoreInv, HistInv, PagesInv, StoreInv', NEW f \in Files, Delete(f)
  PROVE  PagesInv' /\ PS!Call
<1>1. PICK w : /\ w = DeleteObject(f) /\ w.ret # "loops" /\ After(w)
               /\ len' = IF w.home[<<f, 0>>] = NoBlock THEN [len EXCEPT ![f] = -1] ELSE len
               /\ cand' = IF w.home[<<f, 0>>] = NoBlock
                          THEN [x \in Places |-> IF x[1] = f THEN {0, view'[x]} ELSE cand[x]] ELSE cand
  BY DEF Delete
<1>2. restarts' = restarts /\ Exists(f)
  BY DEF Delete
<1>3. <<f, 0>> \in Tree(dev.home) /\ len[f] \in 0 .. HeadPages + MaxFdn * Pages /\ Idle(dev)
  BY <1>2, HeadIs DEF StoreInv
<1>4. Idle(w)
  BY <1>1, <1>3, DeleteObjectIs
<1>5. /\ Spares(dev, w, f)
      /\ Plain(dev, f) =>
           /\ Shrinks(dev, w, f) /\ Rooted(w, f)
           /\ w.ret # "loops" => \/ w.home[<<f, 0>>] = NoBlock /\ Empty(w, f)
                                 \/ w.home[<<f, 0>>] # NoBlock /\ Calm(dev, w)
  BY <1>1, <1>3, DeleteObjectClears
<1>6. ASSUME f \notin holed PROVE Plain(dev, f)
  <2>1. AllTidy(dev, f) /\ Filled(dev, len, restarts, f) /\ Marked(f)
    BY <1>6 DEF PagesInv, Within
  <2> QED
    BY <1>2, <2>1, PlainIs
<1>7. \A e \in Files \ {f} : Stays(dev, w, e)
  <2> SUFFICES ASSUME NEW e \in Files \ {f}, NEW n \in 0 .. MaxFdn PROVE Same(dev, w, <<e, n>>)
    BY DEF Stays
  <2>1. <<e, n>> \in Groups
    BY GroupIs
  <2>2. <<e, n>>[1] # f
    OBVIOUS
  <2> QED
    BY <1>5, <2>1, <2>2 DEF Spares
<1>8. len \in [Files -> -1 .. HeadPages + MaxFdn * Pages]
  BY DEF StoreInv, Lengthy
<1>9. \A e \in Files : len'[e] \in Int
  BY LengthsInt
<1>10. ASSUME w.home[<<f, 0>>] # NoBlock PROVE PagesInv' /\ PS!Call
  <2>1. len' = len /\ cand' = cand
    BY <1>1, <1>10
  <2>2. ASSUME f \notin holed PROVE Stays(dev, w, f)
    <3>1. Calm(dev, w)
      BY <1>1, <1>5, <1>6, <1>10, <2>2
    <3> QED
      BY <3>1, GroupIs DEF Stays, Calm, AllSame
  <2>3. ASSUME NEW e \in Files \ holed
        PROVE  Within(dev', cand', e) /\ Filled(dev', len', restarts', e) /\ FileRests(e)
    <3>1. Stays(dev, w, e)
      BY <1>7, <2>2
    <3>2. /\ Within(dev', cand', e) /\ Filled(dev', len', restarts', e)
          /\ \A p \in Positions : view'[<<e, p>>] = view[<<e, p>>]
      BY <1>1, <1>2, <1>4, <2>1, <3>1, FileStays
    <3> QED
      BY <2>1, <3>2 DEF FileRests
  <2>4. PagesInv'
    BY <1>1, <1>2, <1>4, <1>9, <2>3, PagesAre
  <2>5. Pends(Pending)
    <3>1. \A e \in Files \ holed : e \in Pending \/ Settled(w, e)
      BY <1>7, <2>2, StaysSettled
    <3> QED
      BY <1>1, <1>4, <3>1, PendsIs
  <2> QED
    BY <1>1, <2>3, <2>4, <2>5, RestIs
<1>11. ASSUME w.home[<<f, 0>>] = NoBlock PROVE PagesInv' /\ PS!Call
  <2>1. /\ len' = [len EXCEPT ![f] = -1]
        /\ cand' = [x \in Places |-> IF x[1] = f THEN {0, view'[x]} ELSE cand[x]]
    BY <1>1, <1>11
  <2>2. \A e \in Files : len'[e] = IF e = f THEN -1 ELSE len[e]
    BY <1>8, <2>1
  <2>3. ASSUME NEW e \in Files, NEW q \in Positions
        PROVE  cand'[<<e, q>>] = IF e = f THEN {0, view'[<<e, q>>]} ELSE cand[<<e, q>>]
    <3>1. <<e, q>> \in Places /\ <<e, q>>[1] = e
      BY PlacesAre
    <3>2. PICK y : y = <<e, q>>
      OBVIOUS
    <3>3. cand'[y] = IF y[1] = f THEN {0, view'[y]} ELSE cand[y]
      BY <2>1, <3>1, <3>2
    <3> QED
      BY <3>1, <3>2, <3>3
  <2>4. Removes(f)
    BY <2>3 DEF Removes
  <2>5. ASSUME NEW e \in Files \ holed, e # f
        PROVE  Within(dev', cand', e) /\ Filled(dev', len', restarts', e) /\ FileRests(e)
    <3>1. \A p \in Positions : cand'[<<e, p>>] = cand[<<e, p>>]
      BY <2>3, <2>5
    <3>2. Stays(dev, w, e) /\ len'[e] = len[e]
      BY <1>7, <2>2, <2>5
    <3>3. /\ Within(dev', cand', e) /\ Filled(dev', len', restarts', e)
          /\ \A p \in Positions : view'[<<e, p>>] = view[<<e, p>>]
      BY <1>1, <1>2, <1>4, <3>1, <3>2, FileStays
    <3> QED
      BY <3>1, <3>3 DEF FileRests
  <2>6. ASSUME f \notin holed
        PROVE  /\ Within(dev', cand', f) /\ Filled(dev', len', restarts', f)
               /\ \A p \in Positions : view'[<<f, p>>] = 0 /\ cand'[<<f, p>>] = {0}
    <3>1. Shrinks(dev, w, f) /\ Empty(w, f)
      BY <1>1, <1>5, <1>6, <1>11, <2>6
    <3>2. len'[f] = -1 /\ f \in Files \ holed
      BY <2>2, <2>6
    <3> QED
      BY <1>1, <1>4, <2>4, <3>1, <3>2, DeletedFile
  <2>7. PagesInv'
    BY <1>1, <1>2, <1>4, <1>9, <2>5, <2>6, PagesAre
  <2>8. ASSUME NEW x \in Places, x[1] \notin holed
        PROVE  IF x[1] = f THEN view'[x] = 0 /\ cand'[x] = {0} ELSE view'[x] = view[x] /\ cand'[x] = cand[x]
    <3>1. x[1] \in Files /\ x[2] \in Positions /\ x = <<x[1], x[2]>>
      BY PlaceAt
    <3>2. PICK e, q : e = x[1] /\ q = x[2]
      OBVIOUS
    <3>3. IF e = f THEN view'[<<e, q>>] = 0 /\ cand'[<<e, q>>] = {0}
                   ELSE view'[<<e, q>>] = view[<<e, q>>] /\ cand'[<<e, q>>] = cand[<<e, q>>]
      BY <2>5, <2>6, <2>8, <3>1, <3>2 DEF FileRests
    <3> QED
      BY <3>1, <3>2, <3>3
  <2>10. Pends(Pending \ {f})
    <3>1. \A e \in Files \ {f} : e \in Pending \/ Settled(w, e)
      BY <1>7, StaysSettled
    <3>2. ASSUME f \notin holed PROVE Settled(w, f)
      <4>1. \A n \in 0 .. MaxFdn : Tidy(dev, <<f, n>>) /\ <<f, n>> \notin stale
        BY <3>2 DEF PagesInv, Within, AllTidy, Marked
      <4>2. Shrinks(dev, w, f) /\ Empty(w, f)
        BY <1>1, <1>5, <1>6, <1>11, <3>2
      <4>3. ASSUME NEW n \in 0 .. MaxFdn, NEW id \in DirtyIds(w, <<f, n>>) PROVE FALSE
        <5>1. Solid(w, <<f, n>>) /\ <<f, n>> \in Groups
          BY <4>1, <4>2, GroupIs DEF Shrinks, Tidy
        <5>2. id \in Ids
          <6>1. w \in Work /\ Ends(w.bufs)
            BY <1>4 DEF Idle, Sound, Body
          <6>2. PICK i \in 1 .. Buffers : w.bufs[i].id = id
            BY <4>3, <6>1, DirtyIdsAre
          <6> QED
            BY <6>1, <6>2, BufAt DEF Buffer
        <5> QED
          BY <4>2, <4>3, <5>1, <5>2 DEF Solid, Empty, Content
      <4> QED
        BY <4>3 DEF Settled
    <3> QED
      BY <1>1, <1>4, <3>1, <3>2, PendsIs
  <2>9. PS!Remove(f)
    <3>1. ASSUME NEW x \in Places, x[1] \notin holed
          PROVE  x \in PS!PlacesOf(f) <=> x[1] = f
      <4>1. x[1] \in Files /\ x[2] \in Positions /\ x = <<x[1], x[2]>>
        BY <3>1, PlaceAt
      <4> QED
        BY <4>1 DEF PS!PlacesOf
    <3> QED
      BY <2>8, <2>10, <3>1 DEF PS!Remove, PS!Unchanged, PS!Promised, PS!Places, Places, PS!Pending, Pends
  <2>11. holed' = holed \cup PS!Holed(view')
    BY <1>1 DEF After, PS!Holed, Holed
  <2> QED
    BY <2>7, <2>9, <2>11 DEF PS!Call
<1> QED
  BY <1>10, <1>11

-----------------------------------------------------------------------------
(* Mounting what a power cut left *)

\* A mounted device has nothing in its buffers.
LEMMA MountedBare ==
  ASSUME NEW image, ImageInv(image), NEW x, x = Mounted(image)
  PROVE  /\ \A g : DirtyIds(x, g) = {}
         /\ \A i \in 1 .. Buffers : x.bufs[i].mark = "empty"
         /\ Homes(x) = {x.home}
         /\ \A g \in Groups :
              x.home[g] = IF Keep(image[<<g[1], 0>>]) = NoBlock THEN NoBlock ELSE Keep(image[g])
<1>1. PICK kept : kept = [g \in Groups |-> Keep(image[g])]
  OBVIOUS
<1>2. PICK home : home = [g \in Groups |-> IF kept[<<g[1], 0>>] = NoBlock THEN NoBlock ELSE kept[g]]
  OBVIOUS
<1>3. PICK bufs : bufs = [i \in 1 .. Buffers |-> SpareBuf]
  OBVIOUS
<1>4. x.home = home /\ x.bufs = bufs /\ x.cuts = {}
  BY <1>1, <1>2, <1>3 DEF Mounted
<1>5. \A i \in 1 .. Buffers : x.bufs[i].mark = "empty"
  BY <1>3, <1>4 DEF SpareBuf
<1>6. Ends(x.bufs)
  BY MountedIs DEF Idle, Sound, Body
<1>7. \A g : DirtyIds(x, g) = {}
  <2> SUFFICES ASSUME NEW g, NEW id \in DirtyIds(x, g) PROVE FALSE
    OBVIOUS
  <2>1. \E i \in 1 .. Buffers : x.bufs[i].mark = "dirty"
    BY <1>6, DirtyIdsAre
  <2> QED
    BY <1>5, <2>1
<1>8. ASSUME NEW g \in Groups
      PROVE  x.home[g] = IF Keep(image[<<g[1], 0>>]) = NoBlock THEN NoBlock ELSE Keep(image[g])
  <2>1. g[1] \in Files /\ <<g[1], 0>> \in Groups
    BY Sizes DEF Groups
  <2>2. kept[g] = Keep(image[g]) /\ kept[<<g[1], 0>>] = Keep(image[<<g[1], 0>>])
    BY <1>1, <2>1
  <2>3. home[g] = IF kept[<<g[1], 0>>] = NoBlock THEN NoBlock ELSE kept[g]
    BY <1>2
  <2> QED
    BY <1>4, <2>2, <2>3
<1>9. Homes(x) = {x.home}
  BY <1>4, IdleTrees
<1> QED
  BY <1>5, <1>7, <1>8, <1>9

\* where f has a block in home it has its head, and its blocks are laid out
Leaves(home, f) == \A n \in 0 .. MaxFdn : /\ Laid(home[<<f, n>>])
                                          /\ home[<<f, n>>] # NoBlock => home[<<f, 0>>] # NoBlock

\* Of such a file uffs_Mount finds the pages that were left.
LEMMA MountFile ==
  ASSUME NEW image, ImageInv(image), NEW x, x = Mounted(image), NEW f \in Files,
         NEW home, \A g \in Groups : home[g] = Keep(image[g]), Leaves(home, f)
  PROVE  /\ AllTidy(x, f)
         /\ \A n \in 0 .. MaxFdn, id \in Ids : /\ Content(x, <<f, n>>, id) = BestVer(home[<<f, n>>], id)
                                               /\ Poss(x, <<f, n>>, id) = {Content(x, <<f, n>>, id)}
<1>1. /\ \A g : DirtyIds(x, g) = {}
      /\ \A i \in 1 .. Buffers : x.bufs[i].mark = "empty"
      /\ Homes(x) = {x.home}
      /\ \A g \in Groups :
           x.home[g] = IF Keep(image[<<g[1], 0>>]) = NoBlock THEN NoBlock ELSE Keep(image[g])
  BY MountedBare
<1>2. x \in Work
  BY MountedIs DEF Idle, Sound, Body
<1>3. ASSUME NEW n \in 0 .. MaxFdn PROVE x.home[<<f, n>>] = home[<<f, n>>]
  <2>1. <<f, n>> \in Groups /\ <<f, 0>> \in Groups /\ <<f, n>>[1] = f
    BY GroupIs
  <2>2. x.home[<<f, n>>] = IF home[<<f, 0>>] = NoBlock THEN NoBlock ELSE home[<<f, n>>]
    BY <1>1, <2>1
  <2> QED
    BY <2>2 DEF Leaves
<1>4. \A n \in 0 .. MaxFdn : \A id : Content(x, <<f, n>>, id) = BestVer(home[<<f, n>>], id)
  BY <1>1, <1>3 DEF Content
<1>5. ASSUME NEW n \in 0 .. MaxFdn PROVE Tidy(x, <<f, n>>)
  <2>1. Laid(x.home[<<f, n>>]) /\ x.home[<<f, n>>] \in Block
    BY <1>2, <1>3, HomeAt, GroupIs DEF Leaves
  <2>2. ASSUME NEW id \in Ids, Content(x, <<f, n>>, id) # 0, NEW k \in 0 .. id - 1
        PROVE  Content(x, <<f, n>>, k) # 0
    <3>1. BestVer(x.home[<<f, n>>], id) # 0
      BY <1>3, <1>4, <2>2
    <3>2. BestVer(x.home[<<f, n>>], k) # 0
      BY <2>1, <3>1, FoundLower
    <3> QED
      BY <1>3, <1>4, <3>2
  <2>3. Solid(x, <<f, n>>)
    BY <1>1, <2>1, <2>2 DEF Solid
  <2> QED
    BY <1>1, <2>1, <2>3 DEF Tidy
<1>6. ASSUME NEW n \in 0 .. MaxFdn, NEW id \in Ids
      PROVE  Poss(x, <<f, n>>, id) = {Content(x, <<f, n>>, id)}
  BY <1>1, CleanPoss, MountedIs
<1> QED
  BY <1>4, <1>5, <1>6 DEF AllTidy

\* A file without a hole has the pages in front of some position.
LEMMA NotHoledUpto ==
  ASSUME NEW x, Sound(x), NEW f \in Files, AllTidy(x, f), f \notin Holed(View(x)),
         \A n \in 0 .. MaxFdn, id \in Ids : PosOf(n, id) \notin Positions => Content(x, <<f, n>>, id) = 0
  PROVE  \E l \in -1 .. MaxLen : Upto(x, f, l)
<1>0. MaxLen \in Nat /\ Positions \in SUBSET Int
  <2>1. HeadPages \in Int /\ MaxFdn * Pages \in Int
    BY Sizes DEF HeadPages
  <2> QED
    BY <2>1, StoreAssumption DEF Positions
<1>1. PICK u : u = View(x)
  OBVIOUS
<1>2. \A p, q \in Positions : ~(p < q /\ u[<<f, p>>] = 0 /\ u[<<f, q>>] # 0)
  BY <1>1 DEF Holed
<1>3. \A p \in Positions : u[<<f, p>>] = Content(x, <<f, FdnOf(p)>>, IdOf(p))
  BY <1>1, ViewShows
<1>4. PICK S : S = {k \in 0 .. MaxLen + 1 : k = MaxLen + 1 \/ u[<<f, k - 1>>] = 0}
  OBVIOUS
<1>5. S \in SUBSET Nat /\ MaxLen + 1 \in S
  BY <1>0, <1>4
<1>6. PICK m \in Nat : m \in S /\ \A j \in S : m <= j
  <2>1. Min(S) \in S /\ \A j \in S : Min(S) <= j
    BY <1>5, LeastIs
  <2> QED
    BY <1>5, <2>1
<1>7. PICK l \in Int : l = m - 1
  OBVIOUS
<1>8. l \in -1 .. MaxLen /\ (l = MaxLen \/ u[<<f, l>>] = 0)
  <2>1. m \in 0 .. MaxLen + 1 /\ (m = MaxLen + 1 \/ u[<<f, m - 1>>] = 0)
    BY <1>4, <1>6
  <2> QED
    BY <1>0, <1>7, <2>1
<1>9. ASSUME NEW p \in Positions PROVE u[<<f, p>>] # 0 <=> p < l
  <2>0. p \in Int /\ -1 <= p /\ p <= MaxLen - 1 /\ l \in Int /\ l <= MaxLen
    BY <1>0, <1>8 DEF Positions
  <2>1. ASSUME p < l PROVE u[<<f, p>>] # 0
    <3>1. p + 1 \notin S
      <4>1. p + 1 \in Int /\ ~(m <= p + 1)
        BY <1>7, <2>0, <2>1
      <4> QED
        BY <1>6, <4>1
    <3>2. p + 1 \in 0 .. MaxLen + 1 /\ (p + 1) - 1 = p
      BY <1>0, <2>0
    <3> QED
      BY <1>4, <3>1, <3>2
  <2>2. ASSUME ~(p < l) PROVE u[<<f, p>>] = 0
    <3>1. l \in Positions /\ u[<<f, l>>] = 0
      BY <1>0, <1>8, <2>0, <2>2 DEF Positions
    <3>2. p = l \/ l < p
      BY <2>0, <2>2
    <3> QED
      BY <1>2, <3>1, <3>2
  <2> QED
    BY <2>1, <2>2
<1>10. ASSUME NEW n \in 0 .. MaxFdn, NEW id \in Ids
       PROVE  Content(x, <<f, n>>, id) # 0 <=> PosOf(n, id) < l
  <2>1. PICK p : p = PosOf(n, id)
    OBVIOUS
  <2>2. p \in AllPos /\ FdnOf(p) = n /\ IdOf(p) = id
    BY <2>1, PlaceOf
  <2>3. CASE p \in Positions
    BY <1>3, <1>9, <2>1, <2>2, <2>3
  <2>4. CASE p \notin Positions
    <3>1. p \in Int /\ p >= -1
      <4>1. HeadPages + MaxFdn * Pages \in Int
        BY Sizes DEF HeadPages
      <4> QED
        BY <2>2, <4>1 DEF AllPos
    <3>2. ~(p < l)
      BY <1>0, <1>8, <2>4, <3>1 DEF Positions
    <3> QED
      BY <2>1, <2>4, <3>2
  <2> QED
    BY <2>3, <2>4
<1> QED
  BY <1>8, <1>10 DEF Upto

-----------------------------------------------------------------------------
(* The length of a mounted file *)

\* The pages of a block are counted up to the first that is missing.
LEMMA CountedIs ==
  ASSUME NEW b \in Block, Laid(b), NEW first \in 0 .. 1, NEW m \in Int, first <= m, m <= Pages,
         \A id \in Ids : BestVer(b, id) # 0 <=> id < m
  PROVE  PagesCounted(b, first) = m - first
<1>1. PICK S : S = {k \in first .. Pages : k \notin IdsOf(b)}
  OBVIOUS
<1>2. ASSUME NEW k \in first .. Pages PROVE k \in S <=> m <= k
  <2>1. CASE k \in Ids
    <3>1. k \in IdsOf(b) <=> k < m
      BY <2>1, FoundIs
    <3> QED
      BY <1>1, <2>1, <3>1, Sizes
  <2>2. CASE k \notin Ids
    <3>1. k = Pages /\ k \notin IdsOf(b)
      BY <2>2, IdsOfType, Sizes DEF Ids
    <3> QED
      BY <1>1, <3>1
  <2> QED
    BY <2>1, <2>2
<1>3. m \in first .. Pages
  BY Sizes
<1>4. S \in SUBSET Nat /\ S # {} /\ m \in S
  BY <1>1, <1>2, <1>3
<1>5. PICK k \in Nat : k = Min(S) /\ k \in S /\ \A j \in S : k <= j
  BY <1>4, LeastIs
<1>6. k = m
  <2>1. k <= m
    BY <1>4, <1>5
  <2>2. m <= k
    BY <1>1, <1>2, <1>5
  <2> QED
    BY <2>1, <2>2
<1> QED
  BY <1>1, <1>5, <1>6 DEF PagesCounted

\* The data of a file whose pages are those in front of l.
LEMMA DataCounted ==
  ASSUME NEW l \in Int, l <= HeadPages + MaxFdn * Pages, NEW D,
         D = {y \in (1 .. MaxFdn) \X Ids : PosOf(y[1], y[2]) < l}
  PROVE  Cardinality(D) = IF l < HeadPages THEN 0 ELSE l - HeadPages
<1>0. HeadPages \in Int /\ HeadPages >= 1 /\ MaxFdn * Pages \in Int /\ MaxFdn \in Nat
  BY Sizes DEF HeadPages
<1>1. PICK I : I = HeadPages .. l - 1
  OBVIOUS
<1>2. IsFiniteSet(I) /\ Cardinality(I) = IF l < HeadPages THEN 0 ELSE l - HeadPages
  <2>1. l - 1 \in Int
    OBVIOUS
  <2>2. IsFiniteSet(HeadPages .. l - 1) /\
        Cardinality(HeadPages .. l - 1) = IF HeadPages > l - 1 THEN 0 ELSE (l - 1) - HeadPages + 1
    BY <1>0, <2>1, FS_Interval
  <2> QED
    BY <1>0, <1>1, <2>2
<1>3. ASSUME NEW q \in I
      PROVE  /\ FdnOf(q) \in 1 .. MaxFdn /\ IdOf(q) \in Ids
             /\ PosOf(FdnOf(q), IdOf(q)) = q /\ q \in Int /\ q < l
  <2>1. q \in Int /\ HeadPages <= q /\ q < l
    BY <1>0, <1>1
  <2>2. q \in AllPos
    BY <1>0, <2>1 DEF AllPos
  <2>3. FdnOf(q) \in 0 .. MaxFdn /\ IdOf(q) \in Ids /\ PosOf(FdnOf(q), IdOf(q)) = q
    BY <2>2, PlaceBack
  <2>4. FdnOf(q) # 0
    <3>1. PosOf(FdnOf(q), IdOf(q)) < HeadPages <=> FdnOf(q) = 0
      BY <2>3, PosOrder
    <3> QED
      BY <1>0, <2>1, <2>3, <3>1
  <2> QED
    BY <1>0, <2>1, <2>3, <2>4
<1>4. PICK F : F = [q \in I |-> <<FdnOf(q), IdOf(q)>>]
  OBVIOUS
<1>5. F \in [I -> D]
  <2>1. ASSUME NEW q \in I PROVE <<FdnOf(q), IdOf(q)>> \in D
    <3>1. <<FdnOf(q), IdOf(q)>> \in (1 .. MaxFdn) \X Ids
      BY <1>3
    <3>2. PICK y : y = <<FdnOf(q), IdOf(q)>>
      OBVIOUS
    <3>3. y[1] = FdnOf(q) /\ y[2] = IdOf(q)
      BY <3>2
    <3>4. PosOf(y[1], y[2]) < l
      BY <1>3, <3>3
    <3> QED
      BY <3>1, <3>2, <3>4
  <2> QED
    BY <1>4, <2>1
<1>6. \A a, b \in I : F[a] = F[b] => a = b
  <2> SUFFICES ASSUME NEW a \in I, NEW b \in I, F[a] = F[b] PROVE a = b
    OBVIOUS
  <2>1. FdnOf(a) = FdnOf(b) /\ IdOf(a) = IdOf(b)
    BY <1>4
  <2> QED
    BY <1>3, <2>1
<1>7. ASSUME NEW y \in D PROVE \E q \in I : F[q] = y
  <2>1. y[1] \in 1 .. MaxFdn /\ y[2] \in Ids /\ y = <<y[1], y[2]>> /\ PosOf(y[1], y[2]) < l
    OBVIOUS
  <2>2. PICK q : q = PosOf(y[1], y[2])
    OBVIOUS
  <2>3. y[1] \in 0 .. MaxFdn /\ y[1] # 0
    BY <1>0, <2>1
  <2>4. q \in AllPos /\ FdnOf(q) = y[1] /\ IdOf(q) = y[2]
    BY <2>1, <2>2, <2>3, PlaceOf
  <2>5. ~(q < HeadPages)
    BY <2>1, <2>2, <2>3, PosOrder
  <2>6. q \in I
    BY <1>0, <1>1, <2>1, <2>2, <2>4, <2>5 DEF AllPos
  <2> QED
    BY <1>4, <2>1, <2>4, <2>6
<1>8. F \in Bijection(I, D)
  BY <1>5, <1>6, <1>7, Fun_IsBij
<1>9. Cardinality(D) = Cardinality(I)
  BY <1>2, <1>8, FS_Bijection DEF ExistsBijection
<1> QED
  BY <1>2, <1>9

\* The data of a mounted file is counted.
LEMMA DataIs ==
  ASSUME NEW x, Sound(x), NEW f \in Files, AllTidy(x, f), \A g : DirtyIds(x, g) = {},
         NEW l \in Int, Upto(x, f, l), NEW n \in 1 .. MaxFdn, NEW id \in Ids
  PROVE  id < DataLength(x.home[<<f, n>>]) <=> PosOf(n, id) < l
<1>0. n \in 0 .. MaxFdn /\ 0 \in Ids /\ id \in Int /\ 0 <= id /\ id < Pages /\ Pages \in Int /\ Pages >= 2
  BY Sizes DEF Ids
<1>1. PICK b : b = x.home[<<f, n>>]
  OBVIOUS
<1>2. b \in Block /\ Laid(b)
  <2>1. Tidy(x, <<f, n>>) /\ x \in Work
    BY <1>0 DEF AllTidy, Sound, Body
  <2> QED
    BY <1>0, <1>1, <2>1, HomeAt, GroupIs DEF Tidy, Solid
<1>3. PICK q \in Int : q = PosOf(n, 0)
  <2>1. PosOf(n, 0) \in AllPos /\ HeadPages + MaxFdn * Pages \in Int
    BY <1>0, PosIs, Sizes DEF HeadPages
  <2> QED
    BY <2>1 DEF AllPos
<1>4. ASSUME NEW i \in Ids PROVE PosOf(n, i) = q + i
  BY <1>0, <1>3, PosOrder
<1>5. PICK m \in Int : m = IF l - q < 0 THEN 0 ELSE IF l - q > Pages THEN Pages ELSE l - q
  BY <1>0
<1>6. 0 <= m /\ m <= Pages
  BY <1>0, <1>5
<1>7. ASSUME NEW i \in Ids PROVE i < m <=> PosOf(n, i) < l
  <2>1. i \in Int /\ 0 <= i /\ i < Pages
    BY Sizes DEF Ids
  <2>2. PosOf(n, i) = q + i
    BY <1>4
  <2> QED
    BY <1>0, <1>5, <2>1, <2>2
<1>8. ASSUME NEW i \in Ids PROVE BestVer(b, i) # 0 <=> i < m
  <2>1. Content(x, <<f, n>>, i) = BestVer(b, i)
    BY <1>1 DEF Content
  <2>2. Content(x, <<f, n>>, i) # 0 <=> PosOf(n, i) < l
    BY <1>0 DEF Upto
  <2> QED
    BY <1>7, <2>1, <2>2
<1>9. PagesCounted(b, 0) = m - 0
  BY <1>2, <1>6, <1>8, CountedIs
<1> QED
  BY <1>0, <1>1, <1>7, <1>9 DEF DataLength

\* The head of a mounted file is counted, or taken for full.
LEMMA HeadCounted ==
  ASSUME NEW x, Sound(x), NEW f \in Files, AllTidy(x, f), \A g : DirtyIds(x, g) = {},
         NEW l \in Int, Upto(x, f, l), x.home[<<f, 0>>] # NoBlock, NEW b, b = x.home[<<f, 0>>]
  PROVE  /\ 0 <= l
         /\ IF Len(b.pages) = Pages /\ b.pages[Pages].id = Pages - 2
            THEN HeadLength(b) = HeadPages /\ HeadPages - 1 <= l
            ELSE HeadLength(b) = IF l < HeadPages THEN l ELSE HeadPages
<1>0. 0 \in 0 .. MaxFdn /\ 0 \in Ids /\ Pages \in Int /\ Pages >= 2 /\ Ids = 0 .. Pages - 1
  BY Sizes DEF Ids
<1>1. Solid(x, <<f, 0>>) /\ x \in Work /\ <<f, 0>> \in Groups
  BY <1>0, GroupIs DEF AllTidy, Tidy, Sound, Body
<1>2. b \in Block /\ Laid(b)
  BY <1>1, HomeAt DEF Solid
<1>3. ASSUME NEW i \in Ids PROVE BestVer(b, i) # 0 <=> i < l + 1
  <2>1. Content(x, <<f, 0>>, i) = BestVer(b, i)
    BY DEF Content
  <2>2. Content(x, <<f, 0>>, i) # 0 <=> PosOf(0, i) < l
    BY <1>0 DEF Upto
  <2>3. PosOf(0, i) = i - 1 /\ i \in Int
    BY <1>0, PosIs
  <2> QED
    BY <2>1, <2>2, <2>3
<1>4. 0 <= l
  <2>1. <<f, 0>> \in Tree(x.home)
    BY <1>1 DEF Tree
  <2>2. BestVer(b, 0) # 0
    BY <1>1, <2>1, TreeHasPage
  <2> QED
    BY <1>0, <1>3, <2>2
<1>5. PICK m \in Int : m = IF l + 1 < Pages THEN l + 1 ELSE Pages
  BY <1>0
<1>6. PagesCounted(b, 1) = m - 1
  <2>1. 1 <= m /\ m <= Pages /\ 1 \in 0 .. 1
    BY <1>0, <1>4, <1>5
  <2>2. \A i \in Ids : BestVer(b, i) # 0 <=> i < m
    BY <1>0, <1>3, <1>5
  <2> QED
    BY <1>2, <2>1, <2>2, CountedIs
<1>7. CASE Len(b.pages) = Pages /\ b.pages[Pages].id = Pages - 2
  <2>1. HeadLength(b) = HeadPages
    BY <1>7 DEF HeadLength, HeadPages
  <2>2. Pages - 2 \in Ids /\ Pages \in 1 .. Len(b.pages)
    BY <1>0, <1>7
  <2>3. BestVer(b, Pages - 2) # 0
    BY <1>2, <1>7, <2>2, FoundIs
  <2>4. Pages - 2 < l + 1
    BY <1>3, <2>2, <2>3
  <2>5. HeadPages - 1 <= l
    BY <1>0, <2>4 DEF HeadPages
  <2> QED
    BY <1>4, <1>7, <2>1, <2>5
<1>8. CASE ~(Len(b.pages) = Pages /\ b.pages[Pages].id = Pages - 2)
  <2>1. HeadLength(b) = m - 1
    BY <1>6, <1>8 DEF HeadLength
  <2>2. m - 1 = IF l < HeadPages THEN l ELSE HeadPages
    BY <1>0, <1>5 DEF HeadPages
  <2> QED
    BY <1>4, <1>8, <2>1, <2>2
<1> QED
  BY <1>7, <1>8

\* the head block has all its pages written, and the last one is not that of the last id
LacksLast(x, f) == /\ Len(x.home[<<f, 0>>].pages) = Pages
                   /\ x.home[<<f, 0>>].pages[Pages].id = Pages - 2
\* uffs_GetBlockFileDataLength of a mounted file is where its pages end, but for the one
\* case of a full head block that lacks its last page.
LEMMA LengthIs ==
  ASSUME NEW x, Sound(x), NEW f \in Files, AllTidy(x, f), \A g : DirtyIds(x, g) = {},
         NEW l \in Int, Upto(x, f, l), -1 <= l, l <= HeadPages + MaxFdn * Pages
  PROVE  \/ Lengths(x)[f] = l
         \/ Lengths(x)[f] = HeadPages /\ l = HeadPages - 1 /\ LacksLast(x, f)
<1>1. PICK b : b = x.home[<<f, 0>>]
  OBVIOUS
<1>2. CASE b = NoBlock
  <2>1. 0 \in 0 .. MaxFdn /\ 0 \in Ids
    BY Sizes
  <2>2. Content(x, <<f, 0>>, 0) = 0
    BY <1>1, <1>2, <2>1, NoBlockHas DEF Content
  <2>3. ~(PosOf(0, 0) < l)
    BY <2>1, <2>2 DEF Upto
  <2>4. PosOf(0, 0) = -1
    BY <2>1, PosIs
  <2>5. l = -1
    BY <2>3, <2>4
  <2> QED
    BY <1>1, <1>2, <2>5 DEF Lengths
<1>3. CASE b # NoBlock
  <2>1. /\ 0 <= l
        /\ IF Len(b.pages) = Pages /\ b.pages[Pages].id = Pages - 2
           THEN HeadLength(b) = HeadPages /\ HeadPages - 1 <= l
           ELSE HeadLength(b) = IF l < HeadPages THEN l ELSE HeadPages
    BY <1>1, <1>3, HeadCounted
  <2>2. PICK D : D = {y \in (1 .. MaxFdn) \X Ids : PosOf(y[1], y[2]) < l}
    OBVIOUS
  <2>3. {y \in (1 .. MaxFdn) \X Ids : y[2] < DataLength(x.home[<<f, y[1]>>])} = D
    <3>1. ASSUME NEW y \in (1 .. MaxFdn) \X Ids
          PROVE  y[2] < DataLength(x.home[<<f, y[1]>>]) <=> PosOf(y[1], y[2]) < l
      <4>1. y[1] \in 1 .. MaxFdn /\ y[2] \in Ids
        OBVIOUS
      <4> QED
        BY <4>1, DataIs
    <3> QED
      BY <2>2, <3>1
  <2>4. Lengths(x)[f] = HeadLength(b) + Cardinality(D)
    <3>1. Lengths(x)[f] = HeadLength(b)
            + Cardinality({y \in (1 .. MaxFdn) \X Ids : y[2] < DataLength(x.home[<<f, y[1]>>])})
      BY <1>1, <1>3 DEF Lengths
    <3> QED
      BY <2>3, <3>1
  <2>5. Cardinality(D) = IF l < HeadPages THEN 0 ELSE l - HeadPages
    BY <2>2, DataCounted
  <2>6. HeadPages \in Int
    BY Sizes DEF HeadPages
  <2> QED
    BY <1>1, <2>1, <2>4, <2>5, <2>6 DEF LacksLast
<1> QED
  BY <1>2, <1>3

-----------------------------------------------------------------------------
(* Power cuts *)

\* the versions of f that are found in home: those a restart may find, and at the places
\* X also those of V
Survives(home, f, X, V) ==
  /\ Leaves(home, f)
  /\ \A n \in 0 .. MaxFdn, id \in Ids :
       BestVer(home[<<f, n>>], id) \in Allowed(cand, f, PosOf(n, id))
                                         \cup (IF <<f, PosOf(n, id)>> \in X THEN V ELSE {})

\* what is promised of f after a restart
Mended(f, X, V) ==
  /\ Within(dev', cand', f)
  /\ f \notin holed' => Filled(dev', len', restarts', f)
  /\ \A p \in Positions : /\ view'[<<f, p>>] \in cand[<<f, p>>] \cup (IF <<f, p>> \in X THEN V ELSE {})
                          /\ cand'[<<f, p>>] = {view'[<<f, p>>]}

\* A file that survives a power cut is found as it was left.
LEMMA FileMended ==
  ASSUME NEW image, ImageInv(image), dev' = Mounted(image), view' = View(dev'), Holed(view') \in SUBSET holed',
         len' = Lengths(dev'), restarts' # 0,
         cand' = [x \in Places |-> {view'[x]}], NEW X \in SUBSET Places, NEW V, NEW f \in Files,
         NEW home, \A g \in Groups : home[g] = Keep(image[g]), Survives(home, f, X, V)
  PROVE  Mended(f, X, V)
<1>1. dev' = Mounted(image) /\ view' = View(dev') /\ Holed(view') \in SUBSET holed'
  OBVIOUS
<1>2. PICK d : d = dev'
  OBVIOUS
<1>3. Sound(d) /\ d = Mounted(image)
  BY <1>1, <1>2, MountedIs DEF Idle
<1>4. /\ AllTidy(d, f)
      /\ \A n \in 0 .. MaxFdn, id \in Ids : /\ Content(d, <<f, n>>, id) = BestVer(home[<<f, n>>], id)
                                            /\ Poss(d, <<f, n>>, id) = {Content(d, <<f, n>>, id)}
  <2>1. Leaves(home, f)
    BY DEF Survives
  <2> QED
    BY <1>3, <2>1, MountFile
<1>5. \A g : DirtyIds(d, g) = {}
  BY <1>3, MountedBare
<1>6. PICK v : v = view'
  OBVIOUS
<1>7. ASSUME NEW p \in Positions PROVE v[<<f, p>>] = Content(d, <<f, FdnOf(p)>>, IdOf(p))
  BY <1>1, <1>2, <1>3, <1>4, <1>6, ViewShows
<1>8. PICK c : c = cand'
  OBVIOUS
<1>9. ASSUME NEW p \in Positions PROVE c[<<f, p>>] = {v[<<f, p>>]}
  BY <1>6, <1>8, PlacesAre
<1>10. ASSUME NEW n \in 0 .. MaxFdn, NEW id \in Ids, PosOf(n, id) \notin Positions
       PROVE  Content(d, <<f, n>>, id) = 0
  <2>1. <<f, PosOf(n, id)>> \notin X
    <3>1. \A y \in X : y[2] \in Positions
      BY PlaceAt
    <3>2. <<f, PosOf(n, id)>>[2] = PosOf(n, id)
      OBVIOUS
    <3> QED
      BY <1>10, <3>1, <3>2
  <2>2. BestVer(home[<<f, n>>], id) \in {0}
    BY <1>10, <2>1 DEF Survives, Allowed
  <2> QED
    BY <1>4, <2>2
<1>11. ASSUME NEW n \in 0 .. MaxFdn, NEW id \in Ids
       PROVE  Poss(d, <<f, n>>, id) \in SUBSET Allowed(c, f, PosOf(n, id))
  <2>1. Poss(d, <<f, n>>, id) = {Content(d, <<f, n>>, id)}
    BY <1>4
  <2>2. CASE PosOf(n, id) \in Positions
    <3>1. PICK p \in Positions : p = PosOf(n, id)
      BY <2>2
    <3>2. FdnOf(p) = n /\ IdOf(p) = id
      BY <3>1, PlaceOf
    <3>3. c[<<f, p>>] = {Content(d, <<f, n>>, id)}
      BY <1>7, <1>9, <3>2
    <3> QED
      BY <2>1, <3>1, <3>3 DEF Allowed
  <2>3. CASE PosOf(n, id) \notin Positions
    BY <1>10, <2>1, <2>3 DEF Allowed
  <2> QED
    BY <2>2, <2>3
<1>12. Within(d, c, f)
  BY <1>4, <1>11 DEF Within
<1>13. ASSUME f \notin holed' PROVE Filled(dev', len', restarts', f)
  <2>1. f \notin Holed(View(d))
    BY <1>1, <1>2, <1>13
  <2>2. PICK l \in -1 .. MaxLen : Upto(d, f, l)
    BY <1>3, <1>4, <1>10, <2>1, NotHoledUpto
  <2>3. l \in Int /\ -1 <= l /\ l <= HeadPages + MaxFdn * Pages
    <3>1. HeadPages \in Int /\ MaxFdn * Pages \in Int
      BY Sizes DEF HeadPages
    <3> QED
      BY <3>1, StoreAssumption
  <2>4. \/ Lengths(d)[f] = l
        \/ Lengths(d)[f] = HeadPages /\ l = HeadPages - 1
    BY <1>3, <1>4, <1>5, <2>2, <2>3, LengthIs
  <2>5. PICK length : length = len'
    OBVIOUS
  <2>6. length = Lengths(d)
    BY <1>2, <2>5
  <2>7. \A r : r # 0 => Filled(d, length, r, f)
    BY <2>2, <2>4, <2>6 DEF Filled
  <2> QED
    BY <1>2, <2>5, <2>7
<1>14. ASSUME NEW p \in Positions
       PROVE  v[<<f, p>>] \in cand[<<f, p>>] \cup (IF <<f, p>> \in X THEN V ELSE {})
  <2>1. p \in AllPos
    BY PositionsAre
  <2>2. FdnOf(p) \in 0 .. MaxFdn /\ IdOf(p) \in Ids /\ PosOf(FdnOf(p), IdOf(p)) = p
    BY <2>1, PlaceBack
  <2>3. v[<<f, p>>] = BestVer(home[<<f, FdnOf(p)>>], IdOf(p))
    BY <1>4, <1>7, <2>2
  <2>4. BestVer(home[<<f, FdnOf(p)>>], IdOf(p))
          \in Allowed(cand, f, PosOf(FdnOf(p), IdOf(p)))
                \cup (IF <<f, PosOf(FdnOf(p), IdOf(p))>> \in X THEN V ELSE {})
    BY <2>2 DEF Survives
  <2> QED
    BY <2>2, <2>3, <2>4 DEF Allowed
<1> QED
  BY <1>2, <1>6, <1>8, <1>9, <1>12, <1>13, <1>14 DEF Mended

\* The device between two calls can be mounted, and so can what a cut leaves.
LEMMA DevImage ==
  ASSUME StoreInv
  PROVE  ImageInv(Image(dev)) /\ \A g \in Groups : dev.home[g] = Keep(Image(dev)[g])
<1>1. dev \in Work /\ Sound(dev) /\ HeadsInv(dev) /\ BlocksInv(dev)
  BY DEF StoreInv, Idle, Sound, Body
<1>2. Cardinality(Tree(dev.home)) < Blocks
  <2>1. Cardinality(Tree(dev.home)) \in Nat /\ dev.spare \in Int
    BY <1>1, TreeFinite DEF Work
  <2> QED
    BY <1>1, <2>1, Sizes DEF BlocksInv
<1>3. ImageInv(Image(dev))
  BY <1>1, <1>2, ImageIs DEF HeadsInv
<1>4. \A g \in Groups : dev.home[g] = NoBlock \/ Headed(dev.home[g])
  BY <1>1 DEF HeadsInv, Tree
<1>5. \A g \in Groups : Keep(Image(dev)[g]) = dev.home[g]
  BY <1>4, ImageKeeps
<1> QED
  BY <1>3, <1>5

\* A page that is found torn, and was not so before, is of a group that was written.
LEMMA TornWritten ==
  ASSUME StoreInv, NEW w, NEW image \in {Image(dev)} \cup w.cuts, ImageInv(image), NEW x, x = Mounted(image),
         NEW F, \A g \in Groups : g[1] \in F \/ Rests(dev, w, g), NEW g \in TornSince(dev, x.home)
  PROVE  g[1] \in Files /\ g[1] \in Pending \cup F
<1>1. g \in Groups /\ Torn(x.home[g]) /\ x.home[g] # dev.home[g]
  BY DEF TornSince
<1>2. PICK n \in 0 .. MaxFdn : g[1] \in Files /\ g = <<g[1], n>>
  BY <1>1 DEF Groups
<1>3. x.home[g] # NoBlock
  BY <1>1 DEF Torn, NoBlock
<1>4. x.home[g] = Keep(image[g])
  BY <1>1, <1>3, MountedBare
<1>5. image \in w.cuts
  BY <1>1, <1>4, DevImage
<1>6. ASSUME Rests(dev, w, g) PROVE DirtyIds(dev, g) # {}
  <2>1. PICK home \in Homes(w) : home = [h \in Groups |-> Keep(image[h])]
    BY <1>5 DEF Homes
  <2>2. home[g] # dev.home[g]
    BY <1>1, <1>4, <2>1
  <2>3. Homes(dev) = {dev.home}
    BY IdleTrees DEF StoreInv
  <2> QED
    BY <1>6, <2>2, <2>3 DEF Rests
<1>7. ASSUME DirtyIds(dev, g) # {} PROVE g[1] \in Pending
  <2>1. ~Settled(dev, g[1])
    BY <1>2, <1>7 DEF Settled
  <2> QED
    BY <1>2, <2>1, DirtyFile DEF Pending, StoreInv, Idle
<1> QED
  BY <1>1, <1>2, <1>6, <1>7

\* A restart of which every file that is promised survives.
LEMMA RestartPages ==
  ASSUME StoreInv, HistInv, PagesInv, NEW w, CutsInv(w), Restart(w),
         NEW X \in SUBSET Places, NEW V,
         \A f \in Files \ holed : /\ Survives(dev.home, f, X, V)
                                  /\ \A home \in Homes(w) : Survives(home, f, X, V),
         NEW F, \A g \in Groups : g[1] \in F \/ Rests(dev, w, g)
  PROVE  PagesInv' /\ PS!Cut(X, V, F)
<1>1. PICK image \in {Image(dev)} \cup w.cuts : dev' = Mounted(image)
  BY DEF Restart
<1>9. /\ stale' \in SUBSET TornSince(dev, dev'.home)
      /\ view' = View(dev') /\ holed' = holed \cup Holed(view') \cup {g[1] : g \in stale'}
  BY DEF Restart
<1>2. /\ restarts' = restarts + 1 /\ len' = Lengths(dev')
      /\ cand' = [x \in Places |-> {view'[x]}]
  BY DEF Restart
<1>3. restarts' # 0
  <2>1. restarts \in 0 .. MaxRestarts
    BY DEF HistInv
  <2> QED
    BY <1>2, <2>1, StoreAssumption
<1>4. ImageInv(image)
  BY <1>1, DevImage DEF CutsInv
<1>5. PICK home : home = IF image = Image(dev) THEN dev.home ELSE [g \in Groups |-> Keep(image[g])]
  OBVIOUS
<1>6. \A g \in Groups : home[g] = Keep(image[g])
  BY <1>5, DevImage
<1>7. home = dev.home \/ home \in Homes(w)
  BY <1>1, <1>5 DEF Homes
<1>8. ASSUME NEW f \in Files \ holed PROVE Mended(f, X, V)
  <2>1. Survives(home, f, X, V)
    BY <1>7
  <2>2. Holed(view') \in SUBSET holed'
    BY <1>9
  <2> QED
    BY <1>1, <1>2, <1>3, <1>4, <1>6, <1>9, <2>1, <2>2, FileMended
<1>12. \A g \in stale' : g[1] \in Files /\ g[1] \in Pending \cup F
  <2>1. PICK x : x = dev'
    OBVIOUS
  <2>2. \A g \in TornSince(dev, x.home) : g[1] \in Files /\ g[1] \in Pending \cup F
    BY <1>1, <1>4, <2>1, TornWritten
  <2> QED
    BY <1>9, <2>1, <2>2
<1>10. PagesInv'
  <2>1. Holed(view') \in SUBSET holed' /\ holed' \in SUBSET Files
    <3>1. Holed(view') \in SUBSET Files
      BY DEF Holed
    <3> QED
      BY <1>9, <1>12, <3>1 DEF PagesInv
  <2>2. \A f \in Files \ holed' : Within(dev', cand', f) /\ Filled(dev', len', restarts', f)
    BY <1>8, <1>9 DEF Mended
  <2>3. ASSUME NEW f \in Files \ holed' PROVE Marked(f)'
    <3>1. ASSUME NEW n \in 0 .. MaxFdn, <<f, n>> \in stale' PROVE FALSE
      <4>1. <<f, n>>[1] \in holed'
        BY <1>9, <3>1
      <4> QED
        BY <2>3, <4>1
    <3> QED
      BY <3>1 DEF Marked
  <2> QED
    BY <1>3, <1>9, <2>1, <2>2, <2>3 DEF PagesInv
<1>13. Pending' = {}
  <2>1. PICK x : x = dev'
    OBVIOUS
  <2>2. \A i \in 1 .. Buffers : x.bufs[i].mark = "empty"
    BY <1>1, <1>4, <2>1, MountedBare
  <2> QED
    BY <2>1, <2>2 DEF Pending
<1>14. holed \cup PS!Holed(view') \in SUBSET holed' /\ holed' \in SUBSET (holed \cup PS!Holed(view') \cup Pending \cup F)
  BY <1>9, <1>12 DEF PS!Holed, Holed
<1>11. PS!Cut(X, V, F)
  <2>1. ASSUME NEW x \in PS!Promised
        PROVE  /\ view'[x] \in cand[x] \cup (IF x \in X THEN V ELSE {})
               /\ cand'[x] = {view'[x]}
    <3>1. x \in Places /\ x[1] \notin holed
      BY DEF PS!Promised, PS!Places, Places
    <3>2. PICK f, p : f = x[1] /\ p = x[2]
      OBVIOUS
    <3>3. f \in Files \ holed /\ p \in Positions /\ x = <<f, p>>
      BY <3>1, <3>2, PlaceAt
    <3>4. Mended(f, X, V)
      BY <1>8, <3>3
    <3> QED
      BY <3>3, <3>4 DEF Mended
  <2> QED
    BY <1>13, <1>14, <2>1 DEF PS!Cut
<1> QED
  BY <1>10, <1>11
\* A file whose blocks are laid out, wherever power fails, survives.
LEMMA SurvivesIf ==
  ASSUME NEW w, NEW f \in Files, AllTidy(w, f), Rooted(w, f), NEW X, NEW V,
         \A n \in 0 .. MaxFdn, id \in Ids :
           Poss(w, <<f, n>>, id) \in SUBSET (Allowed(cand, f, PosOf(n, id))
                                               \cup (IF <<f, PosOf(n, id)>> \in X THEN V ELSE {})),
         NEW home \in Homes(w)
  PROVE  Survives(home, f, X, V)
<1>1. ASSUME NEW n \in 0 .. MaxFdn PROVE Laid(home[<<f, n>>])
  BY DEF AllTidy, Tidy
<1>2. ASSUME NEW n \in 0 .. MaxFdn, home[<<f, n>>] # NoBlock PROVE home[<<f, 0>>] # NoBlock
  <2>1. <<f, n>> \in Tree(home) /\ Tree(home) \in Trees(w)
    BY <1>2, GroupIs DEF Tree, Trees
  <2>2. <<f, 0>> \in Tree(home)
    BY <2>1 DEF Rooted
  <2> QED
    BY <2>2 DEF Tree
<1>3. ASSUME NEW n \in 0 .. MaxFdn, NEW id \in Ids PROVE BestVer(home[<<f, n>>], id) \in Poss(w, <<f, n>>, id)
  BY DEF Poss
<1> QED
  BY <1>1, <1>2, <1>3 DEF Survives, Leaves

LEMMA WithinSurvives ==
  ASSUME NEW w, NEW f \in Files, Within(w, cand, f), Rooted(w, f), NEW X, NEW V, NEW home \in Homes(w)
  PROVE  Survives(home, f, X, V)
<1>1. AllTidy(w, f)
  BY DEF Within
<1>2. \A n \in 0 .. MaxFdn, id \in Ids :
        Poss(w, <<f, n>>, id) \in SUBSET (Allowed(cand, f, PosOf(n, id))
                                            \cup (IF <<f, PosOf(n, id)>> \in X THEN V ELSE {}))
  BY DEF Within
<1> QED
  BY <1>1, <1>2, SurvivesIf

\* Of a file that is promised there is a head when there is a block.
LEMMA PromisedRooted ==
  ASSUME StoreInv, PagesInv, NEW f \in Files \ holed
  PROVE  Rooted(dev, f) /\ Within(dev, cand, f) /\ AllTidy(dev, f) /\ Marked(f)
<1>1. Within(dev, cand, f) /\ Filled(dev, len, restarts, f) /\ Marked(f)
  BY DEF PagesInv
<1>2. len[f] \in Int
  <2>1. HeadPages + MaxFdn * Pages \in Int
    BY Sizes DEF HeadPages
  <2> QED
    BY <2>1 DEF StoreInv, Lengthy
<1>3. PICK l \in Int : Upto(dev, f, l)
  BY <1>1, <1>2, UptoIs
<1> QED
  BY <1>1, <1>3, RootedIs DEF Within

LEMMA DevSurvives ==
  ASSUME StoreInv, PagesInv, NEW f \in Files \ holed, NEW X, NEW V
  PROVE  Survives(dev.home, f, X, V)
<1>1. dev.home \in Homes(dev)
  BY DEF Homes
<1> QED
  BY <1>1, PromisedRooted, WithinSurvives

\* A file that is not touched survives.
LEMMA StaysSurvives ==
  ASSUME StoreInv, PagesInv, NEW w, NEW f \in Files \ holed, Stays(dev, w, f), Rooted(w, f),
         NEW X, NEW V, NEW home \in Homes(w)
  PROVE  Survives(home, f, X, V)
<1>1. Within(dev, cand, f) /\ AllTidy(dev, f)
  BY PromisedRooted
<1>2. Within(w, cand, f)
  BY StaysIs
<1> QED
  BY <1>2, WithinSurvives

\* Power fails in a call that changes no page.
LEMMA CalmCut ==
  ASSUME StoreInv, HistInv, PagesInv, NEW w, CutsInv(w), Restart(w), Calm(dev, w)
  PROVE  PagesInv' /\ PS!PowerCut
<1>1. PICK X \in SUBSET Places : X = {}
  OBVIOUS
<1>2. PICK V : V = {}
  OBVIOUS
<1>3. ASSUME NEW f \in Files \ holed
      PROVE  Survives(dev.home, f, X, V) /\ \A home \in Homes(w) : Survives(home, f, X, V)
  <2>1. Stays(dev, w, f)
    BY GroupIs DEF Calm, AllSame, Stays
  <2>2. Rooted(w, f)
    BY PromisedRooted DEF Calm, Rooted
  <2> QED
    BY <2>1, <2>2, DevSurvives, StaysSurvives
<1>5. PICK F : F = {}
  OBVIOUS
<1>6. \A g \in Groups : g[1] \in F \/ Rests(dev, w, g)
  BY DEF Calm, AllSame, Same
<1>4. PagesInv' /\ PS!Cut(X, V, F)
  BY <1>3, <1>6, RestartPages
<1> QED
  BY <1>1, <1>2, <1>4, <1>5 DEF PS!PowerCut

\* A group that may come into the tree is a head, or has one.
LEMMA BesideRooted ==
  ASSUME StoreInv, PagesInv, NEW f \in Files, NEW p \in Positions, p <= len[f], NEW g, g = <<f, FdnOf(p)>>,
         NEW w, Beside(dev, w, g), NEW e \in Files \ holed
  PROVE  Rooted(w, e)
<1>1. Rooted(dev, e)
  BY PromisedRooted
<1>2. dev.cuts = {}
  BY DEF StoreInv
<1>3. Trees(w) \in SUBSET {Tree(dev.home), Tree(dev.home) \cup {g}} /\ Tree(dev.home) \in Trees(dev)
  BY <1>2, IdleTrees DEF Beside
<1>4. ASSUME NEW n \in 0 .. MaxFdn, <<e, n>> = g PROVE <<e, 0>> \in Tree(dev.home) \cup {g}
  <2>1. e = f /\ n = FdnOf(p)
    <3>1. <<e, n>>[1] = e /\ <<e, n>>[2] = n /\ g[1] = f /\ g[2] = FdnOf(p)
      OBVIOUS
    <3> QED
      BY <1>4, <3>1
  <2>2. CASE n = 0
    BY <1>4, <2>2
  <2>3. CASE n # 0
    <3>0. 0 \in 0 .. MaxFdn /\ 0 \in Ids /\ HeadPages \in Int /\ HeadPages >= 1 /\ p \in Int
      BY Sizes, PositionIs DEF HeadPages
    <3>1. p >= HeadPages
      BY <2>1, <2>3, <3>0 DEF FdnOf
    <3>2. len[f] \in Int
      <4>1. HeadPages + MaxFdn * Pages \in Int
        BY Sizes DEF HeadPages
      <4> QED
        BY <4>1 DEF StoreInv, Lengthy
    <3>3. PICK l \in Int : /\ Upto(dev, e, l)
                           /\ l = len[f] \/ l = HeadPages - 1
      BY <2>1, LowerAre
    <3>4. -1 < l
      BY <3>0, <3>1, <3>2, <3>3
    <3>5. PosOf(0, 0) = -1
      BY <3>0, PosIs
    <3>6. Content(dev, <<e, 0>>, 0) # 0
      BY <3>0, <3>3, <3>4, <3>5 DEF Upto
    <3>7. Sound(dev) /\ AtHome(dev) /\ <<e, 0>> \in Groups
      BY <3>0, GroupIs DEF StoreInv, Idle
    <3>8. <<e, 0>> \in Tree(dev.home)
      BY <3>0, <3>6, <3>7, PageHasHome
    <3> QED
      BY <3>8
  <2> QED
    BY <2>2, <2>3
<1>5. ASSUME NEW T \in Trees(w), NEW n \in 0 .. MaxFdn, <<e, n>> \in T PROVE <<e, 0>> \in T
  <2>1. CASE T = Tree(dev.home)
    BY <1>1, <1>3, <1>5, <2>1 DEF Rooted
  <2>2. CASE T = Tree(dev.home) \cup {g}
    <3>1. CASE <<e, n>> = g
      BY <1>4, <2>2, <3>1
    <3>2. CASE <<e, n>> \in Tree(dev.home)
      BY <1>1, <1>3, <2>2, <3>2 DEF Rooted
    <3> QED
      BY <1>5, <2>2, <3>1, <3>2
  <2> QED
    BY <1>3, <2>1, <2>2
<1> QED
  BY <1>5 DEF Rooted

\* Power fails in a call that writes position p of f: a restart finds the page as it was
\* or as it was to be.
LEMMA WriteCut ==
  ASSUME StoreInv, HistInv, PagesInv, NEW w, CutsInv(w), Restart(w), NEW f \in Files, NEW p \in Positions,
         p <= len[f], NEW v \in 1 .. MaxWrites, NEW g, g = <<f, FdnOf(p)>>, Beside(dev, w, g),
         f \notin holed => Changes(w, g, IdOf(p), v)
  PROVE  PagesInv' /\ PS!PowerCut
<1>0. v # 0 /\ FdnOf(p) \in 0 .. MaxFdn /\ IdOf(p) \in Ids
  BY PositionsAre, PlaceBack, Sizes
<1>1. PICK X \in SUBSET Places : X = {<<f, p>>}
  BY PlacesAre
<1>2. PICK V : V = 1 .. MaxWrites
  OBVIOUS
<1>3. ASSUME NEW e \in Files \ holed, NEW home \in Homes(w) PROVE Survives(home, e, X, V)
  <2>1. Rooted(w, e)
    BY BesideRooted
  <2>2. CASE Stays(dev, w, e)
    BY <2>1, <2>2, StaysSurvives
  <2>3. CASE ~Stays(dev, w, e)
    <3>1. e = f
      <4>1. g \in Groups /\ g[1] = f
        BY <1>0, GroupIs
      <4> QED
        BY <2>3, <4>1, BesideStays
    <3>2. \A n \in 0 .. MaxFdn : n # FdnOf(p) => Same(dev, w, <<f, n>>)
      <4>1. ASSUME NEW n \in 0 .. MaxFdn, n # FdnOf(p) PROVE Same(dev, w, <<f, n>>)
        <5>1. <<f, n>> \in Groups /\ <<f, n>> # g
          BY <4>1, GroupIs
        <5> QED
          BY <5>1 DEF Beside
      <4> QED
        BY <4>1
    <3>3. Changes(w, g, IdOf(p), v)
      BY <3>1
    <3>4. ~Same(dev, w, g)
      BY <2>3, <3>1, <3>2 DEF Stays
    <3>5. Alters(dev, w, g, IdOf(p), v)
      BY <3>3, <3>4 DEF Changes
    <3>6. \A k \in 0 .. IdOf(p) - 1 : Content(dev, g, k) # 0
      BY <3>1, LowerAre
    <3>7. Within(dev, cand, f) /\ AllTidy(dev, f) /\ Marked(f)
      BY <3>1, PromisedRooted
    <3>8. AllTidy(w, f) /\ Adds(dev, w, f, p, v)
      BY <1>0, <3>2, <3>5, <3>6, <3>7, RewrittenIs
    <3>9. ASSUME NEW n \in 0 .. MaxFdn, NEW id \in Ids
          PROVE  Poss(w, <<f, n>>, id) \in SUBSET (Allowed(cand, f, PosOf(n, id))
                                                     \cup (IF <<f, PosOf(n, id)>> \in X THEN V ELSE {}))
      <4>1. Poss(dev, <<f, n>>, id) \in SUBSET Allowed(cand, f, PosOf(n, id))
        BY <3>7 DEF Within
      <4>2. Poss(w, <<f, n>>, id) \in SUBSET (Poss(dev, <<f, n>>, id) \cup (IF PosOf(n, id) = p THEN {v} ELSE {}))
        BY <3>8 DEF Adds
      <4>3. PosOf(n, id) = p => <<f, PosOf(n, id)>> \in X /\ v \in V
        BY <1>1, <1>2
      <4> QED
        BY <4>1, <4>2, <4>3
    <3> QED
      BY <2>1, <3>1, <3>8, <3>9, SurvivesIf
  <2> QED
    BY <2>2, <2>3
<1>6. PICK F : F = {f}
  OBVIOUS
<1>7. \A h \in Groups : h[1] \in F \/ Rests(dev, w, h)
  BY <1>6 DEF Beside, Same
<1>4. PagesInv' /\ PS!Cut(X, V, F)
  BY <1>3, <1>7, DevSurvives, RestartPages
<1>5. <<f, p>> \in PS!Places /\ <<f, p>>[1] = f
  BY PlacesAre DEF PS!Places, Places
<1> QED
  BY <1>1, <1>2, <1>4, <1>5, <1>6 DEF PS!PowerCut

\* Power fails in a deletion: a restart finds each page as it was or not at all.
LEMMA DeleteCut ==
  ASSUME StoreInv, HistInv, PagesInv, NEW f \in Files, Exists(f),
         NEW w, w = DeleteObject(f), Restart(w)
  PROVE  PagesInv' /\ PS!PowerCut
<1>1. <<f, 0>> \in Tree(dev.home) /\ len[f] \in 0 .. HeadPages + MaxFdn * Pages /\ Idle(dev)
  BY HeadIs DEF StoreInv
<1>2. CutsInv(w)
  BY <1>1, DeleteObjectIs DEF Idle, Sound, Body
<1>3. /\ Spares(dev, w, f)
      /\ Plain(dev, f) => Shrinks(dev, w, f) /\ Rooted(w, f)
  BY <1>1, DeleteObjectClears
<1>4. PICK X \in SUBSET Places : X = {f} \X Positions
  BY DEF Places
<1>5. PICK V : V = {0}
  OBVIOUS
<1>6. ASSUME NEW e \in Files \ holed, e # f, NEW home \in Homes(w) PROVE Survives(home, e, X, V)
  <2>1. ASSUME NEW n \in 0 .. MaxFdn PROVE Same(dev, w, <<e, n>>)
    <3>1. <<e, n>> \in Groups
      BY GroupIs
    <3>2. <<e, n>>[1] # f
      BY <1>6
    <3> QED
      BY <1>3, <3>1, <3>2 DEF Spares
  <2>2. Rooted(w, e)
    BY <1>3, <1>6, PromisedRooted DEF Spares
  <2> QED
    BY <2>1, <2>2, StaysSurvives DEF Stays
<1>7. ASSUME f \notin holed, NEW home \in Homes(w) PROVE Survives(home, f, X, V)
  <2>1. /\ Within(dev, cand, f) /\ AllTidy(dev, f) /\ Filled(dev, len, restarts, f)
        /\ Marked(f)
    BY <1>7, PromisedRooted DEF PagesInv
  <2>2. Shrinks(dev, w, f) /\ Rooted(w, f)
    BY <1>3, <2>1, PlainIs
  <2>3. AllTidy(w, f)
    BY <2>1, <2>2 DEF Shrinks, AllTidy, Marked
  <2>4. ASSUME NEW n \in 0 .. MaxFdn, NEW id \in Ids
        PROVE  Poss(w, <<f, n>>, id) \in SUBSET (Allowed(cand, f, PosOf(n, id))
                                                   \cup (IF <<f, PosOf(n, id)>> \in X THEN V ELSE {}))
    <3>1. Poss(w, <<f, n>>, id) \in SUBSET (Poss(dev, <<f, n>>, id) \cup {0})
      BY <2>1, <2>2 DEF Shrinks, AllTidy, Marked
    <3>2. Poss(dev, <<f, n>>, id) \in SUBSET Allowed(cand, f, PosOf(n, id))
      BY <2>1 DEF Within
    <3>3. CASE PosOf(n, id) \in Positions
      <4>1. <<f, PosOf(n, id)>> \in X
        BY <1>4, <3>3
      <4> QED
        BY <1>5, <3>1, <3>2, <4>1
    <3>4. CASE PosOf(n, id) \notin Positions
      BY <3>1, <3>2, <3>4 DEF Allowed
    <3> QED
      BY <3>3, <3>4
  <2> QED
    BY <2>2, <2>3, <2>4, SurvivesIf
<1>10. PICK F : F = {f}
  OBVIOUS
<1>11. \A g \in Groups : g[1] \in F \/ Rests(dev, w, g)
  BY <1>3, <1>10 DEF Spares, Same
<1>8. PagesInv' /\ PS!Cut(X, V, F)
  BY <1>2, <1>6, <1>7, <1>11, DevSurvives, RestartPages
<1>9. X = PS!PlacesOf(f)
  BY <1>4 DEF PS!PlacesOf
<1> QED
  BY <1>5, <1>8, <1>9, <1>10 DEF PS!PowerCut

\* the next version, which a call that is cut short was to write
LEMMA CutStamp ==
  ASSUME StoreInv, Stamped
  PROVE  clock' \in Vers /\ clock' \in 1 .. MaxWrites
<1> QED
  BY StampedIs, Sizes DEF StoreInv, Vers

LEMMA CreateCut ==
  ASSUME StoreInv, HistInv, PagesInv, NEW f \in Files, CutCreate(f)
  PROVE  PagesInv' /\ PS!PowerCut
<1>1. PICK v : v = clock'
  OBVIOUS
<1>2. v \in Vers /\ v \in 1 .. MaxWrites
  BY <1>1, CutStamp DEF CutCreate
<1>3. PICK p \in Int : p = -1
  OBVIOUS
<1>4. FdnOf(p) = 0 /\ IdOf(p) = 0 /\ p \in Positions /\ 0 \in 0 .. MaxFdn
  BY <1>3, InfoPlace
<1>5. PICK w : w = WriteNew(f, p, v) /\ Restart(w)
  BY <1>1, <1>3 DEF CutCreate
<1>6. len[f] = -1 /\ p <= len[f]
  BY <1>3 DEF CutCreate, Creatable
<1>7. CutsInv(w)
  BY <1>2, <1>4, <1>5, WriteNewIs DEF StoreInv, Ended, Idle, Sound, Body
<1>8. PICK g : g = <<f, FdnOf(p)>>
  OBVIOUS
<1>9. /\ Beside(dev, w, g)
      /\ Content(dev, g, 0) = 0 => Changes(w, g, 0, v)
  BY <1>2, <1>4, <1>5, <1>8, WriteNewChanges DEF StoreInv
<1>10. ASSUME f \notin holed PROVE Changes(w, g, IdOf(p), v)
  <2>1. Content(dev, g, IdOf(p)) = 0
    BY <1>3, <1>4, <1>6, <1>8, <1>10, LowerAre
  <2> QED
    BY <1>4, <1>9, <2>1
<1> QED
  BY <1>2, <1>4, <1>5, <1>6, <1>7, <1>8, <1>9, <1>10, WriteCut

LEMMA WriteObjectCut ==
  ASSUME StoreInv, HistInv, PagesInv, NEW f \in Files, NEW p \in Positions, CutWrite(f, p)
  PROVE  PagesInv' /\ PS!PowerCut
<1>1. PICK v : v = clock'
  OBVIOUS
<1>2. v \in Vers /\ v \in 1 .. MaxWrites
  BY <1>1, CutStamp DEF CutWrite
<1>3. PICK w : w = WriteObject(f, p, v) /\ Restart(w)
  BY <1>1 DEF CutWrite
<1>4. p <= len[f]
  BY DEF CutWrite, Writable
<1>5. CutsInv(w)
  BY <1>2, <1>3, WriteObjectIs DEF StoreInv, Ended, Idle, Sound, Body
<1>6. PICK g : g = <<f, FdnOf(p)>>
  OBVIOUS
<1>7. /\ Beside(dev, w, g)
      /\ (p = len[f] => Content(dev, g, IdOf(p)) = 0) => Changes(w, g, IdOf(p), v)
  BY <1>2, <1>3, <1>6, WriteObjectChanges DEF StoreInv
<1>8. ASSUME f \notin holed PROVE Changes(w, g, IdOf(p), v)
  <2>1. p = len[f] => Content(dev, g, IdOf(p)) = 0
    BY <1>4, <1>6, <1>8, LowerAre
  <2> QED
    BY <1>7, <2>1
<1> QED
  BY <1>2, <1>3, <1>4, <1>5, <1>6, <1>7, <1>8, WriteCut

LEMMA RenameCut ==
  ASSUME StoreInv, HistInv, PagesInv, NEW f \in Files, CutRename(f)
  PROVE  PagesInv' /\ PS!PowerCut
<1>1. PICK v : v = clock'
  OBVIOUS
<1>2. v \in Vers /\ v \in 1 .. MaxWrites
  BY <1>1, CutStamp DEF CutRename
<1>3. PICK p \in Int : p = -1
  OBVIOUS
<1>4. FdnOf(p) = 0 /\ IdOf(p) = 0 /\ p \in Positions /\ 0 \in 0 .. MaxFdn
  BY <1>3, InfoPlace
<1>5. PICK w : w = MoveObject(f, v) /\ Restart(w)
  BY <1>1 DEF CutRename
<1>6. <<f, 0>> \in Tree(dev.home) /\ len[f] \in 0 .. HeadPages + MaxFdn * Pages
  BY HeadIs DEF CutRename
<1>7. CutsInv(w)
  BY <1>2, <1>5, <1>6, MoveObjectIs DEF StoreInv, Ended, Idle, Sound, Body
<1>8. PICK g : g = <<f, FdnOf(p)>>
  OBVIOUS
<1>9. Changes(w, g, IdOf(p), v)
  BY <1>2, <1>4, <1>5, <1>6, <1>8, MoveObjectChanges DEF StoreInv
<1>10. Beside(dev, w, g)
  BY <1>9 DEF Changes
<1>11. p <= len[f]
  <2>1. HeadPages \in Int /\ MaxFdn * Pages \in Int
    BY Sizes DEF HeadPages
  <2> QED
    BY <1>3, <1>6, <2>1
<1> QED
  BY <1>2, <1>4, <1>5, <1>7, <1>8, <1>9, <1>10, <1>11, WriteCut

LEMMA PowerCutPages ==
  ASSUME StoreInv, HistInv, PagesInv, PowerCut
  PROVE  PagesInv' /\ PS!PowerCut
<1>0. Idle(dev)
  BY DEF StoreInv
<1>1. CASE CutIdle
  <2>1. Restart(dev) /\ CutsInv(dev)
    BY <1>0, <1>1 DEF CutIdle, Idle, Sound, Body
  <2> QED
    BY <2>1, CalmSelf, CalmCut
<1>2. ASSUME NEW f \in Files, CutClose(f) PROVE PagesInv' /\ PS!PowerCut
  <2>1. PICK w : w = FlushFile(dev, f) /\ Restart(w)
    BY <1>2 DEF CutClose
  <2>2. CutsInv(w)
    BY <1>0, <2>1, CloseIs DEF Ended, Idle, Sound, Body
  <2>3. Calm(dev, w)
    BY <1>0, <2>1, FlushFileCalm DEF Idle
  <2> QED
    BY <2>1, <2>2, <2>3, CalmCut
<1>3. ASSUME NEW f \in Files, NEW p \in Positions, CutRead(f, p) PROVE PagesInv' /\ PS!PowerCut
  <2>1. PICK w : w = ReadObject(f, p) /\ Restart(w)
    BY <1>3 DEF CutRead
  <2>2. CutsInv(w)
    BY <1>0, <2>1, ReadObjectIs DEF Ended, Idle, Sound, Body
  <2>3. Calm(dev, w)
    BY <1>0, <2>1, ReadObjectCalm
  <2> QED
    BY <2>1, <2>2, <2>3, CalmCut
<1>4. ASSUME NEW f \in Files, CutDelete(f) PROVE PagesInv' /\ PS!PowerCut
  <2>1. PICK w : w = DeleteObject(f) /\ Restart(w) /\ Exists(f)
    BY <1>4 DEF CutDelete
  <2> QED
    BY <2>1, DeleteCut
<1> QED
  BY <1>1, <1>2, <1>3, <1>4, CreateCut, RenameCut, WriteObjectCut DEF PowerCut

\* Every step of the files is one of the page store.
LEMMA CallPages ==
  ASSUME StoreInv, HistInv, PagesInv, StoreInv', Next
  PROVE  PagesInv' /\ (PS!Call \/ PS!PowerCut)
BY CreatePages, WritePages, OpenPages, ReadPages, RenamePages, ClosePages, DeletePages, PowerCutPages DEF Next

-----------------------------------------------------------------------------
(* The start *)

\* What is found of the first n pages of a group.
LEMMA FreshFinds ==
  ASSUME 1 \in Vers, NEW n \in 1 .. Pages, NEW b, b = Fresh(n)
  PROVE  /\ Laid(b) /\ Keep({b}) = b /\ b # NoBlock /\ b \in Block
         /\ \A id \in Ids : BestVer(b, id) = IF id < n THEN 1 ELSE 0
         /\ ~(Len(b.pages) = Pages /\ b.pages[Pages].id = Pages - 2)
<1>0. n \in Int /\ 1 <= n /\ n <= Pages /\ Pages \in Int /\ Ids = 0 .. Pages - 1
  BY Sizes DEF Ids
<1>1. PICK p : p = b.pages
  OBVIOUS
<1>2. /\ b \in Block /\ Len(p) = n /\ b.ts = 1
      /\ \A i \in 1 .. n : p[i] = [id |-> i - 1, ver |-> 1]
  BY <1>1, FreshType
<1>3. ASSUME NEW i \in 1 .. n PROVE p[i].id = i - 1 /\ p[i].ver = 1
  BY <1>2
<1>4. LaidOut(p)
  <2>1. ASSUME NEW i \in 1 .. n, NEW k \in 0 .. p[i].id - 1 PROVE \E j \in 1 .. i - 1 : p[j].id = k
    <3>1. k + 1 \in 1 .. i - 1 /\ k + 1 \in 1 .. n /\ (k + 1) - 1 = k
      BY <1>0, <1>3, <2>1
    <3>2. p[k + 1].id = k
      BY <1>3, <3>1
    <3> QED
      BY <3>1, <3>2
  <2>2. \A i \in 1 .. n : p[i].ver # 0
    BY <1>3
  <2> QED
    BY <1>2, <2>1, <2>2 DEF LaidOut
<1>5. Laid(b)
  BY <1>1, <1>4 DEF Laid
<1>6. Headed(b)
  <2>1. p[1].id = 0
    BY <1>0, <1>3
  <2>2. p # <<>>
    BY <1>0, <1>2
  <2> QED
    BY <1>1, <2>1, <2>2 DEF Headed
<1>7. b # NoBlock
  BY <1>2 DEF NoBlock
<1>8. ASSUME NEW id \in Ids PROVE BestVer(b, id) = IF id < n THEN 1 ELSE 0
  <2>1. CASE id < n
    <3>1. id + 1 \in 1 .. n /\ (id + 1) - 1 = id
      BY <1>0, <2>1
    <3>2. p[id + 1].id = id /\ p[id + 1].ver = 1
      BY <1>3, <3>1
    <3>3. \A j \in 1 .. n : j > id + 1 => p[j].id # id
      BY <1>0, <1>3
    <3>4. \A i \in 1 .. Len(p) : p[i].id = id /\ (\A j \in 1 .. Len(p) : j > i => p[j].id # id)
                                   => BestVer(b, id) = p[i].ver
      BY <1>1, <1>2, <1>5, FoundIs
    <3>5. BestVer(b, id) = p[id + 1].ver
      BY <1>2, <3>1, <3>2, <3>3, <3>4
    <3> QED
      BY <2>1, <3>2, <3>5
  <2>2. CASE ~(id < n)
    <3>1. \A i \in 1 .. Len(p) : p[i].id # id
      BY <1>0, <1>2, <1>3, <2>2
    <3> QED
      BY <1>1, <1>2, <1>5, <2>2, <3>1, FoundIs
  <2> QED
    BY <2>1, <2>2
<1>9. ASSUME Len(p) = Pages PROVE p[Pages].id # Pages - 2
  BY <1>0, <1>2, <1>3, <1>9
<1> QED
  BY <1>1, <1>2, <1>5, <1>6, <1>7, <1>8, <1>9, KeepOne


\* In front of a group that is there, others are.
LEMMA StartBefore ==
  ASSUME NEW s \in Starts, NEW f \in Files, NEW n \in 0 .. MaxFdn, s.image[<<f, n>>] # {},
         NEW j \in 0 .. n - 1
  PROVE  s.image[<<f, j>>] # {} /\ (s.restarts = 0 => s.image[<<f, j>>] = {Fresh(Pages)})
<1>0. MaxFdn \in Nat /\ n \in Nat
  BY Sizes
<1>1. PICK image : image = s.image
  OBVIOUS
<1>2. ASSUME NEW m \in 0 .. MaxFdn, m > 0, image[<<f, m>>] # {}
      PROVE  /\ image[<<f, m - 1>>] # {}
             /\ s.restarts = 0 => image[<<f, m - 1>>] = {Fresh(Pages)}
  <2>1. <<f, m>> \in Groups /\ <<f, m>>[1] = f /\ <<f, m>>[2] = m
    BY GroupIs
  <2>2. \A g \in Groups : g[2] > 0 /\ s.image[g] # {} =>
          /\ s.image[<<g[1], g[2] - 1>>] # {}
          /\ s.restarts = 0 => s.image[<<g[1], g[2] - 1>>] = {Fresh(Pages)}
    BY StartsAssumption
  <2> QED
    BY <1>1, <1>2, <2>1, <2>2
<1>3. PICK J : J = {i \in 0 .. n - 1 : \/ image[<<f, i>>] = {}
                                       \/ s.restarts = 0 /\ image[<<f, i>>] # {Fresh(Pages)}}
  OBVIOUS
<1>4. CASE J = {}
  BY <1>1, <1>3, <1>4
<1>5. CASE J # {}
  <2>1. J \in SUBSET Nat /\ \A i \in J : i <= n
    BY <1>0, <1>3
  <2>2. PICK k \in J : \A i \in J : i <= k
    BY <1>0, <1>5, <2>1, GreatestIs
  <2>3. k \in 0 .. n - 1 /\ k + 1 \in 0 .. MaxFdn /\ k + 1 > 0 /\ (k + 1) - 1 = k
    BY <1>0, <1>3, <2>2
  <2>4. image[<<f, k + 1>>] # {}
    <3>1. CASE k + 1 = n
      BY <1>1, <3>1
    <3>2. CASE k + 1 # n
      <4>1. k + 1 \in 0 .. n - 1 /\ k + 1 \notin J
        <5>1. k + 1 \in 0 .. n - 1 /\ ~(k + 1 <= k)
          BY <1>0, <2>3, <3>2
        <5> QED
          BY <2>2, <5>1
      <4> QED
        BY <1>3, <4>1
    <3> QED
      BY <3>1, <3>2
  <2>5. /\ image[<<f, k>>] # {}
        /\ s.restarts = 0 => image[<<f, k>>] = {Fresh(Pages)}
    BY <1>2, <2>3, <2>4
  <2>6. k \notin J
    BY <1>3, <2>5
  <2> QED
    BY <2>2, <2>6
<1> QED
  BY <1>4, <1>5

\* page id of group n of f is on the flash at first
AtFirst(image, f, n, id) == \E k \in 1 .. Pages : image[<<f, n>>] = {Fresh(k)} /\ id < k
\* What is found at first.
LEMMA StartFile ==
  ASSUME NEW s \in Starts, NEW x, x = Mounted(s.image), NEW f \in Files
  PROVE  /\ AllTidy(x, f)
         /\ \A n \in 0 .. MaxFdn, id \in Ids :
              /\ Poss(x, <<f, n>>, id) = {Content(x, <<f, n>>, id)}
              /\ Content(x, <<f, n>>, id) # 0 <=> AtFirst(s.image, f, n, id)
         /\ ~LacksLast(x, f)
<1>0. ImageInv(s.image) /\ 1 \in Vers
  BY StartIs
<1>1. PICK image : image = s.image
  OBVIOUS
<1>2. PICK home : home = [g \in Groups |-> Keep(image[g])]
  OBVIOUS
<1>3. ASSUME NEW g \in Groups
      PROVE  \/ image[g] = {} /\ home[g] = NoBlock
             \/ \E n \in 1 .. Pages : image[g] = {Fresh(n)} /\ home[g] = Fresh(n)
  <2>0. image \in [Groups -> {{}} \cup {{Fresh(n)} : n \in 1 .. Pages}]
    BY <1>1, StartsAssumption
  <2>1. image[g] = {} \/ \E n \in 1 .. Pages : image[g] = {Fresh(n)}
    BY <2>0
  <2>2. home[g] = Keep(image[g])
    BY <1>2
  <2>3. CASE image[g] = {}
    BY <2>2, <2>3, KeepNone
  <2>4. ASSUME NEW n \in 1 .. Pages, image[g] = {Fresh(n)} PROVE home[g] = Fresh(n)
    BY <1>0, <2>2, <2>4, FreshFinds
  <2> QED
    BY <2>1, <2>3, <2>4
<1>4. Leaves(home, f)
  <2>1. ASSUME NEW n \in 0 .. MaxFdn PROVE Laid(home[<<f, n>>])
    <3>1. \/ home[<<f, n>>] = NoBlock
          \/ \E k \in 1 .. Pages : home[<<f, n>>] = Fresh(k)
      BY <1>3, GroupIs
    <3> QED
      BY <1>0, <3>1, NoBlockHas, FreshFinds
  <2>2. ASSUME NEW n \in 0 .. MaxFdn, home[<<f, n>>] # NoBlock PROVE home[<<f, 0>>] # NoBlock
    <3>1. image[<<f, n>>] # {}
      <4>1. \E k \in 1 .. Pages : image[<<f, n>>] = {Fresh(k)}
        BY <1>3, <2>2, GroupIs
      <4> QED
        BY <4>1
    <3>2. image[<<f, 0>>] # {}
      <4>1. CASE n = 0
        BY <3>1, <4>1
      <4>2. CASE n # 0
        <5>1. 0 \in 0 .. n - 1
          BY <4>2, Sizes
        <5> QED
          BY <1>1, <3>1, <5>1, StartBefore
      <4> QED
        BY <4>1, <4>2
    <3>3. \E k \in 1 .. Pages : home[<<f, 0>>] = Fresh(k)
      BY <1>3, <3>2, GroupIs
    <3> QED
      BY <1>0, <3>3, FreshFinds
  <2> QED
    BY <2>1, <2>2 DEF Leaves
<1>5. /\ AllTidy(x, f)
      /\ \A n \in 0 .. MaxFdn, id \in Ids : /\ Content(x, <<f, n>>, id) = BestVer(home[<<f, n>>], id)
                                            /\ Poss(x, <<f, n>>, id) = {Content(x, <<f, n>>, id)}
  <2>1. \A g \in Groups : home[g] = Keep(image[g])
    BY <1>2
  <2> QED
    BY <1>0, <1>1, <1>4, <2>1, MountFile
<1>6. ASSUME NEW n \in 0 .. MaxFdn, NEW id \in Ids
      PROVE  BestVer(home[<<f, n>>], id) # 0 <=> AtFirst(image, f, n, id)
  <2>1. CASE image[<<f, n>>] = {} /\ home[<<f, n>>] = NoBlock
    BY <2>1, NoBlockHas DEF AtFirst
  <2>2. ASSUME NEW k \in 1 .. Pages, image[<<f, n>>] = {Fresh(k)}, home[<<f, n>>] = Fresh(k)
        PROVE  BestVer(home[<<f, n>>], id) # 0 <=> AtFirst(image, f, n, id)
    <3>1. BestVer(home[<<f, n>>], id) = IF id < k THEN 1 ELSE 0
      BY <1>0, <2>2, FreshFinds
    <3>2. ASSUME NEW m \in 1 .. Pages, image[<<f, n>>] = {Fresh(m)} PROVE m = k
      <4>1. Fresh(m) = Fresh(k)
        BY <2>2, <3>2
      <4>2. Len(Fresh(m).pages) = m /\ Len(Fresh(k).pages) = k
        BY <1>0, FreshType
      <4> QED
        BY <4>1, <4>2
    <3> QED
      BY <2>2, <3>1, <3>2 DEF AtFirst
  <2>3. \/ image[<<f, n>>] = {} /\ home[<<f, n>>] = NoBlock
        \/ \E k \in 1 .. Pages : image[<<f, n>>] = {Fresh(k)} /\ home[<<f, n>>] = Fresh(k)
    BY <1>3, GroupIs
  <2> QED
    BY <2>1, <2>2, <2>3
<1>7. ~LacksLast(x, f)
  <2>1. <<f, 0>> \in Groups /\ <<f, 0>>[1] = f
    BY GroupIs, Sizes
  <2>2. x.home[<<f, 0>>] = IF Keep(s.image[<<f, 0>>]) = NoBlock THEN NoBlock ELSE Keep(s.image[<<f, 0>>])
    BY <1>0, <2>1, MountedBare
  <2>3. x.home[<<f, 0>>] = home[<<f, 0>>]
    BY <1>1, <1>2, <2>1, <2>2
  <2>4. CASE home[<<f, 0>>] = NoBlock
    <3>1. Len(NoBlock.pages) = 0
      BY DEF NoBlock
    <3> QED
      BY <2>3, <2>4, <3>1, Sizes DEF LacksLast
  <2>5. ASSUME NEW k \in 1 .. Pages, home[<<f, 0>>] = Fresh(k)
        PROVE  ~LacksLast(x, f)
    BY <1>0, <2>3, <2>5, FreshFinds DEF LacksLast
  <2> QED
    BY <1>3, <2>1, <2>4, <2>5
<1> QED
  BY <1>1, <1>5, <1>6, <1>7

\* No file of a start has a page behind the last position, or a page missing when power
\* has never failed.
LEMMA StartWhole ==
  ASSUME NEW s \in Starts, NEW x, x = Mounted(s.image), NEW f \in Files
  PROVE  /\ \A n \in 0 .. MaxFdn, id \in Ids : PosOf(n, id) \notin Positions => Content(x, <<f, n>>, id) = 0
         /\ s.restarts = 0 => f \notin Holed(View(x))
<1>0. ImageInv(s.image) /\ 1 \in Vers
  BY StartIs
<1>1. /\ AllTidy(x, f)
      /\ \A n \in 0 .. MaxFdn, id \in Ids : Content(x, <<f, n>>, id) # 0 <=> AtFirst(s.image, f, n, id)
  BY StartFile
<1>2. Sound(x)
  BY <1>0, MountedIs DEF Idle
<1>3. PICK image : image = s.image
  OBVIOUS
<1>4. ASSUME NEW n \in 0 .. MaxFdn, NEW id \in Ids, Content(x, <<f, n>>, id) # 0
      PROVE  PosOf(n, id) \in Positions
  <2>1. PICK k \in 1 .. Pages : image[<<f, n>>] = {Fresh(k)} /\ id < k
    BY <1>1, <1>3, <1>4 DEF AtFirst
  <2>2. <<f, n>> \in Groups /\ <<f, n>>[2] = n
    BY GroupIs
  <2>3. \A g \in Groups, m \in 1 .. Pages : s.image[g] = {Fresh(m)} => PosOf(g[2], m - 1) < MaxLen
    BY StartsAssumption
  <2>4. PosOf(n, k - 1) < MaxLen
    BY <1>3, <2>1, <2>2, <2>3
  <2>5. k - 1 \in Ids /\ (id < k - 1 \/ id = k - 1)
    BY <2>1, Sizes DEF Ids
  <2>6. PosOf(n, id) <= PosOf(n, k - 1) /\ PosOf(n, id) \in AllPos /\ PosOf(n, k - 1) \in AllPos
    <3>0. HeadPages + MaxFdn * Pages \in Int
      BY Sizes DEF HeadPages
    <3>1. PosOf(n, id) \in AllPos /\ PosOf(n, k - 1) \in AllPos
      BY <2>5, PosIs
    <3>2. PosOf(n, id) < PosOf(n, k - 1) <=> id < k - 1
      BY <2>5, PosOrder
    <3> QED
      BY <2>5, <3>0, <3>1, <3>2 DEF AllPos
  <2>7. MaxLen \in Int /\ HeadPages + MaxFdn * Pages \in Int
    <3>1. HeadPages \in Int /\ MaxFdn * Pages \in Int
      BY Sizes DEF HeadPages
    <3> QED
      BY <3>1, StoreAssumption
  <2> QED
    BY <2>4, <2>6, <2>7 DEF AllPos, Positions
<1>5. ASSUME s.restarts = 0, f \in Holed(View(x)) PROVE FALSE
  <2>1. PICK u : u = View(x)
    OBVIOUS
  <2>2. PICK p \in Positions, q \in Positions : p < q /\ u[<<f, p>>] = 0 /\ u[<<f, q>>] # 0
    BY <1>5, <2>1 DEF Holed
  <2>3. \A y \in Positions : u[<<f, y>>] = Content(x, <<f, FdnOf(y)>>, IdOf(y))
    BY <1>1, <1>2, <2>1, ViewShows
  <2>4. PICK n \in 0 .. MaxFdn, i \in Ids : n = FdnOf(p) /\ i = IdOf(p) /\ PosOf(n, i) = p
    BY PositionsAre, PlaceBack
  <2>5. PICK m \in 0 .. MaxFdn, j \in Ids : m = FdnOf(q) /\ j = IdOf(q) /\ PosOf(m, j) = q
    BY PositionsAre, PlaceBack
  <2>6. Content(x, <<f, n>>, i) = 0 /\ Content(x, <<f, m>>, j) # 0
    BY <2>2, <2>3, <2>4, <2>5
  <2>7. PICK k \in 1 .. Pages : image[<<f, m>>] = {Fresh(k)} /\ j < k
    BY <1>1, <1>3, <2>6 DEF AtFirst
  <2>8. CASE n = m
    <3>1. i < j
      BY <2>2, <2>4, <2>5, <2>8, PosOrder
    <3>2. i < k
      BY <2>7, <3>1, Sizes DEF Ids
    <3> QED
      BY <1>1, <1>3, <2>6, <2>7, <2>8, <3>2 DEF AtFirst
  <2>9. CASE n < m
    <3>1. n \in 0 .. m - 1
      BY <2>9, Sizes
    <3>2. image[<<f, m>>] # {}
      BY <2>7
    <3>3. image[<<f, n>>] = {Fresh(Pages)}
      BY <1>3, <1>5, <3>1, <3>2, StartBefore
    <3>4. Pages \in 1 .. Pages /\ i < Pages
      BY Sizes DEF Ids
    <3> QED
      BY <1>1, <1>3, <2>6, <3>3, <3>4 DEF AtFirst
  <2>10. CASE m < n
    <3>1. q < p
      BY <2>4, <2>5, <2>10, PosOrder
    <3>2. p \in Int /\ q \in Int
      BY PositionIs
    <3> QED
      BY <2>2, <3>1, <3>2
  <2> QED
    BY <2>8, <2>9, <2>10, Sizes
<1> QED
  BY <1>4, <1>5

LEMMA PagesInit == Init => PagesInv
<1> SUFFICES ASSUME Init PROVE PagesInv
  OBVIOUS
<1>1. PICK s \in Starts : dev = Mounted(s.image) /\ restarts = s.restarts
  BY DEF Init
<1>2. PICK d : d = dev
  OBVIOUS
<1>3. ImageInv(s.image)
  BY StartIs
<1>4. Sound(d) /\ \A g : DirtyIds(d, g) = {}
  BY <1>1, <1>2, <1>3, MountedIs, MountedBare DEF Idle
<1>5. view = View(d) /\ len = Lengths(d) /\ cand = [x \in Places |-> {view[x]}] /\ holed = Holed(view)
  BY <1>2 DEF Init
<1>6. holed \in SUBSET Files
  BY <1>5 DEF Holed
<1>9. \A f \in Files : Marked(f)
  BY DEF Init, Marked
<1>7. restarts = 0 => holed = {}
  BY <1>1, <1>2, <1>5, <1>6, StartWhole
<1>8. ASSUME NEW f \in Files \ holed PROVE Within(d, cand, f) /\ Filled(d, len, restarts, f)
  <2>1. /\ AllTidy(d, f)
        /\ \A n \in 0 .. MaxFdn, id \in Ids : Poss(d, <<f, n>>, id) = {Content(d, <<f, n>>, id)}
        /\ ~LacksLast(d, f)
    <3>1. d = Mounted(s.image) /\ f \in Files
      BY <1>1, <1>2
    <3> QED
      BY <3>1, StartFile
  <2>2. \A n \in 0 .. MaxFdn, id \in Ids : PosOf(n, id) \notin Positions => Content(d, <<f, n>>, id) = 0
    BY <1>1, <1>2, StartWhole
  <2>3. ASSUME NEW n \in 0 .. MaxFdn, NEW id \in Ids
        PROVE  Poss(d, <<f, n>>, id) \in SUBSET Allowed(cand, f, PosOf(n, id))
    <3>1. CASE PosOf(n, id) \in Positions
      <4>1. PICK p \in Positions : p = PosOf(n, id)
        BY <3>1
      <4>2. FdnOf(p) = n /\ IdOf(p) = id
        BY <4>1, PlaceOf
      <4>3. View(d)[<<f, p>>] = Content(d, <<f, n>>, id)
        BY <1>4, <2>1, <4>2, ViewShows
      <4>4. cand[<<f, p>>] = {Content(d, <<f, n>>, id)}
        BY <1>5, <4>3, PlacesAre
      <4> QED
        BY <2>1, <4>1, <4>4 DEF Allowed
    <3>2. CASE PosOf(n, id) \notin Positions
      BY <2>1, <2>2, <3>2 DEF Allowed
    <3> QED
      BY <3>1, <3>2
  <2>4. PICK l \in -1 .. MaxLen : Upto(d, f, l)
    <3>1. f \notin Holed(View(d))
      BY <1>5, <1>8
    <3> QED
      BY <1>4, <2>1, <2>2, <3>1, NotHoledUpto
  <2>5. l \in Int /\ -1 <= l /\ l <= HeadPages + MaxFdn * Pages
    <3>1. HeadPages \in Int /\ MaxFdn * Pages \in Int
      BY Sizes DEF HeadPages
    <3> QED
      BY <3>1, StoreAssumption
  <2>6. Lengths(d)[f] = l
    BY <1>4, <2>1, <2>4, <2>5, LengthIs
  <2>7. len[f] = l
    BY <1>5, <2>6
  <2> QED
    BY <2>1, <2>3, <2>4, <2>7 DEF Within, Filled
<1> QED
  BY <1>2, <1>5, <1>6, <1>7, <1>8, <1>9 DEF PagesInv
-----------------------------------------------------------------------------
(* The files are a page store *)

LEMMA PagesStep ==
  StoreInv /\ HistInv /\ PagesInv /\ [Next]_vars => PagesInv' /\ [PS!Next]_(PS!vars)
<1> SUFFICES ASSUME StoreInv, HistInv, PagesInv, [Next]_vars
             PROVE  PagesInv' /\ [PS!Next]_(PS!vars)
  OBVIOUS
<1>1. CASE UNCHANGED vars
  <2>1. UNCHANGED <<dev, stale, len, view, cand, holed, clock, restarts>>
    BY <1>1 DEF vars
  <2>2. PagesInv'
    <3>1. \A f : Marked(f)' <=> Marked(f)
      BY <2>1 DEF Marked
    <3> QED
      BY <2>1, <3>1 DEF PagesInv, Within, Filled, Allowed, Upto, AllTidy
  <2>3. UNCHANGED PS!vars
    BY <2>1 DEF PS!vars, Pending
  <2> QED
    BY <2>2, <2>3
<1>2. CASE Next
  <2>1. StoreInv' /\ HistInv'
    BY <1>2, StepInv, HistStep
  <2>2. PagesInv' /\ (PS!Call \/ PS!PowerCut)
    BY <1>2, <2>1, CallPages
  <2>5. Vers = 1 .. MaxWrites \cup {0} /\ PS!Places = Places
    BY Sizes DEF Vers, PS!Places, Places
  <2>6. PS!TypeOK'
    <3>1. view' \in [Places -> Vers] /\ cand' \in [Places -> SUBSET Vers]
      BY <2>1 DEF HistInv
    <3>2. holed' \subseteq Files /\ Pending' \subseteq Files
      BY <2>2 DEF PagesInv, Pending
    <3> QED
      BY <2>5, <3>1, <3>2 DEF PS!TypeOK
  <2>7. PS!Next
    BY <2>2, <2>6 DEF PS!Next
  <2> QED
    BY <2>2, <2>7
<1> QED
  BY <1>1, <1>2

LEMMA StoreStarts == Init => PS!Init
<1> SUFFICES ASSUME Init PROVE PS!Init
  OBVIOUS
<1>1. view \in [Places -> Vers]
  BY HistInit DEF HistInv
<1>2. Vers = 1 .. MaxWrites \cup {0} /\ PS!Places = Places
  BY Sizes DEF Vers, PS!Places, Places
<1>3. cand = [x \in Places |-> {view[x]}] /\ holed = Holed(view)
  BY DEF Init
<1>4. Pending = {}
  <2>1. PICK s \in Starts : dev = Mounted(s.image)
    BY DEF Init
  <2>2. \A i \in 1 .. Buffers : dev.bufs[i].mark = "empty"
    BY <2>1, StartIs, MountedBare
  <2> QED
    BY <2>2 DEF Pending
<1> QED
  BY <1>1, <1>2, <1>3, <1>4 DEF PS!Init, PS!Holed, Holed

\* Every page is in the version that is promised, in every file that was never found
\* without a page before another one, nor with a torn page that looks free.
THEOREM PagesStay == Spec => [](StoreInv /\ HistInv /\ PagesInv)
<1>1. Init => StoreInv /\ HistInv /\ PagesInv
  BY InitInv, HistInit, PagesInit
<1>2. StoreInv /\ HistInv /\ PagesInv /\ [Next]_vars => (StoreInv /\ HistInv /\ PagesInv)'
  BY StepInv, HistStep, PagesStep
<1> QED
  BY <1>1, <1>2, PTL DEF Spec

\* The files are a page store with a write-back cache, for any number of files, pages,
\* buffers and blocks, and power cuts in the middle of any call: a read returns what
\* was last written, and a restart finds in each page a version written since the page
\* was last made durable.  The torn pages that look free after a restart cost no file
\* but one that had dirty pages or was being written when power failed.
THEOREM FilesArePageStore == Spec => KeepsPages
<1>1. Init => PS!Init
  BY StoreStarts
<1>2. StoreInv /\ HistInv /\ PagesInv /\ [Next]_vars => [PS!Next]_(PS!vars)
  BY PagesStep
<1> QED
  BY <1>1, <1>2, PagesStay, PTL DEF Spec, KeepsPages, PS!Spec

\* The search for a page, which starts from the place its id names, reaches it.
THEOREM SearchesReachPages == Spec => []SearchReaches
<1>1. StoreInv /\ PagesInv => SearchReaches
  <2> SUFFICES ASSUME StoreInv, PagesInv, NEW g \in Groups, g[1] \notin holed,
                      NEW i \in DOMAIN dev.home[g].pages
               PROVE  dev.home[g].pages[i].id < i
    BY DEF SearchReaches
  <2>1. PICK f \in Files \ holed, n \in 0 .. MaxFdn : g = <<f, n>>
    BY DEF Groups
  <2>2. Laid(dev.home[g])
    BY <2>1, PromisedRooted DEF AllTidy, Tidy, Solid
  <2>3. dev.home[g] \in Block
    BY HomeAt DEF StoreInv, Idle, Sound, Body
  <2>4. i \in 1 .. Len(dev.home[g].pages)
    BY <2>3, BlockAt
  <2> QED
    BY <2>2, <2>3, <2>4, LaidReaches
<1> QED
  BY <1>1, PagesStay, PTL

\* Until power fails, the pages of a file are those in front of its end.
LEMMA WholeIs ==
  ASSUME StoreInv, PagesInv, restarts = 0, NEW f \in Files
  PROVE  AllTidy(dev, f) /\ Marked(f) /\ Upto(dev, f, len[f])
<1>1. f \in Files \ holed
  BY DEF PagesInv
<1>2. Within(dev, cand, f) /\ Filled(dev, len, restarts, f) /\ Marked(f)
  BY <1>1 DEF PagesInv
<1> QED
  BY <1>2 DEF Within, Filled

LEMMA WholeAt ==
  ASSUME StoreInv, PagesInv, restarts = 0, NEW f \in Files, NEW p \in Positions
  PROVE  Content(dev, <<f, FdnOf(p)>>, IdOf(p)) # 0 <=> p < len[f]
<1>1. FdnOf(p) \in 0 .. MaxFdn /\ IdOf(p) \in Ids /\ PosOf(FdnOf(p), IdOf(p)) = p
  BY PositionsAre, PlaceBack
<1>2. Upto(dev, f, len[f])
  BY WholeIs
<1> QED
  BY <1>1, <1>2 DEF Upto

\* Until power fails for the first time no page of a file is missing, and none of a
\* file that was deleted is left.
THEOREM FilesAreWhole == Spec => []WholeFiles
<1>1. StoreInv /\ PagesInv => WholeFiles
  <2> SUFFICES ASSUME StoreInv, PagesInv, restarts = 0, NEW x \in Places
               PROVE  x[2] < len[x[1]] <=> view[x] # 0
    BY DEF WholeFiles
  <2>1. PICK f \in Files, p \in Positions : x = <<f, p>>
    BY DEF Places
  <2>2. view = View(dev) /\ Sound(dev)
    BY DEF PagesInv, StoreInv, Idle
  <2>3. View(dev)[<<f, p>>] = Content(dev, <<f, FdnOf(p)>>, IdOf(p))
    BY <2>2, WholeIs, ViewShows
  <2>4. view[x] # 0 <=> p < len[f]
    BY <2>1, <2>2, <2>3, WholeAt
  <2>5. x[1] = f /\ x[2] = p
    BY <2>1
  <2> QED
    BY <2>4, <2>5
<1> QED
  BY <1>1, PagesStay, PTL

\* A page that the file has, when it is not found.
LEMMA MissIsMove ==
  ASSUME StoreInv, PagesInv, restarts = 0, NEW f \in Files, NEW p \in Positions, p < len[f],
         NEW g, g = <<f, FdnOf(p)>>, NEW w, Idle(w), After(w), w = ReadObject(f, p) \/ (p = -1 /\ w = Opened(f)),
         dev'.ret # "ok"
  PROVE  dev'.ret = "nopage" /\ dev'.home[g].ts # dev.home[g].ts
<1>1. FdnOf(p) \in 0 .. MaxFdn /\ IdOf(p) \in Ids /\ Content(dev, g, IdOf(p)) # 0
  BY PositionsAre, PlaceBack, WholeAt
<1>2. g \in Groups /\ Tidy(dev, g) /\ g \notin stale
  BY <1>1, GroupIs, WholeIs DEF AllTidy, Marked
<1>3. Idle(dev) /\ Sound(dev) /\ AtHome(dev)
  BY DEF StoreInv, Idle
<1>4. dev.home[g] # NoBlock
  BY <1>1, <1>2, <1>3, PageHasHome DEF Tree
<1>5. dev'.ret = w.ret /\ dev'.home = w.home
  <2>1. w \in Work
    BY DEF Idle, Sound, Body
  <2>2. dev' = [w EXCEPT !.cuts = {}]
    BY DEF After
  <2> QED
    BY <2>1, <2>2 DEF Work
<1>6. CASE w = ReadObject(f, p)
  BY <1>1, <1>2, <1>3, <1>4, <1>5, <1>6, ReadObjectCalm
<1>7. CASE p = -1 /\ w = Opened(f)
  <2>1. g = <<f, 0>> /\ IdOf(p) = 0
    BY <1>7, InfoPlace
  <2> QED
    BY <1>1, <1>2, <1>3, <1>5, <1>7, <2>1, OpenedCalm
<1> QED
  BY <1>6, <1>7

\* Until power fails for the first time, a page that the file has is not found only when
\* making room for it has moved its group to another block.
THEOREM ReadsFindPages == Spec => ReadsFind
<1>1. StoreInv /\ PagesInv /\ [Next]_vars =>
        [dev'.ret # "ok" /\ restarts = 0 =>
           \A f \in Files : \A p \in Positions :
             Read(f, p) \/ (p = -1 /\ Open(f)) =>
               /\ dev'.ret = "nopage"
               /\ dev'.home[<<f, FdnOf(p)>>].ts # dev.home[<<f, FdnOf(p)>>].ts]_vars
  <2> SUFFICES ASSUME StoreInv, PagesInv, dev'.ret # "ok", restarts = 0, NEW f \in Files, NEW p \in Positions,
                      Read(f, p) \/ (p = -1 /\ Open(f))
               PROVE  /\ dev'.ret = "nopage"
                      /\ dev'.home[<<f, FdnOf(p)>>].ts # dev.home[<<f, FdnOf(p)>>].ts
    OBVIOUS
  <2>1. Idle(dev) /\ p \in Int /\ len[f] \in -1 .. HeadPages + MaxFdn * Pages /\ HeadPages + MaxFdn * Pages \in Int
    BY PositionIs, Sizes DEF StoreInv, Lengthy, HeadPages
  <2>2. CASE Read(f, p)
    <3>1. PICK w : w = ReadObject(f, p) /\ After(w) /\ p <= len[f] /\ p # len[f]
      BY <2>2 DEF Read, Writable
    <3>2. Idle(w)
      BY <2>1, <3>1, ReadObjectIs DEF Ended
    <3>3. p < len[f]
      BY <2>1, <3>1
    <3> QED
      BY <3>1, <3>2, <3>3, MissIsMove
  <2>3. CASE p = -1 /\ Open(f)
    <3>1. PICK w : w = Opened(f) /\ After(w) /\ len[f] # -1
      BY <2>3 DEF Open, Exists
    <3>2. Idle(w)
      BY <2>1, <3>1, OpenedIs DEF Ended
    <3>3. p < len[f]
      BY <2>1, <2>3, <3>1
    <3> QED
      BY <2>3, <3>1, <3>2, <3>3, MissIsMove
  <2> QED
    BY <2>2, <2>3
<1> QED
  BY <1>1, PagesStay, PTL DEF Spec, ReadsFind
=============================================================================
