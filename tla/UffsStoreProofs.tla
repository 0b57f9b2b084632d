-------------------------- MODULE UffsStoreProofs --------------------------
(***************************************************************************)
(* Theorems about UffsStore, for any number of files, pages, blocks,       *)
(* buffers and writes, with power cut anywhere, any number of times.       *)
(***************************************************************************)
EXTENDS UffsStore, FiniteSetTheorems, FunctionTheorems, SequenceTheorems, WellFoundedInduction, TLAPS

-----------------------------------------------------------------------------
(* Orders and the places in them *)

Orders(S, before) ==
  /\ \A i, j \in S : i # j => <<i, j>> \in before \/ <<j, i>> \in before
  /\ \A i \in S : <<i, i>> \notin before
  /\ \A i, j, k \in S : <<i, j>> \in before /\ <<j, k>> \in before => <<i, k>> \in before

\* Arranged lists every member of a finite ordered set once, in order.
LEMMA ArrangedLists ==
  ASSUME NEW S, IsFiniteSet(S), NEW before, Orders(S, before)
  PROVE  LET a == Arranged(S, before)
         IN /\ a \in [1 .. Cardinality(S) -> S]
            /\ \A i \in S : \E k \in 1 .. Cardinality(S) : a[k] = i
            /\ \A k, l \in 1 .. Cardinality(S) : k < l => <<a[k], a[l]>> \in before
<1> DEFINE n == Cardinality(S)
           First(i) == {j \in S : <<j, i>> \in before}
           place == [i \in S |-> Cardinality(First(i)) + 1]
           a == Arranged(S, before)
<1>1. n \in Nat
  BY FS_CardinalityType
<1>2. \A i \in S : IsFiniteSet(First(i)) /\ Cardinality(First(i)) \in Nat
  <2> TAKE i \in S
  <2>1. First(i) \in SUBSET S
    OBVIOUS
  <2> QED
    BY <2>1, FS_Subset, FS_CardinalityType
<1>3. \A i, j \in S : <<i, j>> \in before => Cardinality(First(i)) < Cardinality(First(j))
  <2> SUFFICES ASSUME NEW i \in S, NEW j \in S, <<i, j>> \in before
               PROVE  Cardinality(First(i)) < Cardinality(First(j))
    OBVIOUS
  <2>1. First(i) \in SUBSET First(j) /\ i \in First(j) /\ i \notin First(i)
    BY DEF Orders
  <2> HIDE DEF First
  <2>2. /\ Cardinality(First(i)) <= Cardinality(First(j))
        /\ Cardinality(First(i)) = Cardinality(First(j)) => First(i) = First(j)
    BY <1>2, <2>1, FS_Subset
  <2> QED
    BY <1>2, <2>1, <2>2
<1>4. \A i \in S : Cardinality(First(i)) + 1 <= n
  <2> TAKE i \in S
  <2>1. First(i) \in SUBSET S /\ i \notin First(i)
    BY DEF Orders
  <2> HIDE DEF First
  <2>2. Cardinality(First(i)) <= n /\ (Cardinality(First(i)) = n => First(i) = S)
    BY <2>1, FS_Subset
  <2> QED
    BY <1>1, <1>2, <2>1, <2>2
<1> HIDE DEF First
<1>5. place \in [S -> 1 .. n]
  BY <1>1, <1>2, <1>4
<1>6. \A i, j \in S : place[i] = place[j] => i = j
  <2> SUFFICES ASSUME NEW i \in S, NEW j \in S, place[i] = place[j], i # j PROVE FALSE
    OBVIOUS
  <2>1. Cardinality(First(i)) = Cardinality(First(j))
    BY <1>2
  <2>2. <<i, j>> \in before \/ <<j, i>> \in before
    BY DEF Orders
  <2> QED
    BY <1>2, <1>3, <2>1, <2>2
<1>7. place \in Surjection(S, 1 .. n)
  <2>1. place \in Injection(S, 1 .. n)
    BY <1>5, <1>6, Fun_IsInj
  <2>2. IsFiniteSet(1 .. n) /\ Cardinality(1 .. n) = n
    BY <1>1, FS_Interval
  <2> QED
    BY <2>1, <2>2, FS_Injection
<1>8. \A k \in 1 .. n : \E i \in S : place[i] = k
  <2> HIDE DEF place, n
  <2> QED
    BY <1>7 DEF Surjection
<1>9. \A k \in 1 .. n : a[k] \in S /\ place[a[k]] = k
  <2> TAKE k \in 1 .. n
  <2>1. a[k] = CHOOSE i \in S : Cardinality(First(i)) = k - 1
    BY DEF Arranged, First
  <2>2. PICK i \in S : place[i] = k
    BY <1>8
  <2>3. Cardinality(First(i)) = k - 1
    BY <1>1, <1>2, <2>2
  <2>4. a[k] \in S /\ Cardinality(First(a[k])) = k - 1
    BY <2>1, <2>3
  <2> QED
    BY <1>1, <2>4
<1>10. a \in [1 .. n -> S]
  BY <1>9 DEF Arranged
<1>11. \A i \in S : \E k \in 1 .. n : a[k] = i
  <2> TAKE i \in S
  <2>1. place[i] \in 1 .. n
    BY <1>5
  <2>2. place[a[place[i]]] = place[i] /\ a[place[i]] \in S
    BY <1>9, <2>1
  <2> QED
    BY <1>6, <2>1, <2>2
<1>12. \A k, l \in 1 .. n : k < l => <<a[k], a[l]>> \in before
  <2> SUFFICES ASSUME NEW k \in 1 .. n, NEW l \in 1 .. n, k < l, <<a[k], a[l]>> \notin before
               PROVE  FALSE
    OBVIOUS
  <2>1. a[k] \in S /\ a[l] \in S /\ place[a[k]] = k /\ place[a[l]] = l
    BY <1>9
  <2>2. a[k] # a[l]
    BY <1>1, <2>1
  <2>3. <<a[l], a[k]>> \in before
    BY <2>1, <2>2 DEF Orders
  <2>4. Cardinality(First(a[l])) < Cardinality(First(a[k]))
    BY <1>3, <2>1, <2>3
  <2> QED
    BY <1>1, <1>2, <2>1, <2>4
<1> QED
  BY <1>10, <1>11, <1>12

LEMMA RisingOrders ==
  ASSUME NEW S \in SUBSET Int
  PROVE  Orders(S, Rising(S))
BY DEF Orders, Rising

\* A non-empty set of numbers has a least member.
LEMMA LeastIs ==
  ASSUME NEW S \in SUBSET Nat, S # {}
  PROVE  Min(S) \in S /\ \A j \in S : Min(S) <= j
<1>1. \E i \in S : \A j \in S : ~(<<j, i>> \in OpToRel(<, Nat))
  BY WFMin, NatLessThanWellFounded
<1>2. \E i \in S : \A j \in S : i <= j
  <2>1. PICK i \in S : \A j \in S : ~(<<j, i>> \in OpToRel(<, Nat))
    BY <1>1
  <2>2. ASSUME NEW j \in S PROVE i <= j
    <3>1. <<j, i>> \in Nat \X Nat /\ <<j, i>>[1] = j /\ <<j, i>>[2] = i
      OBVIOUS
    <3>2. ~(j < i)
      BY <2>1, <3>1, Zenon DEF OpToRel
    <3> QED
      BY <3>2
  <2> QED
    BY <2>2
<1> QED
  BY <1>2 DEF Min

\* A non-empty set of numbers below a bound has a greatest member.
LEMMA GreatestIs ==
  ASSUME NEW S \in SUBSET Nat, S # {}, NEW n \in Nat, \A i \in S : i <= n
  PROVE  Max(S) \in S /\ \A j \in S : j <= Max(S)
<1> DEFINE T == {n - i : i \in S}
<1>1. T \in SUBSET Nat /\ T # {}
  <2>1. ASSUME NEW x \in T PROVE x \in Nat
    <3>1. PICK i \in S : x = n - i
      OBVIOUS
    <3> QED
      BY <3>1
  <2>2. PICK i \in S : TRUE
    OBVIOUS
  <2>3. n - i \in T
    OBVIOUS
  <2> QED
    BY <2>1, <2>3
<1>2. Min(T) \in T /\ \A j \in T : Min(T) <= j
  BY <1>1, LeastIs
<1>3. PICK i \in S : Min(T) = n - i
  BY <1>2
<1>4. \A j \in S : i >= j
  <2> TAKE j \in S
  <2>1. n - j \in T
    OBVIOUS
  <2>2. n - i <= n - j
    BY <1>2, <1>3, <2>1
  <2> QED
    BY <2>2
<1> QED
  BY <1>4 DEF Max

\* The last place of an arranged set of numbers is that of its greatest member.
LEMMA RisingLast ==
  ASSUME NEW n \in Nat, NEW S \in SUBSET (1 .. n), n \in S
  PROVE  /\ IsFiniteSet(S) /\ Cardinality(S) \in Nat \ {0}
         /\ Arranged(S, Rising(S))[Cardinality(S)] = n
<1> DEFINE a == Arranged(S, Rising(S))
           c == Cardinality(S)
<1>1. IsFiniteSet(S) /\ c \in Nat
  <2>1. IsFiniteSet(1 .. n)
    BY FS_Interval
  <2>2. IsFiniteSet(S)
    BY <2>1, FS_Subset
  <2> QED
    BY <2>2, FS_CardinalityType
<1>2. S \in SUBSET Int /\ Orders(S, Rising(S))
  <2>1. S \in SUBSET Int
    OBVIOUS
  <2> QED
    BY <2>1, RisingOrders
<1>3. /\ a \in [1 .. c -> S]
      /\ \A i \in S : \E k \in 1 .. c : a[k] = i
      /\ \A k, l \in 1 .. c : k < l => <<a[k], a[l]>> \in Rising(S)
  BY <1>1, <1>2, ArrangedLists
<1> HIDE DEF a, c
<1>4. PICK k \in 1 .. c : a[k] = n
  BY <1>3
<1>5. k = c
  <2> SUFFICES ASSUME k < c PROVE FALSE
    BY <1>1
  <2>1. <<a[k], a[c]>> \in Rising(S)
    BY <1>1, <1>3
  <2>2. a[c] \in 1 .. n /\ a[k] < a[c]
    BY <2>1 DEF Rising
  <2> QED
    BY <1>4, <2>2
<1> QED
  BY <1>1, <1>4, <1>5 DEF a, c

-----------------------------------------------------------------------------
(* Types *)

Vers    == 0 .. MaxWrites
PageSet == {Dead} \cup [id : Ids, ver : Vers]
Block   == [ts : 0 .. 2, pages : Seq(PageSet)]
Buffer  == [g : Groups \cup {None}, id : Ids, ver : Vers,
            mark : {"empty", "valid", "dirty"}, ref : {0, 1}]
Answers == {"ok", "fail", "nobuf", "nopage", "nonode", "full", "loops"}
Images  == [Groups -> SUBSET Block]
Work    == [home : [Groups -> Block], spare : Int, bufs : Seq(Buffer),
            slots : [1 .. Slots -> Groups \cup {None}], ret : Answers, cuts : SUBSET Images]

LEMMA Sizes ==
  /\ Pages \in Nat /\ Pages >= 2 /\ MaxFdn \in Nat /\ Blocks \in Nat
  /\ Buffers \in Nat /\ Buffers >= 2 /\ Slots \in 1 .. 3
  /\ CloneThreshold = 1 /\ None \notin Groups
  /\ MaxWrites \in Nat /\ 0 \in Vers /\ 0 \in Ids /\ Ids \subseteq Nat
BY SizesAssumption, BuffersAssumption, NoneAssumption, StoreAssumption DEF Groups, Vers, Ids

LEMMA GroupsFinite == IsFiniteSet(Groups)
<1>1. IsFiniteSet(0 .. MaxFdn)
  BY SizesAssumption, FS_Interval
<1> QED
  BY <1>1, FilesAssumption, FS_Product DEF Groups

LEMMA IdsFinite == IsFiniteSet(Ids) /\ IsFiniteSet(1 .. Buffers)
BY Sizes, FS_Interval DEF Ids

LEMMA SpareType == SpareBuf \in Buffer
BY Sizes DEF SpareBuf, Buffer
LEMMA DeadType == Dead \in PageSet
BY Sizes DEF Dead, PageSet
LEMMA NoBlockType == NoBlock \in Block
BY EmptySeq DEF NoBlock, Block

LEMMA CleanType ==
  ASSUME NEW b \in Buffer, NEW g
  PROVE  /\ CleanBuf(b, g) \in Buffer
         /\ CleanBuf(b, g).ref = b.ref
         /\ CleanBuf(b, g).g = b.g /\ CleanBuf(b, g).id = b.id
         /\ CleanBuf(b, g).mark = IF b.mark = "dirty" /\ b.g = g THEN "valid" ELSE b.mark
BY DEF Buffer, CleanBuf

-----------------------------------------------------------------------------
(* The list of buffers *)

\* The last buffer of the list is empty and free: nothing ever takes it, because
\* _FindFreeBuf wants more than one.
\* And no page is in two buffers.
Bound(b) == b.mark # "empty" \/ b.ref = 1
Single(b) == \A i, j \in 1 .. Buffers : i # j /\ Bound(b[i]) /\ Bound(b[j]) =>
               b[i].g # b[j].g \/ b[i].id # b[j].id
Ends(b) == /\ b \in Seq(Buffer) /\ Len(b) = Buffers
           /\ b[Buffers].mark = "empty" /\ b[Buffers].ref = 0
           /\ Single(b)

Used(b) == b.mark = "dirty" \/ b.ref = 1
\* two buffers of c come from two of b
Apart(b, c) == \A k, l \in 1 .. Buffers : k # l /\ Bound(c[k]) /\ Bound(c[l]) =>
                 \E i, j \in 1 .. Buffers : i # j /\ c[k] = b[i] /\ c[l] = b[j]
\* c is b in another order, with some unused ones emptied
Sifted(b, c) ==
  /\ \A i \in 1 .. Buffers : c[i] = SpareBuf \/ \E j \in 1 .. Buffers : c[i] = b[j]
  /\ \A j \in 1 .. Buffers : Used(b[j]) => \E i \in 1 .. Buffers : c[i] = b[j]
\* and besides the dirty ones of g are clean
Kept(b, c, g) ==
  /\ \A i \in 1 .. Buffers : c[i] = SpareBuf \/ \E j \in 1 .. Buffers : c[i] = CleanBuf(b[j], g)
  /\ \A j \in 1 .. Buffers : Used(b[j]) => \E i \in 1 .. Buffers : c[i] = CleanBuf(b[j], g)

LEMMA StaySingle ==
  ASSUME NEW b, Single(b), NEW c, Apart(b, c)
  PROVE  Single(c)
<1> SUFFICES ASSUME NEW k \in 1 .. Buffers, NEW l \in 1 .. Buffers, k # l, Bound(c[k]), Bound(c[l])
             PROVE  c[k].g # c[l].g \/ c[k].id # c[l].id
  BY DEF Single
<1>1. PICK i, j \in 1 .. Buffers : i # j /\ c[k] = b[i] /\ c[l] = b[j]
  BY DEF Apart
<1> QED
  BY <1>1 DEF Single

LEMMA FunctionIsSeq ==
  ASSUME NEW S, NEW n \in Nat, NEW f \in [1 .. n -> S]
  PROVE  f \in Seq(S) /\ Len(f) = n
<1>1. f \in Seq(S)
  BY SeqDef
<1>2. Len(f) \in Nat /\ DOMAIN f = 1 .. Len(f) /\ DOMAIN f = 1 .. n
  BY <1>1, LenProperties
<1> QED
  BY <1>1, <1>2

\* c holds what b has at the places S.
Picks(c, b, S) ==
  /\ \A k \in 1 .. Cardinality(S) : \E i \in S : c[k] = b[i]
  /\ \A i \in S : \E k \in 1 .. Cardinality(S) : c[k] = b[i]
  /\ \A k, l \in 1 .. Cardinality(S) : k # l => \E i, j \in S : i # j /\ c[k] = b[i] /\ c[l] = b[j]
\* What is chosen from a list are the members at the chosen places, in some order.
LEMMA ChosenIs ==
  ASSUME NEW b \in [1 .. Buffers -> Buffer], NEW S \in SUBSET (1 .. Buffers),
         NEW before, Orders(S, before), NEW c, c = Chosen(b, S, before)
  PROVE  c \in Seq(Buffer) /\ Len(c) = Cardinality(S) /\ Cardinality(S) \in Nat /\ Picks(c, b, S)
<1> DEFINE a == Arranged(S, before)
           n == Cardinality(S)
<1>1. IsFiniteSet(S) /\ n \in Nat
  BY IdsFinite, FS_Subset, FS_CardinalityType
<1>2. /\ a \in [1 .. n -> S] /\ \A i \in S : \E k \in 1 .. n : a[k] = i
      /\ \A k, l \in 1 .. n : k < l => <<a[k], a[l]>> \in before
  BY <1>1, ArrangedLists
<1> HIDE DEF a, n
<1>3. c = [k \in 1 .. n |-> b[a[k]]]
  BY DEF Chosen, a, n
<1>4. c \in [1 .. n -> Buffer]
  BY <1>2, <1>3
<1>5. c \in Seq(Buffer) /\ Len(c) = n
  BY <1>1, <1>4, FunctionIsSeq
<1>6. \A k \in 1 .. n : \E i \in S : c[k] = b[i]
  BY <1>2, <1>3
<1>7. \A i \in S : \E k \in 1 .. n : c[k] = b[i]
  BY <1>2, <1>3
<1>8. ASSUME NEW k \in 1 .. n, NEW l \in 1 .. n, k # l
      PROVE  \E i, j \in S : i # j /\ c[k] = b[i] /\ c[l] = b[j]
  <2>1. a[k] \in S /\ a[l] \in S /\ (<<a[k], a[l]>> \in before \/ <<a[l], a[k]>> \in before)
    BY <1>1, <1>2, <1>8
  <2>2. a[k] # a[l]
    BY <2>1 DEF Orders
  <2> QED
    BY <1>3, <2>1, <2>2
<1> QED
  BY <1>1, <1>5, <1>6, <1>7, <1>8 DEF n, Picks

\* Two parts of a list are as long as the list.
LEMMA PartsOf ==
  ASSUME NEW S \in SUBSET (1 .. Buffers)
  PROVE  /\ IsFiniteSet(S) /\ IsFiniteSet((1 .. Buffers) \ S)
         /\ Cardinality(S) \in Nat /\ Cardinality((1 .. Buffers) \ S) \in Nat
         /\ Cardinality(S) + Cardinality((1 .. Buffers) \ S) = Buffers
<1> DEFINE T == (1 .. Buffers) \ S
<1>1. IsFiniteSet(S) /\ IsFiniteSet(T) /\ Cardinality(S) \in Nat /\ Cardinality(T) \in Nat
  BY IdsFinite, FS_Subset, FS_CardinalityType
<1>2. S \cup T = 1 .. Buffers /\ S \cap T = {}
  OBVIOUS
<1>3. Cardinality(1 .. Buffers) = Buffers /\ Cardinality({}) = 0
  BY Sizes, FS_Interval, FS_EmptySet
<1>4. Cardinality(S \cup T) = Cardinality(S) + Cardinality(T) - Cardinality(S \cap T)
  BY <1>1, FS_Union
<1> HIDE DEF T
<1>5. Cardinality(S) + Cardinality(T) = Buffers
  <2>1. Cardinality(S \cup T) = Buffers /\ Cardinality(S \cap T) = 0
    BY <1>2, <1>3, Zenon
  <2> QED
    BY <1>1, <1>4, <2>1, Sizes
<1> QED
  BY <1>1, <1>5 DEF T

\* uffs_BufClone and uffs_BufFreeClone, any number of times: the list is as long as
\* before, and no buffer that is dirty or held is lost.
LEMMA RecycledIs ==
  ASSUME NEW w \in Work, Ends(w.bufs), NEW n \in Nat
  PROVE  LET x == Recycled(w, n)
         IN /\ x \in Work /\ x.home = w.home /\ x.spare = w.spare /\ x.slots = w.slots
            /\ x.ret = w.ret /\ x.cuts = w.cuts
            /\ Ends(x.bufs) /\ Sifted(w.bufs, x.bufs) /\ Apart(w.bufs, x.bufs)
<1> DEFINE b    == w.bufs
           free == FreeBufs(w)
           a    == Arranged(free, Rising(free))
           m    == Min({n, Cardinality(free)})
           gone == {a[k] : k \in 1 .. m}
           kept == (1 .. Buffers) \ gone
           x    == Recycled(w, n)
<1>1. b \in [1 .. Buffers -> Buffer] /\ DOMAIN b = 1 .. Buffers
  BY LenProperties DEF Ends
<1>2. free \in SUBSET (1 .. Buffers) /\ \A i \in free : ~Used(b[i])
  BY <1>1 DEF FreeBufs, IsFree, Used, Buffer
<1>3. IsFiniteSet(free) /\ Cardinality(free) \in Nat
  BY <1>2, IdsFinite, FS_Subset, FS_CardinalityType
<1>4. m \in Nat /\ m <= Cardinality(free)
  <2>1. {n, Cardinality(free)} \in SUBSET Nat /\ {n, Cardinality(free)} # {}
    BY <1>3
  <2> QED
    BY <1>3, <2>1, LeastIs
<1>5. /\ a \in [1 .. Cardinality(free) -> free]
      /\ \A k, l \in 1 .. Cardinality(free) : k < l => <<a[k], a[l]>> \in Rising(free)
  <2>1. free \in SUBSET Int
    BY <1>2
  <2> HIDE DEF free
  <2>2. Orders(free, Rising(free))
    BY <2>1, RisingOrders
  <2> QED
    BY <1>3, <2>2, ArrangedLists
<1> HIDE DEF m, a, free
<1>6. gone \in SUBSET free
  BY <1>3, <1>4, <1>5
<1>7. Cardinality(gone) = m
  <2> DEFINE f == [k \in 1 .. m |-> a[k]]
  <2>1. \A k, l \in 1 .. m : a[k] = a[l] => k = l
    <3> SUFFICES ASSUME NEW k \in 1 .. m, NEW l \in 1 .. m, k < l, a[k] = a[l] PROVE FALSE
      BY <1>4
    <3>1. k \in 1 .. Cardinality(free) /\ l \in 1 .. Cardinality(free)
      BY <1>3, <1>4
    <3>2. <<a[k], a[l]>> \in Rising(free)
      BY <1>5, <3>1
    <3>3. a[k] < a[l] /\ a[k] \in free
      BY <3>2 DEF Rising
    <3> QED
      BY <1>2, <3>3
  <2>2. f \in [1 .. m -> gone]
    OBVIOUS
  <2>3. \A i \in gone : \E k \in 1 .. m : f[k] = i
    OBVIOUS
  <2>4. \A k, l \in 1 .. m : f[k] = f[l] => k = l
    BY <2>1
  <2> HIDE DEF f, gone
  <2>5. f \in Bijection(1 .. m, gone)
    BY <2>2, <2>3, <2>4, Fun_IsBij
  <2>6. IsFiniteSet(1 .. m) /\ Cardinality(1 .. m) = m
    BY <1>4, FS_Interval
  <2> QED
    BY <2>5, <2>6, FS_Bijection DEF ExistsBijection
<1>8. gone \in SUBSET (1 .. Buffers)
  BY <1>2, <1>6
<1> HIDE DEF gone
<1>9. /\ kept \in SUBSET (1 .. Buffers) /\ Orders(kept, Rising(kept))
      /\ Cardinality(kept) \in Nat /\ Cardinality(kept) + m = Buffers
  <2>1. kept \in SUBSET Int
    OBVIOUS
  <2>2. Cardinality(gone) + Cardinality(kept) = Buffers /\ Cardinality(kept) \in Nat
    BY <1>8, PartsOf
  <2> HIDE DEF kept
  <2>3. Orders(kept, Rising(kept))
    BY <2>1, RisingOrders
  <2> QED
    BY <1>4, <1>7, <2>2, <2>3, Sizes DEF kept
<1> HIDE DEF kept
<1> DEFINE c == Chosen(b, kept, Rising(kept))
           e == [k \in 1 .. m |-> SpareBuf]
<1>10. c \in Seq(Buffer) /\ Len(c) = Cardinality(kept) /\ Picks(c, b, kept)
  <2> DEFINE before == Rising(kept)
  <2>1. b \in [1 .. Buffers -> Buffer] /\ kept \in SUBSET (1 .. Buffers)
        /\ Orders(kept, before) /\ c = Chosen(b, kept, before)
    BY <1>1, <1>9
  <2> HIDE DEF before, b, c
  <2> QED
    BY <2>1, ChosenIs
<1>11. e \in Seq(Buffer) /\ Len(e) = m
  <2>1. e \in [1 .. m -> Buffer]
    BY SpareType
  <2> QED
    BY <1>4, <2>1, FunctionIsSeq
<1>12. x = [w EXCEPT !.bufs = c \o e]
  BY <1>1 DEF Recycled, m, a, free, gone, kept
<1>13. m = 0 => c[Cardinality(kept)] = b[Buffers]
  <2> SUFFICES ASSUME m = 0 PROVE c[Cardinality(kept)] = b[Buffers]
    OBVIOUS
  <2>1. Buffers \in kept
    BY Sizes DEF kept, gone
  <2>2. Cardinality(kept) \in 1 .. Cardinality(kept)
    BY <1>9, Sizes
  <2>3. Arranged(kept, Rising(kept))[Cardinality(kept)] = Buffers
    BY <1>9, <2>1, RisingLast, Sizes
  <2> QED
    BY <2>2, <2>3 DEF Chosen
<1>14. \A k \in 1 .. m : e[k] = SpareBuf
  OBVIOUS
<1> HIDE DEF c, e, x
<1>15. /\ c \o e \in Seq(Buffer) /\ Len(c \o e) = Buffers
       /\ \A i \in 1 .. Buffers : (c \o e)[i] = IF i <= Cardinality(kept) THEN c[i]
                                                ELSE SpareBuf
  <2>1. /\ c \o e \in Seq(Buffer) /\ Len(c \o e) = Cardinality(kept) + m
        /\ \A i \in 1 .. Cardinality(kept) + m :
             (c \o e)[i] = IF i <= Cardinality(kept) THEN c[i] ELSE e[i - Cardinality(kept)]
    <3>1. /\ c \o e \in Seq(Buffer) /\ Len(c \o e) = Len(c) + Len(e)
          /\ \A i \in 1 .. Len(c) + Len(e) :
               (c \o e)[i] = IF i <= Len(c) THEN c[i] ELSE e[i - Len(c)]
      BY <1>10, <1>11, ConcatProperties
    <3> QED
      BY <1>10, <1>11, <3>1
  <2>2. ASSUME NEW i \in 1 .. Buffers, ~(i <= Cardinality(kept))
        PROVE  e[i - Cardinality(kept)] = SpareBuf
    <3>1. i - Cardinality(kept) \in 1 .. m
      BY <1>4, <1>9, <2>2, Sizes
    <3> QED
      BY <1>14, <3>1
  <2> QED
    BY <1>9, <2>1, <2>2
<1> DEFINE d == c \o e
<1> HIDE DEF d
<1>16. x \in Work /\ x.home = w.home /\ x.spare = w.spare /\ x.slots = w.slots
       /\ x.ret = w.ret /\ x.cuts = w.cuts /\ x.bufs = d
  BY <1>12, <1>15 DEF Work, d
<1>17. /\ d \in Seq(Buffer) /\ Len(d) = Buffers
       /\ \A i \in 1 .. Buffers : d[i] = IF i <= Cardinality(kept) THEN c[i] ELSE SpareBuf
  BY <1>15 DEF d
<1>20. Apart(b, d)
  <2> SUFFICES ASSUME NEW k \in 1 .. Buffers, NEW l \in 1 .. Buffers, k # l, Bound(d[k]), Bound(d[l])
               PROVE  \E i, j \in 1 .. Buffers : i # j /\ d[k] = b[i] /\ d[l] = b[j]
    BY DEF Apart
  <2>1. d[k] # SpareBuf /\ d[l] # SpareBuf
    BY DEF Bound, SpareBuf
  <2>2. k \in 1 .. Cardinality(kept) /\ l \in 1 .. Cardinality(kept) /\ d[k] = c[k] /\ d[l] = c[l]
    BY <1>9, <1>17, <2>1
  <2> QED
    BY <1>9, <1>10, <2>2 DEF Picks
<1>21. Single(d)
  <2>1. Single(b)
    BY DEF Ends
  <2> QED
    BY <1>20, <2>1, StaySingle
<1>18. Ends(d)
  <2>1. CASE m = 0
    <3>1. d[Buffers] = b[Buffers]
      BY <1>9, <1>13, <1>17, <2>1, Sizes
    <3> QED
      BY <1>17, <1>21, <3>1 DEF Ends
  <2>2. CASE m # 0
    <3>1. d[Buffers] = SpareBuf
      BY <1>4, <1>9, <1>17, <2>2, Sizes
    <3> QED
      BY <1>17, <1>21, <3>1 DEF Ends, SpareBuf
  <2> QED
    BY <2>1, <2>2
<1>19. Sifted(b, d)
  <2>1. ASSUME NEW i \in 1 .. Buffers
        PROVE  d[i] = SpareBuf \/ \E j \in 1 .. Buffers : d[i] = b[j]
    <3>1. CASE i <= Cardinality(kept)
      <4>1. i \in 1 .. Cardinality(kept)
        BY <1>9, <3>1
      <4>2. PICK j \in kept : c[i] = b[j]
        BY <1>10, <4>1 DEF Picks
      <4> QED
        BY <1>9, <1>17, <3>1, <4>2
    <3>2. CASE ~(i <= Cardinality(kept))
      BY <1>17, <3>2
    <3> QED
      BY <3>1, <3>2
  <2>2. ASSUME NEW j \in 1 .. Buffers, Used(b[j])
        PROVE  \E i \in 1 .. Buffers : d[i] = b[j]
    <3>1. j \in kept
      BY <1>2, <1>6, <2>2 DEF kept
    <3>2. PICK k \in 1 .. Cardinality(kept) : c[k] = b[j]
      BY <1>10, <3>1 DEF Picks
    <3>3. k \in 1 .. Buffers /\ k <= Cardinality(kept)
      BY <1>4, <1>9, Sizes
    <3> QED
      BY <1>17, <3>2, <3>3
  <2> QED
    BY <2>1, <2>2 DEF Sifted
<1> QED
  BY <1>16, <1>18, <1>19, <1>20 DEF x

\* d is b in another order, but for the last.
Reordered(d, b) ==
  /\ d \in Seq(Buffer) /\ Len(d) = Buffers /\ d[Buffers] = b[Buffers]
  /\ \A k \in 1 .. Buffers : \E i \in 1 .. Buffers : d[k] = b[i]
  /\ \A i \in 1 .. Buffers : \E k \in 1 .. Buffers : d[k] = b[i]
  /\ Apart(b, d)
\* Two chosen parts of a list, one behind the other, are as long as the list and hold
\* the same; the last is the last of the second part.
LEMMA JoinedIs ==
  ASSUME NEW b \in [1 .. Buffers -> Buffer], NEW S \in SUBSET (1 .. Buffers), Buffers \notin S,
         NEW before, Orders(S, before), NEW T, T = (1 .. Buffers) \ S, NEW d,
         d = Chosen(b, S, before) \o Chosen(b, T, Rising(T))
  PROVE  Reordered(d, b)
<1> DEFINE n == Cardinality(S)
           m == Cardinality(T)
<1>1. T \in SUBSET (1 .. Buffers) /\ T \in SUBSET Int /\ Buffers \in T /\ Buffers \in Nat
  BY Sizes
<1>2. n \in Nat /\ m \in Nat /\ n + m = Buffers
  BY PartsOf
<1>3. Orders(T, Rising(T))
  BY <1>1, RisingOrders
<1>4. PICK c : c = Chosen(b, S, before)
  OBVIOUS
<1>5. c \in Seq(Buffer) /\ Len(c) = n /\ Picks(c, b, S)
  BY <1>4, ChosenIs
<1>6. PICK r : r = Rising(T)
  OBVIOUS
<1>7. PICK e : e = Chosen(b, T, r)
  OBVIOUS
<1>8. e \in Seq(Buffer) /\ Len(e) = m /\ Picks(e, b, T)
  BY <1>1, <1>3, <1>6, <1>7, ChosenIs
<1>9. m # 0 /\ e[m] = b[Buffers]
  <2>1. m # 0 /\ Arranged(T, Rising(T))[m] = Buffers
    BY <1>1, RisingLast
  <2> HIDE DEF m, n
  <2>2. m \in 1 .. m
    BY <1>2, <2>1
  <2> QED
    BY <1>6, <1>7, <2>1, <2>2 DEF Chosen, m
<1> HIDE DEF n, m
<1>10. /\ d \in Seq(Buffer) /\ Len(d) = Buffers
       /\ \A i \in 1 .. Buffers : d[i] = IF i <= n THEN c[i] ELSE e[i - n]
  <2>1. d = c \o e
    BY <1>4, <1>6, <1>7
  <2>2. /\ c \o e \in Seq(Buffer) /\ Len(c \o e) = Len(c) + Len(e)
        /\ \A i \in 1 .. Len(c) + Len(e) :
             (c \o e)[i] = IF i <= Len(c) THEN c[i] ELSE e[i - Len(c)]
    BY <1>5, <1>8, ConcatProperties
  <2> QED
    BY <1>2, <1>5, <1>8, <2>1, <2>2
<1>11. d[Buffers] = b[Buffers]
  <2>1. Buffers \in 1 .. Buffers /\ ~(Buffers <= n) /\ Buffers - n = m
    BY <1>2, <1>9, Sizes
  <2> QED
    BY <1>9, <1>10, <2>1
<1>12. \A k \in 1 .. Buffers : \E i \in 1 .. Buffers : d[k] = b[i]
  <2> TAKE k \in 1 .. Buffers
  <2>1. CASE k <= n
    <3>1. k \in 1 .. Cardinality(S)
      BY <1>2, <2>1 DEF n
    <3>2. PICK i \in S : c[k] = b[i]
      BY <1>5, <3>1 DEF Picks
    <3> QED
      BY <1>10, <2>1, <3>2
  <2>2. CASE ~(k <= n)
    <3>1. k - n \in 1 .. Cardinality(T)
      <4>1. k \in Int /\ k <= Buffers /\ Buffers \in Int
        BY Sizes
      <4>2. k - n \in 1 .. m
        BY <1>2, <2>2, <4>1
      <4> QED
        BY <4>2 DEF m
    <3>2. PICK i \in T : e[k - n] = b[i]
      BY <1>8, <3>1 DEF Picks
    <3> QED
      BY <1>10, <2>2, <3>2
  <2> QED
    BY <2>1, <2>2
<1>13. \A i \in 1 .. Buffers : \E k \in 1 .. Buffers : d[k] = b[i]
  <2> TAKE i \in 1 .. Buffers
  <2>1. CASE i \in S
    <3>1. PICK k \in 1 .. Cardinality(S) : c[k] = b[i]
      BY <1>5, <2>1 DEF Picks
    <3>2. k \in 1 .. Buffers /\ k <= n
      BY <1>2, Sizes DEF n
    <3> QED
      BY <1>10, <3>1, <3>2
  <2>2. CASE i \notin S
    <3>1. PICK k \in 1 .. Cardinality(T) : e[k] = b[i]
      BY <1>8, <2>2 DEF Picks
    <3>2. k + n \in 1 .. Buffers /\ ~(k + n <= n) /\ (k + n) - n = k
      BY <1>2, Sizes DEF m
    <3>3. d[k + n] = e[k]
      BY <1>10, <3>2
    <3> QED
      BY <3>1, <3>2, <3>3
  <2> QED
    BY <2>1, <2>2
<1>14. ASSUME NEW k \in 1 .. Buffers, NEW l \in 1 .. Buffers, k < l
       PROVE  \E i, j \in 1 .. Buffers : i # j /\ d[k] = b[i] /\ d[l] = b[j]
  <2>1. k \in Int /\ l \in Int /\ k >= 1 /\ l <= n + m /\ k < l
    BY <1>2, <1>14, Sizes
  <2>2. CASE l <= n
    <3>1. k \in 1 .. n /\ l \in 1 .. n /\ k <= n
      BY <1>2, <2>1, <2>2
    <3>2. d[k] = c[k] /\ d[l] = c[l]
      BY <1>10, <2>2, <3>1
    <3>3. PICK i, j \in S : i # j /\ c[k] = b[i] /\ c[l] = b[j]
      <4>1. k # l
        BY <2>1
      <4> QED
        BY <1>5, <3>1, <4>1 DEF Picks, n
    <3> QED
      BY <3>2, <3>3
  <2>3. CASE k <= n /\ ~(l <= n)
    <3>1. k \in 1 .. n /\ l - n \in 1 .. m
      BY <1>2, <2>1, <2>3
    <3>2. PICK i \in S : c[k] = b[i]
      BY <1>5, <3>1 DEF Picks, n
    <3>3. PICK j \in T : e[l - n] = b[j]
      BY <1>8, <3>1 DEF Picks, m
    <3>4. i # j /\ i \in 1 .. Buffers /\ j \in 1 .. Buffers
      BY <3>2, <3>3
    <3> QED
      BY <1>10, <2>3, <3>2, <3>3, <3>4
  <2>4. CASE ~(k <= n)
    <3>1. k - n \in 1 .. m /\ l - n \in 1 .. m /\ k - n # l - n /\ ~(l <= n)
      BY <1>2, <2>1, <2>4
    <3>2. d[k] = e[k - n] /\ d[l] = e[l - n]
      BY <1>10, <2>4, <3>1
    <3>3. PICK i, j \in T : i # j /\ e[k - n] = b[i] /\ e[l - n] = b[j]
      <4>1. \A q, s \in 1 .. m : q # s => \E i, j \in T : i # j /\ e[q] = b[i] /\ e[s] = b[j]
        BY <1>8 DEF Picks, m
      <4>2. PICK q \in 1 .. m, s \in 1 .. m : q = k - n /\ s = l - n
        BY <3>1
      <4> QED
        BY <3>1, <4>1, <4>2
    <3> QED
      BY <1>1, <3>2, <3>3
  <2> QED
    BY <1>2, <2>1, <2>2, <2>3, <2>4
<1>15. Apart(b, d)
  <2> SUFFICES ASSUME NEW k \in 1 .. Buffers, NEW l \in 1 .. Buffers, k # l
               PROVE  \E i, j \in 1 .. Buffers : i # j /\ d[k] = b[i] /\ d[l] = b[j]
    BY DEF Apart
  <2>1. CASE k < l
    BY <1>14, <2>1
  <2>2. CASE l < k
    <3>1. PICK i, j \in 1 .. Buffers : i # j /\ d[l] = b[i] /\ d[k] = b[j]
      BY <1>14, <2>2
    <3> QED
      BY <3>1
  <2>3. k \in Int /\ l \in Int
    BY Sizes
  <2>4. k < l \/ l < k
    BY <2>3
  <2> QED
    BY <2>1, <2>2, <2>4
<1> QED
  BY <1>10, <1>11, <1>12, <1>13, <1>15 DEF Reordered

\* When the dirty pages of a group have been written, its buffers are clean, its slot
\* is free, and nothing else has changed.
LEMMA CleanedIs ==
  ASSUME NEW w \in Work, Ends(w.bufs), NEW g
  PROVE  LET x == Cleaned(w, g)
         IN /\ x \in Work /\ x.home = w.home /\ x.spare = w.spare
            /\ x.slots = [s \in 1 .. Slots |-> IF w.slots[s] = g THEN None ELSE w.slots[s]]
            /\ x.ret = w.ret /\ x.cuts = w.cuts
            /\ Ends(x.bufs) /\ Kept(w.bufs, x.bufs, g)
<1> DEFINE b     == w.bufs
           was   == DirtyOf(w, g)
           rest  == (1 .. Buffers) \ was
           last  == {p \in was \X was : \/ b[p[1]].id > b[p[2]].id
                                        \/ b[p[1]].id = b[p[2]].id /\ p[1] < p[2]}
           c     == [i \in 1 .. Buffers |-> CleanBuf(b[i], g)]
           d     == Chosen(c, was, last) \o Chosen(c, rest, Rising(rest))
           slots == [s \in 1 .. Slots |-> IF w.slots[s] = g THEN None ELSE w.slots[s]]
           x     == Cleaned(w, g)
<1>1. b \in [1 .. Buffers -> Buffer] /\ DOMAIN b = 1 .. Buffers /\ DOMAIN w.slots = 1 .. Slots
  BY LenProperties DEF Ends, Work
<1>2. was \in SUBSET (1 .. Buffers) /\ Buffers \notin was
  BY <1>1 DEF DirtyOf, Ends
<1>3. Orders(was, last)
  <2>1. \A i \in was : i \in Int /\ b[i].id \in Int
    <3> TAKE i \in was
    <3>1. i \in 1 .. Buffers /\ b[i] \in Buffer
      BY <1>1, <1>2
    <3>2. b[i].id \in Ids
      BY <3>1 DEF Buffer
    <3> HIDE DEF b
    <3> QED
      BY <3>1, <3>2, Sizes DEF Ids
  <2> HIDE DEF was
  <2>2. \A i, j \in was : <<i, j>> \in last <=> \/ b[i].id > b[j].id
                                                \/ b[i].id = b[j].id /\ i < j
    OBVIOUS
  <2> HIDE DEF last
  <2> QED
    BY <2>1, <2>2 DEF Orders
<1>4. x = [w EXCEPT !.bufs = d, !.slots = slots]
  BY <1>1 DEF Cleaned
<1>5. c \in [1 .. Buffers -> Buffer]
  BY <1>1, CleanType
<1> HIDE DEF was, last, c
<1>6. Reordered(d, c)
  <2>1. PICK r : r = rest
    OBVIOUS
  <2>2. PICK e : e = Chosen(c, was, last) \o Chosen(c, r, Rising(r))
    OBVIOUS
  <2>3. Reordered(e, c)
    BY <1>2, <1>3, <1>5, <2>1, <2>2, JoinedIs
  <2> QED
    BY <2>1, <2>2, <2>3
<1> HIDE DEF d
<1>7. slots \in [1 .. Slots -> Groups \cup {None}]
  BY DEF Work
<1> HIDE DEF slots, x
<1>8. x \in Work /\ x.home = w.home /\ x.spare = w.spare /\ x.slots = slots
      /\ x.ret = w.ret /\ x.cuts = w.cuts /\ x.bufs = d
  BY <1>4, <1>6, <1>7 DEF Work, Reordered
<1>9. \A i \in 1 .. Buffers : c[i] = CleanBuf(b[i], g)
  BY DEF c
<1>12. Single(d)
  <2>1. Single(c)
    <3>1. \A i \in 1 .. Buffers : c[i].g = b[i].g /\ c[i].id = b[i].id /\ (Bound(c[i]) => Bound(b[i]))
      <4> TAKE i \in 1 .. Buffers
      <4>1. b[i] \in Buffer /\ c[i] = CleanBuf(b[i], g)
        BY <1>1, <1>9
      <4> HIDE DEF b
      <4>2. PICK e : e = b[i]
        OBVIOUS
      <4>3. CleanBuf(e, g).g = e.g /\ CleanBuf(e, g).id = e.id
            /\ CleanBuf(e, g).mark = (IF e.mark = "dirty" /\ e.g = g THEN "valid" ELSE e.mark)
            /\ CleanBuf(e, g).ref = e.ref
        BY <4>1, <4>2, CleanType
      <4>4. e.mark = "dirty" => e.mark # "empty"
        OBVIOUS
      <4> QED
        BY <4>1, <4>2, <4>3, <4>4 DEF Bound
    <3>2. Single(b)
      BY DEF Ends
    <3> HIDE DEF b
    <3> QED
      BY <3>1, <3>2 DEF Single
  <2> QED
    BY <1>6, <2>1, StaySingle DEF Reordered
<1>10. Ends(d)
  <2>1. Buffers \in 1 .. Buffers
    BY Sizes
  <2>2. d[Buffers] = CleanBuf(b[Buffers], g) /\ b[Buffers] \in Buffer
    BY <1>1, <1>6, <1>9, <2>1 DEF Reordered
  <2>3. b[Buffers].mark = "empty" /\ b[Buffers].ref = 0
    BY DEF Ends
  <2> HIDE DEF b
  <2>4. d[Buffers].mark = "empty" /\ d[Buffers].ref = 0
    BY <2>2, <2>3, CleanType
  <2> QED
    BY <1>6, <1>12, <2>4 DEF Ends, Reordered
<1>11. Kept(b, d, g)
  <2> HIDE DEF b
  <2>1. ASSUME NEW i \in 1 .. Buffers PROVE \E j \in 1 .. Buffers : d[i] = CleanBuf(b[j], g)
    <3>1. PICK j \in 1 .. Buffers : d[i] = c[j]
      BY <1>6 DEF Reordered
    <3> QED
      BY <1>9, <3>1
  <2>2. ASSUME NEW j \in 1 .. Buffers PROVE \E i \in 1 .. Buffers : d[i] = CleanBuf(b[j], g)
    <3>1. PICK i \in 1 .. Buffers : d[i] = c[j]
      BY <1>6 DEF Reordered
    <3> QED
      BY <1>9, <3>1
  <2> QED
    BY <2>1, <2>2 DEF Kept
<1> QED
  BY <1>8, <1>10, <1>11 DEF slots, x

-----------------------------------------------------------------------------
(* Pages and blocks *)

Tree(home) == {g \in Groups : home[g] # NoBlock}
\* the first page of a block is page 0 of its group
Headed(b) == b.pages # <<>> /\ b.pages[1].id = 0
\* or its writing has just begun
Begun(p) == p = <<>> \/ p[1] = Dead \/ p[1].id = 0
\* the blocks that claim one group: two stamps, one following the other
Claim(S) == /\ \A b \in S : Begun(b.pages)
            /\ \E t \in 0 .. 2 : \A b \in S : b.ts \in {t, NextStamp(t)}
\* what a power cut may leave
ImageInv(image) == /\ image \in Images
                   /\ \A g \in Groups : Claim(image[g])
                   /\ Cardinality({g \in Groups : image[g] # {}}) < Blocks

LEMMA TreeFinite ==
  ASSUME NEW home, NEW g
  PROVE  /\ IsFiniteSet(Tree(home)) /\ Cardinality(Tree(home)) \in Nat
         /\ IsFiniteSet(Tree(home) \cup {g}) /\ Cardinality(Tree(home) \cup {g}) \in Nat
         /\ Cardinality(Tree(home) \cup {g}) =
              IF g \in Tree(home) THEN Cardinality(Tree(home)) ELSE Cardinality(Tree(home)) + 1
<1>1. Tree(home) \in SUBSET Groups
  BY DEF Tree
<1>2. IsFiniteSet(Tree(home))
  BY <1>1, GroupsFinite, FS_Subset
<1> HIDE DEF Tree
<1>3. Cardinality(Tree(home)) \in Nat
  BY <1>2, FS_CardinalityType
<1> QED
  BY <1>2, <1>3, FS_AddElement, FS_CardinalityType

LEMMA BlockAt ==
  ASSUME NEW b \in Block
  PROVE  /\ b.ts \in 0 .. 2 /\ b.pages \in Seq(PageSet) /\ NextStamp(b.ts) \in 0 .. 2
         /\ DOMAIN b.pages = 1 .. Len(b.pages) /\ Len(b.pages) \in Nat
         /\ \A i \in DOMAIN b.pages : b.pages[i] \in PageSet
<1>1. b.ts \in 0 .. 2 /\ b.pages \in Seq(PageSet)
  BY DEF Block
<1>2. DOMAIN b.pages = 1 .. Len(b.pages) /\ Len(b.pages) \in Nat
  BY <1>1, LenProperties
<1> QED
  BY <1>1, <1>2, ElementOfSeq DEF NextStamp

\* The page that is found for an id has a version, 0 if there is none.
LEMMA BestVerType ==
  ASSUME NEW b \in Block, NEW id
  PROVE  BestVer(b, id) \in Vers
<1> DEFINE at == PlacesIn(b, id)
<1>1. CASE at = {}
  BY <1>1, Sizes DEF BestVer
<1>2. CASE at # {}
  <2>1. at \in SUBSET Nat /\ at \in SUBSET (DOMAIN b.pages) /\ \A i \in at : i <= Len(b.pages)
    BY BlockAt DEF PlacesIn
  <2>2. Len(b.pages) \in Nat
    BY BlockAt
  <2> HIDE DEF at
  <2>3. Max(at) \in at
    BY <1>2, <2>1, <2>2, GreatestIs
  <2>4. b.pages[Max(at)] \in PageSet
    BY <2>1, <2>3, BlockAt
  <2>5. b.pages[Max(at)].ver \in Vers
    BY <2>4, Sizes DEF PageSet, Dead
  <2> QED
    BY <1>2, <2>5 DEF BestVer, at
<1> QED
  BY <1>1, <1>2

LEMMA BufAt ==
  ASSUME NEW w \in Work, Ends(w.bufs)
  PROVE  /\ DOMAIN w.bufs = 1 .. Buffers
         /\ \A i \in 1 .. Buffers : w.bufs[i] \in Buffer
BY LenProperties, ElementOfSeq DEF Ends

\* The version of a dirty page is that of one of the buffers.
LEMMA VerInType ==
  ASSUME NEW w \in Work, Ends(w.bufs), NEW g, NEW id \in DirtyIds(w, g)
  PROVE  VerIn(w, g, id) \in Vers
<1>1. PICK i \in DirtyOf(w, g) : w.bufs[i].id = id
  BY DEF DirtyIds
<1> DEFINE j == CHOOSE k \in DirtyOf(w, g) : w.bufs[k].id = id
<1>2. j \in DirtyOf(w, g)
  BY <1>1
<1>3. w.bufs[j] \in Buffer
  BY <1>2, BufAt DEF DirtyOf
<1>4. w.bufs[j].ver \in Vers
  BY <1>3 DEF Buffer
<1> QED
  BY <1>4 DEF VerIn

LEMMA DirtyIdsType ==
  ASSUME NEW w \in Work, Ends(w.bufs), NEW g
  PROVE  DirtyIds(w, g) \in SUBSET Ids /\ IsFiniteSet(DirtyIds(w, g))
<1>1. DirtyIds(w, g) \in SUBSET Ids
  <2> SUFFICES ASSUME NEW i \in DirtyOf(w, g) PROVE w.bufs[i].id \in Ids
    BY DEF DirtyIds
  <2>1. w.bufs[i] \in Buffer
    BY BufAt DEF DirtyOf
  <2> QED
    BY <2>1 DEF Buffer
<1> QED
  BY <1>1, IdsFinite, FS_Subset

LEMMA DirtyPagesType ==
  ASSUME NEW w \in Work, Ends(w.bufs), NEW g
  PROVE  DirtyPages(w, g) \in Seq(PageSet)
<1> DEFINE S == DirtyIds(w, g)
           n == Cardinality(S)
           ids == Arranged(S, Rising(S))
<1>1. S \in SUBSET Ids /\ IsFiniteSet(S) /\ n \in Nat
  BY DirtyIdsType, FS_CardinalityType
<1>2. \A id \in S : VerIn(w, g, id) \in Vers
  BY VerInType
<1> HIDE DEF S
<1>3. Orders(S, Rising(S))
  BY <1>1, RisingOrders, Sizes
<1>4. ids \in [1 .. n -> S]
  BY <1>1, <1>3, ArrangedLists
<1> HIDE DEF ids, n
<1>5. DOMAIN ids = 1 .. n
  BY <1>4
<1> DEFINE f == [k \in 1 .. n |-> [id |-> ids[k], ver |-> VerIn(w, g, ids[k])]]
<1>6. f \in [1 .. n -> PageSet]
  <2>1. ASSUME NEW k \in 1 .. n PROVE [id |-> ids[k], ver |-> VerIn(w, g, ids[k])] \in PageSet
    BY <1>1, <1>2, <1>4 DEF PageSet
  <2> QED
    BY <2>1
<1>7. DirtyPages(w, g) = f
  BY <1>5 DEF DirtyPages, ids, S
<1> HIDE DEF f
<1> QED
  BY <1>1, <1>6, <1>7, FunctionIsSeq

\* An append goes behind the used pages, the file information among them.
LEMMA UsedIs ==
  ASSUME NEW w \in Work, Ends(w.bufs), NEW g \in Groups, Headed(w.home[g])
  PROVE  /\ UsedPages(w, g) \in Seq(PageSet)
         /\ UsedPages(w, g) # <<>> /\ UsedPages(w, g)[1].id = 0
         /\ Programmed(w, g) \in Seq(PageSet)
         /\ ~LooksFree(w, g) =>
              UsedPages(w, g) = w.home[g].pages /\ Programmed(w, g) = DirtyPages(w, g)
<1> DEFINE b == w.home[g]
           d == DirtyPages(w, g)
           n == Len(b.pages)
<1>1. /\ b \in Block /\ b.pages \in Seq(PageSet) /\ n \in Nat \ {0} /\ b.pages[1].id = 0
      /\ \A i \in 1 .. n : b.pages[i] \in PageSet
  <2>1. b \in Block
    BY DEF Work
  <2>2. /\ b.pages \in Seq(PageSet) /\ n \in Nat /\ DOMAIN b.pages = 1 .. n
        /\ \A i \in DOMAIN b.pages : b.pages[i] \in PageSet
    BY <2>1, BlockAt
  <2> QED
    BY <2>1, <2>2, EmptySeq DEF Headed
<1>2. d \in Seq(PageSet) /\ DOMAIN d = 1 .. Len(d) /\ Len(d) \in Nat
      /\ \A k \in 1 .. Len(d) : d[k] \in PageSet
  BY DirtyPagesType, LenProperties, ElementOfSeq
<1>3. CASE ~LooksFree(w, g)
  <2>1. UsedPages(w, g) = b.pages
    BY <1>3 DEF UsedPages
  <2>2. Programmed(w, g) = [k \in DOMAIN d |-> d[k]]
    BY <1>3 DEF Programmed
  <2>3. d = [k \in DOMAIN d |-> d[k]]
    BY DEF DirtyPages
  <2> QED
    BY <1>1, <1>2, <2>1, <2>2, <2>3, EmptySeq
<1>4. CASE LooksFree(w, g)
  <2>1. n # 1
    BY <1>1, <1>4 DEF LooksFree, Torn, Last, Dead
  <2>2. UsedPages(w, g) = SubSeq(b.pages, 1, n - 1)
    BY <1>4 DEF UsedPages, Front
  <2> DEFINE u == SubSeq(b.pages, 1, n - 1)
  <2>3. /\ u \in Seq(PageSet) /\ Len(u) = IF 1 <= n - 1 THEN n - 1 - 1 + 1 ELSE 0
        /\ \A i \in 1 .. n - 1 - 1 + 1 : u[i] = b.pages[1 + i - 1]
    BY <1>1, SubSeqProperties
  <2> HIDE DEF u
  <2>4. Len(u) = n - 1 /\ u[1] = b.pages[1] /\ u # <<>>
    <3>1. PICK m : m = n
      OBVIOUS
    <3>6. m \in Nat \ {0} /\ m # 1
      BY <1>1, <2>1, <3>1
    <3>2. m \in Nat /\ m >= 2
      BY <3>6
    <3>3. Len(u) = m - 1 /\ 1 \in 1 .. m - 1 - 1 + 1
      BY <2>3, <3>1, <3>2
    <3>4. u[1] = b.pages[1]
      BY <2>3, <3>1, <3>3
    <3>5. u # <<>>
      BY <3>2, <3>3, EmptySeq
    <3> QED
      BY <3>1, <3>3, <3>4, <3>5
  <2> DEFINE p == Programmed(w, g)
  <2>5. p \in [1 .. Len(d) -> PageSet]
    <3>1. ASSUME NEW r \in PageSet PROVE [r EXCEPT !.ver = 0] \in PageSet
      BY Sizes DEF PageSet, Dead
    <3>2. p = [k \in 1 .. Len(d) |-> IF k = 1 /\ LooksFree(w, g) THEN [d[k] EXCEPT !.ver = 0] ELSE d[k]]
      BY <1>2 DEF Programmed
    <3> QED
      BY <1>2, <3>1, <3>2
  <2>6. p \in Seq(PageSet)
    BY <1>2, <2>5, FunctionIsSeq
  <2> QED
    BY <1>1, <1>4, <2>2, <2>3, <2>4, <2>6 DEF u
<1> QED
  BY <1>3, <1>4

\* A cover that starts with page 0 writes a headed block.
LEMMA CoverPagesType ==
  ASSUME NEW w \in Work, Ends(w.bufs), NEW g \in Groups,
         0 \in DirtyIds(w, g) \cup IdsOf(w.home[g])
  PROVE  /\ CoverPages(w, g) \in Seq(PageSet)
         /\ CoverPages(w, g) # <<>> /\ CoverPages(w, g)[1].id = 0
         /\ Copies(w, g) \in Nat
<1> DEFINE n == CoverCount(w, g)
           T == {i \in Ids : i \notin DirtyIds(w, g) \cup IdsOf(w.home[g])} \cup {Pages}
           f == CoverPages(w, g)
           C == {k \in 1 .. n : k - 1 \notin DirtyIds(w, g)}
<1>1. n \in T /\ T \in SUBSET Nat /\ \A i \in T : n <= i
  <2>1. T \in SUBSET Nat /\ T # {}
    BY Sizes
  <2>2. n = Min(T)
    BY DEF CoverCount
  <2> HIDE DEF n, T
  <2> QED
    BY <2>1, <2>2, LeastIs
<1>2. n \in Nat /\ n > 0 /\ n <= Pages
  <2>1. 0 \notin T /\ Pages \in T
    BY Sizes
  <2> HIDE DEF n, T
  <2>2. n # 0 /\ n <= Pages /\ n \in Nat
    BY <1>1, <2>1
  <2> QED
    BY <2>2
<1> HIDE DEF n
<1>3. \A k \in 1 .. n : k - 1 \in Ids
  BY <1>2, Sizes DEF Ids
<1>4. w.home[g] \in Block
  BY DEF Work
<1>5. ASSUME NEW k \in 1 .. n
      PROVE  [id |-> k - 1, ver |-> IF k - 1 \in DirtyIds(w, g) THEN VerIn(w, g, k - 1)
                                    ELSE BestVer(w.home[g], k - 1)] \in PageSet
  BY <1>3, <1>4, VerInType, BestVerType DEF PageSet
<1>6. f = [k \in 1 .. n |-> [id |-> k - 1, ver |-> IF k - 1 \in DirtyIds(w, g)
                                                   THEN VerIn(w, g, k - 1)
                                                   ELSE BestVer(w.home[g], k - 1)]]
  BY DEF CoverPages, n
<1> HIDE DEF f
<1>7. f \in [1 .. n -> PageSet] /\ f[1].id = 0
  BY <1>2, <1>5, <1>6
<1>8. f \in Seq(PageSet) /\ Len(f) = n
  BY <1>2, <1>7, FunctionIsSeq
<1>9. f # <<>>
  BY <1>2, <1>8
<1>10. Cardinality(C) \in Nat
  <2>1. IsFiniteSet(1 .. n) /\ C \in SUBSET (1 .. n)
    BY <1>2, FS_Interval
  <2> HIDE DEF C
  <2>2. IsFiniteSet(C)
    BY <2>1, FS_Subset
  <2> QED
    BY <2>2, FS_CardinalityType
<1> QED
  BY <1>7, <1>8, <1>9, <1>10 DEF Copies, f, n

\* While a block is written, its first page is page 0, torn, or not there yet.
LEMMA PartialIs ==
  ASSUME NEW done \in Seq(PageSet), NEW more \in Seq(PageSet), NEW p \in Partial(done, more),
         done # <<>> => done[1].id = 0, done = <<>> /\ more # <<>> => more[1].id = 0
  PROVE  p \in Seq(PageSet) /\ Begun(p)
<1>1. PICK k \in 0 .. Len(more) : \/ p = done \o SubSeq(more, 1, k)
                                  \/ p = done \o SubSeq(more, 1, k) \o <<Dead>>
  <2>1. Len(more) \in Nat
    BY LenProperties
  <2>2. \A k \in 0 .. Len(more) - 1 : k \in 0 .. Len(more)
    BY <2>1
  <2>3. \/ \E k \in 0 .. Len(more) : p = done \o SubSeq(more, 1, k)
        \/ \E k \in 0 .. Len(more) - 1 : p = done \o SubSeq(more, 1, k) \o <<Dead>>
    BY DEF Partial
  <2> QED
    BY <2>2, <2>3
<1>2. /\ Len(more) \in Nat /\ Len(done) \in Nat /\ \A i \in 1 .. k : more[i] \in PageSet
  BY LenProperties, ElementOfSeq
<1> DEFINE s == SubSeq(more, 1, k)
           d == done \o s
           t == <<Dead>>
<1>3. /\ s \in Seq(PageSet) /\ Len(s) = k
      /\ k >= 1 => s[1] = more[1] /\ more # <<>>
  <2>1. /\ s \in Seq(PageSet) /\ Len(s) = IF 1 <= k THEN k - 1 + 1 ELSE 0
        /\ \A i \in 1 .. k - 1 + 1 : s[i] = more[1 + i - 1]
    BY <1>2, SubSeqProperties
  <2>2. k >= 1 => s[1] = more[1]
    BY <2>1
  <2>3. k >= 1 => more # <<>>
    BY <1>2
  <2> HIDE DEF s
  <2> QED
    BY <2>1, <2>2, <2>3
<1> HIDE DEF s
<1>4. /\ d \in Seq(PageSet) /\ Len(d) = Len(done) + k
      /\ \A i \in 1 .. Len(done) + k : d[i] = IF i <= Len(done) THEN done[i] ELSE s[i - Len(done)]
  BY <1>3, ConcatProperties
<1> HIDE DEF d
<1>5. Len(d) \in Nat
  BY <1>2, <1>4
<1>6. d = <<>> <=> Len(d) = 0
  BY <1>4, EmptySeq
<1>7. d # <<>> => d[1].id = 0
  <2> SUFFICES ASSUME d # <<>> PROVE d[1].id = 0
    OBVIOUS
  <2>1. CASE Len(done) >= 1
    <3>1. d[1] = done[1] /\ done # <<>>
      BY <1>2, <1>4, <2>1
    <3> QED
      BY <3>1
  <2>2. CASE Len(done) = 0
    <3>1. k >= 1
      BY <1>4, <1>5, <1>6, <2>2
    <3>2. d[1] = s[1]
      BY <1>4, <2>2, <3>1
    <3>3. done = <<>>
      BY <2>2, EmptySeq
    <3> QED
      BY <1>3, <3>1, <3>2, <3>3
  <2> QED
    BY <1>2, <2>1, <2>2
<1>8. CASE p = d
  BY <1>4, <1>7, <1>8 DEF Begun
<1>9. CASE p = d \o t
  <2>1. t \in Seq(PageSet) /\ Len(t) = 1 /\ t[1] = Dead
    BY DeadType
  <2> HIDE DEF t
  <2>2. /\ d \o t \in Seq(PageSet)
        /\ \A i \in 1 .. Len(d) + 1 : (d \o t)[i] = IF i <= Len(d) THEN d[i] ELSE t[i - Len(d)]
    <3>1. /\ d \o t \in Seq(PageSet)
          /\ \A i \in 1 .. Len(d) + Len(t) :
               (d \o t)[i] = IF i <= Len(d) THEN d[i] ELSE t[i - Len(d)]
      BY <1>4, <2>1, ConcatProperties
    <3> QED
      BY <2>1, <3>1
  <2>3. (d \o t)[1] = IF 1 <= Len(d) THEN d[1] ELSE t[1 - Len(d)]
    <3>1. 1 \in 1 .. Len(d) + 1
      BY <1>5
    <3> QED
      BY <2>2, <3>1
  <2>4. CASE Len(d) = 0
    BY <1>9, <2>1, <2>2, <2>3, <2>4 DEF Begun
  <2>5. CASE Len(d) # 0
    BY <1>5, <1>6, <1>7, <1>9, <2>2, <2>3, <2>5 DEF Begun
  <2> QED
    BY <2>4, <2>5
<1> QED
  BY <1>1, <1>8, <1>9 DEF d, s, t

-----------------------------------------------------------------------------
(* Images *)

\* One block at most for each group, and for g the blocks S: a flash that can be
\* mounted, if one block is left.
LEMMA ClaimedIs ==
  ASSUME NEW w \in Work, \A h \in Tree(w.home) : Headed(w.home[h]),
         NEW g \in Groups, NEW S \in SUBSET Block, Claim(S),
         Cardinality(Tree(w.home) \cup {g}) < Blocks
  PROVE  ImageInv(Claimed(w, g, S))
<1> DEFINE image == Claimed(w, g, S)
           used == {h \in Groups : image[h] # {}}
<1>1. w.home \in [Groups -> Block]
  BY DEF Work
<1>2. /\ Image(w) \in Images
      /\ \A h \in Groups : Image(w)[h] = IF w.home[h] = NoBlock THEN {} ELSE {w.home[h]}
  BY <1>1 DEF Image, Images
<1>3. /\ image \in Images
      /\ \A h \in Groups : image[h] = IF h = g THEN S ELSE Image(w)[h]
  BY <1>2 DEF Claimed, Images
<1> HIDE DEF image
<1>4. ASSUME NEW h \in Groups PROVE Claim(image[h])
  <2>1. CASE h = g
    BY <1>3, <2>1
  <2>2. CASE h # g /\ w.home[h] = NoBlock
    <3>1. image[h] = {}
      BY <1>2, <1>3, <2>2
    <3> QED
      BY <3>1 DEF Claim
  <2>3. CASE h # g /\ w.home[h] # NoBlock
    <3>1. image[h] = {w.home[h]} /\ Headed(w.home[h]) /\ w.home[h].ts \in 0 .. 2
      BY <1>1, <1>2, <1>3, <2>3, BlockAt DEF Tree
    <3> QED
      BY <3>1 DEF Claim, Headed, Begun
  <2> QED
    BY <2>1, <2>2, <2>3
<1>5. used \in SUBSET (Tree(w.home) \cup {g})
  <2> SUFFICES ASSUME NEW h \in Groups, image[h] # {}, h # g PROVE h \in Tree(w.home)
    OBVIOUS
  <2> QED
    BY <1>2, <1>3 DEF Tree
<1> HIDE DEF used
<1>6. Cardinality(used) <= Cardinality(Tree(w.home) \cup {g}) /\ Cardinality(used) \in Nat
  BY <1>5, TreeFinite, FS_Subset, FS_CardinalityType
<1>7. Cardinality(used) < Blocks
  <2>1. Cardinality(Tree(w.home) \cup {g}) \in Nat
    BY TreeFinite
  <2> QED
    BY <1>6, <2>1, Sizes
<1> QED
  BY <1>3, <1>4, <1>7 DEF ImageInv, used, image

LEMMA ImageIs ==
  ASSUME NEW w \in Work, \A h \in Tree(w.home) : Headed(w.home[h]),
         Cardinality(Tree(w.home)) < Blocks
  PROVE  ImageInv(Image(w))
<1> DEFINE image == Image(w)
           used == {h \in Groups : image[h] # {}}
<1>1. w.home \in [Groups -> Block]
  BY DEF Work
<1>2. /\ image \in Images
      /\ \A h \in Groups : image[h] = IF w.home[h] = NoBlock THEN {} ELSE {w.home[h]}
  BY <1>1 DEF Image, Images
<1> HIDE DEF image
<1>3. ASSUME NEW h \in Groups PROVE Claim(image[h])
  <2>1. CASE w.home[h] = NoBlock
    <3>1. image[h] = {}
      BY <1>2, <2>1
    <3> QED
      BY <3>1 DEF Claim
  <2>2. CASE w.home[h] # NoBlock
    <3>1. image[h] = {w.home[h]} /\ Headed(w.home[h]) /\ w.home[h].ts \in 0 .. 2
      BY <1>1, <1>2, <2>2, BlockAt DEF Tree
    <3> QED
      BY <3>1 DEF Claim, Headed, Begun
  <2> QED
    BY <2>1, <2>2
<1>4. used = Tree(w.home)
  BY <1>2 DEF Tree
<1> QED
  BY <1>2, <1>3, <1>4 DEF ImageInv, image

-----------------------------------------------------------------------------
(* The invariant of a work record *)

HeadsInv(w) == \A g \in Tree(w.home) : Headed(w.home[g])
\* every block is in the tree or spare, and one is spare
BlocksInv(w) == w.spare + Cardinality(Tree(w.home)) = Blocks /\ w.spare >= 1
\* a slot for each group with dirty pages, and for no other
SlotsInv(w) ==
  /\ \A i \in 1 .. Buffers : w.bufs[i].mark = "dirty" =>
       w.bufs[i].g \in Groups /\ \E s \in 1 .. Slots : w.slots[s] = w.bufs[i].g
  /\ \A s \in 1 .. Slots : w.slots[s] # None =>
       \E i \in 1 .. Buffers : w.bufs[i].mark = "dirty" /\ w.bufs[i].g = w.slots[s]
  /\ \A s, t \in 1 .. Slots : w.slots[s] = w.slots[t] /\ w.slots[s] # None => s = t
CutsInv(w) == \A image \in w.cuts : ImageInv(image)
Body(w)  == w \in Work /\ Ends(w.bufs) /\ HeadsInv(w) /\ SlotsInv(w) /\ CutsInv(w)
Sound(w) == Body(w) /\ BlocksInv(w)

\* the groups with a slot have a block
AtHome(w) == \A s \in 1 .. Slots : w.slots[s] # None => w.home[w.slots[s]] # NoBlock
\* but for h, which can get one
Ready(w, h) ==
  \A s \in 1 .. Slots : w.slots[s] # None /\ w.home[w.slots[s]] = NoBlock =>
    w.slots[s] = h /\ w.spare >= 2 /\ 0 \in DirtyIds(w, h)

Cleared(slots, g) == [s \in 1 .. Slots |-> IF slots[s] = g THEN None ELSE slots[s]]
\* x is w with group g flushed
Flushed(w, x, g) ==
  /\ x.ret = "ok" /\ x.slots = Cleared(w.slots, g) /\ Kept(w.bufs, x.bufs, g)
  /\ \A h \in Groups : h # g => x.home[h] = w.home[h]
  /\ x.home[g] # NoBlock
  /\ w.home[g] # NoBlock => x.spare = w.spare

LEMMA SlotsKept ==
  ASSUME NEW w \in Work, Ends(w.bufs), SlotsInv(w), NEW g,
         NEW x \in Work, Ends(x.bufs), Kept(w.bufs, x.bufs, g), x.slots = Cleared(w.slots, g)
  PROVE  SlotsInv(x)
<1>1. /\ \A i \in 1 .. Buffers : w.bufs[i] \in Buffer
      /\ \A s \in 1 .. Slots : x.slots[s] = IF w.slots[s] = g THEN None ELSE w.slots[s]
  BY BufAt DEF Cleared
<1>2. ASSUME NEW i \in 1 .. Buffers, x.bufs[i].mark = "dirty"
      PROVE  x.bufs[i].g \in Groups /\ \E s \in 1 .. Slots : x.slots[s] = x.bufs[i].g
  <2>1. x.bufs[i] # SpareBuf
    BY <1>2 DEF SpareBuf
  <2>2. PICK j \in 1 .. Buffers : x.bufs[i] = CleanBuf(w.bufs[j], g)
    BY <2>1 DEF Kept
  <2>3. w.bufs[j].mark = "dirty" /\ w.bufs[j].g # g /\ x.bufs[i].g = w.bufs[j].g
    BY <1>1, <1>2, <2>2, CleanType
  <2>4. w.bufs[j].g \in Groups /\ \E s \in 1 .. Slots : w.slots[s] = w.bufs[j].g
    BY <2>3 DEF SlotsInv
  <2> QED
    BY <1>1, <2>3, <2>4
<1>3. ASSUME NEW s \in 1 .. Slots, x.slots[s] # None
      PROVE  \E i \in 1 .. Buffers : x.bufs[i].mark = "dirty" /\ x.bufs[i].g = x.slots[s]
  <2>1. w.slots[s] # g /\ x.slots[s] = w.slots[s]
    BY <1>1, <1>3
  <2>2. PICK j \in 1 .. Buffers : w.bufs[j].mark = "dirty" /\ w.bufs[j].g = w.slots[s]
    BY <1>3, <2>1 DEF SlotsInv
  <2>3. PICK i \in 1 .. Buffers : x.bufs[i] = CleanBuf(w.bufs[j], g)
    BY <2>2 DEF Kept, Used
  <2>4. x.bufs[i].mark = "dirty" /\ x.bufs[i].g = w.slots[s]
    BY <1>1, <2>1, <2>2, <2>3, CleanType
  <2> QED
    BY <2>1, <2>4
<1>4. ASSUME NEW s \in 1 .. Slots, NEW t \in 1 .. Slots, x.slots[s] = x.slots[t], x.slots[s] # None
      PROVE  s = t
  BY <1>1, <1>4 DEF SlotsInv
<1> QED
  BY <1>2, <1>3, <1>4 DEF SlotsInv

LEMMA SiftedThenKept ==
  ASSUME NEW b, NEW c, NEW d, NEW g, Sifted(b, c), Kept(c, d, g)
  PROVE  Kept(b, d, g)
<1>1. CleanBuf(SpareBuf, g) = SpareBuf
  BY DEF CleanBuf, SpareBuf
<1>2. ASSUME NEW i \in 1 .. Buffers
      PROVE  d[i] = SpareBuf \/ \E j \in 1 .. Buffers : d[i] = CleanBuf(b[j], g)
  <2>1. CASE d[i] = SpareBuf
    BY <2>1
  <2>2. CASE d[i] # SpareBuf
    <3>1. PICK k \in 1 .. Buffers : d[i] = CleanBuf(c[k], g)
      BY <2>2 DEF Kept
    <3>2. c[k] = SpareBuf \/ \E j \in 1 .. Buffers : c[k] = b[j]
      BY DEF Sifted
    <3> QED
      BY <1>1, <3>1, <3>2
  <2> QED
    BY <2>1, <2>2
<1>3. ASSUME NEW j \in 1 .. Buffers, Used(b[j])
      PROVE  \E i \in 1 .. Buffers : d[i] = CleanBuf(b[j], g)
  <2>1. PICK k \in 1 .. Buffers : c[k] = b[j]
    BY <1>3 DEF Sifted
  <2>2. PICK i \in 1 .. Buffers : d[i] = CleanBuf(c[k], g)
    BY <1>3, <2>1 DEF Kept
  <2> QED
    BY <2>1, <2>2
<1> QED
  BY <1>2, <1>3 DEF Kept

\* Of x group g is in block n, and a power cut may leave the blocks S of SS to it.
Rehomed(w, x, g, n, SS) ==
  /\ n \in Block /\ n # NoBlock /\ x.home = [w.home EXCEPT ![g] = n]
  /\ x.cuts = w.cuts \cup {Claimed(w, g, S) : S \in SS}
\* the block the dirty pages are appended to, and what may be there of it
Appended(w, g) == [w.home[g] EXCEPT !.pages = UsedPages(w, g) \o Programmed(w, g)]
PagesLeft(w, g) ==
  {w.home[g].pages} \cup (Partial(UsedPages(w, g), Programmed(w, g)) \ {UsedPages(w, g)})
Appending(w, g) == {{[w.home[g] EXCEPT !.pages = p]} : p \in PagesLeft(w, g)}

\* Writing the pages of a group behind the others.
LEMMA AppendIs ==
  ASSUME NEW w, Sound(w), NEW g \in Tree(w.home)
  PROVE  /\ Sound(Append2Block(w, g)) /\ Flushed(w, Append2Block(w, g), g)
         /\ Rehomed(w, Append2Block(w, g), g, Appended(w, g), Appending(w, g))
<1> DEFINE b == w.home[g]
           used == UsedPages(w, g)
           more == Programmed(w, g)
           left == PagesLeft(w, g)
           n == [b EXCEPT !.pages = used \o more]
           y == [w EXCEPT !.home[g].pages = used \o more, !.ret = "ok"]
           z == Cleaned(y, g)
           cut == {Claimed(w, g, {[b EXCEPT !.pages = p]}) : p \in left}
           x == Append2Block(w, g)
<1>1. /\ w \in Work /\ Ends(w.bufs) /\ HeadsInv(w) /\ SlotsInv(w) /\ CutsInv(w)
      /\ w.spare \in Int /\ w.home \in [Groups -> Block] /\ g \in Groups /\ Headed(b)
  BY DEF Sound, Body, Work, HeadsInv, Tree
<1>2. /\ b \in Block /\ b.pages \in Seq(PageSet) /\ b.ts \in 0 .. 2
      /\ used \in Seq(PageSet) /\ used # <<>> /\ used[1].id = 0 /\ Len(used) \in Nat
      /\ more \in Seq(PageSet)
  BY <1>1, BlockAt, UsedIs, LenProperties
<1>19. /\ left = {b.pages} \cup (Partial(used, more) \ {used})
  BY DEF PagesLeft
<1> HIDE DEF b, more, used, left
<1>3. n \in Block /\ n.ts = b.ts /\ n.pages = used \o more
  <2>1. used \o more \in Seq(PageSet)
    BY <1>2, ConcatProperties
  <2> QED
    BY <1>2, <2>1 DEF Block
<1>4. Headed(n) /\ n # NoBlock
  <2>1. used # <<>> /\ used[1].id = 0 /\ Len(used) >= 1
    BY <1>2, EmptySeq
  <2>2. /\ Len(used \o more) = Len(used) + Len(more) /\ Len(more) \in Nat
        /\ \A i \in 1 .. Len(used) + Len(more) :
             (used \o more)[i] = IF i <= Len(used) THEN used[i] ELSE more[i - Len(used)]
    BY <1>2, ConcatProperties, LenProperties
  <2>3. 1 \in 1 .. Len(used) + Len(more)
    BY <1>2, <2>1, <2>2
  <2>4. (used \o more)[1] = used[1]
    BY <1>2, <2>1, <2>2, <2>3
  <2>5. used \o more # <<>>
    BY <1>2, <2>1, <2>2, EmptySeq
  <2> HIDE DEF n
  <2>6. n.pages # <<>> /\ n.pages[1].id = 0
    BY <1>3, <2>1, <2>4, <2>5
  <2> QED
    BY <2>6 DEF Headed, NoBlock
<1>5. /\ y \in Work /\ y.home = [w.home EXCEPT ![g] = n] /\ y.spare = w.spare /\ y.bufs = w.bufs
      /\ y.slots = w.slots /\ y.ret = "ok" /\ y.cuts = w.cuts
  <2> DEFINE home == [w.home EXCEPT ![g] = n]
  <2>1. home \in [Groups -> Block]
    BY <1>1, <1>3
  <2>2. y = [w EXCEPT !.home = home, !.ret = "ok"]
    BY <1>1 DEF Work, b
  <2> HIDE DEF home, y
  <2> QED
    BY <1>1, <2>1, <2>2 DEF Work, Answers, home
<1> HIDE DEF y, n
<1>6. /\ z \in Work /\ z.home = y.home /\ z.spare = y.spare /\ z.slots = Cleared(w.slots, g)
      /\ z.ret = "ok" /\ z.cuts = w.cuts
      /\ Ends(z.bufs) /\ Kept(w.bufs, z.bufs, g)
  BY <1>1, <1>5, CleanedIs DEF Cleared
<1>7. x = [z EXCEPT !.cuts = @ \cup cut]
  BY <1>19 DEF Append2Block, y, z, b, more, used
<1>8. ASSUME NEW p \in left PROVE ImageInv(Claimed(w, g, {[b EXCEPT !.pages = p]}))
  <2>1. p \in Seq(PageSet) /\ Begun(p)
    <3>1. CASE p = b.pages
      BY <1>1, <1>2, <3>1 DEF Headed, Begun
    <3>2. CASE p \in Partial(used, more)
      BY <1>2, <3>2, PartialIs
    <3> QED
      BY <1>19, <3>1, <3>2
  <2>2. PICK c : c = [b EXCEPT !.pages = p]
    OBVIOUS
  <2>3. c \in Block /\ c.pages = p /\ c.ts = b.ts
    BY <1>2, <2>1, <2>2 DEF Block
  <2>4. {c} \in SUBSET Block /\ Claim({c})
    BY <1>2, <2>1, <2>3 DEF Claim
  <2>5. Cardinality(Tree(w.home) \cup {g}) < Blocks
    <3>1. Cardinality(Tree(w.home) \cup {g}) = Cardinality(Tree(w.home))
          /\ Cardinality(Tree(w.home)) \in Nat
      BY TreeFinite
    <3>2. w.spare + Cardinality(Tree(w.home)) = Blocks /\ w.spare >= 1
      BY DEF Sound, BlocksInv
    <3> QED
      BY <1>1, <3>1, <3>2, Sizes
  <2> QED
    BY <1>1, <2>2, <2>4, <2>5, ClaimedIs DEF HeadsInv
<1> HIDE DEF z
<1>9. \A image \in cut : ImageInv(image)
  BY <1>8
<1>10. cut \in SUBSET Images
  BY <1>9 DEF ImageInv
<1> HIDE DEF cut, x
<1>11. /\ x \in Work /\ x.home = [w.home EXCEPT ![g] = n] /\ x.spare = w.spare /\ x.bufs = z.bufs
       /\ x.slots = Cleared(w.slots, g) /\ x.ret = "ok" /\ x.cuts = w.cuts \cup cut
  BY <1>5, <1>6, <1>7, <1>10 DEF Work
<1>12. Tree(x.home) = Tree(w.home) /\ HeadsInv(x)
  BY <1>1, <1>4, <1>11 DEF Tree, HeadsInv
<1>13. BlocksInv(x)
  BY <1>11, <1>12 DEF Sound, BlocksInv
<1>14. SlotsInv(x)
  BY <1>1, <1>6, <1>11, SlotsKept
<1>15. CutsInv(x)
  BY <1>1, <1>9, <1>11 DEF CutsInv
<1>16. Flushed(w, x, g)
  BY <1>1, <1>4, <1>6, <1>11 DEF Flushed
<1>17. n = Appended(w, g) /\ cut = {Claimed(w, g, S) : S \in Appending(w, g)}
  BY DEF n, cut, b, more, used, left, Appended, Appending
<1>18. Rehomed(w, x, g, Appended(w, g), Appending(w, g))
  BY <1>3, <1>4, <1>11, <1>17 DEF Rehomed
<1> QED
  BY <1>6, <1>11, <1>12, <1>13, <1>14, <1>15, <1>16, <1>18 DEF Sound, Body, x

\* a list of pages that starts with page 0
Leading(pages) == pages \in Seq(PageSet) /\ pages # <<>> /\ pages[1].id = 0
\* a block is left when g has one
RoomFor(w, g) == Cardinality(Tree(w.home) \cup {g}) < Blocks
\* the block that takes the place of that of g, and what may be there of both
CoverOf(w, g, pages) == [ts |-> NextStamp(w.home[g].ts), pages |-> pages]
Covering(w, g, pages) ==
  {(IF w.home[g] = NoBlock THEN {} ELSE {w.home[g]}) \cup {[CoverOf(w, g, pages) EXCEPT !.pages = p]} :
     p \in Partial(<<>>, pages)} \cup {{CoverOf(w, g, pages)}}
\* Writing a group to a fresh block, with other dirty pages or copies in front of it:
\* the tree has the group, the spare blocks are as many as before.
LEMMA CoverWithIs ==
  ASSUME NEW w, Body(w), NEW g \in Groups, RoomFor(w, g), NEW pages, Leading(pages),
         NEW copies \in Nat, NEW x, x = CoverWith(w, g, pages, copies)
  PROVE  /\ Body(x) /\ Tree(x.home) = Tree(w.home) \cup {g} /\ x.spare = w.spare
         /\ Flushed(w, x, g) /\ Rehomed(w, x, g, CoverOf(w, g, pages), Covering(w, g, pages))
<1> DEFINE b == w.home[g]
           n == [ts |-> NextStamp(b.ts), pages |-> pages]
           old == IF b = NoBlock THEN {} ELSE {b}
           y == Recycled(w, copies)
           z == Cleaned(y, g)
           writing == {Claimed(w, g, old \cup {[n EXCEPT !.pages = p]}) : p \in Partial(<<>>, pages)}
           done == Claimed(w, g, {n})
<1>1. /\ w \in Work /\ Ends(w.bufs) /\ HeadsInv(w) /\ SlotsInv(w) /\ CutsInv(w)
      /\ w.home \in [Groups -> Block] /\ b \in Block
      /\ pages \in Seq(PageSet) /\ pages # <<>> /\ pages[1].id = 0
      /\ Cardinality(Tree(w.home) \cup {g}) < Blocks
  BY DEF Body, Work, Leading, RoomFor
<1>2. b.ts \in 0 .. 2 /\ NextStamp(b.ts) \in 0 .. 2 /\ (b # NoBlock => Headed(b))
  BY <1>1, BlockAt DEF HeadsInv, Tree
<1> HIDE DEF b
<1>3. n \in Block /\ Headed(n) /\ n # NoBlock /\ n.ts = NextStamp(b.ts) /\ n.pages = pages
  BY <1>1, <1>2 DEF Block, Headed, NoBlock
<1>4. /\ y \in Work /\ y.home = w.home /\ y.spare = w.spare /\ y.slots = w.slots
      /\ y.ret = w.ret /\ y.cuts = w.cuts /\ Ends(y.bufs) /\ Sifted(w.bufs, y.bufs)
  BY <1>1, RecycledIs
<1> HIDE DEF y
<1>5. /\ z \in Work /\ z.home = w.home /\ z.spare = w.spare /\ z.slots = Cleared(w.slots, g)
      /\ z.cuts = w.cuts /\ Ends(z.bufs) /\ Kept(y.bufs, z.bufs, g)
  BY <1>4, CleanedIs DEF Cleared
<1>6. Kept(w.bufs, z.bufs, g)
  BY <1>4, <1>5, SiftedThenKept
<1>7. x = [z EXCEPT !.home[g] = n, !.ret = "ok", !.cuts = @ \cup writing \cup {done}]
  BY DEF CoverWith, z, y, b
<1> HIDE DEF z, n
<1>8. ASSUME NEW p \in Partial(<<>>, pages)
      PROVE  ImageInv(Claimed(w, g, old \cup {[n EXCEPT !.pages = p]}))
  <2>1. p \in Seq(PageSet) /\ Begun(p)
    BY <1>1, EmptySeq, PartialIs
  <2>2. PICK c : c = [n EXCEPT !.pages = p]
    OBVIOUS
  <2>3. c \in Block /\ c.pages = p /\ c.ts = NextStamp(b.ts)
    BY <1>3, <2>1, <2>2 DEF Block
  <2>4. PICK S : S = old \cup {c}
    OBVIOUS
  <2>5. /\ \A d \in S : d = c \/ (d = b /\ b # NoBlock)
    BY <2>4
  <2>6. S \in SUBSET Block
    BY <1>1, <2>3, <2>5
  <2>7. Claim(S)
    <3>1. \A d \in S : Begun(d.pages)
      BY <1>2, <2>1, <2>3, <2>5 DEF Headed, Begun
    <3>2. \A d \in S : d.ts \in {b.ts, NextStamp(b.ts)}
      BY <2>3, <2>5
    <3> QED
      BY <1>2, <3>1, <3>2 DEF Claim
  <2>8. ImageInv(Claimed(w, g, S))
    BY <1>1, <2>6, <2>7, ClaimedIs DEF HeadsInv
  <2> QED
    BY <2>2, <2>4, <2>8
<1>9. ImageInv(done)
  <2>1. PICK S : S = {n}
    OBVIOUS
  <2>2. S \in SUBSET Block /\ Claim(S)
    BY <1>2, <1>3, <2>1 DEF Claim, Headed, Begun
  <2>3. ImageInv(Claimed(w, g, S))
    BY <1>1, <2>2, ClaimedIs DEF HeadsInv
  <2> QED
    BY <2>1, <2>3
<1>10. \A image \in writing \cup {done} : ImageInv(image)
  <2>1. \A image \in writing : ImageInv(image)
    BY <1>8
  <2> HIDE DEF writing, done
  <2> QED
    BY <1>9, <2>1
<1>11. writing \cup {done} \in SUBSET Images
  BY <1>10 DEF ImageInv
<1> HIDE DEF writing, done
<1>12. /\ x \in Work /\ x.home = [w.home EXCEPT ![g] = n] /\ x.spare = w.spare /\ x.bufs = z.bufs
       /\ x.slots = Cleared(w.slots, g) /\ x.ret = "ok" /\ x.cuts = w.cuts \cup writing \cup {done}
  <2> DEFINE home == [w.home EXCEPT ![g] = n]
             cuts == w.cuts \cup writing \cup {done}
  <2>1. home \in [Groups -> Block]
    BY <1>1, <1>3
  <2>2. cuts \in SUBSET Images
    BY <1>1, <1>11 DEF Work
  <2>3. x = [z EXCEPT !.home = home, !.ret = "ok", !.cuts = cuts]
    BY <1>5, <1>7 DEF Work
  <2> HIDE DEF home, cuts
  <2>4. x \in Work /\ x.home = home /\ x.spare = z.spare /\ x.bufs = z.bufs
        /\ x.slots = z.slots /\ x.ret = "ok" /\ x.cuts = cuts
    BY <1>5, <2>1, <2>2, <2>3 DEF Work, Answers
  <2> QED
    BY <1>5, <2>4 DEF home, cuts
<1>13. Tree(x.home) = Tree(w.home) \cup {g}
  BY <1>1, <1>3, <1>12 DEF Tree
<1>14. HeadsInv(x)
  BY <1>1, <1>3, <1>12 DEF HeadsInv, Tree
<1>15. SlotsInv(x)
  BY <1>1, <1>5, <1>6, <1>12, SlotsKept
<1>16. CutsInv(x)
  BY <1>1, <1>10, <1>12 DEF CutsInv
<1>17. Flushed(w, x, g)
  BY <1>1, <1>3, <1>6, <1>12 DEF Flushed
<1>18. n = CoverOf(w, g, pages) /\ writing \cup {done} = {Claimed(w, g, S) : S \in Covering(w, g, pages)}
  BY DEF n, writing, done, b, CoverOf, Covering
<1>19. Rehomed(w, x, g, CoverOf(w, g, pages), Covering(w, g, pages))
  BY <1>3, <1>12, <1>18 DEF Rehomed
<1> QED
  BY <1>5, <1>12, <1>13, <1>14, <1>15, <1>16, <1>17, <1>19 DEF Body

\* The last buffer is free, so that a page can always be copied.
LEMMA LastIsFree ==
  ASSUME NEW w \in Work, Ends(w.bufs)
  PROVE  FreeBufs(w) \in SUBSET (1 .. Buffers) /\ Buffers \in FreeBufs(w)
         /\ IsFiniteSet(FreeBufs(w)) /\ Cardinality(FreeBufs(w)) \in Nat
<1>1. FreeBufs(w) \in SUBSET (1 .. Buffers) /\ Buffers \in FreeBufs(w)
  BY BufAt, Sizes DEF FreeBufs, IsFree, Ends
<1> QED
  BY <1>1, IdsFinite, FS_Subset, FS_CardinalityType

LEMMA CoverIs ==
  ASSUME NEW w, Body(w), NEW g \in Groups, RoomFor(w, g),
         w.spare \in Nat \ {0}, 0 \in DirtyIds(w, g) \cup IdsOf(w.home[g])
  PROVE  /\ Body(Cover(w, g)) /\ Tree(Cover(w, g).home) = Tree(w.home) \cup {g}
         /\ Cover(w, g).spare = w.spare /\ Flushed(w, Cover(w, g), g)
         /\ Rehomed(w, Cover(w, g), g, CoverOf(w, g, CoverPages(w, g)), Covering(w, g, CoverPages(w, g)))
<1>1. w \in Work /\ Ends(w.bufs)
  BY DEF Body
<1>2. /\ CoverPages(w, g) \in Seq(PageSet) /\ CoverPages(w, g) # <<>>
      /\ CoverPages(w, g)[1].id = 0 /\ Copies(w, g) \in Nat
  BY <1>1, CoverPagesType
<1>3. FreeBufs(w) # {}
  BY <1>1, LastIsFree
<1>4. PICK pages : pages = CoverPages(w, g)
  OBVIOUS
<1>5. PICK copies : copies = Copies(w, g)
  OBVIOUS
<1>6. PICK x : x = CoverWith(w, g, pages, copies)
  OBVIOUS
<1>7. /\ Body(x) /\ Tree(x.home) = Tree(w.home) \cup {g} /\ x.spare = w.spare
      /\ Flushed(w, x, g) /\ Rehomed(w, x, g, CoverOf(w, g, pages), Covering(w, g, pages))
  <2>1. Leading(pages) /\ copies \in Nat
    BY <1>2, <1>4, <1>5 DEF Leading
  <2> QED
    BY <1>6, <2>1, CoverWithIs
<1>8. Cover(w, g) = x
  BY <1>3, <1>4, <1>5, <1>6 DEF Cover
<1> QED
  BY <1>4, <1>7, <1>8

\* Flushing a group that has a block.
LEMMA FlushHomeIs ==
  ASSUME NEW w, Sound(w), NEW s \in 1 .. Slots, NEW force, w.slots[s] \in Tree(w.home)
  PROVE  LET x == FlushSlot(w, s, force)
         IN Sound(x) /\ Flushed(w, x, w.slots[s]) /\ Tree(x.home) = Tree(w.home)
<1> DEFINE g == w.slots[s]
           x == FlushSlot(w, s, force)
<1>1. /\ Body(w) /\ g \in Groups /\ g # None /\ w.home[g] # NoBlock
      /\ w.spare \in Nat \ {0} /\ w.spare + Cardinality(Tree(w.home)) = Blocks
      /\ Headed(w.home[g]) /\ w.home[g] \in Block
  BY Sizes DEF Sound, Body, BlocksInv, Tree, HeadsInv, Work
<1>2. /\ Tree(w.home) \cup {g} = Tree(w.home) /\ Cardinality(Tree(w.home)) \in Nat
      /\ Cardinality(Tree(w.home) \cup {g}) = Cardinality(Tree(w.home))
  BY TreeFinite
<1>3. RoomFor(w, g)
  BY <1>1, <1>2, Sizes DEF RoomFor
<1>4. 0 \in IdsOf(w.home[g])
  <2>1. 1 \in DOMAIN w.home[g].pages
    BY <1>1, BlockAt, EmptySeq DEF Headed
  <2>2. 1 \in PlacesIn(w.home[g], 0)
    BY <1>1, <2>1 DEF Headed, PlacesIn
  <2> QED
    BY <2>2, Sizes DEF IdsOf
<1> DEFINE c == Cover(w, g)
           a == Append2Block(w, g)
<1>5. Sound(c) /\ Flushed(w, c, g) /\ Tree(c.home) = Tree(w.home)
  <2>1. /\ Body(c) /\ Tree(c.home) = Tree(w.home) \cup {g} /\ c.spare = w.spare /\ Flushed(w, c, g)
    BY <1>1, <1>3, <1>4, CoverIs
  <2> QED
    BY <1>1, <1>2, <2>1 DEF Sound, BlocksInv
<1>6. Sound(a) /\ Flushed(w, a, g)
  BY AppendIs
<1>7. Tree(a.home) = Tree(w.home)
  BY <1>1, <1>6 DEF Flushed, Tree
<1>8. x = c \/ x = a
  BY <1>1 DEF FlushSlot
<1> HIDE DEF g, x, c, a
<1>9. CASE x = c
  BY <1>5, <1>9 DEF g, x
<1>10. CASE x = a
  BY <1>6, <1>7, <1>10 DEF g, x
<1> QED
  BY <1>8, <1>9, <1>10

\* Flushing a new group takes a spare block.
LEMMA FlushNewIs ==
  ASSUME NEW w, Sound(w), NEW s \in 1 .. Slots, NEW force, w.slots[s] \in Groups,
         w.home[w.slots[s]] = NoBlock, w.spare >= 2, 0 \in DirtyIds(w, w.slots[s])
  PROVE  LET x == FlushSlot(w, s, force)
         IN Sound(x) /\ Flushed(w, x, w.slots[s]) /\ Tree(x.home) = Tree(w.home) \cup {w.slots[s]}
<1> DEFINE g == w.slots[s]
           y == [w EXCEPT !.spare = @ - 1]
           x == Cover(y, g)
<1>1. /\ w \in Work /\ w.spare \in Int /\ g # None /\ g \notin Tree(w.home)
      /\ w.spare + Cardinality(Tree(w.home)) = Blocks
  BY Sizes DEF Sound, Body, Work, BlocksInv, Tree
<1>2. /\ y \in Work /\ y.spare = w.spare - 1 /\ y.home = w.home /\ y.bufs = w.bufs
      /\ y.slots = w.slots /\ y.cuts = w.cuts
  BY <1>1 DEF Work
<1>3. FlushSlot(w, s, force) = IF x.ret = "ok" THEN x ELSE [x EXCEPT !.spare = @ + 1]
  BY <1>1 DEF FlushSlot, NewBlock
<1> HIDE DEF y, g
<1>4. Body(y) /\ y.spare \in Nat \ {0}
  BY <1>1, <1>2 DEF Sound, Body, HeadsInv, SlotsInv, CutsInv
<1>5. Cardinality(Tree(y.home) \cup {g}) = Cardinality(Tree(w.home)) + 1
      /\ Cardinality(Tree(w.home)) \in Nat
  BY <1>1, <1>2, TreeFinite
<1>6. RoomFor(y, g)
  BY <1>1, <1>5, Sizes DEF RoomFor
<1>7. 0 \in DirtyIds(y, g) /\ g \in Groups
  BY <1>2 DEF DirtyIds, DirtyOf, g
<1>8. /\ Body(x) /\ Tree(x.home) = Tree(y.home) \cup {g} /\ x.spare = y.spare /\ Flushed(y, x, g)
  BY <1>4, <1>6, <1>7, CoverIs
<1> HIDE DEF x
<1>9. FlushSlot(w, s, force) = x
  BY <1>3, <1>8 DEF Flushed
<1>10. BlocksInv(x)
  BY <1>1, <1>2, <1>5, <1>8 DEF BlocksInv
<1>11. Flushed(w, x, g)
  BY <1>1, <1>2, <1>8 DEF Flushed, Tree, g
<1> QED
  BY <1>2, <1>8, <1>9, <1>10, <1>11 DEF Sound, g

-----------------------------------------------------------------------------
(* Flushing *)

NoneHeld(w) == \A i \in 1 .. Buffers : w.bufs[i].ref = 0
Holds(w, g, id) ==
  /\ \E i \in 1 .. Buffers : w.bufs[i].ref = 1
  /\ \A i \in 1 .. Buffers : w.bufs[i].ref = 1 => w.bufs[i].g = g /\ w.bufs[i].id = id
\* every page in a buffer was in one
Stems(w, x) ==
  \A k \in 1 .. Buffers : Bound(x.bufs[k]) =>
    \E i \in 1 .. Buffers : Bound(w.bufs[i]) /\ w.bufs[i].g = x.bufs[k].g /\ w.bufs[i].id = x.bufs[k].id
\* no page has become dirty
Drains(w, x) == \A g : DirtyIds(x, g) \in SUBSET DirtyIds(w, g)
\* the buffers in use by the caller are those of before
SameHeld(w, x) == /\ NoneHeld(w) => NoneHeld(x)
                  /\ \A g, id : Holds(w, g, id) => Holds(x, g, id)
                  /\ Stems(w, x) /\ Drains(w, x)
\* the blocks are where they were, or moved with their group
SameTree(w, x) == Tree(x.home) = Tree(w.home) /\ x.spare = w.spare

\* A page is dirty when a buffer says so.
LEMMA DirtyIdsAre ==
  ASSUME NEW w, Ends(w.bufs), NEW g, NEW id
  PROVE  id \in DirtyIds(w, g) <=> \E i \in 1 .. Buffers : /\ w.bufs[i].mark = "dirty"
                                                          /\ w.bufs[i].g = g /\ w.bufs[i].id = id
<1>1. DOMAIN w.bufs = 1 .. Buffers
  BY LenProperties DEF Ends
<1> QED
  BY <1>1 DEF DirtyIds, DirtyOf

\* There are as many dirty buffers as dirty pages.
LEMMA DirtyCard ==
  ASSUME NEW w, Ends(w.bufs), NEW g
  PROVE  /\ Cardinality(DirtyOf(w, g)) = Cardinality(DirtyIds(w, g))
         /\ IsFiniteSet(DirtyIds(w, g)) /\ Cardinality(DirtyIds(w, g)) \in Nat
<1> DEFINE S == DirtyOf(w, g)
           T == DirtyIds(w, g)
           f == [i \in S |-> w.bufs[i].id]
<1>1. DOMAIN w.bufs = 1 .. Buffers /\ Single(w.bufs)
  BY LenProperties DEF Ends
<1>2. S \in SUBSET (1 .. Buffers) /\ \A i \in S : Bound(w.bufs[i]) /\ w.bufs[i].g = g
  BY <1>1 DEF DirtyOf, Bound
<1>3. T = {w.bufs[i].id : i \in S}
  BY DEF DirtyIds
<1>4. IsFiniteSet(S)
  BY <1>2, IdsFinite, FS_Subset
<1> HIDE DEF S, T
<1>5. f \in [S -> T] /\ \A t \in T : \E i \in S : f[i] = t
  BY <1>3
<1>6. \A i, j \in S : f[i] = f[j] => i = j
  BY <1>1, <1>2 DEF Single
<1> HIDE DEF f
<1>7. f \in Bijection(S, T)
  BY <1>5, <1>6, Fun_IsBij
<1>8. Cardinality(T) = Cardinality(S) /\ IsFiniteSet(T)
  BY <1>4, <1>7, FS_Bijection DEF ExistsBijection
<1> QED
  BY <1>8, FS_CardinalityType DEF S, T

\* A group whose slot was freed has no dirty page.
LEMMA NoSlotNoDirt ==
  ASSUME NEW w, Ends(w.bufs), SlotsInv(w), NEW g, \A t \in 1 .. Slots : w.slots[t] # g
  PROVE  DirtyIds(w, g) = {}
<1> SUFFICES ASSUME NEW id \in DirtyIds(w, g) PROVE FALSE
  OBVIOUS
<1>1. PICK i \in 1 .. Buffers : w.bufs[i].mark = "dirty" /\ w.bufs[i].g = g
  BY DirtyIdsAre
<1> QED
  BY <1>1 DEF SlotsInv

\* every group has fewer dirty pages than dirty_buf_max
Lean(w) == \A g \in Groups : Cardinality(DirtyIds(w, g)) < DirtyMax
LEMMA LeanStays ==
  ASSUME NEW w, Ends(w.bufs), Lean(w), NEW x, Drains(w, x)
  PROVE  Lean(x)
<1> SUFFICES ASSUME NEW g \in Groups PROVE Cardinality(DirtyIds(x, g)) < DirtyMax
  BY DEF Lean
<1>1. DirtyIds(x, g) \in SUBSET DirtyIds(w, g)
  BY DEF Drains
<1>2. IsFiniteSet(DirtyIds(w, g)) /\ Cardinality(DirtyIds(w, g)) \in Nat
  BY DirtyCard
<1>3. /\ Cardinality(DirtyIds(x, g)) \in Nat
      /\ Cardinality(DirtyIds(x, g)) <= Cardinality(DirtyIds(w, g))
  BY <1>1, <1>2, FS_Subset, FS_CardinalityType
<1>4. DirtyMax \in Int /\ Cardinality(DirtyIds(w, g)) < DirtyMax
  BY SizesAssumption DEF Lean
<1> QED
  BY <1>2, <1>3, <1>4

\* The same buffers are as lean.
LEMMA LeanSame ==
  ASSUME NEW w, Ends(w.bufs), Lean(w), NEW x, x.bufs = w.bufs
  PROVE  Lean(x)
BY LeanStays DEF Drains, DirtyIds, DirtyOf

\* A buffer that is dirty afterwards was the same one before.
LEMMA DirtyOnly ==
  ASSUME NEW w, Ends(w.bufs), NEW x, Ends(x.bufs),
         \A i \in 1 .. Buffers : x.bufs[i].mark = "dirty" => x.bufs[i] = w.bufs[i]
  PROVE  Drains(w, x)
<1> SUFFICES ASSUME NEW g, NEW id \in DirtyIds(x, g) PROVE id \in DirtyIds(w, g)
  BY DEF Drains
<1>1. PICK i \in 1 .. Buffers : x.bufs[i].mark = "dirty" /\ x.bufs[i].g = g /\ x.bufs[i].id = id
  BY DirtyIdsAre
<1>2. w.bufs[i].mark = "dirty" /\ w.bufs[i].g = g /\ w.bufs[i].id = id
  BY <1>1
<1> QED
  BY <1>2, DirtyIdsAre

LEMMA KeptHeld ==
  ASSUME NEW w \in Work, Ends(w.bufs), NEW x, Ends(x.bufs), NEW g, Kept(w.bufs, x.bufs, g)
  PROVE  SameHeld(w, x)
<1>1. \A i \in 1 .. Buffers : w.bufs[i] \in Buffer /\ w.bufs[i].ref \in {0, 1}
  BY BufAt DEF Buffer
<1>2. ASSUME NEW i \in 1 .. Buffers, x.bufs[i].ref # 0
      PROVE  \E j \in 1 .. Buffers : /\ w.bufs[j].ref = x.bufs[i].ref
                                     /\ w.bufs[j].g = x.bufs[i].g /\ w.bufs[j].id = x.bufs[i].id
  <2>1. x.bufs[i] # SpareBuf
    BY <1>2 DEF SpareBuf
  <2>2. PICK j \in 1 .. Buffers : x.bufs[i] = CleanBuf(w.bufs[j], g)
    BY <2>1 DEF Kept
  <2> QED
    BY <1>1, <2>2, CleanType
<1>3. ASSUME NEW j \in 1 .. Buffers, w.bufs[j].ref = 1
      PROVE  \E i \in 1 .. Buffers : x.bufs[i].ref = 1
  <2>1. PICK i \in 1 .. Buffers : x.bufs[i] = CleanBuf(w.bufs[j], g)
    BY <1>3 DEF Kept, Used
  <2> QED
    BY <1>1, <1>3, <2>1, CleanType
<1>4. NoneHeld(w) => NoneHeld(x)
  BY <1>1, <1>2 DEF NoneHeld
<1>5. ASSUME NEW h, NEW id, Holds(w, h, id) PROVE Holds(x, h, id)
  <2>1. \E i \in 1 .. Buffers : x.bufs[i].ref = 1
    BY <1>3, <1>5 DEF Holds
  <2>2. ASSUME NEW i \in 1 .. Buffers, x.bufs[i].ref = 1 PROVE x.bufs[i].g = h /\ x.bufs[i].id = id
    BY <1>2, <1>5, <2>2 DEF Holds
  <2> QED
    BY <2>1, <2>2 DEF Holds
<1>6. ASSUME NEW k \in 1 .. Buffers, Bound(x.bufs[k])
      PROVE  \E i \in 1 .. Buffers : /\ Bound(w.bufs[i]) /\ w.bufs[i].g = x.bufs[k].g
                                     /\ w.bufs[i].id = x.bufs[k].id
  <2>1. x.bufs[k] # SpareBuf
    BY <1>6 DEF SpareBuf, Bound
  <2>2. PICK i \in 1 .. Buffers : x.bufs[k] = CleanBuf(w.bufs[i], g)
    BY <2>1 DEF Kept
  <2>3. PICK b \in Buffer : b = w.bufs[i]
    BY <1>1
  <2>4. PICK c : c = CleanBuf(b, g)
    OBVIOUS
  <2>5. /\ c.g = b.g /\ c.id = b.id /\ c.ref = b.ref
        /\ c.mark = IF b.mark = "dirty" /\ b.g = g THEN "valid" ELSE b.mark
    BY <2>4, CleanType
  <2>6. Bound(c) => Bound(b)
    BY <2>5 DEF Bound
  <2> QED
    BY <1>6, <2>2, <2>3, <2>4, <2>5, <2>6
<1>7. Stems(w, x)
  BY <1>6 DEF Stems
<1>8. Drains(w, x)
  <2> SUFFICES ASSUME NEW h, NEW id \in DirtyIds(x, h) PROVE id \in DirtyIds(w, h)
    BY DEF Drains
  <2>1. PICK k \in 1 .. Buffers : x.bufs[k].mark = "dirty" /\ x.bufs[k].g = h /\ x.bufs[k].id = id
    BY DirtyIdsAre
  <2>2. x.bufs[k] # SpareBuf
    BY <2>1 DEF SpareBuf
  <2>3. PICK i \in 1 .. Buffers : x.bufs[k] = CleanBuf(w.bufs[i], g)
    BY <2>2 DEF Kept
  <2>4. /\ w.bufs[i].g = h /\ w.bufs[i].id = id /\ w.bufs[i].mark = "dirty"
    BY <1>1, <2>1, <2>3, CleanType
  <2> QED
    BY <2>4, DirtyIdsAre
<1> QED
  BY <1>4, <1>5, <1>7, <1>8 DEF SameHeld

\* A change of what a step answers changes nothing else.
LEMMA AnswerIs ==
  ASSUME NEW w, Sound(w), NEW ret \in Answers
  PROVE  LET x == [w EXCEPT !.ret = ret]
         IN /\ Sound(x) /\ x.ret = ret /\ x.home = w.home /\ x.spare = w.spare
            /\ x.bufs = w.bufs /\ x.slots = w.slots /\ x.cuts = w.cuts
            /\ SameHeld(w, x) /\ SameTree(w, x) /\ (AtHome(w) => AtHome(x))
<1> DEFINE x == [w EXCEPT !.ret = ret]
<1>1. w \in Work
  BY DEF Sound, Body
<1>2. /\ x \in Work /\ x.ret = ret /\ x.home = w.home /\ x.spare = w.spare
      /\ x.bufs = w.bufs /\ x.slots = w.slots /\ x.cuts = w.cuts
  BY <1>1 DEF Work
<1> HIDE DEF x
<1>3. Sound(x)
  BY <1>2 DEF Sound, Body, HeadsInv, BlocksInv, SlotsInv, CutsInv
<1>4. SameHeld(w, x) /\ SameTree(w, x) /\ (AtHome(w) => AtHome(x))
  BY <1>2 DEF SameHeld, NoneHeld, Holds, SameTree, AtHome, Stems, Drains, DirtyIds, DirtyOf
<1> QED
  BY <1>2, <1>3, <1>4 DEF x

\* _BufFlush of a slot whose group has a block.
LEMMA FlushSlotIs ==
  ASSUME NEW w, Sound(w), AtHome(w), NEW s \in 1 .. Slots, NEW force
  PROVE  LET x == FlushSlot(w, s, force)
         IN /\ Sound(x) /\ AtHome(x) /\ x.ret = "ok" /\ SameHeld(w, x) /\ SameTree(w, x)
            /\ x.slots[s] = None
            /\ \A t \in 1 .. Slots : x.slots[t] \in {w.slots[t], None}
            /\ w.slots[s] # None => Flushed(w, x, w.slots[s])
<1> DEFINE x == FlushSlot(w, s, force)
           g == w.slots[s]
<1>1. w \in Work /\ Ends(w.bufs) /\ w.slots \in [1 .. Slots -> Groups \cup {None}]
  BY DEF Sound, Body, Work
<1>2. CASE g = None
  <2>1. x = [w EXCEPT !.ret = "ok"]
    BY <1>2 DEF FlushSlot
  <2>2. "ok" \in Answers
    BY DEF Answers
  <2>3. PICK y : y = [w EXCEPT !.ret = "ok"]
    OBVIOUS
  <2>4. /\ Sound(y) /\ AtHome(y) /\ y.ret = "ok" /\ y.slots = w.slots
        /\ SameHeld(w, y) /\ SameTree(w, y)
    BY <2>2, <2>3, AnswerIs
  <2> QED
    BY <1>1, <1>2, <2>1, <2>3, <2>4
<1>3. CASE g # None
  <2>1. g \in Tree(w.home)
    BY <1>1, <1>3 DEF AtHome, Tree
  <2>2. Sound(x) /\ Flushed(w, x, g) /\ Tree(x.home) = Tree(w.home)
    BY <2>1, FlushHomeIs
  <2> HIDE DEF x
  <2>3. x.spare = w.spare /\ x.slots = Cleared(w.slots, g) /\ x.ret = "ok"
    BY <2>1, <2>2 DEF Flushed, Tree
  <2>4. \A t \in 1 .. Slots : x.slots[t] = IF w.slots[t] = g THEN None ELSE w.slots[t]
    BY <2>3 DEF Cleared
  <2>5. AtHome(x)
    <3> SUFFICES ASSUME NEW t \in 1 .. Slots, x.slots[t] # None
                 PROVE  x.home[x.slots[t]] # NoBlock
      BY DEF AtHome
    <3>1. x.slots[t] = w.slots[t] /\ w.slots[t] # g /\ w.slots[t] \in Groups
      BY <1>1, <2>4
    <3>2. x.home[w.slots[t]] = w.home[w.slots[t]]
      BY <2>2, <3>1 DEF Flushed
    <3> QED
      BY <3>1, <3>2 DEF AtHome
  <2>6. SameHeld(w, x)
    BY <1>1, <2>2, KeptHeld DEF Flushed, Sound, Body
  <2> QED
    BY <2>2, <2>3, <2>4, <2>5, <2>6 DEF SameTree, x
<1> QED
  BY <1>2, <1>3

LEMMA SlotsOfIs ==
  ASSUME NEW w \in Work, NEW g
  PROVE  /\ SlotsOf(w, g) \in SUBSET (1 .. Slots)
         /\ \A s \in 1 .. Slots : w.slots[s] = g <=> s \in SlotsOf(w, g)
         /\ SlotsOf(w, g) # {} => Min(SlotsOf(w, g)) \in SlotsOf(w, g)
<1>1. DOMAIN w.slots = 1 .. Slots
  BY DEF Work
<1>2. SlotsOf(w, g) \in SUBSET (1 .. Slots)
      /\ \A s \in 1 .. Slots : w.slots[s] = g <=> s \in SlotsOf(w, g)
  BY <1>1 DEF SlotsOf
<1>3. SlotsOf(w, g) \in SUBSET Nat
  BY <1>2
<1> QED
  BY <1>2, <1>3, LeastIs

\* uffs_BufFlushGroupEx of a group that is new or has a block.
LEMMA FlushGroupIs ==
  ASSUME NEW w, Sound(w), NEW g \in Groups, Ready(w, g), NEW force
  PROVE  LET x == FlushGroupEx(w, g, force)
         IN /\ Sound(x) /\ AtHome(x) /\ x.ret = "ok" /\ SameHeld(w, x)
            /\ Tree(w.home) \in SUBSET Tree(x.home)
            /\ AtHome(w) => SameTree(w, x)
            /\ \A t \in 1 .. Slots : x.slots[t] \in {w.slots[t], None} \ {g}
<1> DEFINE x == FlushGroupEx(w, g, force)
           s == Min(SlotsOf(w, g))
<1>1. w \in Work /\ Ends(w.bufs) /\ w.slots \in [1 .. Slots -> Groups \cup {None}] /\ g # None
  BY Sizes DEF Sound, Body, Work
<1>2. CASE SlotsOf(w, g) = {}
  <2>1. PICK y : y = [w EXCEPT !.ret = "ok"]
    OBVIOUS
  <2>2. "ok" \in Answers
    BY DEF Answers
  <2>3. \A t \in 1 .. Slots : w.slots[t] # g
    BY <1>1, <1>2, SlotsOfIs
  <2>4. AtHome(w)
    BY <1>1, <2>3 DEF Ready, AtHome
  <2>5. /\ Sound(y) /\ AtHome(y) /\ y.ret = "ok" /\ y.slots = w.slots
        /\ SameHeld(w, y) /\ SameTree(w, y)
    BY <2>1, <2>2, <2>4, AnswerIs
  <2>6. x = y
    BY <1>2, <2>1 DEF FlushGroupEx
  <2> QED
    BY <1>1, <2>3, <2>5, <2>6 DEF SameTree
<1>3. CASE SlotsOf(w, g) # {}
  <2>1. s \in 1 .. Slots /\ w.slots[s] = g
    BY <1>1, <1>3, SlotsOfIs
  <2>2. x = FlushSlot(w, s, force)
    BY <1>3 DEF FlushGroupEx
  <2> HIDE DEF x, s
  <2>3. /\ Sound(x) /\ Flushed(w, x, g) /\ Tree(w.home) \in SUBSET Tree(x.home)
        /\ w.home[g] # NoBlock => Tree(x.home) = Tree(w.home)
    <3>1. CASE w.home[g] # NoBlock
      <4>1. w.slots[s] \in Tree(w.home)
        BY <2>1, <3>1 DEF Tree
      <4> QED
        BY <2>1, <2>2, <4>1, FlushHomeIs
    <3>2. CASE w.home[g] = NoBlock
      <4>1. w.spare >= 2 /\ 0 \in DirtyIds(w, g)
        BY <1>1, <2>1, <3>2 DEF Ready
      <4> QED
        BY <2>1, <2>2, <3>2, <4>1, FlushNewIs
    <3> QED
      BY <3>1, <3>2
  <2>4. \A t \in 1 .. Slots : x.slots[t] = IF w.slots[t] = g THEN None ELSE w.slots[t]
    BY <2>3 DEF Flushed, Cleared
  <2>5. AtHome(x)
    BY <1>1, <2>3, <2>4 DEF AtHome, Ready, Flushed
  <2>6. SameHeld(w, x)
    BY <1>1, <2>3, KeptHeld DEF Flushed, Sound, Body
  <2>7. AtHome(w) => SameTree(w, x)
    BY <1>1, <2>1, <2>3 DEF AtHome, SameTree, Flushed
  <2>8. \A t \in 1 .. Slots : x.slots[t] \in {w.slots[t], None} \ {g}
    BY <1>1, <2>4
  <2> QED
    BY <2>3, <2>5, <2>6, <2>7, <2>8 DEF Flushed, x
<1> QED
  BY <1>2, <1>3

LEMMA DirtyCount ==
  ASSUME NEW w \in Work, Ends(w.bufs), NEW g
  PROVE  Cardinality(DirtyOf(w, g)) \in Nat /\ Cardinality(DirtyOf(w, g)) <= Buffers
<1>1. DirtyOf(w, g) \in SUBSET (1 .. Buffers) /\ IsFiniteSet(1 .. Buffers)
  BY BufAt, IdsFinite DEF DirtyOf
<1>2. Cardinality(1 .. Buffers) = Buffers
  BY Sizes, FS_Interval
<1> QED
  BY <1>1, <1>2, FS_Subset, FS_CardinalityType

\* one slot was flushed, or there was none
FlushedOne(w, x) == x = [w EXCEPT !.ret = "ok"] \/ \E s \in 1 .. Slots, force \in BOOLEAN : x = FlushSlot(w, s, force)
\* _FindMostDirtyGroup: when there is a dirty group, one is flushed.
LEMMA FlushMostIs ==
  ASSUME NEW w, Sound(w), AtHome(w), NEW x, x = FlushMostDirty(w)
  PROVE  /\ Sound(x) /\ AtHome(x) /\ x.ret = "ok" /\ SameHeld(w, x) /\ SameTree(w, x)
         /\ FlushedOne(w, x)
         /\ \A t \in 1 .. Slots : x.slots[t] \in {w.slots[t], None}
         /\ \/ \A t \in 1 .. Slots : w.slots[t] = None
            \/ \E s \in 1 .. Slots : w.slots[s] # None /\ x.slots[s] = None /\ Flushed(w, x, w.slots[s])
<1> DEFINE n(s) == Cardinality(DirtyOf(w, w.slots[s]))
           used == {s \in DOMAIN w.slots : w.slots[s] # None}
           most == {s \in used : \A t \in used : n(t) <= n(s)}
<1>1. /\ w \in Work /\ Ends(w.bufs) /\ DOMAIN w.slots = 1 .. Slots
  BY DEF Sound, Body, Work
<1>2. \A s : n(s) \in Nat /\ n(s) <= Buffers
  BY <1>1, DirtyCount
<1>3. used \in SUBSET (1 .. Slots) /\ \A s \in 1 .. Slots : w.slots[s] # None <=> s \in used
  BY <1>1
<1>4. x = IF used = {} THEN [w EXCEPT !.ret = "ok"] ELSE FlushSlot(w, Min(most), FALSE)
  BY DEF FlushMostDirty
<1> HIDE DEF used, n
<1>5. CASE used = {}
  <2>1. x = [w EXCEPT !.ret = "ok"] /\ "ok" \in Answers
    BY <1>4, <1>5 DEF Answers
  <2>2. /\ Sound(x) /\ AtHome(x) /\ x.ret = "ok" /\ x.slots = w.slots
        /\ SameHeld(w, x) /\ SameTree(w, x)
    BY <2>1, AnswerIs
  <2> QED
    BY <1>3, <1>5, <2>1, <2>2 DEF FlushedOne
<1>6. CASE used # {}
  <2>1. most # {}
    <3> DEFINE S == {n(s) : s \in used}
    <3>1. S \in SUBSET Nat /\ S # {} /\ \A i \in S : i <= Buffers
      BY <1>2, <1>6
    <3> HIDE DEF S
    <3>2. Max(S) \in S /\ \A j \in S : j <= Max(S)
      BY <3>1, Sizes, GreatestIs
    <3>3. PICK s \in used : Max(S) = n(s)
      BY <3>2 DEF S
    <3>4. \A t \in used : n(t) \in S
      BY DEF S
    <3>5. s \in most
      BY <3>2, <3>3, <3>4
    <3> QED
      BY <3>5
  <2>2. most \in SUBSET Nat /\ most \in SUBSET used
    BY <1>3
  <2> HIDE DEF most
  <2>3. PICK s : s = Min(most)
    OBVIOUS
  <2>4. s \in 1 .. Slots /\ w.slots[s] # None
    BY <1>3, <2>1, <2>2, <2>3, LeastIs
  <2>5. PICK force \in BOOLEAN : x = FlushSlot(w, s, force)
    BY <1>4, <1>6, <2>3
  <2>6. /\ Sound(x) /\ AtHome(x) /\ x.ret = "ok" /\ SameHeld(w, x) /\ SameTree(w, x)
        /\ x.slots[s] = None
        /\ \A t \in 1 .. Slots : x.slots[t] \in {w.slots[t], None}
        /\ Flushed(w, x, w.slots[s])
    BY <2>4, <2>5, FlushSlotIs
  <2> QED
    BY <2>4, <2>5, <2>6 DEF FlushedOne
<1> QED
  BY <1>5, <1>6

\* _FindFreeBuf never hands out the last buffer.
LEMMA FirstFree ==
  ASSUME NEW w \in Work, Ends(w.bufs), FindFreeBuf(w) # {}
  PROVE  /\ Min(FindFreeBuf(w)) \in 1 .. Buffers /\ Min(FindFreeBuf(w)) # Buffers
         /\ IsFree(w.bufs[Min(FindFreeBuf(w))])
<1>1. /\ FreeBufs(w) \in SUBSET (1 .. Buffers) /\ Buffers \in FreeBufs(w)
      /\ IsFiniteSet(FreeBufs(w)) /\ Cardinality(FreeBufs(w)) \in Nat
  BY LastIsFree
<1>2. FindFreeBuf(w) = FreeBufs(w) /\ Cardinality(FreeBufs(w)) > 1
  BY <1>1, Sizes DEF FindFreeBuf
<1>3. \A i \in FreeBufs(w) : IsFree(w.bufs[i])
  BY DEF FreeBufs
<1>4. PICK S : S = FreeBufs(w)
  OBVIOUS
<1>5. PICK j \in S : j # Buffers
  <2> SUFFICES ASSUME S = {Buffers} PROVE FALSE
    BY <1>1, <1>4
  <2>1. Cardinality({Buffers}) = 1
    BY FS_Singleton
  <2> QED
    BY <1>2, <1>4, <2>1
<1>6. Min(S) \in S /\ Min(S) <= j
  BY <1>1, <1>4, <1>5, LeastIs
<1>7. Min(S) # Buffers
  BY <1>1, <1>4, <1>5, <1>6, Sizes
<1> QED
  BY <1>1, <1>2, <1>3, <1>4, <1>6, <1>7

\* Two free buffers are enough for one to be found.
LEMMA TwoAreFree ==
  ASSUME NEW w \in Work, Ends(w.bufs), NEW k \in FreeBufs(w), k # Buffers
  PROVE  FindFreeBuf(w) # {}
<1>1. /\ Buffers \in FreeBufs(w) /\ IsFiniteSet(FreeBufs(w)) /\ Cardinality(FreeBufs(w)) \in Nat
  BY LastIsFree
<1>2. {k, Buffers} \in SUBSET FreeBufs(w)
  BY <1>1
<1>3. Cardinality({k, Buffers}) = 2
  <2>1. IsFiniteSet({Buffers}) /\ Cardinality({Buffers}) = 1
    BY FS_Singleton
  <2>2. {k, Buffers} = {Buffers} \cup {k} /\ k \notin {Buffers}
    OBVIOUS
  <2>3. Cardinality({Buffers} \cup {k}) = 1 + 1
    BY <2>1, <2>2, FS_AddElement
  <2> QED
    BY <2>2, <2>3
<1>4. Cardinality(FreeBufs(w)) >= 2
  <2>1. Cardinality({k, Buffers}) <= Cardinality(FreeBufs(w))
    BY <1>1, <1>2, FS_Subset
  <2> QED
    BY <1>1, <1>3, <2>1
<1> QED
  BY <1>1, <1>4, Sizes DEF FindFreeBuf

\* When no page is held, flushing the most dirty group makes room for one.
LEMMA RoomIs ==
  ASSUME NEW w, Sound(w), AtHome(w), NoneHeld(w), NEW x, x = WithRoom(w)
  PROVE  /\ Sound(x) /\ AtHome(x) /\ SameHeld(w, x) /\ NoneHeld(x) /\ SameTree(w, x)
         /\ FindFreeBuf(x) # {} /\ \A t \in 1 .. Slots : x.slots[t] \in {w.slots[t], None}
<1>1. /\ w \in Work /\ Ends(w.bufs) /\ SlotsInv(w)
      /\ \A i \in 1 .. Buffers : w.bufs[i] \in Buffer
  BY BufAt DEF Sound, Body
<1>2. CASE FindFreeBuf(w) # {}
  BY <1>2 DEF WithRoom, SameTree, SameHeld, Stems, Drains
<1>3. CASE FindFreeBuf(w) = {}
  <2>1. x = FlushMostDirty(w)
    BY <1>3 DEF WithRoom
  <2>2. /\ Sound(x) /\ AtHome(x) /\ SameHeld(w, x) /\ SameTree(w, x)
        /\ \A t \in 1 .. Slots : x.slots[t] \in {w.slots[t], None}
        /\ \/ \A t \in 1 .. Slots : w.slots[t] = None
           \/ \E s \in 1 .. Slots : w.slots[s] # None /\ Flushed(w, x, w.slots[s])
    BY <2>1, FlushMostIs
  <2>3. 1 \in 1 .. Buffers /\ 1 # Buffers /\ DOMAIN w.bufs = 1 .. Buffers
    BY <1>1, BufAt, Sizes
  <2>4. w.bufs[1].mark = "dirty"
    <3> SUFFICES ASSUME w.bufs[1].mark # "dirty" PROVE FALSE
      OBVIOUS
    <3>1. w.bufs[1].ref = 0
      BY <2>3 DEF NoneHeld
    <3>2. 1 \in FreeBufs(w)
      BY <2>3, <3>1 DEF FreeBufs, IsFree
    <3> QED
      BY <1>1, <1>3, <2>3, <3>2, TwoAreFree
  <2>5. \E s \in 1 .. Slots : w.slots[s] # None
    BY <1>1, <2>3, <2>4, Sizes DEF SlotsInv
  <2>6. PICK s \in 1 .. Slots : w.slots[s] # None /\ Flushed(w, x, w.slots[s])
    BY <2>2, <2>5
  <2>7. PICK i \in 1 .. Buffers : w.bufs[i].mark = "dirty" /\ w.bufs[i].g = w.slots[s]
    BY <1>1, <2>6 DEF SlotsInv
  <2>8. PICK k \in 1 .. Buffers : x.bufs[k] = CleanBuf(w.bufs[i], w.slots[s])
    BY <2>6, <2>7 DEF Flushed, Kept, Used
  <2>9. x.bufs[k].mark = "valid" /\ x.bufs[k].ref = 0
    BY <1>1, <2>7, <2>8, CleanType DEF NoneHeld
  <2>10. /\ x \in Work /\ Ends(x.bufs) /\ DOMAIN x.bufs = 1 .. Buffers
         /\ x.bufs[Buffers].mark = "empty"
    BY <2>2, BufAt DEF Sound, Body, Ends
  <2>11. k \in FreeBufs(x) /\ k # Buffers
    BY <2>9, <2>10 DEF FreeBufs, IsFree
  <2>12. FindFreeBuf(x) # {}
    BY <2>10, <2>11, TwoAreFree
  <2> QED
    BY <2>2, <2>12 DEF SameHeld
<1> QED
  BY <1>2, <1>3

\* x is w with some groups flushed, all of which have a block.
Flushes(w, x) ==
  /\ Sound(x) /\ AtHome(x) /\ x.ret = "ok" /\ SameHeld(w, x) /\ SameTree(w, x)
  /\ \A t \in 1 .. Slots : x.slots[t] \in {w.slots[t], None}

LEMMA FlushesTwice ==
  ASSUME NEW w, NEW x, NEW y, Flushes(w, x), Flushes(x, y)
  PROVE  Flushes(w, y)
<1>1. Stems(w, x) /\ Stems(x, y) /\ Drains(w, x) /\ Drains(x, y)
  BY DEF Flushes, SameHeld
<1>2. Stems(w, y) /\ Drains(w, y)
  BY <1>1 DEF Stems, Drains
<1> QED
  BY <1>2 DEF Flushes, SameHeld, SameTree

\* One step of uffs_BufFlushAll or uffs_BufFlushGroupMatchParent.
FlushStep(w, s, wanted) ==
  IF s \in DOMAIN w.slots /\ w.ret = "ok" /\ w.slots[s] \in wanted THEN FlushSlot(w, s, FALSE) ELSE w

LEMMA FlushStepIs ==
  ASSUME NEW w, Sound(w), AtHome(w), w.ret = "ok", NEW s, NEW wanted, NEW x, x = FlushStep(w, s, wanted)
  PROVE  /\ Flushes(w, x)
         /\ s \in 1 .. Slots /\ Groups \in SUBSET wanted => x.slots[s] = None
<1>1. w \in Work /\ DOMAIN w.slots = 1 .. Slots /\ w.slots \in [1 .. Slots -> Groups \cup {None}]
  BY DEF Sound, Body, Work
<1>2. CASE s \in 1 .. Slots /\ w.slots[s] \in wanted
  <2>1. PICK force : x = FlushSlot(w, s, force)
    BY <1>1, <1>2 DEF FlushStep
  <2>2. /\ Sound(x) /\ AtHome(x) /\ x.ret = "ok" /\ SameHeld(w, x) /\ SameTree(w, x)
        /\ x.slots[s] = None
        /\ \A t \in 1 .. Slots : x.slots[t] \in {w.slots[t], None}
    BY <1>2, <2>1, FlushSlotIs
  <2> QED
    BY <2>2 DEF Flushes
<1>3. CASE ~(s \in 1 .. Slots /\ w.slots[s] \in wanted)
  <2>1. x = w
    BY <1>1, <1>3 DEF FlushStep
  <2>2. Flushes(w, w)
    BY DEF Flushes, SameHeld, SameTree, Stems, Drains
  <2>3. s \in 1 .. Slots /\ Groups \in SUBSET wanted => w.slots[s] = None
    BY <1>1, <1>3
  <2> QED
    BY <2>1, <2>2, <2>3
<1> QED
  BY <1>2, <1>3

LEMMA FlushSlotsIs ==
  ASSUME NEW w, Sound(w), AtHome(w), NEW wanted, NEW x, x = FlushSlots(w, wanted)
  PROVE  /\ Flushes(w, x)
         /\ Groups \in SUBSET wanted => \A t \in 1 .. Slots : x.slots[t] = None
<1>1. PICK a : a = [w EXCEPT !.ret = "ok"]
  OBVIOUS
<1>2. PICK b : b = FlushStep(a, 1, wanted)
  OBVIOUS
<1>3. PICK c : c = FlushStep(b, 2, wanted)
  OBVIOUS
<1>4. x = FlushStep(c, 3, wanted)
  BY <1>1, <1>2, <1>3 DEF FlushSlots, FlushStep
<1>5. Flushes(w, a)
  <2>1. "ok" \in Answers
    BY DEF Answers
  <2>2. /\ Sound(a) /\ AtHome(a) /\ a.ret = "ok" /\ a.slots = w.slots
        /\ SameHeld(w, a) /\ SameTree(w, a)
    BY <1>1, <2>1, AnswerIs
  <2> QED
    BY <2>2 DEF Flushes
<1>6. Flushes(a, b) /\ (1 \in 1 .. Slots /\ Groups \in SUBSET wanted => b.slots[1] = None)
  BY <1>2, <1>5, FlushStepIs DEF Flushes
<1>7. Flushes(b, c) /\ (2 \in 1 .. Slots /\ Groups \in SUBSET wanted => c.slots[2] = None)
  BY <1>3, <1>6, FlushStepIs DEF Flushes
<1>8. Flushes(c, x) /\ (3 \in 1 .. Slots /\ Groups \in SUBSET wanted => x.slots[3] = None)
  BY <1>4, <1>7, FlushStepIs DEF Flushes
<1>9. Flushes(w, x)
  BY <1>5, <1>6, <1>7, <1>8, FlushesTwice
<1>10. ASSUME Groups \in SUBSET wanted, NEW t \in 1 .. Slots PROVE x.slots[t] = None
  <2>1. t \in {1, 2, 3}
    BY Sizes
  <2>2. CASE t = 1
    BY <1>6, <1>7, <1>8, <1>10, <2>2 DEF Flushes
  <2>3. CASE t = 2
    BY <1>7, <1>8, <1>10, <2>3 DEF Flushes
  <2>4. CASE t = 3
    BY <1>8, <1>10, <2>4
  <2> QED
    BY <2>1, <2>2, <2>3, <2>4
<1> QED
  BY <1>9, <1>10

\* uffs_FlushObject.
LEMMA FlushFileIs ==
  ASSUME NEW w, Sound(w), AtHome(w), NEW f \in Files, NEW x, x = FlushFile(w, f)
  PROVE  Flushes(w, x)
<1>1. PICK wanted : wanted = {f} \X (1 .. MaxFdn)
  OBVIOUS
<1>2. PICK y : y = FlushSlots(w, wanted)
  OBVIOUS
<1>3. Flushes(w, y)
  BY <1>2, FlushSlotsIs
<1>4. PICK g : g = <<f, 0>>
  OBVIOUS
<1>5. g \in Groups
  BY <1>4, Sizes DEF Groups
<1>6. PICK force : x = FlushGroupEx(y, g, force)
  BY <1>1, <1>2, <1>3, <1>4 DEF FlushFile, FlushGroup, Flushes
<1>7. Ready(y, g)
  BY <1>3 DEF Flushes, AtHome, Ready
<1>8. /\ Sound(x) /\ AtHome(x) /\ x.ret = "ok" /\ SameHeld(y, x)
      /\ AtHome(y) => SameTree(y, x)
      /\ \A t \in 1 .. Slots : x.slots[t] \in {y.slots[t], None} \ {g}
  BY <1>3, <1>5, <1>6, <1>7, FlushGroupIs DEF Flushes
<1>9. Flushes(y, x)
  BY <1>3, <1>8 DEF Flushes
<1> QED
  BY <1>3, <1>9, FlushesTwice

-----------------------------------------------------------------------------
(* Getting a buffer *)

\* c is b in another order, but that the buffer at k stands for the one at i.
Replaced(c, k, b, i) ==
  /\ c \in Seq(Buffer) /\ Len(c) = Buffers /\ c[Buffers] = b[Buffers]
  /\ k \in 1 .. Buffers /\ k # Buffers /\ i \in 1 .. Buffers
  /\ \A m \in 1 .. Buffers : m # k => \E j \in 1 .. Buffers : j # i /\ c[m] = b[j]
  /\ \A j \in 1 .. Buffers : j # i => \E m \in 1 .. Buffers : m # k /\ c[m] = b[j]
  /\ \A m, n \in 1 .. Buffers : m # n /\ m # k /\ n # k =>
       \E p, q \in 1 .. Buffers : p # q /\ c[m] = b[p] /\ c[n] = b[q]

LEMMA RemovedIs ==
  ASSUME NEW b \in Seq(Buffer), Len(b) = Buffers, NEW i \in 1 .. Buffers, NEW r, r = RemoveAt(b, i)
  PROVE  /\ r \in Seq(Buffer) /\ Len(r) = Buffers - 1
         /\ \A k \in 1 .. Buffers - 1 : r[k] = IF k < i THEN b[k] ELSE b[k + 1]
<1> DEFINE s == SubSeq(b, 1, i - 1)
           t == SubSeq(b, i + 1, Buffers)
<1>1. i \in Nat /\ i >= 1 /\ i <= Buffers /\ Buffers \in Nat /\ \A k \in 1 .. Buffers : b[k] \in Buffer
  BY Sizes, ElementOfSeq
<1>2. s \in Seq(Buffer) /\ Len(s) = i - 1 /\ \A k \in 1 .. i - 1 : s[k] = b[k]
  <2>1. \A k \in 1 .. i - 1 : b[k] \in Buffer
    BY <1>1
  <2>2. /\ s \in Seq(Buffer) /\ Len(s) = IF 1 <= i - 1 THEN i - 1 - 1 + 1 ELSE 0
        /\ \A k \in 1 .. i - 1 - 1 + 1 : s[k] = b[1 + k - 1]
    BY <1>1, <2>1, SubSeqProperties
  <2> HIDE DEF s
  <2>3. Len(s) = i - 1
    BY <1>1, <2>2
  <2>4. ASSUME NEW k \in 1 .. i - 1 PROVE s[k] = b[k]
    <3>1. k \in 1 .. i - 1 - 1 + 1 /\ 1 + k - 1 = k
      BY <1>1
    <3> QED
      BY <2>2, <3>1
  <2> QED
    BY <2>2, <2>3, <2>4
<1>3. t \in Seq(Buffer) /\ Len(t) = Buffers - i /\ \A k \in 1 .. Buffers - i : t[k] = b[i + k]
  <2>1. \A k \in i + 1 .. Buffers : b[k] \in Buffer
    BY <1>1
  <2>2. /\ t \in Seq(Buffer) /\ Len(t) = IF i + 1 <= Buffers THEN Buffers - (i + 1) + 1 ELSE 0
        /\ \A k \in 1 .. Buffers - (i + 1) + 1 : t[k] = b[i + 1 + k - 1]
    BY <1>1, <2>1, SubSeqProperties
  <2> HIDE DEF t
  <2>3. Len(t) = Buffers - i
    BY <1>1, <2>2
  <2>4. ASSUME NEW k \in 1 .. Buffers - i PROVE t[k] = b[i + k]
    <3>1. k \in 1 .. Buffers - (i + 1) + 1 /\ i + 1 + k - 1 = i + k
      BY <1>1
    <3> QED
      BY <2>2, <3>1
  <2> QED
    BY <2>2, <2>3, <2>4
<1>4. r = s \o t
  BY DEF RemoveAt
<1> HIDE DEF s, t
<1>5. PICK q : q = s \o t
  OBVIOUS
<1>6. /\ q \in Seq(Buffer) /\ Len(q) = Len(s) + Len(t)
      /\ \A k \in 1 .. Len(s) + Len(t) : q[k] = IF k <= Len(s) THEN s[k] ELSE t[k - Len(s)]
  BY <1>2, <1>3, <1>5, ConcatProperties
<1>7. Len(s) + Len(t) = Buffers - 1
  BY <1>1, <1>2, <1>3
<1>8. ASSUME NEW k \in 1 .. Buffers - 1 PROVE q[k] = IF k < i THEN b[k] ELSE b[k + 1]
  <2>1. q[k] = IF k <= i - 1 THEN s[k] ELSE t[k - (i - 1)]
    BY <1>2, <1>6, <1>7
  <2>2. CASE k < i
    <3>1. k \in 1 .. i - 1
      BY <1>1, <2>2
    <3> QED
      BY <1>1, <1>2, <2>1, <2>2, <3>1
  <2>3. CASE ~(k < i)
    <3>1. ~(k <= i - 1) /\ k - (i - 1) \in 1 .. Buffers - i /\ i + (k - (i - 1)) = k + 1
      BY <1>1, <2>3
    <3> QED
      BY <1>3, <2>1, <2>3, <3>1
  <2> QED
    BY <2>2, <2>3
<1>9. r = q
  BY <1>4, <1>5
<1> QED
  BY <1>6, <1>7, <1>8, <1>9

\* _MoveNodeToHead of a buffer that is not the last, and a change of it.
LEMMA ToHeadIs ==
  ASSUME NEW w \in Work, Ends(w.bufs), NEW i \in 1 .. Buffers, i # Buffers, NEW x, x = ToHead(w, i),
         NEW new \in Buffer, NEW e, e = [x.bufs EXCEPT ![1] = new]
  PROVE  /\ x \in Work /\ x = [w EXCEPT !.bufs = x.bufs]
         /\ 1 \in DOMAIN x.bufs /\ x.bufs[1] = w.bufs[i]
         /\ Replaced(e, 1, w.bufs, i)
<1> DEFINE b == w.bufs
           h == <<b[i]>>
<1>1. b \in Seq(Buffer) /\ Len(b) = Buffers /\ Buffers >= 2 /\ Buffers \in Nat /\ b[i] \in Buffer
  BY Sizes, BufAt DEF Ends
<1>2. PICK r : r = RemoveAt(b, i)
  OBVIOUS
<1>3. PICK d : d = h \o r
  OBVIOUS
<1>4. x = [w EXCEPT !.bufs = d]
  BY <1>2, <1>3 DEF ToHead
<1> HIDE DEF b
<1>5. /\ r \in Seq(Buffer) /\ Len(r) = Buffers - 1
      /\ \A k \in 1 .. Buffers - 1 : r[k] = IF k < i THEN b[k] ELSE b[k + 1]
  BY <1>1, <1>2, RemovedIs
<1>6. h \in Seq(Buffer) /\ Len(h) = 1 /\ h[1] = b[i]
  BY <1>1
<1> HIDE DEF h
<1>7. /\ d \in Seq(Buffer) /\ Len(d) = Len(h) + Len(r)
      /\ \A k \in 1 .. Len(h) + Len(r) : d[k] = IF k <= Len(h) THEN h[k] ELSE r[k - Len(h)]
  <2>1. h \in Seq(Buffer) /\ r \in Seq(Buffer)
    BY <1>5, <1>6
  <2>2. /\ h \o r \in Seq(Buffer) /\ Len(h \o r) = Len(h) + Len(r)
        /\ \A k \in 1 .. Len(h) + Len(r) :
             (h \o r)[k] = IF k <= Len(h) THEN h[k] ELSE r[k - Len(h)]
    BY <2>1, ConcatProperties
  <2> QED
    BY <1>3, <2>2
<1>8. Len(h) + Len(r) = Buffers
  BY <1>1, <1>5, <1>6
<1>9. d[1] = b[i]
  <2>1. 1 \in 1 .. Len(h) + Len(r) /\ 1 <= Len(h)
    BY <1>1, <1>6, <1>8
  <2>2. d[1] = h[1]
    BY <1>7, <2>1
  <2> QED
    BY <1>6, <2>2
<1>10. ASSUME NEW k \in 1 .. Buffers, k # 1 PROVE d[k] = IF k <= i THEN b[k - 1] ELSE b[k]
  <2>1. d[k] = r[k - 1]
    <3>1. ~(k <= 1)
      BY <1>10
    <3> QED
      BY <1>6, <1>7, <1>8, <3>1
  <2>2. k - 1 \in 1 .. Buffers - 1 /\ (k - 1 < i <=> k <= i) /\ k - 1 + 1 = k
    BY <1>1, <1>10
  <2> QED
    BY <1>5, <2>1, <2>2
<1>11. DOMAIN d = 1 .. Buffers /\ \A k \in 1 .. Buffers : d[k] \in Buffer
  BY <1>7, <1>8, LenProperties, ElementOfSeq
<1>12. e \in [1 .. Buffers -> Buffer] /\ \A k \in 1 .. Buffers : k # 1 => e[k] = d[k]
  <2>1. e = [d EXCEPT ![1] = new]
    BY <1>4 DEF Work
  <2>2. d \in [1 .. Buffers -> Buffer]
    BY <1>7, <1>8, LenProperties
  <2> QED
    BY <2>1, <2>2
<1>13. e \in Seq(Buffer) /\ Len(e) = Buffers
  <2>1. PICK a \in [1 .. Buffers -> Buffer] : a = e
    BY <1>12
  <2>2. a \in Seq(Buffer) /\ Len(a) = Buffers
    BY Sizes, FunctionIsSeq
  <2> QED
    BY <2>1, <2>2
<1>14. e[Buffers] = b[Buffers]
  <2>1. Buffers \in 1 .. Buffers /\ Buffers # 1 /\ ~(Buffers <= i)
    BY <1>1
  <2> QED
    BY <1>10, <1>12, <2>1
<1>15. ASSUME NEW m \in 1 .. Buffers, m # 1 PROVE \E j \in 1 .. Buffers : j # i /\ e[m] = b[j]
  <2>1. CASE m <= i
    <3>1. m - 1 \in 1 .. Buffers /\ m - 1 # i
      BY <1>1, <1>15, <2>1
    <3> QED
      BY <1>10, <1>12, <1>15, <2>1, <3>1
  <2>2. CASE ~(m <= i)
    <3>1. m # i
      BY <1>1, <2>2
    <3> QED
      BY <1>10, <1>12, <1>15, <2>2, <3>1
  <2> QED
    BY <2>1, <2>2
<1>16. ASSUME NEW j \in 1 .. Buffers, j # i PROVE \E m \in 1 .. Buffers : m # 1 /\ e[m] = b[j]
  <2>1. CASE j < i
    <3>1. j + 1 \in 1 .. Buffers /\ j + 1 # 1 /\ j + 1 <= i /\ j + 1 - 1 = j
      BY <1>1, <2>1
    <3> QED
      BY <1>10, <1>12, <3>1
  <2>2. CASE ~(j < i)
    <3>1. j # 1 /\ ~(j <= i)
      BY <1>1, <1>16, <2>2
    <3> QED
      BY <1>10, <1>12, <3>1
  <2> QED
    BY <2>1, <2>2
<1>20. ASSUME NEW m \in 1 .. Buffers, NEW n \in 1 .. Buffers, m # n, m # 1, n # 1
       PROVE  \E p, q \in 1 .. Buffers : p # q /\ e[m] = b[p] /\ e[n] = b[q]
  <2> DEFINE Was(l) == IF l <= i THEN l - 1 ELSE l
  <2>1. Was(m) \in 1 .. Buffers /\ Was(n) \in 1 .. Buffers /\ Was(m) # Was(n)
    <3>1. m \in Int /\ n \in Int /\ m > 1 /\ n > 1 /\ m <= Buffers /\ n <= Buffers /\ i \in Int
      BY <1>1, <1>20
    <3>2. i >= 1 /\ i < Buffers
      BY <1>1
    <3>3. Was(m) # Was(n)
      BY <1>20, <3>1
    <3> QED
      BY <1>1, <1>20, <3>1, <3>2, <3>3
  <2>2. e[m] = b[Was(m)] /\ e[n] = b[Was(n)]
    BY <1>10, <1>12, <1>20
  <2> QED
    BY <2>1, <2>2
<1>17. Replaced(e, 1, b, i)
  <2>1. 1 \in 1 .. Buffers /\ 1 # Buffers
    BY <1>1
  <2> QED
    BY <1>13, <1>14, <1>15, <1>16, <1>20, <2>1 DEF Replaced
<1>18. x \in Work /\ x.bufs = d
  BY <1>4, <1>7 DEF Work
<1>19. 1 \in DOMAIN d
  BY <1>1, <1>11
<1> QED
  BY <1>4, <1>9, <1>17, <1>18, <1>19 DEF b

\* What was old is handed out for page id of g: it is dirty if the old one was, and
\* then for the same group.
Handing(old, new, g, id) ==
  /\ new.ref = 1 /\ new.g = g /\ new.id = id
  /\ new.mark = "dirty" => old.mark = "dirty"
  /\ old.mark = "dirty" => new.mark = "dirty" /\ old.g = g /\ old.id = id

WithBufs(w, c) == [w EXCEPT !.bufs = c, !.ret = "ok"]
\* no other buffer than i has page id of g
Alone(b, i, g, id) ==
  \A j \in 1 .. Buffers : j # i /\ Bound(b[j]) => b[j].g # g \/ b[j].id # id
HandedOut(c, k, b, i, g, id) ==
  Replaced(c, k, b, i) /\ Handing(b[i], c[k], g, id) /\ Alone(b, i, g, id)

\* x is w with a buffer for page id of g in hand.
Got(w, x, g, id) ==
  Sound(x) /\ AtHome(x) /\ Holds(x, g, id) /\ x.ret = "ok" /\ SameTree(w, x) /\ Drains(w, x)

LEMMA HandedIs ==
  ASSUME NEW w, Sound(w), AtHome(w), NoneHeld(w), NEW c, NEW k, NEW i, NEW g, NEW id,
         HandedOut(c, k, w.bufs, i, g, id), NEW x, x = WithBufs(w, c)
  PROVE  Got(w, x, g, id)
<1>1. /\ w \in Work /\ Ends(w.bufs) /\ SlotsInv(w) /\ HeadsInv(w) /\ CutsInv(w) /\ BlocksInv(w)
      /\ c \in Seq(Buffer) /\ "ok" \in Answers
      /\ Replaced(c, k, w.bufs, i) /\ Handing(w.bufs[i], c[k], g, id)
  BY DEF Sound, Body, Replaced, Answers, HandedOut
<1>2. /\ x \in Work /\ x.home = w.home /\ x.spare = w.spare /\ x.bufs = c /\ x.slots = w.slots
      /\ x.ret = "ok" /\ x.cuts = w.cuts
  BY <1>1 DEF Work, WithBufs
<1>7. Single(c)
  <2> SUFFICES ASSUME NEW m \in 1 .. Buffers, NEW n \in 1 .. Buffers, m # n,
                      Bound(c[m]), Bound(c[n])
               PROVE  c[m].g # c[n].g \/ c[m].id # c[n].id
    BY DEF Single
  <2>1. ASSUME NEW l \in 1 .. Buffers, l # k, Bound(c[l])
        PROVE  c[l].g # c[k].g \/ c[l].id # c[k].id
    <3>1. PICK j \in 1 .. Buffers : j # i /\ c[l] = w.bufs[j]
      BY <1>1, <2>1 DEF Replaced
    <3>2. c[k].g = g /\ c[k].id = id
      BY <1>1 DEF Handing
    <3> QED
      BY <2>1, <3>1, <3>2 DEF HandedOut, Alone
  <2>2. CASE m # k /\ n # k
    <3>1. PICK p, q \in 1 .. Buffers : p # q /\ c[m] = w.bufs[p] /\ c[n] = w.bufs[q]
      BY <1>1, <2>2 DEF Replaced
    <3> QED
      BY <1>1, <3>1 DEF Ends, Single
  <2> QED
    BY <2>1, <2>2
<1>3. Ends(x.bufs)
  BY <1>1, <1>2, <1>7, Sizes DEF Ends, Replaced
<1>4. SlotsInv(x)
  <2>1. ASSUME NEW m \in 1 .. Buffers, c[m].mark = "dirty"
        PROVE  \E j \in 1 .. Buffers : w.bufs[j].mark = "dirty" /\ w.bufs[j].g = c[m].g
    <3>1. CASE m = k
      BY <1>1, <2>1, <3>1 DEF Replaced, Handing
    <3>2. CASE m # k
      <4>1. PICK j \in 1 .. Buffers : c[m] = w.bufs[j]
        BY <1>1, <3>2 DEF Replaced
      <4> QED
        BY <2>1, <4>1
    <3> QED
      BY <3>1, <3>2
  <2>2. ASSUME NEW j \in 1 .. Buffers, w.bufs[j].mark = "dirty"
        PROVE  \E m \in 1 .. Buffers : c[m].mark = "dirty" /\ c[m].g = w.bufs[j].g
    <3>1. CASE j = i
      BY <1>1, <2>2, <3>1 DEF Replaced, Handing
    <3>2. CASE j # i
      <4>1. PICK m \in 1 .. Buffers : c[m] = w.bufs[j]
        BY <1>1, <3>2 DEF Replaced
      <4> QED
        BY <2>2, <4>1
    <3> QED
      BY <3>1, <3>2
  <2>3. ASSUME NEW m \in 1 .. Buffers, x.bufs[m].mark = "dirty"
        PROVE  x.bufs[m].g \in Groups /\ \E s \in 1 .. Slots : x.slots[s] = x.bufs[m].g
    <3>1. PICK j \in 1 .. Buffers : w.bufs[j].mark = "dirty" /\ w.bufs[j].g = x.bufs[m].g
      BY <1>2, <2>1, <2>3
    <3> QED
      BY <1>1, <1>2, <3>1 DEF SlotsInv
  <2>4. ASSUME NEW s \in 1 .. Slots, x.slots[s] # None
        PROVE  \E m \in 1 .. Buffers : x.bufs[m].mark = "dirty" /\ x.bufs[m].g = x.slots[s]
    <3>1. PICK j \in 1 .. Buffers : w.bufs[j].mark = "dirty" /\ w.bufs[j].g = x.slots[s]
      BY <1>1, <1>2, <2>4 DEF SlotsInv
    <3> QED
      BY <1>2, <2>2, <3>1
  <2>5. \A s, t \in 1 .. Slots : x.slots[s] = x.slots[t] /\ x.slots[s] # None => s = t
    BY <1>1, <1>2 DEF SlotsInv
  <2> QED
    BY <2>3, <2>4, <2>5 DEF SlotsInv
<1>5. Holds(x, g, id)
  <2>1. ASSUME NEW m \in 1 .. Buffers, c[m].ref = 1 PROVE m = k
    <3> SUFFICES ASSUME m # k PROVE FALSE
      OBVIOUS
    <3>1. PICK j \in 1 .. Buffers : c[m] = w.bufs[j]
      BY <1>1 DEF Replaced
    <3>2. w.bufs[j].ref = 0
      BY DEF NoneHeld
    <3> QED
      BY <2>1, <3>1, <3>2
  <2>2. k \in 1 .. Buffers
    BY <1>1 DEF Replaced
  <2> QED
    BY <1>1, <1>2, <2>1, <2>2 DEF Holds, Handing
<1>6. Sound(x)
  BY <1>1, <1>2, <1>3, <1>4 DEF Sound, Body, HeadsInv, CutsInv, BlocksInv
<1>8. Drains(w, x)
  <2> SUFFICES ASSUME NEW h, NEW e \in DirtyIds(x, h) PROVE e \in DirtyIds(w, h)
    BY DEF Drains
  <2>1. PICK m \in 1 .. Buffers : c[m].mark = "dirty" /\ c[m].g = h /\ c[m].id = e
    BY <1>2, <1>3, DirtyIdsAre
  <2>2. PICK j \in 1 .. Buffers : w.bufs[j].mark = "dirty" /\ w.bufs[j].g = h /\ w.bufs[j].id = e
    <3>1. CASE m = k
      <4>1. c[k].g = g /\ c[k].id = id /\ w.bufs[i].mark = "dirty" /\ i \in 1 .. Buffers
        BY <1>1, <2>1, <3>1 DEF Handing, Replaced
      <4>2. w.bufs[i].g = g /\ w.bufs[i].id = id
        BY <1>1, <4>1 DEF Handing
      <4> QED
        BY <2>1, <3>1, <4>1, <4>2
    <3>2. CASE m # k
      <4>1. PICK j \in 1 .. Buffers : c[m] = w.bufs[j]
        BY <1>1, <3>2 DEF Replaced
      <4> QED
        BY <2>1, <4>1
    <3> QED
      BY <3>1, <3>2
  <2> QED
    BY <1>1, <2>2, DirtyIdsAre
<1> QED
  BY <1>2, <1>5, <1>6, <1>8 DEF AtHome, SameTree, Got

\* A page that is in a buffer is found, and not in the last one.
LEMMA HitIs ==
  ASSUME NEW w \in Work, Ends(w.bufs), NEW g, NEW id, BufFind(w, g, id) # {},
         NEW i, i = Min(BufFind(w, g, id))
  PROVE  /\ i \in 1 .. Buffers /\ i # Buffers /\ w.bufs[i] \in Buffer
         /\ w.bufs[i].g = g /\ w.bufs[i].id = id /\ w.bufs[i].mark # "empty"
         /\ Alone(w.bufs, i, g, id)
<1>1. DOMAIN w.bufs = 1 .. Buffers /\ \A j \in 1 .. Buffers : w.bufs[j] \in Buffer
  BY BufAt
<1>2. BufFind(w, g, id) \in SUBSET Nat
  BY <1>1, Sizes DEF BufFind
<1>3. i \in BufFind(w, g, id)
  BY <1>2, LeastIs
<1>4. w.bufs[i].g = g /\ w.bufs[i].id = id /\ w.bufs[i].mark # "empty" /\ i \in 1 .. Buffers
  BY <1>1, <1>3 DEF BufFind
<1>5. Alone(w.bufs, i, g, id)
  <2>1. Bound(w.bufs[i]) /\ Single(w.bufs)
    BY <1>4 DEF Bound, Ends
  <2> QED
    BY <1>4, <2>1 DEF Single, Alone
<1> QED
  BY <1>1, <1>3, <1>5 DEF BufFind, Ends

\* A page that is in no buffer when room is made is in none afterwards.
LEMMA MissIs ==
  ASSUME NEW w \in Work, Ends(w.bufs), NoneHeld(w), NEW g, NEW id, BufFind(w, g, id) = {},
         NEW u, Stems(w, u), NEW i
  PROVE  Alone(u.bufs, i, g, id)
<1> SUFFICES ASSUME NEW j \in 1 .. Buffers, Bound(u.bufs[j]), u.bufs[j].g = g, u.bufs[j].id = id
             PROVE  FALSE
  BY DEF Alone
<1>1. PICK k \in 1 .. Buffers : Bound(w.bufs[k]) /\ w.bufs[k].g = g /\ w.bufs[k].id = id
  BY DEF Stems
<1>2. w.bufs[k].mark # "empty"
  BY <1>1 DEF Bound, NoneHeld
<1>3. DOMAIN w.bufs = 1 .. Buffers
  BY BufAt
<1> QED
  BY <1>1, <1>2, <1>3 DEF BufFind

\* of x the buffer at i of w was replaced by `new' and handed out
Hands(w, x, i, new, g, id) ==
  \E c, k : HandedOut(c, k, w.bufs, i, g, id) /\ c[k] = new /\ x = WithBufs(w, c)

\* The buffer moved to the head is changed and handed out.
LEMMA MovedIs ==
  ASSUME NEW w, Sound(w), AtHome(w), NoneHeld(w), NEW i \in 1 .. Buffers, i # Buffers,
         NEW g, NEW id, Alone(w.bufs, i, g, id), NEW new \in Buffer, Handing(w.bufs[i], new, g, id),
         NEW y, y = ToHead(w, i), NEW x, x = [y EXCEPT !.bufs[1] = new, !.ret = "ok"]
  PROVE  Got(w, x, g, id) /\ Hands(w, x, i, new, g, id)
<1>1. w \in Work /\ Ends(w.bufs)
  BY DEF Sound, Body
<1>2. PICK c : c = [y.bufs EXCEPT ![1] = new]
  OBVIOUS
<1>3. /\ y \in Work /\ y = [w EXCEPT !.bufs = y.bufs]
      /\ Replaced(c, 1, w.bufs, i)
  BY <1>1, <1>2, ToHeadIs
<1>4. x = WithBufs(w, c)
  <2>1. x = [y EXCEPT !.bufs = c, !.ret = "ok"]
    BY <1>2, <1>3 DEF Work
  <2> QED
    BY <1>1, <1>3, <2>1 DEF Work, WithBufs
<1>5. c[1] = new
  <2>1. 1 \in DOMAIN y.bufs
    <3>1. c \in Seq(Buffer) /\ Len(c) = Buffers /\ DOMAIN c = DOMAIN y.bufs
      BY <1>2, <1>3 DEF Replaced
    <3> QED
      BY <3>1, LenProperties, Sizes
  <2> QED
    BY <1>2, <2>1
<1>6. PICK k \in 1 .. Buffers : k = 1
  BY Sizes
<1>7. HandedOut(c, k, w.bufs, i, g, id)
  BY <1>3, <1>5, <1>6 DEF HandedOut
<1>8. Hands(w, x, i, new, g, id)
  BY <1>4, <1>5, <1>6, <1>7 DEF Hands
<1> QED
  BY <1>4, <1>7, <1>8, HandedIs

\* a buffer for a new page: the one it has, or a free one
NewFrom(w, x, g, id) ==
  \/ \E i \in 1 .. Buffers : /\ w.bufs[i].g = g /\ w.bufs[i].id = id /\ w.bufs[i].mark # "empty"
                             /\ Hands(w, x, i, [w.bufs[i] EXCEPT !.ver = 0, !.ref = 1], g, id)
  \/ \E u, i : /\ u = WithRoom(w) /\ u.bufs[i].mark # "dirty"
               /\ Hands(u, x, i, [SpareBuf EXCEPT !.g = g, !.id = id, !.ref = 1], g, id)
LEMMA BufNewIs ==
  ASSUME NEW w, Sound(w), AtHome(w), NoneHeld(w), NEW g \in Groups, NEW id \in Ids,
         NEW x, x = BufNew(w, g, id)
  PROVE  Got(w, x, g, id) /\ NewFrom(w, x, g, id)
<1>1. w \in Work /\ Ends(w.bufs)
  BY DEF Sound, Body
<1>2. CASE BufFind(w, g, id) # {}
  <2>1. PICK i : i = Min(BufFind(w, g, id))
    OBVIOUS
  <2>2. /\ i \in 1 .. Buffers /\ i # Buffers /\ w.bufs[i] \in Buffer /\ w.bufs[i].mark # "empty"
        /\ w.bufs[i].g = g /\ w.bufs[i].id = id /\ Alone(w.bufs, i, g, id)
    BY <1>1, <1>2, <2>1, HitIs
  <2>3. PICK y : y = ToHead(w, i)
    OBVIOUS
  <2>4. PICK new : new = [w.bufs[i] EXCEPT !.ver = 0, !.ref = 1]
    OBVIOUS
  <2>5. new \in Buffer /\ Handing(w.bufs[i], new, g, id)
    BY <2>2, <2>4, Sizes DEF Buffer, Handing
  <2>6. y \in Work /\ y.bufs[1] = w.bufs[i] /\ 1 \in DOMAIN y.bufs
    <3>1. PICK e : e = [y.bufs EXCEPT ![1] = new]
      OBVIOUS
    <3> QED
      BY <1>1, <2>2, <2>3, <2>5, <3>1, ToHeadIs
  <2>7. x = [y EXCEPT !.bufs[1] = new, !.ret = "ok"]
    <3>1. x = [y EXCEPT !.bufs[1].ver = 0, !.bufs[1].ref = 1, !.ret = "ok"]
      BY <1>2, <2>1, <2>3 DEF BufNew, Held
    <3>2. PICK e : e = y.bufs
      OBVIOUS
    <3>3. e[1] \in Buffer /\ e[1] = w.bufs[i] /\ 1 \in DOMAIN e
      BY <2>2, <2>6, <3>2
    <3>4. x = [y EXCEPT !.bufs = [[e EXCEPT ![1].ver = 0] EXCEPT ![1].ref = 1], !.ret = "ok"]
      BY <2>6, <3>1, <3>2 DEF Work
    <3>5. [[e EXCEPT ![1].ver = 0] EXCEPT ![1].ref = 1] = [e EXCEPT ![1] = new]
      BY <2>4, <3>3 DEF Buffer
    <3> QED
      BY <3>2, <3>4, <3>5
  <2>8. Got(w, x, g, id) /\ Hands(w, x, i, new, g, id)
    BY <2>2, <2>3, <2>5, <2>7, MovedIs
  <2> QED
    BY <2>2, <2>4, <2>8 DEF NewFrom
<1>3. CASE BufFind(w, g, id) = {}
  <2>1. PICK u : u = WithRoom(w)
    OBVIOUS
  <2>2. /\ Sound(u) /\ AtHome(u) /\ NoneHeld(u) /\ SameTree(w, u) /\ FindFreeBuf(u) # {}
        /\ SameHeld(w, u)
    BY <2>1, RoomIs
  <2>12. \A i : Alone(u.bufs, i, g, id)
    BY <1>1, <1>3, <2>2, MissIs DEF SameHeld
  <2>3. u \in Work /\ Ends(u.bufs)
    BY <2>2 DEF Sound, Body
  <2>4. PICK i : i = Min(FindFreeBuf(u))
    OBVIOUS
  <2>5. i \in 1 .. Buffers /\ i # Buffers /\ u.bufs[i].mark # "dirty"
    BY <2>2, <2>3, <2>4, FirstFree DEF IsFree
  <2>6. PICK y : y = ToHead(u, i)
    OBVIOUS
  <2>7. PICK new : new = [SpareBuf EXCEPT !.g = g, !.id = id, !.ref = 1]
    OBVIOUS
  <2>8. new \in Buffer /\ Handing(u.bufs[i], new, g, id)
    BY <2>5, <2>7, Sizes DEF Buffer, SpareBuf, Handing
  <2>9. y \in Work /\ 1 \in DOMAIN y.bufs
    <3>1. PICK e : e = [y.bufs EXCEPT ![1] = new]
      OBVIOUS
    <3> QED
      BY <2>3, <2>5, <2>6, <2>8, <3>1, ToHeadIs
  <2>10. x = [y EXCEPT !.bufs[1] = new, !.ret = "ok"]
    <3>1. x = [y EXCEPT !.bufs[1] = [SpareBuf EXCEPT !.g = g, !.id = id],
                        !.bufs[1].ref = 1, !.ret = "ok"]
      BY <1>3, <2>1, <2>2, <2>4, <2>6 DEF BufNew, Held
    <3>2. PICK e : e = y.bufs
      OBVIOUS
    <3>3. PICK s : s = [SpareBuf EXCEPT !.g = g, !.id = id]
      OBVIOUS
    <3>4. 1 \in DOMAIN e /\ new = [s EXCEPT !.ref = 1]
      BY <2>7, <2>9, <3>2, <3>3 DEF SpareBuf
    <3>5. x = [y EXCEPT !.bufs = [[e EXCEPT ![1] = s] EXCEPT ![1].ref = 1], !.ret = "ok"]
      BY <2>9, <3>1, <3>2, <3>3 DEF Work
    <3>6. [[e EXCEPT ![1] = s] EXCEPT ![1].ref = 1] = [e EXCEPT ![1] = new]
      BY <3>4
    <3> QED
      BY <3>2, <3>5, <3>6
  <2>11. Got(u, x, g, id) /\ Hands(u, x, i, new, g, id)
    BY <2>2, <2>5, <2>6, <2>8, <2>10, <2>12, MovedIs
  <2>13. NewFrom(w, x, g, id)
    BY <2>1, <2>5, <2>7, <2>11 DEF NewFrom
  <2> QED
    BY <2>2, <2>11, <2>13 DEF Got, SameTree, SameHeld, Drains
<1> QED
  BY <1>2, <1>3

\* The page ids of a block are those of pages.
LEMMA IdsOfType ==
  ASSUME NEW b
  PROVE  IdsOf(b) \in SUBSET Ids
BY DEF IdsOf

\* the buffer that has a page, handed out as it is
HeldFrom(w, x, g, id) ==
  \E i \in 1 .. Buffers : /\ w.bufs[i].g = g /\ w.bufs[i].id = id /\ w.bufs[i].mark # "empty"
                          /\ Hands(w, x, i, [w.bufs[i] EXCEPT !.ref = 1], g, id)

\* A page that is in a buffer is handed out where it is.
LEMMA HeldIs ==
  ASSUME NEW w, Sound(w), AtHome(w), NoneHeld(w), NEW g, NEW id, BufFind(w, g, id) # {},
         NEW x, x = Held(w, Min(BufFind(w, g, id)))
  PROVE  Got(w, x, g, id) /\ HeldFrom(w, x, g, id)
<1>1. w \in Work /\ Ends(w.bufs) /\ w.bufs \in Seq(Buffer) /\ Len(w.bufs) = Buffers
  BY DEF Sound, Body, Ends
<1>2. PICK i : i = Min(BufFind(w, g, id))
  OBVIOUS
<1>3. /\ i \in 1 .. Buffers /\ i # Buffers /\ w.bufs[i] \in Buffer /\ w.bufs[i].mark # "empty"
      /\ w.bufs[i].g = g /\ w.bufs[i].id = id /\ Alone(w.bufs, i, g, id)
  BY <1>1, <1>2, HitIs
<1>4. PICK new : new = [w.bufs[i] EXCEPT !.ref = 1]
  OBVIOUS
<1>5. new \in Buffer /\ Handing(w.bufs[i], new, g, id)
  BY <1>3, <1>4 DEF Buffer, Handing
<1>6. PICK c : c = [w.bufs EXCEPT ![i] = new]
  OBVIOUS
<1>7. /\ DOMAIN w.bufs = 1 .. Buffers /\ \A j \in 1 .. Buffers : w.bufs[j] \in Buffer
      /\ Buffers \in 1 .. Buffers
  BY <1>1, BufAt, Sizes
<1>8. /\ c \in [1 .. Buffers -> Buffer] /\ c[i] = new
      /\ \A j \in 1 .. Buffers : j # i => c[j] = w.bufs[j]
  BY <1>3, <1>5, <1>6, <1>7
<1>9. c \in Seq(Buffer) /\ Len(c) = Buffers
  <2>1. PICK a \in [1 .. Buffers -> Buffer] : a = c
    BY <1>8
  <2>2. a \in Seq(Buffer) /\ Len(a) = Buffers
    BY Sizes, FunctionIsSeq
  <2> QED
    BY <2>1, <2>2
<1>10. Replaced(c, i, w.bufs, i)
  <2>1. ASSUME NEW m \in 1 .. Buffers, m # i PROVE \E j \in 1 .. Buffers : j # i /\ c[m] = w.bufs[j]
    BY <1>8, <2>1
  <2>2. ASSUME NEW j \in 1 .. Buffers, j # i PROVE \E m \in 1 .. Buffers : m # i /\ c[m] = w.bufs[j]
    BY <1>8, <2>2
  <2>3. c[Buffers] = w.bufs[Buffers]
    BY <1>3, <1>7, <1>8
  <2> QED
    BY <1>3, <1>8, <1>9, <2>1, <2>2, <2>3 DEF Replaced
<1>11. HandedOut(c, i, w.bufs, i, g, id)
  BY <1>3, <1>5, <1>8, <1>10 DEF HandedOut
<1>12. x = WithBufs(w, c)
  <2>1. x = [w EXCEPT !.bufs[i].ref = 1, !.ret = "ok"]
    BY <1>2 DEF Held
  <2>2. PICK b : b = w.bufs
    OBVIOUS
  <2>3. x = [w EXCEPT !.bufs = [b EXCEPT ![i].ref = 1], !.ret = "ok"]
    BY <1>1, <2>1, <2>2 DEF Work
  <2>4. [b EXCEPT ![i].ref = 1] = c
    BY <1>4, <1>6, <2>2
  <2> QED
    BY <2>3, <2>4 DEF WithBufs
<1>13. HeldFrom(w, x, g, id)
  <2>1. Hands(w, x, i, new, g, id)
    BY <1>8, <1>11, <1>12 DEF Hands
  <2> QED
    BY <1>3, <1>4, <2>1 DEF HeldFrom
<1> QED
  BY <1>11, <1>12, <1>13, HandedIs

\* x is w, perhaps with a group flushed, and no page was found.
NotGot(w, x) ==
  Sound(x) /\ AtHome(x) /\ NoneHeld(x) /\ x.ret = "nopage" /\ SameTree(w, x) /\ Drains(w, x)

\* the page is loaded into a free buffer
LoadedFrom(w, x, g, id) ==
  \E u, i : /\ u = WithRoom(w) /\ u.bufs[i].mark # "dirty"
            /\ Hands(u, x, i, [g |-> g, id |-> id, ver |-> BestVer(u.home[g], id),
                               mark |-> "valid", ref |-> 1], g, id)
\* it is nowhere, or its group has been moved
MissedFrom(w, x, g, id) ==
  /\ BufFind(w, g, id) = {}
  /\ \E u : /\ u = WithRoom(w) /\ x = [u EXCEPT !.ret = "nopage"]
            /\ u.home[g].ts # w.home[g].ts \/ id \notin IdsOf(u.home[g])

LEMMA BufGetIs ==
  ASSUME NEW w, Sound(w), AtHome(w), NoneHeld(w), NEW g \in Groups, NEW id,
         NEW x, x = BufGetEx(w, g, id)
  PROVE  \/ Got(w, x, g, id) /\ (HeldFrom(w, x, g, id) \/ LoadedFrom(w, x, g, id))
         \/ NotGot(w, x) /\ MissedFrom(w, x, g, id)
<1>1. CASE BufFind(w, g, id) # {}
  <2>1. x = Held(w, Min(BufFind(w, g, id)))
    BY <1>1 DEF BufGetEx
  <2> QED
    BY <1>1, <2>1, HeldIs
<1>2. CASE BufFind(w, g, id) = {}
  <2>1. PICK u : u = WithRoom(w)
    OBVIOUS
  <2>2. /\ Sound(u) /\ AtHome(u) /\ NoneHeld(u) /\ SameTree(w, u) /\ FindFreeBuf(u) # {}
        /\ SameHeld(w, u)
    BY <2>1, RoomIs
  <2>8. \A i : Alone(u.bufs, i, g, id)
    <3>1. w \in Work /\ Ends(w.bufs)
      BY DEF Sound, Body
    <3> QED
      BY <1>2, <2>2, <3>1, MissIs DEF SameHeld
  <2>3. u \in Work /\ Ends(u.bufs) /\ u.home \in [Groups -> Block]
    BY <2>2 DEF Sound, Body, Work
  <2>4. PICK block : block = IF u.home[g].ts = w.home[g].ts THEN u.home[g] ELSE NoBlock
    OBVIOUS
  <2>5. block \in Block
    BY <2>3, <2>4, NoBlockType
  <2>6. CASE id \notin IdsOf(block)
    <3>1. x = [u EXCEPT !.ret = "nopage"]
      BY <1>2, <2>1, <2>2, <2>4, <2>6 DEF BufGetEx
    <3>2. "nopage" \in Answers
      BY DEF Answers
    <3>3. /\ Sound(x) /\ x.ret = "nopage" /\ SameHeld(u, x) /\ SameTree(u, x)
          /\ (AtHome(u) => AtHome(x))
      BY <2>2, <3>1, <3>2, AnswerIs
    <3>4. MissedFrom(w, x, g, id)
      BY <1>2, <2>1, <2>4, <2>6, <3>1 DEF MissedFrom
    <3> QED
      BY <2>2, <3>3, <3>4 DEF NotGot, SameHeld, SameTree, Drains
  <2>7. CASE id \in IdsOf(block)
    <3>1. PICK i : i = Min(FindFreeBuf(u))
      OBVIOUS
    <3>2. i \in 1 .. Buffers /\ i # Buffers /\ u.bufs[i].mark # "dirty"
      BY <2>2, <2>3, <3>1, FirstFree DEF IsFree
    <3>3. PICK y : y = ToHead(u, i)
      OBVIOUS
    <3>4. PICK s : s = [g |-> g, id |-> id, ver |-> BestVer(block, id), mark |-> "valid", ref |-> 0]
      OBVIOUS
    <3>5. PICK new : new = [s EXCEPT !.ref = 1]
      OBVIOUS
    <3>6. new \in Buffer /\ Handing(u.bufs[i], new, g, id)
      <4>1. id \in Ids /\ BestVer(block, id) \in Vers
        BY <2>5, <2>7, IdsOfType, BestVerType
      <4> QED
        BY <3>2, <3>4, <3>5, <4>1 DEF Buffer, Handing
    <3>7. y \in Work /\ 1 \in DOMAIN y.bufs
      <4>1. PICK e : e = [y.bufs EXCEPT ![1] = new]
        OBVIOUS
      <4> QED
        BY <2>3, <3>2, <3>3, <3>6, <4>1, ToHeadIs
    <3>8. x = [y EXCEPT !.bufs[1] = new, !.ret = "ok"]
      <4>1. x = [y EXCEPT !.bufs[1] = s, !.bufs[1].ref = 1, !.ret = "ok"]
        BY <1>2, <2>1, <2>2, <2>4, <2>7, <3>1, <3>3, <3>4 DEF BufGetEx, Held
      <4>2. PICK e : e = y.bufs
        OBVIOUS
      <4>3. x = [y EXCEPT !.bufs = [[e EXCEPT ![1] = s] EXCEPT ![1].ref = 1], !.ret = "ok"]
        BY <3>7, <4>1, <4>2 DEF Work
      <4>4. [[e EXCEPT ![1] = s] EXCEPT ![1].ref = 1] = [e EXCEPT ![1] = new]
        BY <3>5, <3>7, <4>2
      <4> QED
        BY <4>2, <4>3, <4>4
    <3>9. Got(u, x, g, id) /\ Hands(u, x, i, new, g, id)
      BY <2>2, <2>8, <3>2, <3>3, <3>6, <3>8, MovedIs
    <3>10. block = u.home[g]
      <4>1. \A e : PlacesIn(NoBlock, e) = {}
        BY EmptySeq DEF PlacesIn, NoBlock
      <4>2. IdsOf(NoBlock) = {}
        BY <4>1 DEF IdsOf
      <4> QED
        BY <2>4, <2>7, <4>2
    <3>11. LoadedFrom(w, x, g, id)
      BY <2>1, <3>2, <3>4, <3>5, <3>9, <3>10 DEF LoadedFrom
    <3> QED
      BY <2>2, <3>9, <3>11 DEF Got, SameTree, SameHeld, Drains
  <2> QED
    BY <2>6, <2>7
<1> QED
  BY <1>1, <1>2

-----------------------------------------------------------------------------
(* Writing to a buffer *)

\* uffs_BufPut: what is dirty stays dirty, and the slots are the same.
LEMMA BufPutIs ==
  ASSUME NEW w, Sound(w), NEW x, x = BufPut(w)
  PROVE  /\ Sound(x) /\ NoneHeld(x) /\ SameTree(w, x) /\ x.home = w.home /\ x.slots = w.slots
         /\ x.ret = w.ret /\ Drains(w, x)
         /\ \A g : Ready(w, g) => Ready(x, g)
<1>1. w \in Work /\ Ends(w.bufs) /\ SlotsInv(w) /\ w.bufs \in Seq(Buffer) /\ Len(w.bufs) = Buffers
  BY DEF Sound, Body, Ends
<1>2. DOMAIN w.bufs = 1 .. Buffers /\ \A i \in 1 .. Buffers : w.bufs[i] \in Buffer
  BY <1>1, BufAt
<1>3. PICK c : c = [i \in 1 .. Buffers |-> [w.bufs[i] EXCEPT !.ref = 0]]
  OBVIOUS
<1>4. /\ c \in [1 .. Buffers -> Buffer]
      /\ \A i \in 1 .. Buffers : /\ c[i].ref = 0 /\ c[i].mark = w.bufs[i].mark
                                 /\ c[i].g = w.bufs[i].g /\ c[i].id = w.bufs[i].id
  <2>1. ASSUME NEW b \in Buffer, NEW d, d = [b EXCEPT !.ref = 0]
        PROVE  d \in Buffer /\ d.ref = 0 /\ d.mark = b.mark /\ d.g = b.g /\ d.id = b.id
    BY <2>1 DEF Buffer
  <2> QED
    BY <1>2, <1>3, <2>1
<1>5. c \in Seq(Buffer) /\ Len(c) = Buffers
  <2>1. PICK a \in [1 .. Buffers -> Buffer] : a = c
    BY <1>4
  <2>2. a \in Seq(Buffer) /\ Len(a) = Buffers
    BY Sizes, FunctionIsSeq
  <2> QED
    BY <2>1, <2>2
<1>6. x = [w EXCEPT !.bufs = c]
  BY <1>2, <1>3 DEF BufPut
<1>7. /\ x \in Work /\ x.home = w.home /\ x.spare = w.spare /\ x.bufs = c /\ x.slots = w.slots
      /\ x.ret = w.ret /\ x.cuts = w.cuts
  BY <1>1, <1>5, <1>6 DEF Work
<1>14. Single(c)
  <2>1. \A i \in 1 .. Buffers : Bound(c[i]) => Bound(w.bufs[i])
    BY <1>4 DEF Bound
  <2>2. Single(w.bufs)
    BY <1>1 DEF Ends
  <2> QED
    BY <1>4, <2>1, <2>2 DEF Single
<1>8. Ends(x.bufs)
  BY <1>1, <1>4, <1>5, <1>7, <1>14, Sizes DEF Ends
<1>9. SlotsInv(x)
  <2>1. ASSUME NEW i \in 1 .. Buffers, c[i].mark = "dirty"
        PROVE  c[i].g \in Groups /\ \E s \in 1 .. Slots : w.slots[s] = c[i].g
    BY <1>1, <1>4, <2>1 DEF SlotsInv
  <2>2. ASSUME NEW s \in 1 .. Slots, w.slots[s] # None
        PROVE  \E i \in 1 .. Buffers : c[i].mark = "dirty" /\ c[i].g = w.slots[s]
    <3>1. PICK i \in 1 .. Buffers : w.bufs[i].mark = "dirty" /\ w.bufs[i].g = w.slots[s]
      BY <1>1, <2>2 DEF SlotsInv
    <3> QED
      BY <1>4, <3>1
  <2>3. \A s, t \in 1 .. Slots : w.slots[s] = w.slots[t] /\ w.slots[s] # None => s = t
    BY <1>1 DEF SlotsInv
  <2> QED
    BY <1>7, <2>1, <2>2, <2>3 DEF SlotsInv
<1>10. Sound(x)
  BY <1>7, <1>8, <1>9 DEF Sound, Body, HeadsInv, CutsInv, BlocksInv
<1>11. NoneHeld(x)
  BY <1>4, <1>7 DEF NoneHeld
<1>12. \A g : DirtyIds(w, g) \in SUBSET DirtyIds(x, g)
  <2> SUFFICES ASSUME NEW g, NEW i \in DirtyOf(w, g) PROVE w.bufs[i].id \in DirtyIds(x, g)
    BY DEF DirtyIds
  <2>1. i \in 1 .. Buffers /\ w.bufs[i].mark = "dirty" /\ w.bufs[i].g = g
    BY <1>2 DEF DirtyOf
  <2>2. DOMAIN x.bufs = 1 .. Buffers
    BY <1>4, <1>7
  <2>3. i \in DirtyOf(x, g) /\ x.bufs[i].id = w.bufs[i].id
    BY <1>4, <1>7, <2>1, <2>2 DEF DirtyOf
  <2> QED
    BY <2>3 DEF DirtyIds
<1>13. ASSUME NEW g, Ready(w, g) PROVE Ready(x, g)
  BY <1>7, <1>12, <1>13 DEF Ready
<1>15. Drains(w, x)
  <2> SUFFICES ASSUME NEW h, NEW id \in DirtyIds(x, h) PROVE id \in DirtyIds(w, h)
    BY DEF Drains
  <2>1. PICK i \in 1 .. Buffers : c[i].mark = "dirty" /\ c[i].g = h /\ c[i].id = id
    BY <1>7, <1>8, DirtyIdsAre
  <2> QED
    BY <1>1, <1>4, <2>1, DirtyIdsAre
<1> QED
  BY <1>7, <1>10, <1>11, <1>13, <1>15 DEF SameTree

HandOf(w) == CHOOSE i \in DOMAIN w.bufs : w.bufs[i].ref = 1
RoomOf(w, g) == IF SlotsOf(w, g) # {} THEN SlotsOf(w, g) ELSE SlotsOf(w, None)
DirtiedWith(w, g, v) ==
  [w EXCEPT !.bufs[HandOf(w)].ver = v, !.bufs[HandOf(w)].mark = "dirty",
            !.slots[Min(RoomOf(w, g))] = g, !.ret = "ok"]

LEMMA HandIs ==
  ASSUME NEW w \in Work, Ends(w.bufs), NEW g, NEW id, Holds(w, g, id), NEW i, i = HandOf(w)
  PROVE  /\ i \in 1 .. Buffers /\ i # Buffers /\ w.bufs[i] \in Buffer
         /\ w.bufs[i].ref = 1 /\ w.bufs[i].g = g /\ w.bufs[i].id = id
<1>1. DOMAIN w.bufs = 1 .. Buffers /\ \A j \in 1 .. Buffers : w.bufs[j] \in Buffer
  BY BufAt
<1>2. \E j \in DOMAIN w.bufs : w.bufs[j].ref = 1
  BY <1>1 DEF Holds
<1>3. i \in DOMAIN w.bufs /\ w.bufs[i].ref = 1
  BY <1>2 DEF HandOf
<1>4. w.bufs[Buffers].ref = 0
  BY DEF Ends
<1> QED
  BY <1>1, <1>3, <1>4 DEF Holds

\* the buffer in hand is dirty with version v, and nothing else has changed
Marks(w, x, g, id, v) ==
  /\ x.home = w.home /\ x.cuts = w.cuts
  /\ \E i \in 1 .. Buffers :
       /\ w.bufs[i].ref = 1 /\ w.bufs[i].g = g /\ w.bufs[i].id = id
       /\ x.bufs = [w.bufs EXCEPT ![i] = [w.bufs[i] EXCEPT !.ver = v, !.mark = "dirty"]]
\* The buffer in hand becomes dirty, and its group has a slot.
LEMMA DirtiedIs ==
  ASSUME NEW w, Sound(w), AtHome(w), NEW g \in Groups, NEW id, Holds(w, g, id), NEW v \in Vers,
         RoomOf(w, g) # {}, w.home[g] # NoBlock \/ (w.spare >= 2 /\ id = 0),
         NEW x, x = DirtiedWith(w, g, v)
  PROVE  /\ Sound(x) /\ Ready(x, g) /\ x.ret = "ok" /\ SameTree(w, x) /\ x.home = w.home
         /\ w.home[g] # NoBlock => AtHome(x)
         /\ \A h : h # g => DirtyIds(x, h) \in SUBSET DirtyIds(w, h)
         /\ Marks(w, x, g, id, v)
<1>1. /\ w \in Work /\ Ends(w.bufs) /\ SlotsInv(w) /\ w.bufs \in Seq(Buffer) /\ Len(w.bufs) = Buffers
      /\ w.slots \in [1 .. Slots -> Groups \cup {None}] /\ g # None
  BY Sizes DEF Sound, Body, Ends, Work
<1>2. PICK i : i = HandOf(w)
  OBVIOUS
<1>3. /\ i \in 1 .. Buffers /\ i # Buffers /\ w.bufs[i] \in Buffer
      /\ w.bufs[i].ref = 1 /\ w.bufs[i].g = g /\ w.bufs[i].id = id
  BY <1>1, <1>2, HandIs
<1>4. PICK s : s = Min(RoomOf(w, g))
  OBVIOUS
<1>5. /\ s \in 1 .. Slots /\ w.slots[s] \in {g, None}
      /\ w.slots[s] = None => \A t \in 1 .. Slots : w.slots[t] # g
  <2>1. CASE SlotsOf(w, g) # {}
    BY <1>1, <1>4, <2>1, SlotsOfIs DEF RoomOf
  <2>2. CASE SlotsOf(w, g) = {}
    BY <1>1, <1>4, <2>2, SlotsOfIs DEF RoomOf
  <2> QED
    BY <2>1, <2>2
<1>6. PICK new : new = [w.bufs[i] EXCEPT !.ver = v, !.mark = "dirty"]
  OBVIOUS
<1>7. new \in Buffer /\ new.mark = "dirty" /\ new.ref = 1 /\ new.g = g /\ new.id = id
  BY <1>3, <1>6 DEF Buffer
<1>8. PICK c : c = [w.bufs EXCEPT ![i] = new]
  OBVIOUS
<1>9. DOMAIN w.bufs = 1 .. Buffers /\ \A j \in 1 .. Buffers : w.bufs[j] \in Buffer
  BY <1>1, BufAt
<1>10. /\ c \in [1 .. Buffers -> Buffer] /\ c[i] = new
       /\ \A j \in 1 .. Buffers : j # i => c[j] = w.bufs[j]
  BY <1>3, <1>7, <1>8, <1>9
<1>11. c \in Seq(Buffer) /\ Len(c) = Buffers
  <2>1. PICK a \in [1 .. Buffers -> Buffer] : a = c
    BY <1>10
  <2>2. a \in Seq(Buffer) /\ Len(a) = Buffers
    BY Sizes, FunctionIsSeq
  <2> QED
    BY <2>1, <2>2
<1>12. PICK slots : slots = [w.slots EXCEPT ![s] = g]
  OBVIOUS
<1>13. /\ slots \in [1 .. Slots -> Groups \cup {None}] /\ slots[s] = g
       /\ \A t \in 1 .. Slots : t # s => slots[t] = w.slots[t]
  BY <1>1, <1>5, <1>12
<1>14. x = [w EXCEPT !.bufs = c, !.slots = slots, !.ret = "ok"]
  <2>1. x = [w EXCEPT !.bufs[i].ver = v, !.bufs[i].mark = "dirty", !.slots[s] = g, !.ret = "ok"]
    BY <1>2, <1>4 DEF DirtiedWith
  <2>2. PICK b : b = w.bufs
    OBVIOUS
  <2>3. x = [w EXCEPT !.bufs = [[b EXCEPT ![i].ver = v] EXCEPT ![i].mark = "dirty"],
                      !.slots = slots, !.ret = "ok"]
    BY <1>1, <1>12, <2>1, <2>2 DEF Work
  <2>4. [[b EXCEPT ![i].ver = v] EXCEPT ![i].mark = "dirty"] = c
    BY <1>3, <1>6, <1>8, <1>9, <2>2 DEF Buffer
  <2> QED
    BY <2>3, <2>4
<1>15. /\ x \in Work /\ x.home = w.home /\ x.spare = w.spare /\ x.bufs = c /\ x.slots = slots
       /\ x.ret = "ok" /\ x.cuts = w.cuts
  BY <1>1, <1>11, <1>13, <1>14 DEF Work, Answers
<1>23. Single(c)
  <2>1. \A j \in 1 .. Buffers : /\ c[j].g = w.bufs[j].g /\ c[j].id = w.bufs[j].id
                                /\ Bound(c[j]) => Bound(w.bufs[j])
    BY <1>3, <1>7, <1>10 DEF Bound
  <2>2. Single(w.bufs)
    BY <1>1 DEF Ends
  <2> QED
    BY <2>1, <2>2 DEF Single
<1>16. Ends(x.bufs)
  <2>1. c[Buffers] = w.bufs[Buffers]
    BY <1>3, <1>10, Sizes
  <2> QED
    BY <1>1, <1>11, <1>15, <1>23, <2>1 DEF Ends
<1>17. SlotsInv(x)
  <2>1. ASSUME NEW m \in 1 .. Buffers, c[m].mark = "dirty"
        PROVE  c[m].g \in Groups /\ \E t \in 1 .. Slots : slots[t] = c[m].g
    <3>1. CASE m = i
      BY <1>5, <1>7, <1>10, <1>13, <3>1
    <3>2. CASE m # i
      <4>1. c[m] = w.bufs[m]
        BY <1>10, <3>2
      <4>2. PICK t \in 1 .. Slots : w.slots[t] = c[m].g
        BY <1>1, <2>1, <4>1 DEF SlotsInv
      <4>3. c[m].g \in Groups /\ c[m].g # None
        BY <1>1, <2>1, <4>1, Sizes DEF SlotsInv
      <4>4. slots[t] = c[m].g
        BY <1>5, <1>13, <4>2, <4>3
      <4> QED
        BY <4>3, <4>4
    <3> QED
      BY <3>1, <3>2
  <2>2. ASSUME NEW t \in 1 .. Slots, slots[t] # None
        PROVE  \E m \in 1 .. Buffers : c[m].mark = "dirty" /\ c[m].g = slots[t]
    <3>1. CASE t = s
      BY <1>3, <1>7, <1>10, <1>13, <3>1
    <3>2. CASE t # s
      <4>1. slots[t] = w.slots[t]
        BY <1>13, <3>2
      <4>2. PICK j \in 1 .. Buffers : w.bufs[j].mark = "dirty" /\ w.bufs[j].g = slots[t]
        BY <1>1, <2>2, <4>1 DEF SlotsInv
      <4>3. c[j].mark = "dirty" /\ c[j].g = slots[t]
        BY <1>3, <1>7, <1>10, <4>2
      <4> QED
        BY <4>3
    <3> QED
      BY <3>1, <3>2
  <2>3. ASSUME NEW t \in 1 .. Slots, NEW u \in 1 .. Slots, slots[t] = slots[u], slots[t] # None
        PROVE  t = u
    <3>1. \A r \in 1 .. Slots : r # s => w.slots[r] # g
      BY <1>1, <1>5 DEF SlotsInv
    <3> QED
      BY <1>1, <1>13, <2>3, <3>1 DEF SlotsInv
  <2> QED
    BY <1>15, <2>1, <2>2, <2>3 DEF SlotsInv
<1>18. Sound(x)
  BY <1>15, <1>16, <1>17 DEF Sound, Body, HeadsInv, CutsInv, BlocksInv
<1>19. ASSUME NEW t \in 1 .. Slots, slots[t] # None, w.home[slots[t]] = NoBlock PROVE slots[t] = g
  BY <1>13, <1>19 DEF AtHome
<1>20. id = 0 => 0 \in DirtyIds(x, g)
  <2>1. i \in DirtyOf(x, g)
    BY <1>3, <1>7, <1>10, <1>15 DEF DirtyOf
  <2> QED
    BY <1>7, <1>10, <1>15, <2>1 DEF DirtyIds
<1>21. Ready(x, g)
  BY <1>15, <1>19, <1>20 DEF Ready
<1>22. w.home[g] # NoBlock => AtHome(x)
  BY <1>15, <1>19 DEF AtHome
<1>24. ASSUME NEW h, h # g, NEW e \in DirtyIds(x, h) PROVE e \in DirtyIds(w, h)
  <2>1. PICK j \in 1 .. Buffers : c[j].mark = "dirty" /\ c[j].g = h /\ c[j].id = e
    BY <1>15, <1>16, DirtyIdsAre
  <2>2. c[j] = w.bufs[j]
    BY <1>7, <1>10, <1>24, <2>1
  <2> QED
    BY <1>1, <2>1, <2>2, DirtyIdsAre
<1>25. Marks(w, x, g, id, v)
  BY <1>3, <1>6, <1>8, <1>15 DEF Marks
<1> QED
  BY <1>15, <1>18, <1>21, <1>22, <1>24, <1>25 DEF SameTree

\* x is w with a page of g written: g is in the tree, or can be put there.
Written(w, x, g) ==
  /\ Sound(x) /\ Ready(x, g) /\ x.ret = "ok" /\ Tree(w.home) \in SUBSET Tree(x.home)
  /\ w.home[g] # NoBlock => AtHome(x) /\ SameTree(w, x)
  /\ Lean(w) => Lean(x)
\* a slot is found, the buffer in hand is dirty, and the group is flushed if it has
\* as many dirty pages as it may
WriteFrom(w, x, g, id, v) ==
  \E u, y : /\ u = w \/ u = FlushMostDirty(w)
            /\ Sound(u) /\ AtHome(u) /\ Holds(u, g, id) /\ Marks(u, y, g, id, v)
            /\ Sound(y) /\ Ready(y, g) /\ (w.home[g] # NoBlock => AtHome(y))
            /\ \/ x = y /\ ~IsFull(y, g)
               \/ IsFull(y, g) /\ \E force \in BOOLEAN : x = FlushGroupEx(y, g, force)

LEMMA BufWriteIs ==
  ASSUME NEW w, Sound(w), AtHome(w), NEW g \in Groups, NEW id, Holds(w, g, id), NEW v \in Vers,
         w.home[g] # NoBlock \/ (w.spare >= 2 /\ id = 0), NEW x, x = BufWrite(w, v)
  PROVE  Written(w, x, g) /\ WriteFrom(w, x, g, id, v)
<1>1. w \in Work /\ Ends(w.bufs) /\ w.slots \in [1 .. Slots -> Groups \cup {None}]
  BY DEF Sound, Body, Work
<1>2. w.bufs[HandOf(w)].g = g
  BY <1>1, HandIs
<1>3. PICK u : u = IF RoomOf(w, g) # {} THEN w ELSE FlushMostDirty(w)
  OBVIOUS
<1>4. PICK y : y = DirtiedWith(u, g, v)
  OBVIOUS
<1>5. \E force \in BOOLEAN : x = IF RoomOf(u, g) = {} THEN Failed(u)
                     ELSE IF IsFull(y, g) THEN FlushGroupEx(y, g, force) ELSE y
  <2> DEFINE h == w.bufs[HandOf(w)].g
             a == IF RoomOf(w, h) # {} THEN w ELSE FlushMostDirty(w)
             b == DirtiedWith(a, h, v)
  <2>1. x = IF RoomOf(a, h) = {} THEN Failed(a)
            ELSE IF IsFull(b, h) THEN FlushGroupEx(b, h, FALSE) ELSE b
    BY Zenon DEF BufWrite, HandOf, RoomOf, DirtiedWith, FlushGroup
  <2>2. h = g /\ a = u /\ b = y
    BY <1>2, <1>3, <1>4
  <2> HIDE DEF h, a, b
  <2> QED
    BY <2>1, <2>2
<1>6. Sound(u) /\ AtHome(u) /\ Holds(u, g, id) /\ SameTree(w, u) /\ RoomOf(u, g) # {} /\ Drains(w, u)
  <2>1. CASE RoomOf(w, g) # {}
    BY <1>3, <2>1 DEF SameTree, Drains
  <2>2. CASE RoomOf(w, g) = {}
    <3>1. u = FlushMostDirty(w)
      BY <1>3, <2>2
    <3>2. /\ Sound(u) /\ AtHome(u) /\ SameHeld(w, u) /\ SameTree(w, u)
          /\ \/ \A t \in 1 .. Slots : w.slots[t] = None
             \/ \E s \in 1 .. Slots : w.slots[s] # None /\ u.slots[s] = None
      BY <3>1, FlushMostIs
    <3>3. SlotsOf(w, None) = {} /\ 1 \in 1 .. Slots
      BY <2>2, Sizes DEF RoomOf
    <3>4. w.slots[1] # None
      BY <1>1, <3>3, SlotsOfIs
    <3>5. PICK s \in 1 .. Slots : u.slots[s] = None
      BY <3>2, <3>3, <3>4
    <3>6. u \in Work
      BY <3>2 DEF Sound, Body
    <3>7. SlotsOf(u, None) # {}
      BY <3>5, <3>6, SlotsOfIs
    <3> QED
      BY <3>2, <3>7 DEF SameHeld, RoomOf
  <2> QED
    BY <2>1, <2>2
<1>7. u.home[g] # NoBlock <=> w.home[g] # NoBlock
  BY <1>6 DEF SameTree, Tree
<1>8. u.spare = w.spare
  BY <1>6 DEF SameTree
<1>9. /\ Sound(y) /\ Ready(y, g) /\ y.ret = "ok" /\ SameTree(u, y) /\ y.home = u.home
      /\ u.home[g] # NoBlock => AtHome(y)
      /\ \A h : h # g => DirtyIds(y, h) \in SUBSET DirtyIds(u, h)
      /\ Marks(u, y, g, id, v)
  BY <1>4, <1>6, <1>7, <1>8, DirtiedIs
<1>10. /\ Ready(y, g) /\ y.ret = "ok" /\ Tree(w.home) \in SUBSET Tree(y.home)
       /\ w.home[g] # NoBlock => AtHome(y) /\ SameTree(w, y)
  BY <1>6, <1>7, <1>9 DEF SameTree
<1>13. ASSUME Lean(w), NEW h \in Groups, h # g PROVE Cardinality(DirtyIds(y, h)) < DirtyMax
  <2>1. Lean(u) /\ Ends(u.bufs)
    BY <1>1, <1>6, <1>13, LeanStays DEF Sound, Body
  <2>2. DirtyIds(y, h) \in SUBSET DirtyIds(u, h) /\ Cardinality(DirtyIds(u, h)) < DirtyMax
    BY <1>9, <1>13, <2>1 DEF Lean
  <2>3. IsFiniteSet(DirtyIds(u, h)) /\ Cardinality(DirtyIds(u, h)) \in Nat
    BY <2>1, DirtyCard
  <2>4. Cardinality(DirtyIds(y, h)) \in Nat /\ Cardinality(DirtyIds(y, h)) <= Cardinality(DirtyIds(u, h))
    BY <2>2, <2>3, FS_Subset, FS_CardinalityType
  <2> QED
    BY <2>2, <2>3, <2>4, SizesAssumption
<1>11. ASSUME x = y, ~IsFull(y, g) PROVE Written(w, x, g)
  <2>1. /\ Cardinality(DirtyOf(y, g)) = Cardinality(DirtyIds(y, g))
        /\ Cardinality(DirtyIds(y, g)) \in Nat /\ DirtyMax \in Int
    BY <1>9, DirtyCard, SizesAssumption DEF Sound, Body
  <2>2. Cardinality(DirtyIds(y, g)) < DirtyMax
    BY <1>11, <2>1 DEF IsFull
  <2>3. Lean(w) => Lean(y)
    BY <1>13, <2>2 DEF Lean
  <2> QED
    BY <1>9, <1>10, <1>11, <2>3 DEF Written
<1>12. ASSUME NEW force, x = FlushGroupEx(y, g, force) PROVE Written(w, x, g)
  <2>1. /\ Sound(x) /\ AtHome(x) /\ x.ret = "ok" /\ Tree(y.home) \in SUBSET Tree(x.home)
        /\ AtHome(y) => SameTree(y, x)
        /\ SameHeld(y, x) /\ \A t \in 1 .. Slots : x.slots[t] # g
    BY <1>9, <1>12, FlushGroupIs
  <2>2. Ready(x, g)
    BY <2>1 DEF AtHome, Ready
  <2>3. DirtyIds(x, g) = {}
    BY <2>1, NoSlotNoDirt DEF Sound, Body
  <2>4. ASSUME Lean(w), NEW h \in Groups PROVE Cardinality(DirtyIds(x, h)) < DirtyMax
    <3>1. CASE h = g
      BY <2>3, <3>1, FS_EmptySet, SizesAssumption
    <3>2. CASE h # g
      <4>1. DirtyIds(x, h) \in SUBSET DirtyIds(y, h) /\ Cardinality(DirtyIds(y, h)) < DirtyMax
        BY <1>13, <2>1, <2>4, <3>2 DEF SameHeld, Drains
      <4>2. IsFiniteSet(DirtyIds(y, h)) /\ Cardinality(DirtyIds(y, h)) \in Nat
        BY <1>9, DirtyCard DEF Sound, Body
      <4>3. Cardinality(DirtyIds(x, h)) \in Nat /\ Cardinality(DirtyIds(x, h)) <= Cardinality(DirtyIds(y, h))
        BY <4>1, <4>2, FS_Subset, FS_CardinalityType
      <4> QED
        BY <4>1, <4>2, <4>3, SizesAssumption
    <3> QED
      BY <3>1, <3>2
  <2>5. Lean(w) => Lean(x)
    BY <2>4 DEF Lean
  <2> QED
    BY <1>10, <2>1, <2>2, <2>5 DEF Written, SameTree
<1>14. Written(w, x, g)
  BY <1>5, <1>6, <1>11, <1>12
<1>15. \/ x = y /\ ~IsFull(y, g)
       \/ IsFull(y, g) /\ \E force \in BOOLEAN : x = FlushGroupEx(y, g, force)
  BY <1>5, <1>6
<1>16. (u = w \/ u = FlushMostDirty(w)) /\ (w.home[g] # NoBlock => AtHome(y))
  BY <1>3, <1>7, <1>9
<1>17. WriteFrom(w, x, g, id, v)
  BY <1>6, <1>9, <1>15, <1>16, Zenon DEF WriteFrom
<1> QED
  BY <1>14, <1>17

\* A page is written and put back.
LEMMA PutWrittenIs ==
  ASSUME NEW w, Sound(w), AtHome(w), NEW g \in Groups, NEW id, Holds(w, g, id), NEW v \in Vers,
         w.home[g] # NoBlock \/ (w.spare >= 2 /\ id = 0), w.ret = "ok", NEW x, x = PutWritten(w, v)
  PROVE  Written(w, x, g) /\ NoneHeld(x) /\ \E y : Sound(y) /\ WriteFrom(w, y, g, id, v) /\ x = BufPut(y)
<1>6. Ends(w.bufs)
  BY DEF Sound, Body
<1>1. PICK y : y = BufWrite(w, v)
  OBVIOUS
<1>2. x = BufPut(y)
  BY <1>1 DEF PutWritten
<1>3. Written(w, y, g) /\ WriteFrom(w, y, g, id, v)
  BY <1>1, BufWriteIs
<1>4. /\ Sound(x) /\ NoneHeld(x) /\ SameTree(y, x) /\ x.home = y.home /\ x.slots = y.slots
      /\ x.ret = y.ret /\ Ready(x, g) /\ Drains(y, x)
  BY <1>2, <1>3, BufPutIs DEF Written
<1>5. AtHome(y) => AtHome(x)
  BY <1>4 DEF AtHome
<1>7. Lean(y) => Lean(x)
  BY <1>3, <1>4, LeanStays DEF Written, Sound, Body
<1>8. Sound(y)
  BY <1>3 DEF Written
<1>9. Written(w, x, g)
  BY <1>3, <1>4, <1>5, <1>7 DEF Written, SameTree
<1> QED
  BY <1>2, <1>3, <1>4, <1>8, <1>9

-----------------------------------------------------------------------------
(* The calls *)

\* The device between two calls, and when a call has ended.
Idle(w)     == Sound(w) /\ AtHome(w) /\ NoneHeld(w) /\ Lean(w)
Fine(w)     == w.ret \in Answers \ {"fail", "nobuf", "loops"}
Ended(w, x) == Idle(x) /\ Fine(x) /\ Tree(w.home) \in SUBSET Tree(x.home)

\* what a page that is wanted but not found answers, and that a call cannot be made
LEMMA RefusedIs ==
  ASSUME NEW w, Idle(w), NEW ret \in {"full", "nonode"}, NEW x, x = [w EXCEPT !.ret = ret]
  PROVE  Ended(w, x) /\ SameTree(w, x)
<1>1. ret \in Answers /\ ret \in Answers \ {"fail", "nobuf", "loops"}
  BY DEF Answers
<1>2. /\ Sound(x) /\ x.ret = ret /\ x.home = w.home /\ x.bufs = w.bufs
      /\ SameTree(w, x) /\ AtHome(x)
  BY <1>1, AnswerIs DEF Idle
<1>3. Lean(x)
  BY <1>2, LeanSame DEF Idle, Sound, Body
<1> QED
  BY <1>1, <1>2, <1>3 DEF Ended, Idle, Fine, NoneHeld, SameTree

\* uffs_BufGetEx and uffs_BufPut.
LEMMA PutBackIs ==
  ASSUME NEW w, Idle(w), NEW g \in Groups, NEW id, NEW y, y = BufGetEx(w, g, id), NEW x, x = PutBack(y)
  PROVE  Ended(w, x) /\ SameTree(w, x)
<1>1. CASE Got(w, y, g, id)
  <2>1. x = BufPut(y)
    BY <1>1 DEF Got, PutBack
  <2>2. /\ Sound(x) /\ NoneHeld(x) /\ SameTree(y, x) /\ x.home = y.home /\ x.slots = y.slots
        /\ x.ret = y.ret /\ Drains(y, x)
    BY <1>1, <2>1, BufPutIs DEF Got
  <2>3. AtHome(x)
    BY <1>1, <2>2 DEF AtHome, Got
  <2>4. Lean(x)
    <3>1. Drains(w, x)
      BY <1>1, <2>2 DEF Got, Drains
    <3> QED
      BY <3>1, LeanStays DEF Idle, Sound, Body
  <2> QED
    BY <1>1, <2>2, <2>3, <2>4 DEF Got, Ended, Idle, Fine, Answers, SameTree
<1>2. CASE NotGot(w, y)
  <2>1. x = y
    BY <1>2 DEF NotGot, PutBack
  <2>2. Lean(x)
    BY <1>2, <2>1, LeanStays DEF NotGot, Idle, Sound, Body
  <2> QED
    BY <1>2, <2>1, <2>2 DEF NotGot, Ended, Idle, Fine, Answers, SameTree
<1> QED
  BY <1>1, <1>2, BufGetIs DEF Idle

\* x is w without the buffers of the pages ids of the groups gone
Emptied(w, x, gone, ids) ==
  /\ x.home = w.home /\ x.cuts = w.cuts
  /\ x.bufs = [i \in 1 .. Buffers |-> IF w.bufs[i].g \in gone /\ w.bufs[i].id \in ids
                                      THEN SpareBuf ELSE w.bufs[i]]
\* uffs_BufMarkEmpty: a slot whose group has no dirty page left is free.
LEMMA MarkEmptyIs ==
  ASSUME NEW w, Sound(w), NoneHeld(w), NEW gone, NEW ids, NEW x, x = MarkEmpty(w, gone, ids)
  PROVE  /\ Sound(x) /\ NoneHeld(x) /\ SameTree(w, x) /\ x.home = w.home /\ x.ret = w.ret
         /\ Lean(w) => Lean(x)
         /\ \A t \in 1 .. Slots : x.slots[t] \in {w.slots[t], None}
         /\ Ids \in SUBSET ids => \A t \in 1 .. Slots : x.slots[t] # None => x.slots[t] \notin gone
         /\ Emptied(w, x, gone, ids)
<1>1. /\ w \in Work /\ Ends(w.bufs) /\ SlotsInv(w) /\ w.bufs \in Seq(Buffer) /\ Len(w.bufs) = Buffers
      /\ w.slots \in [1 .. Slots -> Groups \cup {None}] /\ DOMAIN w.slots = 1 .. Slots
  BY DEF Sound, Body, Ends, Work
<1>2. DOMAIN w.bufs = 1 .. Buffers /\ \A i \in 1 .. Buffers : w.bufs[i] \in Buffer
  BY <1>1, BufAt
<1>3. PICK c : c = [i \in 1 .. Buffers |-> IF w.bufs[i].g \in gone /\ w.bufs[i].id \in ids
                                           THEN SpareBuf ELSE w.bufs[i]]
  OBVIOUS
<1>4. /\ c \in [1 .. Buffers -> Buffer]
      /\ \A i \in 1 .. Buffers : \/ c[i] = SpareBuf
                                 \/ c[i] = w.bufs[i] /\ ~(w.bufs[i].g \in gone /\ w.bufs[i].id \in ids)
  BY <1>2, <1>3, SpareType
<1>5. c \in Seq(Buffer) /\ Len(c) = Buffers
  <2>1. PICK a \in [1 .. Buffers -> Buffer] : a = c
    BY <1>4
  <2>2. a \in Seq(Buffer) /\ Len(a) = Buffers
    BY Sizes, FunctionIsSeq
  <2> QED
    BY <2>1, <2>2
<1>6. PICK y : y = [w EXCEPT !.bufs = c]
  OBVIOUS
<1>7. PICK slots : slots = [s \in 1 .. Slots |-> IF DirtyOf(y, w.slots[s]) = {} THEN None ELSE w.slots[s]]
  OBVIOUS
<1>8. x = [y EXCEPT !.slots = slots]
  <2>1. y = [w EXCEPT !.bufs = [i \in DOMAIN @ |-> IF @[i].g \in gone /\ @[i].id \in ids
                                                    THEN SpareBuf ELSE @[i]]]
    BY <1>2, <1>3, <1>6
  <2>2. x = [y EXCEPT !.slots = [s \in DOMAIN @ |-> IF DirtyOf(y, @[s]) = {} THEN None ELSE @[s]]]
    BY <2>1 DEF MarkEmpty
  <2>3. y.slots = w.slots
    BY <1>1, <1>6 DEF Work
  <2> QED
    BY <1>1, <1>7, <2>2, <2>3
<1>9. slots \in [1 .. Slots -> Groups \cup {None}]
  BY <1>1, <1>7
<1>10. y.bufs = c /\ y.slots = w.slots
  BY <1>1, <1>6 DEF Work
<1>11. /\ x \in Work /\ x.home = w.home /\ x.spare = w.spare /\ x.bufs = c /\ x.slots = slots
       /\ x.ret = w.ret /\ x.cuts = w.cuts
  <2>1. x = [w EXCEPT !.bufs = c, !.slots = slots]
    BY <1>6, <1>8
  <2> QED
    BY <1>1, <1>5, <1>9, <2>1 DEF Work
<1>12. Ends(x.bufs)
  <2>1. c[Buffers] = SpareBuf \/ c[Buffers] = w.bufs[Buffers]
    BY <1>4, Sizes
  <2>2. Single(c)
    <3>1. \A i \in 1 .. Buffers : Bound(c[i]) => c[i] = w.bufs[i]
      BY <1>4 DEF Bound, SpareBuf
    <3> QED
      BY <1>1, <3>1 DEF Single, Ends
  <2> QED
    BY <1>1, <1>5, <1>11, <2>1, <2>2 DEF Ends, SpareBuf
<1>13. \A i \in 1 .. Buffers : c[i].mark = "dirty" =>
         c[i] = w.bufs[i] /\ ~(w.bufs[i].g \in gone /\ w.bufs[i].id \in ids)
  BY <1>4 DEF SpareBuf
<1>14. \A g : DirtyOf(y, g) # {} <=> \E i \in 1 .. Buffers : c[i].mark = "dirty" /\ c[i].g = g
  BY <1>4, <1>10 DEF DirtyOf
<1>15. \A t \in 1 .. Slots : slots[t] = None \/
         (slots[t] = w.slots[t] /\ \E i \in 1 .. Buffers : c[i].mark = "dirty" /\ c[i].g = slots[t])
  BY <1>7, <1>14
<1>16. SlotsInv(x)
  <2>1. ASSUME NEW i \in 1 .. Buffers, c[i].mark = "dirty"
        PROVE  c[i].g \in Groups /\ \E s \in 1 .. Slots : slots[s] = c[i].g
    <3>1. c[i].g \in Groups /\ \E s \in 1 .. Slots : w.slots[s] = c[i].g
      BY <1>1, <1>13, <2>1 DEF SlotsInv
    <3>2. PICK s \in 1 .. Slots : w.slots[s] = c[i].g
      BY <3>1
    <3>3. slots[s] = c[i].g
      BY <1>7, <1>14, <2>1, <3>2
    <3> QED
      BY <3>1, <3>3
  <2>2. \A s, t \in 1 .. Slots : slots[s] = slots[t] /\ slots[s] # None => s = t
    BY <1>1, <1>15 DEF SlotsInv
  <2>3. \A s \in 1 .. Slots : slots[s] # None =>
          \E i \in 1 .. Buffers : c[i].mark = "dirty" /\ c[i].g = slots[s]
    BY <1>15
  <2> QED
    BY <1>11, <2>1, <2>2, <2>3 DEF SlotsInv
<1>17. Sound(x)
  BY <1>11, <1>12, <1>16 DEF Sound, Body, HeadsInv, CutsInv, BlocksInv
<1>18. NoneHeld(x)
  BY <1>4, <1>11 DEF NoneHeld, SpareBuf
<1>19. ASSUME Ids \in SUBSET ids, NEW t \in 1 .. Slots, slots[t] # None PROVE slots[t] \notin gone
  <2>1. PICK i \in 1 .. Buffers : c[i].mark = "dirty" /\ c[i].g = slots[t]
    BY <1>15, <1>19
  <2>2. c[i].id \in Ids
    BY <1>4 DEF Buffer
  <2> QED
    BY <1>13, <1>19, <2>1, <2>2
<1>20. \A t \in 1 .. Slots : slots[t] \in {w.slots[t], None}
  BY <1>15
<1>21. Lean(w) => Lean(x)
  <2>1. Drains(w, x)
    BY <1>1, <1>11, <1>12, <1>13, DirtyOnly
  <2> QED
    BY <1>1, <2>1, LeanStays
<1>22. Emptied(w, x, gone, ids)
  BY <1>3, <1>11 DEF Emptied
<1> QED
  BY <1>11, <1>17, <1>18, <1>19, <1>20, <1>21, <1>22 DEF SameTree
\* x is w without the block of g, and a power cut may leave it so
Bare(w, x, g) ==
  x.home = [w.home EXCEPT ![g] = NoBlock] /\ x.bufs = w.bufs /\ x.cuts = w.cuts \cup {Image(x)}
\* An erased block goes back to the erased list.
LEMMA ErasedIs ==
  ASSUME NEW w, Idle(w), NEW g \in Tree(w.home), \A t \in 1 .. Slots : w.slots[t] # g,
         NEW x, x = Erased(w, g)
  PROVE  /\ Idle(x) /\ x.ret = w.ret /\ Tree(x.home) = Tree(w.home) \ {g}
         /\ Bare(w, x, g)
<1>1. /\ w \in Work /\ w.home \in [Groups -> Block] /\ w.spare \in Int /\ g \in Groups
      /\ HeadsInv(w) /\ SlotsInv(w) /\ CutsInv(w) /\ BlocksInv(w) /\ Ends(w.bufs)
      /\ NoneHeld(w) /\ AtHome(w) /\ Lean(w)
  BY DEF Idle, Sound, Body, Work, Tree
<1>2. PICK home : home = [w.home EXCEPT ![g] = NoBlock]
  OBVIOUS
<1>0. PICK n \in Int : n = w.spare + 1
  BY <1>1
<1>3. PICK y : y = [w EXCEPT !.home = home, !.spare = n]
  OBVIOUS
<1>4. x = [y EXCEPT !.cuts = @ \cup {Image(y)}]
  <2>1. y = [w EXCEPT !.home[g] = NoBlock, !.spare = @ + 1]
    BY <1>0, <1>2, <1>3
  <2> QED
    BY <2>1 DEF Erased
<1>5. home \in [Groups -> Block] /\ home[g] = NoBlock /\ \A h \in Groups : h # g => home[h] = w.home[h]
  BY <1>1, <1>2, NoBlockType
<1>6. /\ y \in Work /\ y.home = home /\ y.spare = n /\ y.bufs = w.bufs
      /\ y.slots = w.slots /\ y.ret = w.ret /\ y.cuts = w.cuts
  BY <1>1, <1>3, <1>5 DEF Work
<1>7. Tree(home) = Tree(w.home) \ {g}
  BY <1>5 DEF Tree
<1>8. Cardinality(Tree(home)) = Cardinality(Tree(w.home)) - 1 /\ Cardinality(Tree(w.home)) \in Nat
      /\ Cardinality(Tree(home)) \in Nat
  <2>1. IsFiniteSet(Tree(w.home)) /\ Cardinality(Tree(w.home)) \in Nat /\ Cardinality(Tree(home)) \in Nat
    BY TreeFinite
  <2> QED
    BY <1>7, <2>1, FS_RemoveElement
<1>9. BlocksInv(y) /\ Cardinality(Tree(y.home)) < Blocks
  <2>1. w.spare + Cardinality(Tree(w.home)) = Blocks /\ w.spare >= 1
    BY <1>1 DEF BlocksInv
  <2>2. n + Cardinality(Tree(home)) = Blocks /\ n >= 1 /\ Cardinality(Tree(home)) < Blocks
    BY <1>0, <1>1, <1>8, <2>1, Sizes
  <2> QED
    BY <1>6, <2>2 DEF BlocksInv
<1>10. HeadsInv(y)
  <2> SUFFICES ASSUME NEW h \in Tree(home) PROVE Headed(home[h])
    BY <1>6 DEF HeadsInv
  <2>1. h \in Tree(w.home) /\ h # g /\ h \in Groups
    BY <1>7 DEF Tree
  <2>2. home[h] = w.home[h]
    BY <1>5, <2>1
  <2> QED
    BY <1>1, <2>1, <2>2 DEF HeadsInv
<1>11. ImageInv(Image(y))
  BY <1>6, <1>9, <1>10, ImageIs DEF HeadsInv
<1>12. PICK image : image = Image(y)
  OBVIOUS
<1>13. /\ x \in Work /\ x.home = home /\ x.spare = y.spare /\ x.bufs = w.bufs
       /\ x.slots = w.slots /\ x.ret = w.ret /\ x.cuts = w.cuts \cup {image}
  <2>1. image \in Images
    BY <1>11, <1>12 DEF ImageInv
  <2> QED
    BY <1>4, <1>6, <1>12, <2>1 DEF Work
<1>14. CutsInv(x)
  BY <1>1, <1>11, <1>12, <1>13 DEF CutsInv
<1>15. Sound(x)
  BY <1>1, <1>6, <1>9, <1>10, <1>13, <1>14 DEF Sound, Body, HeadsInv, SlotsInv, BlocksInv
<1>16. AtHome(x)
  <2>1. ASSUME NEW t \in 1 .. Slots, w.slots[t] # None PROVE home[w.slots[t]] # NoBlock
    <3>1. w.slots[t] \in Groups
      BY <1>1, <2>1 DEF Work
    <3> QED
      BY <1>1, <1>5, <2>1, <3>1 DEF AtHome
  <2> QED
    BY <1>13, <2>1 DEF AtHome
<1>17. Lean(x)
  BY <1>1, <1>13, LeanSame
<1>18. Image(x) = Image(y)
  BY <1>6, <1>13 DEF Image
<1>19. Bare(w, x, g)
  BY <1>2, <1>12, <1>13, <1>18 DEF Bare
<1> QED
  BY <1>1, <1>7, <1>13, <1>15, <1>16, <1>17, <1>19 DEF Idle, NoneHeld

-----------------------------------------------------------------------------
(* Where a position is *)

LEMMA MoreTimes ==
  ASSUME NEW a \in Nat, NEW b \in Nat, NEW n \in Nat, a <= b
  PROVE  a * n <= b * n
OBVIOUS

\* GetFdnByOfs and the page ids of uffs_fs.c: a position of a file lies on one of its
\* pages.
LEMMA PlaceIs ==
  ASSUME NEW p \in Int, p >= -1, p < HeadPages + MaxFdn * Pages
  PROVE  /\ FdnOf(p) \in 0 .. MaxFdn /\ IdOf(p) \in Ids
         /\ (p = -1 \/ (p = StartOf(FdnOf(p)) /\ FdnOf(p) > 0)) => IdOf(p) = 0
<1>1. Pages \in Nat /\ Pages >= 2 /\ MaxFdn \in Nat /\ HeadPages = Pages - 1
  BY Sizes DEF HeadPages
<1>2. CASE p < HeadPages
  <2>1. FdnOf(p) = 0
    BY <1>2 DEF FdnOf
  <2>2. IdOf(p) = p + 1
    BY <2>1 DEF IdOf
  <2> QED
    BY <1>1, <1>2, <2>1, <2>2 DEF Ids
<1>3. CASE p >= HeadPages
  <2> DEFINE q == p - HeadPages
             d == q \div Pages
             r == q % Pages
  <2>1. q \in Nat /\ q < MaxFdn * Pages
    BY <1>1, <1>3
  <2>2. d \in Nat /\ r \in 0 .. Pages - 1 /\ q = Pages * d + r
    BY <1>1, <2>1
  <2>3. FdnOf(p) = d + 1
    BY <1>1, <1>3 DEF FdnOf
  <2> HIDE DEF d, r
  <2>4. d < MaxFdn
    <3> SUFFICES ASSUME MaxFdn <= d PROVE FALSE
      BY <1>1, <2>2
    <3>1. MaxFdn * Pages <= d * Pages
      BY <1>1, <2>2, MoreTimes
    <3> QED
      BY <1>1, <2>1, <2>2, <3>1
  <2>5. StartOf(FdnOf(p)) = HeadPages + d * Pages
    BY <2>2, <2>3 DEF StartOf
  <2>6. IdOf(p) = r
    <3>1. IdOf(p) = p - (HeadPages + d * Pages)
      BY <2>2, <2>3, <2>5 DEF IdOf
    <3> QED
      BY <1>1, <2>2, <3>1
  <2>7. p = StartOf(FdnOf(p)) => r = 0
    <3> SUFFICES ASSUME p = HeadPages + d * Pages PROVE r = 0
      BY <2>5
    <3>1. q = d * Pages
      BY <1>1, <2>2
    <3> QED
      BY <1>1, <2>2, <3>1
  <2>8. p # -1
    BY <1>1, <1>3
  <2> QED
    BY <1>1, <2>2, <2>3, <2>4, <2>6, <2>7, <2>8 DEF Ids
<1> QED
  BY <1>1, <1>2, <1>3

LEMMA PositionIs ==
  ASSUME NEW p \in Positions
  PROVE  p \in Int /\ p >= -1 /\ p < HeadPages + MaxFdn * Pages /\ p + 1 \in 0 .. MaxLen
BY Sizes, StoreAssumption DEF Positions, HeadPages

LEMMA GroupIs ==
  ASSUME NEW f \in Files, NEW n \in 0 .. MaxFdn
  PROVE  <<f, n>> \in Groups /\ <<f, 0>> \in Groups
BY Sizes DEF Groups

\* What a read of a page would find is a version.
LEMMA PageVerType ==
  ASSUME NEW w \in Work, Ends(w.bufs), NEW g \in Groups, NEW id
  PROVE  PageVer(w, g, id) \in Vers
<1>1. CASE BufFind(w, g, id) # {}
  <2>1. PICK i : i = Min(BufFind(w, g, id))
    OBVIOUS
  <2>2. w.bufs[i] \in Buffer
    BY <1>1, <2>1, HitIs
  <2>3. PageVer(w, g, id) = w.bufs[i].ver
    BY <1>1, <2>1 DEF PageVer
  <2> QED
    BY <2>2, <2>3 DEF Buffer
<1>2. CASE BufFind(w, g, id) = {}
  <2>1. w.home[g] \in Block
    BY DEF Work
  <2> QED
    BY <1>2, <2>1, BestVerType DEF PageVer
<1> QED
  BY <1>1, <1>2

-----------------------------------------------------------------------------
(* The calls: each ends with the device in order, no page held and an answer that  *)
(* is no want of a buffer, of a slot or of a block to cover with; only a deletion  *)
(* takes a group out of the tree                                                   *)

LEMMA OpenedIs ==
  ASSUME Idle(dev), NEW f \in Files, NEW x, x = Opened(f)
  PROVE  Ended(dev, x) /\ SameTree(dev, x)
<1>1. PICK g : g = <<f, 0>>
  OBVIOUS
<1>2. g \in Groups
  BY <1>1, Sizes DEF Groups
<1>3. PICK id : id = 0
  OBVIOUS
<1>4. PICK y : y = BufGetEx(dev, g, id)
  OBVIOUS
<1>5. x = PutBack(y)
  BY <1>1, <1>3, <1>4 DEF Opened
<1> QED
  BY <1>2, <1>4, <1>5, PutBackIs

LEMMA ReadObjectIs ==
  ASSUME Idle(dev), NEW f \in Files, NEW p \in Positions, NEW x, x = ReadObject(f, p)
  PROVE  Ended(dev, x)
<1>1. PICK g : g = <<f, FdnOf(p)>>
  OBVIOUS
<1>2. g \in Groups
  BY <1>1, PositionIs, PlaceIs, GroupIs
<1>3. CASE dev.home[g] = NoBlock
  <2>1. x = [dev EXCEPT !.ret = "nonode"]
    BY <1>1, <1>3 DEF ReadObject
  <2>2. PICK ret \in {"full", "nonode"} : ret = "nonode"
    OBVIOUS
  <2> QED
    BY <2>1, <2>2, RefusedIs
<1>4. CASE dev.home[g] # NoBlock
  <2>1. PICK id : id = IdOf(p)
    OBVIOUS
  <2>2. PICK y : y = BufGetEx(dev, g, id)
    OBVIOUS
  <2>3. x = PutBack(y)
    BY <1>1, <1>4, <2>1, <2>2 DEF ReadObject
  <2> QED
    BY <1>2, <2>2, <2>3, PutBackIs
<1> QED
  BY <1>3, <1>4

LEMMA WriteNewIs ==
  ASSUME Idle(dev), NEW f \in Files, NEW p, FdnOf(p) \in 0 .. MaxFdn, IdOf(p) = 0,
         NEW v \in Vers, NEW x, x = WriteNew(f, p, v)
  PROVE  Ended(dev, x)
<1>1. PICK g : g = <<f, FdnOf(p)>>
  OBVIOUS
<1>2. g \in Groups
  BY <1>1, GroupIs
<1>3. MinErased = 2 /\ dev.spare \in Int
  BY StoreAssumption DEF Idle, Sound, Body, Work
<1>4. CASE dev.spare < 2
  <2>1. x = [dev EXCEPT !.ret = "full"]
    BY <1>3, <1>4 DEF WriteNew
  <2>2. PICK ret \in {"full", "nonode"} : ret = "full"
    OBVIOUS
  <2> QED
    BY <2>1, <2>2, RefusedIs
<1>5. CASE dev.spare >= 2
  <2>1. PICK id \in Ids : id = 0
    BY Sizes
  <2>2. PICK u : u = BufNew(dev, g, id)
    OBVIOUS
  <2>3. Got(dev, u, g, id)
    BY <1>2, <2>2, BufNewIs DEF Idle
  <2>4. PICK y : y = PutWritten(u, v)
    OBVIOUS
  <2>5. u.spare >= 2
    BY <1>5, <2>3 DEF Got, SameTree
  <2>6. Written(u, y, g) /\ NoneHeld(y)
    BY <1>2, <2>1, <2>3, <2>4, <2>5, PutWrittenIs DEF Got
  <2>7. x = [FlushGroup(y, g) EXCEPT !.ret = "ok"]
    <3>1. y = PutWritten(BufNew(dev, <<f, FdnOf(p)>>, IdOf(p)), v)
      BY <1>1, <2>1, <2>2, <2>4
    <3>2. ~(dev.spare < MinErased)
      BY <1>3, <1>5
    <3> QED
      BY <1>1, <2>6, <3>1, <3>2 DEF WriteNew, Written
  <2>8. PICK z : z = FlushGroup(y, g)
    OBVIOUS
  <2>9. PICK force : z = FlushGroupEx(y, g, force)
    BY <2>8 DEF FlushGroup
  <2>10. /\ Sound(z) /\ AtHome(z) /\ SameHeld(y, z) /\ Tree(y.home) \in SUBSET Tree(z.home)
    BY <1>2, <2>6, <2>9, FlushGroupIs DEF Written
  <2>11. x = [z EXCEPT !.ret = "ok"] /\ "ok" \in Answers /\ "ok" \notin {"fail", "nobuf", "loops"}
    BY <2>7, <2>8 DEF Answers
  <2>12. Sound(x) /\ x.ret = "ok" /\ x.home = z.home /\ x.bufs = z.bufs /\ AtHome(x)
    BY <2>10, <2>11, AnswerIs
  <2>13. NoneHeld(x)
    BY <2>6, <2>10, <2>12 DEF SameHeld, NoneHeld
  <2>14. Tree(dev.home) \in SUBSET Tree(x.home)
    BY <2>3, <2>6, <2>10, <2>12 DEF Got, SameTree, Written
  <2>15. Lean(x)
    <3>1. Lean(u)
      BY <2>3, LeanStays DEF Idle, Sound, Body, Got
    <3>2. Lean(y) /\ Ends(y.bufs) /\ Ends(z.bufs)
      BY <2>6, <2>10, <3>1 DEF Written, Sound, Body
    <3>3. Lean(z)
      BY <2>10, <3>2, LeanStays DEF SameHeld
    <3> QED
      BY <2>12, <3>2, <3>3, LeanSame
  <2> QED
    BY <2>11, <2>12, <2>13, <2>14, <2>15 DEF Ended, Idle, Fine
<1> QED
  BY <1>3, <1>4, <1>5

LEMMA WriteInternalIs ==
  ASSUME Idle(dev), NEW f \in Files, NEW p \in Positions, NEW v \in Vers,
         NEW x, x = WriteInternal(f, p, v)
  PROVE  Ended(dev, x)
<1>1. PICK g : g = <<f, FdnOf(p)>>
  OBVIOUS
<1>2. g \in Groups
  BY <1>1, PositionIs, PlaceIs, GroupIs
<1>3. CASE dev.home[g] = NoBlock
  <2>1. x = [dev EXCEPT !.ret = "nonode"]
    BY <1>1, <1>3 DEF WriteInternal
  <2>2. PICK ret \in {"full", "nonode"} : ret = "nonode"
    OBVIOUS
  <2> QED
    BY <2>1, <2>2, RefusedIs
<1>4. CASE dev.home[g] # NoBlock
  <2>1. PICK id \in Ids : id = IdOf(p)
    BY PositionIs, PlaceIs
  <2>2. PICK y : y = IF p = len[f] THEN BufNew(dev, g, id) ELSE BufGetEx(dev, g, id)
    OBVIOUS
  <2>3. x = PutWritten(y, v)
    BY <1>1, <1>4, <2>1, <2>2 DEF WriteInternal
  <2>4. Got(dev, y, g, id) \/ NotGot(dev, y)
    BY <1>2, <2>2, BufNewIs, BufGetIs DEF Idle
  <2>5. CASE Got(dev, y, g, id)
    <3>1. y.home[g] # NoBlock
      BY <1>2, <1>4, <2>5 DEF Got, SameTree, Tree
    <3>2. Written(y, x, g) /\ NoneHeld(x)
      BY <1>2, <2>3, <2>5, <3>1, PutWrittenIs DEF Got
    <3>3. Lean(y)
      BY <2>5, LeanStays DEF Idle, Sound, Body, Got
    <3> QED
      BY <2>5, <3>1, <3>2, <3>3 DEF Got, Written, Ended, Idle, Fine, Answers, SameTree
  <2>6. CASE NotGot(dev, y)
    <3>1. x = y
      BY <2>3, <2>6 DEF NotGot, PutWritten
    <3>2. Lean(x)
      BY <2>6, <3>1, LeanStays DEF NotGot, Idle, Sound, Body
    <3> QED
      BY <2>6, <3>1, <3>2 DEF NotGot, Ended, Idle, Fine, Answers, SameTree
  <2> QED
    BY <2>4, <2>5, <2>6
<1> QED
  BY <1>3, <1>4

LEMMA WriteObjectIs ==
  ASSUME Idle(dev), NEW f \in Files, NEW p \in Positions, NEW v \in Vers,
         NEW x, x = WriteObject(f, p, v)
  PROVE  Ended(dev, x)
<1>1. CASE StartsBlock(f, p)
  <2>1. FdnOf(p) \in 0 .. MaxFdn /\ IdOf(p) = 0
    BY <1>1, PositionIs, PlaceIs DEF StartsBlock
  <2>2. x = WriteNew(f, p, v)
    BY <1>1 DEF WriteObject
  <2> QED
    BY <2>1, <2>2, WriteNewIs
<1>2. CASE ~StartsBlock(f, p)
  <2>1. x = WriteInternal(f, p, v)
    BY <1>2 DEF WriteObject
  <2> QED
    BY <2>1, WriteInternalIs
<1> QED
  BY <1>1, <1>2

LEMMA MoveObjectIs ==
  ASSUME Idle(dev), NEW f \in Files, <<f, 0>> \in Tree(dev.home), NEW v \in Vers,
         NEW x, x = MoveObject(f, v)
  PROVE  Ended(dev, x)
<1>1. PICK g : g = <<f, 0>>
  OBVIOUS
<1>2. g \in Groups /\ g \in Tree(dev.home)
  BY <1>1 DEF Tree
<1>3. PICK o : o = Opened(f)
  OBVIOUS
<1>4. Ended(dev, o) /\ SameTree(dev, o)
  BY <1>3, OpenedIs
<1>5. CASE o.ret # "ok"
  <2>1. x = o
    BY <1>3, <1>5 DEF MoveObject
  <2> QED
    BY <1>4, <2>1
<1>6. CASE o.ret = "ok"
  <2>1. PICK id : id = 0
    OBVIOUS
  <2>2. PICK y : y = BufGetEx(o, g, id)
    OBVIOUS
  <2>3. Got(o, y, g, id) \/ NotGot(o, y)
    BY <1>2, <1>4, <2>2, BufGetIs DEF Ended, Idle
  <2>4. CASE Got(o, y, g, id)
    <3>1. PICK z : z = PutWritten(y, v)
      OBVIOUS
    <3>2. y.home[g] # NoBlock
      BY <1>2, <1>4, <2>4 DEF Got, SameTree, Tree
    <3>3. Written(y, z, g) /\ NoneHeld(z)
      BY <1>2, <2>4, <3>1, <3>2, PutWrittenIs DEF Got
    <3>4. PICK force : x = FlushGroupEx(z, g, force)
      <4>1. x = FlushGroupEx(z, g, TRUE)
        BY <1>1, <1>3, <1>6, <2>1, <2>2, <2>4, <3>1 DEF MoveObject, Got
      <4> QED
        BY <4>1
    <3>5. /\ Sound(x) /\ AtHome(x) /\ x.ret = "ok" /\ SameHeld(z, x)
          /\ Tree(z.home) \in SUBSET Tree(x.home)
      BY <1>2, <3>3, <3>4, FlushGroupIs DEF Written
    <3>6. Tree(dev.home) \in SUBSET Tree(x.home)
      BY <1>4, <2>4, <3>3, <3>5 DEF Got, SameTree, Written
    <3>7. Lean(x)
      <4>1. Lean(y)
        BY <1>4, <2>4, LeanStays DEF Ended, Idle, Sound, Body, Got
      <4>2. Lean(z) /\ Ends(z.bufs)
        BY <3>3, <4>1 DEF Written, Sound, Body
      <4> QED
        BY <3>5, <4>2, LeanStays DEF SameHeld
    <3> QED
      BY <3>3, <3>5, <3>6, <3>7 DEF Ended, Idle, Fine, Answers, SameHeld
  <2>5. CASE NotGot(o, y)
    <3>1. x = y
      BY <1>1, <1>3, <1>6, <2>1, <2>2, <2>5 DEF MoveObject, NotGot
    <3>2. Lean(x)
      BY <1>4, <2>5, <3>1, LeanStays DEF NotGot, Ended, Idle, Sound, Body
    <3> QED
      BY <1>4, <2>5, <3>1, <3>2 DEF NotGot, Ended, Idle, Fine, Answers, SameTree
  <2> QED
    BY <2>3, <2>4, <2>5
<1> QED
  BY <1>5, <1>6

LEMMA CloseIs ==
  ASSUME Idle(dev), NEW f \in Files, NEW x, x = FlushFile(dev, f)
  PROVE  Ended(dev, x)
<1>1. Sound(dev) /\ AtHome(dev) /\ Ends(dev.bufs) /\ Lean(dev) /\ NoneHeld(dev)
  BY DEF Idle, Sound, Body
<1>2. Flushes(dev, x)
  BY <1>1, FlushFileIs
<1>3. Lean(x)
  BY <1>1, <1>2, LeanStays DEF Flushes, SameHeld
<1> QED
  BY <1>1, <1>2, <1>3 DEF Flushes, Ended, Idle, Fine, Answers, SameHeld, SameTree

\* The tree without some groups is still one that can be mounted.
Dropped(w, home, gone) ==
  /\ home \in [Groups -> Block] /\ Tree(home) = Tree(w.home) \ gone
  /\ \A g \in Tree(home) : Headed(home[g])

LEMMA DropIs ==
  ASSUME NEW w, Sound(w), NEW gone, NEW home,
         home = [g \in Groups |-> IF g \in gone THEN NoBlock ELSE w.home[g]],
         NEW x, x = [w EXCEPT !.home = home]
  PROVE  Dropped(w, home, gone) /\ ImageInv(Image(x))
<1>1. /\ w \in Work /\ w.home \in [Groups -> Block] /\ HeadsInv(w) /\ BlocksInv(w)
  BY DEF Sound, Body, Work
<1>2. /\ home \in [Groups -> Block] /\ Tree(home) = Tree(w.home) \ gone
  BY <1>1, NoBlockType DEF Tree
<1>3. \A g \in Tree(home) : Headed(home[g])
  <2> SUFFICES ASSUME NEW g \in Tree(home) PROVE Headed(home[g])
    OBVIOUS
  <2>1. g \in Tree(w.home) /\ g \notin gone /\ g \in Groups
    BY <1>2 DEF Tree
  <2> QED
    BY <1>1, <2>1 DEF HeadsInv
<1>4. x \in Work /\ x.home = home
  BY <1>1, <1>2 DEF Work
<1>5. Cardinality(Tree(home)) < Blocks
  <2>1. /\ IsFiniteSet(Tree(w.home)) /\ Cardinality(Tree(w.home)) \in Nat
        /\ Cardinality(Tree(home)) \in Nat
    BY TreeFinite
  <2>2. Cardinality(Tree(home)) <= Cardinality(Tree(w.home))
    BY <1>2, <2>1, FS_Subset
  <2> QED
    BY <1>1, <2>1, <2>2, Sizes DEF BlocksInv, Work
<1> QED
  BY <1>2, <1>3, <1>4, <1>5, ImageIs DEF Dropped

\* the blocks without those of the data from number k on
Without(w, f, k) ==
  [g \in Groups |-> IF g \in {h \in DataBlocks(f) : h[2] >= k} THEN NoBlock ELSE w.home[g]]
\* of x the data blocks are gone, and a power cut may leave the first of them
DataGone(w, x, f) ==
  /\ \A g \in DataBlocks(f) : g \in Groups /\ g[1] = f /\ g[2] >= 1 /\ w.home[g] # NoBlock
  /\ \E y : /\ y.home = Without(w, f, 1) /\ y.bufs = w.bufs
            /\ y.cuts = w.cuts \cup {Image([w EXCEPT !.home = Without(w, f, k)]) : k \in 1 .. MaxFdn}
            /\ Emptied(y, x, DataBlocks(f), Ids)
\* do_TruncateObject: no other file loses a block.
LEMMA TruncateDataIs ==
  ASSUME NEW w, Idle(w), NEW f \in Files, len[f] \in 0 .. HeadPages + MaxFdn * Pages,
         NEW x, x = TruncateData(w, f)
  PROVE  /\ Idle(x) /\ x.ret \in {"ok", "nonode"}
         /\ \A e \in Files : <<e, 0>> \in Tree(w.home) => <<e, 0>> \in Tree(x.home)
         /\ x.ret = "ok" => DataGone(w, x, f)
         /\ x.ret = "nonode" => /\ x = [w EXCEPT !.ret = "nonode"]
                                /\ \E g \in DataBlocks(f) : w.home[g] = NoBlock
<1>1. /\ w \in Work /\ w.home \in [Groups -> Block] /\ w.spare \in Int /\ Sound(w) /\ AtHome(w)
      /\ NoneHeld(w) /\ Lean(w) /\ Ends(w.bufs)
  BY DEF Idle, Sound, Body, Work
<1>2. PICK D : D = DataBlocks(f)
  OBVIOUS
<1>3. D \in SUBSET Groups /\ \A g \in D : g[2] >= 1 /\ \A e \in Files : <<e, 0>> \notin D
  <2>1. HeadPages + MaxFdn * Pages \in Nat
    BY Sizes DEF HeadPages
  <2>2. len[f] - 1 \in Int /\ len[f] - 1 >= -1 /\ len[f] - 1 < HeadPages + MaxFdn * Pages
    BY <2>1
  <2>3. FdnOf(len[f] - 1) \in 0 .. MaxFdn
    BY <2>2, PlaceIs
  <2> QED
    BY <1>2, <2>3, Sizes DEF DataBlocks, Groups
<1>4. CASE \E g \in D : w.home[g] = NoBlock
  <2>1. x = [w EXCEPT !.ret = "nonode"]
    BY <1>2, <1>4 DEF TruncateData
  <2>2. PICK ret \in {"full", "nonode"} : ret = "nonode"
    OBVIOUS
  <2>3. Ended(w, x) /\ x.ret = "nonode"
    BY <1>1, <2>1, <2>2, RefusedIs DEF Work
  <2> QED
    BY <1>2, <1>4, <2>1, <2>3 DEF Ended
<1>5. CASE \A g \in D : w.home[g] # NoBlock
  <2> DEFINE Truncated(k) == [g \in Groups |-> IF g \in {h \in D : h[2] >= k} THEN NoBlock ELSE w.home[g]]
             cuts == {Image([w EXCEPT !.home = Truncated(k)]) : k \in 1 .. MaxFdn}
  <2>1. PICK home : home = [g \in Groups |-> IF g \in D THEN NoBlock ELSE w.home[g]]
    OBVIOUS
  <2>2. home = Truncated(1)
    BY <1>3, <2>1
  <2>3. PICK y : y = [w EXCEPT !.ret = "ok", !.home = home, !.spare = @ + Cardinality(D),
                               !.cuts = @ \cup cuts]
    OBVIOUS
  <2>4. x = MarkEmpty(y, D, Ids)
    BY <1>2, <1>5, <2>2, <2>3 DEF TruncateData
  <2>5. \A image \in cuts : ImageInv(image)
    <3> SUFFICES ASSUME NEW k \in 1 .. MaxFdn PROVE ImageInv(Image([w EXCEPT !.home = Truncated(k)]))
      OBVIOUS
    <3>1. PICK gone : gone = {h \in D : h[2] >= k}
      OBVIOUS
    <3>2. PICK part : part = [g \in Groups |-> IF g \in gone THEN NoBlock ELSE w.home[g]]
      OBVIOUS
    <3>3. PICK z : z = [w EXCEPT !.home = part]
      OBVIOUS
    <3>4. ImageInv(Image(z))
      BY <1>1, <3>2, <3>3, DropIs
    <3> QED
      BY <3>1, <3>2, <3>3, <3>4
  <2> HIDE DEF cuts, Truncated
  <2>6. cuts \in SUBSET Images
    BY <2>5 DEF ImageInv
  <2>7. home \in [Groups -> Block] /\ Tree(home) = Tree(w.home) \ D /\ \A g \in Tree(home) : Headed(home[g])
    <3>1. PICK gone : gone = D
      OBVIOUS
    <3>2. PICK part : part = [g \in Groups |-> IF g \in gone THEN NoBlock ELSE w.home[g]]
      OBVIOUS
    <3>3. PICK z : z = [w EXCEPT !.home = part]
      OBVIOUS
    <3>4. Dropped(w, part, gone)
      BY <1>1, <3>2, <3>3, DropIs
    <3>5. part = home
      BY <2>1, <3>1, <3>2
    <3> QED
      BY <3>1, <3>4, <3>5 DEF Dropped
  <2>8. /\ Cardinality(D) \in Nat /\ Cardinality(Tree(home)) \in Nat /\ Cardinality(Tree(w.home)) \in Nat
        /\ Cardinality(Tree(home)) + Cardinality(D) = Cardinality(Tree(w.home))
    <3>1. D \in SUBSET Tree(w.home)
      BY <1>3, <1>5 DEF Tree
    <3>2. /\ IsFiniteSet(Tree(w.home)) /\ Cardinality(Tree(w.home)) \in Nat
          /\ IsFiniteSet(Tree(home)) /\ Cardinality(Tree(home)) \in Nat
      BY TreeFinite
    <3>3. IsFiniteSet(D) /\ Cardinality(D) \in Nat
      BY <3>1, <3>2, FS_Subset, FS_CardinalityType
    <3>4. Tree(home) \cup D = Tree(w.home) /\ Tree(home) \cap D = {}
      BY <2>7, <3>1
    <3>5. Cardinality(Tree(home) \cup D) =
            Cardinality(Tree(home)) + Cardinality(D) - Cardinality(Tree(home) \cap D)
      BY <3>2, <3>3, FS_Union
    <3>6. Cardinality(Tree(w.home)) = Cardinality(Tree(home)) + Cardinality(D) - Cardinality({})
      BY <3>4, <3>5, Zenon
    <3>7. Cardinality({}) = 0
      BY FS_EmptySet
    <3> QED
      BY <3>2, <3>3, <3>6, <3>7
  <2>9. PICK n \in Int : n = w.spare + Cardinality(D)
    BY <1>1, <2>8
  <2>10. PICK c : c = w.cuts \cup cuts
    OBVIOUS
  <2>11. c \in SUBSET Images
    BY <1>1, <2>6, <2>10 DEF Work
  <2>12. y = [w EXCEPT !.ret = "ok", !.home = home, !.spare = n, !.cuts = c]
    BY <2>3, <2>9, <2>10
  <2>13. /\ y \in Work /\ y.home = home /\ y.spare = n /\ y.bufs = w.bufs /\ y.slots = w.slots
         /\ y.ret = "ok" /\ y.cuts = c
    BY <1>1, <2>7, <2>11, <2>12 DEF Work, Answers
  <2>14. BlocksInv(y)
    <3>1. w.spare + Cardinality(Tree(w.home)) = Blocks /\ w.spare >= 1
      BY <1>1 DEF Sound, BlocksInv
    <3>2. n + Cardinality(Tree(home)) = Blocks /\ n >= 1
      BY <1>1, <2>8, <2>9, <3>1, Sizes
    <3> QED
      BY <2>13, <3>2 DEF BlocksInv
  <2>15. HeadsInv(y)
    BY <2>7, <2>13 DEF HeadsInv
  <2>16. CutsInv(y)
    BY <1>1, <2>5, <2>10, <2>13 DEF CutsInv, Sound, Body
  <2>17. Sound(y) /\ NoneHeld(y) /\ Lean(y)
    <3>1. Lean(y)
      BY <1>1, <2>13, LeanSame
    <3> QED
      BY <1>1, <2>13, <2>14, <2>15, <2>16, <3>1 DEF Sound, Body, SlotsInv, NoneHeld
  <2>18. PICK ids : ids = Ids
    OBVIOUS
  <2>19. /\ Sound(x) /\ NoneHeld(x) /\ Lean(x) /\ x.home = y.home /\ x.ret = y.ret
         /\ \A t \in 1 .. Slots : x.slots[t] \in {y.slots[t], None}
         /\ \A t \in 1 .. Slots : x.slots[t] # None => x.slots[t] \notin D
    BY <2>4, <2>17, <2>18, MarkEmptyIs
  <2>22. Emptied(y, x, D, Ids)
    BY <2>4, <2>17, MarkEmptyIs
  <2>23. DataGone(w, x, f)
    <3>1. \A g \in D : g \in Groups /\ g[1] = f /\ g[2] >= 1 /\ w.home[g] # NoBlock
      BY <1>2, <1>3, <1>5 DEF DataBlocks
    <3>2. y.home = Without(w, f, 1)
      BY <1>2, <1>3, <2>2, <2>13 DEF Without, Truncated
    <3>3. cuts = {Image([w EXCEPT !.home = Without(w, f, k)]) : k \in 1 .. MaxFdn}
      BY <1>2 DEF cuts, Truncated, Without
    <3> QED
      BY <1>2, <2>10, <2>13, <2>22, <3>1, <3>2, <3>3 DEF DataGone
  <2>20. AtHome(x)
    <3> SUFFICES ASSUME NEW t \in 1 .. Slots, x.slots[t] # None PROVE home[x.slots[t]] # NoBlock
      BY <2>13, <2>19 DEF AtHome
    <3>1. x.slots[t] = w.slots[t] /\ x.slots[t] \notin D
      BY <2>13, <2>19
    <3>2. w.slots[t] \in Groups
      BY <1>1, <3>1 DEF Work
    <3>3. w.home[w.slots[t]] # NoBlock
      BY <1>1, <3>1 DEF AtHome
    <3> QED
      BY <2>1, <3>1, <3>2, <3>3
  <2>21. \A e \in Files : <<e, 0>> \in Tree(w.home) => <<e, 0>> \in Tree(x.home)
    BY <1>3, <2>7, <2>13, <2>19
  <2> QED
    BY <2>13, <2>19, <2>20, <2>21, <2>23 DEF Idle
<1> QED
  BY <1>4, <1>5

\* page 1 is dirty without data, the buffers of the pages behind it are gone, and the
\* block is covered with page 0 alone
HeadWritten(y, x, g) ==
  \E z, pages : /\ Emptied(PutWritten(y, 0), z, {g}, Ids \ {0, 1}) /\ Sound(z) /\ RoomFor(z, g)
                /\ pages = <<[id |-> 0, ver |-> PageVer(z, g, 0)]>> /\ Leading(pages)
                /\ x = CoverWith(z, g, pages, 1)
HeadCut(w, x, g) ==
  \E u, y : \E force \in BOOLEAN :
    /\ u = FlushGroupEx(w, g, force) /\ Idle(u) /\ y = BufGetEx(u, g, 1)
    /\ \/ NotGot(u, y) /\ x = [y EXCEPT !.ret = "loops"]
       \/ Got(u, y, g, 1) /\ HeadWritten(y, x, g)
\* do_TruncateInternalWithBlockRecover of the head, or it goes on for ever.
LEMMA TruncateHeadIs ==
  ASSUME NEW w, Idle(w), NEW f \in Files, <<f, 0>> \in Tree(w.home), NEW x, x = TruncateHead(w, f)
  PROVE  /\ Idle(x) /\ x.ret \in {"ok", "loops"} /\ SameTree(w, x)
         /\ HeadCut(w, x, <<f, 0>>)
<1>1. PICK g : g = <<f, 0>>
  OBVIOUS
<1>2. g \in Groups /\ g \in Tree(w.home)
  BY <1>1 DEF Tree
<1>3. PICK u : u = FlushGroup(w, g)
  OBVIOUS
<1>4. PICK force \in BOOLEAN : u = FlushGroupEx(w, g, force)
  BY <1>3 DEF FlushGroup
<1>5. Ready(w, g) /\ Sound(w) /\ AtHome(w) /\ NoneHeld(w)
  BY DEF Idle, Ready, AtHome
<1>6. Sound(u) /\ AtHome(u) /\ SameHeld(w, u) /\ SameTree(w, u)
  BY <1>2, <1>4, <1>5, FlushGroupIs
<1>7. NoneHeld(u)
  BY <1>5, <1>6 DEF SameHeld
<1>8. PICK id : id = 1
  OBVIOUS
<1>9. PICK y : y = BufGetEx(u, g, id)
  OBVIOUS
<1>13. Idle(u)
  <2>1. Lean(u)
    BY <1>6, LeanStays DEF Idle, Sound, Body, SameHeld
  <2> QED
    BY <1>6, <1>7, <2>1 DEF Idle
<1>10. Got(u, y, g, id) \/ NotGot(u, y)
  BY <1>2, <1>6, <1>7, <1>9, BufGetIs
<1>11. CASE NotGot(u, y)
  <2>1. x = [y EXCEPT !.ret = "loops"]
    BY <1>1, <1>3, <1>8, <1>9, <1>11 DEF TruncateHead, NotGot
  <2>2. "loops" \in Answers
    BY DEF Answers
  <2>3. Sound(x) /\ x.ret = "loops" /\ SameHeld(y, x) /\ SameTree(y, x) /\ AtHome(x)
    BY <1>11, <2>1, <2>2, AnswerIs DEF NotGot
  <2>4. Lean(x)
    <3>1. Drains(w, x)
      BY <1>6, <1>11, <2>3 DEF NotGot, SameHeld, Drains
    <3> QED
      BY <3>1, LeanStays DEF Idle, Sound, Body
  <2>5. HeadCut(w, x, g)
    <3>1. y = BufGetEx(u, g, 1)
      BY <1>8, <1>9
    <3> QED
      BY <1>4, <1>11, <1>13, <2>1, <3>1, Zenon DEF HeadCut
  <2> QED
    BY <1>1, <1>6, <1>11, <2>3, <2>4, <2>5 DEF NotGot, Idle, SameHeld, SameTree
<1>12. CASE Got(u, y, g, id)
  <2>1. PICK v \in Vers : v = 0
    BY Sizes
  <2>2. PICK a : a = PutWritten(y, v)
    OBVIOUS
  <2>3. y.home[g] # NoBlock
    BY <1>2, <1>6, <1>12 DEF Got, SameTree, Tree
  <2>4. Written(y, a, g) /\ NoneHeld(a)
    BY <1>2, <1>12, <2>2, <2>3, PutWrittenIs DEF Got
  <2>21. Lean(a)
    <3>1. Drains(w, y)
      BY <1>6, <1>12 DEF Got, SameHeld, Drains
    <3>2. Lean(y)
      BY <3>1, LeanStays DEF Idle, Sound, Body
    <3> QED
      BY <2>4, <3>2 DEF Written
  <2>5. PICK gone, ids : gone = {g} /\ ids = Ids \ {0, 1}
    OBVIOUS
  <2>6. PICK z : z = MarkEmpty(a, gone, ids)
    OBVIOUS
  <2>7. /\ Sound(z) /\ NoneHeld(z) /\ SameTree(a, z) /\ z.home = a.home /\ Lean(z)
        /\ \A t \in 1 .. Slots : z.slots[t] \in {a.slots[t], None}
        /\ Emptied(a, z, gone, ids)
    BY <2>4, <2>6, <2>21, MarkEmptyIs DEF Written
  <2>8. AtHome(z)
    BY <2>3, <2>4, <2>7 DEF AtHome, Written
  <2>9. SameTree(w, z)
    BY <1>6, <1>12, <2>3, <2>4, <2>7 DEF Got, Written, SameTree
  <2>10. /\ z \in Work /\ Ends(z.bufs) /\ Body(z) /\ z.spare \in Int /\ z.spare >= 1
         /\ z.spare + Cardinality(Tree(z.home)) = Blocks
    BY <2>7 DEF Sound, Body, BlocksInv, Work
  <2>11. PICK pages : pages = <<[id |-> 0, ver |-> PageVer(z, g, 0)]>>
    OBVIOUS
  <2>12. Leading(pages)
    <3>1. PageVer(z, g, 0) \in Vers
      BY <1>2, <2>10, PageVerType
    <3>2. PICK p : p = [id |-> 0, ver |-> PageVer(z, g, 0)]
      OBVIOUS
    <3>3. p \in PageSet /\ p.id = 0
      BY <3>1, <3>2, Sizes DEF PageSet
    <3>4. pages = <<p>>
      BY <2>11, <3>2
    <3>5. <<p>> \in Seq(PageSet) /\ <<p>> # <<>> /\ <<p>>[1] = p
      BY <3>3
    <3> QED
      BY <3>3, <3>4, <3>5 DEF Leading
  <2>13. RoomFor(z, g) /\ Tree(z.home) \cup {g} = Tree(z.home)
    <3>1. g \in Tree(z.home)
      BY <1>2, <2>9 DEF SameTree
    <3>2. Cardinality(Tree(z.home) \cup {g}) = Cardinality(Tree(z.home))
          /\ Cardinality(Tree(z.home)) \in Nat
      BY <3>1, TreeFinite
    <3> QED
      BY <2>10, <3>1, <3>2, Sizes DEF RoomFor
  <2>14. x = CoverWith(z, g, pages, 1)
    <3>1. FreeBufs(z) # {} /\ z.spare # 0
      BY <2>10, LastIsFree
    <3>2. z = MarkEmpty(PutWritten(y, 0), {g}, Ids \ {0, 1})
      BY <2>1, <2>2, <2>5, <2>6
    <3>3. y = BufGetEx(FlushGroup(w, g), g, 1) /\ y.ret = "ok"
      BY <1>3, <1>8, <1>9, <1>12 DEF Got
    <3> DEFINE Covered(c) == IF c.spare = 0 \/ FreeBufs(c) = {} THEN Failed(c)
                 ELSE CoverWith(c, <<f, 0>>, <<[id |-> 0, ver |-> PageVer(c, <<f, 0>>, 0)]>>, 1)
               Dirtied(c) == IF c.ret # "ok" THEN [c EXCEPT !.ret = "loops"]
                 ELSE Covered(MarkEmpty(PutWritten(c, 0), {<<f, 0>>}, Ids \ {0, 1}))
    <3>4. x = Dirtied(BufGetEx(FlushGroup(w, <<f, 0>>), <<f, 0>>, 1))
      BY Zenon DEF TruncateHead
    <3>5. Covered(z) = CoverWith(z, g, pages, 1)
      BY <1>1, <2>11, <3>1
    <3> HIDE DEF Covered
    <3>6. x = Dirtied(y)
      BY <1>1, <3>3, <3>4, Zenon
    <3>7. Dirtied(y) = Covered(z)
      BY <1>1, <3>2, <3>3, Zenon
    <3> QED
      BY <3>5, <3>6, <3>7
  <2>15. PICK copies \in Nat : copies = 1
    OBVIOUS
  <2>16. Body(x) /\ Tree(x.home) = Tree(z.home) \cup {g} /\ x.spare = z.spare /\ Flushed(z, x, g)
    BY <1>2, <2>10, <2>12, <2>13, <2>14, <2>15, CoverWithIs
  <2>17. SameTree(z, x)
    BY <2>13, <2>16 DEF SameTree
  <2>18. Sound(x)
    BY <2>7, <2>16, <2>17 DEF Sound, BlocksInv, SameTree
  <2>19. SameHeld(z, x)
    BY <2>10, <2>16, KeptHeld DEF Flushed, Body
  <2>20. AtHome(x)
    <3>1. \A t \in 1 .. Slots : x.slots[t] = IF z.slots[t] = g THEN None ELSE z.slots[t]
      BY <2>16 DEF Flushed, Cleared
    <3>2. z.slots \in [1 .. Slots -> Groups \cup {None}]
      BY <2>10 DEF Work
    <3> QED
      BY <2>8, <2>16, <3>1, <3>2 DEF AtHome, Flushed
  <2>22. Lean(x)
    BY <2>7, <2>10, <2>19, LeanStays DEF SameHeld
  <2>23. HeadWritten(y, x, g)
    BY <2>1, <2>2, <2>5, <2>7, <2>10, <2>11, <2>12, <2>13, <2>14 DEF HeadWritten
  <2>24. HeadCut(w, x, g)
    BY <1>4, <1>8, <1>9, <1>12, <1>13, <2>23 DEF HeadCut
  <2> QED
    BY <1>1, <2>7, <2>9, <2>16, <2>17, <2>18, <2>19, <2>20, <2>22, <2>24 DEF Idle, SameHeld, SameTree, Flushed
<1> QED
  BY <1>10, <1>11, <1>12

\* The head of every other file stays in the tree.
OthersStay(w, x, f) ==
  \A e \in Files : e # f /\ <<e, 0>> \in Tree(w.home) => <<e, 0>> \in Tree(x.home)

\* the whole of uffs_DeleteObject: the data is truncated, then the head, then everything
\* is flushed and the head block erased
HeadGone(h, x, g) ==
  \E a, m : /\ Idle(a) /\ a = FlushSlots(h, Groups) /\ \A s \in 1 .. Slots : a.slots[s] = None
            /\ Emptied(a, m, {g}, {0}) /\ Idle(m) /\ g \in Tree(m.home)
            /\ \A s \in 1 .. Slots : m.slots[s] # g
            /\ x = Erased(m, g)
DeletedBy(o, x, f) ==
  \E t, h : /\ Idle(t) /\ t = TruncateData(o, f) /\ <<f, 0>> \in Tree(t.home)
            /\ Idle(h) /\ h = IF t.ret = "ok" /\ len[f] > 0 THEN TruncateHead(t, f) ELSE t
            /\ IF h.ret = "loops" THEN x = h ELSE HeadGone(h, x, <<f, 0>>)
LEMMA DeleteObjectIs ==
  ASSUME Idle(dev), NEW f \in Files, <<f, 0>> \in Tree(dev.home),
         len[f] \in 0 .. HeadPages + MaxFdn * Pages, NEW x, x = DeleteObject(f)
  PROVE  /\ Idle(x) /\ (x.ret = "loops" \/ Fine(x)) /\ OthersStay(dev, x, f)
         /\ \E o : /\ o = Opened(f) /\ Idle(o)
                   /\ IF o.ret = "ok" THEN DeletedBy(o, x, f) ELSE x = o
<1>1. PICK g : g = <<f, 0>>
  OBVIOUS
<1>2. g \in Groups /\ g \in Tree(dev.home)
  BY <1>1 DEF Tree
<1>3. PICK o : o = Opened(f)
  OBVIOUS
<1>4. Ended(dev, o) /\ SameTree(dev, o)
  BY <1>3, OpenedIs
<1>5. CASE o.ret # "ok"
  <2>1. x = o
    BY <1>3, <1>5 DEF DeleteObject
  <2> QED
    BY <1>3, <1>4, <1>5, <2>1 DEF Ended, OthersStay
<1>6. CASE o.ret = "ok"
  <2>1. PICK t : t = TruncateData(o, f)
    OBVIOUS
  <2>2. /\ Idle(t) /\ t.ret \in {"ok", "nonode"}
        /\ \A e \in Files : <<e, 0>> \in Tree(o.home) => <<e, 0>> \in Tree(t.home)
    BY <1>4, <2>1, TruncateDataIs DEF Ended
  <2>3. \A e \in Files : <<e, 0>> \in Tree(dev.home) => <<e, 0>> \in Tree(t.home)
    BY <1>4, <2>2 DEF SameTree
  <2>4. PICK h : h = IF t.ret = "ok" /\ len[f] > 0 THEN TruncateHead(t, f) ELSE t
    OBVIOUS
  <2>5. Idle(h) /\ h.ret \in {"ok", "nonode", "loops"} /\ SameTree(t, h)
    <3>1. CASE t.ret = "ok" /\ len[f] > 0
      <4>1. h = TruncateHead(t, f)
        BY <2>4, <3>1
      <4>2. <<f, 0>> \in Tree(t.home)
        BY <2>3
      <4>3. Idle(h) /\ h.ret \in {"ok", "loops"} /\ SameTree(t, h)
        BY <2>2, <4>1, <4>2, TruncateHeadIs
      <4> QED
        BY <4>3
    <3>2. CASE ~(t.ret = "ok" /\ len[f] > 0)
      BY <2>2, <2>4, <3>2 DEF SameTree
    <3> QED
      BY <3>1, <3>2
  <2>6. \A e \in Files : <<e, 0>> \in Tree(dev.home) => <<e, 0>> \in Tree(h.home)
    BY <2>3, <2>5 DEF SameTree
  <2>7. CASE h.ret = "loops"
    <3>1. x = h
      BY <1>3, <1>6, <2>1, <2>4, <2>7 DEF DeleteObject
    <3>2. DeletedBy(o, x, f)
      BY <2>1, <2>2, <2>3, <2>4, <2>5, <2>7, <3>1 DEF DeletedBy
    <3> QED
      BY <1>3, <1>4, <1>6, <2>5, <2>6, <2>7, <3>1, <3>2 DEF OthersStay, Ended
  <2>8. CASE h.ret # "loops"
    <3>1. PICK a : a = FlushAll(h)
      OBVIOUS
    <3>2. PICK wanted : wanted = Groups
      OBVIOUS
    <3>3. Flushes(h, a) /\ \A s \in 1 .. Slots : a.slots[s] = None
      <4>1. a = FlushSlots(h, wanted) /\ Groups \in SUBSET wanted
        BY <3>1, <3>2 DEF FlushAll
      <4> QED
        BY <2>5, <4>1, FlushSlotsIs DEF Idle
    <3>4. Idle(a) /\ a.ret = "ok" /\ SameTree(h, a)
      <4>1. Lean(a)
        BY <2>5, <3>3, LeanStays DEF Idle, Sound, Body, Flushes, SameHeld
      <4> QED
        BY <2>5, <3>3, <4>1 DEF Idle, Flushes, SameHeld
    <3>5. PICK gone, ids : gone = {g} /\ ids = {0}
      OBVIOUS
    <3>6. PICK m : m = MarkEmpty(a, gone, ids)
      OBVIOUS
    <3>7. /\ Sound(m) /\ NoneHeld(m) /\ SameTree(a, m) /\ m.home = a.home /\ m.ret = a.ret
          /\ Lean(m)
          /\ \A s \in 1 .. Slots : m.slots[s] \in {a.slots[s], None}
          /\ Emptied(a, m, gone, ids)
      BY <3>4, <3>6, MarkEmptyIs DEF Idle
    <3>8. \A s \in 1 .. Slots : m.slots[s] = None
      BY <3>3, <3>7
    <3>9. Idle(m)
      BY <3>7, <3>8 DEF Idle, AtHome
    <3>10. x = Erased(m, g)
      <4>1. m = MarkEmpty(FlushAll(h), {<<f, 0>>}, {0})
        BY <1>1, <3>1, <3>5, <3>6
      <4> QED
        BY <1>1, <1>3, <1>6, <2>1, <2>4, <2>8, <4>1 DEF DeleteObject
    <3>11. g \in Tree(m.home)
      BY <1>1, <1>2, <2>6, <3>4, <3>7 DEF SameTree
    <3>12. Idle(x) /\ x.ret = m.ret /\ Tree(x.home) = Tree(m.home) \ {g}
      <4>1. \A s \in 1 .. Slots : m.slots[s] # g
        BY <1>2, <3>8, Sizes
      <4> QED
        BY <3>9, <3>10, <3>11, <4>1, ErasedIs
    <3>13. Fine(x)
      BY <3>4, <3>7, <3>12 DEF Fine, Answers
    <3>14. OthersStay(dev, x, f)
      BY <1>1, <2>6, <3>4, <3>7, <3>12 DEF OthersStay, SameTree
    <3>15. HeadGone(h, x, g)
      <4>1. \A s \in 1 .. Slots : m.slots[s] # g
        BY <1>2, <3>8, Sizes
      <4>2. a = FlushSlots(h, Groups)
        BY <3>1 DEF FlushAll
      <4> QED
        BY <3>3, <3>4, <3>5, <3>7, <3>9, <3>10, <3>11, <4>1, <4>2 DEF HeadGone
    <3>16. DeletedBy(o, x, f)
      BY <1>1, <2>1, <2>2, <2>3, <2>4, <2>5, <2>8, <3>15 DEF DeletedBy
    <3> QED
      BY <1>3, <1>4, <1>6, <3>12, <3>13, <3>14, <3>16 DEF Ended
  <2> QED
    BY <2>7, <2>8
<1> QED
  BY <1>5, <1>6

-----------------------------------------------------------------------------
(* Mounting *)

\* _BuildValidTreeNode: of the blocks that claim a group, one that starts with page 0
\* is kept, or none.
LEMMA KeepIs ==
  ASSUME NEW S \in SUBSET Block, Claim(S)
  PROVE  Keep(S) = NoBlock \/ (Keep(S) \in S /\ Headed(Keep(S)))
<1>1. CASE Valid(S) = {}
  BY <1>1 DEF Keep
<1>2. CASE Valid(S) # {}
  <2>1. \E b \in Valid(S) : \A c \in Valid(S) : c = b \/ ~Newer(b.ts, c.ts)
    <3>1. PICK t \in 0 .. 2 : \A b \in S : b.ts \in {t, NextStamp(t)}
      BY DEF Claim
    <3>2. Valid(S) \in SUBSET S
      BY DEF Valid
    <3>3. /\ NextStamp(t) \in 0 .. 2
          /\ ~Newer(t, t) /\ ~Newer(t, NextStamp(t)) /\ ~Newer(NextStamp(t), NextStamp(t))
      <4>1. CASE t = 0
        BY <4>1 DEF NextStamp, Newer
      <4>2. CASE t = 1
        BY <4>2 DEF NextStamp, Newer
      <4>3. CASE t = 2
        BY <4>3 DEF NextStamp, Newer
      <4> QED
        BY <4>1, <4>2, <4>3
    <3>4. CASE \E b \in Valid(S) : b.ts = t
      BY <3>1, <3>2, <3>3, <3>4
    <3>5. CASE \A b \in Valid(S) : b.ts # t
      <4>1. PICK b \in Valid(S) : TRUE
        BY <1>2
      <4>2. \A c \in Valid(S) : c.ts = NextStamp(t)
        BY <3>1, <3>2, <3>5
      <4> QED
        BY <3>3, <4>1, <4>2
    <3> QED
      BY <3>4, <3>5
  <2>2. PICK b : b = Keep(S)
    OBVIOUS
  <2>3. b \in Valid(S)
    BY <1>2, <2>1, <2>2 DEF Keep
  <2>4. b \in S /\ b.pages # <<>> /\ b.pages[1] # Dead /\ Begun(b.pages)
    BY <2>3 DEF Valid, Claim
  <2> QED
    BY <2>2, <2>4 DEF Begun, Headed
<1> QED
  BY <1>1, <1>2

\* uffs_Mount, of whatever a power cut may leave.
LEMMA MountedIs ==
  ASSUME NEW image, ImageInv(image), NEW x, x = Mounted(image)
  PROVE  Idle(x) /\ Fine(x) /\ x.cuts = {}
<1> DEFINE kept == [g \in Groups |-> Keep(image[g])]
           home == [g \in Groups |-> IF kept[<<g[1], 0>>] = NoBlock THEN NoBlock ELSE kept[g]]
           bufs == [i \in 1 .. Buffers |-> SpareBuf]
           slots == [s \in 1 .. Slots |-> None]
           used == {g \in Groups : image[g] # {}}
           spare == Blocks - Cardinality(Tree(home))
<1>1. \A g \in Groups : image[g] \in SUBSET Block /\ Claim(image[g])
  BY DEF ImageInv, Images
<1>2. \A g \in Groups : kept[g] = NoBlock \/ (kept[g] \in image[g] /\ Headed(kept[g]))
  BY <1>1, KeepIs
<1> HIDE DEF kept
<1>3. \A g \in Groups : home[g] = NoBlock \/ (home[g] \in image[g] /\ Headed(home[g]))
  BY <1>2
<1>4. home \in [Groups -> Block]
  BY <1>1, <1>3, NoBlockType
<1>5. x = [home |-> home, spare |-> spare, bufs |-> bufs, slots |-> slots, ret |-> "ok", cuts |-> {}]
  BY DEF Mounted, Tree, kept
<1> HIDE DEF home
<1>6. /\ Cardinality(Tree(home)) \in Nat /\ Cardinality(Tree(home)) < Blocks
  <2>1. Tree(home) \in SUBSET used
    BY <1>3 DEF Tree
  <2>2. used \in SUBSET Groups /\ Cardinality(used) < Blocks
    BY DEF ImageInv
  <2> HIDE DEF used
  <2>3. IsFiniteSet(used) /\ Cardinality(used) \in Nat
    BY <2>2, GroupsFinite, FS_Subset, FS_CardinalityType
  <2>4. Cardinality(Tree(home)) \in Nat /\ Cardinality(Tree(home)) <= Cardinality(used)
    BY <2>1, <2>3, FS_Subset, FS_CardinalityType
  <2> QED
    BY <2>2, <2>3, <2>4, Sizes
<1>7. spare \in Int /\ spare + Cardinality(Tree(home)) = Blocks /\ spare >= 1
  BY <1>6, Sizes
<1> HIDE DEF spare
<1>8. /\ bufs \in Seq(Buffer) /\ Len(bufs) = Buffers
      /\ \A i \in 1 .. Buffers : bufs[i] = SpareBuf
  <2>1. bufs \in [1 .. Buffers -> Buffer]
    BY SpareType
  <2>2. \A i \in 1 .. Buffers : bufs[i] = SpareBuf
    OBVIOUS
  <2> HIDE DEF bufs
  <2>3. bufs \in Seq(Buffer) /\ Len(bufs) = Buffers
    BY <2>1, Sizes, FunctionIsSeq
  <2> QED
    BY <2>2, <2>3
<1> HIDE DEF bufs
<1>9. slots \in [1 .. Slots -> Groups \cup {None}] /\ \A s \in 1 .. Slots : slots[s] = None
  OBVIOUS
<1> HIDE DEF slots
<1>10. /\ x \in Work /\ x.home = home /\ x.spare = spare /\ x.bufs = bufs /\ x.slots = slots
       /\ x.ret = "ok" /\ x.cuts = {}
  BY <1>4, <1>5, <1>7, <1>8, <1>9 DEF Work, Answers
<1>11. Ends(x.bufs)
  <2>1. Single(bufs)
    BY <1>8 DEF Single, Bound, SpareBuf
  <2> QED
    BY <1>8, <1>10, <2>1, Sizes DEF Ends, SpareBuf
<1>12. SlotsInv(x)
  BY <1>8, <1>9, <1>10 DEF SlotsInv, SpareBuf
<1>13. HeadsInv(x)
  BY <1>3, <1>10 DEF HeadsInv, Tree
<1>14. Sound(x)
  BY <1>7, <1>10, <1>11, <1>12, <1>13 DEF Sound, Body, CutsInv, BlocksInv
<1>15. AtHome(x) /\ NoneHeld(x)
  BY <1>8, <1>9, <1>10 DEF AtHome, NoneHeld, SpareBuf
<1>16. Lean(x)
  <2> SUFFICES ASSUME NEW g \in Groups PROVE Cardinality(DirtyIds(x, g)) < DirtyMax
    BY DEF Lean
  <2>1. DirtyIds(x, g) = {}
    BY <1>8, <1>10, <1>11, DirtyIdsAre DEF SpareBuf
  <2> QED
    BY <2>1, FS_EmptySet, SizesAssumption
<1> QED
  BY <1>10, <1>14, <1>15, <1>16 DEF Idle, Fine, Answers

\* The length of a file is bounded by its blocks, and a file that has one has a head.
Lengthy(length, w) ==
  /\ length \in [Files -> -1 .. HeadPages + MaxFdn * Pages]
  /\ \A f \in Files : length[f] # -1 => <<f, 0>> \in Tree(w.home)

LEMMA LengthsIs ==
  ASSUME NEW w \in Work, NEW length, length = Lengths(w)
  PROVE  Lengthy(length, w)
<1>1. /\ Pages \in Nat /\ Pages >= 2 /\ MaxFdn \in Nat /\ MaxFdn * Pages \in Nat
      /\ HeadPages \in Nat /\ HeadPages = Pages - 1 /\ w.home \in [Groups -> Block]
  BY Sizes DEF HeadPages, Work
<1>2. ASSUME NEW f \in Files
      PROVE  /\ length[f] \in -1 .. HeadPages + MaxFdn * Pages
             /\ length[f] # -1 => <<f, 0>> \in Tree(w.home)
  <2> DEFINE b == w.home[<<f, 0>>]
             S == {y \in (1 .. MaxFdn) \X Ids : y[2] < DataLength(w.home[<<f, y[1]>>])}
  <2>1. length[f] = IF b = NoBlock THEN -1 ELSE HeadLength(b) + Cardinality(S)
    BY DEF Lengths
  <2>2. <<f, 0>> \in Groups /\ b \in Block
    BY <1>1 DEF Groups
  <2>3. b # NoBlock => <<f, 0>> \in Tree(w.home)
    BY <2>2 DEF Tree
  <2> HIDE DEF b
  <2>4. HeadLength(b) \in 0 .. HeadPages
    <3> DEFINE T == {k \in 1 .. Pages : k \notin IdsOf(b)}
    <3>1. Pages \notin IdsOf(b)
      BY <1>1, <2>2, IdsOfType DEF Ids
    <3>2. T \in SUBSET Nat /\ T # {} /\ T \in SUBSET (1 .. Pages)
      BY <1>1, <3>1
    <3>3. HeadLength(b) = Pages - 1 \/ HeadLength(b) = Min(T) - 1
      BY DEF HeadLength, PagesCounted
    <3> HIDE DEF T
    <3>4. Min(T) \in 1 .. Pages
      BY <3>2, LeastIs
    <3> QED
      BY <1>1, <3>3, <3>4
  <2>5. Cardinality(S) \in 0 .. MaxFdn * Pages
    <3> DEFINE R == (1 .. MaxFdn) \X Ids
    <3>1. /\ IsFiniteSet(1 .. MaxFdn) /\ Cardinality(1 .. MaxFdn) = MaxFdn
          /\ IsFiniteSet(Ids) /\ Cardinality(Ids) = Pages
      <4>1. Cardinality(1 .. MaxFdn) = MaxFdn /\ IsFiniteSet(1 .. MaxFdn)
        BY <1>1, FS_Interval
      <4>2. /\ IsFiniteSet(0 .. Pages - 1)
            /\ Cardinality(0 .. Pages - 1) = IF 0 > Pages - 1 THEN 0 ELSE Pages - 1 - 0 + 1
        BY <1>1, FS_Interval
      <4>3. Cardinality(0 .. Pages - 1) = Pages
        BY <1>1, <4>2
      <4> QED
        BY <4>1, <4>2, <4>3 DEF Ids
    <3>2. IsFiniteSet(R) /\ Cardinality(R) = MaxFdn * Pages
      <4>1. Cardinality(R) = Cardinality(1 .. MaxFdn) * Cardinality(Ids) /\ IsFiniteSet(R)
        BY <3>1, FS_Product
      <4> QED
        BY <3>1, <4>1, Zenon
    <3>3. S \in SUBSET R
      OBVIOUS
    <3> HIDE DEF R, S
    <3>4. Cardinality(S) \in Nat /\ Cardinality(S) <= Cardinality(R)
      BY <3>2, <3>3, FS_Subset, FS_CardinalityType
    <3> QED
      BY <1>1, <3>2, <3>4
  <2> HIDE DEF S
  <2> QED
    BY <1>1, <2>1, <2>3, <2>4, <2>5
<1>3. length = [f \in Files |-> length[f]]
  BY DEF Lengths
<1> QED
  BY <1>2, <1>3 DEF Lengthy

-----------------------------------------------------------------------------
(* The invariant of the specification *)

StoreInv == /\ Idle(dev) /\ Fine(dev) /\ dev.cuts = {}
            /\ Lengthy(len, dev)
            /\ clock \in Vers

LEMMA CutsGone ==
  ASSUME NEW w, Idle(w), NEW x, x = [w EXCEPT !.cuts = {}]
  PROVE  /\ Idle(x) /\ x.cuts = {} /\ x.ret = w.ret /\ x.home = w.home
<1>1. w \in Work
  BY DEF Idle, Sound, Body
<1>2. /\ x.home = w.home /\ x.spare = w.spare /\ x.bufs = w.bufs /\ x.slots = w.slots
      /\ x.ret = w.ret /\ x.cuts = {} /\ x \in Work
  BY <1>1 DEF Work
<1>3. Sound(x)
  BY <1>2 DEF Idle, Sound, Body, HeadsInv, BlocksInv, SlotsInv, CutsInv
<1>4. Lean(x)
  BY <1>2, LeanSame DEF Idle, Sound, Body
<1> QED
  BY <1>2, <1>3, <1>4 DEF Idle, AtHome, NoneHeld

\* What a call leaves.
LEMMA AfterIs ==
  ASSUME NEW w, Idle(w), Fine(w), After(w)
  PROVE  /\ Idle(dev') /\ Fine(dev') /\ dev'.cuts = {} /\ dev'.home = w.home
<1>1. PICK x : x = [w EXCEPT !.cuts = {}]
  OBVIOUS
<1>2. dev' = x
  BY <1>1 DEF After
<1>3. Idle(x) /\ x.cuts = {} /\ x.ret = w.ret /\ x.home = w.home
  BY <1>1, CutsGone
<1> QED
  BY <1>2, <1>3 DEF Fine

\* A version that is new.
LEMMA StampedIs ==
  ASSUME clock \in Vers, Stamped
  PROVE  clock' \in Vers /\ clock' = clock + 1 /\ clock + 1 \in Vers
BY Sizes DEF Stamped, Vers

\* A tree that has only grown has the head of every file.
LEMMA LengthyStays ==
  ASSUME NEW length, NEW w, NEW x, Lengthy(length, w), Tree(w.home) \in SUBSET Tree(x.home)
  PROVE  Lengthy(length, x)
BY DEF Lengthy

LEMMA LengthySet ==
  ASSUME NEW length, NEW w, Lengthy(length, w), NEW f \in Files, <<f, 0>> \in Tree(w.home),
         NEW n \in 0 .. HeadPages + MaxFdn * Pages
  PROVE  Lengthy([length EXCEPT ![f] = n], w)
BY DEF Lengthy

LEMMA HeadIs ==
  ASSUME StoreInv, NEW f \in Files, Exists(f)
  PROVE  /\ <<f, 0>> \in Tree(dev.home)
         /\ len[f] \in 0 .. HeadPages + MaxFdn * Pages
<1>1. HeadPages + MaxFdn * Pages \in Int
  BY Sizes DEF HeadPages
<1> QED
  BY <1>1 DEF StoreInv, Lengthy, Exists

LEMMA CreateInv ==
  ASSUME StoreInv, NEW f \in Files, Create(f)
  PROVE  StoreInv'
<1>1. PICK v : v = clock + 1
  OBVIOUS
<1>2. v \in Vers /\ clock' \in Vers
  BY <1>1, StampedIs DEF Create, StoreInv
<1>3. PICK p \in Int : p = -1
  OBVIOUS
<1>4. FdnOf(p) \in 0 .. MaxFdn /\ IdOf(p) = 0
  BY <1>3, PlaceIs, Sizes DEF HeadPages
<1>5. PICK w : /\ w = WriteNew(f, p, v)
               /\ After(w)
               /\ len' = IF Succeeds(w) /\ w.home[<<f, 0>>] # NoBlock
                         THEN [len EXCEPT ![f] = 0] ELSE len
  BY <1>1, <1>3 DEF Create
<1>6. Ended(dev, w)
  BY <1>2, <1>4, <1>5, WriteNewIs DEF StoreInv
<1>7. Idle(dev') /\ Fine(dev') /\ dev'.cuts = {} /\ dev'.home = w.home
  BY <1>5, <1>6, AfterIs DEF Ended
<1>8. Tree(dev.home) \in SUBSET Tree(dev'.home)
  BY <1>6, <1>7 DEF Ended
<1>9. Lengthy(len, dev')
  BY <1>8, LengthyStays DEF StoreInv
<1>10. CASE w.home[<<f, 0>>] = NoBlock \/ ~Succeeds(w)
  <2>1. len' = len
    BY <1>5, <1>10
  <2> QED
    BY <1>2, <1>7, <1>9, <2>1 DEF StoreInv
<1>11. CASE w.home[<<f, 0>>] # NoBlock /\ Succeeds(w)
  <2>1. PICK n \in 0 .. HeadPages + MaxFdn * Pages : n = 0
    BY Sizes DEF HeadPages
  <2>2. <<f, 0>> \in Tree(dev'.home)
    BY <1>7, <1>11, Sizes DEF Tree, Groups
  <2>3. len' = [len EXCEPT ![f] = n]
    BY <1>5, <1>11, <2>1
  <2>4. Lengthy(len', dev')
    BY <1>9, <2>2, <2>3, LengthySet
  <2> QED
    BY <1>2, <1>7, <2>4 DEF StoreInv
<1> QED
  BY <1>10, <1>11

LEMMA WriteInv ==
  ASSUME StoreInv, NEW f \in Files, NEW p \in Positions, Write(f, p)
  PROVE  StoreInv'
<1>1. PICK v : v = clock + 1
  OBVIOUS
<1>2. v \in Vers /\ clock' \in Vers
  BY <1>1, StampedIs DEF Write, StoreInv
<1>3. PICK w : /\ w = WriteObject(f, p, v)
               /\ After(w)
               /\ len' = IF Succeeds(w) THEN [len EXCEPT ![f] = Max({@, p + 1})] ELSE len
  BY <1>1 DEF Write
<1>4. Ended(dev, w)
  BY <1>2, <1>3, WriteObjectIs DEF StoreInv
<1>5. Idle(dev') /\ Fine(dev') /\ dev'.cuts = {} /\ dev'.home = w.home
  BY <1>3, <1>4, AfterIs DEF Ended
<1>6. Lengthy(len, dev')
  BY <1>4, <1>5, LengthyStays DEF StoreInv, Ended
<1>7. PICK n : n = Max({len[f], p + 1})
  OBVIOUS
<1>8. n \in 0 .. HeadPages + MaxFdn * Pages /\ <<f, 0>> \in Tree(dev'.home)
  <2>1. Exists(f) /\ 0 <= p /\ p <= len[f]
    <3>1. p \in Writable(f) /\ p \in Int /\ len[f] \in Int
      BY PositionIs DEF Write, StoreInv, Lengthy
    <3> QED
      BY <3>1 DEF Writable, Exists
  <2>2. <<f, 0>> \in Tree(dev.home) /\ len[f] \in 0 .. HeadPages + MaxFdn * Pages
    BY <2>1, HeadIs
  <2>3. p + 1 \in 0 .. HeadPages + MaxFdn * Pages
    BY <2>1, PositionIs, Sizes DEF HeadPages
  <2>4. n \in {len[f], p + 1}
    <3>1. \E m \in {len[f], p + 1} : \A k \in {len[f], p + 1} : m >= k
      BY <2>2, <2>3
    <3> QED
      BY <1>7, <3>1 DEF Max
  <2> QED
    BY <1>4, <1>5, <2>2, <2>3, <2>4 DEF Ended
<1>9. len' = len \/ len' = [len EXCEPT ![f] = n]
  BY <1>3, <1>7
<1>10. Lengthy(len', dev')
  BY <1>6, <1>8, <1>9, LengthySet
<1> QED
  BY <1>2, <1>5, <1>10 DEF StoreInv

\* A call that leaves the lengths of the files.
LEMMA CallInv ==
  ASSUME StoreInv, NEW w, Ended(dev, w), After(w), len' = len, clock' \in Vers
  PROVE  StoreInv'
<1>1. Idle(dev') /\ Fine(dev') /\ dev'.cuts = {} /\ dev'.home = w.home
  BY AfterIs DEF Ended
<1>2. Lengthy(len, dev')
  BY <1>1, LengthyStays DEF StoreInv, Ended
<1> QED
  BY <1>1, <1>2 DEF StoreInv

LEMMA OpenInv ==
  ASSUME StoreInv, NEW f \in Files, Open(f)
  PROVE  StoreInv'
<1>1. PICK w : w = Opened(f)
  OBVIOUS
<1>2. Ended(dev, w)
  BY <1>1, OpenedIs DEF StoreInv
<1>3. After(w) /\ len' = len /\ clock' \in Vers
  BY <1>1 DEF Open, StoreInv
<1> QED
  BY <1>2, <1>3, CallInv

LEMMA ReadInv ==
  ASSUME StoreInv, NEW f \in Files, NEW p \in Positions, Read(f, p)
  PROVE  StoreInv'
<1>1. PICK w : w = ReadObject(f, p)
  OBVIOUS
<1>2. Ended(dev, w)
  BY <1>1, ReadObjectIs DEF StoreInv
<1>3. After(w) /\ len' = len /\ clock' \in Vers
  BY <1>1 DEF Read, StoreInv
<1> QED
  BY <1>2, <1>3, CallInv

LEMMA RenameInv ==
  ASSUME StoreInv, NEW f \in Files, Rename(f)
  PROVE  StoreInv'
<1>1. PICK v : v = clock + 1
  OBVIOUS
<1>2. v \in Vers /\ clock' \in Vers
  BY <1>1, StampedIs DEF Rename, StoreInv
<1>3. PICK w : w = MoveObject(f, v) /\ After(w)
  BY <1>1 DEF Rename
<1>4. <<f, 0>> \in Tree(dev.home)
  BY HeadIs DEF Rename
<1>5. Ended(dev, w)
  BY <1>2, <1>3, <1>4, MoveObjectIs DEF StoreInv
<1>6. len' = len
  BY DEF Rename
<1> QED
  BY <1>2, <1>3, <1>5, <1>6, CallInv

LEMMA CloseInv ==
  ASSUME StoreInv, NEW f \in Files, Close(f)
  PROVE  StoreInv'
<1>1. PICK w : w = FlushFile(dev, f) /\ After(w)
  BY DEF Close
<1>2. Ended(dev, w)
  BY <1>1, CloseIs DEF StoreInv
<1>3. len' = len /\ clock' \in Vers
  BY DEF Close, StoreInv
<1> QED
  BY <1>1, <1>2, <1>3, CallInv

LEMMA DeleteInv ==
  ASSUME StoreInv, NEW f \in Files, Delete(f)
  PROVE  StoreInv'
<1>1. PICK w : /\ w = DeleteObject(f) /\ w.ret # "loops" /\ After(w)
               /\ len' = IF w.home[<<f, 0>>] = NoBlock THEN [len EXCEPT ![f] = -1] ELSE len
  BY DEF Delete
<1>2. <<f, 0>> \in Tree(dev.home) /\ len[f] \in 0 .. HeadPages + MaxFdn * Pages
  BY HeadIs DEF Delete
<1>3. Idle(w) /\ Fine(w) /\ OthersStay(dev, w, f)
  BY <1>1, <1>2, DeleteObjectIs DEF StoreInv
<1>4. Idle(dev') /\ Fine(dev') /\ dev'.cuts = {} /\ dev'.home = w.home
  BY <1>1, <1>3, AfterIs
<1>5. len' \in [Files -> -1 .. HeadPages + MaxFdn * Pages]
  BY <1>1, Sizes DEF StoreInv, Lengthy, HeadPages
<1>6. \A e \in Files : len'[e] # -1 => <<e, 0>> \in Tree(w.home)
  <2> SUFFICES ASSUME NEW e \in Files, len'[e] # -1 PROVE <<e, 0>> \in Tree(w.home)
    OBVIOUS
  <2>1. CASE e = f
    <3>1. w.home[<<f, 0>>] # NoBlock
      BY <1>1, <2>1 DEF StoreInv, Lengthy
    <3> QED
      BY <2>1, <3>1, Sizes DEF Tree, Groups
  <2>2. CASE e # f
    <3>1. len[e] # -1
      BY <1>1, <2>2 DEF StoreInv, Lengthy
    <3> QED
      BY <1>3, <2>2, <3>1 DEF StoreInv, Lengthy, OthersStay
  <2> QED
    BY <2>1, <2>2
<1>7. Lengthy(len', dev')
  BY <1>4, <1>5, <1>6 DEF Lengthy
<1>8. clock' \in Vers
  BY DEF Delete, StoreInv
<1> QED
  BY <1>4, <1>7, <1>8 DEF StoreInv

\* uffs_Mount, on what a power cut left.
LEMMA RestartIs ==
  ASSUME StoreInv, NEW w, CutsInv(w), Restart(w), clock' \in Vers
  PROVE  StoreInv'
<1>1. PICK image \in {Image(dev)} \cup w.cuts : dev' = Mounted(image)
  BY DEF Restart
<1>2. ImageInv(image)
  <2>1. CASE image \in w.cuts
    BY <2>1 DEF CutsInv
  <2>2. CASE image = Image(dev)
    <3>1. dev \in Work /\ Sound(dev) /\ HeadsInv(dev) /\ BlocksInv(dev)
      BY DEF StoreInv, Idle, Sound, Body
    <3>2. Cardinality(Tree(dev.home)) < Blocks
      <4>1. Cardinality(Tree(dev.home)) \in Nat /\ dev.spare \in Int
        BY <3>1, TreeFinite DEF Work
      <4> QED
        BY <3>1, <4>1, Sizes DEF BlocksInv
    <3> QED
      BY <2>2, <3>1, <3>2, ImageIs DEF HeadsInv
  <2> QED
    BY <1>1, <2>1, <2>2
<1>3. PICK x : x = Mounted(image)
  OBVIOUS
<1>4. Idle(x) /\ Fine(x) /\ x.cuts = {}
  BY <1>2, <1>3, MountedIs
<1>5. Idle(dev') /\ Fine(dev') /\ dev'.cuts = {}
  BY <1>1, <1>3, <1>4
<1>6. dev' \in Work /\ len' = Lengths(dev')
  BY <1>5 DEF Idle, Sound, Body, Restart
<1>7. PICK y : y = dev'
  OBVIOUS
<1>8. PICK length : length = Lengths(y)
  OBVIOUS
<1>9. Lengthy(length, y)
  BY <1>6, <1>7, <1>8, LengthsIs
<1> QED
  BY <1>5, <1>6, <1>7, <1>8, <1>9 DEF StoreInv

LEMMA PowerCutInv ==
  ASSUME StoreInv, PowerCut
  PROVE  StoreInv'
<1>1. CASE CutIdle
  <2>1. Restart(dev) /\ CutsInv(dev) /\ clock' \in Vers
    BY <1>1 DEF CutIdle, StoreInv, Idle, Sound, Body
  <2> QED
    BY <2>1, RestartIs
<1>2. ASSUME NEW f \in Files, CutCreate(f) PROVE StoreInv'
  <2>1. clock' \in Vers
    BY <1>2, StampedIs DEF CutCreate, StoreInv
  <2>2. PICK v \in Vers : v = clock'
    BY <2>1
  <2>3. PICK p \in Int : p = -1
    OBVIOUS
  <2>4. FdnOf(p) \in 0 .. MaxFdn /\ IdOf(p) = 0
    BY <2>3, PlaceIs, Sizes DEF HeadPages
  <2>5. PICK w : w = WriteNew(f, p, v) /\ Restart(w)
    BY <1>2, <2>2, <2>3 DEF CutCreate
  <2>6. Ended(dev, w)
    BY <2>4, <2>5, WriteNewIs DEF StoreInv
  <2> QED
    BY <2>1, <2>5, <2>6, RestartIs DEF Ended, Idle, Sound, Body
<1>3. ASSUME NEW f \in Files, CutRename(f) PROVE StoreInv'
  <2>1. clock' \in Vers
    BY <1>3, StampedIs DEF CutRename, StoreInv
  <2>2. PICK v \in Vers : v = clock'
    BY <2>1
  <2>3. PICK w : w = MoveObject(f, v) /\ Restart(w)
    BY <1>3, <2>2 DEF CutRename
  <2>4. <<f, 0>> \in Tree(dev.home)
    BY <1>3, HeadIs DEF CutRename
  <2>5. Ended(dev, w)
    BY <2>3, <2>4, MoveObjectIs DEF StoreInv
  <2> QED
    BY <2>1, <2>3, <2>5, RestartIs DEF Ended, Idle, Sound, Body
<1>4. ASSUME NEW f \in Files, CutClose(f) PROVE StoreInv'
  <2>1. PICK w : w = FlushFile(dev, f) /\ Restart(w) /\ clock' \in Vers
    BY <1>4 DEF CutClose, StoreInv
  <2>2. Ended(dev, w)
    BY <2>1, CloseIs DEF StoreInv
  <2> QED
    BY <2>1, <2>2, RestartIs DEF Ended, Idle, Sound, Body
<1>5. ASSUME NEW f \in Files, CutDelete(f) PROVE StoreInv'
  <2>1. PICK w : w = DeleteObject(f) /\ Restart(w) /\ clock' \in Vers
    BY <1>5 DEF CutDelete, StoreInv
  <2>2. <<f, 0>> \in Tree(dev.home) /\ len[f] \in 0 .. HeadPages + MaxFdn * Pages
    BY <1>5, HeadIs DEF CutDelete
  <2>3. Idle(w)
    BY <2>1, <2>2, DeleteObjectIs DEF StoreInv
  <2> QED
    BY <2>1, <2>3, RestartIs DEF Idle, Sound, Body
<1>6. ASSUME NEW f \in Files, NEW p \in Positions, CutWrite(f, p) PROVE StoreInv'
  <2>1. clock' \in Vers
    BY <1>6, StampedIs DEF CutWrite, StoreInv
  <2>2. PICK v \in Vers : v = clock'
    BY <2>1
  <2>3. PICK w : w = WriteObject(f, p, v) /\ Restart(w)
    BY <1>6, <2>2 DEF CutWrite
  <2>4. Ended(dev, w)
    BY <2>3, WriteObjectIs DEF StoreInv
  <2> QED
    BY <2>1, <2>3, <2>4, RestartIs DEF Ended, Idle, Sound, Body
<1>7. ASSUME NEW f \in Files, NEW p \in Positions, CutRead(f, p) PROVE StoreInv'
  <2>1. PICK w : w = ReadObject(f, p) /\ Restart(w) /\ clock' \in Vers
    BY <1>7 DEF CutRead, StoreInv
  <2>2. Ended(dev, w)
    BY <2>1, ReadObjectIs DEF StoreInv
  <2> QED
    BY <2>1, <2>2, RestartIs DEF Ended, Idle, Sound, Body
<1> QED
  BY <1>1, <1>2, <1>3, <1>4, <1>5, <1>6, <1>7 DEF PowerCut

\* The first n pages of a group are a block.
LEMMA FreshType ==
  ASSUME 1 \in Vers, NEW n \in 1 .. Pages
  PROVE  /\ Fresh(n) \in Block /\ Len(Fresh(n).pages) = n /\ Fresh(n).ts = 1
         /\ \A i \in 1 .. n : Fresh(n).pages[i] = [id |-> i - 1, ver |-> 1]
<1>1. PICK p : p = [i \in 1 .. n |-> [id |-> i - 1, ver |-> 1]]
  OBVIOUS
<1>2. \A i \in 1 .. n : [id |-> i - 1, ver |-> 1] \in PageSet
  BY Sizes DEF PageSet, Ids
<1>3. n \in Nat /\ p \in [1 .. n -> PageSet]
  BY <1>1, <1>2, Sizes
<1>4. p \in Seq(PageSet) /\ Len(p) = n
  BY <1>3, FunctionIsSeq
<1>5. Fresh(n) = [ts |-> 1, pages |-> p]
  BY <1>1 DEF Fresh
<1> QED
  BY <1>1, <1>4, <1>5 DEF Block

\* What is on the flash at first can be mounted.
LEMMA StartIs ==
  ASSUME NEW s \in Starts
  PROVE  s.clock \in Vers /\ 1 \in Vers /\ ImageInv(s.image)
<1>1. /\ s.image \in [Groups -> {{}} \cup {{Fresh(n)} : n \in 1 .. Pages}]
      /\ s.clock \in 1 .. MaxWrites
      /\ Cardinality({g \in Groups : s.image[g] # {}}) < Blocks
  BY StartsAssumption
<1>2. s.clock \in Vers /\ 1 \in Vers
  BY <1>1, Sizes DEF Vers
<1>3. ASSUME NEW n \in 1 .. Pages PROVE {Fresh(n)} \in SUBSET Block /\ Claim({Fresh(n)})
  <2>1. 1 \in 1 .. n
    BY Sizes
  <2>2. Fresh(n) \in Block /\ Fresh(n).ts = 1 /\ Fresh(n).pages[1] = [id |-> 1 - 1, ver |-> 1]
    BY <1>2, <2>1, FreshType
  <2>3. Fresh(n).pages[1].id = 0
    BY <2>2
  <2> QED
    BY <2>2, <2>3 DEF Claim, Begun
<1>4. PICK image : image = s.image
  OBVIOUS
<1>5. image \in Images
  <2>1. \A g \in Groups : image[g] \in SUBSET Block
    <3> SUFFICES ASSUME NEW g \in Groups PROVE image[g] \in SUBSET Block
      OBVIOUS
    <3>1. image[g] = {} \/ \E n \in 1 .. Pages : image[g] = {Fresh(n)}
      BY <1>1, <1>4
    <3> QED
      BY <1>3, <3>1
  <2>2. image = [g \in Groups |-> image[g]]
    BY <1>1, <1>4
  <2> QED
    BY <2>1, <2>2 DEF Images
<1>6. ASSUME NEW g \in Groups PROVE Claim(image[g])
  <2>1. Claim({})
    BY DEF Claim
  <2>2. image[g] = {} \/ \E n \in 1 .. Pages : image[g] = {Fresh(n)}
    BY <1>1, <1>4
  <2> QED
    BY <1>3, <2>1, <2>2
<1> QED
  BY <1>1, <1>2, <1>4, <1>5, <1>6 DEF ImageInv

LEMMA InitInv == Init => StoreInv
<1> SUFFICES ASSUME Init PROVE StoreInv
  OBVIOUS
<1>1. PICK s \in Starts : dev = Mounted(s.image) /\ clock = s.clock
  BY DEF Init
<1>2. clock \in Vers /\ ImageInv(s.image)
  BY <1>1, StartIs
<1>3. Idle(dev) /\ Fine(dev) /\ dev.cuts = {}
  BY <1>1, <1>2, MountedIs
<1>4. dev \in Work /\ len = Lengths(dev)
  BY <1>3 DEF Idle, Sound, Body, Init
<1>5. Lengthy(len, dev)
  BY <1>4, LengthsIs
<1> QED
  BY <1>2, <1>3, <1>5 DEF StoreInv

LEMMA StepInv == StoreInv /\ [Next]_vars => StoreInv'
<1> SUFFICES ASSUME StoreInv, [Next]_vars PROVE StoreInv'
  OBVIOUS
<1>1. CASE UNCHANGED vars
  BY <1>1 DEF vars, StoreInv, Idle, Sound, Body, HeadsInv, BlocksInv, SlotsInv, CutsInv, AtHome,
              NoneHeld, Fine, Lengthy, Lean, DirtyIds, DirtyOf
<1>2. CASE Next
  BY <1>2, CreateInv, OpenInv, RenameInv, CloseInv, DeleteInv, WriteInv, ReadInv, PowerCutInv DEF Next
<1> QED
  BY <1>1, <1>2

-----------------------------------------------------------------------------
\* Between calls and after every restart the device is sound, whatever call power
\* failed in: the blocks on the flash are in the tree or spare, the last buffer of the
\* list is empty and free, a slot is a group that has dirty pages and a block, and
\* no buffer is held.
THEOREM StaysSound == Spec => []StoreInv
BY InitInv, StepInv, PTL DEF Spec

\* No block is lost or invented, and one is always left to cover another with.
THEOREM NoBlockIsLost == Spec => []BlocksAccounted
<1>1. StoreInv => BlocksAccounted
  BY DEF StoreInv, Idle, Sound, BlocksInv, Tree, BlocksAccounted
<1> QED
  BY <1>1, StaysSound, PTL

\* No call ends for want of a buffer, a slot or a block to cover with, with any
\* number of buffers above CLONE_BUFFERS_THRESHOLD and the dirty pages the slots hold.
THEOREM NothingStarves == Spec => []NeverStarved
<1>1. StoreInv => NeverStarved
  BY DEF StoreInv, Fine, Answers, NeverStarved
<1> QED
  BY <1>1, StaysSound, PTL

\* Between calls a slot is a group of the tree with fewer dirty pages than
\* dirty_buf_max, no group has two slots, and every dirty page is in the slot of
\* its group.
THEOREM DirtyPagesHaveSlots == Spec => []DirtyGroups
<1>1. StoreInv => DirtyGroups
  <2> SUFFICES ASSUME StoreInv PROVE DirtyGroups
    OBVIOUS
  <2>1. /\ dev \in Work /\ Ends(dev.bufs) /\ SlotsInv(dev) /\ AtHome(dev) /\ Lean(dev)
        /\ dev.slots \in [1 .. Slots -> Groups \cup {None}]
    BY DEF StoreInv, Idle, Sound, Body, Work
  <2>2. ASSUME NEW s \in 1 .. Slots, dev.slots[s] # None
        PROVE  /\ dev.home[dev.slots[s]] # NoBlock
               /\ Cardinality(DirtyOf(dev, dev.slots[s])) \in 1 .. DirtyMax - 1
               /\ SlotsOf(dev, dev.slots[s]) = {s}
    <3>1. PICK g : g = dev.slots[s]
      OBVIOUS
    <3>2. g \in Groups
      BY <2>1, <2>2, <3>1
    <3>3. PICK i \in 1 .. Buffers : dev.bufs[i].mark = "dirty" /\ dev.bufs[i].g = g
      BY <2>1, <2>2, <3>1 DEF SlotsInv
    <3>4. dev.bufs[i].id \in DirtyIds(dev, g)
      BY <2>1, <3>3, DirtyIdsAre
    <3>5. /\ IsFiniteSet(DirtyIds(dev, g)) /\ Cardinality(DirtyIds(dev, g)) \in Nat
          /\ Cardinality(DirtyOf(dev, g)) = Cardinality(DirtyIds(dev, g))
      BY <2>1, DirtyCard
    <3>6. Cardinality(DirtyIds(dev, g)) # 0
      BY <3>4, <3>5, FS_EmptySet
    <3>7. Cardinality(DirtyIds(dev, g)) < DirtyMax /\ DirtyMax \in Int
      BY <2>1, <3>2, SizesAssumption DEF Lean
    <3>8. Cardinality(DirtyOf(dev, g)) \in 1 .. DirtyMax - 1
      BY <3>5, <3>6, <3>7
    <3>9. SlotsOf(dev, g) = {s}
      BY <2>1, <2>2, <3>1 DEF SlotsOf, SlotsInv
    <3> QED
      BY <2>1, <2>2, <3>1, <3>8, <3>9 DEF AtHome
  <2>3. ASSUME NEW i \in 1 .. Buffers, dev.bufs[i].mark = "dirty"
        PROVE  SlotsOf(dev, dev.bufs[i].g) # {}
    BY <2>1, <2>3 DEF SlotsInv, SlotsOf
  <2> QED
    BY <2>2, <2>3 DEF DirtyGroups
<1> QED
  BY <1>1, StaysSound, PTL

-----------------------------------------------------------------------------
(* The types of the histories *)

HistInv == /\ cand \in [Places -> SUBSET Vers] /\ view \in [Places -> Vers]
           /\ restarts \in 0 .. MaxRestarts
           /\ stale \in SUBSET Groups

LEMMA ViewType ==
  ASSUME NEW w, Idle(w)
  PROVE  View(w) \in [Places -> Vers]
<1> SUFFICES ASSUME NEW x \in Places PROVE PageVer(w, <<x[1], FdnOf(x[2])>>, IdOf(x[2])) \in Vers
  BY DEF View
<1>1. x[1] \in Files /\ x[2] \in Positions
  BY DEF Places
<1>2. PICK g : g = <<x[1], FdnOf(x[2])>>
  OBVIOUS
<1>3. g \in Groups
  BY <1>1, <1>2, PositionIs, PlaceIs, GroupIs
<1> QED
  BY <1>2, <1>3, PageVerType DEF Idle, Sound, Body

LEMMA HistInit == Init => HistInv
<1> SUFFICES ASSUME Init PROVE HistInv
  OBVIOUS
<1>1. View(dev) \in [Places -> Vers]
  BY InitInv, ViewType DEF StoreInv
<1>2. restarts \in 0 .. MaxRestarts
  BY StartsAssumption DEF Init
<1> QED
  BY <1>1, <1>2 DEF Init, HistInv

\* A restart finds one version of each page.
LEMMA HistRestart ==
  ASSUME HistInv, NEW w, Restart(w), view' \in [Places -> Vers]
  PROVE  HistInv'
<1>1. cand' \in [Places -> SUBSET Vers]
  BY DEF Restart
<1>2. restarts' \in 0 .. MaxRestarts
  BY StoreAssumption DEF HistInv, Restart
<1>3. stale' \in SUBSET Groups
  <2>1. TornSince(dev, dev'.home) \in SUBSET Groups
    BY DEF TornSince
  <2> QED
    BY <2>1 DEF Restart
<1> QED
  BY <1>1, <1>2, <1>3 DEF HistInv

LEMMA HistStep == StoreInv /\ HistInv /\ [Next]_vars => HistInv'
<1> SUFFICES ASSUME StoreInv, HistInv, [Next]_vars PROVE HistInv'
  OBVIOUS
<1>1. CASE UNCHANGED vars
  BY <1>1 DEF vars, HistInv
<1>2. CASE Next
  <2>1. clock' \in Vers /\ 0 \in Vers
    BY StepInv, Sizes DEF StoreInv
  <2>2. view' \in [Places -> Vers]
    <3>1. PICK w : w = dev'
      OBVIOUS
    <3>2. Idle(w) /\ view' = View(w)
      BY <1>2, <3>1, StepInv
         DEF StoreInv, Next, PowerCut, Create, Open, Rename, Close, Delete, Write, Read, CutIdle,
             CutCreate, CutRename, CutClose, CutDelete, CutWrite, CutRead, Restart, After
    <3> QED
      BY <3>2, ViewType
  <2>3. ASSUME NEW f \in Files, Create(f) \/ Open(f) \/ Rename(f) \/ Close(f) \/ Delete(f)
        PROVE  HistInv'
    <3>1. stale' = stale
      BY <2>3 DEF Create, Open, Rename, Close, Delete, After
    <3> QED
      BY <2>1, <2>2, <2>3, <3>1 DEF HistInv, Create, Open, Rename, Close, Delete
  <2>4. ASSUME NEW f \in Files, NEW p \in Positions, Write(f, p) \/ Read(f, p)
        PROVE  HistInv'
    <3>1. stale' = stale
      BY <2>4 DEF Write, Read, After
    <3> QED
      BY <2>1, <2>2, <2>4, <3>1 DEF HistInv, Write, Read, Places
  <2>5. ASSUME PowerCut PROVE HistInv'
    <3>1. \E w : Restart(w)
      BY <2>5 DEF PowerCut, CutIdle, CutCreate, CutRename, CutClose, CutDelete, CutWrite, CutRead
    <3> QED
      BY <2>2, <3>1, HistRestart
  <2> QED
    BY <1>2, <2>3, <2>4, <2>5 DEF Next
<1> QED
  BY <1>1, <1>2

\* Everything is of its type; in particular no call is left with a buffer held, and
\* a page that is not torn has the id of a page.
THEOREM StoreTypes == Spec => []TypeOK
<1>1. StoreInv => dev \in Works
  <2> SUFFICES ASSUME StoreInv PROVE dev \in Works
    OBVIOUS
  <2>1. dev \in Work /\ Len(dev.bufs) = Buffers /\ NoneHeld(dev) /\ Fine(dev) /\ dev.cuts = {}
    BY DEF StoreInv, Idle, Sound, Body, Ends
  <2>2. dev.spare \in 0 .. Blocks
    <3>1. Cardinality(Tree(dev.home)) \in Nat
      BY <2>1, TreeFinite DEF Work
    <3> QED
      BY <2>1, <3>1, Sizes DEF StoreInv, Idle, Sound, BlocksInv, Work
  <2>3. dev.home \in [Groups -> [ts : 0 .. 2,
                                 pages : Seq({Dead} \cup [id : Ids, ver : 0 .. MaxWrites])]]
    BY <2>1 DEF Work, Block, PageSet, Vers
  <2>4. dev.bufs \in [1 .. Buffers -> [g : Groups \cup {None}, id : Ids, ver : 0 .. MaxWrites,
                                       mark : {"empty", "valid", "dirty"}, ref : {0}]]
    <3>1. dev.bufs \in [1 .. Buffers -> Buffer]
      BY <2>1, LenProperties DEF Work
    <3>2. \A i \in 1 .. Buffers : dev.bufs[i] \in Buffer /\ dev.bufs[i].ref = 0
      BY <2>1, <3>1 DEF NoneHeld
    <3>3. \A b \in Buffer : b.ref = 0 =>
            b \in [g : Groups \cup {None}, id : Ids, ver : 0 .. MaxWrites,
                   mark : {"empty", "valid", "dirty"}, ref : {0}]
      BY DEF Buffer, Vers
    <3> QED
      BY <3>1, <3>2, <3>3
  <2>5. dev.ret \in {"ok", "fail", "nobuf", "nopage", "nonode", "full"}
    BY <2>1 DEF Fine, Answers
  <2> QED
    BY <2>1, <2>2, <2>3, <2>4, <2>5 DEF Work, Works
<1>2. StoreInv /\ HistInv => TypeOK
  BY <1>1 DEF StoreInv, Lengthy, HistInv, TypeOK, Vers
<1> QED
  BY <1>2, InitInv, StepInv, HistInit, HistStep, PTL DEF Spec
=============================================================================
