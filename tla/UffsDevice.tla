----------------------------- MODULE UffsDevice -----------------------------
(***************************************************************************)
(* The page buffers, the dirty groups and the blocks of one UFFS device    *)
(* (src/uffs/uffs_buf.c, uffs_tree.c, uffs_public.c), as operators on a    *)
(* record `dev'.  A group is the unit that lives in one block of flash:    *)
(* <<f, 0>> is the head block of file f, <<f, n>> its data block number n. *)
(* Operators that may write the flash take and return a work record:       *)
(*                                                                         *)
(*   home   the block of each group, NoBlock when it is not in the tree    *)
(*   spare  tree.erased_count                                              *)
(*   bufs   the list of page buffers, from buf.head to buf.tail            *)
(*   slots  the dirty groups; the dirty list of a slot is the set of its   *)
(*          group's dirty buffers                                          *)
(*   ret    how the last step ended                                        *)
(*   cuts   what a power cut inside the call may leave on the flash: for   *)
(*          each group the set of blocks that claim to be its own          *)
(*                                                                         *)
(* The driver never reports an error (PARSE_STATUS), so that the code for  *)
(* bad blocks is dead.  A page is programmed in two steps, data and tag: a *)
(* cut between them leaves a Dead page.  A sector is erased or it is not.  *)
(*                                                                         *)
(* Tags are read through a cache of the last few blocks used.  For a block *)
(* of the tree it shows the flash, but for the marks a mount has put on    *)
(* torn pages (`stale').  An erased block goes to the end of the erased    *)
(* list, and its tags are taken to have left the cache when it is used     *)
(* again.                                                                  *)
(***************************************************************************)
EXTENDS Integers, FiniteSets, FiniteSetsExt, SequencesExt

CONSTANTS Files,            \* serial numbers
          MaxFdn,           \* bound: data blocks of a file
          Pages,            \* pages_per_block
          Buffers,          \* MAX_PAGE_BUFFERS
          Slots,            \* MAX_DIRTY_BUF_GROUPS
          DirtyMax,         \* MAX_DIRTY_PAGES_IN_A_BLOCK
          CloneThreshold,   \* CLONE_BUFFERS_THRESHOLD
          Blocks,           \* blocks of the partition
          None

ASSUME FilesAssumption == Files \subseteq Nat \ {0} /\ IsFiniteSet(Files)
ASSUME SizesAssumption ==
  /\ MaxFdn \in Nat /\ Blocks \in Nat
  /\ Pages \in Nat \ {0, 1} /\ DirtyMax \in 2 .. Pages
  /\ Slots \in Nat \ {0} /\ Buffers \in Nat \ {0}
\* the numbers of uffs_config.h: 4, 3 * ( 2 - 1 ) and 1
ASSUME BuffersAssumption ==
  /\ CloneThreshold = 1
  /\ Slots <= 3
  /\ Buffers > CloneThreshold /\ Buffers > Slots * (DirtyMax - 1)
ASSUME NoneAssumption == None \notin Files \X (0 .. MaxFdn)

VARIABLE stale   \* the groups whose torn last page was marked on the flash by the
                 \* last mount, but not in the cache: no call changes it

Groups == Files \X (0 .. MaxFdn)
Ids    == 0 .. Pages - 1

Dead == [id |-> -1, ver |-> 0]
NoBlock == [ts |-> 0, pages |-> <<>>]
SpareBuf == [g |-> None, id |-> 0, ver |-> 0, mark |-> "empty", ref |-> 0]

-----------------------------------------------------------------------------
(* Blocks: uffs_public.c *)

NextStamp(ts) == (ts + 1) % 3
Newer(src, obj) == src - obj \in {1, -2}

\* a page is looked for from the place its id names on; the last one wins
PlacesIn(b, id) == {i \in DOMAIN b.pages : b.pages[i].id = id /\ id < i}
IdsOf(b) == {id \in Ids : PlacesIn(b, id) # {}}
BestVer(b, id) == IF PlacesIn(b, id) = {} THEN 0 ELSE b.pages[Max(PlacesIn(b, id))].ver

\* the last page has data, and no tag but the mark of a mount
Torn(b) == b.pages # <<>> /\ Last(b.pages) = Dead
LooksFree(w, g) == g \in stale /\ Torn(w.home[g])
\* uffs_GetFreePagesCount: the pages behind those whose tags are used
UsedPages(w, g) == IF LooksFree(w, g) THEN Front(w.home[g].pages) ELSE w.home[g].pages
FreePages(w, g) == Pages - Len(UsedPages(w, g))

-----------------------------------------------------------------------------
(* The list of buffers *)

IsFree(b) == b.ref = 0 /\ b.mark # "dirty"
FreeBufs(w) == {i \in DOMAIN w.bufs : IsFree(w.bufs[i])}
BufFind(w, g, id) == {i \in DOMAIN w.bufs : /\ w.bufs[i].mark # "empty"
                                            /\ w.bufs[i].g = g
                                            /\ w.bufs[i].id = id}
DirtyOf(w, g) == {i \in DOMAIN w.bufs : w.bufs[i].mark = "dirty" /\ w.bufs[i].g = g}
DirtyIds(w, g) == {w.bufs[i].id : i \in DirtyOf(w, g)}
VerIn(w, g, id) == w.bufs[CHOOSE i \in DirtyOf(w, g) : w.bufs[i].id = id].ver

\* the members of S, each at the place after those that come before it; `before'
\* is a set of pairs
Arranged(S, before) ==
  [k \in 1 .. Cardinality(S) |->
     CHOOSE i \in S : Cardinality({j \in S : <<j, i>> \in before}) = k - 1]
Rising(S) == {p \in S \X S : p[1] < p[2]}
Falling(S) == {p \in S \X S : p[1] > p[2]}
Chosen(bufs, S, before) == [k \in 1 .. Cardinality(S) |-> bufs[Arranged(S, before)[k]]]

ToHead(w, i) == [w EXCEPT !.bufs = <<@[i]>> \o RemoveAt(@, i)]

\* _FindFreeBuf: the first free one of the result, if any
FindFreeBuf(w) == IF Cardinality(FreeBufs(w)) <= CloneThreshold THEN {} ELSE FreeBufs(w)

\* n times uffs_BufClone and uffs_BufFreeClone: each takes the first free buffer
\* and puts it back empty at the tail, so that from the m-th on, where m buffers
\* are free, the one taken is one already emptied
Recycled(w, n) ==
  LET m    == Min({n, Cardinality(FreeBufs(w))})
      gone == {Arranged(FreeBufs(w), Rising(FreeBufs(w)))[k] : k \in 1 .. m}
      kept == DOMAIN w.bufs \ gone
  IN [w EXCEPT !.bufs = Chosen(@, kept, Rising(kept)) \o [k \in 1 .. m |-> SpareBuf]]

\* dirty buffers that were written become valid and move to the head, the
\* lowest page first
CleanBuf(b, g) == IF b.mark = "dirty" /\ b.g = g THEN [b EXCEPT !.mark = "valid"] ELSE b
Cleaned(w, g) ==
  LET was  == DirtyOf(w, g)
      rest == DOMAIN w.bufs \ was
      last == {p \in was \X was : \/ w.bufs[p[1]].id > w.bufs[p[2]].id
                                  \/ w.bufs[p[1]].id = w.bufs[p[2]].id /\ p[1] < p[2]}
      bufs == [i \in DOMAIN w.bufs |-> CleanBuf(w.bufs[i], g)]
  IN [w EXCEPT !.bufs = Chosen(bufs, was, last) \o Chosen(bufs, rest, Rising(rest)),
               !.slots = [s \in DOMAIN @ |-> IF @[s] = g THEN None ELSE @[s]]]

-----------------------------------------------------------------------------
(* Flash images *)

Image(w) == [g \in Groups |-> IF w.home[g] = NoBlock THEN {} ELSE {w.home[g]}]
Claimed(w, g, S) == [Image(w) EXCEPT ![g] = S]
\* what is there while `more' is being written behind `done'
Partial(done, more) ==
  {done \o SubSeq(more, 1, k) : k \in 0 .. Len(more)}
    \cup {done \o SubSeq(more, 1, k) \o <<Dead>> : k \in 0 .. Len(more) - 1}

\* erase the block of g and put it on the erased list
Erased(w, g) ==
  LET x == [w EXCEPT !.home[g] = NoBlock, !.spare = @ + 1]
  IN [x EXCEPT !.cuts = @ \cup {Image(x)}]

-----------------------------------------------------------------------------
(* Flushing a group *)

\* Mutant: the last page is taken first.
DirtyPagesLastFirst(w, g) ==
  LET ids == Arranged(DirtyIds(w, g), Falling(DirtyIds(w, g)))
  IN [k \in DOMAIN ids |-> [id |-> ids[k], ver |-> VerIn(w, g, ids[k])]]
\* _FindMinimunPageIdFromDirtyList: the lowest page first
DirtyPages(w, g) ==
  LET ids == Arranged(DirtyIds(w, g), Rising(DirtyIds(w, g)))
  IN [k \in DOMAIN ids |-> [id |-> ids[k], ver |-> VerIn(w, g, ids[k])]]

\* a page programmed over a torn one is no version: bits are only ever cleared,
\* and neither an ECC nor a verification of the write tells
Programmed(w, g) ==
  [k \in DOMAIN DirtyPages(w, g) |->
     IF k = 1 /\ LooksFree(w, g) THEN [DirtyPages(w, g)[k] EXCEPT !.ver = 0] ELSE DirtyPages(w, g)[k]]

\* uffs_BufFlush_Exist_With_Enough_FreePage
Append2Block(w, g) ==
  LET b == w.home[g]
      used == UsedPages(w, g)
      x == [w EXCEPT !.home[g].pages = used \o Programmed(w, g), !.ret = "ok"]
      left == {b.pages} \cup (Partial(used, Programmed(w, g)) \ {used})
  IN [Cleaned(x, g) EXCEPT !.cuts =
        @ \cup {Claimed(w, g, {[b EXCEPT !.pages = p]}) : p \in left}]

\* Mutant: only the pages of the dirty list are written.
CoverPagesDirtyOnly(w, g) == DirtyPages(w, g)
\* the pages a cover writes: ids from 0 up to the first that is nowhere
CoverCount(w, g) ==
  Min({i \in Ids : i \notin DirtyIds(w, g) \cup IdsOf(w.home[g])} \cup {Pages})
CoverPages(w, g) ==
  [k \in 1 .. CoverCount(w, g) |->
     [id |-> k - 1, ver |-> IF k - 1 \in DirtyIds(w, g) THEN VerIn(w, g, k - 1)
                                                        ELSE BestVer(w.home[g], k - 1)]]
\* the number of pages copied through a clone
Copies(w, g) == Cardinality({k \in 1 .. CoverCount(w, g) : k - 1 \notin DirtyIds(w, g)})

\* uffs_BufFlush_Exist_With_BlockCover writing `pages', some of them copies: the
\* old block is erased when the new one is complete
CoverWith(w, g, pages, copies) ==
  LET b == w.home[g]
      n == [ts |-> NextStamp(b.ts), pages |-> pages]
      old == IF b = NoBlock THEN {} ELSE {b}
      writing == {Claimed(w, g, old \cup {[n EXCEPT !.pages = p]}) : p \in Partial(<<>>, pages)}
  IN [Cleaned(Recycled(w, copies), g) EXCEPT
        !.home[g] = n, !.ret = "ok", !.cuts = @ \cup writing \cup {Claimed(w, g, {n})}]

Failed(w) == [w EXCEPT !.ret = "fail"]
\* Mutant: the old block is never erased.
CoverKeepsOld(w, g) ==
  IF w.spare = 0 \/ (Copies(w, g) > 0 /\ FreeBufs(w) = {}) THEN Failed(w)
  ELSE [CoverWith(w, g, CoverPages(w, g), Copies(w, g)) EXCEPT !.spare = @ - 1]

\* no block, or no buffer to copy a page with: nothing is changed
Cover(w, g) ==
  IF w.spare = 0 \/ (Copies(w, g) > 0 /\ FreeBufs(w) = {}) THEN Failed(w)
  ELSE CoverWith(w, g, CoverPages(w, g), Copies(w, g))

\* _BufFlush_NewBlock takes a block for the node and covers it with another
NewBlock(w, g) ==
  LET GivenBack(x) == IF x.ret = "ok" THEN x ELSE [x EXCEPT !.spare = @ + 1]
  IN IF w.spare = 0 THEN Failed(w) ELSE GivenBack(Cover([w EXCEPT !.spare = @ - 1], g))

\* _BufFlush
FlushSlot(w, s, force) ==
  LET g == w.slots[s] IN
  IF g = None THEN [w EXCEPT !.ret = "ok"]
  ELSE IF w.home[g] = NoBlock THEN NewBlock(w, g)
  ELSE IF FreePages(w, g) >= Cardinality(DirtyOf(w, g)) /\ ~force
  THEN Append2Block(w, g)
  ELSE Cover(w, g)

SlotsOf(w, g) == {s \in DOMAIN w.slots : w.slots[s] = g}
FlushGroupEx(w, g, force) ==
  IF SlotsOf(w, g) = {} THEN [w EXCEPT !.ret = "ok"]
  ELSE FlushSlot(w, Min(SlotsOf(w, g)), force)
FlushGroup(w, g) == FlushGroupEx(w, g, FALSE)

\* _FindMostDirtyGroup; no group is locked when another one is wanted
FlushMostDirty(w) ==
  LET used == {s \in DOMAIN w.slots : w.slots[s] # None}
      most == {s \in used : \A t \in used :
                 Cardinality(DirtyOf(w, w.slots[t])) <= Cardinality(DirtyOf(w, w.slots[s]))}
  IN IF used = {} THEN [w EXCEPT !.ret = "ok"] ELSE FlushSlot(w, Min(most), FALSE)

\* uffs_BufFlushAll, and the loop of uffs_BufFlushGroupMatchParent, go through
\* the slots (at most 3) and stop at the first failure
FlushSlots(w, wanted) ==
  LET Step(x, s) == IF s \in DOMAIN x.slots /\ x.ret = "ok" /\ x.slots[s] \in wanted
                    THEN FlushSlot(x, s, FALSE) ELSE x
  IN Step(Step(Step([w EXCEPT !.ret = "ok"], 1), 2), 3)
FlushAll(w) == FlushSlots(w, Groups)
FlushFile(w, f) ==
  LET AndHead(x) == IF x.ret = "ok" THEN FlushGroup(x, <<f, 0>>) ELSE x
  IN AndHead(FlushSlots(w, {f} \X (1 .. MaxFdn)))

-----------------------------------------------------------------------------
(* Getting, writing and putting back a buffer *)

\* the buffer at i is handed to the caller
Held(w, i) == [w EXCEPT !.bufs[i].ref = 1, !.ret = "ok"]
BufPut(w) == [w EXCEPT !.bufs = [i \in DOMAIN @ |-> [@[i] EXCEPT !.ref = 0]]]

\* make room for a page; `found' is empty when there is none
WithRoom(w) == IF FindFreeBuf(w) # {} THEN w ELSE FlushMostDirty(w)

\* uffs_BufNew
BufNew(w, g, id) ==
  LET hit == BufFind(w, g, id)
      Take(x) == IF FindFreeBuf(x) = {} THEN [x EXCEPT !.ret = "nobuf"]
                 ELSE Held([ToHead(x, Min(FindFreeBuf(x))) EXCEPT
                              !.bufs[1] = [SpareBuf EXCEPT !.g = g, !.id = id]], 1)
  IN IF hit # {} THEN Held([ToHead(w, Min(hit)) EXCEPT !.bufs[1].ver = 0], 1)
     ELSE Take(WithRoom(w))

\* uffs_BufGetEx: the number of the block is read before room is made.  When
\* making room has moved the group to another block, which its time stamp
\* tells, the search goes through a block that is erased by now.
BufGetEx(w, g, id) ==
  LET hit == BufFind(w, g, id)
      Load(x) ==
        LET block == IF x.home[g].ts = w.home[g].ts THEN x.home[g] ELSE NoBlock
        IN IF FindFreeBuf(x) = {} THEN [x EXCEPT !.ret = "nobuf"]
           ELSE IF id \notin IdsOf(block) THEN [x EXCEPT !.ret = "nopage"]
           ELSE Held([ToHead(x, Min(FindFreeBuf(x))) EXCEPT
                        !.bufs[1] = [g |-> g, id |-> id, ver |-> BestVer(block, id),
                                     mark |-> "valid", ref |-> 0]], 1)
  IN IF hit # {} THEN Held(w, Min(hit)) ELSE Load(WithRoom(w))

IsFull(w, g) == Cardinality(DirtyOf(w, g)) >= DirtyMax

\* uffs_BufWrite to the buffer held
BufWrite(w, v) ==
  LET InHand(x) == CHOOSE i \in DOMAIN x.bufs : x.bufs[i].ref = 1
      g == w.bufs[InHand(w)].g
      Room(x) == IF SlotsOf(x, g) # {} THEN SlotsOf(x, g) ELSE SlotsOf(x, None)
      Dirtied(x) == [x EXCEPT !.bufs[InHand(x)].ver = v, !.bufs[InHand(x)].mark = "dirty",
                              !.slots[Min(Room(x))] = g, !.ret = "ok"]
      Full(y) == IF IsFull(y, g) THEN FlushGroup(y, g) ELSE y
      Put(x) == IF Room(x) = {} THEN Failed(x) ELSE Full(Dirtied(x))
  IN Put(IF Room(w) # {} THEN w ELSE FlushMostDirty(w))

\* uffs_BufMarkEmpty: dirty or not, the pages of the groups are forgotten
MarkEmpty(w, gone, ids) ==
  LET x == [w EXCEPT !.bufs = [i \in DOMAIN @ |->
                                 IF @[i].g \in gone /\ @[i].id \in ids THEN SpareBuf ELSE @[i]]]
  IN [x EXCEPT !.slots = [s \in DOMAIN @ |-> IF DirtyOf(x, @[s]) = {} THEN None ELSE @[s]]]

-----------------------------------------------------------------------------
(* Mounting: uffs_BuildTree *)

Valid(S) == {b \in S : b.pages # <<>> /\ b.pages[1] # Dead}
\* Mutant: of two blocks the newer one is kept.
KeepNewer(S) == IF Valid(S) = {} THEN NoBlock
                ELSE CHOOSE b \in Valid(S) : \A c \in Valid(S) : c = b \/ ~Newer(c.ts, b.ts)
\* _BuildValidTreeNode: of two blocks that claim a group the older one is kept
Keep(S) == IF Valid(S) = {} THEN NoBlock
           ELSE CHOOSE b \in Valid(S) : \A c \in Valid(S) : c = b \/ ~Newer(b.ts, c.ts)

\* _ScanAndFixUnCleanPage: torn pages that this mount is the first to mark.  The
\* tag of each was loaded before, and stays in the cache as it was
TornSince(w, home) == {g \in Groups : Torn(home[g]) /\ home[g] # w.home[g]}

\* step three: a data block without a head is erased
Mounted(image) ==
  LET kept == [g \in Groups |-> Keep(image[g])]
      home == [g \in Groups |-> IF kept[<<g[1], 0>>] = NoBlock THEN NoBlock ELSE kept[g]]
  IN [home |-> home,
      spare |-> Blocks - Cardinality({g \in Groups : home[g] # NoBlock}),
      bufs |-> [i \in 1 .. Buffers |-> SpareBuf],
      slots |-> [s \in 1 .. Slots |-> None],
      ret |-> "ok",
      cuts |-> {}]

\* uffs_GetBlockFileDataLength, in pages: those from the first on up to one that
\* is missing
PagesCounted(b, first) == Min({k \in first .. Pages : k \notin IdsOf(b)}) - first
DataLength(b) == PagesCounted(b, 0)
\* if the last page of a head block looks like that of a full one, the rest is
\* not counted
HeadLength(b) ==
  IF Len(b.pages) = Pages /\ b.pages[Pages].id = Pages - 2
  THEN Pages - 1 ELSE PagesCounted(b, 1)
Lengths(w) ==
  [f \in Files |->
     IF w.home[<<f, 0>>] = NoBlock THEN -1
     ELSE HeadLength(w.home[<<f, 0>>])
            + Cardinality({y \in (1 .. MaxFdn) \X Ids : y[2] < DataLength(w.home[<<f, y[1]>>])})]
=============================================================================
