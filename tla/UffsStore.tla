----------------------------- MODULE UffsStore -----------------------------
(***************************************************************************)
(* The files of a UFFS partition (src/uffs/uffs_fs.c) on the buffers and   *)
(* blocks of UffsDevice, with power cuts in the middle of any call.        *)
(* Offsets and lengths are counted in pages of data, all of them full;     *)
(* position -1 of a file is its page of file information.  A version is    *)
(* the number of the write it came from.  A call reads or writes one page. *)
(*                                                                         *)
(*   dev    the device                                                     *)
(*   len    u.file.len, -1 when the file does not exist                    *)
(*   view   history: the version a read of a position would return         *)
(*   cand   history: the versions a restart may find in it                 *)
(*   holed  history: files that once lacked a page before another one, or  *)
(*          had a torn page that looked free (`stale' of UffsDevice)       *)
(*   clock  how many writes were made                                      *)
(*   restarts  how many times power has failed                             *)
(***************************************************************************)
EXTENDS UffsDevice

CONSTANTS Starts,        \* what is on the flash at first, the clock and the restarts
          MaxLen,        \* bound: pages of data in a file
          MinErased,     \* MINIMUN_ERASED_BLOCK
          MaxWrites,     \* bound: how many writes are made
          MaxRestarts    \* bound: how many times power fails

HeadPages == Pages - 1
ASSUME StoreAssumption ==
  /\ MinErased = 2
  /\ MaxLen \in 0 .. HeadPages + MaxFdn * Pages
  /\ MaxWrites \in Nat /\ MaxRestarts \in Nat

\* GetStartOfDataBlock
StartOf(fdn) == IF fdn = 0 THEN 0 ELSE HeadPages + (fdn - 1) * Pages
\* in the head, page 0 is the file information
PosOf(fdn, id) == IF fdn = 0 THEN id - 1 ELSE StartOf(fdn) + id
\* the first n pages of a group, as they were first written
Fresh(n) == [ts |-> 1, pages |-> [i \in 1 .. n |-> [id |-> i - 1, ver |-> 1]]]
\* files of some length, and a block to spare; when power has failed before,
\* the last pages of a block may be missing before another one
ASSUME StartsAssumption ==
  \A s \in Starts :
    /\ s.image \in [Groups -> {{}} \cup {{Fresh(n)} : n \in 1 .. Pages}]
    /\ \A g \in Groups, n \in 1 .. Pages : s.image[g] = {Fresh(n)} => PosOf(g[2], n - 1) < MaxLen
    /\ s.clock \in 1 .. MaxWrites
    /\ s.restarts \in 0 .. MaxRestarts
    /\ Cardinality({g \in Groups : s.image[g] # {}}) < Blocks
    /\ \A g \in Groups : g[2] > 0 /\ s.image[g] # {} =>
         /\ s.image[<<g[1], g[2] - 1>>] # {}
         /\ s.restarts = 0 => s.image[<<g[1], g[2] - 1>>] = {Fresh(Pages)}

VARIABLES dev, len, view, cand, holed, clock, restarts
vars == <<dev, stale, len, view, cand, holed, clock, restarts>>

Positions == -1 .. MaxLen - 1
Places == Files \X Positions

-----------------------------------------------------------------------------
(* Where a position is *)

\* GetFdnByOfs
FdnOf(p) == IF p < HeadPages THEN 0 ELSE ((p - HeadPages) \div Pages) + 1
\* page_id
IdOf(p) == IF FdnOf(p) = 0 THEN p + 1 ELSE p - StartOf(FdnOf(p))

\* what uffs_BufGetEx would hand out
PageVer(d, g, id) ==
  LET hit == BufFind(d, g, id)
  IN IF hit # {} THEN d.bufs[Min(hit)].ver ELSE BestVer(d.home[g], id)
View(d) == [x \in Places |-> PageVer(d, <<x[1], FdnOf(x[2])>>, IdOf(x[2]))]

-----------------------------------------------------------------------------
(* The calls, as work on the device *)

\* a page that was got is put back, or written and put back
PutBack(x) == IF x.ret = "ok" THEN BufPut(x) ELSE x
PutWritten(x, v) == IF x.ret = "ok" THEN BufPut(BufWrite(x, v)) ELSE x

\* the name of the file is compared with the one in its file information
Opened(f) ==
  PutBack(BufGetEx(dev, <<f, 0>>, 0))

\* Mutant: a block is taken as long as there is one.
WriteNewAnyBlock(f, p, v) ==
  LET g == <<f, FdnOf(p)>>
      Flushed(y) == IF y.ret = "ok" THEN [FlushGroup(y, g) EXCEPT !.ret = "ok"] ELSE y
  IN IF dev.spare = 0 THEN [dev EXCEPT !.ret = "full"]
     ELSE Flushed(PutWritten(BufNew(dev, g, IdOf(p)), v))
\* do_WriteNewBlock and uffs_CreateObjectEx: the group is flushed at once, and
\* what the flush returns is not looked at
WriteNew(f, p, v) ==
  LET g == <<f, FdnOf(p)>>
      Flushed(y) == IF y.ret = "ok" THEN [FlushGroup(y, g) EXCEPT !.ret = "ok"] ELSE y
  IN IF dev.spare < MinErased THEN [dev EXCEPT !.ret = "full"]
     ELSE Flushed(PutWritten(BufNew(dev, g, IdOf(p)), v))

\* do_WriteInternalBlock
WriteInternal(f, p, v) ==
  LET g == <<f, FdnOf(p)>>
  IN IF dev.home[g] = NoBlock THEN [dev EXCEPT !.ret = "nonode"]
     ELSE PutWritten(IF p = len[f] THEN BufNew(dev, g, IdOf(p)) ELSE BufGetEx(dev, g, IdOf(p)), v)

\* uffs_WriteObject
StartsBlock(f, p) == p = len[f] /\ FdnOf(p) > 0 /\ p = StartOf(FdnOf(p))
WriteObject(f, p, v) == IF StartsBlock(f, p) THEN WriteNew(f, p, v) ELSE WriteInternal(f, p, v)

\* uffs_ReadObject
ReadObject(f, p) ==
  LET g == <<f, FdnOf(p)>>
  IN IF dev.home[g] = NoBlock THEN [dev EXCEPT !.ret = "nonode"]
     ELSE PutBack(BufGetEx(dev, g, IdOf(p)))

\* uffs_RenameObject: the name is in the file information, and the group is
\* covered unless the write has just flushed it
MoveObject(f, v) ==
  LET Covered(x) == IF x.ret = "ok" THEN FlushGroupEx(PutWritten(x, v), <<f, 0>>, TRUE) ELSE x
      Renamed(o) == IF o.ret = "ok" THEN Covered(BufGetEx(o, <<f, 0>>, 0)) ELSE o
  IN Renamed(Opened(f))

\* the first pass of do_TruncateObject finds every data block, or nothing is
\* truncated; the second erases them from the last to the first
DataBlocks(f) == {f} \X (1 .. FdnOf(len[f] - 1))
\* Mutant: the buffers of the erased blocks are kept.
TruncateDataKeepsBuffers(w, f) ==
  LET Gone(k) == {g \in DataBlocks(f) : g[2] >= k}
  IN IF \E g \in DataBlocks(f) : w.home[g] = NoBlock THEN [w EXCEPT !.ret = "nonode"]
     ELSE [w EXCEPT !.ret = "ok",
                    !.home = [g \in Groups |-> IF g \in Gone(1) THEN NoBlock ELSE w.home[g]],
                    !.spare = @ + Cardinality(DataBlocks(f))]
TruncateData(w, f) ==
  LET Gone(k) == {g \in DataBlocks(f) : g[2] >= k}
      Without(k) == [g \in Groups |-> IF g \in Gone(k) THEN NoBlock ELSE w.home[g]]
      x == [w EXCEPT !.ret = "ok",
                     !.home = Without(1),
                     !.spare = @ + Cardinality(DataBlocks(f)),
                     !.cuts = @ \cup {Image([w EXCEPT !.home = Without(k)]) : k \in 1 .. MaxFdn}]
  IN IF \E g \in DataBlocks(f) : w.home[g] = NoBlock THEN [w EXCEPT !.ret = "nonode"]
     ELSE MarkEmpty(x, DataBlocks(f), Ids)

\* do_TruncateInternalWithBlockRecover on the head: page 1 is made dirty with
\* no data in it and the block is covered, which stops at that page.  It is
\* tried again and again when page 1 cannot be got.
TruncateHead(w, f) ==
  LET g == <<f, 0>>
      Covered(z) == IF z.spare = 0 \/ FreeBufs(z) = {} THEN Failed(z)
                    ELSE CoverWith(z, g, <<[id |-> 0, ver |-> PageVer(z, g, 0)]>>, 1)
      Dirtied(x) == IF x.ret # "ok" THEN [x EXCEPT !.ret = "loops"]
                    ELSE Covered(MarkEmpty(PutWritten(x, 0), {g}, Ids \ {0, 1}))
  IN Dirtied(BufGetEx(FlushGroup(w, g), g, 1))

\* uffs_DeleteObject: whatever became of the truncation, all groups are flushed
\* and the head block is erased.  A truncation that loops never returns
DeleteObject(f) ==
  LET HeadToo(t) == IF t.ret = "ok" /\ len[f] > 0 THEN TruncateHead(t, f) ELSE t
      Gone(h) == IF h.ret = "loops" THEN h
                 ELSE Erased(MarkEmpty(FlushAll(h), {<<f, 0>>}, {0}), <<f, 0>>)
      Deleted(o) == IF o.ret = "ok" THEN Gone(HeadToo(TruncateData(o, f))) ELSE o
  IN Deleted(Opened(f))

-----------------------------------------------------------------------------
\* a page is missing before one that is there
Holed(v) == {f \in Files : \E p, q \in Positions : p < q /\ v[<<f, p>>] = 0 /\ v[<<f, q>>] # 0}
After(w) == /\ dev' = [w EXCEPT !.cuts = {}] /\ stale' = stale
            /\ view' = View(dev')
            /\ holed' = holed \cup Holed(view')
Succeeds(w) == w.ret = "ok"

Init == /\ \E s \in Starts : dev = Mounted(s.image) /\ clock = s.clock /\ restarts = s.restarts
        /\ stale = {}
        /\ len = Lengths(dev)
        /\ view = View(dev)
        /\ cand = [x \in Places |-> {view[x]}]
        /\ holed = Holed(view)

\* a new file takes the lowest serial that is free
Creatable(f) == len[f] = -1 /\ \A e \in Files : e < f => len[e] # -1
\* a position the file has, or the one behind its end
Writable(f) == {p \in Positions : 0 <= p /\ p <= len[f]}
Exists(f) == len[f] # -1

\* the next version is used
Stamped == clock < MaxWrites /\ clock' = clock + 1

Create(f) ==
  /\ Creatable(f)
  /\ Stamped
  /\ \E w \in {WriteNew(f, -1, clock + 1)} :
       LET made == Succeeds(w) /\ w.home[<<f, 0>>] # NoBlock
       IN /\ After(w)
          /\ len' = IF made THEN [len EXCEPT ![f] = 0] ELSE len
          /\ cand' = IF made THEN [cand EXCEPT ![<<f, -1>>] = {clock'}] ELSE cand
  /\ UNCHANGED restarts

Write(f, p) ==
  /\ p \in Writable(f)
  /\ Stamped
  /\ \E w \in {WriteObject(f, p, clock + 1)} :
       LET found == IF StartsBlock(f, p) THEN {clock'} ELSE cand[<<f, p>>] \cup {clock'}
       IN /\ After(w)
          /\ len' = IF Succeeds(w) THEN [len EXCEPT ![f] = Max({@, p + 1})] ELSE len
          /\ cand' = IF Succeeds(w) THEN [cand EXCEPT ![<<f, p>>] = found] ELSE cand
  /\ UNCHANGED restarts

Open(f) == /\ Exists(f)
           /\ After(Opened(f))
           /\ UNCHANGED <<len, cand, clock, restarts>>

Read(f, p) == /\ p \in Writable(f) \ {len[f]}
              /\ After(ReadObject(f, p))
              /\ UNCHANGED <<len, cand, clock, restarts>>

Rename(f) ==
  /\ Exists(f)
  /\ Stamped
  /\ \E w \in {MoveObject(f, clock + 1)} :
       /\ After(w)
       /\ cand' = IF Succeeds(w) THEN [cand EXCEPT ![<<f, -1>>] = {clock'}] ELSE cand
  /\ UNCHANGED <<len, restarts>>

\* uffs_CloseObject of a handle opened for writing
Close(f) ==
  /\ Exists(f)
  /\ \E w \in {FlushFile(dev, f)} :
       /\ After(w)
       /\ cand' = IF Succeeds(w) THEN [x \in Places |-> IF x[1] = f THEN {view[x]} ELSE cand[x]]
                                 ELSE cand
  /\ UNCHANGED <<len, clock, restarts>>

Delete(f) ==
  /\ Exists(f)
  /\ \E w \in {DeleteObject(f)} :
       LET gone == w.home[<<f, 0>>] = NoBlock
       IN /\ w.ret # "loops"
          /\ After(w)
          /\ len' = IF gone THEN [len EXCEPT ![f] = -1] ELSE len
          /\ cand' = IF gone THEN [x \in Places |-> IF x[1] = f THEN {0, view'[x]} ELSE cand[x]] ELSE cand
  /\ UNCHANGED <<clock, restarts>>

\* power fails in the work w and comes back: uffs_Mount.  Some of the torn pages
\* it finds are in blocks that stay in the cache of tags until they are written
Restart(w) ==
  /\ restarts < MaxRestarts
  /\ restarts' = restarts + 1
  /\ \E image \in {Image(dev)} \cup w.cuts : dev' = Mounted(image)
  /\ stale' \in SUBSET TornSince(dev, dev'.home)
  /\ view' = View(dev')
  /\ holed' = holed \cup Holed(view') \cup {g[1] : g \in stale'}
  /\ len' = Lengths(dev')
  /\ cand' = [x \in Places |-> {view'[x]}]

CutIdle == Restart(dev) /\ UNCHANGED clock
CutCreate(f) == Creatable(f) /\ Stamped /\ Restart(WriteNew(f, -1, clock'))
CutWrite(f, p) == p \in Writable(f) /\ Stamped /\ Restart(WriteObject(f, p, clock'))
CutRead(f, p) == p \in Writable(f) \ {len[f]} /\ Restart(ReadObject(f, p)) /\ UNCHANGED clock
CutRename(f) == Exists(f) /\ Stamped /\ Restart(MoveObject(f, clock'))
CutClose(f) == Exists(f) /\ Restart(FlushFile(dev, f)) /\ UNCHANGED clock
CutDelete(f) == Exists(f) /\ Restart(DeleteObject(f)) /\ UNCHANGED clock

PowerCut == \/ CutIdle
            \/ \E f \in Files : CutCreate(f) \/ CutRename(f) \/ CutClose(f) \/ CutDelete(f)
            \/ \E f \in Files, p \in Positions : CutWrite(f, p) \/ CutRead(f, p)

Next == \/ \E f \in Files : Create(f) \/ Open(f) \/ Rename(f) \/ Close(f) \/ Delete(f)
        \/ \E f \in Files, p \in Positions : Write(f, p) \/ Read(f, p)
        \/ PowerCut
Spec == Init /\ [][Next]_vars

-----------------------------------------------------------------------------
(* Properties *)

Works == [home : [Groups -> [ts : 0 .. 2,
                             pages : Seq({Dead} \cup [id : Ids, ver : 0 .. MaxWrites])]],
          spare : 0 .. Blocks,
          bufs : [1 .. Buffers -> [g : Groups \cup {None}, id : Ids, ver : 0 .. MaxWrites,
                                   mark : {"empty", "valid", "dirty"}, ref : {0}]],
          slots : [1 .. Slots -> Groups \cup {None}],
          ret : {"ok", "fail", "nobuf", "nopage", "nonode", "full"},
          cuts : {{}}]

TypeOK == /\ dev \in Works
          /\ stale \subseteq Groups
          /\ len \in [Files -> -1 .. HeadPages + MaxFdn * Pages]
          /\ cand \in [Places -> SUBSET (0 .. MaxWrites)]
          /\ clock \in 0 .. MaxWrites
          /\ restarts \in 0 .. MaxRestarts

\* Every block is on the erased list or in the tree, and one is always left to
\* cover another with: taking two blocks for a new node, giving one back and
\* erasing the covered one never loses or invents a block
\* (uffs_buf.c:792-807, 850-870).
BlocksAccounted ==
  /\ dev.spare + Cardinality({g \in Groups : dev.home[g] # NoBlock}) = Blocks
  /\ dev.spare >= 1

\* Between calls a slot is a group that is in the tree and has fewer dirty pages
\* than dirty_buf_max, and every dirty page is in the slot of its group: it can
\* be flushed, and the slots can never hold all the buffers.
DirtyGroups ==
  /\ \A s \in 1 .. Slots : dev.slots[s] # None =>
       /\ dev.home[dev.slots[s]] # NoBlock
       /\ Cardinality(DirtyOf(dev, dev.slots[s])) \in 1 .. DirtyMax - 1
       /\ SlotsOf(dev, dev.slots[s]) = {s}
  /\ \A i \in 1 .. Buffers : dev.bufs[i].mark = "dirty" => SlotsOf(dev, dev.bufs[i].g) # {}

\* No call ever ends for want of a buffer, a slot or a block to cover with,
\* although the configuration has as few buffers as it can.
NeverStarved == dev.ret \notin {"fail", "nobuf"}

\* The page with an id is never in front of the place the search for it starts
\* from ("the page which has page_id, should ahead of page_id",
\* uffs_public.c:165), whatever was overwritten, moved or torn, as long as no
\* restart has left a hole in the file.
SearchReaches ==
  \A g \in Groups : g[1] \notin holed => \A i \in DOMAIN dev.home[g].pages : dev.home[g].pages[i].id < i

\* Until power fails for the first time, the pages of a file are those in front
\* of its end: none is missing, and none of an earlier file of the same serial
\* is left.
WholeFiles ==
  restarts = 0 => \A x \in Places : x[2] < len[x[1]] <=> view[x] # 0

\* Until power fails for the first time, a page of data, or the file information
\* that an open looks at, is not found only when making room for it has moved its
\* group to another block.
ReadsFind ==
  [][dev'.ret # "ok" /\ restarts = 0 =>
       \A f \in Files : \A p \in Positions :
         Read(f, p) \/ (p = -1 /\ Open(f)) =>
           /\ dev'.ret = "nopage"
           /\ dev'.home[<<f, FdnOf(p)>>].ts # dev.home[<<f, FdnOf(p)>>].ts]_vars

\* The pages are a page store with a write-back cache: a call changes the pages
\* it names and no other, and a restart finds for each page a version that was
\* written since the page was last made durable.  It gives up no file but one that
\* has dirty pages or that it was about to write, so that a file that was closed
\* outlives any restart.
Pending == {f \in Files : \E i \in 1 .. Buffers : dev.bufs[i].mark = "dirty" /\ dev.bufs[i].g[1] = f}
PS == INSTANCE PageStore WITH Versions <- 1 .. MaxWrites, pending <- Pending
KeepsPages == PS!Spec

\* After a mount the length of a file is the number of its pages that are there.
\* "First try the last page. will hit it if it's the full loaded file/data
\* block" (uffs_public.c:362-364).
MountCounts ==
  [][restarts' # restarts =>
       \A f \in Files : len'[f] # -1 =>
         len'[f] = Cardinality({p \in Positions : p >= 0 /\ View(dev')[<<f, p>>] # 0})]_vars
=============================================================================
