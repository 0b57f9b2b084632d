# Verification of the DLC four-door access terminal

The firmware of a door/card terminal (LM3S8962, one main loop, one interrupt,
the Keil TCPnet stack, UFFS on a W25X SPI flash) and the Python server that
keeps a cluster of such terminals supplied with white lists and collects their
records.  This directory holds TLA+ models of its core logic, TLC
configurations that check them on small instances, and TLAPS proofs.
Line numbers are those of the files under `src/`; the C files are in GB18030.

Contents: 1 inventory, 2 modules and the code they model, 3 runs, 4 fairness,
5 proofs, 6 what the code does not promise, 7 what is not modelled, 8 plan.

## 1. Inventory

### 1.1 The parts and how they meet

The firmware has no threads.  `main` (HTTP_upload.c 422-438) loops over
`timer_poll`, `main_TcpNet`, `dhcp_check`, `access_loop` and the LED.  Three
things run outside this order:

* `UARTIntHandler` (HTTP_upload.c 281-301), the only interrupt with state of
  its own: it may strike between any two statements;
* TCP callbacks, CGI requests and T-commands, which run inside `main_TcpNet`;
* `main_TcpNet` itself, which is called again from inside
  `system_send_buf_to_host` (access_main.c 399-402) while a record waits for
  the socket, and from `access_init`.

The server (tools/dlc_cluster.py, Python 2) is one process: the main thread
accepts connections of terminals and starts a thread for each
(`cluster_server_net_connect_thread`), one thread makes the white lists
(`cluster_server_white_name_list_main`), one visits the terminals
(`cluster_server_termial_main`).  They share global variables and two local
files, without a lock.

Terminal and server meet in four ways: a TCP connection the terminal opens, on
which it sends records and beats; HTTP posts, by which the server (or a person)
puts files on the terminal; T-commands, which are HTTP requests for a page whose
text is the command; and UDP broadcasts by which terminals are found.

### 1.2 Components

| component | source | state | operations | hard about it | what makes it correct |
|---|---|---|---|---|---|
| card reader | HTTP_upload.c | `g_card_data`, its count, `g_card_no` | a byte arrives | frame marks inside data, noise, overlong runs | a frame that arrives whole is read whole |
| access loop | access_main.c, HTTP_upload.c | `g_card_no`, `g_deal_card_no`, `g_record_id`, the send socket | poll, judge, send, save, beat | the interrupt between copy and clear, a send that runs the network inside it, a lost connection | one record per judged card, in order, with its own verdict |
| access decision | access_main.c, white_name.c | files of holidays, week plans, time areas, white names | `do_cam` | the clock runs on, lists that end early | nobody enters outside an area listed |
| text index | txt_file_index.c, mp_misc.c | `fn.lp` beside each text | make, read line, search | stale index, last line, the byte past the end | a search finds the first line with the key |
| record ring | record.c | 1000 slots and flags | save, first unsent, tick off, get | wrap, restart, the flag byte | the last records can be read; a sent flag is honest |
| rand files | vfs/rand_file.c | a flag file `.ri` and a data file per store, a table of ten open ones | create, open, close, find, set, add, del | two files made and written one after the other, power cuts | a live slot holds whole data; the stores open at every boot |
| property store | property.c | 128 slots of key and value | get, set, boot-time test | delete before add, power cut, keys that begin others | a get returns the last set |
| white names | white_name.c | the two files, property `white_name_cs` | init, change, lookup | files replaced from outside | the checksum is that of the cards held |
| T-commands | t_cmd.c | one answer buffer | a dozen commands | an answer that survives its command | the answer is that of the command |
| HTTP upload | HTTP_CGI.c, HTTP_uif.c | one static `f` for all sessions | name, data, end | overlapping sessions, lost sessions, ten handles | data reaches its file, no handle is lost |
| UFFS handles | uffs_fd.c, uffs_pool.c | pool of ten objects | open, write, close | double close, exhaustion | a handle has one owner |
| server: records | dlc_cluster.py | `g_termial_ip_list`, a thread per connection | accept, receive, save | no record boundaries, timeouts, two threads of one terminal | what was sent is saved once |
| server: white lists | dlc_cluster.py | two files, a list, a checksum | make, compare, post, change | two files renamed apart, failed posts, restarts | the terminal ends up with the database's list |
| server: manual commands | dlc_cluster.py | none | upload, download, set time | none | sequential tools |
| clock, DHCP, LED | RTC.c, HTTP_upload.c | a few counters | poll | timeouts | |
| display, system values, tracing | gui_if.c, lcd.c, system_value.c | page on show | | formatting | |
| UFFS core | uffs_buf.c, uffs_tree.c, uffs_public.c, uffs_fs.c | page buffers, dirty groups, the erased list, a tree of head and data blocks | create, open, write, read, rename, delete, close; mount | 4 buffers for everything, a block rewritten to another, power cuts at each page | no block is lost, no call is starved, a restart finds what a write-back cache promises |
| flash driver | flash-interface-example.c, W25X32.c | none | program a page, erase a sector | page boundaries | sequential |

PROJECT.json lists them with what is modelled of each, and the hazards at their
lines.

## 2. Modules

| module | models | state ↔ code | actions ↔ code |
|---|---|---|---|
| RandFile | rand_file.c, an open file | a record of flags and data | operators for find, set, add, del, flags |
| PropertyStore | property.c on RandFile and the UFFS cache | `cache` what reads see, `flash` what a restart finds | `property_set` in its four writes, `property_test` at boot, a flush of any page, a power cut |
| AccessLoop | interrupt, main loop, send, ring, host queries | `cardNo`, `dealNo`, `pc` of the loop, `sock`, `ring` | one action per step another actor can come between; TCP events and T-commands only inside `main_TcpNet` |
| AccessJournal | abstract: what the terminal promises of its records | how many, the last card, the readable ones | append, become sent |
| CardReader | `UARTIntHandler` | `g_card_data`, count, `g_card_no` | a byte of a frame, a byte of noise, the loop takes the card |
| AccessDecision | `do_cam`, `sub_do_cam` | files, clock, the position in the list | check, find group, read plan, try an area; the clock ticks at any point |
| TextIndex | txt_file_index.c, `df_read_line` | a text, its index | the index is made when missing; an upload overlays the text |
| HttpUpload | `cgi_process_data`, `http_fopen`, UFFS handles, `white_name_init` | the pool, the static `f`, sessions | codes 1, 2, 3, a lost session, a download, white_name_change |
| HostLink | send, TCP, the thread per connection | streams, threads, the database, the sockets that time out | send a record or a beat, connect, break, receive any number of items, time out, save, fail, a T-command to any terminal |
| StoreBoot | `property_init`, `record_init`, `white_name_init`, `rand_file_create`, `rand_file_open`; `save_card_info` after a restart | the files as a power cut leaves them (`ri`, `size`, `kept`), handles used, the table of open files, the ring as read and as on flash | one action per step of `rand_file_create` a cut can come after; a record saved; a page of the ring flushed; an upload; a power cut |
| UffsDevice | page buffers, dirty groups and blocks of UFFS, as operators on a work record | `home` the block of each group, `spare`, `bufs` in list order, `slots`, `cuts` the flashes a power cut may leave; `stale` the groups whose torn page the cache of tags shows clean | `BufGetEx`, `BufNew`, `BufWrite`, `BufPut`, flush by append, by cover or to a new block, `Mounted` |
| UffsStore | the files on it (uffs_fs.c) | `dev`, `len` | create, open, write, read, rename, delete, close, and each of them cut short by a power failure at any page or tag it programs |
| PageStore | abstract: what a file system with a write-back cache promises of its pages | `view` what a read returns, `cand` what a restart may find, `pending` the files with unsaved pages, `holed` the files given up | write, write through, flush, remove, a power cut between calls or in one |
| WhiteListSync | list thread, terminal thread, terminal | local files, terminal files, `white_name_cs`, the answer buffer | each unlink, rename, request, post and restart |

RandFile is extended by PropertyStore, AccessLoop and StoreBoot, UffsDevice by
UffsStore.  AccessLoop implements AccessJournal (`IsJournal`, a refinement mapping
that reads the journal out of the ring), UffsStore implements PageStore
(`KeepsPages`).  AccessLoop takes any verdict where AccessDecision computes one,
AccessDecision takes whatever plan and area a search returns where TextIndex
computes it, and HostLink takes AccessLoop's sends as given: these three
interfaces are narrow enough to be stated in the comments.

History variables (`journal`, `handed`, `want`, `risky`, `quiet`,
`clean`, `rough`, `past`, `back`, `touched`, `made`, `left`, `cand`, `holed`,
`old`, `cutIn`, `failed`) appear in no guard
and are marked as such where they are declared; `shown` only numbers the cards.

Abstractions that matter:

* a card number stands for one presentation of a card; a record is its number,
  card and verdict;
* a chunk of an upload is the number of the upload and its place in it; the
  content of a white-list file is the list it was made from, or Torn;
* what is put in a slot of a rand file replaces what was there; of a record of a card
  the code writes as many bytes as it is long (record.c 153, rand_file.c 211-215), so
  that the end of a longer one stays behind it, which no property tells apart;
* the answer of a decision is allowed or not; the code returns which rule allowed it
  (access_main.c 249);
* what the server receives is counted in items, because fewer than ten can be
  waiting and `recv( 1000 )` never splits one;
* UFFS keeps what was closed; what was not, may be lost at a restart (in
  PropertyStore, page by page and in any order);
* `cam_read_group_id_from_white_name_record` takes the number of the card for
  the address of a string (white_name.c 190): AccessDecision lets it find any
  record or none.

## 3. Runs

| run | shows | bounds, and why they are enough |
|---|---|---|
| property_store | no duplicate keys, no holes, no lost value; a replacement goes where the old value was; the first power cut costs only keys not settled | 2 slots and 3 keys: the table is full, and a key is refused; each page flushed separately, one cut |
| access_loop | order, ring, sent flags, host queries, refinement, no card or connection waits for ever | ring of 3, 4 cards: it wraps, two records are in it before that, and a card arrives at each point of the turn of another; one verdict, because that each record keeps its own is proved for any set of them |
| white_list_sync | a skip is justified, the list arrives, then posting stops | 3 lists, 2 changes, 1 restart, unlink and rename failing as on Windows |
| white_list_flags | (violation) new cards with old flags | 1 change |
| card_reader | the buffer is kept, frames are read whole, nothing else appears on a quiet line | numbers of 2 bytes, some of them frame marks, buffer of 7: noise overruns it |
| access_decision | in only inside, out only outside | days of 3 seconds, 2 days: midnight passes while a card is judged; plans that end by length, by 0 and by a missing area |
| text_index | searches find what they should | every text of up to 4 characters and 3 longer ones, old and new index |
| http_upload | pool, uploads, handles | 3 sessions, 3 handles (the store needs 2), 2 uploads of 2 chunks: the pool runs out |
| host_link | saved once, in order, in time; a terminal there before the first T-command becomes known | 3 records, 2 connections, 2 items waiting: two threads serve the terminal, items are lumped, one connection is made before the timeout is set and one after |
| uffs_store | blocks, dirty groups, no starvation, page search, whole files, reads, refinement of PageStore | 2 files of up to 2 blocks of 3 pages, 4 blocks, 3 buffers in 2 slots of 1 dirty page: the fewest the assumption allows; starts from an empty flash with room for 4 writes, from one with no more than the spare block to cover with and room for two writes, from one on which a file cannot grow into a new block for want of one, and from one a cut has left a hole in; two cuts, the second after the repair of the first, each at any page, tag or erase; any choice of the torn pages looks free afterwards (49,720 states) |
| uffs_length | (violation) a rewritten head block is taken for full at the mount | as uffs_store |
| store_boot | the stores open, handles suffice, records are in their slots, a restart costs one old record a card | 3 slots, numbers up to 4: the ring wraps; 10 handles as in the firmware, and two cuts, so that the second comes while what the first left is being repaired |

Every bound is a constant whose name begins with `Max` (or `Handles`, `Count`,
`Texts`, `Tables`), used in guards only.  HttpUpload is checked with sessions
as a symmetric set: nothing tells them apart, and no liveness is checked there.
uffs_store and uffs_length are checked without deadlock: when the last write is
made and all files are deleted, nothing is left to call.  TypeOK of
WhiteListSync, HostLink, TextIndex, AccessDecision and UffsStore says what the
variables range over; the runs check what is said of their values.

Properties that hold under a condition name it: `quiet` (neither noise nor a number
with a frame mark on the reader's line), `clean` (forms one at a time, none blank), `rough` (a lump, a lost
connection or an ended thread has happened), `failed` (the network or the database
has failed), `timeout` (a T-command has been sent), `holed` (a file once lacked a
page before another one, or had a torn page that looked free), `restarts = 0` (power has not failed yet), `cutIn` (power
failed while that store was being made), `NeverCut` (it has not failed at all), `Excused` (a list has come back, or
the list thread has ended), `Stuck` (below).  The condition is recorded by the
actions, so that the same run explores both what the property is about and what
ends its validity; type invariants hold throughout.

The two violations are findings: a line of the repository says one thing of the
program, and the run shows the other (PROJECT.json, "findings").

## 4. Fairness

* AccessLoop: weak fairness of the loop (the processor runs), strong fairness of
  `Beat` (the clock reaches the next ten seconds again and again), weak fairness
  of `Acked` (a peer that stays connected acknowledges).  Nothing is assumed of
  connections.
* WhiteListSync: both threads run; a request, a post and a white_name_change that
  are tried again and again get through sometimes (strong fairness of `AskOK`,
  `PostDone`, `ChangeOK`).  Without it the link may be dead, and no protocol
  delivers anything.
* HostLink: the server's threads run, the terminal sends its beats, the stacks
  connect and report a close.  Weak fairness of `RecvBeat`, `RecvRecord` and
  `SaveRecord` together does not exclude that the database fails, nor that a thread
  times out; none is assumed of `Break`, `RecvEnds`, `SaveFails` and `VisitTerminal`.

## 5. Proofs

Each theorem holds for all values of the constants under the named assumptions
of the module; the provers check every leaf.

* PropertyStoreProofs, on lemmas about what the operators of RandFile change, keep
  and find: `TypeCorrect` (types through any calls, flushes and power cuts); `Holes` (NoHoles and ReplacesInPlace: a replacement always finds the
  slot it freed), until power fails: the inductive invariant adds, for each point inside
  `property_set`, which slot is the only hole; `NeverTwice`
  (OneSlotPerKey) and `Reads` (ReadsBack) for keys of which none begins with another: the invariant adds that
  a live slot's value is the one wanted, except for the key being set; `FirstCut`
  (FirstCutSparesSettledKeys), for the same keys: until the first cut a slot once
  given to a key keeps it, because `property_set` replaces in place, so what the
  flash has of a slot is blank or of the slot's own key, and no stale copy of a
  key lies in another slot for the start to find.
* AccessLoopProofs: `TypeCorrect`; `InOrder`: OrderInv relates the number in
  `g_card_no`, the one being dealt with and the last one judged at each point of
  the loop; `RingKeepsTail`: RingInv says that the card in hand is the last of the
  journal, and needs that records less than Count apart have different slots
  (`PositionsDiffer`); `SentIsHonest`: at the save, an outcome of 1 means that the
  record was handed over; `TicksAreOfRead`: a host that ticks off by a search made
  anew still ticks what it read, until the ring wraps; `ImplementsJournal`: every
  step maps to a step or a stutter of AccessJournal, by RealInv (a judged card is
  not 0) and the two lemmas on what a save and a tick do to the slots in reach.
  Of CardReader, which the module extends too, for any size of buffer, length of
  number and bytes: `ReaderTypeCorrect`; `FramesAreRead` (FrameIsRead) of any frame whose number does not
  hold Hash: the invariant says that what the line still holds is the end of the
  frame and what it no longer holds is the beginning of the buffer, whatever was in
  it before; `NothingElseIsRead` (OnlyPresented): no number on a quiet line holds a
  mark.
* AccessDecisionProofs, for any plans, areas, day and clock: `TypeCorrect` (the
  loop never leaves the plan), `NobodyEntersOutside` (NeverOutside) and
  `NobodyListedIsRefused` (RefusedOnlyOutside).  The invariant: the list in hand is
  the plan of the day the judging began, the areas before the position are
  there, and the card was outside each of them unless midnight has passed since.
  Of the texts it reads, for any texts and index: `SearchesFind` (SearchFinds) and
  `OldLinesAreKept` (OldLinesAreFound).  The invariant of an index being made is that
  its entries are the line starts up to the read position, in order; a search then
  reads the lines one after the other, so the first line with the key is met first.
  The lines of a text are counted by the number of line ends before a byte, a fact
  about intervals for which no recursion is needed.
* ClusterServerProofs, of the server: `LinkTypes`; `NoneTwiceInOrder`
  (SavedOnceInOrder): every item is in one place, the socket, the stream of one
  connection, or the hand of one thread; the numbers saved, in hand and on their way
  follow one another until something is lumped or ends.  `SkipsHaveTheCards`
  (SkipMeansCards), for lists whose sums differ: whatever checksum the terminal
  holds or an answer carries is that of the cards it has, or a white_name_change
  that will make it so is still to come, for each step of making, comparing and
  posting a list.
* HttpUploadProofs, for any sets of sessions and files: `PoolIsSound` (TypeOK),
  `HandlesAreAccountedFor` (HandlesAccountedFor) and `UploadsLand` (UploadLands).
  The invariant counts the handles in use against those that `f`, the stores and
  the lost forms hold; the chunks in a file are those of the form it was opened for.
* StoreBootProofs: `StoresAreOpen`, `PoolIsEnough` (the handles in use are those
  of the open stores, of the file being made and one for each creation refused;
  nine are enough, the theorem's assumption, and the firmware has ten),
  `RecordsInTheirSlots`, `CardsCostOne`.
* UffsStoreProofs, for any number of files, blocks, pages a block, buffers, slots
  and dirty pages that satisfy the assumptions: `StaysSound`, `NoBlockIsLost`
  (BlocksAccounted), `NothingStarves` (NeverStarved), `DirtyPagesHaveSlots`
  (DirtyGroups: a dirty page is in one buffer and its slot counts it) and
  `StoreTypes` (TypeOK).
* UffsPagesProofs, under the same assumptions, of what the pages hold:
  `FilesArePageStore` (KeepsPages, the refinement: every call, and every cut in a
  call, is a step of PageStore or a stutter), `SearchesReachPages` (SearchReaches),
  `FilesAreWhole` (WholeFiles), `ReadsFindPages` (ReadsFind), all from `PagesStay`.

The argument for UffsStore.  `StoreInv` says of the device between two calls:

* the last buffer of the list is empty and free (`Ends`).  It is what makes
  NeverStarved true: `_FindFreeBuf` refuses the last free buffer, so that nothing is
  ever put in it, and a cover always has one to copy pages with, whatever is held;
* the slots are the groups with dirty pages, one each (`SlotsInv`), and such a
  group has a block (`AtHome`).  Inside `do_WriteNewBlock` there is one that has
  none; it has page 0 dirty and two blocks are spare (`Ready`), so that flushing it
  leaves one, whichever flush comes first;
* blocks in the tree and spare ones add up, and one is spare (`BlocksInv`);
* the first page of a block in the tree is page 0 of its group (`HeadsInv`);
* each flash a power cut may leave can be mounted (`ImageInv`): the blocks that
  claim a group have two successive time stamps, so that `Keep` has one to choose,
  each begins with page 0 or is still being written, and less groups than there
  are blocks have any.

Each operator of UffsDevice has a lemma that says what it does to these parts and
which dirty or held buffers it keeps (`Kept`, `Holds`); the lists of buffers are
related element by element, because their order is what `ToHead`, `Cleaned` and
`Recycled` change.  Each call of UffsStore then has a lemma (`WriteNewIs`,
`MoveObjectIs`, `DeleteObjectIs`, ...) that ends in such a device with an answer
other than `fail` and `nobuf`, and with every cut on the way mountable; PowerCutInv
uses the same lemmas for a call that is cut.

The argument for its pages.  `PagesInv` says of each file that is not `holed`:

* each of its groups is `Tidy`: on its block, and on the block of it in each flash
  a power cut may leave, a page has all pages with lower ids in front of it
  (`Laid`), so that a search that starts at its id meets it; no page is missing in
  front of another, buffers and block taken together (`Solid`); and a clean buffer
  shows what is on the block.  An invariant of the blocks alone would not do: a
  block is written from dirty buffers in the order of their ids, and stays laid out
  only because the ids that are not dirty are already there;
* what a restart may find of a page is among the versions PageStore allows
  (`Within`);
* its pages are those in front of its end, but that a mount may count one more when
  the head block is full (`Filled`: the finding of uffs_length);
* none of its torn pages looks free: a group in `stale` belongs to a `holed` file
  (`Marked`), so that what is appended to its blocks comes behind what is there.

Each operator of UffsDevice has a lemma that compares the device after it with the
one before: making room, flushing and handing out a buffer are `Calm`, they change
no page and let a restart find nothing it could not find before, whichever of the
old and the new block a cut leaves; `BufWrite` `Alters` one page; erasing `Clears` a
group.  Each call of UffsStore is then a chain of calm steps and one of the others
(`WriteObjectCut`, `DeleteCut`, `RenameCut`, ... for a call power fails in, which
ends with one of its cuts).  `RestartPages` carries the invariant through the
mount: of two blocks that claim a group the mount keeps one that PagesInv already
speaks of, so that a file keeps within what was promised, or is `holed` and nothing
is promised of it any more.  What is given up is bounded: a hole or a torn page is in a
block that was being written, and a flush writes only groups with dirty pages, so that
the file is in `pending` or is the one the call names (`StaysSettled`, `TornWritten`).
A file that was closed is neither, and outlives every later restart whole.

Assumptions on constants: those named in the modules; `MaxHandles >= 9` in
StoreBoot's `PoolIsEnough`; no key begins another (`NoPrefixes`) and no two lists
have the same sum (`SumsDiffer`) in the theorems that say so; for UffsStore that there
are more buffers than CLONE_BUFFERS_THRESHOLD and than the dirty pages the slots can
hold, that a slot may hold two, and at most three slots, which is what uffs_config.h
has.

Only model-checked is all liveness, under the fairness of section 4: it rests on
ENABLED, which the provers do not have.  Every invariant and every action property
of the passing runs is stated by a theorem.

## 6. What the code does not promise

Found while modelling, at the lines given; the first two are findings of runs,
the others are stated here because a property had to be weakened for them.

* The checksum compares the cards only: a terminal can keep new cards with old
  slot flags (dlc_cluster.py 1205, 1361-1362).
* After a mount a head block whose last page was reached by rewriting an earlier
  one counts as full, and its file as a page longer (uffs_public.c 369).
* A form without a file closes the last handle again (HTTP_CGI.c 128-131, 207).
* Of two records received at once the second is dropped (dlc_cluster.py 1163).
* The server sets no timeout before it listens (1439), but the first T-command, to
  whichever terminal, sets the default of all sockets made afterwards to 2 seconds
  (1653), and terminals beat every ten (access_main.c 560).  A connection accepted
  after it ends between every two beats, unless something happens to arrive in its
  first two seconds: such a terminal need never become known, and so never gets a
  list.  `TerminalIsKnown` speaks of connections made before; its mutant sets the
  timeout before the server listens.
* A connection lost while `system_send_buf_to_host` waits for `tcp_check_send`
  leaves the loop there: nothing inside it reopens the socket (access_main.c
  399-402).  The liveness properties of AccessLoop name it `Stuck`.
* Two uploads at once share `f`: the data of one goes to the other's file
  (HTTP_CGI.c 108).
* An upload is never cut to its new length, because `uffs_open` does not
  truncate: the end of a longer old file stays.
* A list that comes back while a white_name_change is lost is not sent again, and
  lists with equal sums of bytes are never told apart (dlc_cluster.py 1205, 1298).
* A terminal without a checksum whose first white_name_change answers -1 repeats
  -1 to property_get, which the server reads as `not reachable` (t_cmd.c 108-112).
* A terminal that starts without card files and loses its `.ri` file in a restart
  keeps the checksum of the list before, because `white_name_init` returns before
  it has one of its own (white_name.c 239): with a new `.rf` and that sum it is left
  alone when the old list comes back.  SkipMeansCards counts such a terminal as one
  whose cards were `touched` until a `white_name_init` has opened both files.
* On Windows a rename onto a file that is being posted ends the list thread
  (dlc_cluster.py 1361).
* Records that could not be sent are never fetched: the code is under `if 0:`
  (dlc_cluster.py 1216).
* A card number with the byte 0x0a or 0x23 is cut or mixed with an earlier one
  (HTTP_upload.c 290-296).
* After a second power cut a property other than the one being set can be lost:
  the first may have left a hole, and the flag of a slot can reach the flash before
  the data that fills it.
* A text whose index is older than it may hide lines; only lines added at the end
  do no harm to the old ones.  In a text without a final line end, a search
  without a match reads at `line_no * 4` of the text (txt_file_index.c 79-85).
* `df_get_file_size` does not close an empty file (mp_misc.c 723): with an empty
  holiday.txt each card costs a handle.
* A power cut in `rand_file_create` between the `.ri` file and the data file is
  never repaired: open fails, create finds the `.ri` file, returns -1 and keeps its
  handle (rand_file.c 111-113), at each boot again.  The `uffs_remove` of the data
  file comes after the `.ri` file has been written (127).
* After a cut while the data file is filled (133-135) it is shorter than its flags:
  `uffs_seek` stops at its end (uffs_fs.c 1150), and a record saved beyond goes to
  the end of the data instead of its slot.
* `rand_file_info_find_empty` looks through 128 entries of a table of ten
  (rand_file.c 62); `PoolSuffices` shows that it stops in the first three.
* `g_record_id` starts at 1 after a restart (access_main.c 9): the ring is written
  over from position 1, records that were never sent included, and what the
  host asks for by number is no longer in order.
* With midnight between the card and the reading of an area, a card that is listed
  is refused (access_main.c 44).
* `do_cam_check_file` asks with `fopen` of the C library, not of UFFS
  (access_main.c 306-314); the model takes the two to agree.

* UFFS: a read of a page that is not in a buffer looks up its block, then makes
  room for it; when that moves the block, the read ends without the page
  (uffs_buf.c 1342-1370, the one exception of `ReadsFind`).
* UFFS: the last page of a head block can still be in a buffer when a data block of
  the file is flushed: a cut then leaves a file with a page missing before its end
  (`holed`).  What is deleted and made again with the same serial may find old
  pages of such a file.  After a second cut, or one with more than two dirty pages
  a block, a page of such a file can be put on its block at a place in front of its
  id, where the search for it, which starts at that place, does not look: a page
  just written is lost when its buffer is given away (uffs_public.c 159-174; the
  delete that leaves the data block is uffs_fs.c 1464-1554).  PageStore,
  SearchReaches and KeepsPages therefore speak of files that were never `holed`.
* UFFS: `do_TruncateObject` repeats its last step for ever when page 1 of the head
  cannot be read (uffs_fs.c 1437-1444); the branch of a truncation in the middle
  of a page, and its test at 1303-1304, are not reached by the firmware, which only
  truncates by deleting.
* UFFS: a rename forces its block to be covered, but not when the write before it
  has just flushed the block (uffs_fs.c 1604-1610).
* UFFS: a page torn by a cut is marked on the flash at the mount and only there
  (uffs_tree.c 417-433, uffs_flash.c 685-722).  Its tag was loaded into the cache
  before and stays clean in it, so that the page counts as free for as long as its
  block stays among the cached ones (uffs_public.c 412-448): the next page that is
  appended is programmed over the torn one, and is neither version afterwards
  (uffs_buf.c 904-926; the partition has no ECC, flash-interface-example.c 443).  Which blocks are still cached depends on what the mount reads after
  them: `Restart` takes any choice (`stale`), Programmed writes the lost page as
  version 0.  KeepsPages therefore gives up a file with such a page, and shows that
  only one with unsaved pages, or one being written when power failed, can have it.
* UFFS: a deleted file that another handle has open leaves that handle a pointer to
  a freed node (uffs_fs.c 1535); UffsStore has one handle a file and closes it first.
* UFFS: `uffs_InsertToErasedListHead` does not set the tail of an empty list
  (uffs_tree.c 1158).

## 7. What is not modelled, and why

Display, menus, the page timer, formatting of values and tracing, the LED, the
clock chip and waiting for an address: no decision depends on them.  Manual
commands of the server: sequential.  The text of a record and the T-commands that
only format: data.  `vfs/index.c`, `node_*`, FlashFS and the older GUI are not
compiled into this firmware; TCPnet is a library that is used, not
part of it.

Of UFFS, the assumptions of UffsDevice and UffsStore are: erasing a sector and
programming the tag of a page are atomic, programming a page and its tag are two
steps; the driver never reports an error, so that bad blocks do not occur; of
a block in the tree the cache of tags shows the flash, but for the torn pages of
section 6; one directory, names whose checksums differ; one handle a file; a call reads
or writes one whole page.  An erased block goes to the end of the erased list, and its
tags are taken to have left the cache when the block is used again.  The code expires
them in most places, but neither where a mount erases a data block without a head
(uffs_tree.c 946-949) nor where a head is deleted (uffs_fs.c 1538).  The cache has
five entries, the least recently used is taken, and the erased list of this partition
(768 blocks) is taken from its front; with so few blocks spare that one comes round
before its tags were replaced, a new block could be judged by the tags of the old one,
which the model does not show.  Directories, partial pages,
`uffs_find.c` and the ECC code are left out.  The numbers of the firmware
(uffs_config.h: 4 buffers, 3 slots, 2 dirty pages, 16 pages a block, 1 clone buffer)
satisfy the assumptions `DirtyMax \in 2 .. Pages` and `Buffers > Slots * (DirtyMax - 1)` with nothing to spare,
as the smaller ones of the runs do.

StoreBoot takes files as UffsStore shows them: what was closed stays, what was not
may be lost from its end on (the record file, whose pages are rewritten, page by
page).  An upload arrives whole; cut off, it is in HttpUpload and WhiteListSync.

## 8. Plan

Modelled are the parts on which a decision, a record or a file depends.  Left is
a composition of AccessDecision with TextIndex, that is a plan read through a stale
index.
