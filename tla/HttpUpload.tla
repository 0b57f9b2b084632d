----------------------------- MODULE HttpUpload -----------------------------
(***************************************************************************)
(* File upload and download over HTTP (HTTP_CGI.c, HTTP_uif.c) and the     *)
(* UFFS handles they share with the store of white names.  The network     *)
(* stack runs several sessions and calls cgi_process_data for each of      *)
(* them with a code: 1, here is the name of a file; 2, data of it; 3, it   *)
(* has ended.  The handler is not told which session is calling: the file  *)
(* it writes to is one static variable f.  A session whose connection is   *)
(* lost ends without code 3.                                               *)
(*                                                                         *)
(* fonts.dat goes to a part of the flash outside UFFS, for which f is an   *)
(* address; it is written to the end of what is there, so the address is   *)
(* the length of its content.  Data is counted in chunks, a chunk being    *)
(* the number of its upload and its place in it.                           *)
(***************************************************************************)
EXTENDS Integers, FiniteSets, Sequences, SequencesExt

CONSTANTS Sessions,     \* HTTP_NUMSESS sessions
          Handles,      \* MAX_OBJECT_HANDLE less those held for good
          Files, Fonts, \* names; Fonts is fonts.dat
          Rf, Ri,       \* the two files of the store of white names
          Posts,        \* how many forms may be under way at once
          Blank,        \* a form may be sent with no file selected
          Font, Bad,    \* values of f: an address in the flash, -1
          Missing,      \* the content of a file that does not exist
          MaxUploads, MaxChunks

ASSUME FilesAssumption == Rf \in Files /\ Ri \in Files /\ Rf # Ri /\ Fonts \in Files \ {Rf, Ri}
ASSUME HandlesAssumption == /\ IsFiniteSet(Handles) /\ Handles = 1 .. Cardinality(Handles)
                            /\ {Font, Bad} \cap Handles = {} /\ Font # Bad
ASSUME BoundsAssumption == /\ Posts \in Nat /\ Blank \in BOOLEAN
                           /\ MaxUploads \in Nat /\ MaxChunks \in Nat

VARIABLES free,     \* the free list of the pool of handles
          open,     \* open[h]: the object behind handle h
          content,  \* of each file
          f,        \* the file cgi_process_data writes to
          session,  \* what each session is doing
          store,    \* the handles of the store of white names
          uploads,  \* uploads begun
          left,     \* history: handles of uploads that were cut off
          clean     \* history: forms have come one at a time, and never a blank one

vars == <<free, open, content, f, session, store, uploads, left, clean>>

Closed == [file |-> Missing, at |-> 0, mode |-> "closed"]
Idle == [kind |-> "idle", file |-> Missing, h |-> Bad, up |-> 0, sent |-> 0]
NoStore == [rf |-> Bad, ri |-> Bad]
Busy == {s \in Sessions : session[s].kind \in {"post", "blank"}}

Init == /\ free = [i \in 1 .. Cardinality(Handles) |-> i]
        /\ open = [h \in Handles |-> Closed]
        /\ content = [n \in Files |-> IF n = Fonts THEN <<>> ELSE Missing]
        /\ f = Bad /\ session = [s \in Sessions |-> Idle] /\ store = NoStore
        /\ uploads = 0 /\ left = {} /\ clean = TRUE

-----------------------------------------------------------------------------
(* uffs_open and uffs_close, on a pool [free, open]. *)
Pool == [free |-> free, open |-> open]

\* the handle uffs_open returns for a file that is there
Got(pool) == IF pool.free = <<>> THEN Bad ELSE Head(pool.free)
Opened(pool, file, mode) ==
  IF pool.free = <<>> THEN pool
  ELSE [free |-> Tail(pool.free),
        open |-> [pool.open EXCEPT ![Head(pool.free)] =
                    [file |-> file, at |-> 0, mode |-> mode]]]

\* CHK_OBJ_LOCK: the handle is in the pool and not on the free list
PassesAny(pool, h) == h \in Handles     \* mutant: the free list is not asked
Passes(pool, h) == h \in Handles /\ ~Contains(pool.free, h)

ClosedIn(pool, h) ==
  IF Passes(pool, h)
  THEN [free |-> <<h>> \o pool.free, open |-> [pool.open EXCEPT ![h] = Closed]]
  ELSE pool

SetPool(pool) == free' = pool.free /\ open' = pool.open

-----------------------------------------------------------------------------
(* cgi_process_data *)
FileOf(file) == IF file = Fonts THEN Font ELSE Got(Pool)

\* code 1: the file is created if need be, but never cut to length 0
Begin(s, file) ==
  /\ session[s] = Idle /\ uploads < MaxUploads
  /\ Cardinality(Busy) < Posts
  /\ uploads' = uploads + 1
  /\ f' = FileOf(file)
  /\ session' = [session EXCEPT ![s] =
       [kind |-> "post", file |-> file, h |-> FileOf(file), up |-> uploads + 1, sent |-> 0]]
  /\ IF file = Fonts \/ Got(Pool) = Bad THEN UNCHANGED <<free, open>>
     ELSE SetPool(Opened(Pool, file, "w"))
  /\ content' = IF file = Fonts \/ (content[file] = Missing /\ Got(Pool) # Bad)
                THEN [content EXCEPT ![file] = <<>>] ELSE content
  /\ clean' = (clean /\ Busy = {})
  /\ UNCHANGED <<store, left>>

\* code 1 with an empty name: nothing happens
BeginBlank(s) ==
  /\ Blank /\ session[s] = Idle
  /\ Cardinality(Busy) < Posts
  /\ session' = [session EXCEPT ![s].kind = "blank"]
  /\ clean' = FALSE
  /\ UNCHANGED <<free, open, content, f, store, uploads, left>>

\* uffs_write at the position of the handle; overwrites, or adds at the end
Written(text, at, chunk) ==
  IF at < Len(text) THEN [text EXCEPT ![at + 1] = chunk] ELSE Append(text, chunk)
MovedNot(at) == at        \* mutant: the position stays
Moved(at) == at + 1

WriteTo(chunk) ==
  \/ /\ f = Font
     /\ content' = [content EXCEPT ![Fonts] = Append(@, chunk)]
     /\ UNCHANGED open
  \/ /\ Passes(Pool, f) /\ open[f].mode = "w"
     /\ content' = [content EXCEPT ![open[f].file] = Written(@, open[f].at, chunk)]
     /\ open' = [open EXCEPT ![f].at = Moved(@)]
  \/ /\ f # Font /\ ~(Passes(Pool, f) /\ open[f].mode = "w")
     /\ UNCHANGED <<content, open>>

\* code 2
Data(s) ==
  /\ session[s].kind = "post" /\ session[s].sent < MaxChunks
  /\ session' = [session EXCEPT ![s].sent = @ + 1]
  /\ WriteTo(<<session[s].up, session[s].sent + 1>>)
  /\ UNCHANGED <<free, f, store, uploads, left, clean>>

\* code 3: f is closed, and keeps its value
EndPoolNone == Pool       \* mutant: the file is not closed
EndPool == ClosedIn(Pool, f)
End(s) ==
  /\ s \in Busy
  /\ session' = [session EXCEPT ![s] = Idle]
  /\ SetPool(EndPool)
  /\ UNCHANGED <<content, f, store, uploads, left, clean>>

\* the connection is lost: no code 3
CutOff(s) ==
  /\ session[s].kind = "post"
  /\ session' = [session EXCEPT ![s] = Idle]
  /\ left' = left \cup ({session[s].h} \cap Handles)
  /\ UNCHANGED <<free, open, content, f, store, uploads, clean>>

-----------------------------------------------------------------------------
\* http_fopen and http_fclose: a page or a file is read
GetBegin(s, file) ==
  /\ session[s] = Idle /\ content[file] # Missing /\ file # Fonts /\ Got(Pool) # Bad
  /\ session' = [session EXCEPT ![s] = [Idle EXCEPT !.kind = "get", !.file = file, !.h = Got(Pool)]]
  /\ SetPool(Opened(Pool, file, "r"))
  /\ UNCHANGED <<content, f, store, uploads, left, clean>>

GetEnd(s) ==
  /\ session[s].kind = "get"
  /\ session' = [session EXCEPT ![s] = Idle]
  /\ SetPool(ClosedIn(Pool, session[s].h))
  /\ UNCHANGED <<content, f, store, uploads, left, clean>>

\* white_name_init, from T-command white_name_change: rand_file_close, then
\* rand_file_open, which opens both files or neither
StoreChange ==
  LET shut == ClosedIn(ClosedIn(Pool, store.ri), store.rf)
      one  == Opened(shut, Rf, "w")
      both == content[Rf] # Missing /\ content[Ri] # Missing /\ Len(shut.free) >= 2
  IN /\ store' = IF both THEN [rf |-> Got(shut), ri |-> Got(one)] ELSE NoStore
     /\ SetPool(IF both THEN Opened(one, Ri, "w") ELSE shut)
     /\ UNCHANGED <<content, f, session, uploads, left, clean>>

Next == \/ \E s \in Sessions :
             \/ \E file \in Files : Begin(s, file) \/ GetBegin(s, file)
             \/ BeginBlank(s) \/ Data(s) \/ End(s) \/ CutOff(s) \/ GetEnd(s)
        \/ StoreChange

Spec == Init /\ [][Next]_vars
-----------------------------------------------------------------------------
Held == {session[s].h : s \in Sessions} \cup {store.rf, store.ri}

\* A handle is on the free list, once, exactly if it is closed, however often
\* and by whomever handles are closed.
TypeOK == /\ IsInjective(free) /\ ToSet(free) = {h \in Handles : open[h] = Closed}
          /\ f \in Handles \cup {Font, Bad}
          /\ uploads \in 0 .. MaxUploads /\ left \subseteq Handles /\ clean \in BOOLEAN

\* While forms come one at a time, whoever holds a handle, an upload, a download
\* or the store, has it open on its own file, and nobody else has it; a handle that
\* is not free is held, or belongs to an upload that was cut off.
HandlesAccountedFor ==
  clean =>
  /\ \A s \in Sessions : session[s].h \in Handles =>
       /\ open[session[s].h].file = session[s].file
       /\ session[s].h \notin {store.rf, store.ri} \cup left
       /\ \A t \in Sessions \ {s} : session[t].h # session[s].h
  /\ store # NoStore => open[store.rf].file = Rf /\ open[store.ri].file = Ri
  /\ Handles \ ToSet(free) = (Held \cap Handles) \cup left

\* ... what an upload has sent so far is how its file begins, unless it found no
\* handle; no other upload's data is in between.
UploadLands ==
  clean =>
  \A s \in Busy : session[s].h # Bad =>
    /\ session[s].sent <= Len(content[session[s].file])
    /\ \A i \in 1 .. session[s].sent :
         content[session[s].file][i] = <<session[s].up, i>>
=============================================================================
