------------------------------ MODULE HostLink ------------------------------
(***************************************************************************)
(* Records on their way from a terminal to the database: the send of       *)
(* access_main.c, the TCP connection, and the thread tools/dlc_cluster.py  *)
(* starts for each connection.  A record is sent once, with no separator   *)
(* and no answer, and flagged in the terminal's record file as the send    *)
(* went; the thread takes whatever recv returns for one record, or for     *)
(* beats, by its first bytes.                                              *)
(*                                                                         *)
(* Records are numbered in the order they are made; Beat is `beats '.  A   *)
(* thread that is in the database or showing the result on the terminal    *)
(* does not receive, so that more than one item may be waiting.  Fewer     *)
(* than ten are: recv( 1000 ) never splits one.                            *)
(*                                                                         *)
(* The server sets no timeout before it listens, but the first T-command   *)
(* sets the default of all sockets made from then on, those it accepts     *)
(* among them, to 2 seconds; beats are ten seconds apart.                  *)
(***************************************************************************)
EXTENDS Integers, Sequences, SequencesExt

CONSTANTS Beat,
          MaxRecords, MaxConns, MaxWaiting   \* bounds

ASSUME BeatAssumption == Beat \notin Nat
ASSUME BoundsAssumption == {MaxRecords, MaxConns, MaxWaiting} \subseteq Nat

Conns == 1 .. MaxConns
Records == 1 .. MaxRecords
Items == Records \cup {Beat}
OK == 1

VARIABLES made,     \* records made so far
          flag,     \* flag[r]: the flag record r is saved with; 0 before
          sock,     \* the terminal's socket
          conns,    \* connections made so far; the last is the terminal's
          stream,   \* stream[c]: sent on connection c and not received
          thread,   \* thread[c]: what the thread of connection c is doing
          chunk,    \* chunk[c]: what it has received and is saving
          db,       \* the records saved in the database, in order
          known,    \* the terminal is in g_termial_ip_list
          timeout,  \* socket.setdefaulttimeout( 2 ) has been called
          hasty,    \* the connections accepted since then
          rough,    \* history: items were lumped, or a connection or a thread ended
          failed    \* history: the network or the database failed

terminalVars == <<made, flag>>
timeVars == <<timeout, hasty>>
vars == <<made, flag, sock, conns, stream, thread, chunk, db, known, timeVars, rough, failed>>

Init == /\ made = 0 /\ flag = [r \in Records |-> 0]
        /\ sock = "closed" /\ conns = 0
        /\ stream = [c \in Conns |-> <<>>]
        /\ thread = [c \in Conns |-> "none"] /\ chunk = [c \in Conns |-> <<>>]
        /\ db = <<>> /\ known = FALSE
        /\ timeout = FALSE /\ hasty = {}
        /\ rough = FALSE /\ failed = FALSE

-----------------------------------------------------------------------------
\* system_send_buf_to_host: with a connection the item is on its way; without
\* one it is not kept for later, and a closed socket is reopened
SendResult == CASE sock = "connect" -> OK [] sock = "closed" -> -2 [] OTHER -> -3
Send(item) ==
  /\ sock = "connect" => Len(stream[conns]) < MaxWaiting
  /\ stream' = IF sock = "connect" THEN [stream EXCEPT ![conns] = Append(@, item)] ELSE stream
  /\ sock' = IF sock = "closed" THEN "connecting" ELSE sock

\* access_loop: a record is made, sent, and saved with the outcome
SendRecord ==
  /\ made < MaxRecords
  /\ made' = made + 1
  /\ Send(made + 1)
  /\ flag' = [flag EXCEPT ![made + 1] = SendResult]
  /\ UNCHANGED <<conns, thread, chunk, db, known, timeVars, rough, failed>>

\* timer_process
SendBeat == /\ Send(Beat)
            /\ UNCHANGED <<terminalVars, conns, thread, chunk, db, known, timeVars, rough, failed>>

AcceptsHastily == TRUE              \* mutant: the timeout is set before the server listens
Accepts == timeout
\* the server's main thread accepts and starts a thread
Connect == /\ sock = "connecting" /\ conns < MaxConns
           /\ sock' = "connect" /\ conns' = conns + 1
           /\ thread' = [thread EXCEPT ![conns + 1] = "recv"]
           /\ hasty' = IF Accepts THEN hasty \cup {conns + 1} ELSE hasty
           /\ UNCHANGED <<terminalVars, stream, chunk, db, known, timeout, rough, failed>>

\* what had not arrived is lost
Break == /\ sock = "connect"
         /\ sock' = "closed"
         /\ \E n \in 0 .. Len(stream[conns]) :
              stream' = [stream EXCEPT ![conns] = SubSeq(@, 1, n)]
         /\ rough' = TRUE /\ failed' = TRUE
         /\ UNCHANGED <<terminalVars, conns, thread, chunk, db, known, timeVars>>

\* the terminal sees that the server has closed the connection
ServerClosed == /\ sock = "connect" /\ thread[conns] = "ended"
                /\ sock' = "closed"
                /\ stream' = [stream EXCEPT ![conns] = <<>>]
                /\ UNCHANGED <<terminalVars, conns, thread, chunk, db, known, timeVars, rough, failed>>

\* the thread of the terminals visits one that is known, this one or another
VisitTerminal == /\ timeout' = TRUE
                 /\ UNCHANGED <<terminalVars, sock, conns, stream, thread, chunk, db, known,
                                hasty, rough, failed>>

-----------------------------------------------------------------------------
(* cluster_server_net_connect_thread *)
Sizes(c) == 1 .. Len(stream[c])
RestAgain(c, n) == stream[c]        \* mutant: the same bytes are received again
Rest(c, n) == SubSeq(stream[c], n + 1, Len(stream[c]))
Register == TRUE

\* data[0:5] == "beats": the terminal is known, the rest of the chunk ignored
RecvBeat(c) == \E n \in Sizes(c) :
  /\ thread[c] = "recv" /\ Head(stream[c]) = Beat
  /\ stream' = [stream EXCEPT ![c] = Rest(c, n)]
  /\ known' = Register
  /\ rough' = (rough \/ n > 1)
  /\ UNCHANGED <<terminalVars, sock, conns, thread, chunk, db, timeVars, failed>>

RecvRecord(c) == \E n \in Sizes(c) :
  /\ thread[c] = "recv" /\ Head(stream[c]) # Beat
  /\ chunk' = [chunk EXCEPT ![c] = SubSeq(stream[c], 1, n)]
  /\ stream' = [stream EXCEPT ![c] = Rest(c, n)]
  /\ thread' = [thread EXCEPT ![c] = "save"]
  /\ rough' = (rough \/ n > 1)
  /\ UNCHANGED <<terminalVars, sock, conns, db, known, timeVars, failed>>

\* recv returns nothing, as the terminal has left, or raises an exception, as it
\* has been silent for longer than the timeout
RecvEnds(c) == /\ thread[c] = "recv" /\ stream[c] = <<>>
               /\ c \in hasty \/ c < conns \/ sock # "connect"
               /\ thread' = [thread EXCEPT ![c] = "ended"]
               /\ rough' = TRUE
               /\ UNCHANGED <<terminalVars, sock, conns, stream, chunk, db, known, timeVars, failed>>

\* mutant: the thread ends with its first record
AfterSaveEnds == "ended"
AfterSave == "recv"

\* cluster_server_save_record: items[5] of the chunk, whatever follows it, is
\* saved, and a T-command shows the result
SaveRecord(c) == /\ thread[c] = "save"
                 /\ db' = Append(db, Head(chunk[c]))
                 /\ chunk' = [chunk EXCEPT ![c] = <<>>]
                 /\ thread' = [thread EXCEPT ![c] = AfterSave]
                 /\ timeout' = TRUE
                 /\ UNCHANGED <<terminalVars, sock, conns, stream, known, hasty, rough, failed>>

\* an exception before the record is committed, or after, when there is nothing
\* to show in the answer, ends the thread
SaveFails(c) == /\ thread[c] = "save"
                /\ db' \in {db, Append(db, Head(chunk[c]))}
                /\ thread' = [thread EXCEPT ![c] = "ended"]
                /\ chunk' = [chunk EXCEPT ![c] = <<>>]
                /\ rough' = TRUE /\ failed' = TRUE
                /\ UNCHANGED <<terminalVars, sock, conns, stream, known, timeVars>>

Server(c) == RecvBeat(c) \/ RecvRecord(c) \/ RecvEnds(c) \/ SaveRecord(c) \/ SaveFails(c)
Next == \/ SendRecord \/ SendBeat \/ Connect \/ Break \/ ServerClosed \/ VisitTerminal
        \/ \E c \in Conns : Server(c)
Spec == Init /\ [][Next]_vars

(***************************************************************************)
(* The threads of the server run, the terminal's loop sends a beat every   *)
(* ten seconds, and the network stacks make progress.                      *)
(***************************************************************************)
Fairness == /\ WF_vars(Connect) /\ WF_vars(ServerClosed) /\ WF_vars(SendBeat)
            /\ \A c \in Conns : WF_vars(RecvBeat(c) \/ RecvRecord(c) \/ SaveRecord(c))
FairSpec == Spec /\ Fairness
-----------------------------------------------------------------------------
Saved == ToSet(db)

TypeOK ==
  /\ made \in 0 .. MaxRecords /\ conns \in 0 .. MaxConns /\ {known, timeout, rough, failed} \subseteq BOOLEAN
  /\ flag \in [Records -> {0, OK, -2, -3}]
  /\ sock \in {"connecting", "connect", "closed"}
  /\ thread \in [Conns -> {"none", "recv", "save", "ended"}]
  /\ stream \in [Conns -> Seq(Items)] /\ chunk \in [Conns -> Seq(Items)]
  /\ db \in Seq(Records) /\ hasty \subseteq 1 .. conns

\* Whatever is lost, no record is saved twice, and none that the terminal has not
\* flagged as sent: those it offers as unsent may be fetched and saved.  As long
\* as every connection lasts and each item is received by itself, they are saved
\* in the order they were made.
SavedOnceInOrder ==
  /\ IsInjective(db) /\ \A r \in Saved : flag[r] = OK
  /\ ~rough => \A i, j \in DOMAIN db : i < j => db[i] < db[j]

\* As long as that is so, each record flagged as sent is saved in time.
SentIsSaved == \A r \in Records : flag[r] = OK ~> (r \in Saved \/ rough)

\* A terminal that is connected before the first T-command is known in time, however
\* its beats and its records are lumped together and whatever commands follow, unless
\* the network or the database fails: its socket has no timeout, so that the thread
\* is still there when a beat comes (dlc_cluster.py:1439, 1653).
TerminalIsKnown == \A c \in Conns : (thread[c] = "recv" /\ ~timeout) ~> (known \/ failed)
=============================================================================
