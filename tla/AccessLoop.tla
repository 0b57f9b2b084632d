----------------------------- MODULE AccessLoop -----------------------------
(***************************************************************************)
(* The terminal between a card and its record: the UART interrupt that     *)
(* leaves a card number in g_card_no, the main loop of HTTP_upload.c that  *)
(* takes it, has it judged (do_cam), offers the record to the host over    *)
(* one TCP socket and saves it with the outcome in a ring of Count slots,  *)
(* and the T-commands by which a host reads and ticks off unsent records.  *)
(*                                                                         *)
(* The interrupt may strike between any two steps.  TCP events and         *)
(* T-commands happen only inside main_TcpNet, which runs once a turn of    *)
(* the loop and, while a record waits for the socket, again and again      *)
(* inside system_send_buf_to_host.                                         *)
(*                                                                         *)
(* A card number stands for one presentation of a card: they are numbered  *)
(* in the order the reader reports them, 0 is `no card'.                   *)
(***************************************************************************)
EXTENDS RandFile, Sequences, FiniteSets

CONSTANTS MaxCards,     \* bound: how many cards are presented
          Verdicts      \* what do_cam may return

ASSUME MaxCardsAssumption == MaxCards \in Nat
ASSUME VerdictsAssumption == Verdicts \subseteq Int

VARIABLES
  cardNo,    \* g_card_no
  dealNo,    \* g_deal_card_no
  pc,        \* where the main loop is
  out,       \* what system_send_buf_to_host is sending: "record" or "beat"
  verdict,   \* ok_cam_flag
  sendFlag,  \* ok_send_flag
  recordId,  \* g_record_id
  ring,      \* the record file
  sock,      \* state of g_send_package_socket; "none" when it is 0
  unacked,   \* segments sent and not acknowledged: tcp_check_send wants none
  shown,     \* history: number of the last card presented
  journal,   \* history: the cards judged, in order, with their verdicts
  handed,    \* history: the records given to tcp_send
  host       \* the host: the slot its last query returned, what it has read
             \* and what it has ticked off

loopVars == <<cardNo, dealNo, pc, out, verdict, sendFlag, recordId, ring>>
netVars  == <<sock, unacked>>
vars == <<cardNo, dealNo, pc, out, verdict, sendFlag, recordId, ring,
          sock, unacked, shown, journal, handed, host>>

OK == 1
SendResults == {OK, -2, -3, -4}
ByteSigned(n) == n          \* mutant: the flag keeps its sign
Byte(n) == n % 256          \* an int stored through an unsigned char

CardNos == 0 .. MaxCards
Entry == [id : Nat, card : CardNos, ok : Verdicts \cup {0}]
Blank == [id |-> 0, card |-> 0, ok |-> 0]
Judgement == [card : CardNos, ok : Verdicts]
Position(id) == id % Count

\* record_get_unsend_index: the lowest live slot whose flag is not 1
Unsent(file) == {i \in Live(file) : RecordFlag(file, i) # OK}
\* mutant: the search runs downwards
LastUnsent(file) == IF Unsent(file) = {} THEN -1
                    ELSE CHOOSE i \in Unsent(file) : \A j \in Unsent(file) : j <= i
FirstUnsent(file) == IF Unsent(file) = {} THEN -1 ELSE First(Unsent(file))

Init == /\ cardNo = 0 /\ dealNo = 0 /\ pc = "net" /\ out = "beat"
        /\ verdict = 0 /\ sendFlag = 0 /\ recordId = 1
        /\ ring = Created(Blank)
        /\ sock \in {"none", "closed"} /\ unacked = 0
        /\ shown = 0 /\ journal = <<>> /\ handed = {}
        /\ host = [at |-> -1, read |-> {}, ticked |-> {}]

-----------------------------------------------------------------------------
\* UARTIntHandler at the end of a frame
CardFrame == /\ shown < MaxCards
             /\ shown' = shown + 1
             /\ cardNo' = shown + 1
             /\ UNCHANGED <<dealNo, pc, out, verdict, sendFlag, recordId, ring,
                            netVars, journal, handed, host>>

-----------------------------------------------------------------------------
\* main_TcpNet: called by main, and by the wait loop of system_send_buf_to_host
InTcpNet == pc \in {"net", "wait"}

Connected == /\ InTcpNet /\ sock = "connecting"
             /\ sock' = "connect" /\ unacked' = 0
             /\ UNCHANGED <<loopVars, shown, journal, handed, host>>
Dropped   == /\ InTcpNet /\ sock \in {"connecting", "connect"}
             /\ sock' = "closed" /\ unacked' = 0
             /\ UNCHANGED <<loopVars, shown, journal, handed, host>>
Acked     == /\ InTcpNet /\ sock = "connect" /\ unacked = 1
             /\ unacked' = 0
             /\ UNCHANGED <<loopVars, sock, shown, journal, handed, host>>

\* T-command record_get_first_unsend
HostGet == LET i == FirstUnsent(ring) IN
  /\ InTcpNet
  /\ host' = [host EXCEPT !.at = i,
                          !.read = IF i = -1 THEN @ ELSE @ \cup {ring.data[i].id}]
  /\ UNCHANGED <<loopVars, netVars, shown, journal, handed>>

\* T-command record_del_first_unsend, from a host that was given a record
HostTick == LET i == FirstUnsent(ring) IN
  /\ InTcpNet
  /\ host.at # -1
  /\ ring' = IF i = -1 THEN ring ELSE SetRecordFlag(ring, i, OK)
  /\ host' = [host EXCEPT !.at = -1,
                          !.ticked = IF i = -1 THEN @ ELSE @ \cup {ring.data[i].id}]
  /\ UNCHANGED <<cardNo, dealNo, pc, out, verdict, sendFlag, recordId,
                 netVars, shown, journal, handed>>

TcpNet == Connected \/ Dropped \/ Acked \/ HostGet \/ HostTick

-----------------------------------------------------------------------------
\* main: main_TcpNet returns and access_loop is called
NetDone == /\ pc = "net"
           /\ pc' = "poll"
           /\ UNCHANGED <<cardNo, dealNo, out, verdict, sendFlag, recordId, ring,
                          netVars, shown, journal, handed, host>>

\* access_loop: check_card_action, and the copy of g_card_no
NoCard == /\ pc = "poll" /\ cardNo = 0
          /\ pc' = "timer"
          /\ UNCHANGED <<cardNo, dealNo, out, verdict, sendFlag, recordId, ring,
                         netVars, shown, journal, handed, host>>
TakeCard == /\ pc = "poll" /\ cardNo # 0
            /\ dealNo' = cardNo
            /\ pc' = "clear"
            /\ UNCHANGED <<cardNo, out, verdict, sendFlag, recordId, ring,
                           netVars, shown, journal, handed, host>>

\* mutant: g_card_no is left as it is
KeepCard == /\ pc = "clear"
            /\ pc' = "cam"
            /\ UNCHANGED <<cardNo, dealNo, out, verdict, sendFlag, recordId, ring,
                           netVars, shown, journal, handed, host>>

\* g_card_no = 0, whatever the interrupt has put there since
ClearCard == /\ pc = "clear"
             /\ cardNo' = 0
             /\ pc' = "cam"
             /\ UNCHANGED <<dealNo, out, verdict, sendFlag, recordId, ring,
                            netVars, shown, journal, handed, host>>

\* do_cam, the pages, and gen_record_string
Judge == /\ pc = "cam"
         /\ verdict' \in Verdicts
         /\ journal' = Append(journal, [card |-> dealNo, ok |-> verdict'])
         /\ out' = "record"
         /\ pc' = "send"
         /\ UNCHANGED <<cardNo, dealNo, sendFlag, recordId, ring,
                        netVars, shown, handed, host>>

\* mutant: access_loop returns early when the record could not be sent
ReturnEarly(result) ==
  /\ pc' = IF out = "record" /\ result = OK THEN "save" ELSE "net"
  /\ sendFlag' = IF out = "record" THEN result ELSE sendFlag

\* where system_send_buf_to_host returns to
Return(result) == /\ pc' = IF out = "record" THEN "save" ELSE "net"
                  /\ sendFlag' = IF out = "record" THEN result ELSE sendFlag

\* system_send_buf_to_host without a connection; a closed socket is reopened
SendFails(result) == /\ pc = "send"
                     /\ Return(result)
                     /\ UNCHANGED <<cardNo, dealNo, out, verdict, recordId, ring,
                                    unacked, shown, journal, handed, host>>
\* mutants: a send that only starts to connect succeeds; FREE alone is reopened;
\* the sender reports -1, which is 0xff in the flag
SendClosedOK      == sock = "closed"     /\ SendFails(OK) /\ sock' = "connecting"
SendClosedGivesUp == sock = "closed"     /\ SendFails(-2) /\ UNCHANGED sock
SendConnectingM1  == sock = "connecting" /\ SendFails(-1) /\ UNCHANGED sock

SendNoSocket   == sock = "none"       /\ SendFails(-4) /\ UNCHANGED sock
SendClosed     == sock = "closed"     /\ SendFails(-2) /\ sock' = "connecting"
SendConnecting == sock = "connecting" /\ SendFails(-3) /\ UNCHANGED sock

\* ... with one: it waits for tcp_check_send inside the call
SendConnected == /\ pc = "send" /\ sock = "connect"
                 /\ pc' = "wait"
                 /\ UNCHANGED <<cardNo, dealNo, out, verdict, sendFlag, recordId, ring,
                                netVars, shown, journal, handed, host>>
Transmit == /\ pc = "wait" /\ sock = "connect" /\ unacked = 0
            /\ unacked' = 1
            /\ handed' = IF out = "record" THEN handed \cup {recordId} ELSE handed
            /\ Return(OK)
            /\ UNCHANGED <<cardNo, dealNo, out, verdict, recordId, ring,
                           sock, shown, journal, host>>

\* mutant: the record is made from g_card_no
SaveReadsInterrupt ==
  LET i == Position(recordId)
      e == [id |-> recordId, card |-> cardNo, ok |-> verdict] IN
  /\ pc = "save"
  /\ ring' = SetRecordFlag(SetRecord(ring, i, e), i, Byte(sendFlag))
  /\ recordId' = recordId + 1
  /\ pc' = "timer"
  /\ UNCHANGED <<cardNo, dealNo, out, verdict, sendFlag,
                 netVars, shown, journal, handed, host>>
\* save_card_info: rand_file_set, then the outcome of the send as the flag
SaveCardInfo ==
  LET i == Position(recordId)
      e == [id |-> recordId, card |-> dealNo, ok |-> verdict] IN
  /\ pc = "save"
  /\ ring' = SetRecordFlag(SetRecord(ring, i, e), i, Byte(sendFlag))
  /\ recordId' = recordId + 1
  /\ pc' = "timer"
  /\ UNCHANGED <<cardNo, dealNo, out, verdict, sendFlag,
                 netVars, shown, journal, handed, host>>

\* timer_process: every ten seconds a beat goes to the host
Beat == /\ pc = "timer"
        /\ out' = "beat"
        /\ pc' = "send"
        /\ UNCHANGED <<cardNo, dealNo, verdict, sendFlag, recordId, ring,
                       netVars, shown, journal, handed, host>>
NoBeat == /\ pc = "timer"
          /\ pc' = "net"
          /\ UNCHANGED <<cardNo, dealNo, out, verdict, sendFlag, recordId, ring,
                         netVars, shown, journal, handed, host>>

Send == SendNoSocket \/ SendClosed \/ SendConnecting \/ SendConnected \/ Transmit
Loop == \/ NetDone \/ NoCard \/ TakeCard \/ ClearCard \/ Judge
        \/ Send \/ SaveCardInfo \/ Beat \/ NoBeat
Next == CardFrame \/ TcpNet \/ Loop

(***************************************************************************)
(* The processor keeps running the loop; the clock reaches the next ten    *)
(* seconds again and again; a peer that stays connected acknowledges.      *)
(* Nothing is assumed of connections: they may never open, or drop.        *)
(***************************************************************************)
Fairness == WF_vars(Loop) /\ SF_vars(Beat) /\ WF_vars(Acked)
Spec == Init /\ [][Next]_vars
FairSpec == Spec /\ Fairness
-----------------------------------------------------------------------------
TypeOK ==
  /\ cardNo \in CardNos /\ dealNo \in CardNos /\ shown \in CardNos
  /\ pc \in {"net", "poll", "clear", "cam", "send", "wait", "save", "timer"}
  /\ out \in {"record", "beat"}
  /\ verdict \in Verdicts \cup {0}
  /\ sendFlag \in SendResults \cup {0}
  /\ recordId \in Nat \ {0}
  /\ ring \in [flag : [Slots -> FlagValues], data : [Slots -> Entry]]
  /\ sock \in {"none", "closed", "connecting", "connect"} /\ unacked \in {0, 1}
  /\ journal \in Seq(Judgement)
  /\ handed \subseteq Nat
  /\ host \in [at : Slots \cup {-1}, read : SUBSET Nat, ticked : SUBSET Nat]

\* However the interrupt cuts into the loop, no presentation is judged twice
\* and none is judged before an earlier one (g_card_no, g_deal_card_no).
JudgedInOrder ==
  \A i, j \in 1 .. Len(journal) : i < j => journal[i].card < journal[j].card

\* The ring holds the last Count cards judged, each with its own number and
\* verdict, whatever arrived or was ticked off while its record waited to be
\* sent (access_loop, save_card_info).
Saved == recordId - 1
InHand == IF pc \in {"send", "wait", "save"} /\ out = "record" THEN 1 ELSE 0
RingIsTail ==
  /\ Len(journal) = Saved + InHand
  /\ \A id \in 1 .. Saved : id + Count > Saved =>
       /\ Position(id) \in Live(ring)
       /\ ring.data[Position(id)] =
            [id |-> id, card |-> journal[id].card, ok |-> journal[id].ok]

\* A record flagged 1 was given to tcp_send or ticked off by the host.
SentFlagHonest == \A i \in Live(ring) :
  RecordFlag(ring, i) = OK => ring.data[i].id \in handed \cup host.ticked

\* Until the ring wraps, the host ticks off only records it has read, although
\* record_del_first_unsend searches again and records are saved in between.
TicksWhatItRead == recordId <= Count => host.ticked \subseteq host.read

\* A connection lost while system_send_buf_to_host waits for tcp_check_send
\* leaves the loop there for good: nothing in it reopens the socket.
Stuck == pc = "wait" /\ sock # "connect"

\* Unless the loop is stuck, a card the reader reports is taken out of g_card_no,
\* and a card that is taken is in time judged and its record saved.
CardIsServed ==
  /\ (cardNo # 0) ~> (cardNo = 0 \/ Stuck)
  /\ \A c \in 1 .. MaxCards :
       (dealNo = c) ~> ((\E id \in 1 .. Saved : journal[id].card = c) \/ Stuck)

\* A lost connection is tried again, if only by the next beat.
ReconnectIsTried == (sock = "closed") ~> (sock # "closed" \/ Stuck)

\* The same, step by step: read through the ring, the loop is a journal of
\* records that are appended in the order of the cards and never change but to
\* become sent (access_loop, save_card_info, the T-commands).
Stage(flag) == IF flag = OK THEN "sent" ELSE "kept"
RecordIn(file, id) == LET i == Position(id) IN
  [card |-> file.data[i].card, ok |-> file.data[i].ok, stage |-> Stage(RecordFlag(file, i))]
Reach(n) == {id \in 1 .. n : id + Count > n}
Readable == [id \in Reach(Saved) |-> RecordIn(ring, id)]
LastCard == IF Saved = 0 THEN 0 ELSE RecordIn(ring, Saved).card

Journal == INSTANCE AccessJournal WITH
  Cards <- 1 .. MaxCards, count <- Saved, lastCard <- LastCard, window <- Readable
IsJournal == Journal!Spec
=============================================================================
