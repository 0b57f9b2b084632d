----------------------------- MODULE CardReader -----------------------------
(***************************************************************************)
(* The serial card reader and UARTIntHandler of HTTP_upload.c, one byte at *)
(* a time.  A frame is Hash, one byte of kind, the IdLen bytes of the card *)
(* number and End.  The handler keeps no state but a buffer and a count:   *)
(* Hash resets the count, End takes bytes 2 .. IdLen+1 of the buffer for   *)
(* a card number, whatever has been received.                              *)
(*                                                                         *)
(* A number is the sequence of its bytes, the most significant first; the  *)
(* processor is little-endian, so the bytes copied from the buffer are     *)
(* swapped.                                                                *)
(***************************************************************************)
EXTENDS Integers, Sequences, SequencesExt

CONSTANTS Hash, End,    \* 0x23, 0x0a
          Kind,         \* the byte between Hash and the number
          IdLen,        \* 4: bytes of a number
          Size,         \* 20: sizeof( g_card_data )
          Ids,          \* the numbers of the cards
          Noise         \* the bytes that may arrive between two frames

ASSUME LenAssumption == IdLen \in Nat \ {0} /\ Size \in Nat /\ Size > IdLen + 3
ASSUME BytesAssumption == Hash # End /\ Kind \notin {Hash, End}

Bytes == {Hash, End, Kind, 0} \cup Noise \cup UNION {ToSet(id) : id \in Ids}
None == [i \in 1 .. IdLen |-> 0]       \* g_card_no = 0

ASSUME IdsAssumption == \A id \in Ids : id \in Seq(Bytes) /\ Len(id) = IdLen /\ id # None

VARIABLES data,     \* g_card_data
          count,    \* g_card_data_count
          gCardNo,  \* g_card_no
          line,     \* what the reader has still to send of its frame
          frame,    \* the number in that frame
          seen,     \* history: the numbers of the cards presented
          quiet     \* history: neither noise nor a number with a mark in it

readerVars == <<data, count, gCardNo, line, frame, seen, quiet>>

\* swap_dword on a number in memory
SwapNot(number) == number       \* mutant: nothing is swapped
Swap(number) == Reverse(number)
\* memcpy( &g_card_no, &g_card_data[2], 4 ) on a little-endian processor
Loaded(buf) == Reverse([i \in 1 .. IdLen |-> buf[i + 1]])

Frame(id) == <<Hash, Kind>> \o id \o <<End>>

\* a number is any bytes: nothing keeps Hash and End out of it
Plain(id) == {Hash, End} \cap ToSet(id) = {}

ReaderInit == /\ data = [i \in 0 .. Size - 1 |-> 0] /\ count = 0 /\ gCardNo = None
              /\ line = <<>> /\ frame = None /\ seen = {} /\ quiet = TRUE

\* mutants: a new frame does not reset the count; the last byte is used too
StartNever(byte) == count
RoomFull(at) == at < Size
Start(byte) == IF byte = Hash THEN 0 ELSE count
Room(at) == at < Size - 1

\* the body of the loop in UARTIntHandler
Receive(byte) ==
  LET at == Start(byte)
      buf == IF Room(at) THEN [data EXCEPT ![at] = byte] ELSE data
  IN /\ data' = buf
     /\ count' = IF Room(at) THEN at + 1 ELSE at
     /\ gCardNo' = IF byte = End THEN Swap(Loaded(buf)) ELSE gCardNo

Present(id) == /\ line = <<>>
               /\ line' = Frame(id) /\ frame' = id /\ seen' = seen \cup {id}
               /\ quiet' = (quiet /\ Plain(id))
               /\ UNCHANGED <<data, count, gCardNo>>

FrameByte == /\ line # <<>>
             /\ Receive(Head(line))
             /\ line' = Tail(line)
             /\ UNCHANGED <<frame, seen, quiet>>

NoiseByte == /\ line = <<>>
             /\ \E byte \in Noise : Receive(byte)
             /\ quiet' = FALSE
             /\ UNCHANGED <<line, frame, seen>>

\* access_loop takes the card
Taken == /\ gCardNo # None
         /\ gCardNo' = None
         /\ UNCHANGED <<data, count, line, frame, seen, quiet>>

ReaderNext == (\E id \in Ids : Present(id)) \/ FrameByte \/ NoiseByte \/ Taken
ReaderSpec == ReaderInit /\ [][ReaderNext]_readerVars
-----------------------------------------------------------------------------
\* The count stays below the size of the buffer, whatever is received.
ReaderTypeOK == /\ data \in [0 .. Size - 1 -> Bytes]
                /\ count \in 0 .. Size - 1
                /\ gCardNo \in [1 .. IdLen -> Bytes]
                /\ line \in Seq(Bytes) /\ frame \in Ids \cup {None}
                /\ seen \subseteq Ids /\ quiet \in BOOLEAN

\* A frame that arrives whole is read whole, even one with End in its number: at
\* its last byte g_card_no is the number of the card, whatever came before it.  Only
\* Hash in a number takes its frame apart.
FrameIsRead ==
  [][line = <<End>> /\ line' = <<>> /\ Hash \notin ToSet(frame) => gCardNo' = frame]_readerVars

\* On a quiet line g_card_no never holds a number that no card has.
OnlyPresented == quiet => gCardNo \in seen \cup {None}
=============================================================================
