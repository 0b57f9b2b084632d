----------------------------- MODULE TextIndex -----------------------------
(***************************************************************************)
(* The text files that decide who may enter (holidays, week tables, time   *)
(* areas) are read by line number through an index, `fn.lp': the offset of *)
(* each line, PtrSize bytes each (txt_file_index.c, mp_misc.c).  The index *)
(* is made when it is missing, and is never made again.                    *)
(*                                                                         *)
(* A text is a sequence of characters, offsets count from 0.  Left out are *)
(* the mark of UTF-8 at the beginning of a file, a line too long for the   *)
(* caller's buffer, and the handles (HttpUpload has those).                *)
(***************************************************************************)
EXTENDS Integers, FiniteSets, Sequences, SequencesExt

CONSTANTS Chars, NL,    \* characters; NL ends a line
          Texts,        \* the texts that may be uploaded
          Keys,         \* the keys that are looked for
          PtrSize,      \* 4: bytes of an entry of the index
          Missing       \* the index of a text that has none

ASSUME TextsAssumption == Texts \subseteq Seq(Chars \cup {NL})
ASSUME KeysAssumption == Keys \subseteq Seq(Chars) \ {<<>>}
ASSUME CharsAssumption == NL \notin Chars
ASSUME PtrAssumption == PtrSize \in Nat \ {0}

VARIABLES text,     \* the text file
          lp,       \* its index
          made      \* history: the text lp was made from

textVars == <<text, lp, made>>

TextInit == text \in Texts /\ lp = Missing /\ made = <<>>

-----------------------------------------------------------------------------
NLs == {i \in 1 .. Len(text) : text[i] = NL}

\* df_read_line at an offset: what is there up to NL or the end; at the end, -1
Nothing == [rel |-> -1, line |-> <<>>]
LineAt(at) ==
  LET stops == {i \in NLs : at < i} \cup {Len(text) + 1}
      stop  == CHOOSE i \in stops : \A j \in stops : i <= j
  IN IF at >= Len(text) THEN Nothing
     ELSE [rel |-> stop - at - 1, line |-> SubSeq(text, at + 1, stop - 1)]

\* sub_txt_file_read_line: beyond the index nothing is read; at its very end the
\* seek succeeds and the read does not, so that pos still is line_no * PtrSize
ReadLine(no) ==
  IF no < Len(lp) THEN LineAt(lp[no + 1])
  ELSE IF no = Len(lp) THEN LineAt(no * PtrSize) ELSE [rel |-> 0, line |-> <<>>]

\* txt_file_search_line: line after line until one is empty or begins with key
Stops(key) == {no \in 0 .. Len(lp) + 1 :
                 ReadLine(no).rel <= 0 \/ IsPrefix(key, ReadLine(no).line)}
StopSecond(key) ==      \* mutant: the search starts with the second line
  CHOOSE no \in Stops(key) \ {0} : \A m \in Stops(key) \ {0} : no <= m
Stop(key) == CHOOSE no \in Stops(key) : \A m \in Stops(key) : no <= m
SearchLine(key) ==
  LET read == ReadLine(Stop(key)) IN IF read.rel <= 0 THEN <<>> ELSE read.line

-----------------------------------------------------------------------------
\* where the k-th line ends
EndOf(k) == CHOOSE i \in NLs : Cardinality({j \in NLs : j <= i}) = k
\* mutant: the offset is that of the NL
EndsAtNL == [k \in 1 .. Cardinality(NLs) |-> EndOf(k) - 1]
Ends == [k \in 1 .. Cardinality(NLs) |-> EndOf(k)]
\* txt_file_create_line_pointer: 0, then the offset after each NL.  The size it is
\* given is one too many, and for the byte after the last the variable is not set:
\* it may be NL or not.
Index(extra) == <<0>> \o Ends \o (IF extra THEN <<Len(text) + 1>> ELSE <<>>)

\* do_cam_check_file, or the first search; of an empty text no index is made
MakeIndex == /\ lp = Missing /\ text # <<>>
             /\ \E extra \in BOOLEAN : lp' = Index(extra)
             /\ made' = text
             /\ UNCHANGED text

\* cgi_process_data: the file is written over from its beginning, not cut
Upload(new) == /\ text' = new \o SubSeq(text, Len(new) + 1, Len(text))
               /\ UNCHANGED <<lp, made>>

TextNext == MakeIndex \/ \E new \in Texts : Upload(new)
TextSpec == TextInit /\ [][TextNext]_textVars
-----------------------------------------------------------------------------
\* An index begins with 0 and its offsets grow.
TextTypeOK == /\ text \in Seq(Chars \cup {NL}) /\ made \in Seq(Chars \cup {NL})
              /\ lp # Missing =>
                   /\ lp[1] = 0
                   /\ \A i, j \in DOMAIN lp : i < j => lp[i] < lp[j]

\* Every line has an end, and none is empty.
WellFormed(t) == /\ t # <<>> /\ t[1] # NL /\ t[Len(t)] = NL
                 /\ \A i \in 1 .. Len(t) - 1 : t[i] = NL => t[i + 1] # NL

\* What a search is for: the first line of t that begins with key.
Starts(t, key) == {i \in 0 .. Len(t) - Len(key) : /\ i = 0 \/ t[i] = NL
                                                  /\ SubSeq(t, i + 1, i + Len(key)) = key}
FirstLine(t, key) ==
  LET start == CHOOSE i \in Starts(t, key) : \A j \in Starts(t, key) : i <= j
      stop  == CHOOSE i \in start + 1 .. Len(t) :
                 t[i] = NL /\ \A j \in start + 1 .. i - 1 : t[j] # NL
  IN IF Starts(t, key) = {} THEN <<>> ELSE SubSeq(t, start + 1, stop - 1)

\* In a text whose lines have ends and are not empty, with an index made from
\* it, a search finds the first line that begins with the key, and nothing if
\* there is none; whatever follows the last entry of the index is never read.
SearchFinds == lp # Missing /\ made = text /\ WellFormed(text)
                 => \A key \in Keys : SearchLine(key) = FirstLine(text, key)

\* Lines that are added at the end do no harm to those the index is of: each
\* key they answer still finds the line it found.
OldLinesAreFound ==
  lp # Missing /\ WellFormed(made) /\ IsPrefix(made, text)
    => \A key \in Keys : Starts(made, key) # {} => SearchLine(key) = FirstLine(made, key)
=============================================================================
