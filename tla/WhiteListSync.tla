--------------------------- MODULE WhiteListSync ---------------------------
(***************************************************************************)
(* How the white list of the database reaches a terminal.  Two threads of  *)
(* tools/dlc_cluster.py share two local files and a checksum:              *)
(*   - the list thread writes white_name.rf (the cards) and                *)
(*     white_name.rf.ri (their slot flags) whenever the database's list    *)
(*     has changed, one unlink or rename at a time;                        *)
(*   - the terminal thread asks the terminal for its property              *)
(*     white_name_cs and, if it differs from the checksum, posts the two   *)
(*     files and sends the T-command white_name_change.                    *)
(* Each post or command may fail on the way there or back; every failure   *)
(* is swallowed and the next one is sent.  The terminal may restart.       *)
(*                                                                         *)
(* The content of a file is the list it was made from; Torn is a mixture,  *)
(* whose checksum is taken to be that of no list.  Terminals are served    *)
(* one after the other and share nothing, so there is one.                 *)
(***************************************************************************)
EXTENDS Integers

CONSTANTS Lists,        \* the lists of the database
          Sum,          \* Sum[l]: the sum of the bytes of list l
          Cards,        \* Cards[l]: how many cards l has, all its flags depend on
          NextList,     \* NextList[l]: the lists that may follow l
          First,        \* the list the terminal starts with, or Missing
          Torn, Missing,
          Windows,      \* an open file cannot be unlinked, nor renamed over
          MaxChanges, MaxBoots  \* bounds: list changes, restarts

ASSUME SumAssumption == Sum \in [Lists \cup {Torn} -> Nat \ {0}]
ASSUME CardsAssumption == Cards \in [Lists -> Nat]
ASSUME NextAssumption == NextList \in [Lists -> SUBSET Lists]
ASSUME FirstAssumption == First \in Lists \cup {Missing}
ASSUME TornAssumption == {Torn, Missing} \cap Lists = {} /\ Torn # Missing
ASSUME ChangesAssumption == Windows \in BOOLEAN /\ MaxChanges \in Nat /\ MaxBoots \in Nat

VARIABLES
  dbList,        \* the list in the database
  changes,   \* how often it has changed
  past,      \* history: the lists it has been, and the terminal's first one
  back,      \* history: it has been one of them a second time
  list,      \* g_white_name_list; Missing is "none"
  sum,       \* g_white_name_file_check_sum
  local,     \* white_name.rf and white_name.rf.ri on the server
  lpc, tpc,  \* where the list thread and the terminal thread are
  reply,     \* the terminal thread's `sum': a checksum, 0 or -1
  post,      \* the content of the file being posted, or Missing
  file,      \* the two files of the terminal
  kept,      \* what of them has been closed, and so is on the flash
  cs,        \* the terminal's property white_name_cs; 0 if there is none
  answer,    \* g_t_cmd_result_buffer, as int() reads it; 0 for other text
  boots,     \* how often the terminal has restarted
  touched    \* history: .rf may have changed since white_name_init last opened it

serverVars == <<dbList, changes, past, back, list, sum, local, lpc>>
cardVars == <<file, kept, cs, answer, boots, touched>>
syncVars == <<dbList, changes, past, back, list, sum, local, lpc, tpc, reply, post,
          file, kept, cs, answer, boots, touched>>

Files == {"rf", "ri"}
Contents == Lists \cup {Torn, Missing}

\* white_name_init: both files must open; the checksum is of the cards alone
Opens(f) == f["rf"] # Missing /\ f["ri"] # Missing
\* mutant: the property is left as it is
InitKeepsSum(f) == cs
InitSum(f) == IF Opens(f) THEN Sum[f["rf"]] ELSE cs

SyncInit == /\ dbList \in Lists /\ changes = 0 /\ past = {dbList, First} \ {Missing}
            /\ back = FALSE /\ list = Missing /\ sum = 0
            /\ local = [f \in Files |-> Missing]
            /\ lpc = "idle" /\ tpc = "idle" /\ reply = 0 /\ post = Missing
            /\ file = [f \in Files |-> First] /\ kept = file
            /\ cs = IF First = Missing THEN 0 ELSE Sum[First]
            /\ answer = 0 /\ boots = 0 /\ touched = FALSE

DbChange == /\ changes < MaxChanges
            /\ changes' = changes + 1
            /\ dbList' \in NextList[dbList]
            /\ past' = past \cup {dbList'} /\ back' = (back \/ dbList' \in past)
            /\ UNCHANGED <<list, sum, local, lpc, tpc, reply, post, cardVars>>

-----------------------------------------------------------------------------
\* cluster_server_white_name_list_main: the list has changed; two temporary
\* files are written and the checksum set before either takes its place
ListChanged == /\ lpc = "idle" /\ list # dbList
               /\ list' = dbList /\ sum' = Sum[dbList]
               /\ lpc' = "unlink rf"
               /\ UNCHANGED <<dbList, changes, past, back, local, tpc, reply, post, cardVars>>

Busy(f) == Windows /\ tpc = f /\ post # Missing

\* os.unlink, whose failure is caught
Unlink(f, pc, next) ==
  /\ lpc = pc
  /\ local' = IF Busy(f) THEN local ELSE [local EXCEPT ![f] = Missing]
  /\ lpc' = next
  /\ UNCHANGED <<dbList, changes, past, back, list, sum, tpc, reply, post, cardVars>>

\* os.rename, whose failure ends the thread
Rename(f, pc, next) ==
  /\ lpc = pc
  /\ IF Windows /\ local[f] # Missing
     THEN local' = local /\ lpc' = "dead"
     ELSE local' = [local EXCEPT ![f] = list] /\ lpc' = next
  /\ UNCHANGED <<dbList, changes, past, back, list, sum, tpc, reply, post, cardVars>>

ListThread == \/ ListChanged
              \/ Unlink("rf", "unlink rf", "unlink ri")
              \/ Unlink("ri", "unlink ri", "rename rf")
              \/ Rename("rf", "rename rf", "rename ri")
              \/ Rename("ri", "rename ri", "idle")

-----------------------------------------------------------------------------
\* T-command property_get: a key that is not found leaves the last answer
GetSum == IF cs = 0 THEN answer ELSE cs

\* do_tcmd( ip, "T,property_get,white_name_cs" )
AskOK == /\ tpc = "idle" /\ sum # 0
         /\ answer' = GetSum /\ reply' = GetSum
         /\ tpc' = "decide"
         /\ UNCHANGED <<serverVars, post, file, kept, cs, boots, touched>>
AskFails == /\ tpc = "idle" /\ sum # 0
            /\ answer' \in {answer, GetSum} /\ reply' = -1
            /\ tpc' = "decide"
            /\ UNCHANGED <<serverVars, post, file, kept, cs, boots, touched>>

\* mutant: only a larger checksum is news
NeedsLarger == sum > reply /\ reply # -1
NeedsSync == sum # reply /\ reply # -1
Decide == /\ tpc = "decide"
          /\ tpc' = IF NeedsSync THEN "rf" ELSE "idle"
          /\ UNCHANGED <<serverVars, reply, post, cardVars>>

After(f) == IF f = "rf" THEN "ri" ELSE "change"

\* http_post_file: the local file is opened, if it is there
PostOpen(f) == /\ tpc = f /\ post = Missing /\ local[f] # Missing
               /\ post' = local[f]
               /\ UNCHANGED <<serverVars, tpc, reply, cardVars>>
PostNoFile(f) == /\ tpc = f /\ post = Missing /\ local[f] = Missing
                 /\ tpc' = After(f)
                 /\ UNCHANGED <<serverVars, reply, post, cardVars>>

\* cgi_process_data, codes 1 and 2: the file is written over from its beginning
PostWrite(f) == /\ tpc = f /\ post # Missing
                /\ file' = [file EXCEPT ![f] = IF @ = post THEN @ ELSE Torn]
                /\ touched' = (touched \/ f = "rf")
                /\ UNCHANGED <<serverVars, tpc, reply, post, kept, cs, answer, boots>>
\* code 3: the file is closed
PostDone(f) == /\ tpc = f /\ post # Missing
               /\ file' = [file EXCEPT ![f] = post]
               /\ kept' = [kept EXCEPT ![f] = post]
               /\ touched' = (touched \/ f = "rf")
               /\ post' = Missing /\ tpc' = After(f)
               /\ UNCHANGED <<serverVars, reply, cs, answer, boots>>
\* an exception, which http_post_file swallows
PostFails(f) == /\ tpc = f /\ post # Missing
                /\ post' = Missing /\ tpc' = After(f)
                /\ UNCHANGED <<serverVars, reply, cardVars>>

\* T-command white_name_change; the server does not look at the answer
ChangeOK == /\ tpc = "change"
            /\ cs' = InitSum(file)
            /\ answer' = IF Opens(file) THEN InitSum(file) ELSE -1
            /\ touched' = (touched /\ ~Opens(file))
            /\ tpc' = "idle"
            /\ UNCHANGED <<serverVars, reply, post, file, kept, boots>>
ChangeLost == /\ tpc = "change"
              /\ tpc' = "idle"
              /\ UNCHANGED <<serverVars, reply, post, cardVars>>

\* cluster_server_save_record: another thread sends a T-command (T,gui,...) the
\* terminal does not know
ShowRecord == /\ answer' = 0
              /\ UNCHANGED <<serverVars, tpc, reply, post, file, kept, cs, boots, touched>>

Post(f) == PostOpen(f) \/ PostNoFile(f) \/ PostWrite(f) \/ PostDone(f) \/ PostFails(f)
TerminalThread == AskOK \/ AskFails \/ Decide \/ (\E f \in Files : Post(f))
                  \/ ChangeOK \/ ChangeLost

\* a restart: what was not closed may be lost, and white_name_init runs again
Reboot == /\ boots < MaxBoots
          /\ boots' = boots + 1
          /\ \E f \in [Files -> Contents] :
               /\ \A k \in Files : f[k] \in {file[k], kept[k]}
               /\ file' = f /\ kept' = f /\ cs' = InitSum(f) /\ touched' = ~Opens(f)
          /\ answer' = 0
          /\ UNCHANGED <<serverVars, tpc, reply, post>>

SyncNext == DbChange \/ ListThread \/ TerminalThread \/ ShowRecord \/ Reboot
SyncSpec == SyncInit /\ [][SyncNext]_syncVars

(***************************************************************************)
(* Both threads keep running, and a request that is tried again and again  *)
(* sometimes gets through: the link is not cut for ever.                   *)
(***************************************************************************)
SyncFairness == /\ WF_syncVars(ListThread) /\ WF_syncVars(TerminalThread)
                /\ SF_syncVars(AskOK) /\ SF_syncVars(ChangeOK)
                /\ \A f \in Files : SF_syncVars(PostDone(f))
FairSyncSpec == SyncSpec /\ SyncFairness
-----------------------------------------------------------------------------
SyncTypeOK ==
  /\ dbList \in Lists /\ list \in Lists \cup {Missing} /\ changes \in 0 .. MaxChanges
  /\ past \subseteq Lists /\ back \in BOOLEAN
  /\ sum \in Nat /\ reply \in Nat \cup {-1} /\ answer \in Nat \cup {-1} /\ cs \in Nat
  /\ local \in [Files -> Lists \cup {Missing}]
  /\ file \in [Files -> Contents] /\ kept \in [Files -> Contents]
  /\ post \in Lists \cup {Missing}
  /\ lpc \in {"idle", "unlink rf", "unlink ri", "rename rf", "rename ri", "dead"}
  /\ tpc \in {"idle", "decide", "rf", "ri", "change"}
  /\ boots \in 0 .. MaxBoots /\ touched \in BOOLEAN

Skips == tpc = "decide" /\ tpc' = "idle"

\* When the server leaves a terminal alone because its checksum is the list's,
\* the terminal has the cards of that list, unless a post or a restart has touched
\* them and no white_name_init that could open both files has followed.
SkipMeansCards == [][Skips /\ reply = sum /\ cs = sum /\ ~touched
                       => file["rf"] = list]_syncVars

\* A list has come back, or the list thread has ended.
Excused == back \/ lpc = "dead"

\* A terminal that has a list gets, in time, the cards of the database's, through
\* any failed posts and restarts, and is then left alone: nothing more is posted.
Settles == <>[](\/ file["rf"] = dbList /\ tpc \notin Files
                \/ Excused)

\* "check wether need download whitename": a terminal that is left alone has the
\* flags of the list, and so as many cards.
SkipMeansFlags ==
  [][Skips /\ reply = sum /\ cs = sum /\ ~touched /\ file["ri"] # Torn
       => Cards[file["ri"]] = Cards[list]]_syncVars
=============================================================================
