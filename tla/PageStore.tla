----------------------------- MODULE PageStore -----------------------------
(***************************************************************************)
(* What a file system with a write-back cache promises of its pages: a     *)
(* read returns what was last written, a restart finds in each page a      *)
(* version that was written since the page was last made durable, and a    *)
(* call cut short by the restart may or may not have reached a page.       *)
(* Version 0 is a page that is not there.  A restart may give up a file    *)
(* that has pages not yet saved, or is being written; nothing is promised  *)
(* of it from then on, nor of one that was once found without a page       *)
(* before another one.                                                     *)
(***************************************************************************)
EXTENDS Integers

CONSTANTS Files, Positions, Versions

Places == Files \X Positions
PlacesOf(f) == {f} \X Positions

VARIABLES view,      \* the version a read returns
          cand,      \* the versions a restart may find
          pending,   \* the files with pages that are not saved
          holed      \* the files of which nothing is promised
vars == <<view, cand, pending, holed>>

TypeOK == /\ view \in [Places -> Versions \cup {0}]
          /\ cand \in [Places -> SUBSET (Versions \cup {0})]
          /\ pending \subseteq Files /\ holed \subseteq Files

\* a page is missing before one that is there
Holed(v) == {f \in Files : \E p, q \in Positions : p < q /\ v[<<f, p>>] = 0 /\ v[<<f, q>>] # 0}
\* the pages of which something is promised
Promised == {x \in Places : x[1] \notin holed}

Init == /\ view \in [Places -> Versions \cup {0}]
        /\ cand = [x \in Places |-> {view[x]}]
        /\ pending = {} /\ holed = Holed(view)

Unchanged(X) == \A x \in X : view'[x] = view[x] /\ cand'[x] = cand[x]
\* of the files that are promised, these at most have pages that are not saved
Pending(F) == pending' \subseteq F \cup holed
Rest == Unchanged(Promised) /\ Pending(pending)

Write(x, v) == /\ v \in Versions
               /\ Unchanged(Promised \ {x})
               /\ view'[x] = v
               /\ x \in Promised => cand'[x] = cand[x] \cup {v}
               /\ Pending(pending \cup {x[1]})

\* a page that is durable when the call returns
WriteThrough(x, v) == /\ v \in Versions
                      /\ Unchanged(Promised \ {x})
                      /\ view'[x] = v
                      /\ x \in Promised => cand'[x] = {v}
                      /\ Pending(pending)

Flush(f) == /\ Unchanged(Promised \ PlacesOf(f))
            /\ \A x \in Promised \cap PlacesOf(f) : view'[x] = view[x] /\ cand'[x] = {view[x]}
            /\ Pending(pending \ {f})

Remove(f) == /\ Unchanged(Promised \ PlacesOf(f))
             /\ \A x \in Promised \cap PlacesOf(f) : view'[x] = 0 /\ cand'[x] = {0}
             /\ Pending(pending \ {f})

Call == /\ \/ Rest
           \/ \E x \in Places : Write(x, view'[x]) \/ WriteThrough(x, view'[x])
           \/ \E f \in Files : Flush(f) \/ Remove(f)
        /\ holed' = holed \cup Holed(view')

\* power fails and comes back: between calls, in a call that changes no page, in a
\* write of x, or in a removal; F are the files written by the call
Cut(X, V, F) == /\ \A x \in Promised : /\ view'[x] \in cand[x] \cup (IF x \in X THEN V ELSE {})
                                        /\ cand'[x] = {view'[x]}
                /\ pending' = {}
                /\ holed \cup Holed(view') \subseteq holed'
                /\ holed' \subseteq holed \cup Holed(view') \cup pending \cup F
PowerCut == \/ Cut({}, {}, {})
            \/ \E x \in Places : Cut({x}, Versions, {x[1]})
            \/ \E f \in Files : Cut(PlacesOf(f), {0}, {f})
Next == TypeOK' /\ (Call \/ PowerCut)
Spec == Init /\ [][Next]_vars
=============================================================================
