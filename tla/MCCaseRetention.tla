-------------------------- MODULE MCCaseRetention --------------------------
(* Model-checking instance of CaseRetention.                               *)
EXTENDS CaseRetention, TLC

\* Anonymous uploads: whoever presents one may attach it.
AnyOwner == Cases \X Media

AllHandlers == {"edit", "resolve", "attach", "freeze", "ask", "thaw"}

\* Slots, cases, operators and media are interchangeable when every owner may present
\* every upload.
Symmetry == UNION {Permutations(Reqs), Permutations(Cases), Permutations(Operators),
                   Permutations(Media)}

\* The bound of the run retention: two cases, or one that is edited, or one that is frozen
\* and thawed.  In the last no medium is blocked, and no upload waits for an owner once the
\* second request for a thaw is filed.
Crowded == \A c \in Cases : report[c].status # "none"
Edited  == \/ \E c \in Cases : report[c].content = "edited" \/ "edited" \in report[c].trail
           \/ \E r \in Reqs : rq[r].op = "edit"
Seized  == \/ \E c \in Cases : report[c].frozen
           \/ \E k \in AskIds : asks[k] # NoAsk
           \/ \E r \in Reqs : rq[r].op \in {"freeze", "ask", "thaw"}
Idling(status) == \E m \in Media : media[m].status = status
Narrow == /\ Crowded => ~Edited /\ ~Seized
          /\ Edited => ~Seized
          /\ Seized => ~Idling("blocked")
          /\ asks[MaxAsks] # NoAsk => ~Idling("pending")

=============================================================================
