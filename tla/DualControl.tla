---------------------------- MODULE DualControl ----------------------------
(***************************************************************************)
(* Access to the accountability log (decision 45): one team user opens a   *)
(* request, another approves it, and each step leaves a row in the trail   *)
(* of administrative actions.                                              *)
(***************************************************************************)
EXTENDS Handlers

CONSTANTS
    Team,      \* users holding the dual-control privileges
    Requests,  \* rows of tb_dual_control_access_request
    Entries    \* rows of tb_accountability_log, which is append-only

VARIABLES
    asked,   \* tb_dual_control_access_request
    trail    \* tb_admin_audit: <<request, "request" or "approve", actor>>

dualVars == <<asked, trail, rq>>

AccessRequest ==
    [status : {"none", "pending", "granted", "void"}, entry : Entries \cup {None},
     requestedBy : Team \cup {None}, approvedBy : Team \cup {None}]

DualTypeOK ==
    /\ asked \in [Requests -> AccessRequest]
    /\ trail \subseteq Requests \X {"request", "approve"} \X Team

\* Rows older than migration 050 are void.
DualInit ==
    /\ \E old \in SUBSET Requests :
          asked = [k \in Requests |-> [status |-> IF k \in old THEN "void" ELSE "none",
                       entry |-> None, requestedBy |-> None, approvedBy |-> None]]
    /\ trail = {}
    /\ HandlersInit

----------------------------------------------------------------------------

\* createDualControlRequest: the entry exists, and entries are never removed.
OpenRequest(r, u, k, entry) ==
    /\ asked[k].status = "none"
    /\ asked' = [asked EXCEPT ![k] = [status |-> "pending", entry |-> entry,
                                      requestedBy |-> u, approvedBy |-> None]]
    /\ Begin(r, [op |-> "open", pc |-> "audit", req |-> k, who |-> u, step |-> "request"])
    /\ UNCHANGED trail

\* approveDualControlRequest: the row that was read is pending and somebody else's.
ApproveBegin(r, u, k) ==
    /\ asked[k].status = "pending" /\ asked[k].requestedBy # u
    /\ Begin(r, [op |-> "approve", pc |-> "grant", req |-> k, who |-> u, step |-> "approve"])
    /\ UNCHANGED <<asked, trail>>

\* Mutated form: the UPDATE by id alone.
GrantUnconditional(r) ==
    /\ At(r, "approve", "grant")
    /\ asked' = [asked EXCEPT ![rq[r].req].status = "granted", ![rq[r].req].approvedBy = rq[r].who]
    /\ Goto(r, "audit")
    /\ UNCHANGED trail

\* grantRequest: WHERE status = 'pending', and the CHECK of migration 050.
Grant(r) ==
    /\ At(r, "approve", "grant")
    /\ asked[rq[r].req].status = "pending" /\ asked[rq[r].req].requestedBy # rq[r].who
    /\ asked' = [asked EXCEPT ![rq[r].req].status = "granted", ![rq[r].req].approvedBy = rq[r].who]
    /\ Goto(r, "audit")
    /\ UNCHANGED trail

\* auditFromRequest: after the change, not waited for.
Audit(r) ==
    /\ rq[r].op \in {"open", "approve"} /\ rq[r].pc = "audit"
    /\ trail' = trail \cup {<<rq[r].req, rq[r].step, rq[r].who>>}
    /\ Finish(r)
    /\ UNCHANGED asked

DualNext ==
    \E r \in Reqs :
        \/ \E u \in Team, k \in Requests :
              ApproveBegin(r, u, k) \/ \E entry \in Entries : OpenRequest(r, u, k, entry)
        \/ Grant(r)
        \/ Audit(r)
        \/ GivesUp(r) /\ UNCHANGED <<asked, trail>>

DualSpec == DualInit /\ [][DualNext]_dualVars

----------------------------------------------------------------------------

\* However many approvals race, the trail tells the truth about who opened the log:
\* whoever it names as the approver is the one approver on the row, and not the
\* requester it names.
TrailNamesTheTwo ==
    \A k \in Requests, u \in Team :
        /\ <<k, "approve", u>> \in trail =>
              /\ asked[k].status = "granted" /\ asked[k].approvedBy = u
              /\ <<k, "request", u>> \notin trail
        /\ <<k, "request", u>> \in trail => asked[k].requestedBy = u

=============================================================================
