----------------------------- MODULE Moderation -----------------------------
(***************************************************************************)
(* What a moderator does to a case from the panel: hide and unhide it,     *)
(* block and unblock its medium, mark it as reviewed.  Each is a read, an  *)
(* UPDATE that names the value it expects, another read for the answer,    *)
(* and an audit row that the controller writes when that read succeeded.   *)
(*                                                                         *)
(* One case with one medium.  Reasons and notes are left out; the trail    *)
(* counts the rows of tb_admin_audit by moderator and act.                 *)
(***************************************************************************)
EXTENDS Handlers

CONSTANTS
    Moderators, \* panel users with the privilege to moderate
    MaxActs     \* bound: acts of one kind that one moderator is answered

ASSUME ModerationAssumption == IsFiniteSet(Moderators) /\ MaxActs \in Nat

VARIABLES
    flag,       \* hidden = 'S', status = 'blocked', reviewed_at IS NOT NULL
    by,         \* hidden_by, blocked_by, reviewed_by
    wiped,      \* purged = 'S'; the medium shredded
    auditRows,  \* tb_admin_audit
    unnoted     \* history: the flags some act moved without leaving an audit row

moderationVars == <<flag, by, wiped, auditRows, unnoted, rq>>

----------------------------------------------------------------------------

Flags == {"hidden", "blocked", "reviewed"}
Sets == [hide |-> "hidden", block |-> "blocked", review |-> "reviewed"]
Clears == [unhide |-> "hidden", unblock |-> "blocked"]
Acts == DOMAIN Sets \cup DOMAIN Clears
FlagOf(act) == IF act \in DOMAIN Sets THEN Sets[act] ELSE Clears[act]
OfMedium(act) == FlagOf(act) = "blocked"

ModerationTypeOK ==
    /\ flag \in [Flags -> BOOLEAN]
    /\ by \in [Flags -> Moderators \cup {None}]
    /\ wiped \in [case : BOOLEAN, medium : BOOLEAN]
    /\ auditRows \in [Moderators -> [Acts -> 0 .. MaxActs]]
    /\ unnoted \subseteq Flags

ModerationInit ==
    /\ flag = [f \in Flags |-> FALSE] /\ by = [f \in Flags |-> None]
    /\ wiped = [case |-> FALSE, medium |-> FALSE]
    /\ auditRows = [who \in Moderators |-> [act \in Acts |-> 0]] /\ unnoted = {}
    /\ HandlersInit

Wiped(act) == IF OfMedium(act) THEN wiped.medium ELSE wiped.case
Expects(act) == flag[FlagOf(act)] = (act \in DOMAIN Clears)

----------------------------------------------------------------------------
(* An act                                                                  *)

Busy(who, act) == Cardinality({r \in Reqs : rq[r].op = "act" /\ rq[r].who = who /\ rq[r].act = act})

\* moderatableReport, markReviewed's findById, requireStatus: 404 or 409 otherwise.
ActBegin(r, who, act) ==
    /\ ~Wiped(act) /\ Expects(act) /\ auditRows[who][act] + Busy(who, act) < MaxActs
    /\ Begin(r, [op |-> "act", pc |-> "update", who |-> who, act |-> act])
    /\ UNCHANGED <<flag, by, wiped, auditRows, unnoted>>

Moves(r) ==
    LET act == rq[r].act f == FlagOf(act) IN
    /\ flag' = [flag EXCEPT ![f] = act \in DOMAIN Sets]
    /\ by' = [by EXCEPT ![f] = IF act \in DOMAIN Sets THEN rq[r].who ELSE None]
    /\ Goto(r, "answer")
    /\ UNCHANGED <<wiped, auditRows, unnoted>>

\* Mutated form: the UPDATE by id alone.
ActUpdateById(r) == At(r, "act", "update") /\ Moves(r)

\* hideReport, unhideReport, markReviewed, blockMedia, unblockMedia: whoever comes
\* second changes nothing.  A shredded medium is deleted; a purged case is not.
ActUpdate(r) ==
    /\ At(r, "act", "update") /\ Expects(rq[r].act) /\ ~(OfMedium(rq[r].act) /\ wiped.medium)
    /\ Moves(r)

\* getReportPanelDetail, which a purged case has too, or requireStatus with the status
\* just set; then auditFromRequest.
ActAnswer(r) ==
    LET act == rq[r].act IN
    /\ At(r, "act", "answer")
    /\ OfMedium(act) => ~wiped.medium /\ flag["blocked"] = (act = "block")
    /\ auditRows' = [auditRows EXCEPT ![rq[r].who][act] = @ + 1]
    /\ Finish(r)
    /\ UNCHANGED <<flag, by, wiped, unnoted>>

\* A handler that ends after its UPDATE, by a failure or because the medium has moved
\* on, leaves no audit row.
ActEnds(r) ==
    /\ GivesUp(r)
    /\ unnoted' = IF rq[r].pc = "answer" THEN unnoted \cup {FlagOf(rq[r].act)} ELSE unnoted
    /\ UNCHANGED <<flag, by, wiped, auditRows>>

----------------------------------------------------------------------------
(* The jobs                                                                *)

\* purgeReport leaves the columns of moderation alone; shred makes the status 'deleted'.
WipeCase   == ~wiped.case /\ wiped' = [wiped EXCEPT !.case = TRUE]
              /\ UNCHANGED <<flag, by, auditRows, unnoted, rq>>
WipeMedium == ~wiped.medium /\ wiped' = [wiped EXCEPT !.medium = TRUE]
              /\ UNCHANGED <<flag, by, auditRows, unnoted, rq>>

ModerationNext ==
    \/ WipeCase \/ WipeMedium
    \/ \E r \in Reqs :
        \/ \E who \in Moderators, act \in Acts : ActBegin(r, who, act)
        \/ ActUpdate(r) \/ ActAnswer(r) \/ ActEnds(r)

ModerationSpec == ModerationInit /\ [][ModerationNext]_moderationVars

----------------------------------------------------------------------------
(* Properties                                                              *)

Noted(act) == Cardinality({x \in Moderators \X (1 .. MaxActs) : x[2] <= auditRows[x[1]][act]})
InHand(act) == Cardinality({r \in Reqs : At(r, "act", "answer") /\ rq[r].act = act})
Done(f, acts) == LET of == {a \in DOMAIN acts : acts[a] = f} IN
                 IF of = {} THEN 0 ELSE LET a == CHOOSE x \in of : TRUE IN Noted(a) + InHand(a)

\* Decision 162, "makes a concurrent hide lose cleanly": as long as no act went unaudited,
\* the trail, with the rows about to be written, adds up to what the row says, and names
\* whoever the row names.  Two moderators who act at once are never both told they did it.
TrailAddsUp ==
    \A f \in Flags \ unnoted :
        /\ Done(f, Sets) - Done(f, Clears) = IF flag[f] THEN 1 ELSE 0
        /\ by[f] # None => \/ \E act \in Acts : FlagOf(act) = f /\ auditRows[by[f]][act] > 0
                           \/ \E r \in Reqs : At(r, "act", "answer") /\ rq[r].who = by[f]

=============================================================================
