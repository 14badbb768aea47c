-------------------------- MODULE RewardMediation --------------------------
(***************************************************************************)
(* The monetary reward of one report: the offer, the guarantee reserved at *)
(* the payment rail, and the mediation that decides what happens to it.    *)
(*                                                                         *)
(* One report, hence one offer (tb_reward_offer is unique per report).     *)
(* Every handler is an async function whose statements autocommit, so a    *)
(* handler is a request slot in rq: what it has read so far, and the await *)
(* it stands at.  Each action below runs from one await to the next.       *)
(* Between two of them any other request may run, in this process or in    *)
(* another.                                                                *)
(*                                                                         *)
(* now counts days.  Days pass only while no request is in flight: the     *)
(* contest window and the rail's retention are days, a request is seconds. *)
(***************************************************************************)
EXTENDS Integers, FiniteSets, Functions

CONSTANTS
    Reqs,          \* request slots: how many handlers overlap
    Mediators,     \* panel users holding the reward_mediation privilege
    HelpOffers,    \* help offers on the report; an identified one names its account
    Anonymous,     \* the help offers made without an account
    Reporter,      \* the reporter's account
    Amount,        \* amount_cents of the offer
    Window,        \* mediationContestWindowDays()
    Retention,     \* days after which the rail releases a charge by itself
    MaxDays, MaxCriteria, MaxCharges, MaxResolutions, MaxContests,  \* bounds
    Logged,        \* bound: the operations whose log rows the model keeps
    None           \* SQL NULL

Ops == {"reserve", "propose", "approve", "cancel", "contest", "close", "execute", "state"}

ASSUME RewardAssumption ==
    /\ Anonymous \subseteq HelpOffers
    /\ Reporter \notin HelpOffers
    /\ None \notin Mediators \cup HelpOffers \cup {Reporter}
    /\ Logged \subseteq Ops
    /\ Amount \in Nat \ {0}
    /\ Window \in Nat \ {0}
    /\ Retention \in Nat \ {0}
    /\ {MaxDays, MaxCriteria, MaxCharges, MaxResolutions, MaxContests} \subseteq Nat

VARIABLES
    offer,        \* the tb_reward_offer row
    recipients,   \* tb_reward_recipient, one row per help offer at most
    onboarded,    \* accounts with a tb_reward_recipient_profile row
    criteria,     \* number of published criteria versions; the last is active
    resolutions,  \* tb_reward_resolution, by id
    contests,     \* tb_reward_contest, by id
    log,          \* tb_reward_mediation_log
    rail,         \* the payment rail's charges, by charge number
    now,          \* the day
    rq            \* the requests in flight

vars == <<offer, recipients, onboarded, criteria, resolutions, contests,
          log, rail, now, rq>>

----------------------------------------------------------------------------
(* Rows                                                                    *)

Outcomes     == {"fulfilled", "not_fulfilled"}
OfferStatus  == {"none", "open", "reserved", "released", "refunded"}
ResStatus    == {"none", "proposed", "approved", "executed", "cancelled"}
RailStatus   == {"none", "retained", "finished", "expired", "refunded"}
Accounts     == {Reporter} \cup (HelpOffers \ Anonymous)

ChargeIds     == 1 .. MaxCharges
ResolutionIds == 1 .. MaxResolutions
ContestIds    == 1 .. MaxContests

NoOffer      == [status |-> "none", charge |-> 0, criteria |-> 0, resolved |-> FALSE]
NoRecipient  == [cents |-> 0, status |-> "none"]
NoResolution == [status |-> "none", outcome |-> "fulfilled", proposedBy |-> None,
                 approvedBy |-> None, endsAt |-> 0, executed |-> FALSE]
NoContest    == [status |-> "none", res |-> 0]
NoCharge     == [status |-> "none", since |-> 0]

\* How the reporter may divide the amount: the reserve request's recipients,
\* after the check that their amounts add up to the offered amount.
Split       == [HelpOffers -> Nat]
NoSplit     == [h \in HelpOffers |-> 0]
Cents(s)    == FoldFunction(+, 0, s)
ValidSplits == {s \in [HelpOffers -> 0 .. Amount] : Cents(s) = Amount}
Targets(s)  == {h \in HelpOffers : s[h] > 0}

Idle == [op |-> "idle", pc |-> "idle", who |-> None, charge |-> 0, criteria |-> 0,
         split |-> NoSplit, res |-> 0, contest |-> 0, live |-> "none", seen |-> {}]

\* What a row of the table is, for the type invariant.
Resolution == [status : ResStatus, outcome : Outcomes,
               proposedBy : Mediators \cup {None}, approvedBy : Mediators \cup {None},
               endsAt : Nat, executed : BOOLEAN]
Awaits     == {"idle", "criteria", "charge", "mark", "live", "insert", "write", "parties",
               "contests", "instruct", "markOffer", "markPaid", "markExecuted", "log",
               "rail", "reply"}
Request    == [op : Ops \cup {"idle"},
               pc : Awaits,
               who : Mediators \cup Accounts \cup {None},
               charge : {0} \cup ChargeIds, criteria : Nat, split : Split,
               res : {0} \cup ResolutionIds, contest : {0} \cup ContestIds,
               live : RailStatus, seen : SUBSET ContestIds]

TypeOK ==
    /\ offer \in [status : OfferStatus, charge : {0} \cup ChargeIds, criteria : Nat,
                 resolved : BOOLEAN]
    /\ recipients \in [HelpOffers -> [cents : Nat, status : {"none", "pending", "paid"}]]
    /\ onboarded \subseteq Accounts
    /\ criteria \in Nat
    /\ resolutions \in [ResolutionIds -> Resolution]
    /\ contests \in [ContestIds -> [status : {"none", "open", "closed"},
                                  res : {0} \cup ResolutionIds]]
    /\ log \subseteq (Ops \X (Mediators \cup Accounts \cup {None}))
    /\ rail \in [ChargeIds -> [status : RailStatus, since : Nat]]
    /\ now \in Nat
    /\ rq \in [Reqs -> Request]

Init ==
    /\ offer = NoOffer
    /\ recipients = [h \in HelpOffers |-> NoRecipient]
    /\ onboarded = {}
    /\ criteria = 0
    /\ resolutions = [k \in ResolutionIds |-> NoResolution]
    /\ contests = [k \in ContestIds |-> NoContest]
    /\ log = {}
    /\ rail = [c \in ChargeIds |-> NoCharge]
    /\ now = 0
    /\ rq = [r \in Reqs |-> Idle]

----------------------------------------------------------------------------
(* Request plumbing                                                        *)

At(r, op, pc) == rq[r].op = op /\ rq[r].pc = pc
Begin(r, req) == rq[r] = Idle /\ rq' = [rq EXCEPT ![r] = req]
Goto(r, pc)   == rq' = [rq EXCEPT ![r].pc = pc]
Finish(r)     == rq' = [rq EXCEPT ![r] = Idle]

\* What a handler still needs once only its log row is missing.
ToLog(r) == rq' = [rq EXCEPT ![r] = [Idle EXCEPT !.op = rq[r].op, !.pc = "log", !.who = rq[r].who]]

\* A handler stops at an await: the Legal Gate refuses, a statement or the
\* rail fails, the client's process or the server dies.  Nothing it has
\* already committed is undone.
Drop(r) ==
    /\ rq[r] # Idle
    /\ Finish(r)
    /\ UNCHANGED <<offer, recipients, onboarded, criteria, resolutions, contests,
                   log, rail, now>>

----------------------------------------------------------------------------
(* Offer, criteria, onboarding: one decisive statement each, and a unique  *)
(* key behind the check that precedes it.                                  *)

\* offerReward: UNIQUE (tb_report_id) makes the second insert fail.
OfferReward ==
    /\ offer.status = "none"
    /\ offer' = [offer EXCEPT !.status = "open"]
    /\ UNCHANGED <<recipients, onboarded, criteria, resolutions, contests, log, rail,
                   now, rq>>

\* publishCriteria: append-only, UNIQUE (version).
PublishCriteria ==
    /\ criteria < MaxCriteria
    /\ criteria' = criteria + 1
    /\ UNCHANGED <<offer, recipients, onboarded, resolutions, contests, log, rail, now,
                   rq>>

\* onboardAsRecipient: UNIQUE (tb_user_account_id).
OnboardAsRecipient(h) ==
    /\ h \in HelpOffers \ Anonymous
    /\ h \notin onboarded
    /\ onboarded' = onboarded \cup {h}
    /\ UNCHANGED <<offer, recipients, criteria, resolutions, contests, log, rail, now,
                   rq>>

----------------------------------------------------------------------------
(* reserveGuarantee                                                        *)

\* Any account with the capability may call it: nobody is compared with the
\* reporter.
ReserveBegin(r) ==
    /\ offer.status = "open"
    /\ Begin(r, [Idle EXCEPT !.op = "reserve", !.pc = "criteria"])
    /\ UNCHANGED <<offer, recipients, onboarded, criteria, resolutions, contests, log,
                   rail, now>>

\* Criteria, help offers and payout profiles are read; each target must be
\* identified and onboarded.
ReserveCheck(r) ==
    /\ At(r, "reserve", "criteria")
    /\ criteria > 0
    /\ \E s \in ValidSplits :
          /\ Targets(s) \subseteq onboarded
          /\ rq' = [rq EXCEPT ![r].pc = "charge", ![r].criteria = criteria, ![r].split = s]
    /\ UNCHANGED <<offer, recipients, onboarded, criteria, resolutions, contests, log,
                   rail, now>>

\* paymentRail().reserve: the rail opens a new charge on every call.
RailReserve(r) ==
    /\ At(r, "reserve", "charge")
    /\ \E c \in ChargeIds :
          /\ rail[c].status = "none"
          /\ \A d \in ChargeIds : d < c => rail[d].status # "none"
          /\ rail' = [rail EXCEPT ![c] = [status |-> "retained", since |-> now]]
          /\ rq' = [rq EXCEPT ![r].pc = "mark", ![r].charge = c]
    /\ UNCHANGED <<offer, recipients, onboarded, criteria, resolutions, contests, log,
                   now>>

\* markReserved, one transaction: the UPDATE names no status, and an already
\* present (offer, help offer) pair rolls everything back.
MarkReserved(r) ==
    /\ At(r, "reserve", "mark")
    /\ LET s == rq[r].split IN
          \/ /\ \A h \in Targets(s) : recipients[h].status = "none"
             /\ offer' = [offer EXCEPT !.status = "reserved", !.charge = rq[r].charge,
                                       !.criteria = rq[r].criteria]
             /\ recipients' = [h \in HelpOffers |->
                                 IF h \in Targets(s)
                                 THEN [cents |-> s[h], status |-> "pending"]
                                 ELSE recipients[h]]
          \/ /\ \E h \in Targets(s) : recipients[h].status # "none"
             /\ UNCHANGED <<offer, recipients>>
    /\ Finish(r)
    /\ UNCHANGED <<onboarded, criteria, resolutions, contests, log, rail, now>>

----------------------------------------------------------------------------
(* Mediation                                                               *)

\* findLiveResolution returns one row; nothing in the schema or the query
\* says which when there are several.
LiveIds == {k \in ResolutionIds : resolutions[k].status \in {"proposed", "approved"}}

OpenContests(k) == {c \in ContestIds : contests[c].status = "open" /\ contests[c].res = k}

\* History for a property: the contests open when an execute request starts.
StandingContests == {c \in ContestIds : contests[c].status = "open"}

PartyAccounts ==
    {Reporter} \cup {h \in HelpOffers \ Anonymous : recipients[h].status # "none"}

\* reservedOffer, the first read of every panel handler.
ReadReservedOffer(r, op, who) ==
    /\ offer.status = "reserved"
    /\ offer.charge # 0
    /\ Begin(r, [Idle EXCEPT !.op = op, !.pc = "live", !.who = who, !.charge = offer.charge,
                             !.seen = IF op = "execute" THEN StandingContests ELSE {}])
    /\ UNCHANGED <<offer, recipients, onboarded, criteria, resolutions, contests, log,
                   rail, now>>

ProposeCheck(r) ==
    /\ At(r, "propose", "live")
    /\ LiveIds = {}
    /\ Goto(r, "insert")
    /\ UNCHANGED <<offer, recipients, onboarded, criteria, resolutions, contests, log,
                   rail, now>>

InsertResolution(r) ==
    /\ At(r, "propose", "insert")
    /\ \E k \in ResolutionIds, o \in Outcomes :
          /\ resolutions[k].status = "none"
          /\ \A j \in ResolutionIds : j < k => resolutions[j].status # "none"
          /\ resolutions' = [resolutions EXCEPT ![k] =
                [NoResolution EXCEPT !.status = "proposed", !.outcome = o,
                                     !.proposedBy = rq[r].who]]
    /\ ToLog(r)
    /\ UNCHANGED <<offer, recipients, onboarded, criteria, contests, log, rail, now>>

\* Mutated form: the approver may be the proposer.
ApproveCheckAnyone(r) ==
    /\ At(r, "approve", "live")
    /\ \E k \in LiveIds :
          /\ resolutions[k].status = "proposed"
          /\ rq' = [rq EXCEPT ![r].pc = "write", ![r].res = k]
    /\ UNCHANGED <<offer, recipients, onboarded, criteria, resolutions, contests, log,
                   rail, now>>

ApproveCheck(r) ==
    /\ At(r, "approve", "live")
    /\ \E k \in LiveIds :
          /\ resolutions[k].status = "proposed"
          /\ resolutions[k].proposedBy # rq[r].who
          /\ rq' = [rq EXCEPT ![r].pc = "write", ![r].res = k]
    /\ UNCHANGED <<offer, recipients, onboarded, criteria, resolutions, contests, log,
                   rail, now>>

\* The UPDATE names the id only: it writes over whatever the row has become.
ApproveResolution(r) ==
    /\ At(r, "approve", "write")
    /\ resolutions' = [resolutions EXCEPT
          ![rq[r].res].status = "approved", ![rq[r].res].approvedBy = rq[r].who,
          ![rq[r].res].endsAt = now + Window]
    /\ ToLog(r)
    /\ UNCHANGED <<offer, recipients, onboarded, criteria, contests, log, rail, now>>

CancelCheck(r) ==
    /\ At(r, "cancel", "live")
    /\ \E k \in LiveIds : rq' = [rq EXCEPT ![r].pc = "write", ![r].res = k]
    /\ UNCHANGED <<offer, recipients, onboarded, criteria, resolutions, contests, log,
                   rail, now>>

\* Mutated form: a status the table does not know.
CancelResolutionMisspelt(r) ==
    /\ At(r, "cancel", "write")
    /\ resolutions' = [resolutions EXCEPT ![rq[r].res].status = "canceled"]
    /\ ToLog(r)
    /\ UNCHANGED <<offer, recipients, onboarded, criteria, contests, log, rail, now>>

CancelResolution(r) ==
    /\ At(r, "cancel", "write")
    /\ resolutions' = [resolutions EXCEPT ![rq[r].res].status = "cancelled"]
    /\ ToLog(r)
    /\ UNCHANGED <<offer, recipients, onboarded, criteria, contests, log, rail, now>>

\* contestResolution, app plane: any status of the offer will do.
ContestBegin(r, who) ==
    /\ offer.status # "none"
    /\ \E k \in LiveIds :
          /\ ~resolutions[k].executed
          /\ Begin(r, [Idle EXCEPT !.op = "contest", !.pc = "parties", !.who = who, !.res = k])
    /\ UNCHANGED <<offer, recipients, onboarded, criteria, resolutions, contests, log,
                   rail, now>>

InsertContest(r) ==
    /\ At(r, "contest", "parties")
    /\ rq[r].who \in PartyAccounts
    /\ \E c \in ContestIds :
          /\ contests[c].status = "none"
          /\ \A d \in ContestIds : d < c => contests[d].status # "none"
          /\ contests' = [contests EXCEPT ![c] = [status |-> "open", res |-> rq[r].res]]
    /\ ToLog(r)
    /\ UNCHANGED <<offer, recipients, onboarded, criteria, resolutions, log, rail, now>>

CloseContestBegin(r, who) ==
    /\ \E c \in ContestIds :
          /\ contests[c].status = "open"
          /\ Begin(r, [Idle EXCEPT !.op = "close", !.pc = "write", !.who = who, !.contest = c])
    /\ UNCHANGED <<offer, recipients, onboarded, criteria, resolutions, contests, log,
                   rail, now>>

CloseContest(r) ==
    /\ At(r, "close", "write")
    /\ contests' = [contests EXCEPT ![rq[r].contest].status = "closed"]
    /\ ToLog(r)
    /\ UNCHANGED <<offer, recipients, onboarded, criteria, resolutions, log, rail, now>>

----------------------------------------------------------------------------
(* executeResolution, the only handler that instructs the rail             *)

\* Mutated form: the contest window is not looked at.
ExecuteCheckNoWindow(r) ==
    /\ At(r, "execute", "live")
    /\ \E k \in LiveIds :
          /\ resolutions[k].status = "approved"
          /\ rq' = [rq EXCEPT ![r].pc = "contests", ![r].res = k]
    /\ UNCHANGED <<offer, recipients, onboarded, criteria, resolutions, contests, log,
                   rail, now>>

ExecuteCheck(r) ==
    /\ At(r, "execute", "live")
    /\ \E k \in LiveIds :
          /\ resolutions[k].status = "approved"
          /\ resolutions[k].endsAt <= now
          /\ rq' = [rq EXCEPT ![r].pc = "contests", ![r].res = k]
    /\ UNCHANGED <<offer, recipients, onboarded, criteria, resolutions, contests, log,
                   rail, now>>

\* Mutated form: open contests are not looked at.
ExecuteContestsIgnored(r) ==
    /\ At(r, "execute", "contests")
    /\ Goto(r, "instruct")
    /\ UNCHANGED <<offer, recipients, onboarded, criteria, resolutions, contests, log,
                   rail, now>>

ExecuteContests(r) ==
    /\ At(r, "execute", "contests")
    /\ OpenContests(rq[r].res) = {}
    /\ Goto(r, "instruct")
    /\ UNCHANGED <<offer, recipients, onboarded, criteria, resolutions, contests, log,
                   rail, now>>

\* The outcome of a resolution never changes once inserted, so the row read
\* earlier and the row now agree on it.
Verdict(r) == resolutions[rq[r].res].outcome

\* A charge that is already DONE, for whatever reason, counts as captured.
RailCapture(c) ==
    rail' = IF rail[c].status = "retained"
            THEN [rail EXCEPT ![c].status = "finished"]
            ELSE rail

\* The rail refuses to refund a charge it no longer retains.
RailCancel(c) ==
    /\ rail[c].status = "retained"
    /\ rail' = [rail EXCEPT ![c].status = "refunded"]

\* Mutated form: capture and cancel swapped.
ExecuteRailSwapped(r) ==
    /\ At(r, "execute", "instruct")
    /\ \/ Verdict(r) = "not_fulfilled" /\ RailCapture(rq[r].charge)
       \/ Verdict(r) = "fulfilled"     /\ RailCancel(rq[r].charge)
    /\ rq' = [rq EXCEPT ![r].pc = "markOffer", ![r].seen = {}, ![r].charge = 0]
    /\ UNCHANGED <<offer, recipients, onboarded, criteria, resolutions, contests, log, now>>

ExecuteRail(r) ==
    /\ At(r, "execute", "instruct")
    /\ \/ Verdict(r) = "fulfilled"     /\ RailCapture(rq[r].charge)
       \/ Verdict(r) = "not_fulfilled" /\ RailCancel(rq[r].charge)
    /\ rq' = [rq EXCEPT ![r].pc = "markOffer", ![r].seen = {}, ![r].charge = 0]
    /\ UNCHANGED <<offer, recipients, onboarded, criteria, resolutions, contests, log, now>>

\* Mutated form: the recipients are marked paid whatever the outcome.
MarkOfferPaysAll(r) ==
    /\ At(r, "execute", "markOffer")
    /\ offer' = [offer EXCEPT !.resolved = TRUE, !.status =
                    IF Verdict(r) = "fulfilled" THEN "released" ELSE "refunded"]
    /\ Goto(r, "markPaid")
    /\ UNCHANGED <<recipients, onboarded, criteria, resolutions, contests, log, rail, now>>

\* markResolved: the offer, then, for a release, its recipients; two
\* statements outside any transaction, neither guarded by the status.
MarkOffer(r) ==
    /\ At(r, "execute", "markOffer")
    /\ \/ /\ Verdict(r) = "fulfilled"
          /\ offer' = [offer EXCEPT !.status = "released", !.resolved = TRUE]
          /\ Goto(r, "markPaid")
       \/ /\ Verdict(r) = "not_fulfilled"
          /\ offer' = [offer EXCEPT !.status = "refunded", !.resolved = TRUE]
          /\ Goto(r, "markExecuted")
    /\ UNCHANGED <<recipients, onboarded, criteria, resolutions, contests, log, rail, now>>

MarkPaid(r) ==
    /\ At(r, "execute", "markPaid")
    /\ recipients' = [h \in HelpOffers |->
          IF recipients[h].status = "none" THEN recipients[h]
          ELSE [recipients[h] EXCEPT !.status = "paid"]]
    /\ Goto(r, "markExecuted")
    /\ UNCHANGED <<offer, onboarded, criteria, resolutions, contests, log, rail, now>>

MarkResolutionExecuted(r) ==
    /\ At(r, "execute", "markExecuted")
    /\ resolutions' = [resolutions EXCEPT ![rq[r].res].status = "executed",
                                          ![rq[r].res].executed = TRUE]
    /\ ToLog(r)
    /\ UNCHANGED <<offer, recipients, onboarded, criteria, contests, log, rail, now>>

\* appendMediationLog, the last statement of every mediation handler.
AppendLog(r) ==
    /\ rq[r].pc = "log"
    /\ log' = log \cup ({rq[r].op} \cap Logged) \X {rq[r].who}
    /\ Finish(r)
    /\ UNCHANGED <<offer, recipients, onboarded, criteria, resolutions, contests, rail,
                   now>>

----------------------------------------------------------------------------
(* getRewardState: what the seal shows, reconciled with the rail           *)

StateBegin(r) ==
    /\ offer.status = "reserved"
    /\ offer.charge # 0
    /\ Begin(r, [Idle EXCEPT !.op = "state", !.pc = "rail", !.charge = offer.charge])
    /\ UNCHANGED <<offer, recipients, onboarded, criteria, resolutions, contests, log,
                   rail, now>>

\* Mutated form: the expiry of the rail's retention is not recognised.
StateRailNoExpiry(r) ==
    /\ At(r, "state", "rail")
    /\ LET live == rail[rq[r].charge].status IN
          rq' = [rq EXCEPT ![r].live = live,
                           ![r].pc = IF live = "refunded" THEN "write" ELSE "reply"]
    /\ UNCHANGED <<offer, recipients, onboarded, criteria, resolutions, contests, log,
                   rail, now>>

StateRail(r) ==
    /\ At(r, "state", "rail")
    /\ LET live == rail[rq[r].charge].status IN
          rq' = [rq EXCEPT ![r].live = live,
                           ![r].pc = IF live \in {"refunded", "expired"} THEN "write" ELSE "reply"]
    /\ UNCHANGED <<offer, recipients, onboarded, criteria, resolutions, contests, log,
                   rail, now>>

\* getRetentionState knows a release only by its expiry; a manual finish is
\* "unknown" to it and leaves the stored status as it is.
StateReconcile(r) ==
    /\ At(r, "state", "write")
    /\ offer' = [offer EXCEPT !.status =
                    IF rq[r].live = "refunded" THEN "refunded" ELSE "released"]
    /\ Finish(r)
    /\ UNCHANGED <<recipients, onboarded, criteria, resolutions, contests, log, rail, now>>

\* The stored row is returned: the seal says "reserved".
StateReply(r) ==
    /\ At(r, "state", "reply")
    /\ Finish(r)
    /\ UNCHANGED <<offer, recipients, onboarded, criteria, resolutions, contests, log,
                   rail, now>>

----------------------------------------------------------------------------
(* Time and the rail's own clock                                           *)

NextDay ==
    /\ now < MaxDays
    /\ \A r \in Reqs : rq[r] = Idle
    /\ now' = now + 1
    /\ UNCHANGED <<offer, recipients, onboarded, criteria, resolutions, contests, log,
                   rail, rq>>

\* daysToExpire: the rail releases a charge it has retained long enough.
RailExpire(c) ==
    /\ rail[c].status = "retained"
    /\ now >= rail[c].since + Retention
    /\ rail' = [rail EXCEPT ![c].status = "expired"]
    /\ UNCHANGED <<offer, recipients, onboarded, criteria, resolutions, contests, log,
                   now, rq>>

----------------------------------------------------------------------------

Reserve(r) == ReserveBegin(r) \/ ReserveCheck(r) \/ RailReserve(r) \/ MarkReserved(r)
Propose(r) == ProposeCheck(r) \/ InsertResolution(r)
Approve(r) == ApproveCheck(r) \/ ApproveResolution(r)
Cancel(r)  == CancelCheck(r) \/ CancelResolution(r)
Contest(r) == (\E a \in Accounts : ContestBegin(r, a)) \/ InsertContest(r)
Close(r)   == (\E m \in Mediators : CloseContestBegin(r, m)) \/ CloseContest(r)
Execute(r) == \/ ExecuteCheck(r) \/ ExecuteContests(r) \/ ExecuteRail(r)
              \/ MarkOffer(r) \/ MarkPaid(r) \/ MarkResolutionExecuted(r)
State(r)   == StateBegin(r) \/ StateRail(r) \/ StateReconcile(r) \/ StateReply(r)

Handler(r) ==
    \/ Reserve(r) \/ Propose(r) \/ Approve(r) \/ Cancel(r) \/ Contest(r) \/ Close(r)
    \/ Execute(r) \/ AppendLog(r) \/ State(r)
    \/ \E m \in Mediators, op \in {"propose", "approve", "cancel", "execute"} :
          ReadReservedOffer(r, op, m)

Next ==
    \/ OfferReward \/ PublishCriteria \/ NextDay
    \/ \E h \in HelpOffers : OnboardAsRecipient(h)
    \/ \E c \in ChargeIds : RailExpire(c)
    \/ \E r \in Reqs : Handler(r) \/ Drop(r)

Spec == Init /\ [][Next]_vars

----------------------------------------------------------------------------
(* Safety                                                                  *)

\* Request r makes the rail capture or refund in this step.
Instructs(r) == At(r, "execute", "instruct") /\ rq'[r].pc = "markOffer"

\* Decision 148: whatever the interleaving of proposals, approvals and
\* cancellations, the rail only ever executes a resolution that one mediator
\* proposed and another approved (approveResolution checks the proposer on a
\* row read before the gate, and writes by id after it).
TwoPersonRule ==
    [][\A r \in Reqs : Instructs(r) =>
          LET k == rq[r].res IN
             /\ resolutions[k].approvedBy # None
             /\ resolutions[k].approvedBy # resolutions[k].proposedBy]_vars

\* Decision 149: the rail is never instructed before the contest window of the
\* resolution it executes is over, although a second approval in flight may
\* write a new window over the first.
WindowElapsed ==
    [][\A r \in Reqs : Instructs(r) =>
          LET k == rq[r].res IN resolutions[k].endsAt \in 1 .. now]_vars

\* Decision 149, as far as the code enforces it: a contest filed before the
\* execute request began and not closed since stops that request from
\* reaching the rail.
StandingContestBlocks ==
    [][\A r \in Reqs : Instructs(r) => OpenContests(rq[r].res) \cap rq[r].seen = {}]_vars

\* A recipient is marked paid only on a verdict of two mediators that the
\* condition was fulfilled: neither the reconciling read, nor a refund, nor a
\* reservation that lands late pays anyone.
PaidNeedsVerdict ==
    (\E h \in HelpOffers : recipients[h].status = "paid")
        => \E k \in ResolutionIds :
              /\ resolutions[k].outcome = "fulfilled"
              /\ resolutions[k].approvedBy \notin {None, resolutions[k].proposedBy}

----------------------------------------------------------------------------
(* The promise                                                             *)

\* The outcomes two different mediators agreed on, once their window is over.
Verdicts ==
    {resolutions[k].outcome : k \in {j \in ResolutionIds :
        /\ resolutions[j].approvedBy \notin {None, resolutions[j].proposedBy}
        /\ resolutions[j].endsAt \in 1 .. now}}

Fate == [finished |-> "captured", expired |-> "expired", refunded |-> "refunded"]

Fates == {Fate[s] : s \in {rail[c].status : c \in ChargeIds} \cap DOMAIN Fate}

Escrow == INSTANCE EscrowedReward WITH
    stage <- offer.status, verdict <- Verdicts, money <- Fates

\* Requests, races and crashes included, the service keeps the promise of
\* EscrowedReward: no capture without a fulfilled verdict, no refund without a
\* not-fulfilled one, no settled status before the money moved, no way back.
KeepsTheEscrow == Escrow!Spec

----------------------------------------------------------------------------
(* Liveness                                                                *)

\* No request hangs for ever: it takes its next step or it is dropped.  Somebody
\* keeps opening the case, and not every read of it fails half-way: each step
\* of getRewardState is taken if it stays possible again and again.
ReadFairness ==
    \A r \in Reqs :
        /\ WF_vars(rq[r] # Idle /\ (Handler(r) \/ Drop(r)))
        /\ SF_vars(StateBegin(r)) /\ SF_vars(StateRail(r)) /\ SF_vars(StateReconcile(r))

LiveSpec == Spec /\ ReadFairness

\* Decision 85: a charge the rail refunded, or released on expiry, does not
\* leave its offer "reserved" for ever, even when the request that instructed
\* the rail died before it could record the outcome.
DriftReconciled ==
    (offer.status = "reserved" /\ \E c \in ChargeIds :
        c = offer.charge /\ rail[c].status \in {"expired", "refunded"})
      ~> offer.status # "reserved"

----------------------------------------------------------------------------
(* What comments and documents say, and the code does not do               *)

\* "fulfilled releases exactly to the fixed set" (executeResolution): a charge
\* that was refunded is DONE, so a later capture succeeds and marks the
\* recipients paid.
PaidMeansReleased ==
    (\E h \in HelpOffers : recipients[h].status = "paid")
        => \E c \in ChargeIds : rail[c].status \in {"finished", "expired"}

=============================================================================
