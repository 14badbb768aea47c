--------------------------- MODULE CaseRetention ---------------------------
(***************************************************************************)
(* The life of a case and of its evidence: submission, edits, resolution,  *)
(* attached media, the freeze by an authority and its dual-control undoing, *)
(* and the two retention jobs that destroy what is due.                    *)
(*                                                                         *)
(* As in RewardMediation a handler is a request slot in rq, and an action  *)
(* runs from one await to the next.  Each job holds a database lock while  *)
(* it runs, so there is one instance of each; its own awaits interleave    *)
(* with the requests.                                                      *)
(*                                                                         *)
(* Expiry dates are kept as the days left until them, Never for NULL, so   *)
(* that time needs no bound.  Retention is counted in days, requests and   *)
(* job runs in seconds: what is still in flight when a day passes is dead. *)
(***************************************************************************)
EXTENDS Integers, FiniteSets

CONSTANTS
    Reqs,        \* request slots
    Cases,       \* reports
    Media,       \* evidence uploads
    Attachable,  \* <<case, medium>>: the case's owner may present this upload
    Operators,   \* panel users with the case_freeze privilege
    Retention,   \* RETENTION_DAYS
    OrphanTtl,   \* MEDIA_ORPHAN_TTL_HOURS, in days
    MaxPerReport,\* MEDIA_MAX_PER_REPORT
    Batch,       \* rows a job selects at a time
    MaxAsks,     \* bound: unfreeze requests
    Served,      \* bound: the handlers that run
    None

ASSUME RetentionAssumption ==
    /\ Attachable \subseteq Cases \X Media
    /\ None \notin Cases \cup Media \cup Operators
    /\ {Retention, OrphanTtl, MaxPerReport, Batch} \subseteq Nat \ {0}
    /\ MaxAsks \in Nat
    /\ Served \subseteq {"edit", "resolve", "attach", "freeze", "ask", "thaw"}

VARIABLES
    report,   \* tb_report
    media,    \* tb_media
    link,     \* tb_report_media
    asks,     \* tb_report_unfreeze, by id
    expiry,   \* the run of the media-expiry job
    purge,    \* the run of the report-purge job
    rq        \* the requests in flight

vars == <<report, media, link, asks, expiry, purge, rq>>

----------------------------------------------------------------------------
(* Rows                                                                    *)

Never == -1
Days  == {Never} \cup 0 .. Retention
Tick(d) == IF d > 0 THEN d - 1 ELSE d

CaseStatus  == {"none", "open", "resolved"}
MediaStatus == {"none", "pending", "available", "blocked", "deleted"}
Content     == {"none", "text", "edited", "wiped"}
Payloads    == {"edited", "media_attached"}
AskIds      == 1 .. MaxAsks

\* left: days to expires_at.  term: days to resolved_at + RETENTION_DAYS.
\* content: the sensitive columns.  trail: the timeline events whose payload is
\* not NULL.
Report == [status : CaseStatus, frozen : BOOLEAN, purged : BOOLEAN, left : Days,
           term : Days, content : Content, trail : SUBSET Payloads]

\* left: days to expires_at.  ttl: days a pending upload has left.
Medium == [status : MediaStatus, frozen : BOOLEAN, left : Days, ttl : 0 .. OrphanTtl]

Ask == [status : {"none", "pending", "approved"}, case : Cases \cup {None},
        by : Operators \cup {None}, approvedBy : Operators \cup {None}]

NoReport == [status |-> "none", frozen |-> FALSE, purged |-> FALSE, left |-> Never,
             term |-> Never, content |-> "none", trail |-> {}]
NoMedium == [status |-> "none", frozen |-> FALSE, left |-> Never, ttl |-> OrphanTtl]
NoAsk    == [status |-> "none", case |-> None, by |-> None, approvedBy |-> None]
NoRun    == [pc |-> "idle", due |-> {}, full |-> FALSE]

Idle == [op |-> "idle", pc |-> "idle", case |-> None, medium |-> None, who |-> None,
         ask |-> 0, status |-> "none", left |-> Never]

Request == [op : {"idle", "edit", "resolve", "attach", "freeze", "ask", "thaw"},
            pc : {"idle", "write", "timeline", "mark", "stamp", "lookup", "count", "commit",
                  "media", "pending", "insert", "approve", "unfreeze"},
            case : Cases \cup {None}, medium : Media \cup {None},
            who : Operators \cup {None}, ask : {0} \cup AskIds,
            status : CaseStatus, left : Days]

Run(S) == [pc : {"idle", "select", "work"}, due : SUBSET S, full : BOOLEAN]

TypeOK ==
    /\ report \in [Cases -> Report]
    /\ media \in [Media -> Medium]
    /\ link \subseteq Cases \X Media
    /\ asks \in [AskIds -> Ask]
    /\ expiry \in Run(Media)
    /\ purge \in Run(Cases)
    /\ rq \in [Reqs -> Request]

Init ==
    /\ report = [c \in Cases |-> NoReport]
    /\ media = [m \in Media |-> NoMedium]
    /\ link = {}
    /\ asks = [k \in AskIds |-> NoAsk]
    /\ expiry = NoRun
    /\ purge = NoRun
    /\ rq = [r \in Reqs |-> Idle]

----------------------------------------------------------------------------
(* Request plumbing                                                        *)

At(r, op, pc) == rq[r].op = op /\ rq[r].pc = pc
Begin(r, req) == rq[r] = Idle /\ req.op \in Served /\ rq' = [rq EXCEPT ![r] = req]
Goto(r, pc)   == rq' = [rq EXCEPT ![r].pc = pc]
Finish(r)     == rq' = [rq EXCEPT ![r] = Idle]

Case(r)   == rq[r].case
Living(c) == report[c].status # "none" /\ ~report[c].purged
Attached(c) == {m \in Media : <<c, m>> \in link}

\* The rows an UPDATE of a case's media reaches: linked and not deleted.
Evidence(c) == {m \in Attached(c) : media[m].status # "deleted"}

\* A handler ends at an await: a check answers 404, 409 or 422, the Legal Gate
\* refuses, a statement fails, the process dies.  What it has committed stays.
Drop(r) ==
    /\ rq[r] # Idle
    /\ Finish(r)
    /\ UNCHANGED <<report, media, link, asks, expiry, purge>>

----------------------------------------------------------------------------
(* One decisive statement each                                             *)

\* submitReport: UNIQUE (client_key), so that a replay finds the first row.
SubmitReport(c) ==
    /\ report[c].status = "none"
    /\ report' = [report EXCEPT ![c].status = "open", ![c].content = "text"]
    /\ UNCHANGED <<media, link, asks, expiry, purge, rq>>

\* ingest: evidence is born pending.
Upload(m) ==
    /\ media[m].status = "none"
    /\ media' = [media EXCEPT ![m].status = "pending"]
    /\ UNCHANGED <<report, link, asks, expiry, purge, rq>>

\* Mutated form: a status the table's CHECK does not allow.
BlockMediaMisspelt(m) ==
    /\ media[m].status = "available"
    /\ media' = [media EXCEPT ![m].status = "held"]
    /\ UNCHANGED <<report, link, asks, expiry, purge, rq>>

BlockMedia(m) ==
    /\ media[m].status = "available"
    /\ media' = [media EXCEPT ![m].status = "blocked"]
    /\ UNCHANGED <<report, link, asks, expiry, purge, rq>>

UnblockMedia(m) ==
    /\ media[m].status = "blocked"
    /\ media' = [media EXCEPT ![m].status = "available"]
    /\ UNCHANGED <<report, link, asks, expiry, purge, rq>>

----------------------------------------------------------------------------
(* editReport                                                              *)

\* Mutated form: neither the life nor the status of the case is looked at.
EditBeginAnyCase(r, c) ==
    /\ report[c].status # "none"
    /\ ~report[c].frozen
    /\ Begin(r, [Idle EXCEPT !.op = "edit", !.pc = "write", !.case = c])
    /\ UNCHANGED <<report, media, link, asks, expiry, purge>>

EditBegin(r, c) ==
    /\ Living(c)
    /\ report[c].status = "open"
    /\ ~report[c].frozen
    /\ Begin(r, [Idle EXCEPT !.op = "edit", !.pc = "write", !.case = c])
    /\ UNCHANGED <<report, media, link, asks, expiry, purge>>

\* The UPDATE names the id only.
EditWrite(r) ==
    /\ At(r, "edit", "write")
    /\ report' = [report EXCEPT ![Case(r)].content = "edited"]
    /\ Goto(r, "timeline")
    /\ UNCHANGED <<media, link, asks, expiry, purge>>

EditTimeline(r) ==
    /\ At(r, "edit", "timeline")
    /\ report' = [report EXCEPT ![Case(r)].trail = @ \cup {"edited"}]
    /\ Finish(r)
    /\ UNCHANGED <<media, link, asks, expiry, purge>>

----------------------------------------------------------------------------
(* resolveReport: a frozen case may be resolved                            *)

ResolveBegin(r, c) ==
    /\ Living(c)
    /\ Begin(r, [Idle EXCEPT !.op = "resolve", !.pc = "mark", !.case = c])
    /\ UNCHANGED <<report, media, link, asks, expiry, purge>>

\* WHERE status = 'open' in the UPDATE: a second resolution changes no row.
MarkResolved(r) ==
    /\ At(r, "resolve", "mark")
    /\ report[Case(r)].status = "open"
    /\ report' = [report EXCEPT ![Case(r)].status = "resolved",
                                ![Case(r)].left = Retention, ![Case(r)].term = Retention]
    /\ Goto(r, "stamp")
    /\ UNCHANGED <<media, link, asks, expiry, purge>>

StampAttachedMediaExpiry(r) ==
    /\ At(r, "resolve", "stamp")
    /\ media' = [m \in Media |-> IF m \in Evidence(Case(r))
                                 THEN [media[m] EXCEPT !.left = Retention] ELSE media[m]]
    /\ Finish(r)
    /\ UNCHANGED <<report, link, asks, expiry, purge>>

----------------------------------------------------------------------------
(* attachMedia                                                             *)

AttachBegin(r, c, m) ==
    /\ <<c, m>> \in Attachable
    /\ Living(c)
    /\ report[c].status = "open"
    /\ ~report[c].frozen
    /\ Begin(r, [Idle EXCEPT !.op = "attach", !.pc = "lookup", !.case = c, !.medium = m])
    /\ UNCHANGED <<report, media, link, asks, expiry, purge>>

\* A medium already available answers a replay or 409; any other status 404.
AttachLookup(r) ==
    /\ At(r, "attach", "lookup")
    /\ media[rq[r].medium].status = "pending"
    /\ Goto(r, "count")
    /\ UNCHANGED <<report, media, link, asks, expiry, purge>>

AttachCount(r) ==
    /\ At(r, "attach", "count")
    /\ Cardinality(Attached(Case(r))) < MaxPerReport
    /\ Goto(r, "commit")
    /\ UNCHANGED <<report, media, link, asks, expiry, purge>>

\* Mutated form: the claim does not ask whether the medium is still pending.
AttachCommitUnclaimed(r) ==
    LET c == Case(r)  m == rq[r].medium IN
    /\ At(r, "attach", "commit")
    /\ <<c, m>> \notin link
    /\ link' = link \cup {<<c, m>>}
    /\ media' = [media EXCEPT ![m].status = "available"]
    /\ report' = [report EXCEPT ![c].trail = @ \cup {"media_attached"}]
    /\ Finish(r)
    /\ UNCHANGED <<asks, expiry, purge>>

\* One transaction: the link (unique per pair), the claim of 'pending' and the
\* timeline event.  A collision or a claim of no row rolls it back.
AttachCommit(r) ==
    LET c == Case(r)  m == rq[r].medium IN
    /\ At(r, "attach", "commit")
    /\ <<c, m>> \notin link
    /\ media[m].status = "pending"
    /\ link' = link \cup {<<c, m>>}
    /\ media' = [media EXCEPT ![m].status = "available"]
    /\ report' = [report EXCEPT ![c].trail = @ \cup {"media_attached"}]
    /\ Finish(r)
    /\ UNCHANGED <<asks, expiry, purge>>

----------------------------------------------------------------------------
(* freezeCase, requestUnfreeze, approveUnfreeze                            *)

FreezeBegin(r, c) ==
    /\ Living(c)
    /\ Begin(r, [Idle EXCEPT !.op = "freeze", !.pc = "mark", !.case = c])
    /\ UNCHANGED <<report, media, link, asks, expiry, purge>>

FreezeCase(r) ==
    /\ At(r, "freeze", "mark")
    /\ ~report[Case(r)].frozen
    /\ report' = [report EXCEPT ![Case(r)].frozen = TRUE]
    /\ Goto(r, "media")
    /\ UNCHANGED <<media, link, asks, expiry, purge>>

FreezeMedia(r) ==
    /\ At(r, "freeze", "media")
    /\ media' = [m \in Media |-> IF m \in Evidence(Case(r))
                                 THEN [media[m] EXCEPT !.frozen = TRUE] ELSE media[m]]
    /\ Finish(r)
    /\ UNCHANGED <<report, link, asks, expiry, purge>>

PendingAsks(c) == {k \in AskIds : asks[k].status = "pending" /\ asks[k].case = c}

RequestUnfreezeBegin(r, c, who) ==
    /\ Living(c)
    /\ report[c].frozen
    /\ Begin(r, [Idle EXCEPT !.op = "ask", !.pc = "pending", !.case = c, !.who = who])
    /\ UNCHANGED <<report, media, link, asks, expiry, purge>>

RequestUnfreezeCheck(r) ==
    /\ At(r, "ask", "pending")
    /\ PendingAsks(Case(r)) = {}
    /\ Goto(r, "insert")
    /\ UNCHANGED <<report, media, link, asks, expiry, purge>>

InsertUnfreezeRequest(r) ==
    /\ At(r, "ask", "insert")
    /\ \E k \in AskIds :
          /\ asks[k].status = "none"
          /\ \A j \in AskIds : j < k => asks[j].status # "none"
          /\ asks' = [asks EXCEPT ![k] = [status |-> "pending", case |-> Case(r),
                                          by |-> rq[r].who, approvedBy |-> None]]
    /\ Finish(r)
    /\ UNCHANGED <<report, media, link, expiry, purge>>

\* The report is read before the request; its status decides the new clock.
ApproveUnfreezeBegin(r, c, who) ==
    /\ Living(c)
    /\ report[c].frozen
    /\ Begin(r, [Idle EXCEPT !.op = "thaw", !.pc = "pending", !.case = c, !.who = who,
                             !.status = report[c].status])
    /\ UNCHANGED <<report, media, link, asks, expiry, purge>>

\* Mutated form: whoever asked may approve.
ApproveUnfreezeCheckAnyone(r) ==
    /\ At(r, "thaw", "pending")
    /\ \E k \in PendingAsks(Case(r)) :
          /\ \A j \in PendingAsks(Case(r)) : j <= k
          /\ rq' = [rq EXCEPT ![r].pc = "approve", ![r].ask = k]
    /\ UNCHANGED <<report, media, link, asks, expiry, purge>>

\* findPendingUnfreeze: the latest pending request.
ApproveUnfreezeCheck(r) ==
    /\ At(r, "thaw", "pending")
    /\ \E k \in PendingAsks(Case(r)) :
          /\ \A j \in PendingAsks(Case(r)) : j <= k
          /\ asks[k].by # rq[r].who
          /\ rq' = [rq EXCEPT ![r].pc = "approve", ![r].ask = k]
    /\ UNCHANGED <<report, media, link, asks, expiry, purge>>

ApproveUnfreezeRequest(r) ==
    /\ At(r, "thaw", "approve")
    /\ asks' = [asks EXCEPT ![rq[r].ask].status = "approved",
                            ![rq[r].ask].approvedBy = rq[r].who]
    /\ Goto(r, "unfreeze")
    /\ UNCHANGED <<report, media, link, expiry, purge>>

\* Mutated form: the case gets a fresh clock, its media get none.
UnfreezeMediaForGood(r) ==
    /\ At(r, "thaw", "media")
    /\ media' = [m \in Media |->
                    IF m \in Evidence(Case(r))
                    THEN [media[m] EXCEPT !.frozen = FALSE, !.left = Never]
                    ELSE media[m]]
    /\ Finish(r)
    /\ UNCHANGED <<report, link, asks, expiry, purge>>

\* The clock restarts for a case that was resolved when it was read.
UnfreezeCase(r) ==
    LET left == IF rq[r].status = "resolved" THEN Retention ELSE Never IN
    /\ At(r, "thaw", "unfreeze")
    /\ report' = [report EXCEPT ![Case(r)].frozen = FALSE, ![Case(r)].left = left]
    /\ rq' = [rq EXCEPT ![r].pc = "media", ![r].left = left]
    /\ UNCHANGED <<media, link, asks, expiry, purge>>

UnfreezeMedia(r) ==
    /\ At(r, "thaw", "media")
    /\ media' = [m \in Media |->
                    IF m \in Evidence(Case(r))
                    THEN [media[m] EXCEPT !.frozen = FALSE, !.left = rq[r].left]
                    ELSE media[m]]
    /\ Finish(r)
    /\ UNCHANGED <<report, link, asks, expiry, purge>>

----------------------------------------------------------------------------
(* The retention jobs.  withJobLock admits one run of each; a run selects a *)
(* batch, destroys its rows one await at a time, by id, and selects again   *)
(* while the batches are full.                                              *)

\* Mutated form: orphans are not looked for.
DueMediaNoOrphans ==
    {m \in Media : /\ media[m].status \notin {"none", "deleted"}
                   /\ ~media[m].frozen
                   /\ media[m].left = 0}

\* findExpired: its own expiry reached, or an orphan past its time.
DueMedia ==
    {m \in Media : /\ media[m].status \notin {"none", "deleted"}
                   /\ ~media[m].frozen
                   /\ \/ media[m].left = 0
                      \/ media[m].status = "pending" /\ media[m].ttl = 0}

\* Mutated form: a NULL expiry counts as past.
DueCasesNullIsPast ==
    {c \in Cases : Living(c) /\ ~report[c].frozen /\ report[c].left <= 0}

\* Mutated form: a case thawed once, its frozen_at still set, is passed over.
DueCasesNeverFrozen ==
    {c \in Cases : /\ Living(c) /\ ~report[c].frozen /\ report[c].left = 0
                   /\ \A k \in AskIds : asks[k].case # c}

\* findExpiredReports
DueCases == {c \in Cases : Living(c) /\ ~report[c].frozen /\ report[c].left = 0}

\* LIMIT: all that is due, or a full batch of it.
Selections(S) ==
    IF S = {} THEN {NoRun}
    ELSE {[pc |-> "work", due |-> due, full |-> Cardinality(S) >= Batch] :
             due \in {D \in SUBSET S : \/ D = S /\ Cardinality(S) <= Batch
                                       \/ Cardinality(D) = Batch}}

\* The rest of a batch once x is dealt with: after a full one, another select.
Rest(run, x) ==
    IF run.due # {x} THEN [run EXCEPT !.due = @ \ {x}]
    ELSE IF run.full THEN [NoRun EXCEPT !.pc = "select"]
    ELSE NoRun

ExpiryStart ==
    /\ expiry.pc = "idle"
    /\ expiry' = [NoRun EXCEPT !.pc = "select"]
    /\ UNCHANGED <<report, media, link, asks, purge, rq>>

ExpirySelect ==
    /\ expiry.pc = "select"
    /\ expiry' \in Selections(DueMedia)
    /\ UNCHANGED <<report, media, link, asks, purge, rq>>

\* shred, then the storage objects, whose loss changes nothing.
Shred(m) ==
    /\ expiry.pc = "work"
    /\ m \in expiry.due
    /\ media' = [media EXCEPT ![m].status = "deleted"]
    /\ expiry' = Rest(expiry, m)
    /\ UNCHANGED <<report, link, asks, purge, rq>>

ExpiryDies ==
    /\ expiry.pc # "idle"
    /\ expiry' = NoRun
    /\ UNCHANGED <<report, media, link, asks, purge, rq>>

PurgeStart ==
    /\ purge.pc = "idle"
    /\ purge' = [NoRun EXCEPT !.pc = "select"]
    /\ UNCHANGED <<report, media, link, asks, expiry, rq>>

PurgeSelect ==
    /\ purge.pc = "select"
    /\ purge' \in Selections(DueCases)
    /\ UNCHANGED <<report, media, link, asks, expiry, rq>>

\* purgeReport: the sensitive columns and the timeline payloads, by id, in one
\* transaction.
PurgeReport(c) ==
    /\ purge.pc = "work"
    /\ c \in purge.due
    /\ report' = [report EXCEPT ![c].purged = TRUE, ![c].content = "wiped", ![c].trail = {}]
    /\ purge' = Rest(purge, c)
    /\ UNCHANGED <<media, link, asks, expiry, rq>>

PurgeDies ==
    /\ purge.pc # "idle"
    /\ purge' = NoRun
    /\ UNCHANGED <<report, media, link, asks, expiry, rq>>

----------------------------------------------------------------------------

\* An upload's own time only counts while it is pending.
NextDay ==
    /\ report' = [c \in Cases |-> [report[c] EXCEPT !.left = Tick(@), !.term = Tick(@)]]
    /\ media' = [m \in Media |->
                    [media[m] EXCEPT !.left = Tick(@),
                                     !.ttl = IF media[m].status = "pending" THEN Tick(@) ELSE @]]
    /\ expiry' = NoRun /\ purge' = NoRun
    /\ rq' = [r \in Reqs |-> Idle]
    /\ UNCHANGED <<link, asks>>

Edit(r)    == (\E c \in Cases : EditBegin(r, c)) \/ EditWrite(r) \/ EditTimeline(r)
Resolve(r) == (\E c \in Cases : ResolveBegin(r, c)) \/ MarkResolved(r)
              \/ StampAttachedMediaExpiry(r)
Attach(r)  == (\E c \in Cases, m \in Media : AttachBegin(r, c, m))
              \/ AttachLookup(r) \/ AttachCount(r) \/ AttachCommit(r)
Freeze(r)  == (\E c \in Cases : FreezeBegin(r, c)) \/ FreezeCase(r) \/ FreezeMedia(r)
RequestUnfreeze(r) ==
    \/ \E c \in Cases, who \in Operators : RequestUnfreezeBegin(r, c, who)
    \/ RequestUnfreezeCheck(r) \/ InsertUnfreezeRequest(r)
ApproveUnfreeze(r) ==
    \/ \E c \in Cases, who \in Operators : ApproveUnfreezeBegin(r, c, who)
    \/ ApproveUnfreezeCheck(r) \/ ApproveUnfreezeRequest(r)
    \/ UnfreezeCase(r) \/ UnfreezeMedia(r)

Handler(r) == Edit(r) \/ Resolve(r) \/ Attach(r) \/ Freeze(r)
              \/ RequestUnfreeze(r) \/ ApproveUnfreeze(r)

Jobs == \/ ExpiryStart \/ ExpirySelect \/ (\E m \in Media : Shred(m)) \/ ExpiryDies
        \/ PurgeStart \/ PurgeSelect \/ (\E c \in Cases : PurgeReport(c)) \/ PurgeDies

Next ==
    \/ \E c \in Cases : SubmitReport(c)
    \/ \E m \in Media : Upload(m) \/ BlockMedia(m) \/ UnblockMedia(m)
    \/ \E r \in Reqs : Handler(r) \/ Drop(r)
    \/ Jobs
    \/ NextDay

Spec == Init /\ [][Next]_vars

----------------------------------------------------------------------------
(* Safety                                                                  *)

\* The cases resolved RETENTION_DAYS ago or more, whatever their expiry says.
Over == {c \in Cases : report[c].term = 0}

\* Decisions 25/131: the job purges no case before it has been resolved for the
\* whole retention, although thaws rewrite the expiry from a status read
\* earlier and the job works from a batch selected earlier.
PurgedOnlyAfterRetention == \A c \in Cases : report[c].purged => c \in Over

\* Nothing an edit or an attach writes late brings content back into a purged
\* case: the sensitive columns and every timeline payload stay NULL.
PurgedIsBlank ==
    \A c \in Cases : report[c].purged => report[c].content = "wiped" /\ report[c].trail = {}

\* The request to unfreeze that handler r read as pending, and is thawing with.
AskHeld(r) == asks[rq[r].ask]

\* Decision 141d: whoever thaws a case holds a request to unfreeze that very case which somebody
\* else made and which is approved, by another than made it, however approvals overlap
\* (approveUnfreeze).  Which freeze it was made under is another matter: of two that were
\* pending at once the second one outlives the thaw and may serve the next freeze.
ThawByTwo ==
    [][\A c \in Cases : report[c].frozen /\ ~report'[c].frozen =>
          \E r \in Reqs :
             /\ At(r, "thaw", "unfreeze") /\ Case(r) = c
             /\ AskHeld(r).status = "approved" /\ AskHeld(r).case = c
             /\ AskHeld(r).by # rq[r].who
             /\ AskHeld(r).approvedBy \notin {None, AskHeld(r).by}]_vars

\* Evidence of a resolved case that no stamp is about to put on the clock.
Unclocked ==
    {x \in link : /\ report[x[1]].status = "resolved"
                  /\ media[x[2]].status # "deleted" /\ media[x[2]].left = Never
                  /\ \A r \in Reqs : At(r, "resolve", "stamp") => Case(r) # x[1]}

\* Decision 131: evidence of a resolved case is on its clock, with three exceptions: it
\* was attached past the resolution, the resolution died between its two statements, or a
\* thaw that had read the case open took the clock away.
ClockKept ==
    [][\A x \in Unclocked' \ Unclocked :
          \/ x \notin link
          \/ \E r \in Reqs : At(r, "resolve", "stamp") /\ Case(r) = x[1] /\ rq'[r] = Idle
          \/ \E r \in Reqs : /\ At(r, "thaw", "media") /\ Case(r) = x[1]
                             /\ rq[r].status = "open"]_vars

Life == [none |-> "absent", pending |-> "loose", available |-> "kept", blocked |-> "kept",
         deleted |-> "gone"]

Custody == INSTANCE EvidenceCustody WITH
    life    <- [m \in Media |-> Life[media[m].status]],
    holders <- [m \in Media |-> {c \in Cases : <<c, m>> \in link}],
    over    <- Over,
    late    <- {m \in Media : media[m].status \notin {"none", "pending"} /\ media[m].ttl = 0
                              /\ \E c \in Cases : <<c, m>> \in link}

\* Two owners presenting one upload, an attach racing the orphan job, freezes
\* and thaws included: a medium enters one case once, is destroyed only loose
\* or with a case whose retention is over (or if it entered past its own
\* time), and never comes back.
KeepsCustody == Custody!Spec

----------------------------------------------------------------------------
(* Liveness                                                                *)

\* The days pass, the hourly jobs start, select and work, and not every run
\* dies before it reaches a given row; a request takes its next step or ends.
RetentionFairness ==
    /\ WF_vars(NextDay)
    /\ WF_vars(ExpiryStart) /\ SF_vars(ExpirySelect) /\ \A m \in Media : SF_vars(Shred(m))
    /\ WF_vars(PurgeStart) /\ SF_vars(PurgeSelect) /\ \A c \in Cases : SF_vars(PurgeReport(c))
    /\ \A r \in Reqs : WF_vars(rq[r] # Idle /\ (Handler(r) \/ Drop(r)))

LiveSpec == Spec /\ RetentionFairness

\* Decision 136: an upload no attach consumes does not stay for ever, whatever
\* moves and crashes meanwhile.
OrphansGo == \A m \in Media : media[m].status = "pending" ~> media[m].status # "pending"

\* Decisions 25/131/141: a resolved case on the clock is purged at last, unless
\* an authority freezes it or a thaw that read it open takes the clock away.
ResolvedCasesGo ==
    \A c \in Cases : report[c].status = "resolved" /\ ~report[c].frozen /\ report[c].left # Never
                        ~> report[c].purged \/ report[c].frozen \/ report[c].left = Never

----------------------------------------------------------------------------
(* What comments and documents say, and the code does not do               *)

\* "a case in an authority's hands never expires" (findExpired), which holds
\* of the selection: the row is destroyed by id, some awaits later.
FrozenNeverShredded ==
    [][\A m \in Media : media[m].frozen /\ media'[m].status = "deleted"
                           => media[m].status = "deleted"]_vars

\* "a resolved case gets a fresh 90 days from now" (approveUnfreeze): not one
\* resolved between the read and the write, whose expiry becomes NULL.
ResolvedHasClock ==
    (\A r \in Reqs : rq[r] = Idle) =>
        \A c \in Cases : report[c].status = "resolved" => report[c].left # Never

=============================================================================
