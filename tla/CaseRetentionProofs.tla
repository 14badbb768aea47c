------------------------ MODULE CaseRetentionProofs -------------------------
(***************************************************************************)
(* Retention of cases and their evidence, for any number of cases, media,  *)
(* operators, requests and days.                                           *)
(*                                                                         *)
(* The jobs work off batches selected earlier and requests write rows read *)
(* earlier, so that the invariant is about what they hold: a case in the hand *)
(* of a request is not over, one in a batch of the purge is, and evidence in a *)
(* batch of the expiry was and still is to be destroyed.                   *)
(***************************************************************************)
EXTENDS CaseRetention, TLAPS

\* A row of tb_report: an open case has no clock, a resolved one expires no sooner than its
\* retention is over, and a purged one is blank and over.
RowSound(row) ==
    /\ row \in Report
    /\ row.status \in {"none", "open"} => row.left = Never /\ row.term = Never
    /\ row.status = "resolved" => row.term # Never /\ (row.left = Never \/ row.left >= row.term)
    /\ row.purged => row.term = 0 /\ row.content = "wiped" /\ row.trail = {}

\* A request: what it will write fits what has become of the rows it has read.
Sound(q) ==
    /\ q.op # "idle" => q.case \in Cases
    /\ q.op = "attach" => q.medium \in Media
    /\ q.op \in {"ask", "thaw"} => q.who \in Operators
    /\ q.op \in {"edit", "attach"} => report[q.case].term # 0
    /\ q.op = "resolve" /\ q.pc = "stamp" => report[q.case].status = "resolved"
    /\ q.op = "thaw" =>
          /\ q.status \in {"open", "resolved"}
          /\ q.status = "resolved" => report[q.case].status = "resolved"
          /\ q.pc = "media" => q.left = IF q.status = "resolved" THEN Retention ELSE Never
          /\ q.pc \in {"approve", "unfreeze"} =>
                q.ask \in AskIds /\ asks[q.ask].case = q.case /\ asks[q.ask].status # "none"
          /\ q.pc \in {"approve", "unfreeze"} => asks[q.ask].by # q.who
          /\ q.pc = "unfreeze" => /\ asks[q.ask].status = "approved"
                                  /\ asks[q.ask].approvedBy \notin {None, asks[q.ask].by}

\* Evidence is in one case, and expires no sooner than the retention of that case.
EvidenceSound ==
    /\ \A m \in Media : media[m].status \in {"none", "pending"} =>
          media[m].left = Never /\ \A c \in Cases : <<c, m>> \notin link
    /\ \A c \in Cases, m \in Media : <<c, m>> \in link /\ media[m].left # Never =>
          report[c].term # Never /\ media[m].left >= report[c].term
    /\ \A c, d \in Cases, m \in Media : <<c, m>> \in link /\ <<d, m>> \in link => c = d

\* What a job holds in its batch was, and still is, to be destroyed.
BatchesSound ==
    /\ \A c \in purge.due : report[c].term = 0
    /\ \A m \in expiry.due :
          /\ media[m].status \notin {"none", "deleted"}
          /\ media[m].status = "pending" => media[m].ttl = 0
          /\ media[m].status # "pending" =>
                \/ \A c \in Cases : <<c, m>> \in link => report[c].term = 0
                \/ media[m].ttl = 0 /\ \E c \in Cases : <<c, m>> \in link

RetentionInv ==
    /\ TypeOK
    /\ \A c \in Cases : RowSound(report[c])
    /\ \A r \in Reqs : Sound(rq[r])
    /\ EvidenceSound
    /\ BatchesSound

LEMMA RetentionMeans == ASSUME RetentionInv PROVE TypeOK /\ PurgedIsBlank /\ PurgedOnlyAfterRetention
BY DEF RetentionInv, RowSound, PurgedIsBlank, PurgedOnlyAfterRetention, Over

LEMMA Constants ==
    /\ Retention \in Nat /\ Retention # 0 /\ OrphanTtl \in Nat /\ OrphanTtl # 0 /\ Never = -1
    /\ Never \in Days /\ Retention \in Days /\ 0 \in Days
    /\ \A d \in Days : d \in Int /\ Tick(d) \in Days
BY RetentionAssumption DEF Never, Days, Tick

LEMMA IdleSound == Idle \in Request /\ Sound(Idle) /\ Idle.op = "idle"
<1>1. Idle \in Request
  BY Constants DEF Idle, Request, CaseStatus
<1>2. Idle.op = "idle"
  BY DEF Idle
<1>3. QED
  BY <1>1, <1>2 DEF Sound

LEMMA RetentionStart == ASSUME Init PROVE RetentionInv
<1>1. /\ report = [c \in Cases |-> NoReport] /\ media = [m \in Media |-> NoMedium] /\ link = {}
      /\ asks = [k \in AskIds |-> NoAsk] /\ expiry = NoRun /\ purge = NoRun
      /\ rq = [r \in Reqs |-> Idle]
  BY DEF Init
<1>2. RowSound(NoReport)
  BY Constants DEF RowSound, NoReport, Report, CaseStatus, Content
<1>3. NoMedium \in Medium /\ NoMedium.left = Never
  BY Constants DEF NoMedium, Medium, MediaStatus
<1>4. NoAsk \in Ask
  BY DEF NoAsk, Ask
<1>5. NoRun \in Run(Media) /\ NoRun \in Run(Cases) /\ NoRun.due = {}
  BY DEF NoRun, Run
<1>6. TypeOK
  BY <1>1, <1>2, <1>3, <1>4, <1>5, IdleSound DEF TypeOK, RowSound
<1>7. EvidenceSound /\ BatchesSound
  BY <1>1, <1>3, <1>5 DEF EvidenceSound, BatchesSound
<1>8. QED
  BY <1>1, <1>2, <1>6, <1>7, IdleSound DEF RetentionInv

\* A request moves, and nothing else.
LEMMA Quietly ==
    ASSUME RetentionInv, NEW r \in Reqs, NEW q \in Request, Sound(q), rq' = [rq EXCEPT ![r] = q],
           UNCHANGED <<report, media, link, asks, expiry, purge>>
    PROVE  RetentionInv'
<1>1. TypeOK'
  BY DEF RetentionInv, TypeOK
<1>2. \A s \in Reqs : Sound(rq'[s])
  BY DEF RetentionInv, TypeOK
<1>3. ASSUME NEW s \in Reqs PROVE Sound(rq[s])'
  BY <1>2 DEF Sound
<1>4. \A c \in Cases : RowSound(report[c])'
  BY DEF RetentionInv, RowSound
<1>5. EvidenceSound' /\ BatchesSound'
  BY DEF RetentionInv, EvidenceSound, BatchesSound
<1>6. QED
  BY <1>1, <1>3, <1>4, <1>5 DEF RetentionInv

LEMMA DropKeeps == ASSUME RetentionInv, NEW r \in Reqs, Drop(r) PROVE RetentionInv'
<1>1. rq' = [rq EXCEPT ![r] = Idle] /\ UNCHANGED <<report, media, link, asks, expiry, purge>>
  BY DEF Drop, Finish
<1>2. QED
  BY <1>1, IdleSound, Quietly

LEMMA BeginsKeep ==
    ASSUME RetentionInv, NEW r \in Reqs,
           \/ \E c \in Cases : EditBegin(r, c) \/ ResolveBegin(r, c) \/ FreezeBegin(r, c)
           \/ \E c \in Cases, m \in Media : AttachBegin(r, c, m)
           \/ \E c \in Cases, who \in Operators : RequestUnfreezeBegin(r, c, who) \/ ApproveUnfreezeBegin(r, c, who)
    PROVE  RetentionInv'
<1>1. \A c \in Cases : report[c].status = "open" => report[c].term # 0
  BY Constants DEF RetentionInv, RowSound
<1>2. ASSUME NEW c \in Cases, EditBegin(r, c) PROVE RetentionInv'
  <2>1. PICK q : q = [Idle EXCEPT !.op = "edit", !.pc = "write", !.case = c]
    OBVIOUS
  <2>2. q \in Request /\ q.op = "edit" /\ q.case = c
    BY <2>1, IdleSound DEF Idle, Request, CaseStatus
  <2>3. Sound(q)
    BY <1>1, <1>2, <2>2 DEF Sound, EditBegin
  <2>4. rq' = [rq EXCEPT ![r] = q] /\ UNCHANGED <<report, media, link, asks, expiry, purge>>
    BY <1>2, <2>1 DEF EditBegin, Begin
  <2>5. QED
    BY <2>2, <2>3, <2>4, Quietly
<1>3. ASSUME NEW c \in Cases, ResolveBegin(r, c) PROVE RetentionInv'
  <2>1. PICK q : q = [Idle EXCEPT !.op = "resolve", !.pc = "mark", !.case = c]
    OBVIOUS
  <2>2. q \in Request /\ q.op = "resolve" /\ q.pc = "mark" /\ q.case = c
    BY <2>1, IdleSound DEF Idle, Request, CaseStatus
  <2>3. Sound(q)
    BY <2>2 DEF Sound
  <2>4. rq' = [rq EXCEPT ![r] = q] /\ UNCHANGED <<report, media, link, asks, expiry, purge>>
    BY <1>3, <2>1 DEF ResolveBegin, Begin
  <2>5. QED
    BY <2>2, <2>3, <2>4, Quietly
<1>4. ASSUME NEW c \in Cases, FreezeBegin(r, c) PROVE RetentionInv'
  <2>1. PICK q : q = [Idle EXCEPT !.op = "freeze", !.pc = "mark", !.case = c]
    OBVIOUS
  <2>2. q \in Request /\ q.op = "freeze" /\ q.case = c
    BY <2>1, IdleSound DEF Idle, Request, CaseStatus
  <2>3. Sound(q)
    BY <2>2 DEF Sound
  <2>4. rq' = [rq EXCEPT ![r] = q] /\ UNCHANGED <<report, media, link, asks, expiry, purge>>
    BY <1>4, <2>1 DEF FreezeBegin, Begin
  <2>5. QED
    BY <2>2, <2>3, <2>4, Quietly
<1>5. ASSUME NEW c \in Cases, NEW m \in Media, AttachBegin(r, c, m) PROVE RetentionInv'
  <2>1. PICK q : q = [Idle EXCEPT !.op = "attach", !.pc = "lookup", !.case = c, !.medium = m]
    OBVIOUS
  <2>2. q \in Request /\ q.op = "attach" /\ q.case = c /\ q.medium = m
    BY <2>1, IdleSound DEF Idle, Request, CaseStatus
  <2>3. Sound(q)
    BY <1>1, <1>5, <2>2 DEF Sound, AttachBegin
  <2>4. rq' = [rq EXCEPT ![r] = q] /\ UNCHANGED <<report, media, link, asks, expiry, purge>>
    BY <1>5, <2>1 DEF AttachBegin, Begin
  <2>5. QED
    BY <2>2, <2>3, <2>4, Quietly
<1>6. ASSUME NEW c \in Cases, NEW who \in Operators, RequestUnfreezeBegin(r, c, who)
      PROVE  RetentionInv'
  <2>1. PICK q : q = [Idle EXCEPT !.op = "ask", !.pc = "pending", !.case = c, !.who = who]
    OBVIOUS
  <2>2. q \in Request /\ q.op = "ask" /\ q.case = c /\ q.who = who
    BY <2>1, IdleSound DEF Idle, Request, CaseStatus
  <2>3. Sound(q)
    BY <2>2 DEF Sound
  <2>4. rq' = [rq EXCEPT ![r] = q] /\ UNCHANGED <<report, media, link, asks, expiry, purge>>
    BY <1>6, <2>1 DEF RequestUnfreezeBegin, Begin
  <2>5. QED
    BY <2>2, <2>3, <2>4, Quietly
<1>7. ASSUME NEW c \in Cases, NEW who \in Operators, ApproveUnfreezeBegin(r, c, who)
      PROVE  RetentionInv'
  <2>0. report[c].status \in CaseStatus /\ report[c].status \in {"open", "resolved"}
    BY <1>7 DEF RetentionInv, RowSound, Report, CaseStatus, ApproveUnfreezeBegin, Living
  <2>1. PICK q : q = [Idle EXCEPT !.op = "thaw", !.pc = "pending", !.case = c, !.who = who, !.status = report[c].status]
    OBVIOUS
  <2>2. /\ q \in Request /\ q.op = "thaw" /\ q.pc = "pending" /\ q.case = c /\ q.who = who
        /\ q.status = report[c].status
    BY <2>0, <2>1, IdleSound DEF Idle, Request
  <2>3. Sound(q)
    BY <2>0, <2>2 DEF Sound
  <2>4. rq' = [rq EXCEPT ![r] = q] /\ UNCHANGED <<report, media, link, asks, expiry, purge>>
    BY <1>7, <2>1 DEF ApproveUnfreezeBegin, Begin
  <2>5. QED
    BY <2>2, <2>3, <2>4, Quietly
<1>8. QED
  BY <1>2, <1>3, <1>4, <1>5, <1>6, <1>7

\* To the next await, with what was read in hand.
LEMMA ReadsKeep ==
    ASSUME RetentionInv, NEW r \in Reqs,
           AttachLookup(r) \/ AttachCount(r) \/ RequestUnfreezeCheck(r) \/ ApproveUnfreezeCheck(r)
    PROVE  RetentionInv'
<1>1. rq \in [Reqs -> Request] /\ rq[r] \in Request /\ Sound(rq[r])
  BY DEF RetentionInv, TypeOK
<1>2. UNCHANGED <<report, media, link, asks, expiry, purge>>
  BY DEF AttachLookup, AttachCount, RequestUnfreezeCheck, ApproveUnfreezeCheck
<1>3. ASSUME NEW pc \in {"count", "commit", "insert"}, rq' = [rq EXCEPT ![r].pc = pc],
             rq[r].op \in {"attach", "ask"}
      PROVE  RetentionInv'
  <2>1. PICK q : q = [rq[r] EXCEPT !.pc = pc]
    OBVIOUS
  <2>2. /\ q \in Request /\ q.op = rq[r].op /\ q.case = rq[r].case /\ q.medium = rq[r].medium
        /\ q.who = rq[r].who
    BY <1>1, <2>1 DEF Request
  <2>3. Sound(q)
    BY <1>1, <1>3, <2>2 DEF Sound
  <2>4. rq' = [rq EXCEPT ![r] = q]
    BY <1>3, <2>1
  <2>5. QED
    BY <1>2, <2>2, <2>3, <2>4, Quietly
<1>4. CASE AttachLookup(r) \/ AttachCount(r) \/ RequestUnfreezeCheck(r)
  BY <1>3, <1>4 DEF AttachLookup, AttachCount, RequestUnfreezeCheck, At, Goto
<1>5. CASE ApproveUnfreezeCheck(r)
  <2>1. PICK k \in PendingAsks(Case(r)) : asks[k].by # rq[r].who /\ rq' = [rq EXCEPT ![r].pc = "approve", ![r].ask = k]
    BY <1>5 DEF ApproveUnfreezeCheck
  <2>2. k \in AskIds /\ asks[k].status = "pending" /\ asks[k].case = rq[r].case
    BY <2>1 DEF PendingAsks, Case
  <2>3. PICK q : q = [rq[r] EXCEPT !.pc = "approve", !.ask = k]
    OBVIOUS
  <2>4. /\ q \in Request /\ q.op = rq[r].op /\ q.case = rq[r].case /\ q.who = rq[r].who
        /\ q.ask = k
        /\ q.pc = "approve" /\ q.status = rq[r].status
    BY <1>1, <2>2, <2>3 DEF Request
  <2>5. Sound(q)
    BY <1>1, <1>5, <2>1, <2>2, <2>4 DEF Sound, ApproveUnfreezeCheck, At
  <2>6. rq' = [rq EXCEPT ![r] = q]
    BY <1>1, <2>1, <2>3
  <2>7. QED
    BY <1>2, <2>4, <2>5, <2>6, Quietly
<1>6. QED
  BY <1>4, <1>5

\* What may happen to a case under the requests' and the jobs' eyes within a day.
Holds(c) ==
    /\ report'[c].term = report[c].term \/ (report[c].term = Never /\ report'[c].term = Retention)
    /\ report[c].status = "resolved" => report'[c].status = "resolved"

LEMMA RowMoves ==
    ASSUME RetentionInv, NEW c \in Cases, NEW row, RowSound(row),
           report' = [report EXCEPT ![c] = row],
           row.term = report[c].term \/ (report[c].term = Never /\ row.term = Retention),
           report[c].status = "resolved" => row.status = "resolved"
    PROVE  /\ report' \in [Cases -> Report] /\ report'[c] = row
           /\ \A d \in Cases : RowSound(report'[d]) /\ Holds(d)
<1>1. row \in Report /\ report \in [Cases -> Report]
  BY DEF RowSound, RetentionInv, TypeOK
<1>2. report' \in [Cases -> Report] /\ report'[c] = row /\ \A d \in Cases : d # c => report'[d] = report[d]
  BY <1>1
<1>3. QED
  BY <1>2 DEF RetentionInv, Holds

\* A request in flight outlives it.
LEMMA StaysSound ==
    ASSUME NEW q, Sound(q), \A c \in Cases : Holds(c), UNCHANGED asks PROVE Sound(q)'
<1>1. q.op # "idle" => Holds(q.case)
  BY DEF Sound
<1>2. CASE q.op = "idle"
  BY <1>2 DEF Sound
<1>3. CASE q.op # "idle"
  BY <1>1, <1>3, Constants DEF Sound, Holds
<1>4. QED
  BY <1>2, <1>3

LEMMA CasesMove ==
    ASSUME RetentionInv, report' \in [Cases -> Report],
           \A c \in Cases : RowSound(report'[c]) /\ Holds(c),
           UNCHANGED <<media, link, expiry>>, asks' \in [AskIds -> Ask],
           purge' \in Run(Cases), purge'.due \subseteq purge.due,
           rq' \in [Reqs -> Request], \A s \in Reqs : Sound(rq[s])'
    PROVE  RetentionInv'
<1>1. TypeOK'
  BY DEF RetentionInv, TypeOK
<1>2. \A c \in Cases : RowSound(report[c])'
  BY DEF RowSound
<1>3. \A c \in Cases : /\ report[c].term = 0 => report'[c].term = 0
                       /\ report[c].term # Never => report'[c].term = report[c].term
  BY Constants DEF Holds
<1>4. EvidenceSound'
  BY <1>3 DEF RetentionInv, EvidenceSound
<1>5. BatchesSound'
  <2>1. purge.due \subseteq Cases /\ \A c \in purge'.due : report[c].term = 0 /\ c \in Cases
    BY DEF RetentionInv, TypeOK, Run, BatchesSound
  <2>2. \A c \in purge'.due : report'[c].term = 0
    BY <1>3, <2>1
  <2>3. QED
    BY <1>3, <2>2 DEF RetentionInv, BatchesSound
<1>6. QED
  BY <1>1, <1>2, <1>4, <1>5 DEF RetentionInv

\* A handler writes the row of its case and moves on.
LEMMA CaseWritten ==
    ASSUME RetentionInv, NEW c \in Cases, NEW row, RowSound(row),
           report' = [report EXCEPT ![c] = row],
           row.term = report[c].term \/ (report[c].term = Never /\ row.term = Retention),
           report[c].status = "resolved" => row.status = "resolved",
           UNCHANGED <<media, link, asks, expiry, purge>>,
           NEW r \in Reqs, NEW q \in Request, Sound(q)', rq' = [rq EXCEPT ![r] = q]
    PROVE  RetentionInv'
<1>1. report' \in [Cases -> Report] /\ \A d \in Cases : RowSound(report'[d]) /\ Holds(d)
  BY RowMoves
<1>2. rq' \in [Reqs -> Request] /\ rq'[r] = q /\ \A s \in Reqs : s # r => rq'[s] = rq[s]
  BY DEF RetentionInv, TypeOK
<1>3. ASSUME NEW s \in Reqs PROVE Sound(rq[s])'
  <2>1. CASE s = r
    BY <1>2, <2>1 DEF Sound
  <2>2. CASE s # r
    <3>1. PICK p : p = rq[s] /\ Sound(p)
      BY DEF RetentionInv
    <3>2. Sound(p)'
      BY <1>1, <3>1, StaysSound
    <3>3. rq'[s] = p
      BY <1>2, <2>2, <3>1
    <3>4. QED
      BY <3>2, <3>3 DEF Sound
  <2>3. QED
    BY <2>1, <2>2
<1>4. asks' \in [AskIds -> Ask] /\ purge' \in Run(Cases) /\ purge'.due \subseteq purge.due
  BY DEF RetentionInv, TypeOK
<1>5. QED
  BY <1>1, <1>2, <1>3, <1>4, CasesMove

LEMMA CaseInHand ==
    ASSUME RetentionInv, NEW r \in Reqs, rq[r].op # "idle"
    PROVE  /\ rq[r].case \in Cases /\ rq[r] \in Request /\ Sound(rq[r])
           /\ report[rq[r].case] \in Report /\ RowSound(report[rq[r].case])
BY DEF RetentionInv, TypeOK, Sound

LEMMA EditsKeep == ASSUME RetentionInv, NEW r \in Reqs, EditWrite(r) \/ EditTimeline(r) PROVE RetentionInv'
<1>1. rq[r].op = "edit" /\ rq[r].op # "idle"
  BY DEF EditWrite, EditTimeline, At
<1>2. PICK c \in Cases : c = rq[r].case /\ report[c] \in Report /\ RowSound(report[c])
  BY <1>1, CaseInHand
<1>3. rq[r] \in Request /\ Sound(rq[r]) /\ report[c].term # 0 /\ ~report[c].purged
  BY <1>1, <1>2, CaseInHand DEF Sound, RowSound
<1>4. CASE EditWrite(r)
  <2>1. PICK row : row = [report[c] EXCEPT !.content = "edited"]
    OBVIOUS
  <2>2. /\ row \in Report /\ row.status = report[c].status /\ row.left = report[c].left
        /\ row.term = report[c].term /\ row.purged = report[c].purged
    BY <1>2, <2>1 DEF Report, Content
  <2>3. RowSound(row)
    BY <1>2, <1>3, <2>2 DEF RowSound
  <2>4. PICK q : q = [rq[r] EXCEPT !.pc = "timeline"]
    OBVIOUS
  <2>5. q \in Request /\ q.op = "edit" /\ q.case = c
    BY <1>1, <1>2, <1>3, <2>4 DEF Request
  <2>6. /\ report' = [report EXCEPT ![c] = row] /\ rq' = [rq EXCEPT ![r] = q]
        /\ UNCHANGED <<media, link, asks, expiry, purge>>
    BY <1>2, <1>4, <2>1, <2>4 DEF EditWrite, Case, Goto
  <2>7. report'[c].term # 0
    BY <1>3, <2>2, <2>6 DEF RetentionInv, TypeOK
  <2>8. Sound(q)'
    BY <2>5, <2>7 DEF Sound
  <2>9. QED
    BY <1>2, <2>2, <2>3, <2>5, <2>6, <2>8, CaseWritten
<1>5. CASE EditTimeline(r)
  <2>1. PICK row : row = [report[c] EXCEPT !.trail = @ \cup {"edited"}]
    OBVIOUS
  <2>2. /\ row \in Report /\ row.status = report[c].status /\ row.left = report[c].left
        /\ row.term = report[c].term /\ row.purged = report[c].purged
    BY <1>2, <2>1 DEF Report, Payloads
  <2>3. RowSound(row)
    BY <1>2, <1>3, <2>2 DEF RowSound
  <2>4. /\ report' = [report EXCEPT ![c] = row] /\ rq' = [rq EXCEPT ![r] = Idle]
        /\ UNCHANGED <<media, link, asks, expiry, purge>>
    BY <1>2, <1>5, <2>1 DEF EditTimeline, Case, Finish
  <2>5. Idle \in Request /\ Sound(Idle)'
    BY IdleSound DEF Sound
  <2>6. QED
    BY <1>2, <2>2, <2>3, <2>4, <2>5, CaseWritten
<1>6. QED
  BY <1>4, <1>5

LEMMA MarkKeeps == ASSUME RetentionInv, NEW r \in Reqs, MarkResolved(r) PROVE RetentionInv'
<1>1. rq[r].op = "resolve" /\ rq[r].op # "idle"
  BY DEF MarkResolved, At
<1>2. PICK c \in Cases : c = rq[r].case /\ report[c] \in Report /\ RowSound(report[c])
  BY <1>1, CaseInHand
<1>3. PICK row : row = [report[c] EXCEPT !.status = "resolved", !.left = Retention, !.term = Retention]
  OBVIOUS
<1>4. /\ row \in Report /\ row.status = "resolved" /\ row.left = Retention
      /\ row.term = Retention /\ row.purged = report[c].purged
  BY <1>2, <1>3, Constants DEF Report, CaseStatus
<1>5. report[c].status = "open" /\ report[c].term = Never /\ ~report[c].purged
  BY <1>2, Constants DEF MarkResolved, Case, RowSound
<1>6. RowSound(row)
  BY <1>4, <1>5, Constants DEF RowSound
<1>7. PICK q : q = [rq[r] EXCEPT !.pc = "stamp"]
  OBVIOUS
<1>8. q \in Request /\ q.op = "resolve" /\ q.case = c
  BY <1>1, <1>2, <1>7, CaseInHand DEF Request
<1>9. /\ report' = [report EXCEPT ![c] = row] /\ rq' = [rq EXCEPT ![r] = q]
      /\ UNCHANGED <<media, link, asks, expiry, purge>>
  BY <1>2, <1>3, <1>7 DEF MarkResolved, Case, Goto
<1>10. report'[c].status = "resolved"
  BY <1>4, <1>9 DEF RetentionInv, TypeOK
<1>11. Sound(q)'
  BY <1>8, <1>10 DEF Sound
<1>12. QED
  BY <1>2, <1>4, <1>5, <1>6, <1>8, <1>9, <1>11, CaseWritten

LEMMA FreezeKeeps == ASSUME RetentionInv, NEW r \in Reqs, FreezeCase(r) PROVE RetentionInv'
<1>1. rq[r].op = "freeze" /\ rq[r].op # "idle"
  BY DEF FreezeCase, At
<1>2. PICK c \in Cases : c = rq[r].case /\ report[c] \in Report /\ RowSound(report[c])
  BY <1>1, CaseInHand
<1>3. PICK row : row = [report[c] EXCEPT !.frozen = TRUE]
  OBVIOUS
<1>4. /\ row \in Report /\ row.status = report[c].status /\ row.left = report[c].left
      /\ row.term = report[c].term /\ row.purged = report[c].purged
      /\ row.content = report[c].content /\ row.trail = report[c].trail
  BY <1>2, <1>3 DEF Report
<1>5. RowSound(row)
  BY <1>2, <1>4 DEF RowSound
<1>6. PICK q : q = [rq[r] EXCEPT !.pc = "media"]
  OBVIOUS
<1>7. q \in Request /\ q.op = "freeze" /\ q.case = c
  BY <1>1, <1>2, <1>6, CaseInHand DEF Request
<1>8. /\ report' = [report EXCEPT ![c] = row] /\ rq' = [rq EXCEPT ![r] = q]
      /\ UNCHANGED <<media, link, asks, expiry, purge>>
  BY <1>2, <1>3, <1>6 DEF FreezeCase, Case, Goto
<1>9. Sound(q)'
  BY <1>7 DEF Sound
<1>10. QED
  BY <1>2, <1>4, <1>5, <1>7, <1>8, <1>9, CaseWritten

LEMMA ThawKeeps == ASSUME RetentionInv, NEW r \in Reqs, UnfreezeCase(r) PROVE RetentionInv'
<1>1. rq[r].op = "thaw" /\ rq[r].op # "idle" /\ rq[r].pc = "unfreeze"
  BY DEF UnfreezeCase, At
<1>2. PICK c \in Cases : c = rq[r].case /\ report[c] \in Report /\ RowSound(report[c])
  BY <1>1, CaseInHand
<1>3. PICK left : left = IF rq[r].status = "resolved" THEN Retention ELSE Never
  OBVIOUS
<1>4. PICK row : row = [report[c] EXCEPT !.frozen = FALSE, !.left = left]
  OBVIOUS
<1>5. left \in Days /\ (rq[r].status = "resolved" => report[c].status = "resolved")
  BY <1>1, <1>2, <1>3, Constants, CaseInHand DEF Sound
<1>6. /\ row \in Report /\ row.status = report[c].status /\ row.left = left
      /\ row.term = report[c].term /\ row.purged = report[c].purged
      /\ row.content = report[c].content /\ row.trail = report[c].trail
  BY <1>2, <1>4, <1>5 DEF Report
<1>7. RowSound(row)
  <2>1. report[c].term \in Days /\ (report[c].term # Never => report[c].term <= Retention)
    BY <1>2, Constants DEF Report, Days
  <2>2. row.status \in {"none", "open"} => row.left = Never /\ row.term = Never
    BY <1>2, <1>3, <1>5, <1>6 DEF RowSound
  <2>3. row.status = "resolved" => row.term # Never /\ (row.left = Never \/ row.left >= row.term)
    BY <1>2, <1>3, <1>6, <2>1, Constants DEF RowSound
  <2>4. QED
    BY <1>2, <1>6, <2>2, <2>3 DEF RowSound
<1>8. PICK q : q = [rq[r] EXCEPT !.pc = "media", !.left = left]
  OBVIOUS
<1>9. /\ q \in Request /\ q.op = "thaw" /\ q.pc = "media" /\ q.case = c /\ q.left = left
      /\ q.status = rq[r].status /\ q.who = rq[r].who
  BY <1>1, <1>2, <1>5, <1>8, CaseInHand DEF Request
<1>10. /\ report' = [report EXCEPT ![c] = row] /\ rq' = [rq EXCEPT ![r] = q]
       /\ UNCHANGED <<media, link, asks, expiry, purge>>
  <2>1. /\ report' = [report EXCEPT ![c].frozen = FALSE, ![c].left = left]
        /\ UNCHANGED <<media, link, asks, expiry, purge>>
    BY <1>2, <1>3 DEF UnfreezeCase, Case
  <2>2. rq' = [rq EXCEPT ![r].pc = "media", ![r].left = left]
    BY <1>3 DEF UnfreezeCase
  <2>3. report \in [Cases -> Report] /\ rq \in [Reqs -> Request]
    BY DEF RetentionInv, TypeOK
  <2>4. QED
    BY <1>4, <1>8, <2>1, <2>2, <2>3
<1>11. report'[c].status = report[c].status
  BY <1>6, <1>10 DEF RetentionInv, TypeOK
<1>12. /\ q.who \in Operators /\ q.status \in {"open", "resolved"}
       /\ q.left = IF q.status = "resolved" THEN Retention ELSE Never
  BY <1>1, <1>3, <1>9, CaseInHand DEF Sound
<1>13. Sound(q)'
  BY <1>5, <1>9, <1>11, <1>12 DEF Sound
<1>14. QED
  BY <1>2, <1>6, <1>7, <1>9, <1>10, <1>13, CaseWritten

LEMMA SubmitKeeps == ASSUME RetentionInv, NEW c \in Cases, SubmitReport(c) PROVE RetentionInv'
<1>1. /\ report[c] \in Report /\ RowSound(report[c]) /\ report[c].status = "none"
      /\ UNCHANGED <<media, link, asks, expiry, purge, rq>>
  BY DEF RetentionInv, TypeOK, SubmitReport
<1>2. PICK row : row = [report[c] EXCEPT !.status = "open", !.content = "text"]
  OBVIOUS
<1>3. /\ row \in Report /\ row.status = "open" /\ row.left = report[c].left
      /\ row.term = report[c].term /\ row.purged = report[c].purged
  BY <1>1, <1>2 DEF Report, CaseStatus, Content
<1>4. RowSound(row)
  BY <1>1, <1>3, Constants DEF RowSound
<1>5. report' = [report EXCEPT ![c] = row]
  BY <1>2 DEF SubmitReport, RetentionInv, TypeOK
<1>6. report' \in [Cases -> Report] /\ \A d \in Cases : RowSound(report'[d]) /\ Holds(d)
  BY <1>1, <1>3, <1>4, <1>5, RowMoves
<1>7. ASSUME NEW s \in Reqs PROVE Sound(rq[s])'
  <2>1. PICK p : p = rq[s] /\ Sound(p)
    BY DEF RetentionInv
  <2>2. Sound(p)'
    BY <1>1, <1>6, <2>1, StaysSound
  <2>3. QED
    BY <1>1, <2>1, <2>2 DEF Sound
<1>8. /\ asks' \in [AskIds -> Ask] /\ purge' \in Run(Cases) /\ purge'.due \subseteq purge.due
      /\ rq' \in [Reqs -> Request]
  BY <1>1 DEF RetentionInv, TypeOK
<1>9. QED
  BY <1>1, <1>6, <1>7, <1>8, CasesMove

LEMMA RestIs ==
    ASSUME NEW S, NEW run \in Run(S), NEW x
    PROVE  /\ Rest(run, x) \in Run(S) /\ Rest(run, x).due \subseteq run.due
           /\ x \notin Rest(run, x).due
<1>1. [run EXCEPT !.due = @ \ {x}] \in Run(S) /\ [run EXCEPT !.due = @ \ {x}].due = run.due \ {x}
  BY DEF Run
<1>2. /\ [NoRun EXCEPT !.pc = "select"] \in Run(S) /\ [NoRun EXCEPT !.pc = "select"].due = {}
      /\ NoRun \in Run(S) /\ NoRun.due = {}
  BY DEF Run, NoRun
<1>3. QED
  BY <1>1, <1>2 DEF Rest

LEMMA PurgeKeeps == ASSUME RetentionInv, NEW c \in Cases, PurgeReport(c) PROVE RetentionInv'
<1>1. /\ report[c] \in Report /\ RowSound(report[c]) /\ report[c].term = 0 /\ purge \in Run(Cases)
      /\ purge' = Rest(purge, c) /\ UNCHANGED <<media, link, asks, expiry, rq>>
  BY DEF RetentionInv, TypeOK, PurgeReport, BatchesSound
<1>2. PICK row : row = [report[c] EXCEPT !.purged = TRUE, !.content = "wiped", !.trail = {}]
  OBVIOUS
<1>3. /\ row \in Report /\ row.status = report[c].status /\ row.left = report[c].left
      /\ row.term = report[c].term /\ row.purged = TRUE /\ row.content = "wiped" /\ row.trail = {}
  BY <1>1, <1>2 DEF Report, Content
<1>4. RowSound(row)
  BY <1>1, <1>3 DEF RowSound
<1>5. report' = [report EXCEPT ![c] = row]
  BY <1>2 DEF PurgeReport, RetentionInv, TypeOK
<1>6. report' \in [Cases -> Report] /\ \A d \in Cases : RowSound(report'[d]) /\ Holds(d)
  BY <1>1, <1>3, <1>4, <1>5, RowMoves
<1>7. ASSUME NEW s \in Reqs PROVE Sound(rq[s])'
  <2>1. PICK p : p = rq[s] /\ Sound(p)
    BY DEF RetentionInv
  <2>2. Sound(p)'
    BY <1>1, <1>6, <2>1, StaysSound
  <2>3. QED
    BY <1>1, <2>1, <2>2 DEF Sound
<1>8. /\ asks' \in [AskIds -> Ask] /\ purge' \in Run(Cases) /\ purge'.due \subseteq purge.due
      /\ rq' \in [Reqs -> Request]
  BY <1>1, RestIs DEF RetentionInv, TypeOK
<1>9. QED
  BY <1>1, <1>6, <1>7, <1>8, CasesMove

LEMMA InsertKeeps == ASSUME RetentionInv, NEW r \in Reqs, InsertUnfreezeRequest(r) PROVE RetentionInv'
<1>1. /\ rq[r].op = "ask" /\ rq[r].op # "idle" /\ rq' = [rq EXCEPT ![r] = Idle]
      /\ UNCHANGED <<report, media, link, expiry, purge>>
  BY DEF InsertUnfreezeRequest, At, Finish
<1>2. rq[r].case \in Cases /\ rq[r].who \in Operators
  BY <1>1, CaseInHand DEF Sound
<1>3. PICK row : row = [status |-> "pending", case |-> rq[r].case, by |-> rq[r].who, approvedBy |-> None]
  OBVIOUS
<1>4. row \in Ask
  BY <1>2, <1>3 DEF Ask
<1>5. PICK k \in AskIds : asks[k].status = "none" /\ asks' = [asks EXCEPT ![k] = row]
  BY <1>3 DEF InsertUnfreezeRequest, Case
<1>6. asks' \in [AskIds -> Ask] /\ \A j \in AskIds : j # k => asks'[j] = asks[j]
  BY <1>4, <1>5 DEF RetentionInv, TypeOK
<1>7. ASSUME NEW p, Sound(p) PROVE Sound(p)'
  BY <1>1, <1>5, <1>6, <1>7 DEF Sound
<1>8. rq' \in [Reqs -> Request] /\ \A s \in Reqs : rq'[s] = Idle \/ rq'[s] = rq[s]
  BY <1>1, IdleSound DEF RetentionInv, TypeOK
<1>9. ASSUME NEW s \in Reqs PROVE Sound(rq[s])'
  <2>1. PICK p : p = rq'[s] /\ Sound(p)
    BY <1>8, IdleSound DEF RetentionInv
  <2>2. Sound(p)'
    BY <1>7, <2>1
  <2>3. QED
    BY <2>1, <2>2 DEF Sound
<1>10. \A c \in Cases : RowSound(report'[c]) /\ Holds(c)
  BY <1>1 DEF RetentionInv, Holds
<1>11. report' \in [Cases -> Report] /\ purge' \in Run(Cases) /\ purge'.due \subseteq purge.due
  BY <1>1 DEF RetentionInv, TypeOK
<1>12. QED
  BY <1>1, <1>6, <1>8, <1>9, <1>10, <1>11, CasesMove

LEMMA ApproveKeeps == ASSUME RetentionInv, NEW r \in Reqs, ApproveUnfreezeRequest(r) PROVE RetentionInv'
<1>1. /\ rq[r].op = "thaw" /\ rq[r].op # "idle" /\ rq[r].pc = "approve"
      /\ UNCHANGED <<report, media, link, expiry, purge>>
  BY DEF ApproveUnfreezeRequest, At
<1>2. rq[r] \in Request /\ Sound(rq[r]) /\ asks \in [AskIds -> Ask] /\ rq \in [Reqs -> Request]
  BY <1>1, CaseInHand DEF RetentionInv, TypeOK
<1>3. PICK k \in AskIds : /\ k = rq[r].ask /\ asks[k].case = rq[r].case /\ asks[k].status # "none"
                          /\ asks[k].by # rq[r].who
  BY <1>1, <1>2 DEF Sound
<1>4. rq[r].who \in Operators /\ rq[r].who # None
  BY <1>1, <1>2, RetentionAssumption DEF Sound
<1>5. PICK row : row = [asks[k] EXCEPT !.status = "approved", !.approvedBy = rq[r].who]
  OBVIOUS
<1>6. /\ row \in Ask /\ row.status = "approved" /\ row.approvedBy = rq[r].who
      /\ row.by = asks[k].by /\ row.case = asks[k].case
  BY <1>2, <1>4, <1>5 DEF Ask
<1>7. PICK q : q = [rq[r] EXCEPT !.pc = "unfreeze"]
  OBVIOUS
<1>8. /\ q \in Request /\ q.op = "thaw" /\ q.pc = "unfreeze" /\ q.case = rq[r].case
      /\ q.who = rq[r].who
      /\ q.ask = k /\ q.status = rq[r].status
  BY <1>1, <1>2, <1>3, <1>7 DEF Request
<1>9. asks' = [asks EXCEPT ![k] = row] /\ rq' = [rq EXCEPT ![r] = q]
  BY <1>2, <1>3, <1>5, <1>7 DEF ApproveUnfreezeRequest, Goto
<1>10. asks' \in [AskIds -> Ask] /\ asks'[k] = row /\ \A j \in AskIds : j # k => asks'[j] = asks[j]
  BY <1>2, <1>6, <1>9
<1>11. ASSUME NEW p, Sound(p) PROVE Sound(p)'
  <2>1. ASSUME p.op = "thaw", p.pc \in {"approve", "unfreeze"}
        PROVE  /\ asks'[p.ask].case = p.case /\ asks'[p.ask].status # "none"
               /\ asks'[p.ask].by # p.who
               /\ p.pc = "unfreeze" => /\ asks'[p.ask].status = "approved"
                                       /\ asks'[p.ask].approvedBy \notin {None, asks'[p.ask].by}
    <3>1. CASE p.ask = k
      BY <1>3, <1>4, <1>6, <1>10, <1>11, <2>1, <3>1 DEF Sound
    <3>2. CASE p.ask # k
      <4>1. p.ask \in AskIds /\ asks'[p.ask] = asks[p.ask]
        BY <1>10, <1>11, <2>1, <3>2 DEF Sound
      <4>2. QED
        BY <1>11, <2>1, <4>1 DEF Sound
    <3>3. QED
      BY <3>1, <3>2
  <2>2. QED
    BY <1>1, <1>11, <2>1 DEF Sound
<1>12. Sound(q)'
  BY <1>1, <1>2, <1>3, <1>4, <1>6, <1>8, <1>10 DEF Sound
<1>13. rq' \in [Reqs -> Request] /\ rq'[r] = q /\ \A s \in Reqs : s # r => rq'[s] = rq[s]
  BY <1>2, <1>8, <1>9
<1>14. ASSUME NEW s \in Reqs PROVE Sound(rq[s])'
  <2>1. CASE s = r
    BY <1>12, <1>13, <2>1 DEF Sound
  <2>2. CASE s # r
    <3>1. PICK p : p = rq[s] /\ Sound(p)
      BY DEF RetentionInv
    <3>2. Sound(p)' /\ rq'[s] = p
      BY <1>11, <1>13, <2>2, <3>1
    <3>3. QED
      BY <3>2 DEF Sound
  <2>3. QED
    BY <2>1, <2>2
<1>15. \A c \in Cases : RowSound(report'[c]) /\ Holds(c)
  BY <1>1 DEF RetentionInv, Holds
<1>16. report' \in [Cases -> Report] /\ purge' \in Run(Cases) /\ purge'.due \subseteq purge.due
  BY <1>1 DEF RetentionInv, TypeOK
<1>17. QED
  BY <1>1, <1>10, <1>13, <1>14, <1>15, <1>16, CasesMove

\* The requests when no row they have read moves.
LEMMA OthersStay ==
    ASSUME RetentionInv, UNCHANGED <<report, asks>>,
           UNCHANGED rq \/ \E r \in Reqs : rq' = [rq EXCEPT ![r] = Idle]
    PROVE  rq' \in [Reqs -> Request] /\ \A s \in Reqs : Sound(rq[s])'
<1>1. rq' \in [Reqs -> Request] /\ \A s \in Reqs : rq'[s] = Idle \/ rq'[s] = rq[s]
  BY IdleSound DEF RetentionInv, TypeOK
<1>2. ASSUME NEW s \in Reqs PROVE Sound(rq[s])'
  <2>1. PICK p : p = rq'[s] /\ Sound(p)
    BY <1>1, IdleSound DEF RetentionInv
  <2>2. QED
    BY <2>1 DEF Sound
<1>3. QED
  BY <1>1, <1>2

LEMMA EvidenceMoves ==
    ASSUME RetentionInv, UNCHANGED <<report, link, asks, purge>>,
           UNCHANGED rq \/ \E r \in Reqs : rq' = [rq EXCEPT ![r] = Idle],
           media' \in [Media -> Medium], expiry' \in Run(Media), expiry'.due \subseteq expiry.due,
           \A m \in Media :
              /\ media'[m].ttl = media[m].ttl
              /\ media'[m].status \in {"none", "pending"} =>
                    media'[m].left = media[m].left /\ media[m].status \in {"none", "pending"}
              /\ m \in expiry'.due => media'[m].status \notin {"none", "deleted"}
                                        /\ (media'[m].status = "pending" <=> media[m].status = "pending"),
           \A c \in Cases, m \in Media : <<c, m>> \in link /\ media'[m].left # Never =>
              report[c].term # Never /\ media'[m].left >= report[c].term
    PROVE  RetentionInv'
<1>1. rq' \in [Reqs -> Request] /\ \A s \in Reqs : Sound(rq[s])'
  BY OthersStay
<1>2. TypeOK'
  BY <1>1 DEF RetentionInv, TypeOK
<1>3. \A c \in Cases : RowSound(report[c])'
  BY DEF RetentionInv, RowSound
<1>4. EvidenceSound'
  BY DEF RetentionInv, EvidenceSound
<1>5. BatchesSound'
  <2>1. expiry'.due \subseteq Media
    BY DEF RetentionInv, TypeOK, Run
  <2>2. ASSUME NEW m \in expiry'.due
        PROVE  /\ media'[m].status \notin {"none", "deleted"}
               /\ media'[m].status = "pending" => media'[m].ttl = 0
               /\ media'[m].status # "pending" =>
                     \/ \A c \in Cases : <<c, m>> \in link => report[c].term = 0
                     \/ media'[m].ttl = 0 /\ \E c \in Cases : <<c, m>> \in link
    BY <2>1, <2>2 DEF RetentionInv, BatchesSound
  <2>3. QED
    BY <2>2 DEF RetentionInv, BatchesSound
<1>6. QED
  BY <1>1, <1>2, <1>3, <1>4, <1>5 DEF RetentionInv

LEMMA UploadsKeep ==
    ASSUME RetentionInv, NEW m \in Media, Upload(m) \/ BlockMedia(m) \/ UnblockMedia(m)
    PROVE  RetentionInv'
<1>1. /\ UNCHANGED <<report, link, asks, expiry, purge, rq>> /\ media \in [Media -> Medium]
      /\ expiry \in Run(Media)
  BY DEF Upload, BlockMedia, UnblockMedia, RetentionInv, TypeOK
<1>2. PICK status \in {"pending", "blocked", "available"} :
         /\ media' = [media EXCEPT ![m].status = status]
         /\ status = "pending" => media[m].status = "none"
         /\ status # "pending" => media[m].status \in {"available", "blocked"}
  BY DEF Upload, BlockMedia, UnblockMedia
<1>3. /\ media' \in [Media -> Medium] /\ \A n \in Media : n # m => media'[n] = media[n]
      /\ media'[m].status = status /\ media'[m].left = media[m].left
      /\ media'[m].ttl = media[m].ttl
  BY <1>1, <1>2 DEF Medium, MediaStatus
<1>4. expiry' \in Run(Media) /\ expiry'.due \subseteq expiry.due /\ expiry'.due \subseteq Media
      /\ \A n \in expiry.due : media[n].status \notin {"none", "deleted"}
  BY <1>1 DEF Run, RetentionInv, BatchesSound
<1>5. \A c \in Cases, n \in Media : <<c, n>> \in link /\ media'[n].left # Never =>
         report[c].term # Never /\ media'[n].left >= report[c].term
  BY <1>3 DEF RetentionInv, EvidenceSound
<1>6. \A n \in Media :
         /\ media'[n].ttl = media[n].ttl
         /\ media'[n].status \in {"none", "pending"} =>
               media'[n].left = media[n].left /\ media[n].status \in {"none", "pending"}
         /\ n \in expiry'.due => media'[n].status \notin {"none", "deleted"}
                                   /\ (media'[n].status = "pending" <=> media[n].status = "pending")
  BY <1>1, <1>2, <1>3, <1>4
<1>7. QED
  BY <1>1, <1>3, <1>4, <1>5, <1>6, EvidenceMoves

\* A handler writes the evidence of its case: only the expiry and the freeze of what is in it.
LEMMA EvidenceWritten ==
    ASSUME RetentionInv, NEW r \in Reqs, rq' = [rq EXCEPT ![r] = Idle], NEW c \in Cases,
           UNCHANGED <<report, link, asks, expiry, purge>>,
           NEW left \in Days, left # Never => report[c].term # Never /\ left >= report[c].term,
           media' \in [Media -> Medium],
           \A m \in Media : /\ media'[m].status = media[m].status /\ media'[m].ttl = media[m].ttl
                            /\ media'[m].left # media[m].left => m \in Evidence(c) /\ media'[m].left = left
    PROVE  RetentionInv'
<1>1. \A m \in Evidence(c) : <<c, m>> \in link
  BY DEF Evidence, Attached
<1>2. ASSUME NEW d \in Cases, NEW m \in Media, <<d, m>> \in link, media'[m].left # Never
      PROVE  report[d].term # Never /\ media'[m].left >= report[d].term
  <2>1. CASE media'[m].left = media[m].left
    BY <1>2, <2>1 DEF RetentionInv, EvidenceSound
  <2>2. CASE media'[m].left # media[m].left
    <3>1. <<c, m>> \in link /\ media'[m].left = left
      BY <1>1, <2>2
    <3>2. d = c
      BY <1>2, <3>1 DEF RetentionInv, EvidenceSound
    <3>3. QED
      BY <1>2, <3>1, <3>2
  <2>3. QED
    BY <2>1, <2>2
<1>3. expiry' \in Run(Media) /\ expiry'.due \subseteq expiry.due /\ expiry'.due \subseteq Media
      /\ \A n \in expiry.due : media[n].status \notin {"none", "deleted"}
  BY DEF Run, RetentionInv, TypeOK, BatchesSound
<1>4. \A m \in Media : media[m].status \in {"none", "pending"} => media'[m].left = media[m].left
  BY <1>1 DEF RetentionInv, EvidenceSound
<1>5. \A m \in Media :
         /\ media'[m].ttl = media[m].ttl
         /\ media'[m].status \in {"none", "pending"} =>
               media'[m].left = media[m].left /\ media[m].status \in {"none", "pending"}
         /\ m \in expiry'.due => media'[m].status \notin {"none", "deleted"}
                                   /\ (media'[m].status = "pending" <=> media[m].status = "pending")
  BY <1>3, <1>4
<1>6. QED
  BY <1>2, <1>3, <1>5, EvidenceMoves

LEMMA EvidenceWritesKeep ==
    ASSUME RetentionInv, NEW r \in Reqs,
           StampAttachedMediaExpiry(r) \/ FreezeMedia(r) \/ UnfreezeMedia(r)
    PROVE  RetentionInv'
<1>1. /\ rq[r].op # "idle" /\ rq' = [rq EXCEPT ![r] = Idle]
      /\ UNCHANGED <<report, link, asks, expiry, purge>>
      /\ media \in [Media -> Medium]
  BY DEF StampAttachedMediaExpiry, FreezeMedia, UnfreezeMedia, At, Finish, RetentionInv, TypeOK
<1>2. PICK c \in Cases : c = rq[r].case /\ report[c] \in Report /\ RowSound(report[c])
  BY <1>1, CaseInHand
<1>3. report[c].status = "resolved" => report[c].term # Never /\ report[c].term <= Retention
  BY <1>2, Constants DEF RowSound, Report, Days
<1>4. CASE StampAttachedMediaExpiry(r)
  <2>1. report[c].term # Never /\ Retention >= report[c].term
    <3>1. report[c].status = "resolved"
      BY <1>1, <1>2, <1>4, CaseInHand DEF StampAttachedMediaExpiry, At, Sound
    <3>2. report[c].term \in Days
      BY <1>2 DEF Report
    <3>3. QED
      BY <1>3, <3>1, <3>2, Constants
  <2>2. ASSUME NEW m \in Media
        PROVE  /\ media'[m] \in Medium /\ media'[m].status = media[m].status /\ media'[m].ttl = media[m].ttl
               /\ media'[m].left # media[m].left => m \in Evidence(c) /\ media'[m].left = Retention
    <3>1. media'[m] = IF m \in Evidence(c) THEN [media[m] EXCEPT !.left = Retention] ELSE media[m]
      BY <1>2, <1>4 DEF StampAttachedMediaExpiry, Case
    <3>2. QED
      BY <1>1, <3>1, Constants DEF Medium
  <2>3. media' \in [Media -> Medium]
    BY <1>4, <2>2 DEF StampAttachedMediaExpiry
  <2>4. QED
    BY <1>1, <2>1, <2>2, <2>3, Constants, EvidenceWritten
<1>5. CASE FreezeMedia(r)
  <2>1. ASSUME NEW m \in Media
        PROVE  /\ media'[m] \in Medium /\ media'[m].status = media[m].status /\ media'[m].ttl = media[m].ttl
               /\ media'[m].left = media[m].left
    <3>1. media'[m] = IF m \in Evidence(c) THEN [media[m] EXCEPT !.frozen = TRUE] ELSE media[m]
      BY <1>2, <1>5 DEF FreezeMedia, Case
    <3>2. QED
      BY <1>1, <3>1 DEF Medium
  <2>2. media' \in [Media -> Medium]
    BY <1>5, <2>1 DEF FreezeMedia
  <2>3. QED
    BY <1>1, <2>1, <2>2, Constants, EvidenceWritten
<1>6. CASE UnfreezeMedia(r)
  <2>1. PICK left \in Days : left = rq[r].left
    BY <1>1, CaseInHand DEF Request
  <2>2. left = Never \/ (left = Retention /\ report[c].status = "resolved")
    BY <1>1, <1>2, <1>6, <2>1, CaseInHand DEF UnfreezeMedia, At, Sound
  <2>3. left # Never => report[c].term # Never /\ left >= report[c].term
    <3>1. report[c].term \in Days
      BY <1>2 DEF Report
    <3>2. QED
      BY <1>3, <2>2, <3>1, Constants
  <2>4. ASSUME NEW m \in Media
        PROVE  /\ media'[m] \in Medium /\ media'[m].status = media[m].status /\ media'[m].ttl = media[m].ttl
               /\ media'[m].left # media[m].left => m \in Evidence(c) /\ media'[m].left = left
    <3>1. media'[m] = IF m \in Evidence(c) THEN [media[m] EXCEPT !.frozen = FALSE, !.left = left] ELSE media[m]
      BY <1>2, <1>6, <2>1 DEF UnfreezeMedia, Case
    <3>2. QED
      BY <1>1, <3>1 DEF Medium
  <2>5. media' \in [Media -> Medium]
    BY <1>6, <2>4 DEF UnfreezeMedia
  <2>6. QED
    BY <1>1, <2>3, <2>4, <2>5, EvidenceWritten
<1>7. QED
  BY <1>4, <1>5, <1>6

LEMMA ShredKeeps == ASSUME RetentionInv, NEW m \in Media, Shred(m) PROVE RetentionInv'
<1>1. /\ UNCHANGED <<report, link, asks, purge, rq>> /\ media \in [Media -> Medium]
      /\ expiry \in Run(Media)
      /\ media' = [media EXCEPT ![m].status = "deleted"] /\ expiry' = Rest(expiry, m)
  BY DEF Shred, RetentionInv, TypeOK
<1>2. expiry' \in Run(Media) /\ expiry'.due \subseteq expiry.due /\ m \notin expiry'.due
      /\ \A n \in expiry.due : media[n].status \notin {"none", "deleted"}
  BY <1>1, RestIs DEF RetentionInv, BatchesSound
<1>3. /\ media' \in [Media -> Medium] /\ \A n \in Media : n # m => media'[n] = media[n]
      /\ media'[m].status = "deleted" /\ media'[m].left = media[m].left
      /\ media'[m].ttl = media[m].ttl
  BY <1>1 DEF Medium, MediaStatus
<1>4. \A c \in Cases, n \in Media : <<c, n>> \in link /\ media'[n].left # Never =>
         report[c].term # Never /\ media'[n].left >= report[c].term
  BY <1>3 DEF RetentionInv, EvidenceSound
<1>5. \A n \in Media :
         /\ media'[n].ttl = media[n].ttl
         /\ media'[n].status \in {"none", "pending"} =>
               media'[n].left = media[n].left /\ media[n].status \in {"none", "pending"}
         /\ n \in expiry'.due => media'[n].status \notin {"none", "deleted"}
                                   /\ (media'[n].status = "pending" <=> media[n].status = "pending")
  BY <1>2, <1>3
<1>6. QED
  BY <1>1, <1>2, <1>3, <1>4, <1>5, EvidenceMoves

\* An upload enters the case: on the row of the case only the trail moves.
LEMMA AttachKeeps == ASSUME RetentionInv, NEW r \in Reqs, AttachCommit(r) PROVE RetentionInv'
<1>1. rq[r].op = "attach" /\ rq[r].op # "idle"
  BY DEF AttachCommit, At
<1>2. PICK c \in Cases, m \in Media : c = rq[r].case /\ m = rq[r].medium /\ report[c] \in Report /\ RowSound(report[c])
  BY <1>1, CaseInHand DEF Sound
<1>3. report[c].term # 0 /\ ~report[c].purged
  BY <1>1, <1>2, CaseInHand DEF Sound, RowSound
<1>4. /\ media[m].status = "pending" /\ link' = link \cup {<<c, m>>}
      /\ media' = [media EXCEPT ![m].status = "available"]
      /\ rq' = [rq EXCEPT ![r] = Idle] /\ UNCHANGED <<asks, expiry, purge>>
  BY <1>2 DEF AttachCommit, Case, Finish
<1>5. media \in [Media -> Medium] /\ media[m].left = Never /\ \A d \in Cases : <<d, m>> \notin link
  BY <1>4 DEF RetentionInv, TypeOK, EvidenceSound
<1>6. /\ media' \in [Media -> Medium] /\ \A n \in Media : n # m => media'[n] = media[n]
      /\ media'[m].status = "available" /\ media'[m].left = Never /\ media'[m].ttl = media[m].ttl
  BY <1>4, <1>5 DEF Medium, MediaStatus
<1>7. PICK row : row = [report[c] EXCEPT !.trail = @ \cup {"media_attached"}]
  OBVIOUS
<1>8. /\ row \in Report /\ row.status = report[c].status /\ row.left = report[c].left
      /\ row.term = report[c].term /\ row.purged = report[c].purged
  BY <1>2, <1>7 DEF Report, Payloads
<1>9. RowSound(row)
  BY <1>2, <1>3, <1>8 DEF RowSound
<1>10. report' = [report EXCEPT ![c] = row]
  BY <1>2, <1>7 DEF AttachCommit, Case
<1>11. report' \in [Cases -> Report] /\ \A d \in Cases : RowSound(report'[d]) /\ Holds(d)
  BY <1>2, <1>8, <1>9, <1>10, RowMoves
<1>12. \A d \in Cases : report'[d].term = report[d].term
  BY <1>8, <1>10 DEF RetentionInv, TypeOK
<1>13. rq' \in [Reqs -> Request] /\ \A s \in Reqs : rq'[s] = Idle \/ rq'[s] = rq[s]
  BY <1>4, IdleSound DEF RetentionInv, TypeOK
<1>14. ASSUME NEW s \in Reqs PROVE Sound(rq[s])'
  <2>1. PICK p : p = rq'[s] /\ Sound(p)
    BY <1>13, IdleSound DEF RetentionInv
  <2>2. Sound(p)'
    BY <1>4, <1>11, <2>1, StaysSound
  <2>3. QED
    BY <2>1, <2>2 DEF Sound
<1>15. \A d \in Cases, n \in Media : <<d, n>> \in link' <=> (<<d, n>> \in link \/ (d = c /\ n = m))
  BY <1>4
<1>16. EvidenceSound'
  <2>1. \A n \in Media : media'[n].status \in {"none", "pending"} =>
           media'[n].left = Never /\ \A d \in Cases : <<d, n>> \notin link'
    BY <1>6, <1>15 DEF RetentionInv, EvidenceSound
  <2>2. \A d \in Cases, n \in Media : <<d, n>> \in link' /\ media'[n].left # Never =>
           report'[d].term # Never /\ media'[n].left >= report'[d].term
    BY <1>6, <1>12, <1>15 DEF RetentionInv, EvidenceSound
  <2>3. \A d, e \in Cases, n \in Media : <<d, n>> \in link' /\ <<e, n>> \in link' => d = e
    BY <1>5, <1>15 DEF RetentionInv, EvidenceSound
  <2>4. QED
    BY <2>1, <2>2, <2>3 DEF EvidenceSound
<1>17. BatchesSound'
  <2>1. expiry.due \subseteq Media /\ purge.due \subseteq Cases
    BY DEF RetentionInv, TypeOK, Run
  <2>2. ASSUME NEW n \in expiry.due
        PROVE  /\ media'[n].status \notin {"none", "deleted"}
               /\ media'[n].status = "pending" => media'[n].ttl = 0
               /\ media'[n].status # "pending" =>
                     \/ \A d \in Cases : <<d, n>> \in link' => report'[d].term = 0
                     \/ media'[n].ttl = 0 /\ \E d \in Cases : <<d, n>> \in link'
    <3>1. CASE n = m
      <4>1. media[m].ttl = 0 /\ <<c, m>> \in link'
        BY <1>4, <2>2, <3>1 DEF RetentionInv, BatchesSound
      <4>2. QED
        BY <1>6, <3>1, <4>1
    <3>2. CASE n # m
      BY <1>6, <1>12, <1>15, <2>1, <2>2, <3>2 DEF RetentionInv, BatchesSound
    <3>3. QED
      BY <3>1, <3>2
  <2>3. \A d \in purge.due : report'[d].term = 0
    BY <1>12, <2>1 DEF RetentionInv, BatchesSound
  <2>4. QED
    BY <1>4, <2>2, <2>3 DEF BatchesSound
<1>18. TypeOK'
  BY <1>4, <1>6, <1>11, <1>13 DEF RetentionInv, TypeOK
<1>19. \A d \in Cases : RowSound(report[d])'
  BY <1>11 DEF RowSound
<1>20. QED
  BY <1>14, <1>16, <1>17, <1>18, <1>19 DEF RetentionInv

LEMMA SelectionsAre ==
    ASSUME NEW T, NEW S, S \subseteq T, NEW run \in Selections(S)
    PROVE  run \in Run(T) /\ run.due \subseteq S
<1>1. CASE S = {}
  <2>1. run = NoRun
    BY <1>1 DEF Selections
  <2>2. NoRun \in Run(T) /\ NoRun.due = {}
    BY DEF NoRun, Run
  <2>3. QED
    BY <2>1, <2>2
<1>2. CASE S # {}
  <2>1. PICK due \in SUBSET S : run = [pc |-> "work", due |-> due, full |-> Cardinality(S) >= Batch]
    BY <1>2 DEF Selections
  <2>2. CASE Cardinality(S) >= Batch
    <3>1. (Cardinality(S) >= Batch) = TRUE
      BY <2>2
    <3>2. run = [pc |-> "work", due |-> due, full |-> TRUE]
      BY <2>1, <3>1, Zenon
    <3>3. QED
      BY <3>2 DEF Run
  <2>3. CASE ~(Cardinality(S) >= Batch)
    <3>1. (Cardinality(S) >= Batch) = FALSE
      BY <2>3
    <3>2. run = [pc |-> "work", due |-> due, full |-> FALSE]
      BY <2>1, <3>1, Zenon
    <3>3. QED
      BY <3>2 DEF Run
  <2>4. QED
    BY <2>2, <2>3
<1>3. QED
  BY <1>1, <1>2

\* What the selects find is over, or an orphan past its time.
LEMMA DueIsOver ==
    ASSUME RetentionInv
    PROVE  /\ DueCases \subseteq Cases /\ \A c \in DueCases : report[c].term = 0
           /\ DueMedia \subseteq Media
           /\ \A m \in DueMedia :
                /\ media[m].status \notin {"none", "deleted"}
                /\ media[m].status = "pending" => media[m].ttl = 0
                /\ media[m].status # "pending" => \A c \in Cases : <<c, m>> \in link => report[c].term = 0
<1>1. \A c \in Cases : report[c].term \in Days /\ report[c].status \in CaseStatus /\ RowSound(report[c])
  BY DEF RetentionInv, RowSound, Report
<1>2. \A d \in Days : d # Never /\ 0 >= d => d = 0
  BY Constants DEF Days
<1>3. ASSUME NEW c \in DueCases PROVE report[c].term = 0
  <2>1. c \in Cases /\ report[c].status # "none" /\ report[c].left = 0
    BY <1>3 DEF DueCases, Living
  <2>2. report[c].status = "resolved"
    BY <1>1, <2>1, Constants DEF RowSound, CaseStatus
  <2>3. report[c].term # Never /\ report[c].left >= report[c].term
    BY <1>1, <2>1, <2>2, Constants DEF RowSound
  <2>4. QED
    BY <1>1, <1>2, <2>1, <2>3
<1>4. ASSUME NEW m \in DueMedia, media[m].status = "pending" PROVE media[m].ttl = 0
  <2>1. m \in Media /\ media[m].left = Never
    BY <1>4 DEF DueMedia, RetentionInv, EvidenceSound
  <2>2. QED
    BY <1>4, <2>1, Constants DEF DueMedia
<1>5. ASSUME NEW m \in DueMedia, media[m].status # "pending", NEW c \in Cases, <<c, m>> \in link
      PROVE  report[c].term = 0
  <2>1. m \in Media /\ media[m].left = 0
    BY <1>5 DEF DueMedia
  <2>2. report[c].term # Never /\ 0 >= report[c].term
    BY <1>5, <2>1, Constants DEF RetentionInv, EvidenceSound
  <2>3. QED
    BY <1>1, <1>2, <2>2
<1>6. QED
  BY <1>3, <1>4, <1>5 DEF DueCases, DueMedia

LEMMA JobsKeep == ASSUME RetentionInv, Jobs PROVE RetentionInv'
<1>1. NoRun \in Run(Media) /\ NoRun \in Run(Cases) /\ NoRun.due = {}
  BY DEF NoRun, Run
<1>2. PICK waits : waits = [NoRun EXCEPT !.pc = "select"]
  OBVIOUS
<1>w. waits \in Run(Media) /\ waits \in Run(Cases) /\ waits.due = {}
  BY <1>2 DEF NoRun, Run
<1>3. ASSUME UNCHANGED <<report, media, link, asks, rq>>, expiry' \in Run(Media),
             purge' \in Run(Cases),
             expiry' = expiry \/ expiry'.due \subseteq DueMedia, purge' = purge \/ purge'.due \subseteq DueCases
      PROVE  RetentionInv'
  <2>1. TypeOK'
    BY <1>3 DEF RetentionInv, TypeOK
  <2>2. \A c \in Cases : RowSound(report[c])'
    BY <1>3 DEF RetentionInv, RowSound
  <2>3. \A s \in Reqs : Sound(rq[s])'
    BY <1>3, OthersStay
  <2>4. EvidenceSound'
    BY <1>3 DEF RetentionInv, EvidenceSound
  <2>5. BatchesSound'
    <3>1. \A c \in purge'.due : report[c].term = 0
      BY <1>3, DueIsOver DEF RetentionInv, BatchesSound
    <3>2. CASE expiry' = expiry
      BY <1>3, <3>1, <3>2 DEF RetentionInv, BatchesSound
    <3>3. CASE expiry'.due \subseteq DueMedia
      BY <1>3, <3>1, <3>3, DueIsOver DEF BatchesSound
    <3>4. QED
      BY <1>3, <3>2, <3>3
  <2>6. QED
    BY <2>1, <2>2, <2>3, <2>4, <2>5 DEF RetentionInv
<1>4. expiry \in Run(Media) /\ purge \in Run(Cases)
  BY DEF RetentionInv, TypeOK
<1>5. CASE ExpiryStart \/ ExpiryDies
  BY <1>1, <1>2, <1>w, <1>3, <1>4, <1>5 DEF ExpiryStart, ExpiryDies
<1>6. CASE PurgeStart \/ PurgeDies
  BY <1>1, <1>2, <1>w, <1>3, <1>4, <1>6 DEF PurgeStart, PurgeDies
<1>7. CASE ExpirySelect
  <2>1. /\ expiry' \in Run(Media) /\ expiry'.due \subseteq DueMedia /\ purge' = purge
        /\ UNCHANGED <<report, media, link, asks, rq>>
    BY <1>7, DueIsOver, SelectionsAre DEF ExpirySelect
  <2>2. QED
    BY <1>3, <1>4, <2>1
<1>8. CASE PurgeSelect
  <2>1. /\ purge' \in Run(Cases) /\ purge'.due \subseteq DueCases /\ expiry' = expiry
        /\ UNCHANGED <<report, media, link, asks, rq>>
    BY <1>8, DueIsOver, SelectionsAre DEF PurgeSelect
  <2>2. QED
    BY <1>3, <1>4, <2>1
<1>9. CASE (\E m \in Media : Shred(m)) \/ (\E c \in Cases : PurgeReport(c))
  BY <1>9, ShredKeeps, PurgeKeeps
<1>10. QED
  BY <1>5, <1>6, <1>7, <1>8, <1>9 DEF Jobs

LEMMA Ticks ==
    /\ \A d \in Days : Tick(d) \in Days /\ (Tick(d) = Never <=> d = Never) /\ (d = 0 => Tick(d) = 0)
    /\ \A d, e \in Days : d # Never /\ e # Never /\ d >= e => Tick(d) >= Tick(e)
    /\ \A t \in 0 .. OrphanTtl : Tick(t) \in 0 .. OrphanTtl /\ (t = 0 => Tick(t) = 0)
BY Constants DEF Tick, Days, Never

LEMMA DayKeeps == ASSUME RetentionInv, NextDay PROVE RetentionInv'
<1>1. /\ report \in [Cases -> Report] /\ media \in [Media -> Medium]
      /\ link \subseteq Cases \X Media
      /\ asks \in [AskIds -> Ask]
  BY DEF RetentionInv, TypeOK
<1>2. /\ report' = [c \in Cases |-> [report[c] EXCEPT !.left = Tick(@), !.term = Tick(@)]]
      /\ media' = [m \in Media |-> [media[m] EXCEPT !.left = Tick(@),
                                      !.ttl = IF media[m].status = "pending" THEN Tick(@) ELSE @]]
      /\ expiry' = NoRun /\ purge' = NoRun /\ rq' = [r \in Reqs |-> Idle]
      /\ UNCHANGED <<link, asks>>
  BY DEF NextDay
<1>3. ASSUME NEW c \in Cases
      PROVE  /\ report'[c] \in Report /\ RowSound(report'[c])
             /\ report'[c].term = Tick(report[c].term) /\ report[c].term \in Days
  <2>1. PICK row \in Report : row = report[c] /\ RowSound(row)
    BY DEF RetentionInv, TypeOK
  <2>2. row.left \in Days /\ row.term \in Days /\ row.status \in CaseStatus
    BY <2>1 DEF Report
  <2>3. PICK left \in Days, term \in Days : left = Tick(row.left) /\ term = Tick(row.term)
    BY <2>2, Ticks
  <2>4. report'[c] = [row EXCEPT !.left = left, !.term = term]
    BY <1>2, <2>1, <2>3
  <2>5. PICK new : new = report'[c]
    OBVIOUS
  <2>6. /\ new \in Report /\ new.left = left /\ new.term = term /\ new.status = row.status
        /\ new.purged = row.purged /\ new.content = row.content /\ new.trail = row.trail
    BY <2>1, <2>3, <2>4, <2>5 DEF Report
  <2>7. RowSound(new)
    BY <2>1, <2>2, <2>3, <2>6, Ticks DEF RowSound
  <2>8. QED
    BY <2>1, <2>2, <2>3, <2>5, <2>6, <2>7
<1>4. ASSUME NEW m \in Media
      PROVE  /\ media'[m] \in Medium /\ media'[m].status = media[m].status
             /\ media'[m].left = Tick(media[m].left) /\ media[m].left \in Days
  <2>1. PICK row \in Medium : row = media[m]
    BY <1>1
  <2>2. row.left \in Days /\ row.ttl \in 0 .. OrphanTtl
    BY <2>1 DEF Medium
  <2>3. PICK left \in Days, ttl \in 0 .. OrphanTtl :
           left = Tick(row.left) /\ ttl = IF row.status = "pending" THEN Tick(row.ttl) ELSE row.ttl
    BY <2>2, Ticks
  <2>4. media'[m] = [row EXCEPT !.left = left, !.ttl = ttl]
    BY <1>2, <2>1, <2>3
  <2>5. QED
    BY <2>1, <2>2, <2>3, <2>4 DEF Medium
<1>5. NoRun \in Run(Media) /\ NoRun \in Run(Cases) /\ NoRun.due = {}
  BY DEF NoRun, Run
<1>6. report' \in [Cases -> Report] /\ media' \in [Media -> Medium] /\ rq' \in [Reqs -> Request]
  BY <1>2, <1>3, <1>4, IdleSound
<1>7. TypeOK'
  BY <1>1, <1>2, <1>5, <1>6 DEF TypeOK
<1>8. \A c \in Cases : RowSound(report[c])'
  BY <1>3 DEF RowSound
<1>9. ASSUME NEW s \in Reqs PROVE Sound(rq[s])'
  <2>1. rq'[s] = Idle
    BY <1>2
  <2>2. QED
    BY <2>1, IdleSound DEF Sound
<1>10. EvidenceSound'
  <2>1. \A m \in Media : media'[m].status \in {"none", "pending"} =>
           media'[m].left = Never /\ \A c \in Cases : <<c, m>> \notin link'
    BY <1>2, <1>4, Ticks DEF RetentionInv, EvidenceSound
  <2>2. ASSUME NEW c \in Cases, NEW m \in Media, <<c, m>> \in link', media'[m].left # Never
        PROVE  report'[c].term # Never /\ media'[m].left >= report'[c].term
    <3>1. media[m].left # Never /\ media[m].left \in Days /\ report[c].term \in Days
      BY <1>3, <1>4, <2>2, Ticks
    <3>2. report[c].term # Never /\ media[m].left >= report[c].term
      BY <1>2, <2>2, <3>1 DEF RetentionInv, EvidenceSound
    <3>3. QED
      BY <1>3, <1>4, <3>1, <3>2, Ticks
  <2>3. QED
    BY <1>2, <2>1, <2>2 DEF RetentionInv, EvidenceSound
<1>11. BatchesSound'
  BY <1>2, <1>5 DEF BatchesSound
<1>12. QED
  BY <1>7, <1>8, <1>9, <1>10, <1>11 DEF RetentionInv

LEMMA RetentionStep == ASSUME RetentionInv, [Next]_vars PROVE RetentionInv'
<1>1. CASE UNCHANGED vars
  <2>1. UNCHANGED <<report, media, link, asks, expiry, purge, rq>>
    BY <1>1 DEF vars
  <2>2. TypeOK' /\ EvidenceSound' /\ BatchesSound' /\ \A c \in Cases : RowSound(report[c])'
    BY <2>1 DEF RetentionInv, TypeOK, EvidenceSound, BatchesSound, RowSound
  <2>3. \A s \in Reqs : Sound(rq[s])'
    BY <2>1, OthersStay
  <2>4. QED
    BY <2>2, <2>3 DEF RetentionInv
<1>2. ASSUME NEW r \in Reqs, Handler(r) \/ Drop(r) PROVE RetentionInv'
  <2>1. CASE Edit(r) \/ Resolve(r)
    BY <2>1, BeginsKeep, EditsKeep, MarkKeeps, EvidenceWritesKeep DEF Edit, Resolve
  <2>2. CASE Attach(r) \/ Freeze(r)
    BY <2>2, BeginsKeep, ReadsKeep, AttachKeeps, FreezeKeeps, EvidenceWritesKeep
       DEF Attach, Freeze
  <2>3. CASE RequestUnfreeze(r)
    BY <2>3, BeginsKeep, ReadsKeep, InsertKeeps DEF RequestUnfreeze
  <2>4. CASE ApproveUnfreeze(r)
    BY <2>4, BeginsKeep, ReadsKeep, ApproveKeeps, ThawKeeps, EvidenceWritesKeep
       DEF ApproveUnfreeze
  <2>5. CASE Drop(r)
    BY <2>5, DropKeeps
  <2>6. QED
    BY <1>2, <2>1, <2>2, <2>3, <2>4, <2>5 DEF Handler
<1>3. CASE \E c \in Cases : SubmitReport(c)
  BY <1>3, SubmitKeeps
<1>4. CASE \E m \in Media : Upload(m) \/ BlockMedia(m) \/ UnblockMedia(m)
  BY <1>4, UploadsKeep
<1>5. CASE Jobs \/ NextDay
  BY <1>5, JobsKeep, DayKeeps
<1>6. QED
  BY <1>1, <1>2, <1>3, <1>4, <1>5 DEF Next

\* The tables keep their types; a purged case is blank and stays so; and no case is purged
\* before its retention is over, whatever freezes, thaws, edits and runs of the jobs overlap
\* (resolveReport, approveUnfreeze, purgeReport).
THEOREM RetentionHolds == Spec => [](TypeOK /\ PurgedIsBlank /\ PurgedOnlyAfterRetention)
<1>1. Init => RetentionInv
  BY RetentionStart
<1>2. RetentionInv /\ [Next]_vars => RetentionInv'
  BY RetentionStep
<1>3. RetentionInv => TypeOK /\ PurgedIsBlank /\ PurgedOnlyAfterRetention
  BY RetentionMeans
<1>4. QED
  BY <1>1, <1>2, <1>3, PTL DEF Spec

\* Only the last step of a thaw, which holds an approved request for it, thaws a case.
LEMMA ThawStep ==
    ASSUME RetentionInv, [Next]_vars, NEW c \in Cases, report[c].frozen, ~report'[c].frozen
    PROVE  \E r \in Reqs : /\ At(r, "thaw", "unfreeze") /\ Case(r) = c
                           /\ AskHeld(r).status = "approved" /\ AskHeld(r).case = c
                           /\ AskHeld(r).by # rq[r].who
                           /\ AskHeld(r).approvedBy \notin {None, AskHeld(r).by}
<1>1. report \in [Cases -> Report]
  BY DEF RetentionInv, TypeOK
<1>2. report' # report
  OBVIOUS
<1>3. ~ (\E d \in Cases : SubmitReport(d))
  BY <1>1 DEF SubmitReport, Report
<1>4. ASSUME NEW d \in Cases, PurgeReport(d) PROVE FALSE
  <2>1. PICK row : row = [report[d] EXCEPT !.purged = TRUE, !.content = "wiped", !.trail = {}]
    OBVIOUS
  <2>2. row.frozen = report[d].frozen
    BY <1>1, <2>1 DEF Report
  <2>3. report' = [report EXCEPT ![d] = row]
    BY <1>1, <1>4, <2>1 DEF PurgeReport
  <2>4. QED
    BY <1>1, <2>2, <2>3
<1>5. ~ NextDay
  BY <1>1 DEF NextDay, Report
<1>6. ~ (\E m \in Media : Upload(m) \/ BlockMedia(m) \/ UnblockMedia(m))
  BY <1>2 DEF Upload, BlockMedia, UnblockMedia
<1>7. ~ Jobs
  BY <1>2, <1>4
     DEF Jobs, ExpiryStart, ExpirySelect, ExpiryDies, PurgeStart, PurgeSelect, PurgeDies, Shred
<1>8. PICK r \in Reqs : Handler(r) \/ Drop(r)
  BY <1>2, <1>3, <1>5, <1>6, <1>7 DEF Next, vars
<1>9. ~ Drop(r) /\ ~ RequestUnfreeze(r)
  BY <1>2
     DEF Drop, RequestUnfreeze, RequestUnfreezeBegin, RequestUnfreezeCheck,
         InsertUnfreezeRequest
<1>10. ~ Edit(r)
  BY <1>1, <1>2 DEF Edit, EditBegin, EditWrite, EditTimeline, Report
<1>11. ~ Resolve(r)
  BY <1>1, <1>2 DEF Resolve, ResolveBegin, MarkResolved, StampAttachedMediaExpiry, Report
<1>12. ~ Attach(r)
  BY <1>1, <1>2 DEF Attach, AttachBegin, AttachLookup, AttachCount, AttachCommit, Report
<1>13. ~ Freeze(r)
  BY <1>1, <1>2 DEF Freeze, FreezeBegin, FreezeCase, FreezeMedia, Report
<1>14. UnfreezeCase(r)
  BY <1>2, <1>8, <1>9, <1>10, <1>11, <1>12, <1>13
     DEF Handler, ApproveUnfreeze, ApproveUnfreezeBegin, ApproveUnfreezeCheck,
         ApproveUnfreezeRequest, UnfreezeMedia
<1>15. rq[r].op = "thaw" /\ rq[r].pc = "unfreeze" /\ rq[r].op # "idle"
  BY <1>14 DEF UnfreezeCase, At
<1>16. c = rq[r].case
  BY <1>1, <1>14 DEF UnfreezeCase, Case, Report
<1>17. Sound(rq[r]) /\ At(r, "thaw", "unfreeze")
  BY <1>14, CaseInHand DEF RetentionInv, UnfreezeCase
<1>18. QED
  BY <1>15, <1>16, <1>17 DEF Sound, AskHeld, Case

\* Only the last step of a thaw thaws a case, and it holds a request for that case which somebody
\* else made and which another than made it approved (requestUnfreeze, approveUnfreeze, unfreeze).
THEOREM ThawNeedsTwo == Spec => ThawByTwo
<1>1. Init => RetentionInv
  BY RetentionStart
<1>2. RetentionInv /\ [Next]_vars => RetentionInv'
  BY RetentionStep
<1>3. RetentionInv /\ [Next]_vars =>
         [\A c \in Cases : report[c].frozen /\ ~report'[c].frozen =>
            \E r \in Reqs :
               /\ At(r, "thaw", "unfreeze") /\ Case(r) = c
               /\ AskHeld(r).status = "approved" /\ AskHeld(r).case = c
               /\ AskHeld(r).by # rq[r].who
               /\ AskHeld(r).approvedBy \notin {None, AskHeld(r).by}]_vars
  BY ThawStep
<1>4. QED
  BY <1>1, <1>2, <1>3, PTL DEF Spec, ThawByTwo

\* What of a case and of a medium decides whether evidence is on the clock.
LEMMA CasesResolve ==
    ASSUME RetentionInv, [Next]_vars, NEW c \in Cases,
           report'[c].status = "resolved", report[c].status # "resolved"
    PROVE  \E r \in Reqs : MarkResolved(r) /\ Case(r) = c
<1>1. report \in [Cases -> Report]
  BY DEF RetentionInv, TypeOK
<1>2. report' # report
  OBVIOUS
<1>3. ~ (\E d \in Cases : SubmitReport(d))
  BY <1>1 DEF SubmitReport, Report
<1>4. ASSUME NEW d \in Cases, PurgeReport(d) PROVE FALSE
  <2>1. PICK row : row = [report[d] EXCEPT !.purged = TRUE, !.content = "wiped", !.trail = {}]
    OBVIOUS
  <2>2. row.status = report[d].status
    BY <1>1, <2>1 DEF Report
  <2>3. report' = [report EXCEPT ![d] = row]
    BY <1>1, <1>4, <2>1 DEF PurgeReport
  <2>4. QED
    BY <1>1, <2>2, <2>3
<1>5. ~ NextDay
  <2>1. NextDay => report'[c] = [report[c] EXCEPT !.left = Tick(@), !.term = Tick(@)]
    BY DEF NextDay
  <2>2. [report[c] EXCEPT !.left = Tick(@), !.term = Tick(@)].status = report[c].status
    BY <1>1 DEF Report
  <2>3. QED
    BY <2>1, <2>2
<1>6. ~ (\E m \in Media : Upload(m) \/ BlockMedia(m) \/ UnblockMedia(m))
  BY <1>2 DEF Upload, BlockMedia, UnblockMedia
<1>7. ~ Jobs
  BY <1>2, <1>4
     DEF Jobs, ExpiryStart, ExpirySelect, ExpiryDies, PurgeStart, PurgeSelect, PurgeDies, Shred
<1>8. PICK r \in Reqs : Handler(r) \/ Drop(r)
  BY <1>2, <1>3, <1>5, <1>6, <1>7 DEF Next, vars
<1>9. ~ Drop(r) /\ ~ RequestUnfreeze(r)
  BY <1>2
     DEF Drop, RequestUnfreeze, RequestUnfreezeBegin, RequestUnfreezeCheck,
         InsertUnfreezeRequest
<1>10. ~ Edit(r)
  <2>1. ~ EditWrite(r)
    <3>1. EditWrite(r) => report' = [report EXCEPT ![rq[r].case].content = "edited"]
      BY DEF EditWrite, Case
    <3>2. QED
      BY <1>1, <3>1 DEF Report
  <2>2. ~ EditTimeline(r)
    <3>1. PICK d : d = rq[r].case
      OBVIOUS
    <3>2. PICK row : row = [report[d] EXCEPT !.trail = @ \cup {"edited"}]
      OBVIOUS
    <3>3. d \in Cases => row.status = report[d].status
      BY <1>1, <3>2 DEF Report
    <3>4. EditTimeline(r) => report' = [report EXCEPT ![d] = row]
      BY <3>1, <3>2 DEF EditTimeline, Case
    <3>5. QED
      BY <1>1, <3>3, <3>4
  <2>3. QED
    BY <1>2, <2>1, <2>2 DEF Edit, EditBegin
<1>11. ~ Attach(r)
  <2>1. ~ AttachCommit(r)
    <3>1. PICK d : d = rq[r].case
      OBVIOUS
    <3>2. PICK row : row = [report[d] EXCEPT !.trail = @ \cup {"media_attached"}]
      OBVIOUS
    <3>3. d \in Cases => row.status = report[d].status
      BY <1>1, <3>2 DEF Report
    <3>4. AttachCommit(r) => report' = [report EXCEPT ![d] = row]
      BY <3>1, <3>2 DEF AttachCommit, Case
    <3>5. QED
      BY <1>1, <3>3, <3>4
  <2>2. QED
    BY <1>2, <2>1 DEF Attach, AttachBegin, AttachLookup, AttachCount
<1>12. ~ Freeze(r)
  <2>1. ~ FreezeCase(r)
    <3>1. FreezeCase(r) => report' = [report EXCEPT ![rq[r].case].frozen = TRUE]
      BY DEF FreezeCase, Case
    <3>2. QED
      BY <1>1, <3>1 DEF Report
  <2>2. QED
    BY <1>2, <2>1 DEF Freeze, FreezeBegin, FreezeMedia
<1>13. ASSUME UnfreezeCase(r) PROVE FALSE
  <2>1. PICK left : report' = [report EXCEPT ![rq[r].case].frozen = FALSE, ![rq[r].case].left = left]
    BY <1>13 DEF UnfreezeCase, Case
  <2>2. PICK d : d = rq[r].case
    OBVIOUS
  <2>3. PICK row : row = [report[d] EXCEPT !.frozen = FALSE, !.left = left]
    OBVIOUS
  <2>4. d \in Cases => row.status = report[d].status
    BY <1>1, <2>3 DEF Report
  <2>5. report' = [report EXCEPT ![d] = row]
    BY <2>1, <2>2, <2>3
  <2>6. QED
    BY <1>1, <2>4, <2>5
<1>14. ~ ApproveUnfreeze(r)
  BY <1>2, <1>13
     DEF ApproveUnfreeze, ApproveUnfreezeBegin, ApproveUnfreezeCheck, ApproveUnfreezeRequest, UnfreezeMedia
<1>15. MarkResolved(r)
  BY <1>2, <1>8, <1>9, <1>10, <1>11, <1>12, <1>14
     DEF Handler, Resolve, ResolveBegin, StampAttachedMediaExpiry
<1>16. QED
  BY <1>1, <1>15 DEF MarkResolved, Case, Report

LEMMA EvidenceUnclocks ==
    ASSUME RetentionInv, [Next]_vars, NEW m \in Media, media'[m].status # "deleted", media'[m].left = Never
    PROVE  /\ media[m].status # "deleted"
           /\ media[m].left # Never =>
                 \E r \in Reqs : UnfreezeMedia(r) /\ m \in Evidence(Case(r)) /\ rq[r].left = Never
<1> DEFINE Kept == media'[m].status = media[m].status /\ media'[m].left = media[m].left
           Freed == media[m].status # "deleted" /\ media[m].left = Never
<1>1. media \in [Media -> Medium] /\ media[m].left \in Days
  BY DEF RetentionInv, TypeOK, Medium
<1>2. UNCHANGED media => Kept
  OBVIOUS
<1>3. ASSUME NEW n \in Media, Upload(n) \/ BlockMedia(n) \/ UnblockMedia(n)
      PROVE  media[m].status # "deleted" /\ media'[m].left = media[m].left
  BY <1>1, <1>3 DEF Upload, BlockMedia, UnblockMedia, Medium
<1>4. ASSUME NEW n \in Media, Shred(n) PROVE Kept
  <2>1. m # n
    BY <1>1, <1>4 DEF Shred, Medium
  <2>2. QED
    BY <1>1, <1>4, <2>1 DEF Shred
<1>5. ASSUME NextDay PROVE Freed
  <2>1. /\ media'[m].left = Tick(media[m].left) /\ media'[m].status = media[m].status
    BY <1>1, <1>5 DEF NextDay, Medium
  <2>2. Tick(media[m].left) = Never => media[m].left = Never
    BY <1>1, Constants DEF Tick, Days
  <2>3. QED
    BY <2>1, <2>2
<1>6. ASSUME NEW r \in Reqs, AttachCommit(r) PROVE media[m].status # "deleted" /\ media'[m].left = media[m].left
  BY <1>1, <1>6 DEF AttachCommit, Medium
<1>7. ASSUME NEW r \in Reqs, StampAttachedMediaExpiry(r) PROVE Kept
  <2>1. m \notin Evidence(rq[r].case)
    BY <1>1, <1>7, Constants DEF StampAttachedMediaExpiry, Case, Medium
  <2>2. QED
    BY <1>7, <2>1 DEF StampAttachedMediaExpiry, Case
<1>8. ASSUME NEW r \in Reqs, FreezeMedia(r) PROVE Kept
  BY <1>1, <1>8 DEF FreezeMedia, Medium
<1>9. ASSUME NEW r \in Reqs, UnfreezeMedia(r)
      PROVE  Kept \/ (media[m].status # "deleted" /\ m \in Evidence(rq[r].case) /\ rq[r].left = Never)
  <2>1. CASE m \in Evidence(rq[r].case)
    BY <1>1, <1>9, <2>1 DEF UnfreezeMedia, Case, Medium, Evidence
  <2>2. CASE m \notin Evidence(rq[r].case)
    BY <1>9, <2>2 DEF UnfreezeMedia, Case
  <2>3. QED
    BY <2>1, <2>2
<1>10. \/ UNCHANGED media \/ NextDay
       \/ \E n \in Media : Upload(n) \/ BlockMedia(n) \/ UnblockMedia(n) \/ Shred(n)
       \/ \E r \in Reqs : AttachCommit(r) \/ StampAttachedMediaExpiry(r) \/ FreezeMedia(r) \/ UnfreezeMedia(r)
  <2>1. ASSUME NEW r \in Reqs, Handler(r) \/ Drop(r)
        PROVE  UNCHANGED media \/ AttachCommit(r) \/ StampAttachedMediaExpiry(r) \/ FreezeMedia(r) \/ UnfreezeMedia(r)
    <3>1. Edit(r) \/ RequestUnfreeze(r) \/ Drop(r) => UNCHANGED media
      BY DEF Edit, EditBegin, EditWrite, EditTimeline, RequestUnfreeze, RequestUnfreezeBegin,
             RequestUnfreezeCheck, InsertUnfreezeRequest, Drop
    <3>2. Resolve(r) \/ Attach(r) \/ Freeze(r)
             => UNCHANGED media \/ AttachCommit(r) \/ StampAttachedMediaExpiry(r) \/ FreezeMedia(r)
      BY DEF Resolve, ResolveBegin, MarkResolved, Attach, AttachBegin, AttachLookup, AttachCount,
             Freeze, FreezeBegin, FreezeCase
    <3>3. ApproveUnfreeze(r) => UNCHANGED media \/ UnfreezeMedia(r)
      BY DEF ApproveUnfreeze, ApproveUnfreezeBegin, ApproveUnfreezeCheck, ApproveUnfreezeRequest, UnfreezeCase
    <3>4. QED
      BY <2>1, <3>1, <3>2, <3>3 DEF Handler
  <2>2. Jobs => UNCHANGED media \/ \E n \in Media : Shred(n)
    BY DEF Jobs, ExpiryStart, ExpirySelect, ExpiryDies, PurgeStart, PurgeSelect, PurgeDies, PurgeReport
  <2>3. QED
    BY <2>1, <2>2 DEF Next, vars, SubmitReport
<1>11. QED
  BY <1>2, <1>3, <1>4, <1>5, <1>6, <1>7, <1>8, <1>9, <1>10 DEF Case

\* A request about to stamp stamps, or dies; and so does every request when a day passes.
LEMMA StampsWait ==
    ASSUME RetentionInv, [Next]_vars, NEW r \in Reqs, At(r, "resolve", "stamp")
    PROVE  rq'[r] = rq[r] \/ rq'[r] = Idle
<1>1. rq \in [Reqs -> Request] /\ rq[r].op = "resolve" /\ rq[r].pc = "stamp" /\ rq[r] # Idle
  BY DEF RetentionInv, TypeOK, At, Idle
<1>2. ASSUME NEW s \in Reqs, Handler(s) \/ Drop(s), s # r PROVE rq'[r] = rq[r]
  <2>1. Edit(s) \/ Resolve(s) \/ Drop(s) => rq'[r] = rq[r]
    BY <1>1, <1>2 DEF Edit, EditBegin, EditWrite, EditTimeline, Resolve, ResolveBegin, MarkResolved,
       StampAttachedMediaExpiry, Drop, Begin, Goto, Finish
  <2>2. Attach(s) \/ Freeze(s) => rq'[r] = rq[r]
    BY <1>1, <1>2 DEF Attach, AttachBegin, AttachLookup, AttachCount, AttachCommit, Freeze, FreezeBegin,
       FreezeCase, FreezeMedia, Begin, Goto, Finish
  <2>3. RequestUnfreeze(s) => rq'[r] = rq[r]
    BY <1>1, <1>2 DEF RequestUnfreeze, RequestUnfreezeBegin, RequestUnfreezeCheck,
       InsertUnfreezeRequest, Begin, Goto, Finish
  <2>4. ApproveUnfreeze(s) => rq'[r] = rq[r]
    <3>1. UnfreezeCase(s) => rq'[r] = rq[r]
      BY <1>1, <1>2 DEF UnfreezeCase
    <3>2. QED
      BY <1>1, <1>2, <3>1 DEF ApproveUnfreeze, ApproveUnfreezeBegin, ApproveUnfreezeCheck,
         ApproveUnfreezeRequest, UnfreezeMedia, Begin, Goto, Finish
  <2>5. QED
    BY <1>2, <2>1, <2>2, <2>3, <2>4 DEF Handler
<1>3. ASSUME Handler(r) \/ Drop(r) PROVE rq'[r] = Idle
  <2>1. StampAttachedMediaExpiry(r) \/ Drop(r)
    BY <1>1, <1>3 DEF Handler, Edit, EditBegin, EditWrite, EditTimeline, Resolve, ResolveBegin, MarkResolved,
       Attach, AttachBegin, AttachLookup, AttachCount, AttachCommit, Freeze, FreezeBegin,
       FreezeCase, FreezeMedia, RequestUnfreeze, RequestUnfreezeBegin, RequestUnfreezeCheck,
       InsertUnfreezeRequest, ApproveUnfreeze, ApproveUnfreezeBegin, ApproveUnfreezeCheck,
       ApproveUnfreezeRequest, UnfreezeCase, UnfreezeMedia, Begin, At
  <2>2. QED
    BY <1>1, <2>1 DEF StampAttachedMediaExpiry, Drop, Finish
<1>4. NextDay => rq'[r] = Idle
  BY DEF NextDay
<1>5. QED
  BY <1>2, <1>3, <1>4
     DEF Next, vars, SubmitReport, Upload, BlockMedia, UnblockMedia, Jobs, ExpiryStart, ExpirySelect,
         Shred, ExpiryDies, PurgeStart, PurgeSelect, PurgeReport, PurgeDies

LEMMA ClockStep ==
    ASSUME RetentionInv, [Next]_vars, NEW x \in link, x \in Unclocked', x \notin Unclocked
    PROVE  \/ \E r \in Reqs : At(r, "resolve", "stamp") /\ Case(r) = x[1] /\ rq'[r] = Idle
           \/ \E r \in Reqs : At(r, "thaw", "media") /\ Case(r) = x[1] /\ rq[r].status = "open"
<1>1. PICK c \in Cases, m \in Media : x = <<c, m>>
  BY DEF RetentionInv, TypeOK
<1>2. /\ report'[c].status = "resolved" /\ media'[m].status # "deleted" /\ media'[m].left = Never
      /\ \A r \in Reqs : ~(rq'[r].op = "resolve" /\ rq'[r].pc = "stamp" /\ rq'[r].case = c)
  BY <1>1 DEF Unclocked, At, Case
<1>3. report[c].status = "resolved"
  <2>1. ASSUME NEW r \in Reqs, MarkResolved(r), Case(r) = c PROVE FALSE
    <3>1. rq \in [Reqs -> Request] /\ rq[r].op = "resolve" /\ rq[r].case = c
      BY <2>1 DEF RetentionInv, TypeOK, MarkResolved, At, Case
    <3>2. rq'[r].op = "resolve" /\ rq'[r].pc = "stamp" /\ rq'[r].case = c
      BY <2>1, <3>1 DEF MarkResolved, Goto, Request
    <3>3. QED
      BY <1>2, <3>2
  <2>2. QED
    BY <1>2, <2>1, CasesResolve
<1>4. media[m].status # "deleted"
  BY <1>2, EvidenceUnclocks
<1>5. CASE media[m].left # Never
  <2>1. PICK r \in Reqs : UnfreezeMedia(r) /\ m \in Evidence(Case(r)) /\ rq[r].left = Never
    BY <1>2, <1>5, EvidenceUnclocks
  <2>2. rq[r].op = "thaw" /\ rq[r].pc = "media" /\ rq[r].op # "idle"
    BY <2>1 DEF UnfreezeMedia, At
  <2>3. rq[r].case \in Cases /\ rq[r].status = "open"
    BY <2>1, <2>2, CaseInHand, Constants DEF Sound
  <2>4. rq[r].case = c
    BY <1>1, <2>1, <2>3 DEF Evidence, Attached, Case, RetentionInv, EvidenceSound
  <2>5. QED
    BY <1>1, <2>2, <2>3, <2>4 DEF At, Case
<1>6. CASE media[m].left = Never
  <2>1. PICK r \in Reqs : At(r, "resolve", "stamp") /\ Case(r) = c
    BY <1>1, <1>3, <1>4, <1>6 DEF Unclocked
  <2>2. rq'[r] # rq[r]
    BY <1>2, <2>1 DEF At, Case
  <2>3. QED
    BY <1>1, <2>1, <2>2, StampsWait
<1>7. QED
  BY <1>5, <1>6

\* Evidence of a resolved case is on its clock, unless it was attached past the resolution, the
\* resolution died before its stamp, or a thaw that had read the case open took the clock away
\* (resolveReport, stampAttachedMediaExpiry, approveUnfreeze).
THEOREM EvidenceKeepsItsClock == Spec => ClockKept
<1>1. Init => RetentionInv
  BY RetentionStart
<1>2. RetentionInv /\ [Next]_vars => RetentionInv'
  BY RetentionStep
<1>3. RetentionInv /\ [Next]_vars =>
         [\A x \in Unclocked' \ Unclocked :
            \/ x \notin link
            \/ \E r \in Reqs : At(r, "resolve", "stamp") /\ Case(r) = x[1] /\ rq'[r] = Idle
            \/ \E r \in Reqs : /\ At(r, "thaw", "media") /\ Case(r) = x[1]
                               /\ rq[r].status = "open"]_vars
  BY ClockStep
<1>4. QED
  BY <1>1, <1>2, <1>3, PTL DEF Spec, ClockKept

\* The abstract state, read off the rows.
LifeOf == [m \in Media |-> Life[media[m].status]]
HoldersOf == [m \in Media |-> {c \in Cases : <<c, m>> \in link}]
LateOnes == {m \in Media : media[m].status \notin {"none", "pending"} /\ media[m].ttl = 0
                              /\ \E c \in Cases : <<c, m>> \in link}

LEMMA Lives ==
    /\ Life["none"] = "absent" /\ Life["pending"] = "loose" /\ Life["available"] = "kept"
    /\ Life["blocked"] = "kept" /\ Life["deleted"] = "gone"
BY DEF Life

\* A step in which no medium changes its life, enters a case or loses its time.
LEMMA CustodyRests ==
    ASSUME UNCHANGED link, \A c \in Cases : report'[c].term = 0 <=> report[c].term = 0,
           \A m \in Media : /\ Life[media'[m].status] = Life[media[m].status]
                            /\ media'[m].status \in {"none", "pending"} <=> media[m].status \in {"none", "pending"}
                            /\ media[m].status \notin {"none", "pending"} =>
                                  (media'[m].ttl = 0 <=> media[m].ttl = 0)
    PROVE  UNCHANGED Custody!custodyVars
<1>1. LifeOf' = LifeOf
  BY DEF LifeOf
<1>2. HoldersOf' = HoldersOf
  BY DEF HoldersOf
<1>3. LateOnes' = LateOnes
  BY DEF LateOnes
<1>4. Over' = Over
  BY DEF Over
<1>5. QED
  BY <1>1, <1>2, <1>3, <1>4 DEF Custody!custodyVars, LifeOf, HoldersOf, LateOnes

LEMMA CustodyStarts == ASSUME Init PROVE Custody!Init
<1>1. /\ report = [c \in Cases |-> NoReport] /\ media = [m \in Media |-> NoMedium] /\ link = {}
      /\ NoReport.term = Never /\ NoMedium.status = "none"
  BY DEF Init, NoReport, NoMedium
<1>2. Over = {}
  BY <1>1, Constants DEF Over
<1>3. QED
  BY <1>1, <1>2, Lives DEF Custody!Init
\* Within a day no retention ends.
LEMMA TermsRest ==
    ASSUME RetentionInv, NEW d \in Cases,
           \/ \E r \in Reqs : EditWrite(r) \/ EditTimeline(r) \/ MarkResolved(r) \/ FreezeCase(r) \/ UnfreezeCase(r)
           \/ \E c \in Cases : SubmitReport(c) \/ PurgeReport(c)
    PROVE  report'[d].term = 0 <=> report[d].term = 0
<1>1. report \in [Cases -> Report] /\ report[d].term \in Days
  BY DEF RetentionInv, TypeOK, Report
<1>2. ASSUME NEW r \in Reqs, EditWrite(r) PROVE report'[d].term = report[d].term
  BY <1>1, <1>2 DEF EditWrite, Report
<1>3. ASSUME NEW r \in Reqs, EditTimeline(r) PROVE report'[d].term = report[d].term
  BY <1>1, <1>3 DEF EditTimeline, Report
<1>4. ASSUME NEW r \in Reqs, FreezeCase(r) PROVE report'[d].term = report[d].term
  BY <1>1, <1>4 DEF FreezeCase, Report
<1>5. ASSUME NEW r \in Reqs, UnfreezeCase(r) PROVE report'[d].term = report[d].term
  <2>1. PICK left : report' = [report EXCEPT ![rq[r].case].frozen = FALSE, ![rq[r].case].left = left]
    BY <1>5 DEF UnfreezeCase, Case
  <2>2. QED
    BY <1>1, <2>1 DEF Report
<1>6. ASSUME NEW r \in Reqs, MarkResolved(r) PROVE report'[d].term = 0 <=> report[d].term = 0
  <2>1. PICK c \in Cases : c = rq[r].case /\ report[c].status = "open" /\ RowSound(report[c])
    BY <1>6, CaseInHand DEF MarkResolved, Case, At
  <2>2. PICK row : row = [report[c] EXCEPT !.status = "resolved", !.left = Retention, !.term = Retention]
    OBVIOUS
  <2>3. row.term = Retention /\ report[c].term = Never
    BY <1>1, <2>1, <2>2 DEF RowSound, Report
  <2>4. report' = [report EXCEPT ![c] = row]
    BY <1>6, <2>1, <2>2 DEF MarkResolved, Case
  <2>5. QED
    BY <1>1, <2>3, <2>4, Constants
<1>7. ASSUME NEW c \in Cases, SubmitReport(c) PROVE report'[d].term = report[d].term
  BY <1>1, <1>7 DEF SubmitReport, Report
<1>8. ASSUME NEW c \in Cases, PurgeReport(c) PROVE report'[d].term = report[d].term
  <2>1. PICK row : row = [report[c] EXCEPT !.purged = TRUE, !.content = "wiped", !.trail = {}]
    OBVIOUS
  <2>2. row.term = report[c].term
    BY <1>1, <2>1 DEF Report
  <2>3. report' = [report EXCEPT ![c] = row]
    BY <1>1, <1>8, <2>1 DEF PurgeReport
  <2>4. QED
    BY <1>1, <2>2, <2>3
<1>9. QED
  BY <1>2, <1>3, <1>4, <1>5, <1>6, <1>7, <1>8

LEMMA EvidenceRests ==
    ASSUME RetentionInv, NEW m \in Media,
           \/ \E r \in Reqs : StampAttachedMediaExpiry(r) \/ FreezeMedia(r) \/ UnfreezeMedia(r)
           \/ \E n \in Media : BlockMedia(n) \/ UnblockMedia(n)
    PROVE  /\ Life[media'[m].status] = Life[media[m].status] /\ media'[m].ttl = media[m].ttl
           /\ media'[m].status \in {"none", "pending"} <=> media[m].status \in {"none", "pending"}
<1>1. media \in [Media -> Medium]
  BY DEF RetentionInv, TypeOK
<1>2. ASSUME NEW r \in Reqs, StampAttachedMediaExpiry(r)
      PROVE  media'[m].status = media[m].status /\ media'[m].ttl = media[m].ttl
  BY <1>1, <1>2 DEF StampAttachedMediaExpiry, Medium
<1>3. ASSUME NEW r \in Reqs, FreezeMedia(r)
      PROVE  media'[m].status = media[m].status /\ media'[m].ttl = media[m].ttl
  BY <1>1, <1>3 DEF FreezeMedia, Medium
<1>4. ASSUME NEW r \in Reqs, UnfreezeMedia(r)
      PROVE  media'[m].status = media[m].status /\ media'[m].ttl = media[m].ttl
  BY <1>1, <1>4 DEF UnfreezeMedia, Medium
<1>5. ASSUME NEW n \in Media, BlockMedia(n) \/ UnblockMedia(n)
      PROVE  /\ Life[media'[m].status] = Life[media[m].status] /\ media'[m].ttl = media[m].ttl
             /\ media'[m].status \in {"none", "pending"} <=> media[m].status \in {"none", "pending"}
  BY <1>1, <1>5, Lives DEF BlockMedia, UnblockMedia, Medium
<1>6. QED
  BY <1>2, <1>3, <1>4, <1>5

LEMMA UploadIs == ASSUME RetentionInv, NEW m \in Media, Upload(m) PROVE Custody!Upload(m)
<1>1. /\ media \in [Media -> Medium] /\ media[m].status = "none"
      /\ media' = [media EXCEPT ![m].status = "pending"]
      /\ UNCHANGED <<report, link>>
  BY DEF Upload, RetentionInv, TypeOK
<1>2. media'[m].status = "pending" /\ \A n \in Media : n # m => media'[n] = media[n]
  BY <1>1 DEF Medium
<1>3. LifeOf' = [LifeOf EXCEPT ![m] = "loose"] /\ LifeOf[m] = "absent"
  BY <1>1, <1>2, Lives DEF LifeOf
<1>4. HoldersOf' = HoldersOf /\ Over' = Over
  BY <1>1 DEF HoldersOf, Over
<1>5. LateOnes' = LateOnes
  BY <1>1, <1>2 DEF LateOnes
<1>6. QED
  BY <1>3, <1>4, <1>5 DEF Custody!Upload, LifeOf, HoldersOf, LateOnes

LEMMA ShredIs == ASSUME RetentionInv, NEW m \in Media, Shred(m) PROVE Custody!Destroy(m)
<1>1. /\ media \in [Media -> Medium] /\ media' = [media EXCEPT ![m].status = "deleted"]
      /\ UNCHANGED <<report, link>> /\ m \in expiry.due
  BY DEF Shred, RetentionInv, TypeOK
<1>2. /\ media'[m].status = "deleted" /\ media'[m].ttl = media[m].ttl
      /\ media[m].status \in {"pending", "available", "blocked"} /\ \A n \in Media : n # m => media'[n] = media[n]
  BY <1>1 DEF Medium, MediaStatus, RetentionInv, BatchesSound
<1>3. LifeOf' = [LifeOf EXCEPT ![m] = "gone"] /\ LifeOf[m] \in {"loose", "kept"}
  BY <1>1, <1>2, Lives DEF LifeOf
<1>4. HoldersOf' = HoldersOf /\ Over' = Over
  BY <1>1 DEF HoldersOf, Over
<1>5. LateOnes' = LateOnes
  BY <1>1, <1>2 DEF LateOnes, RetentionInv, EvidenceSound
<1>6. LifeOf[m] = "loose" \/ HoldersOf[m] \subseteq Over \/ m \in LateOnes
  BY <1>1, <1>2, Lives DEF LifeOf, HoldersOf, LateOnes, Over, RetentionInv, BatchesSound
<1>7. QED
  BY <1>3, <1>4, <1>5, <1>6 DEF Custody!Destroy, LifeOf, HoldersOf, LateOnes

LEMMA AttachIs ==
    ASSUME RetentionInv, NEW r \in Reqs, AttachCommit(r)
    PROVE  \E m \in Media, c \in Cases : Custody!Enter(m, c)
<1>1. rq[r].op = "attach" /\ rq[r].op # "idle"
  BY DEF AttachCommit, At
<1>2. PICK c \in Cases, m \in Media : c = rq[r].case /\ m = rq[r].medium /\ report[c] \in Report
  BY <1>1, CaseInHand DEF Sound
<1>3. report[c].term # 0
  BY <1>1, <1>2, CaseInHand DEF Sound
<1>4. /\ media[m].status = "pending" /\ link' = link \cup {<<c, m>>}
      /\ media' = [media EXCEPT ![m].status = "available"]
      /\ report' = [report EXCEPT ![c].trail = @ \cup {"media_attached"}]
  BY <1>2 DEF AttachCommit, Case
<1>5. /\ media \in [Media -> Medium] /\ report \in [Cases -> Report]
      /\ \A d \in Cases : <<d, m>> \notin link
  BY <1>4 DEF RetentionInv, TypeOK, EvidenceSound
<1>6. /\ media'[m].status = "available" /\ media'[m].ttl = media[m].ttl
      /\ \A n \in Media : n # m => media'[n] = media[n]
  BY <1>4, <1>5 DEF Medium
<1>7. \A d \in Cases : report'[d].term = report[d].term
  BY <1>4, <1>5 DEF Report
<1>8. LifeOf' = [LifeOf EXCEPT ![m] = "kept"] /\ LifeOf[m] = "loose"
  <2>1. LifeOf[m] = "loose"
    BY <1>4, Lives DEF LifeOf
  <2>2. \A n \in Media : LifeOf'[n] = IF n = m THEN "kept" ELSE LifeOf[n]
    BY <1>6, Lives DEF LifeOf
  <2>3. QED
    BY <2>1, <2>2 DEF LifeOf
<1>9. \A d \in Cases, n \in Media : <<d, n>> \in link' <=> (<<d, n>> \in link \/ (d = c /\ n = m))
  BY <1>4
<1>10. HoldersOf' = [HoldersOf EXCEPT ![m] = {c}]
  <2>1. ASSUME NEW n \in Media PROVE HoldersOf'[n] = IF n = m THEN {c} ELSE HoldersOf[n]
    <3>1. /\ HoldersOf'[n] = {d \in Cases : <<d, n>> \in link'}
          /\ HoldersOf[n] = {d \in Cases : <<d, n>> \in link}
      BY DEF HoldersOf
    <3>2. QED
      BY <1>5, <1>9, <3>1
  <2>2. QED
    BY <2>1 DEF HoldersOf
<1>11. Over' = Over /\ c \notin Over
  BY <1>3, <1>7 DEF Over
<1>12. LateOnes' \in {LateOnes, LateOnes \cup {m}}
  <2>1. m \notin LateOnes
    BY <1>4 DEF LateOnes
  <2>2. \A n \in Media : n # m => (n \in LateOnes' <=> n \in LateOnes)
    BY <1>6, <1>9 DEF LateOnes
  <2>3. LateOnes \subseteq Media /\ LateOnes' \subseteq Media
    BY DEF LateOnes
  <2>4. QED
    BY <2>1, <2>2, <2>3
<1>13. Custody!Enter(m, c)
  BY <1>8, <1>10, <1>11, <1>12 DEF Custody!Enter, LifeOf, HoldersOf, LateOnes
<1>14. QED
  BY <1>13

LEMMA DayIs == ASSUME RetentionInv, NextDay PROVE Custody!RetentionEnds
<1>1. /\ report \in [Cases -> Report] /\ media \in [Media -> Medium]
      /\ report' = [c \in Cases |-> [report[c] EXCEPT !.left = Tick(@), !.term = Tick(@)]]
      /\ media' = [m \in Media |-> [media[m] EXCEPT !.left = Tick(@),
                                      !.ttl = IF media[m].status = "pending" THEN Tick(@) ELSE @]]
      /\ UNCHANGED link
  BY DEF NextDay, RetentionInv, TypeOK
<1>2. \A c \in Cases : report'[c].term = Tick(report[c].term) /\ report[c].term \in Days
  BY <1>1 DEF Report
<1>3. Over \subseteq Over' /\ Over' \subseteq Cases
  BY <1>2, Ticks DEF Over
<1>4. \A m \in Media : media'[m].status = media[m].status /\ (media[m].status # "pending" => media'[m].ttl = media[m].ttl)
  BY <1>1 DEF Medium
<1>5. LifeOf' = LifeOf /\ HoldersOf' = HoldersOf /\ LateOnes' = LateOnes
  <2>1. LifeOf' = LifeOf
    BY <1>4 DEF LifeOf
  <2>2. HoldersOf' = HoldersOf
    BY <1>1 DEF HoldersOf
  <2>3. \A m \in Media : m \in LateOnes' <=> m \in LateOnes
    BY <1>1, <1>4 DEF LateOnes
  <2>4. QED
    BY <2>1, <2>2, <2>3 DEF LateOnes
<1>6. QED
  BY <1>3, <1>5 DEF Custody!RetentionEnds, LifeOf, HoldersOf, LateOnes

LEMMA CustodyStep == ASSUME RetentionInv, [Next]_vars PROVE [Custody!Next]_(Custody!custodyVars)
<1>1. ASSUME UNCHANGED <<report, media, link>> PROVE UNCHANGED Custody!custodyVars
  BY <1>1, CustodyRests
<1>2. ASSUME UNCHANGED <<media, link>>,
             \/ \E r \in Reqs : EditWrite(r) \/ EditTimeline(r) \/ MarkResolved(r) \/ FreezeCase(r) \/ UnfreezeCase(r)
             \/ \E c \in Cases : SubmitReport(c) \/ PurgeReport(c)
      PROVE  UNCHANGED Custody!custodyVars
  <2>1. \A c \in Cases : report'[c].term = 0 <=> report[c].term = 0
    BY <1>2, TermsRest
  <2>2. QED
    BY <1>2, <2>1, CustodyRests
<1>3. ASSUME UNCHANGED <<report, link>>,
             \/ \E r \in Reqs : StampAttachedMediaExpiry(r) \/ FreezeMedia(r) \/ UnfreezeMedia(r)
             \/ \E n \in Media : BlockMedia(n) \/ UnblockMedia(n)
      PROVE  UNCHANGED Custody!custodyVars
  <2>1. \A m \in Media :
           /\ Life[media'[m].status] = Life[media[m].status] /\ media'[m].ttl = media[m].ttl
           /\ media'[m].status \in {"none", "pending"} <=> media[m].status \in {"none", "pending"}
    BY <1>3, EvidenceRests
  <2>2. QED
    BY <1>3, <2>1, CustodyRests
<1>4. ASSUME NEW r \in Reqs, Handler(r) \/ Drop(r) PROVE [Custody!Next]_(Custody!custodyVars)
  <2>1. CASE Edit(r)
    BY <1>1, <1>2, <2>1 DEF Edit, EditBegin, EditWrite, EditTimeline
  <2>2. CASE Resolve(r)
    BY <1>1, <1>2, <1>3, <2>2 DEF Resolve, ResolveBegin, MarkResolved, StampAttachedMediaExpiry
  <2>3. CASE Attach(r)
    <3>1. CASE AttachCommit(r)
      BY <3>1, AttachIs DEF Custody!Next
    <3>2. CASE ~AttachCommit(r)
      BY <1>1, <2>3, <3>2 DEF Attach, AttachBegin, AttachLookup, AttachCount
    <3>3. QED
      BY <3>1, <3>2
  <2>4. CASE Freeze(r)
    BY <1>1, <1>2, <1>3, <2>4 DEF Freeze, FreezeBegin, FreezeCase, FreezeMedia
  <2>5. CASE RequestUnfreeze(r) \/ Drop(r)
    BY <1>1, <2>5
       DEF RequestUnfreeze, RequestUnfreezeBegin, RequestUnfreezeCheck, InsertUnfreezeRequest,
           Drop
  <2>6. CASE ApproveUnfreeze(r)
    BY <1>1, <1>2, <1>3, <2>6 DEF ApproveUnfreeze, ApproveUnfreezeBegin, ApproveUnfreezeCheck,
                                  ApproveUnfreezeRequest, UnfreezeCase, UnfreezeMedia
  <2>7. QED
    BY <1>4, <2>1, <2>2, <2>3, <2>4, <2>5, <2>6 DEF Handler
<1>5. CASE \E c \in Cases : SubmitReport(c)
  BY <1>2, <1>5 DEF SubmitReport
<1>6. CASE \E m \in Media : Upload(m) \/ BlockMedia(m) \/ UnblockMedia(m)
  BY <1>3, <1>6, UploadIs DEF Custody!Next, BlockMedia, UnblockMedia
<1>7. CASE Jobs
  <2>1. CASE \E m \in Media : Shred(m)
    BY <2>1, ShredIs DEF Custody!Next
  <2>2. CASE \E c \in Cases : PurgeReport(c)
    BY <1>2, <2>2 DEF PurgeReport
  <2>3. CASE ExpiryStart \/ ExpirySelect \/ ExpiryDies \/ PurgeStart \/ PurgeSelect \/ PurgeDies
    BY <1>1, <2>3 DEF ExpiryStart, ExpirySelect, ExpiryDies, PurgeStart, PurgeSelect, PurgeDies
  <2>4. QED
    BY <1>7, <2>1, <2>2, <2>3 DEF Jobs
<1>8. CASE NextDay
  BY <1>8, DayIs DEF Custody!Next
<1>9. CASE UNCHANGED vars
  BY <1>1, <1>9 DEF vars
<1>10. QED
  BY <1>4, <1>5, <1>6, <1>7, <1>8, <1>9 DEF Next

\* The rows and jobs implement EvidenceCustody: evidence enters one case, once, and is
\* destroyed loose, or with a case whose retention is over, or when its own time is.
THEOREM CustodyKept == Spec => KeepsCustody
<1>1. Init => RetentionInv /\ Custody!Init
  BY RetentionStart, CustodyStarts
<1>2. RetentionInv /\ [Next]_vars => RetentionInv' /\ [Custody!Next]_(Custody!custodyVars)
  BY RetentionStep, CustodyStep
<1>3. QED
  BY <1>1, <1>2, PTL DEF Spec, KeepsCustody, Custody!Spec

=============================================================================
