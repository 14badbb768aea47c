---------------------------- MODULE LegalProofs ----------------------------
(***************************************************************************)
(* Legal policy and the gate, for any catalogue, cache windows, number of  *)
(* questions and overlapping requests of the administration.               *)
(*                                                                         *)
(* The invariant of the policy says of an approval in flight what it has   *)
(* read of its rule: neither the rule's proposer nor its capability        *)
(* changes once proposed.  The invariant of the gate bounds how long ago a *)
(* rule was last in force by how old the copy of it is: in the cache, in   *)
(* the hand of a question that found an old entry, and in an answer of the *)
(* database not yet stored.                                                *)
(***************************************************************************)
EXTENDS LegalGate, TLAPS, FiniteSetTheorems

USE PolicyAssumption, GateAssumption

----------------------------------------------------------------------------
(* LegalPolicy                                                             *)


\* An approval or a rejection is about a rule, and a manager makes it.
Named(q) == q.op \in {"approve", "reject"} => q.who \in Managers /\ q.rule \in RuleIds

\* What an approval compared is what the table says: the approver is not the
\* proposer of the rule.
Compared(q, table) ==
    q.op = "approve" => /\ table[q.rule].state # "none"
                        /\ table[q.rule].by = q.by
                        /\ q.who # q.by

OneActive ==
    \A j, k \in RuleIds :
        rules[j].state = "active" /\ rules[k].state = "active" /\ rules[j].cap = rules[k].cap
            => j = k

RulesOK == rules \in [RuleIds -> Rule] /\ RuleByTwo /\ OneActive

RequestsOK == rq \in [Reqs -> Request] /\ \A r \in Reqs : Named(rq[r]) /\ Compared(rq[r], rules)

JurisdictionOK == jurisdiction \in [state : States, pending : States \cup {None},
                                   pendingBy : Managers \cup {None}]

PolicyInv == RulesOK /\ RequestsOK /\ JurisdictionOK

----------------------------------------------------------------------------
(* The forms of update                                                     *)

\* No action but the insertion of a proposal touches a rule that does not
\* exist; what one that does declares stays, and so does its proposer.
Grows ==
    \A k \in RuleIds : rules[k].state # "none" =>
        /\ rules'[k].state # "none"
        /\ rules'[k].by = rules[k].by
        /\ rules'[k].cap = rules[k].cap
        /\ rules'[k].status = rules[k].status
        /\ rules[k].lapsed => rules'[k].lapsed

LEMMA IdleRequest == Idle \in Request /\ Idle.op = "idle"
BY DEF Idle, Request, States

LEMMA RulesRest == ASSUME UNCHANGED rules, RulesOK PROVE RulesOK' /\ Grows
BY DEF RulesOK, Grows, RuleByTwo, OneActive

LEMMA RequestsRest == ASSUME UNCHANGED rq, RequestsOK, Grows PROVE RequestsOK'
BY DEF RequestsOK, Named, Compared, Grows

LEMMA BeginKeeps ==
    ASSUME RequestsOK, Grows, NEW r \in Reqs, NEW q \in Request, Begin(r, q),
           Named(q), Compared(q, rules)
    PROVE  RequestsOK'
<1>1. rq' = [rq EXCEPT ![r] = q]
  BY DEF Begin
<1>2. ASSUME NEW s \in Reqs PROVE Named(rq'[s]) /\ Compared(rq'[s], rules')
  BY <1>1 DEF RequestsOK, Named, Compared, Grows
<1>3. QED
  BY <1>1, <1>2 DEF RequestsOK, Named, Compared

LEMMA FinishKeeps ==
    ASSUME RequestsOK, Grows, NEW r \in Reqs, Finish(r)
    PROVE  RequestsOK'
<1>1. rq' = [rq EXCEPT ![r] = Idle]
  BY DEF Finish
<1>2. QED
  BY <1>1, IdleRequest DEF RequestsOK, Named, Compared, Grows

LEMMA GotoKeeps ==
    ASSUME RequestsOK, Grows, NEW r \in Reqs, NEW p \in {"activate", "invalidate"}, Goto(r, p)
    PROVE  RequestsOK'
<1> DEFINE q == [rq[r] EXCEPT !.pc = p]
<1>1. q \in Request /\ q.op = rq[r].op /\ q.who = rq[r].who /\ q.by = rq[r].by /\ q.rule = rq[r].rule
  BY DEF RequestsOK, Request
<1>2. rq' = [rq EXCEPT ![r] = q]
  BY DEF Goto
<1> HIDE DEF q
<1>3. QED
  BY <1>1, <1>2 DEF RequestsOK, Named, Compared, Grows

----------------------------------------------------------------------------
(* Rules                                                                   *)

\* The rows the statements write.
Proposed(c, s, m)  == [NoRule EXCEPT !.state = "proposed", !.cap = c, !.status = s, !.by = m]
Decided(w, st, m)  == [w EXCEPT !.state = st, !.approvedBy = m]
Superseded(w)      == [w EXCEPT !.state = "superseded"]
Lapsed(w)          == [w EXCEPT !.lapsed = TRUE]

LEMMA NewRule ==
    ASSUME NEW c \in Capabilities \cup {None}, NEW s \in Statuses, NEW m \in Managers \cup {None}
    PROVE  Proposed(c, s, m) \in Rule /\ Proposed(c, s, m).state = "proposed"
BY DEF Proposed, NoRule, Rule, RuleStates, Statuses

LEMMA DecidedRule ==
    ASSUME NEW w \in Rule, NEW m \in Managers, NEW st \in {"active", "rejected"}
    PROVE  /\ Decided(w, st, m) \in Rule
           /\ Decided(w, st, m).state = st /\ Decided(w, st, m).approvedBy = m
           /\ Decided(w, st, m).by = w.by /\ Decided(w, st, m).cap = w.cap
           /\ Decided(w, st, m).status = w.status /\ Decided(w, st, m).lapsed = w.lapsed
BY DEF Decided, Rule, RuleStates

LEMMA SupersededRule ==
    ASSUME NEW w \in Rule
    PROVE  /\ Superseded(w) \in Rule /\ Superseded(w).state = "superseded"
           /\ Superseded(w).by = w.by /\ Superseded(w).cap = w.cap
           /\ Superseded(w).status = w.status /\ Superseded(w).lapsed = w.lapsed
BY DEF Superseded, Rule, RuleStates

LEMMA LapsedRule ==
    ASSUME NEW w \in Rule
    PROVE  /\ Lapsed(w) \in Rule /\ Lapsed(w).state = w.state /\ Lapsed(w).by = w.by
           /\ Lapsed(w).cap = w.cap /\ Lapsed(w).approvedBy = w.approvedBy
           /\ Lapsed(w).status = w.status /\ Lapsed(w).lapsed
BY DEF Lapsed, Rule

LEMMA InsertKeeps ==
    ASSUME PolicyInv, NEW r \in Reqs, InsertProposal(r)
    PROVE  RulesOK' /\ Grows
<1>1. PICK k \in RuleIds, s \in Statuses :
          /\ rules[k].state = "none"
          /\ rules' = [rules EXCEPT ![k] = [NoRule EXCEPT
                !.state = "proposed", !.cap = rq[r].cap, !.status = s, !.by = rq[r].who]]
  BY DEF InsertProposal
<1> DEFINE w == Proposed(rq[r].cap, s, rq[r].who)
<1>2. w \in Rule /\ w.state = "proposed"
  BY NewRule DEF PolicyInv, RequestsOK, Request
<1>3. rules' = [rules EXCEPT ![k] = w]
  BY <1>1 DEF Proposed
<1> HIDE DEF w
<1>4. QED
  BY <1>1, <1>2, <1>3 DEF PolicyInv, RulesOK, Grows, RuleByTwo, OneActive

LEMMA RejectKeeps ==
    ASSUME PolicyInv, NEW r \in Reqs, RejectRule(r)
    PROVE  RulesOK' /\ Grows
<1> DEFINE k == rq[r].rule
           v == Decided(rules[k], "rejected", rq[r].who)
<1>1. k \in RuleIds /\ rq[r].who \in Managers
  BY DEF RejectRule, At, PolicyInv, RequestsOK, Named
<1>2. /\ v \in Rule /\ v.state = "rejected" /\ v.by = rules[k].by /\ v.cap = rules[k].cap
      /\ v.status = rules[k].status /\ v.lapsed = rules[k].lapsed
  BY <1>1, DecidedRule DEF PolicyInv, RulesOK
<1>3. rules' = [rules EXCEPT ![k] = v]
  BY DEF RejectRule, Decided
<1> HIDE DEF v, k
<1>4. QED
  BY <1>1, <1>2, <1>3 DEF PolicyInv, RulesOK, Grows, RuleByTwo, OneActive

LEMMA LapseKeeps ==
    ASSUME PolicyInv, NEW k \in RuleIds, Lapse(k)
    PROVE  RulesOK' /\ Grows
<1> DEFINE v == Lapsed(rules[k])
<1>1. /\ v \in Rule /\ v.state = rules[k].state /\ v.by = rules[k].by /\ v.cap = rules[k].cap
      /\ v.approvedBy = rules[k].approvedBy /\ v.status = rules[k].status /\ v.lapsed
  BY LapsedRule DEF PolicyInv, RulesOK
<1>2. rules' = [rules EXCEPT ![k] = v]
  BY DEF Lapse, Lapsed
<1> HIDE DEF v
<1>3. QED
  BY <1>1, <1>2 DEF PolicyInv, RulesOK, Grows, RuleByTwo, OneActive

LEMMA ActivateKeeps ==
    ASSUME PolicyInv, NEW r \in Reqs, ActivateRule(r)
    PROVE  RulesOK' /\ Grows
<1> DEFINE k == rq[r].rule
           S == RulesIn("active", rules[k].cap)
           A == Decided(rules[k], "active", rq[r].who)
           D(j) == Superseded(rules[j])
<1>1. /\ k \in RuleIds /\ rq[r].who \in Managers
      /\ rules[k].state # "none" /\ rules[k].by = rq[r].by /\ rq[r].who # rq[r].by
  BY DEF ActivateRule, At, PolicyInv, RequestsOK, Named, Compared
<1>2. rules' = [j \in RuleIds |-> IF j = k THEN A ELSE IF j \in S THEN D(j) ELSE rules[j]]
  BY <1>1 DEF ActivateRule, PolicyInv, RulesOK, Decided, Superseded
<1>3. /\ A \in Rule /\ A.state = "active" /\ A.by = rules[k].by /\ A.cap = rules[k].cap
      /\ A.approvedBy = rq[r].who /\ A.status = rules[k].status /\ A.lapsed = rules[k].lapsed
  BY <1>1, DecidedRule DEF PolicyInv, RulesOK
<1>4. \A j \in RuleIds : D(j) \in Rule /\ D(j).state = "superseded" /\ D(j).by = rules[j].by
                         /\ D(j).cap = rules[j].cap /\ D(j).status = rules[j].status
                         /\ D(j).lapsed = rules[j].lapsed
  BY SupersededRule DEF PolicyInv, RulesOK
<1>5. \A j \in RuleIds : j \in S <=> rules[j].state = "active" /\ rules[j].cap = rules[k].cap
  BY DEF RulesIn
<1> HIDE DEF A, D, S, k
<1>6. rules' \in [RuleIds -> Rule]
  BY <1>2, <1>3, <1>4 DEF PolicyInv, RulesOK
<1>7. Grows
  BY <1>1, <1>2, <1>3, <1>4 DEF Grows
<1>8. RuleByTwo'
  BY <1>1, <1>2, <1>3, <1>4, PolicyAssumption DEF PolicyInv, RulesOK, RuleByTwo
<1>9. OneActive'
  BY <1>1, <1>2, <1>3, <1>4, <1>5 DEF PolicyInv, RulesOK, OneActive
<1>10. QED
  BY <1>6, <1>7, <1>8, <1>9 DEF RulesOK

----------------------------------------------------------------------------
(* The requests                                                            *)

LEMMA ApproveRequest ==
    ASSUME PolicyInv, NEW m \in Managers, NEW k \in RuleIds, rules[k].state = "proposed",
           rules[k].by # m
    PROVE  LET q == [Idle EXCEPT !.op = "approve", !.pc = "dependencies", !.who = m,
                                 !.by = rules[k].by, !.rule = k]
           IN  q \in Request /\ Named(q) /\ Compared(q, rules)
<1>1. rules[k].by \in Managers \cup {None}
  BY DEF PolicyInv, RulesOK, Rule
<1>2. QED
  BY <1>1 DEF Idle, Request, States, Named, Compared

LEMMA OtherRequests ==
    ASSUME NEW m \in Managers, NEW b \in Managers \cup {None}, NEW c \in Capabilities \cup {None},
           NEW k \in RuleIds \cup {0}, NEW t \in States, NEW p \in {"apply", "pend"}
    PROVE  /\ [Idle EXCEPT !.op = "propose", !.pc = "insert", !.who = m, !.by = m, !.cap = c] \in Request
           /\ [Idle EXCEPT !.op = "reject", !.pc = "write", !.who = m, !.rule = k] \in Request
           /\ [Idle EXCEPT !.op = "request", !.who = m, !.by = m, !.target = t, !.pc = p] \in Request
           /\ [Idle EXCEPT !.op = "confirm", !.pc = "apply", !.who = m, !.by = b, !.target = t] \in Request
BY DEF Idle, Request, States

LEMMA PolicyStep ==
    ASSUME PolicyInv, PolicyNext
    PROVE  PolicyInv' /\ Grows
<1> USE DEF PolicyInv
<1>1. ASSUME NEW k \in RuleIds, Lapse(k) PROVE PolicyInv' /\ Grows
  BY <1>1, LapseKeeps, RequestsRest DEF Lapse, JurisdictionOK
<1>2. ASSUME NEW r \in Reqs, NEW m \in Managers, NEW c \in Capabilities, ProposeBegin(r, m, c)
      PROVE  PolicyInv' /\ Grows
  <2> DEFINE q == [Idle EXCEPT !.op = "propose", !.pc = "insert", !.who = m, !.by = m, !.cap = c]
  <2>1. q \in Request /\ q.op = "propose"
    BY OtherRequests DEF Idle, States
  <2>2. Begin(r, q) /\ UNCHANGED <<rules, jurisdiction>>
    BY <1>2 DEF ProposeBegin
  <2> HIDE DEF q
  <2>3. QED
    BY <2>1, <2>2, RulesRest, BeginKeeps DEF Named, Compared, JurisdictionOK
<1>3. ASSUME NEW r \in Reqs, InsertProposal(r) PROVE PolicyInv' /\ Grows
  BY <1>3, InsertKeeps, FinishKeeps DEF InsertProposal, JurisdictionOK
<1>4. ASSUME NEW r \in Reqs, NEW m \in Managers, NEW k \in RuleIds, ApproveBegin(r, m, k)
      PROVE  PolicyInv' /\ Grows
  <2> DEFINE q == [Idle EXCEPT !.op = "approve", !.pc = "dependencies", !.who = m,
                               !.by = rules[k].by, !.rule = k]
  <2>1. q \in Request /\ Named(q) /\ Compared(q, rules)
    BY <1>4, ApproveRequest DEF ApproveBegin
  <2>2. Begin(r, q) /\ UNCHANGED <<rules, jurisdiction>>
    BY <1>4 DEF ApproveBegin
  <2> HIDE DEF q
  <2>3. QED
    BY <2>1, <2>2, RulesRest, BeginKeeps DEF JurisdictionOK
<1>5. ASSUME NEW r \in Reqs, AssertDependenciesCoherent(r) PROVE PolicyInv' /\ Grows
  BY <1>5, RulesRest, GotoKeeps DEF AssertDependenciesCoherent, JurisdictionOK
<1>6. ASSUME NEW r \in Reqs, ActivateRule(r) PROVE PolicyInv' /\ Grows
  BY <1>6, ActivateKeeps, GotoKeeps DEF ActivateRule, JurisdictionOK
<1>7. ASSUME NEW r \in Reqs, NEW m \in Managers, NEW k \in RuleIds, RejectBegin(r, m, k)
      PROVE  PolicyInv' /\ Grows
  <2> DEFINE q == [Idle EXCEPT !.op = "reject", !.pc = "write", !.who = m, !.rule = k]
  <2>1. q \in Request /\ q.op = "reject" /\ q.who = m /\ q.rule = k
    <3>1. q \in Request
      BY DEF Idle, Request, States
    <3>2. QED
      BY <3>1 DEF Idle
  <2>2. Begin(r, q) /\ UNCHANGED <<rules, jurisdiction>>
    BY <1>7 DEF RejectBegin
  <2> HIDE DEF q
  <2>3. QED
    BY <2>1, <2>2, RulesRest, BeginKeeps DEF Named, Compared, JurisdictionOK
<1>8. ASSUME NEW r \in Reqs, RejectRule(r) PROVE PolicyInv' /\ Grows
  BY <1>8, RejectKeeps, FinishKeeps DEF RejectRule, JurisdictionOK
<1>9. ASSUME NEW r \in Reqs, NEW m \in Managers, NEW t \in States, RequestState(r, m, t)
      PROVE  PolicyInv' /\ Grows
  <2> DEFINE p == IF STATE_RANK[t] >= STATE_RANK[jurisdiction.state] THEN "apply" ELSE "pend"
             q == [Idle EXCEPT !.op = "request", !.who = m, !.by = m, !.target = t, !.pc = p]
  <2>1. p \in {"apply", "pend"}
    OBVIOUS
  <2>2. Begin(r, q) /\ UNCHANGED <<rules, jurisdiction>>
    BY <1>9 DEF RequestState
  <2> HIDE DEF p
  <2>3. q \in Request /\ q.op = "request"
    BY <2>1 DEF Idle, Request, States
  <2> HIDE DEF q
  <2>4. QED
    BY <2>2, <2>3, RulesRest, BeginKeeps DEF Named, Compared, JurisdictionOK
<1>10. ASSUME NEW r \in Reqs, NEW m \in Managers, ConfirmState(r, m) PROVE PolicyInv' /\ Grows
  <2> DEFINE q == [Idle EXCEPT !.op = "confirm", !.pc = "apply", !.who = m,
                               !.by = jurisdiction.pendingBy, !.target = jurisdiction.pending]
  <2>1. jurisdiction.pendingBy \in Managers \cup {None} /\ jurisdiction.pending \in States
    BY <1>10 DEF ConfirmState, JurisdictionOK
  <2>2. q \in Request /\ q.op = "confirm"
    BY <2>1 DEF Idle, Request, States
  <2>3. Begin(r, q) /\ UNCHANGED <<rules, jurisdiction>>
    BY <1>10 DEF ConfirmState
  <2> HIDE DEF q
  <2>4. QED
    BY <2>2, <2>3, RulesRest, BeginKeeps DEF Named, Compared, JurisdictionOK
<1>11. ASSUME NEW r \in Reqs, ApplyState(r) PROVE PolicyInv' /\ Grows
  <2>1. JurisdictionOK'
    BY <1>11 DEF ApplyState, JurisdictionOK, RequestsOK, Request
  <2>2. QED
    BY <1>11, <2>1, RulesRest, FinishKeeps DEF ApplyState
<1>12. ASSUME NEW r \in Reqs, SetPendingState(r) PROVE PolicyInv' /\ Grows
  <2>1. JurisdictionOK'
    BY <1>12 DEF SetPendingState, JurisdictionOK, RequestsOK, Request
  <2>2. QED
    BY <1>12, <2>1, RulesRest, FinishKeeps DEF SetPendingState
<1>13. ASSUME NEW r \in Reqs, Drop(r) \/ Invalidated(r) PROVE PolicyInv' /\ Grows
  BY <1>13, RulesRest, FinishKeeps DEF Drop, Invalidated, JurisdictionOK
<1>14. QED
  BY <1>1, <1>2, <1>3, <1>4, <1>5, <1>6, <1>7, <1>8, <1>9, <1>10, <1>11, <1>12, <1>13
     DEF PolicyNext, Administer, Propose, Approve, Reject, State

LEMMA PolicyStutter == ASSUME PolicyInv, UNCHANGED policyVars PROVE PolicyInv' /\ Grows
BY RulesRest, RequestsRest DEF PolicyInv, policyVars, JurisdictionOK

LEMMA PolicyStart == PolicyInit => PolicyInv
BY IdleRequest DEF PolicyInit, PolicyInv, RulesOK, RequestsOK, JurisdictionOK, NoRule, Rule,
   RuleStates, Statuses, States, RuleByTwo, OneActive, Named, Compared

----------------------------------------------------------------------------
(* Theorems                                                                *)

LEMMA InvariantHolds == PolicySpec => []PolicyInv
<1>1. PolicyInv /\ [PolicyNext]_policyVars => PolicyInv'
  BY PolicyStep, PolicyStutter
<1>2. QED
  BY <1>1, PolicyStart, PTL DEF PolicySpec

LEMMA OneActiveCounts == RulesOK => OneInForce
<1> SUFFICES ASSUME RulesOK, NEW c \in Capabilities
             PROVE  Cardinality(RulesIn("active", c)) <= 1
  BY DEF OneInForce
<1> DEFINE S == RulesIn("active", c)
<1>1. \A j, k \in S : j = k
  BY DEF RulesIn, RulesOK, OneActive
<1>2. CASE S = {}
  BY <1>2, FS_EmptySet
<1>3. CASE S # {}
  <2>1. PICK k : S = {k}
    BY <1>1, <1>3
  <2>2. QED
    BY <2>1, FS_Singleton
<1>4. QED
  BY <1>2, <1>3

\* Every row and every panel request stays what its table or handler allows,
\* through every interleaving of the handlers of the legal-policy service.
THEOREM PolicyTypeCorrect == PolicySpec => []PolicyTypeOK
<1>1. PolicyInv => PolicyTypeOK
  BY DEF PolicyInv, RulesOK, RequestsOK, JurisdictionOK, PolicyTypeOK
<1>2. QED
  BY <1>1, InvariantHolds, PTL

\* Decision 107: no rule is ever in force that the same manager proposed and
\* approved, for any number of managers, rules and overlapping requests.
THEOREM RulesNeedTwo == PolicySpec => []RuleByTwo
<1>1. PolicyInv => RuleByTwo
  BY DEF PolicyInv, RulesOK
<1>2. QED
  BY <1>1, InvariantHolds, PTL

\* activateRule: approvals of side-by-side proposals leave one rule in force.
THEOREM NeverTwoInForce == PolicySpec => []OneInForce
<1>1. PolicyInv => OneInForce
  BY OneActiveCounts DEF PolicyInv
<1>2. QED
  BY <1>1, InvariantHolds, PTL

----------------------------------------------------------------------------
(* LegalGate                                                               *)


\* Rule k exists and is about capability c.
About(k, c) == k \in RuleIds /\ rules[k].state # "none" /\ rules[k].cap = c

\* An answer about c whose rule, if it names one, was in force n ticks ago or later.
Recent(k, c, n) == k = 0 \/ (About(k, c) /\ since[k] <= n)

\* What has let a question through that was asked n ticks ago.
Sound(b, n) ==
    IF b.rule = 0 THEN sandbox
    ELSE /\ About(b.rule, b.of)
         /\ rules[b.rule].status # "blocked" \/ (sandbox /\ rules[b.rule].lapsed)
         /\ since[b.rule] < b.window + n

\* The capability under evaluation is the one asked for, or the one it requires
\* once it has been let through itself.
InTurn(q) ==
    \/ q.of = q.cap
    \/ q.cap \in DOMAIN Requires /\ q.of = Requires[q.cap] /\ \E b \in q.basis : b.of = q.cap

Copies(q) ==
    /\ q.pc = "query" /\ q.kept.known => Recent(q.kept.rule, q.of, q.kept.age + q.clock)
    /\ q.pc = "settle" => Recent(q.answer, q.of, q.clock)

Opened(q) == q.pc \in {"rule", "query", "settle"} \/ jurisdiction.state # "suspended" => q.open

GateOK(q) ==
    q.pc # "idle" =>
        /\ q.cap \in Capabilities /\ q.of \in Capabilities
        /\ q.clock <= q.age
        /\ InTurn(q) /\ Copies(q) /\ Opened(q)
        /\ \A b \in q.basis : Sound(b, q.age)

CacheOK ==
    \A c \in Capabilities : cache[c].known =>
        cache[c].age < Stale /\ Recent(cache[c].rule, c, cache[c].age)

SinceOK == \A k \in RuleIds : rules[k].state = "active" => since[k] = 0

GateTypes ==
    /\ sandbox \in BOOLEAN
    /\ cache \in [Capabilities -> Entry]
    /\ gates \in [Gates -> Gate]
    /\ since \in [RuleIds -> Ages]

GateInv == GateTypes /\ CacheOK /\ SinceOK /\ \A g \in Gates : GateOK(gates[g])

----------------------------------------------------------------------------
(* Ages                                                                    *)

LEMMA Bounds == Ttl \in Nat \ {0} /\ Degraded \in Nat \ {0} /\ Stale \in Nat \ {0} /\ Old \in Nat
                /\ Stale <= Old /\ Ttl <= Stale /\ Degraded <= Stale
BY DEF Stale, Old

LEMMA OlderAge == ASSUME NEW n \in Ages
                  PROVE  Older(n) \in Ages /\ Older(n) <= n + 1 /\ (n < Stale => Older(n) = n + 1)
BY Bounds DEF Older, Ages

LEMMA KeptEntry ==
    ASSUME NEW e \in [known : BOOLEAN, rule : {0} \cup RuleIds, age : Nat]
    PROVE  /\ Kept(e) \in Entry
           /\ Kept(e).known => Kept(e) = e /\ e.age < Stale
BY Bounds DEF Kept, Entry, NoEntry, Ages

----------------------------------------------------------------------------
(* The records of a question                                               *)

LEMMA NoEntryIsEntry == NoEntry \in Entry /\ ~NoEntry.known
BY Bounds DEF NoEntry, Entry, Ages

LEMMA NoGateIsGate == NoGate \in Gate /\ NoGate.pc = "idle"
BY NoEntryIsEntry DEF NoGate, Gate, States

LEMMA EvaluateGate ==
    ASSUME NEW q \in Gate, NEW c \in Capabilities
    PROVE  LET e == Evaluate(q, c) IN
           /\ e \in Gate /\ e.pc = "jurisdiction" /\ e.of = c /\ e.cap = q.cap
           /\ e.open = (jurisdiction.state # "suspended")
           /\ e.clock = 0 /\ e.basis = q.basis /\ e.age = q.age
BY NoEntryIsEntry DEF Evaluate, Gate

Grounds(q, b) == [q EXCEPT !.basis = @ \cup {b}]

LEMMA GroundsGate ==
    ASSUME NEW q \in Gate, NEW b \in Ground
    PROVE  LET e == Grounds(q, b) IN
           /\ e \in Gate /\ e.pc = q.pc /\ e.of = q.of /\ e.cap = q.cap /\ e.open = q.open
           /\ e.clock = q.clock /\ e.basis = q.basis \cup {b} /\ e.age = q.age
BY DEF Grounds, Gate

Allowed(q) == [q EXCEPT !.pc = "allowed", !.kept = NoEntry, !.clock = 0, !.answer = 0]

LEMMA AllowedGate ==
    ASSUME NEW q \in Gate
    PROVE  LET e == Allowed(q) IN
           /\ e \in Gate /\ e.pc = "allowed" /\ e.of = q.of /\ e.cap = q.cap /\ e.open = q.open
           /\ e.clock = 0 /\ e.basis = q.basis /\ e.age = q.age
BY NoEntryIsEntry DEF Allowed, Gate

----------------------------------------------------------------------------
(* The judgement                                                           *)

\* What NoStaleAllowance says of an allowed question.
Needs(c) == {c} \cup {Requires[d] : d \in {c} \cap DOMAIN Requires}
Grounded(q) == /\ \A c \in Needs(q.cap) : \E b \in q.basis : b.of = c
               /\ \A b \in q.basis : Sound(b, q.age)

LEMMA JudgedOK ==
    ASSUME GateTypes, NEW g \in Gates, GateOK(gates[g]), gates[g].pc \in {"rule", "query", "settle"},
           NEW k \in {0} \cup RuleIds, NEW w \in {Ttl, Degraded}, NEW n \in Int,
           Recent(k, gates[g].of, n), n < w + gates[g].age
    PROVE  LET e == Judged(g, k, w) IN
           /\ e \in Gate /\ GateOK(e)
           /\ e.pc = "allowed" => Grounded(e) /\ gates[g].open /\ e.open = gates[g].open
<1> DEFINE q == gates[g]
           b == [of |-> q.of, rule |-> k, window |-> w]
           next == Grounds(q, b)
           e == Judged(g, k, w)
<1> SUFFICES /\ e \in Gate /\ GateOK(e)
             /\ e.pc = "allowed" => Grounded(e) /\ q.open /\ e.open = q.open
  OBVIOUS
<1>1. q \in Gate /\ q.cap \in Capabilities /\ q.of \in Capabilities /\ q.age \in Nat
  BY DEF GateTypes, GateOK, Gate
<1>2. q.open /\ InTurn(q) /\ \A x \in q.basis : Sound(x, q.age)
  BY DEF GateOK, Opened
<1>3. b \in Ground /\ b.of = q.of /\ b.rule = k /\ b.window = w
  BY <1>1 DEF Ground
<1>4. /\ next \in Gate /\ next.cap = q.cap /\ next.of = q.of /\ next.open = q.open
      /\ next.basis = q.basis \cup {b} /\ next.age = q.age
  BY <1>1, <1>3, GroundsGate
<1>5. e = IF ~Permits(k, q.state) THEN NoGate
          ELSE IF q.of \in DOMAIN Requires THEN Evaluate(next, Requires[q.of])
          ELSE Allowed(next)
  BY DEF Judged, Grounds, Allowed
<1>6. k = 0 \/ since[k] \in Int
  BY Bounds DEF GateTypes, Ages
<1>7. Permits(k, q.state) => Sound(b, q.age)
  BY <1>1, <1>3, <1>6, Bounds DEF Permits, Sound, Recent, About
<1> HIDE DEF q, b, next, e
<1>8. CASE ~Permits(k, q.state)
  BY <1>5, <1>8, NoGateIsGate DEF GateOK
<1>9. CASE Permits(k, q.state) /\ q.of \in DOMAIN Requires
  <2>1. Requires[q.of] \in Capabilities \ DOMAIN Requires /\ q.of = q.cap
    BY <1>2, <1>9 DEF InTurn
  <2>2. /\ e \in Gate /\ e.pc = "jurisdiction" /\ e.of = Requires[q.of] /\ e.cap = q.cap
        /\ e.open = (jurisdiction.state # "suspended")
        /\ e.clock = 0 /\ e.basis = q.basis \cup {b} /\ e.age = q.age
    BY <1>4, <1>5, <1>9, <2>1, EvaluateGate
  <2>3. InTurn(e) /\ Copies(e) /\ Opened(e)
    <3>1. InTurn(e)
      BY <1>3, <1>9, <2>1, <2>2 DEF InTurn
    <3>2. QED
      BY <2>2, <3>1 DEF Copies, Opened
  <2>4. GateOK(e)
    BY <1>1, <1>2, <1>7, <1>9, <2>1, <2>2, <2>3 DEF GateOK
  <2>5. QED
    BY <2>2, <2>4
<1>10. CASE Permits(k, q.state) /\ q.of \notin DOMAIN Requires
  <2>1. /\ e \in Gate /\ e.pc = "allowed" /\ e.of = q.of /\ e.cap = q.cap /\ e.open = q.open
        /\ e.clock = 0 /\ e.basis = q.basis \cup {b} /\ e.age = q.age
    BY <1>4, <1>5, <1>10, AllowedGate
  <2>2. InTurn(e)
    BY <1>2, <2>1 DEF InTurn
  <2>3. \A x \in e.basis : Sound(x, e.age)
    BY <1>2, <1>7, <1>10, <2>1
  <2>4. GateOK(e)
    BY <1>1, <1>2, <2>1, <2>2, <2>3 DEF GateOK, Copies, Opened
  <2>5. ASSUME NEW c \in Needs(e.cap) PROVE \E x \in e.basis : x.of = c
    BY <1>2, <1>3, <1>10, <2>1, <2>5 DEF Needs, InTurn
  <2>6. QED
    BY <1>2, <2>1, <2>3, <2>4, <2>5 DEF Grounded
<1>11. QED
  BY <1>8, <1>9, <1>10

----------------------------------------------------------------------------
(* The steps of a question                                                 *)

\* A step that lets a question through has the grounds for it.
Answers == \A h \in Gates : Allows(h) => gates[h].open /\ Grounded(gates'[h])

LEMMA SameGround ==
    ASSUME UNCHANGED <<rules, jurisdiction, sandbox, since>>, NEW g, GateOK(gates'[g])
    PROVE  GateOK(gates[g])'
BY DEF GateOK, InTurn, Copies, Opened, Sound, Recent, About

LEMMA QuestionKeeps ==
    ASSUME GateInv, UNCHANGED <<policyVars, sandbox, since>>, NEW g \in Gates, NEW q \in Gate,
           gates' = [gates EXCEPT ![g] = q], GateOK(q),
           q.pc = "allowed" /\ gates[g].pc # "allowed" => gates[g].open /\ Grounded(q),
           cache' \in [Capabilities -> Entry], CacheOK'
    PROVE  GateInv' /\ Answers
<1>1. gates' \in [Gates -> Gate] /\ gates'[g] = q /\ \A h \in Gates \ {g} : gates'[h] = gates[h]
  BY DEF GateInv, GateTypes
<1>2. \A h \in Gates : GateOK(gates'[h])
  BY <1>1 DEF GateInv
<1>3. \A h \in Gates : GateOK(gates[h])'
  BY <1>2, SameGround DEF policyVars
<1>4. GateTypes'
  BY <1>1 DEF GateInv, GateTypes
<1>5. SinceOK'
  BY DEF GateInv, SinceOK, policyVars
<1>6. Answers
  BY <1>1 DEF Answers, Allows
<1>7. QED
  BY <1>3, <1>4, <1>5, <1>6 DEF GateInv

LEMMA CacheRests ==
    ASSUME GateInv, UNCHANGED <<policyVars, sandbox, cache, since>>
    PROVE  cache' \in [Capabilities -> Entry] /\ CacheOK'
BY DEF GateInv, GateTypes, CacheOK, Recent, About, policyVars

LEMMA AskStep ==
    ASSUME GateInv, NEW g \in Gates, NEW c \in Capabilities, Ask(g, c)
    PROVE  GateInv' /\ Answers
<1> DEFINE a == [NoGate EXCEPT !.cap = c]
           q == Evaluate(a, c)
<1>1. a \in Gate /\ a.cap = c /\ a.basis = {} /\ a.age = 0
  BY NoGateIsGate DEF NoGate, Gate
<1>2. /\ q \in Gate /\ q.pc = "jurisdiction" /\ q.of = c /\ q.cap = c
      /\ q.open = (jurisdiction.state # "suspended")
      /\ q.clock = 0 /\ q.basis = {} /\ q.age = 0
  BY <1>1, EvaluateGate
<1>3. gates' = [gates EXCEPT ![g] = q] /\ UNCHANGED <<policyVars, sandbox, cache, since>>
  BY DEF Ask
<1> HIDE DEF q
<1>4. InTurn(q) /\ Copies(q) /\ Opened(q)
  BY <1>2 DEF InTurn, Copies, Opened
<1>5. GateOK(q)
  BY <1>2, <1>4 DEF GateOK
<1>6. QED
  BY <1>2, <1>3, <1>5, CacheRests, QuestionKeeps

LEMMA NoGateStep ==
    ASSUME GateInv, NEW g \in Gates, gates' = [gates EXCEPT ![g] = NoGate],
           UNCHANGED <<policyVars, sandbox, cache, since>>
    PROVE  GateInv' /\ Answers
BY NoGateIsGate, CacheRests, QuestionKeeps DEF GateOK

LEMMA ReadStep ==
    ASSUME GateInv, NEW g \in Gates, ReadJurisdiction(g), jurisdiction.state \in States
    PROVE  GateInv' /\ Answers
<1> DEFINE q == [gates[g] EXCEPT !.pc = "rule", !.state = jurisdiction.state]
<1>1. gates[g] \in Gate /\ GateOK(gates[g]) /\ gates[g].pc = "jurisdiction"
  BY DEF GateInv, GateTypes, ReadJurisdiction
<1>2. CASE jurisdiction.state = "suspended"
  BY <1>2, NoGateStep DEF ReadJurisdiction
<1>3. CASE jurisdiction.state # "suspended"
  <2>1. /\ q \in Gate /\ q.pc = "rule" /\ q.of = gates[g].of /\ q.cap = gates[g].cap
        /\ q.open = gates[g].open /\ q.clock = gates[g].clock /\ q.basis = gates[g].basis
        /\ q.age = gates[g].age
    BY <1>1 DEF Gate
  <2>2. gates' = [gates EXCEPT ![g] = q] /\ UNCHANGED <<policyVars, sandbox, cache, since>>
    BY <1>3 DEF ReadJurisdiction
  <2> HIDE DEF q
  <2>3. GateOK(q)
    BY <1>1, <1>3, <2>1 DEF GateOK, InTurn, Copies, Opened
  <2>4. QED
    BY <2>1, <2>2, <2>3, CacheRests, QuestionKeeps
<1>4. QED
  BY <1>2, <1>3

LEMMA JudgeStep ==
    ASSUME GateInv, NEW g \in Gates, gates[g].pc \in {"rule", "query", "settle"},
           NEW k \in {0} \cup RuleIds, NEW w \in {Ttl, Degraded}, NEW n \in Int,
           Recent(k, gates[g].of, n), n < w + gates[g].age,
           gates' = [gates EXCEPT ![g] = Judged(g, k, w)],
           UNCHANGED <<policyVars, sandbox, since>>,
           cache' \in [Capabilities -> Entry], CacheOK'
    PROVE  GateInv' /\ Answers
<1> DEFINE q == Judged(g, k, w)
<1>1. q \in Gate /\ GateOK(q) /\ (q.pc = "allowed" => Grounded(q) /\ gates[g].open)
  BY JudgedOK DEF GateInv
<1> HIDE DEF q
<1>2. QED
  BY <1>1, QuestionKeeps DEF q

LEMMA LookUpStep ==
    ASSUME GateInv, NEW g \in Gates, LookUpRule(g)
    PROVE  GateInv' /\ Answers
<1> DEFINE entry == cache[gates[g].of]
           q == [gates[g] EXCEPT !.pc = "query", !.kept = entry, !.clock = 0]
<1>1. gates[g] \in Gate /\ GateOK(gates[g]) /\ gates[g].pc = "rule" /\ gates[g].of \in Capabilities
  BY DEF GateInv, GateTypes, GateOK, LookUpRule
<1>2. /\ entry \in Entry
      /\ entry.known => entry.age < Stale /\ Recent(entry.rule, gates[g].of, entry.age)
  BY <1>1 DEF GateInv, GateTypes, CacheOK
<1>3. UNCHANGED <<policyVars, sandbox, cache, since>>
  BY DEF LookUpRule
<1>4. CASE entry.known /\ entry.age < Ttl
  <2>1. gates' = [gates EXCEPT ![g] = Judged(g, entry.rule, Ttl)]
    BY <1>4 DEF LookUpRule
  <2>2. entry.rule \in {0} \cup RuleIds /\ entry.age \in Int /\ entry.age < Ttl + gates[g].age
    BY <1>1, <1>2, <1>4, Bounds DEF Entry, Ages, Gate
  <2> HIDE DEF entry
  <2>3. QED
    BY <1>1, <1>2, <1>3, <1>4, <2>1, <2>2, CacheRests, JudgeStep
<1>5. CASE ~(entry.known /\ entry.age < Ttl)
  <2>1. gates' = [gates EXCEPT ![g] = q]
    BY <1>5 DEF LookUpRule
  <2> HIDE DEF entry
  <2>2. /\ q \in Gate /\ q.pc = "query" /\ q.of = gates[g].of /\ q.cap = gates[g].cap
        /\ q.open = gates[g].open /\ q.clock = 0 /\ q.kept = entry
        /\ q.basis = gates[g].basis /\ q.age = gates[g].age
    BY <1>1, <1>2 DEF Gate
  <2>3. entry.age + 0 = entry.age /\ gates[g].age \in Nat
    BY <1>1, <1>2, Bounds DEF Entry, Ages, Gate
  <2> HIDE DEF q
  <2>4. InTurn(q) /\ Copies(q)
    BY <1>1, <1>2, <2>2, <2>3 DEF GateOK, InTurn, Copies
  <2>5. GateOK(q)
    BY <1>1, <2>2, <2>3, <2>4 DEF GateOK, Opened
  <2>6. QED
    BY <1>3, <2>1, <2>2, <2>5, CacheRests, QuestionKeeps
<1>6. QED
  BY <1>4, <1>5

LEMMA QueryStep ==
    ASSUME GateInv, NEW g \in Gates, QueryRule(g)
    PROVE  GateInv' /\ Answers
<1>1. gates[g] \in Gate /\ GateOK(gates[g]) /\ gates[g].pc = "query" /\ gates[g].clock \in Nat
  BY DEF GateInv, GateTypes, Gate, QueryRule
<1>2. PICK k \in {0} \cup RulesIn("active", gates[g].of) :
          gates' = [gates EXCEPT ![g] = [@ EXCEPT !.pc = "settle", !.answer = k]]
  BY DEF QueryRule
<1>3. k \in {0} \cup RuleIds /\ Recent(k, gates[g].of, gates[g].clock)
  BY <1>1, <1>2 DEF GateInv, SinceOK, Recent, About, RulesIn
<1> DEFINE q == [gates[g] EXCEPT !.pc = "settle", !.answer = k]
<1>4. /\ q \in Gate /\ q.pc = "settle" /\ q.of = gates[g].of /\ q.cap = gates[g].cap
      /\ q.open = gates[g].open /\ q.clock = gates[g].clock /\ q.answer = k
      /\ q.basis = gates[g].basis /\ q.age = gates[g].age
  BY <1>1, <1>3 DEF Gate
<1>5. gates' = [gates EXCEPT ![g] = q]
  BY <1>2
<1> HIDE DEF q
<1>6. InTurn(q) /\ Copies(q)
  BY <1>1, <1>3, <1>4 DEF GateOK, InTurn, Copies
<1>7. GateOK(q)
  BY <1>1, <1>4, <1>6 DEF GateOK, Opened
<1>8. UNCHANGED <<policyVars, sandbox, cache, since>>
  BY DEF QueryRule
<1>9. QED
  BY <1>4, <1>5, <1>7, <1>8, CacheRests, QuestionKeeps

LEMMA SettleStep ==
    ASSUME GateInv, NEW g \in Gates, SettleRule(g)
    PROVE  GateInv' /\ Answers
<1> DEFINE k == gates[g].answer
           a == [known |-> TRUE, rule |-> k, age |-> gates[g].clock]
           e == Kept(a)
<1>1. /\ GateOK(gates[g]) /\ gates[g].pc = "settle"
      /\ k \in {0} \cup RuleIds /\ gates[g].clock \in Nat /\ gates[g].age \in Nat
      /\ gates[g].of \in Capabilities
  BY DEF GateInv, GateTypes, Gate, GateOK, SettleRule
<1>2. Recent(k, gates[g].of, gates[g].clock) /\ gates[g].clock <= gates[g].age
  BY <1>1 DEF GateOK, Copies
<1>3. /\ cache' = [cache EXCEPT ![gates[g].of] = e]
      /\ gates' = [gates EXCEPT ![g] = Judged(g, k, Ttl)] /\ UNCHANGED <<policyVars, sandbox, since>>
  BY DEF SettleRule
<1>4. /\ e \in Entry
      /\ e.known => e.rule = k /\ e.age = gates[g].clock /\ e.age < Stale
  <2>1. a \in [known : BOOLEAN, rule : {0} \cup RuleIds, age : Nat]
    BY <1>1
  <2> HIDE DEF k
  <2>2. a.rule = k /\ a.age = gates[g].clock
    OBVIOUS
  <2> HIDE DEF a
  <2>3. QED
    BY <2>1, <2>2, KeptEntry
<1> HIDE DEF e, k
<1>5. cache' \in [Capabilities -> Entry]
  BY <1>3, <1>4 DEF GateInv, GateTypes
<1>6. CacheOK'
  BY <1>1, <1>2, <1>3, <1>4 DEF GateInv, GateTypes, CacheOK, Recent, About, policyVars
<1>7. gates[g].clock \in Int /\ gates[g].clock < Ttl + gates[g].age
  BY <1>1, <1>2, Bounds
<1>8. QED
  BY <1>1, <1>2, <1>3, <1>5, <1>6, <1>7, JudgeStep

LEMMA FailStep ==
    ASSUME GateInv, NEW g \in Gates, QueryFails(g)
    PROVE  GateInv' /\ Answers
<1> DEFINE kept == gates[g].kept
<1>1. /\ GateOK(gates[g]) /\ gates[g].pc = "query" /\ kept \in Entry
      /\ gates[g].clock \in Nat /\ gates[g].age \in Nat
  BY DEF GateInv, GateTypes, Gate, QueryFails
<1>2. UNCHANGED <<policyVars, sandbox, cache, since>>
  BY DEF QueryFails
<1>3. CASE kept.known /\ kept.age < Degraded
  <2> DEFINE n == kept.age + gates[g].clock
  <2>1. gates' = [gates EXCEPT ![g] = Judged(g, kept.rule, Degraded)]
    BY <1>3 DEF QueryFails
  <2>2. Recent(kept.rule, gates[g].of, n) /\ gates[g].clock <= gates[g].age
    BY <1>1, <1>3 DEF GateOK, Copies
  <2>3. kept.rule \in {0} \cup RuleIds /\ n \in Int /\ n < Degraded + gates[g].age
    BY <1>1, <1>3, <2>2, Bounds DEF Entry, Ages
  <2> HIDE DEF n, kept
  <2>4. QED
    BY <1>1, <1>2, <2>1, <2>2, <2>3, CacheRests, JudgeStep
<1>4. CASE ~(kept.known /\ kept.age < Degraded)
  BY <1>2, <1>4, NoGateStep DEF QueryFails
<1>5. QED
  BY <1>3, <1>4

LEMMA QuestionStep ==
    ASSUME GateInv, jurisdiction.state \in States, NEW g \in Gates, Question(g)
    PROVE  GateInv' /\ Answers
<1>1. CASE \E c \in Capabilities : Ask(g, c)
  BY <1>1, AskStep
<1>2. CASE ReadJurisdictionFails(g) \/ Serve(g)
  BY <1>2, NoGateStep DEF ReadJurisdictionFails, Serve
<1>3. QED
  BY <1>1, <1>2, ReadStep, LookUpStep, QueryStep, SettleStep, FailStep DEF Question

----------------------------------------------------------------------------
(* The world beside the questions                                          *)

\* Nothing is out of force for longer than the time that has passed.
Passes(d) == \A k \in RuleIds : since'[k] \in Nat /\ since'[k] <= since[k] + d

LEMMA RecentLater ==
    ASSUME GateTypes, Grows, NEW d \in {0, 1}, Passes(d), NEW k, NEW c, NEW n \in Int,
           Recent(k, c, n)
    PROVE  k = 0 \/ (k \in RuleIds /\ rules'[k].state # "none" /\ rules'[k].cap = c
                     /\ since'[k] <= n + d)
BY Bounds DEF GateTypes, Grows, Passes, Recent, About, Ages

LEMMA SoundLater ==
    ASSUME GateTypes, Grows, NEW d \in {0, 1}, Passes(d), sandbox' = sandbox,
           NEW b \in Ground, NEW n \in Nat, Sound(b, n)
    PROVE  IF b.rule = 0 THEN sandbox'
           ELSE /\ b.rule \in RuleIds /\ rules'[b.rule].state # "none" /\ rules'[b.rule].cap = b.of
                /\ rules'[b.rule].status # "blocked" \/ (sandbox' /\ rules'[b.rule].lapsed)
                /\ since'[b.rule] < b.window + (n + d)
<1>1. b.window \in Nat
  BY Bounds DEF Ground
<1>2. CASE b.rule = 0
  BY <1>2 DEF Sound
<1>3. CASE b.rule # 0
  <2>1. /\ b.rule \in RuleIds /\ rules[b.rule].state # "none" /\ rules[b.rule].cap = b.of
        /\ rules[b.rule].status # "blocked" \/ (sandbox /\ rules[b.rule].lapsed)
        /\ since[b.rule] < b.window + n
    BY <1>3 DEF Sound, About
  <2>2. since'[b.rule] < b.window + (n + d)
    BY <1>1, <2>1, Bounds DEF GateTypes, Passes, Ages
  <2>3. /\ rules'[b.rule].state # "none" /\ rules'[b.rule].cap = b.of
        /\ rules'[b.rule].status # "blocked" \/ (sandbox' /\ rules'[b.rule].lapsed)
    BY <2>1 DEF Grows
  <2>4. QED
    BY <1>3, <2>1, <2>2, <2>3
<1>4. QED
  BY <1>2, <1>3

\* A question that waits while d ticks pass, or the tables move.
Waits(g, d) ==
    LET q == gates[g]
        e == gates'[g]
    IN  /\ e.pc = q.pc /\ e.of = q.of /\ e.cap = q.cap /\ e.basis = q.basis
        /\ e.kept = q.kept /\ e.answer = q.answer /\ e.age = q.age + d
        /\ e.clock = IF q.pc \in {"query", "settle"} THEN q.clock + d ELSE q.clock

LEMMA WaitingGate ==
    ASSUME GateInv, Grows, sandbox' = sandbox, NEW d \in {0, 1}, Passes(d),
           NEW g \in Gates, Waits(g, d), Opened(gates[g])'
    PROVE  GateOK(gates[g])'
<1> DEFINE q == gates[g]
<1>0. /\ q \in Gate /\ GateOK(q) /\ q.age \in Nat /\ q.clock \in Nat /\ q.kept.age \in Nat
      /\ GateTypes /\ q.basis \subseteq Ground
  BY Bounds DEF GateInv, GateTypes, Gate, Entry, Ages
<1> SUFFICES ASSUME gates'[g].pc # "idle" PROVE GateOK(gates[g])'
  BY DEF GateOK
<1>1. q.pc # "idle" /\ InTurn(q) /\ Copies(q) /\ q.clock <= q.age
  BY <1>0 DEF GateOK, Waits
<1>2. InTurn(gates[g])'
  BY <1>1 DEF InTurn, Waits
<1>3. ASSUME gates'[g].pc = "query", gates'[g].kept.known
      PROVE  Recent(gates[g].kept.rule, gates[g].of, gates[g].kept.age + gates[g].clock)'
  <2>1. Recent(q.kept.rule, q.of, q.kept.age + q.clock)
    BY <1>1, <1>3 DEF Copies, Waits
  <2>2. (gates[g].kept.age + gates[g].clock)' = (q.kept.age + q.clock) + d
    BY <1>0, <1>3 DEF Waits
  <2>3. QED
    BY <1>0, <2>1, <2>2, RecentLater DEF Recent, About, Waits
<1>4. ASSUME gates'[g].pc = "settle"
      PROVE  Recent(gates[g].answer, gates[g].of, gates[g].clock)'
  <2>1. Recent(q.answer, q.of, q.clock)
    BY <1>1, <1>4 DEF Copies, Waits
  <2>2. gates'[g].clock = q.clock + d
    BY <1>4 DEF Waits
  <2>3. QED
    BY <1>0, <2>1, <2>2, RecentLater DEF Recent, About, Waits
<1>5. Copies(gates[g])'
  BY <1>3, <1>4 DEF Copies
<1>6. ASSUME NEW b \in gates'[g].basis PROVE Sound(b, gates[g].age)'
  <2>1. b \in Ground /\ Sound(b, q.age)
    BY <1>0, <1>1, <1>6 DEF GateOK, Waits
  <2>2. gates'[g].age = q.age + d
    BY DEF Waits
  <2>3. QED
    BY <1>0, <2>1, <2>2, SoundLater DEF Sound, About
<1>7. gates'[g].clock <= gates'[g].age
  BY <1>0, <1>1 DEF Waits
<1>8. gates'[g].cap \in Capabilities /\ gates'[g].of \in Capabilities
  BY <1>0, <1>1 DEF GateOK, Waits
<1>9. QED
  BY <1>2, <1>5, <1>6, <1>7, <1>8 DEF GateOK

LEMMA AdministerStep ==
    ASSUME PolicyInv, GateInv, AdministerBeside
    PROVE  PolicyInv' /\ GateInv' /\ Answers
<1>1. PolicyInv' /\ Grows
  BY PolicyStep DEF AdministerBeside, PolicyNext
<1>2. sandbox' = sandbox /\ cache' = cache /\ Watch
  BY DEF AdministerBeside
<1>3. /\ since' \in [RuleIds -> Ages] /\ SinceOK' /\ Passes(0)
  BY <1>2, Bounds DEF Watch, GateInv, GateTypes, SinceOK, Passes, Ages
<1>4. ASSUME NEW g \in Gates
      PROVE  gates'[g] \in Gate /\ gates'[g].pc = gates[g].pc /\ GateOK(gates[g])'
  <2> DEFINE opens == gates[g].open \/ jurisdiction'.state # "suspended"
             e == [gates[g] EXCEPT !.open = opens]
  <2>1. gates[g] \in Gate /\ GateOK(gates[g])
    BY DEF GateInv, GateTypes
  <2>2. CASE gates[g].pc = "idle"
    BY <1>2, <2>1, <2>2 DEF Watch, GateOK
  <2>3. CASE gates[g].pc # "idle"
    <3>1. gates'[g] = e
      BY <1>2, <2>3 DEF Watch
    <3>2. opens \in BOOLEAN
      BY <2>1 DEF Gate
    <3>3. opens <=> gates[g].open \/ jurisdiction'.state # "suspended"
      OBVIOUS
    <3> HIDE DEF opens
    <3>4. /\ e \in Gate /\ e.pc = gates[g].pc /\ e.of = gates[g].of /\ e.cap = gates[g].cap
          /\ e.basis = gates[g].basis /\ e.kept = gates[g].kept /\ e.answer = gates[g].answer
          /\ e.age = gates[g].age /\ e.clock = gates[g].clock /\ e.open = opens
      BY <2>1, <3>2 DEF Gate
    <3> HIDE DEF e
    <3>5. gates[g].age \in Nat /\ gates[g].clock \in Nat
      BY <2>1 DEF Gate
    <3>6. Waits(g, 0)
      BY <3>1, <3>4, <3>5 DEF Waits
    <3>7. Opened(gates[g])'
      BY <2>1, <2>3, <3>1, <3>3, <3>4 DEF GateOK, Opened
    <3>8. QED
      BY <1>1, <1>2, <1>3, <3>1, <3>4, <3>6, <3>7, WaitingGate
  <2>4. QED
    BY <2>2, <2>3
<1>5. gates' \in [Gates -> Gate]
  <2>1. gates' = [g \in Gates |-> gates'[g]]
    BY <1>2 DEF Watch
  <2>2. QED
    BY <1>4, <2>1
<1>6. CacheOK'
  <2>1. ASSUME NEW c \in Capabilities, cache'[c].known
        PROVE  cache'[c].age < Stale /\ Recent(cache[c].rule, c, cache[c].age)'
    <3>1. cache[c].age < Stale /\ Recent(cache[c].rule, c, cache[c].age) /\ cache[c].age \in Int
      BY <1>2, <2>1, Bounds DEF GateInv, GateTypes, CacheOK, Entry, Ages
    <3>2. cache[c].age + 0 = cache[c].age
      BY <3>1
    <3>3. QED
      BY <1>1, <1>2, <1>3, <3>1, <3>2, RecentLater DEF Recent, About, GateInv
  <2>2. QED
    BY <2>1 DEF CacheOK
<1>7. Answers
  BY <1>4 DEF Answers, Allows
<1>8. QED
  BY <1>1, <1>2, <1>3, <1>4, <1>5, <1>6, <1>7 DEF GateInv, GateTypes

LEMMA TickStep ==
    ASSUME PolicyInv, GateInv, Tick
    PROVE  PolicyInv' /\ GateInv' /\ Answers
<1>1. PolicyInv' /\ Grows
  BY PolicyStutter DEF Tick
<1>2. sandbox' = sandbox /\ rules' = rules /\ jurisdiction' = jurisdiction
  BY DEF Tick, policyVars
<1>3. /\ since' \in [RuleIds -> Ages] /\ SinceOK' /\ Passes(1)
  <2>1. since' = [k \in RuleIds |-> IF rules[k].state = "active" THEN 0 ELSE Older(since[k])]
    BY DEF Tick
  <2>2. \A k \in RuleIds : since[k] \in Ages /\ Older(since[k]) \in Ages
                           /\ Older(since[k]) <= since[k] + 1
    BY OlderAge DEF GateInv, GateTypes
  <2>3. 0 \in Ages /\ \A n \in Ages : n \in Nat
    BY Bounds DEF Ages
  <2>4. since' \in [RuleIds -> Ages]
    BY <2>1, <2>2, <2>3
  <2>5. SinceOK'
    BY <1>2, <2>1 DEF SinceOK
  <2>6. Passes(1)
    BY <2>1, <2>2, <2>3 DEF Passes
  <2>7. QED
    BY <2>4, <2>5, <2>6
<1>4. ASSUME NEW g \in Gates
      PROVE  gates'[g] \in Gate /\ gates'[g].pc = gates[g].pc /\ GateOK(gates[g])'
  <2> DEFINE n == gates[g].age + 1
             m == IF gates[g].pc \in {"query", "settle"} THEN gates[g].clock + 1
                  ELSE gates[g].clock
             e == [gates[g] EXCEPT !.age = n, !.clock = m]
  <2>1. gates[g] \in Gate /\ GateOK(gates[g])
    BY DEF GateInv, GateTypes
  <2>2. CASE gates[g].pc = "idle"
    BY <2>1, <2>2 DEF Tick, GateOK
  <2>3. CASE gates[g].pc # "idle"
    <3>1. gates'[g] = e
      BY <2>3 DEF Tick
    <3>2. n \in Nat /\ m \in Nat
      BY <2>1 DEF Gate
    <3> HIDE DEF n, m
    <3>3. /\ e \in Gate /\ e.pc = gates[g].pc /\ e.of = gates[g].of /\ e.cap = gates[g].cap
          /\ e.basis = gates[g].basis /\ e.kept = gates[g].kept /\ e.answer = gates[g].answer
          /\ e.age = n /\ e.clock = m /\ e.open = gates[g].open
      BY <2>1, <3>2 DEF Gate
    <3> HIDE DEF e
    <3>4. Waits(g, 1)
      BY <3>1, <3>3 DEF Waits, n, m
    <3>5. Opened(gates[g])'
      BY <1>2, <2>1, <2>3, <3>1, <3>3 DEF GateOK, Opened
    <3>6. QED
      BY <1>1, <1>2, <1>3, <3>1, <3>3, <3>4, <3>5, WaitingGate
  <2>4. QED
    BY <2>2, <2>3
<1>5. gates' \in [Gates -> Gate]
  <2>1. gates' = [g \in Gates |-> gates'[g]]
    BY DEF Tick
  <2>2. QED
    BY <1>4, <2>1
<1>6. ASSUME NEW c \in Capabilities
      PROVE  /\ cache'[c] \in Entry
             /\ cache'[c].known => cache'[c].age < Stale /\ Recent(cache[c].rule, c, cache[c].age)'
  <2> DEFINE n == Older(cache[c].age)
             e == [cache[c] EXCEPT !.age = n]
  <2>1. cache[c] \in Entry /\ cache[c].age \in Ages /\ n \in Ages /\ n \in Nat
    BY OlderAge, Bounds DEF GateInv, GateTypes, Entry, Ages
  <2>2. cache'[c] = Kept(e)
    BY DEF Tick
  <2>3. cache[c].age \in Int /\ (cache[c].age < Stale => n = cache[c].age + 1)
    BY <2>1, OlderAge, Bounds DEF Ages
  <2> HIDE DEF n
  <2>4. /\ e \in [known : BOOLEAN, rule : {0} \cup RuleIds, age : Nat]
        /\ e.known = cache[c].known /\ e.rule = cache[c].rule /\ e.age = n
    BY <2>1 DEF Entry
  <2> HIDE DEF e
  <2>5. cache'[c] \in Entry /\ (cache'[c].known => cache'[c] = e /\ n < Stale)
    BY <2>2, <2>4, KeptEntry
  <2>6. ASSUME cache'[c].known PROVE Recent(cache[c].rule, c, cache[c].age)'
    <3>1. cache[c].age < Stale /\ Recent(cache[c].rule, c, cache[c].age)
      BY <2>4, <2>5, <2>6 DEF GateInv, CacheOK
    <3>2. cache'[c].rule = cache[c].rule /\ cache'[c].age = cache[c].age + 1
      BY <2>3, <2>4, <2>5, <2>6, <3>1
    <3>3. QED
      BY <1>1, <1>3, <2>3, <3>1, <3>2, RecentLater DEF Recent, About, GateInv
  <2>7. QED
    BY <2>4, <2>5, <2>6
<1>7. cache' \in [Capabilities -> Entry] /\ CacheOK'
  <2>1. cache' = [c \in Capabilities |-> cache'[c]]
    BY DEF Tick
  <2>2. cache' \in [Capabilities -> Entry]
    BY <1>6, <2>1
  <2>3. QED
    BY <1>6, <2>2 DEF CacheOK
<1>8. Answers
  BY <1>4 DEF Answers, Allows
<1>9. QED
  BY <1>1, <1>2, <1>3, <1>4, <1>5, <1>7, <1>8 DEF GateInv, GateTypes

LEMMA InvalidateStep ==
    ASSUME PolicyInv, GateInv, NEW r \in Reqs, InvalidateLegalGateCache(r)
    PROVE  PolicyInv' /\ GateInv' /\ Answers
<1>1. PolicyInv'
  BY PolicyStep DEF InvalidateLegalGateCache, PolicyNext
<1>2. UNCHANGED <<rules, jurisdiction, sandbox, gates, since>>
  BY DEF InvalidateLegalGateCache, Invalidated
<1>3. \A g \in Gates : GateOK(gates[g])'
  BY <1>2, SameGround DEF GateInv
<1>4. cache' \in [Capabilities -> Entry] /\ CacheOK'
  BY <1>2, NoEntryIsEntry
     DEF InvalidateLegalGateCache, GateInv, GateTypes, CacheOK, Recent, About
<1>5. SinceOK'
  BY <1>2 DEF GateInv, SinceOK
<1>6. Answers
  BY <1>2 DEF Answers, Allows
<1>7. QED
  BY <1>1, <1>2, <1>3, <1>4, <1>5, <1>6 DEF GateInv, GateTypes

LEMMA GateStep ==
    ASSUME PolicyInv, GateInv, [Next]_vars
    PROVE  PolicyInv' /\ GateInv' /\ Answers
<1>1. ASSUME NEW g \in Gates, Question(g) PROVE PolicyInv' /\ GateInv' /\ Answers
  <2>1. UNCHANGED policyVars
    BY <1>1 DEF Question, Ask, ReadJurisdiction, ReadJurisdictionFails, LookUpRule, QueryRule,
                SettleRule, QueryFails, Serve
  <2>2. jurisdiction.state \in States
    BY DEF PolicyInv, JurisdictionOK
  <2>3. QED
    BY <1>1, <2>1, <2>2, PolicyStutter, QuestionStep
<1>2. CASE UNCHANGED vars
  <2>1. UNCHANGED <<policyVars, rules, jurisdiction, sandbox, cache, gates, since>>
    BY <1>2 DEF vars, gateVars, policyVars
  <2>2. \A g \in Gates : GateOK(gates[g])'
    BY <2>1, SameGround DEF GateInv
  <2>3. GateTypes' /\ CacheOK' /\ SinceOK'
    BY <2>1, CacheRests DEF GateInv, GateTypes, SinceOK
  <2>4. Answers
    BY <2>1 DEF Answers, Allows
  <2>5. QED
    BY <2>1, <2>2, <2>3, <2>4, PolicyStutter DEF GateInv
<1>3. QED
  BY <1>1, <1>2, AdministerStep, TickStep, InvalidateStep DEF Next

LEMMA GateStart == Init => PolicyInv /\ GateInv
<1> SUFFICES ASSUME Init PROVE PolicyInv /\ GateInv
  OBVIOUS
<1>1. PolicyInv
  BY PolicyStart DEF Init
<1>2. GateTypes
  BY NoEntryIsEntry, NoGateIsGate, Bounds DEF Init, GateTypes, Ages
<1>3. CacheOK
  BY NoEntryIsEntry DEF Init, CacheOK
<1>4. SinceOK
  BY DEF Init, PolicyInit, NoRule, SinceOK
<1>5. \A g \in Gates : GateOK(gates[g])
  BY NoGateIsGate DEF Init, GateOK
<1>6. QED
  BY <1>1, <1>2, <1>3, <1>4, <1>5 DEF GateInv

----------------------------------------------------------------------------
(* Theorems                                                                *)

LEMMA GateInvariant == Spec => [](PolicyInv /\ GateInv)
<1>1. (PolicyInv /\ GateInv) /\ [Next]_vars => (PolicyInv /\ GateInv)'
  BY GateStep
<1>2. QED
  BY <1>1, GateStart, PTL DEF Spec

\* Every row, request, cached rule and question in flight stays what the code
\* declares, with any number of questions beside any number of panel requests.
THEOREM GateTypeCorrect == Spec => []TypeOK
<1>1. PolicyInv /\ GateInv => TypeOK
  BY DEF PolicyInv, RulesOK, RequestsOK, JurisdictionOK, PolicyTypeOK, GateInv, GateTypes, TypeOK
<1>2. QED
  BY <1>1, GateInvariant, PTL

\* Decisions 107/109: the kill switch holds for every cache window, however
\* many questions, outages and invalidations there are.
THEOREM KillSwitchHolds == Spec => SuspensionStops
<1>1. PolicyInv /\ GateInv /\ [Next]_vars
        => [\A g \in Gates : Allows(g) => gates[g].open]_vars
  BY GateStep DEF Answers
<1>2. QED
  BY <1>1, GateInvariant, PTL DEF Spec, SuspensionStops

\* Decisions 98/104/109: whatever the cache, outages and approvals in flight,
\* an allowance rests on rules in force within the window of the question.
THEOREM AllowancesAreFresh == Spec => NoStaleAllowance
<1> DEFINE Fresh == \A g \in Gates : Allows(g) =>
          LET gate  == gates'[g]
              needs == {gate.cap} \cup {Requires[c] : c \in {gate.cap} \cap DOMAIN Requires}
          IN  /\ \A c \in needs : \E b \in gate.basis : b.of = c
              /\ \A b \in gate.basis :
                    IF b.rule = 0 THEN sandbox
                    ELSE /\ rules[b.rule].cap = b.of
                         /\ rules[b.rule].status # "blocked" \/ (sandbox /\ rules[b.rule].lapsed)
                         /\ since[b.rule] < b.window + gate.age
<1>1. Answers => Fresh
  BY DEF Answers, Grounded, Needs, Sound, About
<1>2. PolicyInv /\ GateInv /\ [Next]_vars => [Fresh]_vars
  BY <1>1, GateStep
<1>3. QED
  BY <1>2, GateInvariant, PTL DEF Spec, NoStaleAllowance

=============================================================================
