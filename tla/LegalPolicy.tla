---------------------------- MODULE LegalPolicy ----------------------------
(***************************************************************************)
(* The administration of the Legal Gate for the installation's             *)
(* jurisdiction: the versioned rules that say what a capability may do,    *)
(* proposed by one manager and approved by another, and the operational    *)
(* state of the jurisdiction, which one manager tightens and two loosen.   *)
(*                                                                         *)
(* As in RewardMediation a handler is a request slot in rq, and an action  *)
(* runs from one await to the next.  A rule's version number orders the    *)
(* rules of a capability as their ids do, so the id stands for both; a     *)
(* proposal that loses the race for a version number is dropped.           *)
(***************************************************************************)
EXTENDS Integers, FiniteSets

CONSTANTS
    Reqs,         \* request slots
    Managers,     \* panel users holding the legal-policy privileges
    Capabilities, \* the catalogue
    Requires,     \* CAPABILITY_REQUIRES: a capability to the one it needs
    MaxRules,     \* bound: rules ever proposed
    None          \* SQL NULL

ASSUME PolicyAssumption ==
    /\ DOMAIN Requires \subseteq Capabilities
    /\ \A c \in DOMAIN Requires : Requires[c] \in Capabilities \ DOMAIN Requires
    /\ MaxRules \in Nat
    /\ None \notin Managers \cup Capabilities

VARIABLES
    rules,         \* tb_legal_rule, by id
    jurisdiction,  \* the installation's tb_jurisdiction row
    rq             \* the panel requests in flight

policyVars == <<rules, jurisdiction, rq>>

----------------------------------------------------------------------------
(* Rows                                                                    *)

RuleIds    == 1 .. MaxRules
Statuses   == {"allowed", "restricted", "blocked"}
RuleStates == {"none", "proposed", "active", "rejected", "superseded"}
States     == {"live", "restricted", "suspended"}
STATE_RANK == [live |-> 0, restricted |-> 1, suspended |-> 2]

\* lapsed: expires_at is past.
Rule == [state : RuleStates, cap : Capabilities \cup {None}, status : Statuses,
         by : Managers \cup {None}, approvedBy : Managers \cup {None}, lapsed : BOOLEAN]

NoRule == [state |-> "none", cap |-> None, status |-> "blocked", by |-> None,
           approvedBy |-> None, lapsed |-> FALSE]

\* by: who proposed, as the request read it, or asks now; target: the state it
\* will write.
Idle == [op |-> "idle", pc |-> "idle", who |-> None, by |-> None, cap |-> None,
         rule |-> 0, target |-> "live"]

Request == [op : {"idle", "propose", "approve", "reject", "request", "confirm"},
            pc : {"idle", "insert", "dependencies", "activate", "invalidate", "write",
                  "apply", "pend"},
            who : Managers \cup {None}, by : Managers \cup {None},
            cap : Capabilities \cup {None}, rule : {0} \cup RuleIds, target : States]

PolicyTypeOK ==
    /\ rules \in [RuleIds -> Rule]
    /\ jurisdiction \in [state : States, pending : States \cup {None},
                        pendingBy : Managers \cup {None}]
    /\ rq \in [Reqs -> Request]

\* The seed of the migration: live, and no rule.
PolicyInit ==
    /\ rules = [k \in RuleIds |-> NoRule]
    /\ jurisdiction = [state |-> "live", pending |-> None, pendingBy |-> None]
    /\ rq = [r \in Reqs |-> Idle]

----------------------------------------------------------------------------
(* Request plumbing                                                        *)

At(r, op, pc) == rq[r].op = op /\ rq[r].pc = pc
Begin(r, req) == rq[r] = Idle /\ rq' = [rq EXCEPT ![r] = req]
Goto(r, pc)   == rq' = [rq EXCEPT ![r].pc = pc]
Finish(r)     == rq' = [rq EXCEPT ![r] = Idle]

\* A handler stops at an await: a statement fails, or the process dies.
Drop(r) ==
    /\ rq[r] # Idle
    /\ Finish(r)
    /\ UNCHANGED <<rules, jurisdiction>>

----------------------------------------------------------------------------
(* Rules                                                                   *)

RulesIn(state, c) == {k \in RuleIds : rules[k].state = state /\ rules[k].cap = c}

\* findActiveAllowedRule
AllowedNow(c) ==
    \E k \in RulesIn("active", c) : rules[k].status = "allowed" /\ ~rules[k].lapsed

ProposeBegin(r, m, c) ==
    /\ RulesIn("proposed", c) = {}
    /\ Begin(r, [Idle EXCEPT !.op = "propose", !.pc = "insert", !.who = m, !.by = m, !.cap = c])
    /\ UNCHANGED <<rules, jurisdiction>>

InsertProposal(r) ==
    /\ At(r, "propose", "insert")
    /\ \E k \in RuleIds, s \in Statuses :
          /\ rules[k].state = "none"
          /\ \A j \in RuleIds : j < k => rules[j].state # "none"
          /\ rules' = [rules EXCEPT ![k] = [NoRule EXCEPT
                !.state = "proposed", !.cap = rq[r].cap, !.status = s, !.by = rq[r].who]]
    /\ Finish(r)
    /\ UNCHANGED jurisdiction

\* Mutated form: the proposer is not compared with the approver.
ApproveBeginAnyone(r, m, k) ==
    /\ rules[k].state = "proposed"
    /\ Begin(r, [Idle EXCEPT !.op = "approve", !.pc = "dependencies", !.who = m,
                             !.by = rules[k].by, !.rule = k])
    /\ UNCHANGED <<rules, jurisdiction>>

ApproveBegin(r, m, k) ==
    /\ rules[k].state = "proposed"
    /\ rules[k].by # m
    /\ Begin(r, [Idle EXCEPT !.op = "approve", !.pc = "dependencies", !.who = m,
                             !.by = rules[k].by, !.rule = k])
    /\ UNCHANGED <<rules, jurisdiction>>

\* What the approval of rule k asks of the capability it needs, or of the one
\* that needs it.  Each promotion makes at most one such read.
Coherent(k) ==
    LET c == rules[k].cap IN
    /\ rules[k].status = "allowed" /\ c \in DOMAIN Requires => AllowedNow(Requires[c])
    /\ rules[k].status # "allowed" =>
          \A d \in DOMAIN Requires : Requires[d] = c => ~AllowedNow(d)

AssertDependenciesCoherent(r) ==
    /\ At(r, "approve", "dependencies")
    /\ Coherent(rq[r].rule)
    /\ Goto(r, "activate")
    /\ UNCHANGED <<rules, jurisdiction>>

\* Mutated form: the active version is not superseded.
ActivateRuleBeside(r) ==
    /\ At(r, "approve", "activate")
    /\ rules' = [rules EXCEPT ![rq[r].rule].state = "active",
                              ![rq[r].rule].approvedBy = rq[r].who]
    /\ Goto(r, "invalidate")
    /\ UNCHANGED jurisdiction

\* activateRule, one transaction.  The second UPDATE names the id only: the
\* rule comes in force whatever it has become since it was read.
ActivateRule(r) ==
    LET k == rq[r].rule IN
    /\ At(r, "approve", "activate")
    /\ rules' = [j \in RuleIds |->
          IF j = k THEN [rules[j] EXCEPT !.state = "active", !.approvedBy = rq[r].who]
          ELSE IF j \in RulesIn("active", rules[k].cap)
               THEN [rules[j] EXCEPT !.state = "superseded"] ELSE rules[j]]
    /\ Goto(r, "invalidate")
    /\ UNCHANGED jurisdiction

\* invalidateLegalGateCache runs once the commit is known; see LegalGate.
Invalidated(r) ==
    /\ At(r, "approve", "invalidate")
    /\ Finish(r)
    /\ UNCHANGED <<rules, jurisdiction>>

\* Anyone may reject, the proposer too.
RejectBegin(r, m, k) ==
    /\ rules[k].state = "proposed"
    /\ Begin(r, [Idle EXCEPT !.op = "reject", !.pc = "write", !.who = m, !.rule = k])
    /\ UNCHANGED <<rules, jurisdiction>>

\* Mutated form: a state the table does not know.
RejectRuleMisspelt(r) ==
    /\ At(r, "reject", "write")
    /\ rules' = [rules EXCEPT ![rq[r].rule].state = "refused"]
    /\ Finish(r)
    /\ UNCHANGED jurisdiction

RejectRule(r) ==
    /\ At(r, "reject", "write")
    /\ rules' = [rules EXCEPT ![rq[r].rule].state = "rejected",
                              ![rq[r].rule].approvedBy = rq[r].who]
    /\ Finish(r)
    /\ UNCHANGED jurisdiction

----------------------------------------------------------------------------
(* The operational state                                                   *)

\* The rank of the target is compared with that of the state just read.
RequestState(r, m, target) ==
    /\ Begin(r, [Idle EXCEPT !.op = "request", !.who = m, !.by = m, !.target = target, !.pc =
                    IF STATE_RANK[target] >= STATE_RANK[jurisdiction.state] THEN "apply" ELSE "pend"])
    /\ UNCHANGED <<rules, jurisdiction>>

ConfirmState(r, m) ==
    /\ jurisdiction.pending # None
    /\ jurisdiction.pendingBy # m
    /\ Begin(r, [Idle EXCEPT !.op = "confirm", !.pc = "apply", !.who = m,
                             !.by = jurisdiction.pendingBy, !.target = jurisdiction.pending])
    /\ UNCHANGED <<rules, jurisdiction>>

\* applyOperationalState, for a tightening and for a confirmation alike.
ApplyState(r) ==
    /\ rq[r].pc = "apply"
    /\ jurisdiction' = [state |-> rq[r].target, pending |-> None, pendingBy |-> None]
    /\ Finish(r)
    /\ UNCHANGED rules

SetPendingState(r) ==
    /\ rq[r].pc = "pend"
    /\ jurisdiction' = [jurisdiction EXCEPT !.pending = rq[r].target, !.pendingBy = rq[r].who]
    /\ Finish(r)
    /\ UNCHANGED rules

----------------------------------------------------------------------------

\* The clock passes a rule's expires_at.
Lapse(k) ==
    /\ rules[k].state # "none"
    /\ ~rules[k].lapsed
    /\ rules' = [rules EXCEPT ![k].lapsed = TRUE]
    /\ UNCHANGED <<jurisdiction, rq>>

Propose(r) == (\E m \in Managers, c \in Capabilities : ProposeBegin(r, m, c))
              \/ InsertProposal(r)
Approve(r) == (\E m \in Managers, k \in RuleIds : ApproveBegin(r, m, k))
              \/ AssertDependenciesCoherent(r) \/ ActivateRule(r)
Reject(r)  == (\E m \in Managers, k \in RuleIds : RejectBegin(r, m, k)) \/ RejectRule(r)
State(r)   == \/ \E m \in Managers, s \in States : RequestState(r, m, s)
              \/ \E m \in Managers : ConfirmState(r, m)
              \/ ApplyState(r) \/ SetPendingState(r)

\* Everything but the invalidation, which touches a cache of the gate's.
Administer ==
    \/ \E k \in RuleIds : Lapse(k)
    \/ \E r \in Reqs : Propose(r) \/ Approve(r) \/ Reject(r) \/ State(r) \/ Drop(r)

PolicyNext == Administer \/ \E r \in Reqs : Invalidated(r)

PolicySpec == PolicyInit /\ [][PolicyNext]_policyVars

----------------------------------------------------------------------------
(* Safety                                                                  *)

\* Decision 107: a rule in force was proposed by one manager and approved by
\* another, although approvals and rejections write by id what they read
\* some statements earlier, and both write approved_by.
RuleByTwo ==
    \A k \in RuleIds : rules[k].state = "active" =>
        rules[k].approvedBy \notin {None, rules[k].by}

\* "there is never zero or two active rules visible" (activateRule): never
\* two, whatever approvals overlap, even of proposals made side by side.
OneInForce == \A c \in Capabilities : Cardinality(RulesIn("active", c)) <= 1

----------------------------------------------------------------------------
(* What comments and documents say, and the code does not do               *)

\* Decision 107, requestOperationalState: a step toward "live" applies what
\* one manager asked for and a different one confirmed.
LooseningByTwo ==
    [][STATE_RANK[jurisdiction'.state] < STATE_RANK[jurisdiction.state] =>
          \E r \in Reqs : rq[r].pc = "apply" /\ rq'[r] = Idle
                          /\ rq[r].by # rq[r].who]_policyVars

=============================================================================
