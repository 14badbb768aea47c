----------------------------- MODULE LegalGate -----------------------------
(***************************************************************************)
(* The Legal Gate as one process of the API runs it, beside the            *)
(* administration of LegalPolicy: may this capability execute here, now?   *)
(*                                                                         *)
(* The jurisdiction is read from the database on every question.  Rules    *)
(* are cached for Ttl; when the database fails, an entry serves for        *)
(* Degraded.  A question spans several awaits, and both the policy and the *)
(* cache move between them: where a continuation touches the cache, the    *)
(* query and its continuation are two actions.                             *)
(*                                                                         *)
(* Time passes in ticks.  Dates are kept as ages: the ticks since.         *)
(***************************************************************************)
EXTENDS LegalPolicy

CONSTANTS
    Gates,     \* slots for questions asked of the gate
    Ttl,       \* RULE_TTL_MS
    Degraded,  \* degradedWindowMs()
    Span       \* bound: the ticks one question lasts

ASSUME GateAssumption ==
    /\ {Ttl, Degraded} \subseteq Nat \ {0}
    /\ Span \in Nat

VARIABLES
    sandbox,  \* the jurisdiction's is_sandbox
    cache,    \* ruleCache of this process, by capability
    gates,    \* the questions in flight
    since     \* history: the ticks since each rule was last in force

gateVars == <<sandbox, cache, gates, since>>
vars     == <<policyVars, gateVars>>

----------------------------------------------------------------------------

\* Past both windows an entry serves no more.  Old is past any bound below:
\* an age stops there.
Stale    == IF Ttl > Degraded THEN Ttl ELSE Degraded
Old      == Stale + Span
Ages     == 0 .. Old
Older(n) == IF n < Old THEN n + 1 ELSE n

\* rule 0: the answer was that no rule is active.
Entry   == [known : BOOLEAN, rule : {0} \cup RuleIds, age : Ages]
NoEntry == [known |-> FALSE, rule |-> 0, age |-> Old]

\* An entry too old to serve is as good as none.
Kept(entry) == IF entry.age < Stale THEN entry ELSE NoEntry

\* cap: the capability asked for; of: the one under evaluation, cap or the one
\* it requires; state: the operational state read for it; open: history, the
\* jurisdiction was not suspended at some moment of this evaluation; kept and
\* clock: the entry found and the ticks since Date.now(); basis: what has let
\* the question through so far, each with the window it had to be in; age: the
\* ticks since the question.
NoGate == [pc |-> "idle", cap |-> None, of |-> None, state |-> "live", open |-> FALSE,
           kept |-> NoEntry, clock |-> 0, answer |-> 0, basis |-> {}, age |-> 0]

Ground == [of : Capabilities, rule : {0} \cup RuleIds, window : {Ttl, Degraded}]

Gate == [pc : {"idle", "jurisdiction", "rule", "query", "settle", "allowed"},
         cap : Capabilities \cup {None}, of : Capabilities \cup {None}, state : States,
         open : BOOLEAN, kept : Entry, clock : Nat, answer : {0} \cup RuleIds,
         basis : SUBSET Ground, age : Nat]

TypeOK ==
    /\ PolicyTypeOK
    /\ sandbox \in BOOLEAN
    /\ cache \in [Capabilities -> Entry]
    /\ gates \in [Gates -> Gate]
    /\ since \in [RuleIds -> Ages]

Init ==
    /\ PolicyInit
    /\ sandbox \in BOOLEAN
    /\ cache = [c \in Capabilities |-> NoEntry]
    /\ gates = [g \in Gates |-> NoGate]
    /\ since = [k \in RuleIds |-> Old]

----------------------------------------------------------------------------
(* Evaluation                                                              *)

\* An explicit rule wins, the sandbox included; one past its expiry is none.
Permits(k, state) ==
    IF k # 0 /\ ~rules[k].lapsed
    THEN rules[k].status # "blocked" /\ (state = "restricted" => rules[k].status = "allowed")
    ELSE sandbox

\* The evaluation that starts with the read of the jurisdiction.
Evaluate(gate, c) ==
    [gate EXCEPT !.pc = "jurisdiction", !.of = c, !.open = jurisdiction.state # "suspended",
                 !.kept = NoEntry, !.clock = 0, !.answer = 0]

\* What becomes of a question once the rule for gates[g].of is known: refused,
\* on to the capability it requires, or allowed.
Judged(g, k, window) ==
    LET gate == gates[g]
        next == [gate EXCEPT !.basis = @ \cup {[of |-> gate.of, rule |-> k, window |-> window]}]
    IN  IF ~Permits(k, gate.state) THEN NoGate
        ELSE IF gate.of \in DOMAIN Requires THEN Evaluate(next, Requires[gate.of])
        ELSE [next EXCEPT !.pc = "allowed", !.kept = NoEntry, !.clock = 0, !.answer = 0]

Ask(g, c) ==
    /\ gates[g] = NoGate
    /\ gates' = [gates EXCEPT ![g] = Evaluate([NoGate EXCEPT !.cap = c], c)]
    /\ UNCHANGED <<policyVars, sandbox, cache, since>>

\* The kill switch: read on every evaluation, and it never degrades.
ReadJurisdiction(g) ==
    /\ gates[g].pc = "jurisdiction"
    /\ gates' = [gates EXCEPT ![g] =
          IF jurisdiction.state = "suspended" THEN NoGate
          ELSE [@ EXCEPT !.pc = "rule", !.state = jurisdiction.state]]
    /\ UNCHANGED <<policyVars, sandbox, cache, since>>

\* Mutated form: a jurisdiction that cannot be read counts as live.
ReadJurisdictionFailsOpen(g) ==
    /\ gates[g].pc = "jurisdiction"
    /\ gates' = [gates EXCEPT ![g].pc = "rule", ![g].state = "live"]
    /\ UNCHANGED <<policyVars, sandbox, cache, since>>

ReadJurisdictionFails(g) ==
    /\ gates[g].pc = "jurisdiction"
    /\ gates' = [gates EXCEPT ![g] = NoGate]
    /\ UNCHANGED <<policyVars, sandbox, cache, since>>

\* Mutated form: an entry answers however old.
LookUpRuleUndated(g) ==
    LET entry == cache[gates[g].of] IN
    /\ gates[g].pc = "rule"
    /\ gates' = [gates EXCEPT ![g] =
          IF entry.known THEN Judged(g, entry.rule, Ttl)
          ELSE [@ EXCEPT !.pc = "query", !.kept = entry, !.clock = 0]]
    /\ UNCHANGED <<policyVars, sandbox, cache, since>>

\* getRule up to its query: a fresh entry answers at once.
LookUpRule(g) ==
    LET entry == cache[gates[g].of] IN
    /\ gates[g].pc = "rule"
    /\ gates' = [gates EXCEPT ![g] =
          IF entry.known /\ entry.age < Ttl THEN Judged(g, entry.rule, Ttl)
          ELSE [@ EXCEPT !.pc = "query", !.kept = entry, !.clock = 0]]
    /\ UNCHANGED <<policyVars, sandbox, cache, since>>

\* findActiveRule: the latest active version.
QueryRule(g) ==
    LET active == RulesIn("active", gates[g].of) IN
    /\ gates[g].pc = "query"
    /\ \E k \in {0} \cup active :
          /\ k = 0 <=> active = {}
          /\ \A j \in active : j <= k
          /\ gates' = [gates EXCEPT ![g].pc = "settle", ![g].answer = k]
    /\ UNCHANGED <<policyVars, sandbox, cache, since>>

\* The entry is dated from before the query.
SettleRule(g) ==
    /\ gates[g].pc = "settle"
    /\ cache' = [cache EXCEPT ![gates[g].of] =
                    Kept([known |-> TRUE, rule |-> gates[g].answer, age |-> gates[g].clock])]
    /\ gates' = [gates EXCEPT ![g] = Judged(g, gates[g].answer, Ttl)]
    /\ UNCHANGED <<policyVars, sandbox, since>>

\* The last known answer serves while it is young enough; the age it had when
\* the clock was read decides.
QueryFails(g) ==
    LET gate == gates[g] IN
    /\ gate.pc = "query"
    /\ gates' = [gates EXCEPT ![g] =
          IF gate.kept.known /\ gate.kept.age < Degraded
          THEN Judged(g, gate.kept.rule, Degraded) ELSE NoGate]
    /\ UNCHANGED <<policyVars, sandbox, cache, since>>

\* The caller gets its answer and goes on.
Serve(g) ==
    /\ gates[g].pc = "allowed"
    /\ gates' = [gates EXCEPT ![g] = NoGate]
    /\ UNCHANGED <<policyVars, sandbox, cache, since>>

----------------------------------------------------------------------------
(* The policy beside it                                                    *)

\* The state and the rules move under the questions in flight.
Watch ==
    /\ gates' = [g \in Gates |-> IF gates[g].pc = "idle" THEN gates[g] ELSE
                    [gates[g] EXCEPT !.open = @ \/ jurisdiction'.state # "suspended"]]
    /\ since' = [k \in RuleIds |-> IF rules'[k].state = "active" THEN 0 ELSE since[k]]

AdministerBeside == Administer /\ Watch /\ UNCHANGED <<sandbox, cache>>

\* The handler ran in this process or in another one, whose cache it clears.
InvalidateLegalGateCache(r) ==
    /\ Invalidated(r)
    /\ \/ cache' = [c \in Capabilities |-> NoEntry]
       \/ UNCHANGED cache
    /\ UNCHANGED <<sandbox, gates, since>>

Tick ==
    /\ \A g \in Gates : gates[g].pc # "idle" => gates[g].age < Span
    /\ cache' = [c \in Capabilities |-> Kept([cache[c] EXCEPT !.age = Older(@)])]
    /\ gates' = [g \in Gates |-> IF gates[g].pc = "idle" THEN gates[g] ELSE
                    [gates[g] EXCEPT !.age = @ + 1,
                                     !.clock = IF gates[g].pc \in {"query", "settle"}
                                               THEN @ + 1 ELSE @]]
    /\ since' = [k \in RuleIds |-> IF rules[k].state = "active" THEN 0 ELSE Older(since[k])]
    /\ UNCHANGED <<policyVars, sandbox>>

Question(g) ==
    \/ \E c \in Capabilities : Ask(g, c)
    \/ ReadJurisdiction(g) \/ ReadJurisdictionFails(g) \/ LookUpRule(g)
    \/ QueryRule(g) \/ SettleRule(g) \/ QueryFails(g) \/ Serve(g)

Next ==
    \/ AdministerBeside \/ Tick
    \/ \E r \in Reqs : InvalidateLegalGateCache(r)
    \/ \E g \in Gates : Question(g)

Spec == Init /\ [][Next]_vars

----------------------------------------------------------------------------
(* Safety                                                                  *)

Allows(g) == gates[g].pc # "allowed" /\ gates'[g].pc = "allowed"

\* Decisions 107/109, the kill switch: nothing is allowed by an evaluation
\* all of which ran under a suspension, cached rules, outages and unanswered
\* reads notwithstanding.
SuspensionStops == [][\A g \in Gates : Allows(g) => gates[g].open]_vars

\* Decisions 98/104/109: an allowance of a capability, and of the one it
\* requires, rests on rules that declare it and that were in force within the
\* cache's time to live, or the degraded window in an outage, of the question;
\* on no rule at all only in the sandbox.  Superseding a rule therefore shuts
\* every process within the window, whatever its cache and the database do.
NoStaleAllowance ==
    [][\A g \in Gates : Allows(g) =>
          LET gate  == gates'[g]
              needs == {gate.cap} \cup {Requires[c] : c \in {gate.cap} \cap DOMAIN Requires}
          IN  /\ \A c \in needs : \E b \in gate.basis : b.of = c
              /\ \A b \in gate.basis :
                    IF b.rule = 0 THEN sandbox
                    ELSE /\ rules[b.rule].cap = b.of
                         /\ rules[b.rule].status # "blocked" \/ (sandbox /\ rules[b.rule].lapsed)
                         /\ since[b.rule] < b.window + gate.age]_vars

=============================================================================
