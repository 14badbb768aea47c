----------------------------- MODULE FeePolicy -----------------------------
(***************************************************************************)
(* The rules of payment of a category: fee rules, risk tiers, and the veto *)
(* that keeps peer_to_peer out of high-risk categories.  Rules and tiers   *)
(* are cached apart, 60 s each, by every process; as in PanelGuards a       *)
(* request lasts less than a tick.                                         *)
(***************************************************************************)
EXTENDS Handlers

CONSTANTS
    RuleTtl,  \* TTL_MS of the fee cache, in ticks
    TierTtl   \* TTL_MS of the tier cache, in ticks

ASSUME FeeAssumption == {RuleTtl, TierTtl} \subseteq Nat \ {0}

VARIABLES
    rules,     \* tb_fee_rule: per row "none", or whether peer_to_peer is allowed
    tier,      \* tb_risk_tier_config of the category
    ruleEntry, \* this process's cached rule of the category
    tierEntry, \* this process's cached tier
    high       \* history: ticks since the tier became high, 0 when it is not

feeVars == <<rules, tier, ruleEntry, tierEntry, high, rq>>

Modes == {"none", "peer", "mediated"}
Tiers == {"low", "medium", "high"}
Empty == [left |-> 0, value |-> "none"]

FeeTypeOK ==
    /\ rules \in [own : Modes, global : Modes]
    /\ tier \in Tiers
    /\ ruleEntry \in [left : 0 .. RuleTtl, value : Modes]
    /\ tierEntry \in [left : 0 .. TierTtl, value : Tiers \cup {"none"}]
    /\ high \in 0 .. TierTtl + 1

FeeInit ==
    /\ rules = [own |-> "none", global |-> "none"]
    /\ tier \in Tiers
    /\ ruleEntry = Empty /\ tierEntry = Empty /\ high = 0
    /\ HandlersInit

----------------------------------------------------------------------------
(* getRiskTier, as a step of the handler that asks                         *)

TierHit(r) ==
    /\ rq[r].op # "idle" /\ rq[r].pc = "tier" /\ tierEntry.left > 0
    /\ With(r, [pc |-> "tiered", tier |-> tierEntry.value])
    /\ UNCHANGED <<rules, tier, ruleEntry, tierEntry, high>>

TierMiss(r) ==
    /\ rq[r].op # "idle" /\ rq[r].pc = "tier" /\ tierEntry.left = 0
    /\ With(r, [pc |-> "tierStore", tier |-> tier])
    /\ UNCHANGED <<rules, tier, ruleEntry, tierEntry, high>>

TierStore(r) ==
    /\ rq[r].op # "idle" /\ rq[r].pc = "tierStore"
    /\ tierEntry' = [left |-> TierTtl, value |-> rq[r].tier]
    /\ Goto(r, "tiered")
    /\ UNCHANGED <<rules, tier, ruleEntry, high>>

\* setRiskTier on this process, which drops the entry, or on another, which does not.
SetRiskTier(t, here) ==
    /\ t # tier
    /\ tier' = t
    /\ tierEntry' = IF here THEN Empty ELSE tierEntry
    /\ high' = 0
    /\ UNCHANGED <<rules, ruleEntry, rq>>

----------------------------------------------------------------------------
(* getFeeRule                                                              *)

Asking(pc, value) == [op |-> "get", pc |-> pc, value |-> value]

\* Mutated form: the veto is cached with the rule.
GetHitVetoed(r) ==
    /\ ruleEntry.left > 0
    /\ Begin(r, Asking("tiered", ruleEntry.value) @@ [tier |-> "low"])
    /\ UNCHANGED <<rules, tier, ruleEntry, tierEntry, high>>

GetHit(r) ==
    /\ ruleEntry.left > 0
    /\ Begin(r, Asking("tier", ruleEntry.value))
    /\ UNCHANGED <<rules, tier, ruleEntry, tierEntry, high>>

\* The category's own rule, else the global one, else both modes.
GetMiss(r) ==
    /\ ruleEntry.left = 0
    /\ Begin(r, Asking(IF rules.own # "none" THEN "ruleStore" ELSE "fallback", rules.own))
    /\ UNCHANGED <<rules, tier, ruleEntry, tierEntry, high>>

GetFallback(r) ==
    /\ At(r, "get", "fallback")
    /\ With(r, [pc |-> "ruleStore", value |-> IF rules.global = "none" THEN "peer" ELSE rules.global])
    /\ UNCHANGED <<rules, tier, ruleEntry, tierEntry, high>>

RuleStore(r) ==
    /\ At(r, "get", "ruleStore")
    /\ ruleEntry' = [left |-> RuleTtl, value |-> rq[r].value]
    /\ Goto(r, "tier")
    /\ UNCHANGED <<rules, tier, tierEntry, high>>

\* applyTierVeto, outside the fee cache.
Veto(r) ==
    /\ At(r, "get", "tiered")
    /\ rq' = [rq EXCEPT ![r] =
         Asking("answer", IF rq[r].tier = "high" THEN "mediated" ELSE rq[r].value)]
    /\ UNCHANGED <<rules, tier, ruleEntry, tierEntry, high>>

----------------------------------------------------------------------------
(* setFeeRule                                                              *)

\* A category's own rule that allows peer_to_peer asks for the tier first.
SetBegin(r, row, value) ==
    /\ Begin(r, [op |-> "set", row |-> row, value |-> value, tier |-> "low",
                 pc |-> IF row = "own" /\ value = "peer" THEN "tier" ELSE "tiered"])
    /\ UNCHANGED <<rules, tier, ruleEntry, tierEntry, high>>

\* upsertFeeRule, and the cached rule goes.
SetFeeRule(r) ==
    /\ At(r, "set", "tiered") /\ rq[r].tier # "high"
    /\ rules' = [rules EXCEPT ![rq[r].row] = rq[r].value]
    /\ ruleEntry' = Empty
    /\ Finish(r)
    /\ UNCHANGED <<tier, tierEntry, high>>

FeeTick ==
    /\ \A r \in Reqs : rq[r].op = "idle"
    /\ ruleEntry' = IF ruleEntry.left > 1 THEN [ruleEntry EXCEPT !.left = @ - 1] ELSE Empty
    /\ tierEntry' = IF tierEntry.left > 1 THEN [tierEntry EXCEPT !.left = @ - 1] ELSE Empty
    /\ high' = IF tier = "high" /\ high <= TierTtl THEN high + 1 ELSE high
    /\ UNCHANGED <<rules, tier, rq>>

FeeNext ==
    \/ \E r \in Reqs :
        \/ TierHit(r) \/ TierMiss(r) \/ TierStore(r)
        \/ GetHit(r) \/ GetMiss(r) \/ GetFallback(r) \/ RuleStore(r) \/ Veto(r)
        \/ \E row \in {"own", "global"}, value \in {"peer", "mediated"} : SetBegin(r, row, value)
        \/ SetFeeRule(r)
        \/ GivesUp(r) /\ UNCHANGED <<rules, tier, ruleEntry, tierEntry, high>>
    \/ \E t \in Tiers, here \in BOOLEAN : SetRiskTier(t, here)
    \/ FeeTick

FeeSpec == FeeInit /\ [][FeeNext]_feeVars

----------------------------------------------------------------------------

\* Decisions 58/82: "a tier change converges on the tier cache's own TTL".  Wherever
\* the rule came from and however old its cached copy is, a category that has been high
\* for as long as a tier is cached is never answered with peer_to_peer.
PeerToPeerVetoed ==
    \A r \in Reqs :
        At(r, "get", "answer") /\ rq[r].value = "peer" => tier # "high" \/ high < TierTtl

=============================================================================
