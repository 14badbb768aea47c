---------------------------- MODULE MCLegalGate ----------------------------
EXTENDS LegalGate, TLC

CONSTANTS m1, m2, r1

\* The one pair of CAPABILITY_REQUIRES.
Pair      == {"reward.monetary", "reward.mediation"}
Dependent == [c \in {"reward.monetary"} |-> "reward.mediation"]

Symmetry == Permutations({m1, m2})

\* One run, four scenes, to keep their products apart.  "rules", "state": two
\* overlapping handlers for one or the other, and no question.  "gate":
\* questions, time and outages beside one handler at a time that proposes,
\* approves or suspends.  "sandbox": the same in the sandbox, with one rule.
VARIABLE scene

SceneInit == /\ Init
             /\ scene \in {"rules", "state", "gate", "sandbox"}
             /\ sandbox <=> scene = "sandbox"

Served(ops) == \A r \in Reqs : rq'[r].op \in ops \cup {"idle"}
Quiet == gates' = gates /\ \A k \in RuleIds : since'[k] \in {0, since[k]}

OneHandler ==
    /\ \A r \in Reqs \ {r1} : rq'[r] = Idle
    /\ Served({"propose", "approve", "request"})
    /\ rq'[r1].op = "request" => rq'[r1].pc = "apply" /\ rq'[r1].who # rules'[1].by

Declared(statuses) == \A k \in RuleIds : rules'[k].status \in statuses
Decided == \A k \in RuleIds : rules'[k].lapsed => rules'[k].state \in {"active", "superseded"}

OneProposer ==
    \A j, k \in RuleIds : rules'[j].by = rules'[k].by \/ None \in {rules'[j].by, rules'[k].by}

SceneNext ==
    /\ Next
    /\ \/ /\ scene = "rules" /\ Quiet
          /\ Served({"propose", "approve", "reject"}) /\ Declared({"allowed", "blocked"})
       \/ scene = "state" /\ Quiet /\ Served({"request", "confirm"})
       \/ /\ scene = "gate" /\ OneHandler /\ rq'[r1].target \in {"live", "suspended"}
          /\ Declared({"allowed", "blocked"}) /\ Decided /\ OneProposer
       \/ /\ scene = "sandbox" /\ OneHandler /\ Decided
          /\ \A k \in RuleIds : k > 1 => rules'[k] = NoRule
    /\ UNCHANGED scene

SceneSpec == SceneInit /\ [][SceneNext]_<<vars, scene>>
=============================================================================
