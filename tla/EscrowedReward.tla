--------------------------- MODULE EscrowedReward ---------------------------
(***************************************************************************)
(* What a reward promises, without requests, rows or the rail's protocol.  *)
(*                                                                         *)
(* stage   the status the case shows for its reward;                       *)
(* verdict the outcomes two different mediators have agreed on and whose   *)
(*         contest window is over;                                         *)
(* money   what has happened to retained money: "captured" (released to    *)
(*         the helpers on a verdict), "expired" (released by the rail when *)
(*         its retention ran out), "refunded" (back to the payer).         *)
(*                                                                         *)
(* The promise: money retained for a reward is captured or refunded only   *)
(* on a verdict to that effect; the stage says so only after it happened;  *)
(* and a settled reward is never on offer again.                           *)
(***************************************************************************)
VARIABLES stage, verdict, money

escrowVars == <<stage, verdict, money>>

Stages   == {"none", "open", "reserved", "released", "refunded"}
Verdicts == {"fulfilled", "not_fulfilled"}
Fates    == {"captured", "expired", "refunded"}

Init == stage = "none" /\ verdict = {} /\ money = {}

Offer ==
    /\ stage = "none"
    /\ stage' = "open"
    /\ UNCHANGED <<verdict, money>>

\* The guarantee is reserved; a reservation already made may be made again.
Guarantee ==
    /\ stage \in {"open", "reserved"}
    /\ stage' = "reserved"
    /\ UNCHANGED <<verdict, money>>

\* Contest windows run out; a verdict is never taken back.
Decide ==
    /\ verdict \subseteq verdict'
    /\ verdict' \subseteq Verdicts
    /\ UNCHANGED <<stage, money>>

MoneyMoves ==
    /\ \/ "fulfilled" \in verdict     /\ money' = money \cup {"captured"}
       \/ "not_fulfilled" \in verdict /\ money' = money \cup {"refunded"}
       \/ money' = money \cup {"expired"}
    /\ UNCHANGED <<stage, verdict>>

Settle ==
    /\ stage \in {"reserved", "released", "refunded"}
    /\ \/ stage' = "released" /\ money # {}
       \/ stage' = "refunded" /\ "refunded" \in money
    /\ UNCHANGED <<verdict, money>>

Next == Offer \/ Guarantee \/ Decide \/ MoneyMoves \/ Settle

Spec == Init /\ [][Next]_escrowVars

=============================================================================
