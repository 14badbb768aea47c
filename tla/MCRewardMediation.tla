------------------------- MODULE MCRewardMediation -------------------------
(* Model-checking instance of RewardMediation.                             *)
EXTENDS RewardMediation, TLC

\* Slots are interchangeable, and so are mediators and the help offers made with an account.
Symmetry == UNION {Permutations(Reqs), Permutations(Mediators), Permutations(HelpOffers \ Anonymous)}

\* The bound of the run reward: one recipient, one charge, and either a second resolution
\* or a contest; or two recipients, the second charge, and neither.
TwoResolutions == resolutions[MaxResolutions].status # "none"
Contested      == contests[MaxContests].status # "none"
TwoCharges     == rail[MaxCharges].status # "none" \/ Cardinality(onboarded) > 1
Narrow == /\ ~(TwoResolutions /\ Contested)
          /\ TwoCharges => ~TwoResolutions /\ ~Contested

=============================================================================
