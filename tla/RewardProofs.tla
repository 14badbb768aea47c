---------------------------- MODULE RewardProofs ----------------------------
(***************************************************************************)
(* Rewards, for every value of the constants: the types; that the rail     *)
(* moves money only on a verdict of two mediators whose contest window is  *)
(* over; and that the reward implements EscrowedReward.                    *)
(*                                                                         *)
(* The requests in flight and the rows of the tables are treated apart:    *)
(* few forms of update of rq occur, and one lemma per form says that it    *)
(* keeps what is known of the requests.                                    *)
(***************************************************************************)
EXTENDS RewardMediation, TLAPS

USE RewardAssumption

PanelOps == {"propose", "approve", "cancel", "execute"}

\* Whoever runs a panel handler that names a resolution is a mediator, and a
\* reconciling read follows a real charge.
RequestsOK ==
    /\ rq \in [Reqs -> Request]
    /\ \A r \in Reqs :
          /\ rq[r].op \in PanelOps => rq[r].who \in Mediators
          /\ At(r, "state", "rail") => rq[r].charge \in ChargeIds

TablesOK ==
    /\ offer \in [status : OfferStatus, charge : {0} \cup ChargeIds, criteria : Nat,
                 resolved : BOOLEAN]
    /\ recipients \in [HelpOffers -> [cents : Nat, status : {"none", "pending", "paid"}]]
    /\ onboarded \subseteq Accounts
    /\ criteria \in Nat
    /\ resolutions \in [ResolutionIds -> Resolution]
    /\ contests \in [ContestIds -> [status : {"none", "open", "closed"},
                                  res : {0} \cup ResolutionIds]]
    /\ log \subseteq (Ops \X (Mediators \cup Accounts \cup {None}))
    /\ rail \in [ChargeIds -> [status : RailStatus, since : Nat]]
    /\ now \in Nat

TypeInv == TablesOK /\ RequestsOK

LEMMA TypeInvTypeOK == TypeInv => TypeOK
BY DEF TypeInv, TablesOK, RequestsOK, TypeOK

----------------------------------------------------------------------------
(* The forms of update of rq                                               *)

LEMMA IdleRequest ==
    /\ Idle \in Request
    /\ Idle.op = "idle"
    /\ Idle.charge = 0
BY DEF Idle, Request, Awaits, NoSplit, Split, RailStatus, Ops, RewardAssumption

LEMMA RequestSplit ==
    ASSUME NEW q \in Request, NEW n \in Nat, NEW s \in Split
    PROVE  [q EXCEPT !.pc = "charge", !.criteria = n, !.split = s] \in Request
BY DEF Request, Awaits

LEMMA RequestCharge ==
    ASSUME NEW q \in Request, NEW c \in ChargeIds
    PROVE  [q EXCEPT !.pc = "mark", !.charge = c] \in Request
BY DEF Request, Awaits

LEMMA RequestInstructed ==
    ASSUME NEW q \in Request
    PROVE  [q EXCEPT !.pc = "markOffer", !.seen = {}, !.charge = 0] \in Request
BY DEF Request, Awaits

LEMMA RequestPanel ==
    ASSUME NEW q \in Request, NEW c \in {0} \cup ChargeIds, NEW K \in SUBSET ContestIds,
           NEW o \in Ops, NEW m \in Mediators
    PROVE  [q EXCEPT !.op = o, !.pc = "live", !.who = m, !.charge = c, !.seen = K] \in Request
BY DEF Request, Awaits

LEMMA GotoKeeps ==
    ASSUME RequestsOK, NEW r \in Reqs, NEW p \in Awaits \ {"rail"}, Goto(r, p)
    PROVE  RequestsOK'
<1>1. [rq[r] EXCEPT !.pc = p] \in Request
  BY DEF RequestsOK, Request
<1>2. rq' = [rq EXCEPT ![r] = [rq[r] EXCEPT !.pc = p]]
  BY DEF Goto
<1>3. rq' \in [Reqs -> Request]
  BY <1>1, <1>2 DEF RequestsOK
<1>4. rq'[r].op = rq[r].op /\ rq'[r].who = rq[r].who /\ rq'[r].pc # "rail"
  BY <1>2 DEF RequestsOK, Request
<1>5. QED
  BY <1>2, <1>3, <1>4 DEF RequestsOK, At

LEMMA SetResKeeps ==
    ASSUME RequestsOK, NEW r \in Reqs, NEW p \in Awaits \ {"rail"}, NEW k \in ResolutionIds,
           rq' = [rq EXCEPT ![r].pc = p, ![r].res = k]
    PROVE  RequestsOK'
<1>1. [rq[r] EXCEPT !.pc = p, !.res = k] \in Request
  BY DEF RequestsOK, Request
<1>2. rq' = [rq EXCEPT ![r] = [rq[r] EXCEPT !.pc = p, !.res = k]]
  OBVIOUS
<1>3. rq' \in [Reqs -> Request]
  BY <1>1, <1>2 DEF RequestsOK
<1>4. rq'[r].op = rq[r].op /\ rq'[r].who = rq[r].who /\ rq'[r].pc # "rail"
  BY <1>2 DEF RequestsOK, Request
<1>5. QED
  BY <1>2, <1>3, <1>4 DEF RequestsOK, At

LEMMA ToLogKeeps ==
    ASSUME RequestsOK, NEW r \in Reqs, ToLog(r)
    PROVE  RequestsOK'
<1> DEFINE q == [Idle EXCEPT !.op = rq[r].op, !.pc = "log", !.who = rq[r].who]
<1>1. q \in Request /\ q.op = rq[r].op /\ q.who = rq[r].who /\ q.pc = "log"
  BY IdleRequest DEF RequestsOK, Request, Awaits
<1>2. rq' = [rq EXCEPT ![r] = q]
  BY DEF ToLog
<1> HIDE DEF q
<1>3. QED
  BY <1>1, <1>2 DEF RequestsOK, At

LEMMA FinishKeeps ==
    ASSUME RequestsOK, NEW r \in Reqs, Finish(r)
    PROVE  RequestsOK'
BY IdleRequest DEF RequestsOK, Finish, PanelOps, At

\* A request that starts, or is rewritten as a whole.
LEMMA ReplaceKeeps ==
    ASSUME RequestsOK, NEW r \in Reqs, NEW q \in Request,
           q.op \in PanelOps => q.who \in Mediators,
           q.pc = "rail" => q.charge \in ChargeIds,
           rq' = [rq EXCEPT ![r] = q]
    PROVE  RequestsOK'
BY DEF RequestsOK, At

LEMMA SameRequests == RequestsOK /\ UNCHANGED rq => RequestsOK'
BY DEF RequestsOK, At

----------------------------------------------------------------------------
(* Types                                                                   *)

LEMMA TypeInit == Init => TypeInv
BY IdleRequest
   DEF Init, TypeInv, TablesOK, RequestsOK, PanelOps, At, NoOffer, NoRecipient,
       NoResolution, NoContest, NoCharge, OfferStatus, Resolution, ResStatus, Outcomes,
       RailStatus, Accounts

LEMMA RequestsStep == TypeInv /\ [Next]_vars => RequestsOK'
<1> SUFFICES ASSUME TypeInv, [Next]_vars PROVE RequestsOK'
  OBVIOUS
<1> USE DEF TypeInv
<1>1. CASE OfferReward \/ PublishCriteria \/ NextDay \/ UNCHANGED vars
  BY <1>1, SameRequests DEF OfferReward, PublishCriteria, NextDay, vars
<1>2. CASE \E h \in HelpOffers : OnboardAsRecipient(h)
  BY <1>2, SameRequests DEF OnboardAsRecipient
<1>3. CASE \E c \in ChargeIds : RailExpire(c)
  BY <1>3, SameRequests DEF RailExpire
<1>4. ASSUME NEW r \in Reqs, Drop(r) PROVE RequestsOK'
  BY <1>4, FinishKeeps DEF Drop
<1>5. ASSUME NEW r \in Reqs, MarkReserved(r) PROVE RequestsOK'
  BY <1>5, FinishKeeps DEF MarkReserved
<1>6. ASSUME NEW r \in Reqs, AppendLog(r) PROVE RequestsOK'
  BY <1>6, FinishKeeps DEF AppendLog
<1>7. ASSUME NEW r \in Reqs, StateReconcile(r) PROVE RequestsOK'
  BY <1>7, FinishKeeps DEF StateReconcile
<1>8. ASSUME NEW r \in Reqs, StateReply(r) PROVE RequestsOK'
  BY <1>8, FinishKeeps DEF StateReply
<1>9. ASSUME NEW r \in Reqs, ProposeCheck(r) PROVE RequestsOK'
  BY <1>9, GotoKeeps DEF ProposeCheck, Awaits
<1>10. ASSUME NEW r \in Reqs, ExecuteContests(r) PROVE RequestsOK'
  BY <1>10, GotoKeeps DEF ExecuteContests, Awaits
<1>11. ASSUME NEW r \in Reqs, MarkPaid(r) PROVE RequestsOK'
  BY <1>11, GotoKeeps DEF MarkPaid, Awaits
<1>12. ASSUME NEW r \in Reqs, MarkOffer(r) PROVE RequestsOK'
  BY <1>12, GotoKeeps DEF MarkOffer, Awaits
<1>13. ASSUME NEW r \in Reqs, ApproveCheck(r) PROVE RequestsOK'
  <2>1. \E k \in ResolutionIds, p \in Awaits \ {"rail"} :
           rq' = [rq EXCEPT ![r].pc = p, ![r].res = k]
    BY <1>13 DEF ApproveCheck, LiveIds, Awaits
  <2>2. QED
    BY <2>1, SetResKeeps
<1>14. ASSUME NEW r \in Reqs, CancelCheck(r) PROVE RequestsOK'
  <2>1. \E k \in ResolutionIds, p \in Awaits \ {"rail"} :
           rq' = [rq EXCEPT ![r].pc = p, ![r].res = k]
    BY <1>14 DEF CancelCheck, LiveIds, Awaits
  <2>2. QED
    BY <2>1, SetResKeeps
<1>15. ASSUME NEW r \in Reqs, ExecuteCheck(r) PROVE RequestsOK'
  <2>1. \E k \in ResolutionIds, p \in Awaits \ {"rail"} :
           rq' = [rq EXCEPT ![r].pc = p, ![r].res = k]
    BY <1>15 DEF ExecuteCheck, LiveIds, Awaits
  <2>2. QED
    BY <2>1, SetResKeeps
<1>16. ASSUME NEW r \in Reqs, InsertResolution(r) PROVE RequestsOK'
  BY <1>16, ToLogKeeps DEF InsertResolution
<1>17. ASSUME NEW r \in Reqs, ApproveResolution(r) PROVE RequestsOK'
  BY <1>17, ToLogKeeps DEF ApproveResolution
<1>18. ASSUME NEW r \in Reqs, CancelResolution(r) PROVE RequestsOK'
  BY <1>18, ToLogKeeps DEF CancelResolution
<1>19. ASSUME NEW r \in Reqs, InsertContest(r) PROVE RequestsOK'
  BY <1>19, ToLogKeeps DEF InsertContest
<1>20. ASSUME NEW r \in Reqs, CloseContest(r) PROVE RequestsOK'
  BY <1>20, ToLogKeeps DEF CloseContest
<1>21. ASSUME NEW r \in Reqs, MarkResolutionExecuted(r) PROVE RequestsOK'
  BY <1>21, ToLogKeeps DEF MarkResolutionExecuted
<1>22. ASSUME NEW r \in Reqs, ReserveBegin(r) PROVE RequestsOK'
  <2> DEFINE q == [Idle EXCEPT !.op = "reserve", !.pc = "criteria"]
  <2>1. q \in Request /\ (q.op \in PanelOps => q.who \in Mediators)
          /\ (q.pc = "rail" => q.charge \in ChargeIds)
    BY <1>22, IdleRequest DEF RequestsOK, TablesOK, Request, Awaits, Idle, Ops, PanelOps, Accounts
  <2>2. rq' = [rq EXCEPT ![r] = q]
    BY <1>22 DEF ReserveBegin, Begin
  <2> HIDE DEF q
  <2>3. QED
    BY <2>1, <2>2, ReplaceKeeps
<1>23. ASSUME NEW r \in Reqs, StateBegin(r) PROVE RequestsOK'
  <2> DEFINE q == [Idle EXCEPT !.op = "state", !.pc = "rail", !.charge = offer.charge]
  <2>1. q \in Request /\ (q.op \in PanelOps => q.who \in Mediators)
          /\ (q.pc = "rail" => q.charge \in ChargeIds)
    BY <1>23, IdleRequest DEF RequestsOK, TablesOK, Request, Awaits, Idle, Ops, PanelOps, StateBegin
  <2>2. rq' = [rq EXCEPT ![r] = q]
    BY <1>23 DEF StateBegin, Begin
  <2> HIDE DEF q
  <2>3. QED
    BY <2>1, <2>2, ReplaceKeeps
<1>24. ASSUME NEW r \in Reqs, ReserveCheck(r) PROVE RequestsOK'
  <2>0. PICK s \in ValidSplits :
           rq' = [rq EXCEPT ![r].pc = "charge", ![r].criteria = criteria, ![r].split = s]
    BY <1>24 DEF ReserveCheck
  <2> DEFINE q == [rq[r] EXCEPT !.pc = "charge", !.criteria = criteria, !.split = s]
  <2>a. rq[r] \in Request /\ (rq[r].op \in PanelOps => rq[r].who \in Mediators)
    BY DEF RequestsOK
  <2>b. q \in Request
    <3>1. s \in Split /\ criteria \in Nat
      BY DEF TablesOK, ValidSplits, Split
    <3>2. QED
      BY <2>a, <3>1, RequestSplit
  <2>1. q \in Request /\ (q.op \in PanelOps => q.who \in Mediators)
          /\ (q.pc = "rail" => q.charge \in ChargeIds)
    BY <2>a, <2>b DEF Request
  <2>2. rq' = [rq EXCEPT ![r] = q]
    BY <2>0, <1>24 DEF ReserveCheck, Begin
  <2> HIDE DEF q
  <2>3. QED
    BY <2>1, <2>2, ReplaceKeeps
<1>25. ASSUME NEW r \in Reqs, RailReserve(r) PROVE RequestsOK'
  <2>0. PICK c \in ChargeIds : rq' = [rq EXCEPT ![r].pc = "mark", ![r].charge = c]
    BY <1>25 DEF RailReserve
  <2> DEFINE q == [rq[r] EXCEPT !.pc = "mark", !.charge = c]
  <2>a. rq[r] \in Request /\ (rq[r].op \in PanelOps => rq[r].who \in Mediators)
    BY DEF RequestsOK
  <2>b. q \in Request
    BY <2>a, RequestCharge
  <2>1. q \in Request /\ (q.op \in PanelOps => q.who \in Mediators)
          /\ (q.pc = "rail" => q.charge \in ChargeIds)
    BY <2>a, <2>b DEF Request
  <2>2. rq' = [rq EXCEPT ![r] = q]
    BY <2>0, <1>25 DEF RailReserve, Begin
  <2> HIDE DEF q
  <2>3. QED
    BY <2>1, <2>2, ReplaceKeeps
<1>26. ASSUME NEW r \in Reqs, ExecuteRail(r) PROVE RequestsOK'
  <2> DEFINE q == [rq[r] EXCEPT !.pc = "markOffer", !.seen = {}, !.charge = 0]
  <2>a. rq[r] \in Request /\ (rq[r].op \in PanelOps => rq[r].who \in Mediators)
    BY DEF RequestsOK
  <2>b. q \in Request
    BY <2>a, RequestInstructed
  <2>1. q \in Request /\ (q.op \in PanelOps => q.who \in Mediators)
          /\ (q.pc = "rail" => q.charge \in ChargeIds)
    BY <2>a, <2>b DEF Request
  <2>2. rq' = [rq EXCEPT ![r] = q]
    BY <1>26 DEF ExecuteRail, Begin
  <2> HIDE DEF q
  <2>3. QED
    BY <2>1, <2>2, ReplaceKeeps
<1>27. ASSUME NEW r \in Reqs, StateRail(r) PROVE RequestsOK'
  <2> DEFINE q == [rq[r] EXCEPT !.live = rail[rq[r].charge].status,
                  !.pc = IF rail[rq[r].charge].status \in {"refunded", "expired"}
                         THEN "write" ELSE "reply"]
  <2>1. q \in Request /\ (q.op \in PanelOps => q.who \in Mediators)
          /\ (q.pc = "rail" => q.charge \in ChargeIds)
    BY <1>27, IdleRequest DEF RequestsOK, TablesOK, Request, Awaits, Idle, Ops, PanelOps, StateRail, At
  <2>2. rq' = [rq EXCEPT ![r] = q]
    BY <1>27 DEF StateRail, Begin
  <2> HIDE DEF q
  <2>3. QED
    BY <2>1, <2>2, ReplaceKeeps
<1>28. ASSUME NEW r \in Reqs, NEW m \in Mediators, NEW op \in PanelOps, ReadReservedOffer(r, op, m) PROVE RequestsOK'
  <2> DEFINE q == [Idle EXCEPT !.op = op, !.pc = "live", !.who = m, !.charge = offer.charge,
                              !.seen = IF op = "execute" THEN StandingContests ELSE {}]
  <2>a. Idle \in Request /\ StandingContests \subseteq ContestIds /\ offer.charge \in {0} \cup ChargeIds
    BY IdleRequest DEF StandingContests, TablesOK
  <2>b. q \in Request
    <3>1. op \in Ops /\ (IF op = "execute" THEN StandingContests ELSE {}) \in SUBSET ContestIds
      BY <2>a DEF Ops, PanelOps
    <3>2. QED
      BY <2>a, <3>1, RequestPanel
  <2>1. q \in Request /\ (q.op \in PanelOps => q.who \in Mediators)
          /\ (q.pc = "rail" => q.charge \in ChargeIds)
    BY <2>a, <2>b DEF Request
  <2>2. rq' = [rq EXCEPT ![r] = q]
    BY <1>28 DEF ReadReservedOffer, Begin
  <2> HIDE DEF q
  <2>3. QED
    BY <2>1, <2>2, ReplaceKeeps
<1>29. ASSUME NEW r \in Reqs, NEW a \in Accounts, ContestBegin(r, a) PROVE RequestsOK'
  <2>0. PICK k \in ResolutionIds :
           rq' = [rq EXCEPT ![r] =
              [Idle EXCEPT !.op = "contest", !.pc = "parties", !.who = a, !.res = k]]
    BY <1>29 DEF ContestBegin, LiveIds, Begin
  <2> DEFINE q == [Idle EXCEPT !.op = "contest", !.pc = "parties", !.who = a, !.res = k]
  <2>1. q \in Request /\ (q.op \in PanelOps => q.who \in Mediators)
          /\ (q.pc = "rail" => q.charge \in ChargeIds)
    BY <2>0, <1>29, IdleRequest DEF RequestsOK, TablesOK, Request, Awaits, Idle, Ops, PanelOps
  <2>2. rq' = [rq EXCEPT ![r] = q]
    BY <2>0, <1>29 DEF ContestBegin, Begin
  <2> HIDE DEF q
  <2>3. QED
    BY <2>1, <2>2, ReplaceKeeps
<1>30. ASSUME NEW r \in Reqs, NEW m \in Mediators, CloseContestBegin(r, m) PROVE RequestsOK'
  <2>0. PICK c \in ContestIds :
           rq' = [rq EXCEPT ![r] =
              [Idle EXCEPT !.op = "close", !.pc = "write", !.who = m, !.contest = c]]
    BY <1>30 DEF CloseContestBegin, Begin
  <2> DEFINE q == [Idle EXCEPT !.op = "close", !.pc = "write", !.who = m, !.contest = c]
  <2>1. q \in Request /\ (q.op \in PanelOps => q.who \in Mediators)
          /\ (q.pc = "rail" => q.charge \in ChargeIds)
    BY <2>0, <1>30, IdleRequest DEF RequestsOK, TablesOK, Request, Awaits, Idle, Ops, PanelOps
  <2>2. rq' = [rq EXCEPT ![r] = q]
    BY <2>0, <1>30 DEF CloseContestBegin, Begin
  <2> HIDE DEF q
  <2>3. QED
    BY <2>1, <2>2, ReplaceKeeps
<1>31. QED
  BY <1>1, <1>2, <1>3, <1>4, <1>5, <1>6, <1>7, <1>8, <1>9, <1>10, <1>11, <1>12, <1>13, <1>14, <1>15, <1>16, <1>17, <1>18, <1>19, <1>20, <1>21, <1>22, <1>23, <1>24, <1>25, <1>26, <1>27, <1>28, <1>29, <1>30
     DEF Next, Handler, Reserve, Propose, Approve, Cancel, Contest, Close, Execute, State,
         PanelOps

(* The four writes of a resolution row, and the one of a contest row. *)

LEMMA RowProposed ==
    ASSUME NEW o \in Outcomes, NEW m \in Mediators
    PROVE  [NoResolution EXCEPT !.status = "proposed", !.outcome = o, !.proposedBy = m]
              \in Resolution
BY DEF NoResolution, Resolution, ResStatus

LEMMA RowApproved ==
    ASSUME NEW x \in Resolution, NEW m \in Mediators, NEW n \in Nat
    PROVE  [x EXCEPT !.status = "approved", !.approvedBy = m, !.endsAt = n] \in Resolution
BY DEF Resolution, ResStatus

LEMMA RowCancelled ==
    ASSUME NEW x \in Resolution
    PROVE  [x EXCEPT !.status = "cancelled"] \in Resolution
BY DEF Resolution, ResStatus

LEMMA RowExecuted ==
    ASSUME NEW x \in Resolution
    PROVE  [x EXCEPT !.status = "executed", !.executed = TRUE] \in Resolution
BY DEF Resolution, ResStatus

LEMMA RowClosed ==
    ASSUME NEW x \in [status : {"none", "open", "closed"}, res : {0} \cup ResolutionIds]
    PROVE  [x EXCEPT !.status = "closed"] \in [status : {"none", "open", "closed"},
                                               res : {0} \cup ResolutionIds]
OBVIOUS

LEMMA TablesStep == TypeInv /\ [Next]_vars => TablesOK'
<1> SUFFICES ASSUME TypeInv, [Next]_vars PROVE TablesOK'
  OBVIOUS
<1> USE DEF TypeInv, TablesOK
<1>1. CASE OfferReward
  BY <1>1 DEF OfferReward, OfferStatus
<1>2. CASE PublishCriteria
  BY <1>2 DEF PublishCriteria
<1>3. CASE NextDay
  BY <1>3 DEF NextDay
<1>4. ASSUME NEW h \in HelpOffers, OnboardAsRecipient(h) PROVE TablesOK'
  BY <1>4 DEF OnboardAsRecipient, Accounts
<1>5. ASSUME NEW c \in ChargeIds, RailExpire(c) PROVE TablesOK'
  BY <1>5 DEF RailExpire, RailStatus
<1>6. CASE UNCHANGED vars
  BY <1>6 DEF vars
<1>7. ASSUME NEW r \in Reqs, RailReserve(r) PROVE TablesOK'
  BY <1>7 DEF RailReserve, RailStatus
<1>8. ASSUME NEW r \in Reqs, MarkReserved(r) PROVE TablesOK'
  <2>1. rq[r].charge \in {0} \cup ChargeIds /\ rq[r].criteria \in Nat
          /\ rq[r].split \in [HelpOffers -> Nat]
    BY DEF RequestsOK, Request, Split
  <2>2. offer' \in [status : OfferStatus, charge : {0} \cup ChargeIds, criteria : Nat,
                    resolved : BOOLEAN]
    BY <1>8, <2>1 DEF MarkReserved, OfferStatus
  <2>3. recipients' \in [HelpOffers -> [cents : Nat, status : {"none", "pending", "paid"}]]
    BY <1>8, <2>1 DEF MarkReserved, Targets
  <2>4. QED
    BY <1>8, <2>2, <2>3 DEF MarkReserved
<1>9. ASSUME NEW r \in Reqs, InsertResolution(r) PROVE TablesOK'
  <2>1. rq[r].who \in Mediators
    BY <1>9 DEF InsertResolution, RequestsOK, At, PanelOps
  <2>2. PICK k \in ResolutionIds, o \in Outcomes :
           resolutions' = [resolutions EXCEPT ![k] =
              [NoResolution EXCEPT !.status = "proposed", !.outcome = o,
                                   !.proposedBy = rq[r].who]]
    BY <1>9 DEF InsertResolution
  <2>3. resolutions' \in [ResolutionIds -> Resolution]
    BY <2>1, <2>2, RowProposed
  <2>4. QED
    BY <1>9, <2>3 DEF InsertResolution
<1>10. ASSUME NEW r \in Reqs, ApproveResolution(r) PROVE TablesOK'
  <2>1. rq[r].who \in Mediators /\ now + Window \in Nat
    BY <1>10 DEF ApproveResolution, RequestsOK, At, PanelOps, RewardAssumption
  <2>2. resolutions' = [resolutions EXCEPT ![rq[r].res] =
           [resolutions[rq[r].res] EXCEPT !.status = "approved", !.approvedBy = rq[r].who,
                                          !.endsAt = now + Window]]
    BY <1>10 DEF ApproveResolution
  <2>3. resolutions' \in [ResolutionIds -> Resolution]
    BY <2>1, <2>2, RowApproved
  <2>4. QED
    BY <1>10, <2>3 DEF ApproveResolution
<1>11. ASSUME NEW r \in Reqs, CancelResolution(r) PROVE TablesOK'
  <2>1. resolutions' = [resolutions EXCEPT ![rq[r].res] =
                          [resolutions[rq[r].res] EXCEPT !.status = "cancelled"]]
    BY <1>11 DEF CancelResolution
  <2>2. resolutions' \in [ResolutionIds -> Resolution]
    BY <2>1, RowCancelled
  <2>3. QED
    BY <1>11, <2>2 DEF CancelResolution
<1>12. ASSUME NEW r \in Reqs, InsertContest(r) PROVE TablesOK'
  <2>1. rq[r].res \in {0} \cup ResolutionIds
    BY DEF RequestsOK, Request
  <2>2. QED
    BY <1>12, <2>1 DEF InsertContest
<1>13. ASSUME NEW r \in Reqs, CloseContest(r) PROVE TablesOK'
  <2>1. contests' = [contests EXCEPT ![rq[r].contest] =
                       [contests[rq[r].contest] EXCEPT !.status = "closed"]]
    BY <1>13 DEF CloseContest
  <2> DEFINE Row == [status : {"none", "open", "closed"}, res : {0} \cup ResolutionIds]
             k   == rq[r].contest
             row == [contests[k] EXCEPT !.status = "closed"]
  <2>a. contests \in [ContestIds -> Row] /\ contests' = [contests EXCEPT ![k] = row]
    BY <2>1
  <2>b. k \in ContestIds => row \in Row
    BY <2>a, RowClosed
  <2> HIDE DEF Row, row, k
  <2>2. contests' \in [ContestIds -> Row]
    BY <2>a, <2>b
  <2>3. QED
    BY <1>13, <2>2 DEF CloseContest, Row
<1>14. ASSUME NEW r \in Reqs, ExecuteRail(r) PROVE TablesOK'
  BY <1>14 DEF ExecuteRail, RailCapture, RailCancel, RailStatus
<1>15. ASSUME NEW r \in Reqs, MarkOffer(r) PROVE TablesOK'
  BY <1>15 DEF MarkOffer, OfferStatus
<1>16. ASSUME NEW r \in Reqs, MarkPaid(r) PROVE TablesOK'
  BY <1>16 DEF MarkPaid
<1>17. ASSUME NEW r \in Reqs, MarkResolutionExecuted(r) PROVE TablesOK'
  <2>1. resolutions' = [resolutions EXCEPT ![rq[r].res] =
           [resolutions[rq[r].res] EXCEPT !.status = "executed", !.executed = TRUE]]
    BY <1>17 DEF MarkResolutionExecuted
  <2>2. resolutions' \in [ResolutionIds -> Resolution]
    BY <2>1, RowExecuted
  <2>3. QED
    BY <1>17, <2>2 DEF MarkResolutionExecuted
<1>18. ASSUME NEW r \in Reqs, AppendLog(r) PROVE TablesOK'
  <2>1. rq[r].who \in Mediators \cup Accounts \cup {None}
    BY DEF RequestsOK, Request
  <2>2. ({rq[r].op} \cap Logged) \X {rq[r].who} \subseteq
           Ops \X (Mediators \cup Accounts \cup {None})
    BY <2>1 DEF RewardAssumption
  <2>3. QED
    BY <1>18, <2>2 DEF AppendLog
<1>19. ASSUME NEW r \in Reqs, StateReconcile(r) PROVE TablesOK'
  BY <1>19 DEF StateReconcile, OfferStatus
<1>20. ASSUME NEW r \in Reqs,
              \/ Drop(r) \/ ReserveBegin(r) \/ ReserveCheck(r) \/ ProposeCheck(r)
              \/ ApproveCheck(r) \/ CancelCheck(r) \/ ExecuteCheck(r) \/ ExecuteContests(r)
              \/ StateBegin(r) \/ StateRail(r) \/ StateReply(r)
              \/ \E a \in Accounts : ContestBegin(r, a)
              \/ \E m \in Mediators : CloseContestBegin(r, m)
              \/ \E m \in Mediators, op \in PanelOps : ReadReservedOffer(r, op, m)
       PROVE  TablesOK'
  BY <1>20 DEF Drop, ReserveBegin, ReserveCheck, ProposeCheck, ApproveCheck, CancelCheck,
        ExecuteCheck, ExecuteContests, StateBegin, StateRail, StateReply, ContestBegin,
        CloseContestBegin, ReadReservedOffer
<1>21. QED
  BY <1>1, <1>2, <1>3, <1>4, <1>5, <1>6, <1>7, <1>8, <1>9, <1>10, <1>11, <1>12, <1>13, <1>14,
     <1>15, <1>16, <1>17, <1>18, <1>19, <1>20
     DEF Next, Handler, Reserve, Propose, Approve, Cancel, Contest, Close, Execute, State,
         PanelOps

LEMMA TypeInvariant == Spec => []TypeInv
<1>1. TypeInv /\ [Next]_vars => TypeInv'
  BY RequestsStep, TablesStep DEF TypeInv
<1>2. QED
  BY <1>1, TypeInit, PTL DEF Spec

\* Every column keeps its type, the statuses stay within the tables' CHECK
\* constraints, and every id a request carries names a row.
THEOREM TypeCorrect == Spec => []TypeOK
BY TypeInvariant, TypeInvTypeOK, PTL

----------------------------------------------------------------------------
(* Verdicts.  Every check of executeResolution is made on rows read        *)
(* earlier, and an approval writes by id over whatever the row has become. *)
(* The invariant says why that is harmless for the two-person rule and the *)
(* window: an approval still in flight can only meet a row that is as yet  *)
(* unapproved, or was approved on the same day, and such a row's window is *)
(* not over, so that no execute request can be holding it.  A second       *)
(* invariant says the same of the contests that stood when an execute      *)
(* request began, and a third, of the reservations in flight, carries the  *)
(* implementation of EscrowedReward.                                       *)

TwoAgree(k) == resolutions[k].approvedBy \notin {None, resolutions[k].proposedBy}

Executing(r) ==
    /\ rq[r].op = "execute"
    /\ rq[r].pc \in {"contests", "instruct", "markOffer", "markPaid", "markExecuted"}

RowsOK ==
    \A k \in ResolutionIds :
        /\ resolutions[k].status = "none" => resolutions[k].approvedBy = None
        /\ resolutions[k].status = "proposed" => resolutions[k].endsAt = 0
        /\ resolutions[k].status \in {"approved", "executed"} =>
              TwoAgree(k) /\ resolutions[k].endsAt # 0

ApprovalOK(r) ==
    At(r, "approve", "write") =>
        LET k == rq[r].res IN
           /\ k \in ResolutionIds
           /\ resolutions[k].status # "none"
           /\ resolutions[k].proposedBy # rq[r].who
           /\ resolutions[k].endsAt \in {0, now + Window}

ExecutionOK(r) ==
    /\ Executing(r) =>
          LET k == rq[r].res IN
             /\ k \in ResolutionIds
             /\ TwoAgree(k)
             /\ resolutions[k].endsAt \in 1 .. now
    /\ At(r, "execute", "markPaid") => resolutions[rq[r].res].outcome = "fulfilled"

VerdictInv ==
    /\ RowsOK
    /\ \A r \in Reqs : ApprovalOK(r) /\ ExecutionOK(r)
    /\ PaidNeedsVerdict

----------------------------------------------------------------------------
(* What the forms of update leave in the request's slot                    *)

LEMMA GotoEffect ==
    ASSUME RequestsOK, NEW r \in Reqs, NEW p, Goto(r, p)
    PROVE  /\ rq'[r].op = rq[r].op /\ rq'[r].pc = p /\ rq'[r].res = rq[r].res
           /\ rq'[r].seen = rq[r].seen
           /\ \A q \in Reqs \ {r} : rq'[q] = rq[q]
<1>1. rq[r] \in Request
  BY DEF RequestsOK
<1>2. rq' = [rq EXCEPT ![r] = [rq[r] EXCEPT !.pc = p]]
  BY DEF Goto
<1>3. QED
  BY <1>1, <1>2 DEF RequestsOK, Request

SetRes(r, p, k) == rq' = [rq EXCEPT ![r].pc = p, ![r].res = k]

LEMMA SetResEffect ==
    ASSUME RequestsOK, NEW r \in Reqs, NEW p, NEW k, SetRes(r, p, k)
    PROVE  /\ rq'[r].op = rq[r].op /\ rq'[r].pc = p /\ rq'[r].res = k
           /\ rq'[r].who = rq[r].who /\ rq'[r].seen = rq[r].seen
           /\ \A q \in Reqs \ {r} : rq'[q] = rq[q]
<1>1. rq[r] \in Request
  BY DEF RequestsOK
<1>2. rq' = [rq EXCEPT ![r] = [rq[r] EXCEPT !.pc = p, !.res = k]]
  BY DEF SetRes
<1>3. QED
  BY <1>1, <1>2 DEF RequestsOK, Request

LEMMA ToLogEffect ==
    ASSUME RequestsOK, NEW r \in Reqs, ToLog(r)
    PROVE  /\ rq'[r].pc = "log" /\ rq'[r].seen = {}
           /\ \A q \in Reqs \ {r} : rq'[q] = rq[q]
BY DEF ToLog, Idle, RequestsOK

LEMMA FinishEffect ==
    ASSUME RequestsOK, NEW r \in Reqs, Finish(r)
    PROVE  /\ rq'[r].pc = "idle" /\ rq'[r].seen = {}
           /\ \A q \in Reqs \ {r} : rq'[q] = rq[q]
BY DEF Finish, Idle, RequestsOK

\* A slot at none of the awaits the invariant speaks of.
Quiet(r) ==
    \/ rq[r].op \notin {"approve", "execute"}
    \/ rq[r].pc \notin {"write", "contests", "instruct", "markOffer", "markPaid",
                        "markExecuted"}

LEMMA QuietOK ==
    \A r : /\ Quiet(r) => ApprovalOK(r) /\ ExecutionOK(r)
           /\ Quiet(r)' => ApprovalOK(r)' /\ ExecutionOK(r)'
BY DEF Quiet, ApprovalOK, ExecutionOK, Executing, At

\* A step of request r that leaves the resolutions alone and pays nobody.
LEMMA KeptRows ==
    ASSUME VerdictInv, NEW r \in Reqs, UNCHANGED <<resolutions, now>>,
           \A q \in Reqs \ {r} : rq'[q] = rq[q],
           ApprovalOK(r)', ExecutionOK(r)',
           \A h \in HelpOffers : recipients'[h].status = "paid" => recipients[h].status = "paid"
    PROVE  VerdictInv'
<1>1. RowsOK'
  BY DEF VerdictInv, RowsOK, TwoAgree
<1>2. ASSUME NEW q \in Reqs PROVE ApprovalOK(q)' /\ ExecutionOK(q)'
  BY DEF VerdictInv, ApprovalOK, ExecutionOK, Executing, At, TwoAgree
<1>3. PaidNeedsVerdict'
  BY DEF VerdictInv, PaidNeedsVerdict
<1>4. QED
  BY <1>1, <1>2, <1>3 DEF VerdictInv

\* A step that leaves requests, resolutions and the day alone.
LEMMA KeptAll ==
    ASSUME VerdictInv, UNCHANGED <<resolutions, now, rq, recipients>>
    PROVE  VerdictInv'
<1>1. RowsOK'
  BY DEF VerdictInv, RowsOK, TwoAgree
<1>2. ASSUME NEW q \in Reqs PROVE ApprovalOK(q)' /\ ExecutionOK(q)'
  BY DEF VerdictInv, ApprovalOK, ExecutionOK, Executing, At, TwoAgree
<1>3. PaidNeedsVerdict'
  BY DEF VerdictInv, PaidNeedsVerdict
<1>4. QED
  BY <1>1, <1>2, <1>3 DEF VerdictInv

----------------------------------------------------------------------------
(* The four writes of a resolution, as the invariant sees them             *)

RowWrite(k, row) ==
    \/ /\ resolutions[k].status = "none"
       /\ row.status = "proposed" /\ row.approvedBy = None /\ row.endsAt = 0
    \/ /\ row.proposedBy = resolutions[k].proposedBy
       /\ row.outcome = resolutions[k].outcome
       /\ \/ /\ row.status = "approved"
             /\ resolutions[k].status # "none"
             /\ resolutions[k].endsAt \in {0, now + Window}
             /\ row.approvedBy \notin {None, row.proposedBy}
             /\ row.endsAt = now + Window
          \/ /\ row.status \in {"cancelled", "executed"}
             /\ row.approvedBy = resolutions[k].approvedBy
             /\ row.endsAt = resolutions[k].endsAt
             /\ row.status = "executed" => TwoAgree(k) /\ row.endsAt # 0

LEMMA RowWritten ==
    ASSUME TypeInv, VerdictInv, NEW r \in Reqs, NEW k \in ResolutionIds, NEW row,
           resolutions' = [resolutions EXCEPT ![k] = row],
           UNCHANGED <<now, recipients>>, ToLog(r), RowWrite(k, row)
    PROVE  VerdictInv'
<1>0. now \in Nat /\ Window \in Nat \ {0}
  BY RewardAssumption DEF TypeInv, TablesOK
<1>1. Quiet(r)' /\ \A q \in Reqs \ {r} : rq'[q] = rq[q]
  BY ToLogEffect DEF Quiet, TypeInv
<1>2. resolutions'[k] = row /\ \A j \in ResolutionIds \ {k} : resolutions'[j] = resolutions[j]
  BY DEF TypeInv, TablesOK
<1>3. RowsOK'
  BY <1>0, <1>2 DEF VerdictInv, RowsOK, TwoAgree, RowWrite
<1>4. ASSUME NEW q \in Reqs \ {r} PROVE ApprovalOK(q)'
  BY <1>1, <1>2 DEF VerdictInv, ApprovalOK, At, RowWrite
<1>5. ASSUME NEW q \in Reqs \ {r} PROVE ExecutionOK(q)'
  <2>1. CASE rq[q].res = k
    BY <1>0, <1>1, <1>2, <2>1
       DEF VerdictInv, RowsOK, ExecutionOK, Executing, At, TwoAgree, RowWrite
  <2>2. CASE rq[q].res # k
    BY <1>1, <1>2, <2>2 DEF VerdictInv, ExecutionOK, Executing, At, TwoAgree
  <2>3. QED
    BY <2>1, <2>2
<1>6. PaidNeedsVerdict'
  <2>1. SUFFICES ASSUME NEW h \in HelpOffers, recipients[h].status = "paid"
                 PROVE  \E j \in ResolutionIds :
                           resolutions'[j].outcome = "fulfilled" /\ TwoAgree(j)'
    BY DEF PaidNeedsVerdict, TwoAgree
  <2>2. PICK j \in ResolutionIds : resolutions[j].outcome = "fulfilled" /\ TwoAgree(j)
    BY <2>1 DEF VerdictInv, PaidNeedsVerdict, TwoAgree
  <2>3. resolutions'[j].outcome = "fulfilled" /\ TwoAgree(j)'
    BY <1>2, <2>2 DEF VerdictInv, RowsOK, TwoAgree, RowWrite
  <2>4. QED
    BY <2>3
<1>7. QED
  BY <1>1, <1>3, <1>4, <1>5, <1>6, QuietOK DEF VerdictInv

----------------------------------------------------------------------------

LEMMA VerdictInit == Init => VerdictInv
<1> SUFFICES ASSUME Init PROVE VerdictInv
  OBVIOUS
<1>1. RowsOK
  BY DEF Init, RowsOK, NoResolution
<1>2. ASSUME NEW r \in Reqs PROVE ApprovalOK(r) /\ ExecutionOK(r)
  BY QuietOK DEF Init, Quiet, Idle
<1>3. PaidNeedsVerdict
  BY DEF Init, PaidNeedsVerdict, NoRecipient
<1>4. QED
  BY <1>1, <1>2, <1>3 DEF VerdictInv


LEMMA VerdictStep == TypeInv /\ VerdictInv /\ [Next]_vars => VerdictInv'
<1> SUFFICES ASSUME TypeInv, VerdictInv, [Next]_vars PROVE VerdictInv'
  OBVIOUS
<1>0. RequestsOK /\ TablesOK
  BY DEF TypeInv
<1>1. CASE OfferReward \/ PublishCriteria \/ UNCHANGED vars
  BY <1>1, KeptAll DEF OfferReward, PublishCriteria, vars
<1>2. ASSUME NEW h \in HelpOffers, OnboardAsRecipient(h) PROVE VerdictInv'
  BY <1>2, KeptAll DEF OnboardAsRecipient
<1>3. ASSUME NEW c \in ChargeIds, RailExpire(c) PROVE VerdictInv'
  BY <1>3, KeptAll DEF RailExpire
<1>4. CASE NextDay
  <2>1. RowsOK'
    BY <1>4 DEF NextDay, VerdictInv, RowsOK, TwoAgree
  <2>2. ASSUME NEW q \in Reqs PROVE ApprovalOK(q)' /\ ExecutionOK(q)'
    <3>1. Quiet(q)'
      BY <1>4, IdleRequest DEF NextDay, Quiet
    <3>2. QED
      BY <3>1, QuietOK
  <2>3. PaidNeedsVerdict'
    BY <1>4 DEF NextDay, VerdictInv, PaidNeedsVerdict
  <2>4. QED
    BY <2>1, <2>2, <2>3 DEF VerdictInv
<1>5. ASSUME NEW r \in Reqs, Drop(r) PROVE VerdictInv'
  <2>1. Quiet(r)' /\ \A q \in Reqs \ {r} : rq'[q] = rq[q]
    BY <1>0, <1>5, FinishEffect DEF Drop, Quiet
  <2>2. QED
    BY <1>5, <2>1, KeptRows, QuietOK DEF Drop
<1>6. ASSUME NEW r \in Reqs, StateReconcile(r) PROVE VerdictInv'
  <2>1. Quiet(r)' /\ \A q \in Reqs \ {r} : rq'[q] = rq[q]
    BY <1>0, <1>6, FinishEffect DEF StateReconcile, Quiet
  <2>2. QED
    BY <1>6, <2>1, KeptRows, QuietOK DEF StateReconcile
<1>7. ASSUME NEW r \in Reqs, StateReply(r) PROVE VerdictInv'
  <2>1. Quiet(r)' /\ \A q \in Reqs \ {r} : rq'[q] = rq[q]
    BY <1>0, <1>7, FinishEffect DEF StateReply, Quiet
  <2>2. QED
    BY <1>7, <2>1, KeptRows, QuietOK DEF StateReply
<1>8. ASSUME NEW r \in Reqs, AppendLog(r) PROVE VerdictInv'
  <2>1. Quiet(r)' /\ \A q \in Reqs \ {r} : rq'[q] = rq[q]
    BY <1>0, <1>8, FinishEffect DEF AppendLog, Quiet
  <2>2. QED
    BY <1>8, <2>1, KeptRows, QuietOK DEF AppendLog
<1>9. ASSUME NEW r \in Reqs, MarkReserved(r) PROVE VerdictInv'
  <2>1. Quiet(r)' /\ \A q \in Reqs \ {r} : rq'[q] = rq[q]
    BY <1>0, <1>9, FinishEffect DEF MarkReserved, Quiet
  <2>2. \A h \in HelpOffers : recipients'[h].status = "paid" => recipients[h].status = "paid"
    BY <1>9 DEF MarkReserved
  <2>3. QED
    BY <1>9, <2>1, <2>2, KeptRows, QuietOK DEF MarkReserved
<1>10. ASSUME NEW r \in Reqs, InsertContest(r) PROVE VerdictInv'
  <2>1. Quiet(r)' /\ \A q \in Reqs \ {r} : rq'[q] = rq[q]
    BY <1>0, <1>10, ToLogEffect DEF InsertContest, Quiet
  <2>2. QED
    BY <1>10, <2>1, KeptRows, QuietOK DEF InsertContest
<1>11. ASSUME NEW r \in Reqs, CloseContest(r) PROVE VerdictInv'
  <2>1. Quiet(r)' /\ \A q \in Reqs \ {r} : rq'[q] = rq[q]
    BY <1>0, <1>11, ToLogEffect DEF CloseContest, Quiet
  <2>2. QED
    BY <1>11, <2>1, KeptRows, QuietOK DEF CloseContest
<1>12. ASSUME NEW r \in Reqs, ProposeCheck(r) PROVE VerdictInv'
  <2>1. Quiet(r)' /\ \A q \in Reqs \ {r} : rq'[q] = rq[q]
    BY <1>0, <1>12, GotoEffect DEF ProposeCheck, Quiet, At
  <2>2. QED
    BY <1>12, <2>1, KeptRows, QuietOK DEF ProposeCheck
<1>13. ASSUME NEW r \in Reqs, ReserveBegin(r) PROVE VerdictInv'
  <2>1. Quiet(r)' /\ \A q \in Reqs \ {r} : rq'[q] = rq[q]
    BY <1>0, <1>13 DEF ReserveBegin, Begin, Idle, RequestsOK, Quiet
  <2>2. QED
    BY <1>13, <2>1, KeptRows, QuietOK DEF ReserveBegin
<1>14. ASSUME NEW r \in Reqs, StateBegin(r) PROVE VerdictInv'
  <2>1. Quiet(r)' /\ \A q \in Reqs \ {r} : rq'[q] = rq[q]
    BY <1>0, <1>14 DEF StateBegin, Begin, Idle, RequestsOK, Quiet
  <2>2. QED
    BY <1>14, <2>1, KeptRows, QuietOK DEF StateBegin
<1>15. ASSUME NEW r \in Reqs, NEW m \in Mediators, NEW op \in PanelOps,
              ReadReservedOffer(r, op, m)
       PROVE  VerdictInv'
  <2>1. Quiet(r)' /\ \A q \in Reqs \ {r} : rq'[q] = rq[q]
    BY <1>0, <1>15 DEF ReadReservedOffer, Begin, Idle, RequestsOK, Quiet
  <2>2. QED
    BY <1>15, <2>1, KeptRows, QuietOK DEF ReadReservedOffer
<1>16. ASSUME NEW r \in Reqs, NEW a \in Accounts, ContestBegin(r, a) PROVE VerdictInv'
  <2>1. Quiet(r)' /\ \A q \in Reqs \ {r} : rq'[q] = rq[q]
    BY <1>0, <1>16 DEF ContestBegin, Begin, Idle, RequestsOK, Quiet
  <2>2. QED
    BY <1>16, <2>1, KeptRows, QuietOK DEF ContestBegin
<1>17. ASSUME NEW r \in Reqs, NEW m \in Mediators, CloseContestBegin(r, m) PROVE VerdictInv'
  <2>1. Quiet(r)' /\ \A q \in Reqs \ {r} : rq'[q] = rq[q]
    BY <1>0, <1>17 DEF CloseContestBegin, Begin, Idle, RequestsOK, Quiet
  <2>2. QED
    BY <1>17, <2>1, KeptRows, QuietOK DEF CloseContestBegin
<1>18. ASSUME NEW r \in Reqs, ReserveCheck(r) PROVE VerdictInv'
  <2>1. rq[r] \in Request /\ rq[r].op = "reserve"
    BY <1>0, <1>18 DEF ReserveCheck, At, RequestsOK
  <2>2. rq'[r].op = rq[r].op /\ \A q \in Reqs \ {r} : rq'[q] = rq[q]
    BY <1>0, <1>18, <2>1 DEF ReserveCheck, RequestsOK, Request
  <2>3. Quiet(r)'
    BY <2>1, <2>2 DEF Quiet
  <2>4. QED
    BY <1>18, <2>2, <2>3, KeptRows, QuietOK DEF ReserveCheck
<1>19. ASSUME NEW r \in Reqs, RailReserve(r) PROVE VerdictInv'
  <2>1. rq[r] \in Request /\ rq[r].op = "reserve"
    BY <1>0, <1>19 DEF RailReserve, At, RequestsOK
  <2>2. rq'[r].op = rq[r].op /\ \A q \in Reqs \ {r} : rq'[q] = rq[q]
    BY <1>0, <1>19, <2>1 DEF RailReserve, RequestsOK, Request
  <2>3. Quiet(r)'
    BY <2>1, <2>2 DEF Quiet
  <2>4. QED
    BY <1>19, <2>2, <2>3, KeptRows, QuietOK DEF RailReserve
<1>20. ASSUME NEW r \in Reqs, StateRail(r) PROVE VerdictInv'
  <2>1. rq[r] \in Request /\ rq[r].op = "state"
    BY <1>0, <1>20 DEF StateRail, At, RequestsOK
  <2>2. rq'[r].op = rq[r].op /\ \A q \in Reqs \ {r} : rq'[q] = rq[q]
    BY <1>0, <1>20, <2>1 DEF StateRail, RequestsOK, Request
  <2>3. Quiet(r)'
    BY <2>1, <2>2 DEF Quiet
  <2>4. QED
    BY <1>20, <2>2, <2>3, KeptRows, QuietOK DEF StateRail
<1>21. ASSUME NEW r \in Reqs, CancelCheck(r) PROVE VerdictInv'
  <2>1. PICK k \in LiveIds : SetRes(r, "write", k)
    BY <1>21 DEF CancelCheck, SetRes
  <2>2. rq'[r].op = "cancel" /\ \A q \in Reqs \ {r} : rq'[q] = rq[q]
    BY <1>0, <1>21, <2>1, SetResEffect DEF CancelCheck, At
  <2>3. QED
    BY <1>21, <2>2, KeptRows, QuietOK DEF CancelCheck, Quiet
<1>22. ASSUME NEW r \in Reqs, ApproveCheck(r) PROVE VerdictInv'
  <2>1. PICK k \in LiveIds :
           /\ resolutions[k].status = "proposed"
           /\ resolutions[k].proposedBy # rq[r].who
           /\ SetRes(r, "write", k)
    BY <1>22 DEF ApproveCheck, SetRes
  <2>2. /\ rq'[r].op = "approve" /\ rq'[r].pc = "write" /\ rq'[r].res = k
        /\ rq'[r].who = rq[r].who /\ \A q \in Reqs \ {r} : rq'[q] = rq[q]
    <3>1. rq[r].op = "approve" /\ SetRes(r, "write", k)
      BY <1>22, <2>1 DEF ApproveCheck, At
    <3>2. QED
      BY <1>0, <3>1, SetResEffect
  <2>3. k \in ResolutionIds /\ resolutions[k].endsAt = 0
    BY <2>1 DEF LiveIds, VerdictInv, RowsOK
  <2>4. ApprovalOK(r)'
    BY <1>22, <2>1, <2>2, <2>3 DEF ApprovalOK, ApproveCheck
  <2>5. ExecutionOK(r)'
    BY <2>2 DEF ExecutionOK, Executing, At
  <2>6. QED
    BY <1>22, <2>2, <2>4, <2>5, KeptRows DEF ApproveCheck
<1>23. ASSUME NEW r \in Reqs, ExecuteCheck(r) PROVE VerdictInv'
  <2>1. PICK k \in LiveIds :
           /\ resolutions[k].status = "approved"
           /\ resolutions[k].endsAt <= now
           /\ SetRes(r, "contests", k)
    BY <1>23 DEF ExecuteCheck, SetRes
  <2>2. /\ rq'[r].op = "execute" /\ rq'[r].pc = "contests" /\ rq'[r].res = k
        /\ \A q \in Reqs \ {r} : rq'[q] = rq[q]
    BY <1>0, <1>23, <2>1, SetResEffect DEF ExecuteCheck, At
  <2>3. k \in ResolutionIds /\ TwoAgree(k) /\ resolutions[k].endsAt # 0
    BY <2>1 DEF LiveIds, VerdictInv, RowsOK
  <2>4. resolutions[k].endsAt \in 1 .. now
    <3>1. resolutions[k].endsAt \in Nat /\ now \in Nat
      BY <1>0, <2>3 DEF TablesOK, Resolution
    <3>2. QED
      BY <2>1, <2>3, <3>1
  <2>5. ExecutionOK(r)'
    BY <1>23, <2>2, <2>3, <2>4 DEF ExecutionOK, Executing, ExecuteCheck, TwoAgree, At
  <2>6. ApprovalOK(r)'
    BY <2>2 DEF ApprovalOK, At
  <2>7. QED
    BY <1>23, <2>2, <2>5, <2>6, KeptRows DEF ExecuteCheck
<1>24. ASSUME NEW r \in Reqs, ExecuteContests(r) PROVE VerdictInv'
  <2>1. /\ rq'[r].op = "execute" /\ rq'[r].pc = "instruct" /\ rq'[r].res = rq[r].res
        /\ \A q \in Reqs \ {r} : rq'[q] = rq[q]
    BY <1>0, <1>24, GotoEffect DEF ExecuteContests, At
  <2>2. ExecutionOK(r)' /\ ApprovalOK(r)'
    BY <1>24, <2>1 DEF ExecutionOK, ApprovalOK, Executing, ExecuteContests, TwoAgree, At,
       VerdictInv
  <2>3. QED
    BY <1>24, <2>1, <2>2, KeptRows DEF ExecuteContests
<1>25. ASSUME NEW r \in Reqs, ExecuteRail(r) PROVE VerdictInv'
  <2>0. rq[r] \in Request /\ rq[r].op = "execute" /\ rq[r].pc = "instruct"
    BY <1>0, <1>25 DEF ExecuteRail, At, RequestsOK
  <2>1. /\ rq'[r].op = "execute" /\ rq'[r].pc = "markOffer" /\ rq'[r].res = rq[r].res
        /\ \A q \in Reqs \ {r} : rq'[q] = rq[q]
    BY <1>0, <1>25, <2>0 DEF ExecuteRail, RequestsOK, Request
  <2>2. ExecutionOK(r)' /\ ApprovalOK(r)'
    BY <1>25, <2>0, <2>1 DEF ExecutionOK, ApprovalOK, Executing, ExecuteRail, TwoAgree, At,
       VerdictInv
  <2>3. QED
    BY <1>25, <2>1, <2>2, KeptRows DEF ExecuteRail
<1>26. ASSUME NEW r \in Reqs, MarkOffer(r) PROVE VerdictInv'
  <2>1. /\ rq'[r].op = "execute" /\ rq'[r].res = rq[r].res
        /\ \/ rq'[r].pc = "markPaid" /\ Verdict(r) = "fulfilled"
           \/ rq'[r].pc = "markExecuted"
        /\ \A q \in Reqs \ {r} : rq'[q] = rq[q]
    BY <1>0, <1>26, GotoEffect DEF MarkOffer, At
  <2>2. ExecutionOK(r)' /\ ApprovalOK(r)'
    BY <1>26, <2>1 DEF ExecutionOK, ApprovalOK, Executing, MarkOffer, TwoAgree, At, Verdict,
       VerdictInv
  <2>3. QED
    BY <1>26, <2>1, <2>2, KeptRows DEF MarkOffer
<1>27. ASSUME NEW r \in Reqs, MarkPaid(r) PROVE VerdictInv'
  <2>1. /\ rq'[r].op = "execute" /\ rq'[r].pc = "markExecuted" /\ rq'[r].res = rq[r].res
        /\ \A q \in Reqs \ {r} : rq'[q] = rq[q]
    BY <1>0, <1>27, GotoEffect DEF MarkPaid, At
  <2>2. ASSUME NEW q \in Reqs PROVE ApprovalOK(q)' /\ ExecutionOK(q)'
    BY <1>27, <2>1 DEF ExecutionOK, ApprovalOK, Executing, MarkPaid, TwoAgree, At, VerdictInv
  <2>3. RowsOK'
    BY <1>27 DEF MarkPaid, VerdictInv, RowsOK, TwoAgree
  <2>4. PaidNeedsVerdict'
    <3>1. LET k == rq[r].res IN k \in ResolutionIds /\ TwoAgree(k)
                                /\ resolutions[k].outcome = "fulfilled"
      BY <1>27 DEF MarkPaid, VerdictInv, ExecutionOK, Executing, At
    <3>2. QED
      BY <1>27, <3>1 DEF PaidNeedsVerdict, TwoAgree, MarkPaid
  <2>5. QED
    BY <2>2, <2>3, <2>4 DEF VerdictInv
<1>28. ASSUME NEW r \in Reqs, InsertResolution(r) PROVE VerdictInv'
  <2>1. PICK k \in ResolutionIds, o \in Outcomes :
           /\ resolutions[k].status = "none"
           /\ resolutions' = [resolutions EXCEPT ![k] =
                 [NoResolution EXCEPT !.status = "proposed", !.outcome = o,
                                      !.proposedBy = rq[r].who]]
    BY <1>28 DEF InsertResolution
  <2> DEFINE row == [NoResolution EXCEPT !.status = "proposed", !.outcome = o,
                                         !.proposedBy = rq[r].who]
  <2>2. row.status = "proposed" /\ row.approvedBy = None /\ row.endsAt = 0
    BY DEF NoResolution
  <2> HIDE DEF row
  <2>3. RowWrite(k, row)
    BY <2>1, <2>2 DEF RowWrite
  <2>4. QED
    BY <1>28, <2>1, <2>3, RowWritten DEF InsertResolution, row
<1>29. ASSUME NEW r \in Reqs, ApproveResolution(r) PROVE VerdictInv'
  <2> DEFINE k   == rq[r].res
             row == [resolutions[k] EXCEPT !.status = "approved", !.approvedBy = rq[r].who,
                                           !.endsAt = now + Window]
  <2>1. /\ k \in ResolutionIds
        /\ resolutions[k].status # "none"
        /\ resolutions[k].proposedBy # rq[r].who
        /\ resolutions[k].endsAt \in {0, now + Window}
    BY <1>29 DEF ApproveResolution, VerdictInv, ApprovalOK
  <2>2. rq[r].who # None
    BY <1>0, <1>29, RewardAssumption DEF ApproveResolution, At, RequestsOK, PanelOps
  <2>3. resolutions[k] \in Resolution
    BY <1>0, <2>1 DEF TablesOK
  <2>4. /\ row.status = "approved" /\ row.approvedBy = rq[r].who /\ row.endsAt = now + Window
        /\ row.proposedBy = resolutions[k].proposedBy /\ row.outcome = resolutions[k].outcome
    BY <2>3 DEF Resolution
  <2>5. resolutions' = [resolutions EXCEPT ![k] = row]
    BY <1>29 DEF ApproveResolution
  <2>6. UNCHANGED <<now, recipients>> /\ ToLog(r)
    BY <1>29 DEF ApproveResolution
  <2> HIDE DEF row, k
  <2>7. RowWrite(k, row)
    BY <2>1, <2>2, <2>4 DEF RowWrite, k
  <2>8. QED
    BY <2>1, <2>5, <2>6, <2>7, RowWritten
<1>30. ASSUME NEW r \in Reqs, CancelResolution(r) PROVE VerdictInv'
  <2> DEFINE k   == rq[r].res
             row == [resolutions[k] EXCEPT !.status = "cancelled"]
  <2>1. resolutions' = [resolutions EXCEPT ![k] = row]
    BY <1>30 DEF CancelResolution
  <2>2. UNCHANGED <<now, recipients>> /\ ToLog(r)
    BY <1>30 DEF CancelResolution
  <2>3. CASE k \in ResolutionIds
    <3>1. resolutions[k] \in Resolution
      BY <1>0, <2>3 DEF TablesOK
    <3>2. /\ row.status = "cancelled" /\ row.approvedBy = resolutions[k].approvedBy
          /\ row.endsAt = resolutions[k].endsAt /\ row.outcome = resolutions[k].outcome
          /\ row.proposedBy = resolutions[k].proposedBy
      BY <3>1 DEF Resolution
    <3> HIDE DEF row, k
    <3>3. RowWrite(k, row)
      BY <3>2 DEF RowWrite
    <3>4. QED
      BY <2>1, <2>2, <2>3, <3>3, RowWritten
  <2>4. CASE k \notin ResolutionIds
    <3> HIDE DEF row, k
    <3>1. resolutions' = resolutions
      BY <1>0, <2>1, <2>4 DEF TablesOK
    <3>2. Quiet(r)' /\ \A q \in Reqs \ {r} : rq'[q] = rq[q]
      BY <1>0, <2>2, ToLogEffect DEF Quiet
    <3>3. QED
      BY <2>2, <3>1, <3>2, KeptRows, QuietOK
  <2>5. QED
    BY <2>3, <2>4
<1>31. ASSUME NEW r \in Reqs, MarkResolutionExecuted(r) PROVE VerdictInv'
  <2> DEFINE k   == rq[r].res
             row == [resolutions[k] EXCEPT !.status = "executed", !.executed = TRUE]
  <2>1. k \in ResolutionIds /\ TwoAgree(k) /\ resolutions[k].endsAt # 0
    BY <1>31 DEF MarkResolutionExecuted, VerdictInv, ExecutionOK, Executing, At
  <2>2. resolutions[k] \in Resolution
    BY <1>0, <2>1 DEF TablesOK
  <2>3. /\ row.status = "executed" /\ row.approvedBy = resolutions[k].approvedBy
        /\ row.endsAt = resolutions[k].endsAt /\ row.outcome = resolutions[k].outcome
        /\ row.proposedBy = resolutions[k].proposedBy
    BY <2>2 DEF Resolution
  <2>4. resolutions' = [resolutions EXCEPT ![k] = row]
    BY <1>31 DEF MarkResolutionExecuted
  <2>5. UNCHANGED <<now, recipients>> /\ ToLog(r)
    BY <1>31 DEF MarkResolutionExecuted
  <2> HIDE DEF row, k
  <2>6. RowWrite(k, row)
    BY <2>1, <2>3 DEF RowWrite
  <2>7. QED
    BY <2>1, <2>4, <2>5, <2>6, RowWritten
<1>32. QED
  BY <1>1, <1>2, <1>3, <1>4, <1>5, <1>6, <1>7, <1>8, <1>9, <1>10, <1>11, <1>12, <1>13, <1>14,
     <1>15, <1>16, <1>17, <1>18, <1>19, <1>20, <1>21, <1>22, <1>23, <1>24, <1>25, <1>26, <1>27,
     <1>28, <1>29, <1>30, <1>31
     DEF Next, Handler, Reserve, Propose, Approve, Cancel, Contest, Close, Execute, State,
         PanelOps

LEMMA VerdictInvariant == Spec => [](TypeInv /\ VerdictInv)
<1>1. Init => TypeInv /\ VerdictInv
  BY TypeInit, VerdictInit
<1>2. TypeInv /\ VerdictInv /\ [Next]_vars => TypeInv' /\ VerdictInv'
  BY RequestsStep, TablesStep, VerdictStep DEF TypeInv
<1>3. QED
  BY <1>1, <1>2, PTL DEF Spec

----------------------------------------------------------------------------

\* Nobody is ever marked paid without a fulfilled verdict that one mediator
\* proposed and another approved: not by a reconciling read, not by a refund,
\* not by a reservation that lands late.
THEOREM PaymentsNeedVerdict == Spec => []PaidNeedsVerdict
BY VerdictInvariant, PTL DEF VerdictInv

\* executeResolution instructs the rail for a resolution only if two different
\* mediators are recorded on it, however proposals, approvals and cancellations
\* interleave with it.
THEOREM RailNeedsTwoPersons == Spec => TwoPersonRule
<1> DEFINE A == \A r \in Reqs : Instructs(r) =>
                   LET k == rq[r].res IN
                      /\ resolutions[k].approvedBy # None
                      /\ resolutions[k].approvedBy # resolutions[k].proposedBy
<1>1. VerdictInv => A
  BY DEF VerdictInv, ExecutionOK, Executing, Instructs, At, TwoAgree
<1>2. QED
  BY <1>1, VerdictInvariant, PTL DEF TwoPersonRule

\* executeResolution never instructs the rail before the contest window of the
\* resolution is over, although an approval in flight may write a new window
\* over an old one.
THEOREM RailWaitsForTheWindow == Spec => WindowElapsed
<1> DEFINE A == \A r \in Reqs : Instructs(r) =>
                   LET k == rq[r].res IN resolutions[k].endsAt \in 1 .. now
<1>1. VerdictInv => A
  BY DEF VerdictInv, ExecutionOK, Executing, Instructs, At
<1>2. QED
  BY <1>1, VerdictInvariant, PTL DEF WindowElapsed

----------------------------------------------------------------------------
(* Contests                                                                *)

\* The contests a request remembers exist, and those it found standing when it
\* began are no longer open once it has passed the check.
ContestOK(r) ==
    /\ \A c \in rq[r].seen : c \in ContestIds /\ contests[c].status # "none"
    /\ At(r, "execute", "instruct") => OpenContests(rq[r].res) \cap rq[r].seen = {}

ContestInv == \A r \in Reqs : ContestOK(r)

Others(r) == \A q \in Reqs \ {r} : rq'[q] = rq[q]

\* A step of request r that leaves the contests alone.
LEMMA KeptContests ==
    ASSUME ContestInv, NEW r \in Reqs, UNCHANGED contests, Others(r), ContestOK(r)'
    PROVE  ContestInv'
BY DEF ContestInv, ContestOK, At, OpenContests, Others

\* ... because it forgets, or keeps, what it has seen.
LEMMA KeptSeen ==
    ASSUME ContestInv, NEW r \in Reqs, UNCHANGED contests, Others(r),
           \/ rq'[r].seen = {}
           \/ rq'[r].seen = rq[r].seen /\ (rq'[r].op # "execute" \/ rq'[r].pc # "instruct")
    PROVE  ContestInv'
<1>1. ContestOK(r)'
  BY DEF ContestInv, ContestOK, At
<1>2. QED
  BY <1>1, KeptContests

LEMMA ContestInit == Init => ContestInv
BY DEF Init, ContestInv, ContestOK, Idle, At

LEMMA ContestStep == TypeInv /\ ContestInv /\ [Next]_vars => ContestInv'
<1> SUFFICES ASSUME TypeInv, ContestInv, [Next]_vars PROVE ContestInv'
  OBVIOUS
<1>0. RequestsOK /\ TablesOK
  BY DEF TypeInv
<1>1. CASE OfferReward \/ PublishCriteria \/ NextDay \/ UNCHANGED vars
  BY <1>1 DEF OfferReward, PublishCriteria, NextDay, vars, ContestInv, ContestOK, At,
              OpenContests
<1>2. ASSUME NEW h \in HelpOffers, OnboardAsRecipient(h) PROVE ContestInv'
  BY <1>2 DEF OnboardAsRecipient, ContestInv, ContestOK, At, OpenContests
<1>3. ASSUME NEW c \in ChargeIds, RailExpire(c) PROVE ContestInv'
  BY <1>3 DEF RailExpire, ContestInv, ContestOK, At, OpenContests
<1>4. ASSUME NEW r \in Reqs, UNCHANGED contests, Finish(r) PROVE ContestInv'
  BY <1>0, <1>4, FinishEffect, KeptSeen DEF Others
<1>5. ASSUME NEW r \in Reqs, UNCHANGED contests, ToLog(r) PROVE ContestInv'
  BY <1>0, <1>5, ToLogEffect, KeptSeen DEF Others
<1>6. ASSUME NEW r \in Reqs, NEW q \in Request, UNCHANGED contests,
              rq' = [rq EXCEPT ![r] = q], q.seen = {}
       PROVE  ContestInv'
  BY <1>0, <1>6, KeptSeen DEF Others, RequestsOK
<1>7. ASSUME NEW r \in Reqs, NEW p, UNCHANGED contests, Goto(r, p), p # "instruct"
       PROVE  ContestInv'
  BY <1>0, <1>7, GotoEffect, KeptSeen DEF Others
<1>8. ASSUME NEW r \in Reqs, NEW p, NEW k, UNCHANGED contests, SetRes(r, p, k), p # "instruct"
       PROVE  ContestInv'
  BY <1>0, <1>8, SetResEffect, KeptSeen DEF Others
<1>9. ASSUME NEW r \in Reqs,
              Drop(r) \/ MarkReserved(r) \/ AppendLog(r) \/ StateReconcile(r) \/ StateReply(r)
       PROVE  ContestInv'
  BY <1>4, <1>9 DEF Drop, MarkReserved, AppendLog, StateReconcile, StateReply
<1>10. ASSUME NEW r \in Reqs,
              \/ InsertResolution(r) \/ ApproveResolution(r) \/ CancelResolution(r)
              \/ MarkResolutionExecuted(r)
       PROVE  ContestInv'
  BY <1>5, <1>10 DEF InsertResolution, ApproveResolution, CancelResolution,
                     MarkResolutionExecuted
<1>11. ASSUME NEW r \in Reqs, ProposeCheck(r) \/ MarkOffer(r) \/ MarkPaid(r) PROVE ContestInv'
  BY <1>7, <1>11 DEF ProposeCheck, MarkOffer, MarkPaid
<1>12. ASSUME NEW r \in Reqs, ApproveCheck(r) PROVE ContestInv'
  <2>1. \E k \in ResolutionIds : SetRes(r, "write", k)
    BY <1>12 DEF ApproveCheck, LiveIds, SetRes
  <2>2. QED
    BY <1>8, <1>12, <2>1 DEF ApproveCheck
<1>13. ASSUME NEW r \in Reqs, CancelCheck(r) PROVE ContestInv'
  <2>1. \E k \in ResolutionIds : SetRes(r, "write", k)
    BY <1>13 DEF CancelCheck, LiveIds, SetRes
  <2>2. QED
    BY <1>8, <1>13, <2>1 DEF CancelCheck
<1>14. ASSUME NEW r \in Reqs, ExecuteCheck(r) PROVE ContestInv'
  <2>1. \E k \in ResolutionIds : SetRes(r, "contests", k)
    BY <1>14 DEF ExecuteCheck, LiveIds, SetRes
  <2>2. QED
    BY <1>8, <1>14, <2>1 DEF ExecuteCheck
<1>15. ASSUME NEW r \in Reqs, ReserveBegin(r) \/ StateBegin(r) PROVE ContestInv'
  <2>1. rq'[r].seen = {} /\ Others(r)
    BY <1>0, <1>15 DEF ReserveBegin, StateBegin, Begin, Idle, RequestsOK, Others
  <2>2. QED
    BY <1>15, <2>1, KeptSeen DEF ReserveBegin, StateBegin
<1>16. ASSUME NEW r \in Reqs, NEW a \in Accounts, ContestBegin(r, a) PROVE ContestInv'
  <2>1. rq'[r].seen = {} /\ Others(r)
    BY <1>0, <1>16 DEF ContestBegin, Begin, Idle, RequestsOK, Others
  <2>2. QED
    BY <1>16, <2>1, KeptSeen DEF ContestBegin
<1>17. ASSUME NEW r \in Reqs, NEW m \in Mediators, CloseContestBegin(r, m) PROVE ContestInv'
  <2>1. rq'[r].seen = {} /\ Others(r)
    BY <1>0, <1>17 DEF CloseContestBegin, Begin, Idle, RequestsOK, Others
  <2>2. QED
    BY <1>17, <2>1, KeptSeen DEF CloseContestBegin
<1>18. ASSUME NEW r \in Reqs, NEW m \in Mediators, NEW op \in PanelOps,
              ReadReservedOffer(r, op, m)
       PROVE  ContestInv'
  <2>1. /\ rq'[r].pc = "live" /\ Others(r)
        /\ rq'[r].seen = {} \/ rq'[r].seen = StandingContests
    BY <1>0, <1>18 DEF ReadReservedOffer, Begin, Idle, RequestsOK, Others
  <2>2. ContestOK(r)'
    BY <1>18, <2>1 DEF ReadReservedOffer, ContestOK, StandingContests, At
  <2>3. QED
    BY <1>18, <2>1, <2>2, KeptContests DEF ReadReservedOffer
<1>19. ASSUME NEW r \in Reqs, ReserveCheck(r) \/ RailReserve(r) \/ StateRail(r)
       PROVE  ContestInv'
  <2>1. rq[r] \in Request /\ rq[r].op # "execute"
    BY <1>0, <1>19 DEF ReserveCheck, RailReserve, StateRail, At, RequestsOK
  <2>2. rq'[r].op = rq[r].op /\ rq'[r].seen = rq[r].seen /\ Others(r)
    <3>1. CASE ReserveCheck(r)
      BY <1>0, <2>1, <3>1 DEF ReserveCheck, RequestsOK, Request, Others
    <3>2. CASE RailReserve(r)
      BY <1>0, <2>1, <3>2 DEF RailReserve, RequestsOK, Request, Others
    <3>3. CASE StateRail(r)
      BY <1>0, <2>1, <3>3 DEF StateRail, RequestsOK, Request, Others
    <3>4. QED
      BY <1>19, <3>1, <3>2, <3>3
  <2>3. UNCHANGED contests
    BY <1>19 DEF ReserveCheck, RailReserve, StateRail
  <2>4. QED
    BY <2>1, <2>2, <2>3, KeptSeen
<1>20. ASSUME NEW r \in Reqs, ExecuteRail(r) PROVE ContestInv'
  <2>1. rq[r] \in Request
    BY <1>0 DEF RequestsOK
  <2>2. rq'[r].seen = {} /\ Others(r)
    BY <1>0, <1>20, <2>1 DEF ExecuteRail, RequestsOK, Request, Others
  <2>3. QED
    BY <1>20, <2>2, KeptSeen DEF ExecuteRail
<1>21. ASSUME NEW r \in Reqs, ExecuteContests(r) PROVE ContestInv'
  <2>1. /\ rq'[r].pc = "instruct" /\ rq'[r].res = rq[r].res /\ rq'[r].seen = rq[r].seen
        /\ Others(r)
    BY <1>0, <1>21, GotoEffect DEF ExecuteContests, Others
  <2>2. ContestOK(r)'
    BY <1>21, <2>1 DEF ExecuteContests, ContestOK, ContestInv, OpenContests
  <2>3. QED
    BY <1>21, <2>1, <2>2, KeptContests DEF ExecuteContests
<1>22. ASSUME NEW r \in Reqs, InsertContest(r) PROVE ContestInv'
  <2>1. PICK c \in ContestIds :
           /\ contests[c].status = "none"
           /\ contests' = [contests EXCEPT ![c] = [status |-> "open", res |-> rq[r].res]]
    BY <1>22 DEF InsertContest
  <2>2. \A d \in ContestIds : contests[d].status # "none" => contests'[d] = contests[d]
    BY <1>0, <2>1 DEF TablesOK
  <2>3. rq'[r].pc = "log" /\ rq'[r].seen = {} /\ Others(r)
    BY <1>0, <1>22, ToLogEffect DEF InsertContest, Others
  <2>4. QED
    BY <2>2, <2>3 DEF ContestInv, ContestOK, OpenContests, At, Others
<1>23. ASSUME NEW r \in Reqs, CloseContest(r) PROVE ContestInv'
  <2> DEFINE k == rq[r].contest
  <2>1. contests' = [contests EXCEPT ![k] = [contests[k] EXCEPT !.status = "closed"]]
    BY <1>23 DEF CloseContest
  <2> HIDE DEF k
  <2>2. \A d \in ContestIds : contests'[d] = contests[d] \/ contests'[d].status = "closed"
    BY <1>0, <2>1 DEF TablesOK
  <2>3. rq'[r].pc = "log" /\ rq'[r].seen = {} /\ Others(r)
    BY <1>0, <1>23, ToLogEffect DEF CloseContest, Others
  <2>4. QED
    BY <2>2, <2>3 DEF ContestInv, ContestOK, OpenContests, At, Others
<1>24. QED
  BY <1>1, <1>2, <1>3, <1>9, <1>10, <1>11, <1>12, <1>13, <1>14, <1>15, <1>16, <1>17, <1>18,
     <1>19, <1>20, <1>21, <1>22, <1>23
     DEF Next, Handler, Reserve, Propose, Approve, Cancel, Contest, Close, Execute, State,
         PanelOps

\* A contest filed before an execute request began, and not closed since, keeps
\* that request from the rail, whatever else is filed, closed or approved
\* between its reads.
THEOREM ContestStopsTheRail == Spec => StandingContestBlocks
<1> DEFINE A == \A r \in Reqs : Instructs(r) => OpenContests(rq[r].res) \cap rq[r].seen = {}
<1>1. Init => TypeInv /\ ContestInv
  BY TypeInit, ContestInit
<1>2. TypeInv /\ ContestInv /\ [Next]_vars => TypeInv' /\ ContestInv'
  BY RequestsStep, TablesStep, ContestStep DEF TypeInv
<1>3. ContestInv => A
  BY DEF ContestInv, ContestOK, Instructs
<1>4. QED
  BY <1>1, <1>2, <1>3, PTL DEF Spec, StandingContestBlocks

----------------------------------------------------------------------------
(* Escrow: the refinement                                                  *)

\* markReserved writes over whatever the offer has become, and the rail answers before
\* the rows are written.  What makes both harmless is that windows and retentions are
\* days: while a reservation is in flight no window is over, so that nothing is settled
\* under it; and what a request is about to write of the money has happened.

\* Rail charges that were ever opened, and those opened today and still retained.
Opened(c) == c \in ChargeIds /\ rail[c].status # "none"
Fresh(c)  == c \in ChargeIds /\ rail[c].status = "retained" /\ rail[c].since = now

Settled  == \E c \in ChargeIds : rail[c].status \in {"finished", "expired", "refunded"}
Refunded == \E c \in ChargeIds : rail[c].status = "refunded"

Reserving == \E s \in Reqs : rq[s].op = "reserve"

\* Until a guarantee is reserved there is no charge and nothing was decided.
GuaranteeOK ==
    /\ offer.charge # 0 => Opened(offer.charge)
    /\ offer.status \in {"none", "open"} =>
          offer.charge = 0 /\ \A k \in ResolutionIds : resolutions[k].endsAt = 0

\* While a reservation is in flight the offer was open today: no window is over, and
\* what is reserved already was reserved today.
ReserveOK(r) ==
    rq[r].op = "reserve" =>
        /\ offer.status \in {"open", "reserved"}
        /\ offer.charge # 0 => Fresh(offer.charge)
        /\ \A k \in ResolutionIds : resolutions[k].endsAt \notin 1 .. now
        /\ rq[r].pc = "mark" => Fresh(rq[r].charge)

StateOK(r) ==
    rq[r].op = "state" =>
        /\ rq[r].pc = "rail" => Opened(rq[r].charge)
        /\ Reserving => rq[r].pc # "write" /\ (rq[r].pc = "rail" => Fresh(rq[r].charge))
        /\ rq[r].pc = "write" => /\ Settled
                                 /\ rq[r].live = "refunded" => Refunded

ExecuteOK(r) ==
    rq[r].op = "execute" =>
        /\ rq[r].pc \in {"live", "contests", "instruct"} => Opened(rq[r].charge)
        /\ rq[r].pc = "markOffer" =>
              /\ Verdict(r) = "fulfilled" => Settled
              /\ Verdict(r) = "not_fulfilled" => Refunded

EscrowOK(r) ==
    /\ rq[r].op \in PanelOps \cup {"state"} => offer.status \notin {"none", "open"}
    /\ ReserveOK(r) /\ StateOK(r) /\ ExecuteOK(r)

EscrowInv == GuaranteeOK /\ \A r \in Reqs : EscrowOK(r)

----------------------------------------------------------------------------
LEMMA LogEffect ==
    ASSUME RequestsOK, NEW r \in Reqs, ToLog(r)
    PROVE  rq'[r].op = rq[r].op /\ rq'[r].pc = "log" /\ Others(r)
BY DEF ToLog, Idle, RequestsOK, Others

LEMMA EndEffect ==
    ASSUME RequestsOK, NEW r \in Reqs, Finish(r)
    PROVE  rq'[r].op = "idle" /\ rq'[r].pc = "idle" /\ Others(r)
BY DEF Finish, Idle, RequestsOK, Others

LEMMA MoveEffect ==
    ASSUME RequestsOK, NEW r \in Reqs, NEW p, Goto(r, p)
    PROVE  /\ rq'[r].op = rq[r].op /\ rq'[r].pc = p /\ rq'[r].res = rq[r].res
           /\ rq'[r].charge = rq[r].charge /\ Others(r)
<1>1. rq[r] \in Request
  BY DEF RequestsOK
<1>2. rq' = [rq EXCEPT ![r] = [rq[r] EXCEPT !.pc = p]]
  BY DEF Goto
<1>3. QED
  BY <1>1, <1>2 DEF RequestsOK, Request, Others

LEMMA NameEffect ==
    ASSUME RequestsOK, NEW r \in Reqs, NEW p, NEW k, SetRes(r, p, k)
    PROVE  /\ rq'[r].op = rq[r].op /\ rq'[r].pc = p /\ rq'[r].res = k
           /\ rq'[r].charge = rq[r].charge /\ Others(r)
<1>1. rq[r] \in Request
  BY DEF RequestsOK
<1>2. rq' = [rq EXCEPT ![r] = [rq[r] EXCEPT !.pc = p, !.res = k]]
  BY DEF SetRes
<1>3. QED
  BY <1>1, <1>2 DEF RequestsOK, Request, Others

\* A slot of which the invariant says at most that a guarantee was reserved.
Calm(r) ==
    \/ rq[r].op \notin {"reserve", "state", "execute"}
    \/ rq[r].op \in {"state", "execute"}
         /\ rq[r].pc \in {"log", "reply", "markPaid", "markExecuted"}

LEMMA CalmOK ==
    ASSUME NEW r, Calm(r)',
           rq'[r].op \in PanelOps \cup {"state"} => offer'.status \notin {"none", "open"}
    PROVE  EscrowOK(r)'
BY DEF PanelOps, Calm, EscrowOK, ReserveOK, StateOK, ExecuteOK

\* A step of request r that leaves offer, resolutions, rail and day alone.
LEMMA KeptEscrow ==
    ASSUME EscrowInv, NEW r \in Reqs, UNCHANGED <<offer, resolutions, rail, now>>, Others(r),
           rq'[r].op = "reserve" => rq[r].op = "reserve" \/ offer.status = "open",
           EscrowOK(r)'
    PROVE  EscrowInv'
<1>1. GuaranteeOK'
  BY DEF EscrowInv, GuaranteeOK, Opened
<1>2. ASSUME NEW q \in Reqs \ {r} PROVE EscrowOK(q)'
  <2>1. rq'[q] = rq[q] /\ EscrowOK(q)
    BY DEF Others, EscrowInv
  <2>2. ReserveOK(q)'
    BY <2>1 DEF PanelOps, EscrowOK, ReserveOK, Fresh
  <2>3. ExecuteOK(q)'
    BY <2>1 DEF PanelOps, EscrowOK, ExecuteOK, Opened, Settled, Refunded, Verdict
  <2>4. StateOK(q)'
    <3>1. CASE Reserving' => Reserving
      BY <2>1, <3>1 DEF PanelOps, EscrowOK, StateOK, Opened, Settled, Refunded, Fresh
    <3>2. CASE offer.status = "open"
      BY <2>1, <3>2 DEF PanelOps, EscrowOK, StateOK
    <3>3. QED
      BY <3>1, <3>2 DEF Others, Reserving
  <2>5. QED
    BY <2>1, <2>2, <2>3, <2>4 DEF PanelOps, EscrowOK
<1>3. QED
  BY <1>1, <1>2 DEF EscrowInv

LEMMA CalmKeeps ==
    ASSUME EscrowInv, NEW r \in Reqs, UNCHANGED <<offer, resolutions, rail, now>>, Others(r),
           Calm(r)', rq'[r].op \in PanelOps \cup {"state"} => offer.status \notin {"none", "open"}
    PROVE  EscrowInv'
<1>1. EscrowOK(r)'
  BY CalmOK
<1>2. rq'[r].op # "reserve"
  BY DEF PanelOps, Calm
<1>3. QED
  BY <1>1, <1>2, KeptEscrow

LEMMA AllKept ==
    ASSUME EscrowInv, UNCHANGED <<offer, resolutions, rail, now, rq>>
    PROVE  EscrowInv'
<1>1. GuaranteeOK'
  BY DEF EscrowInv, GuaranteeOK, Opened
<1>2. ASSUME NEW q \in Reqs PROVE EscrowOK(q)'
  BY DEF PanelOps, EscrowInv, EscrowOK, ReserveOK, Fresh, ExecuteOK, Opened, Settled, Refunded,
         Verdict,
         StateOK, Reserving
<1>3. QED
  BY <1>1, <1>2 DEF EscrowInv

LEMMA EscrowStart == Init => EscrowInv
<1> SUFFICES ASSUME Init PROVE EscrowInv
  OBVIOUS
<1>1. GuaranteeOK
  BY DEF Init, GuaranteeOK, NoOffer, NoResolution
<1>2. ASSUME NEW r \in Reqs PROVE EscrowOK(r)
  BY DEF Init, PanelOps, EscrowOK, ReserveOK, StateOK, ExecuteOK, Idle
<1>3. QED
  BY <1>1, <1>2 DEF EscrowInv

----------------------------------------------------------------------------
(* Steps that leave offer, resolutions, rail and day alone                 *)

Rests == UNCHANGED <<offer, resolutions, rail, now>>

LEMMA RestSteps ==
    ASSUME TypeInv, VerdictInv, EscrowInv, NEW r \in Reqs,
           \/ Drop(r) \/ ReserveBegin(r) \/ ReserveCheck(r) \/ ProposeCheck(r) \/ ApproveCheck(r)
           \/ CancelCheck(r) \/ Contest(r) \/ Close(r) \/ ExecuteCheck(r) \/ ExecuteContests(r)
           \/ MarkPaid(r) \/ AppendLog(r) \/ StateBegin(r) \/ StateRail(r) \/ StateReply(r)
           \/ \E m \in Mediators, op \in PanelOps : ReadReservedOffer(r, op, m)
    PROVE  EscrowInv' /\ Rests
<1>0. RequestsOK /\ rq[r] \in Request /\ EscrowOK(r) /\ GuaranteeOK /\ now \in Nat
  BY DEF TypeInv, RequestsOK, TablesOK, EscrowInv
<1>1. CASE Drop(r) \/ AppendLog(r) \/ StateReply(r)
  <2>1. Finish(r) /\ Rests
    BY <1>1 DEF Drop, AppendLog, StateReply, Rests
  <2>2. QED
    BY <1>0, <2>1, EndEffect, CalmKeeps DEF PanelOps, Calm, Rests
<1>2. CASE ReserveBegin(r)
  <2>1. /\ Rests /\ offer.status = "open" /\ rq'[r].op = "reserve" /\ rq'[r].pc = "criteria"
        /\ Others(r)
    BY <1>0, <1>2 DEF ReserveBegin, Rests, Begin, Idle, RequestsOK, Others
  <2>2. EscrowOK(r)'
    BY <1>0, <2>1 DEF PanelOps, EscrowOK, ReserveOK, StateOK, ExecuteOK, GuaranteeOK, Rests
  <2>3. QED
    BY <2>1, <2>2, KeptEscrow DEF Rests
<1>3. CASE ReserveCheck(r)
  <2>0. Rests /\ rq[r].op = "reserve"
    BY <1>3 DEF ReserveCheck, Rests, At
  <2>5. PICK s \in ValidSplits :
           rq' = [rq EXCEPT ![r] = [rq[r] EXCEPT !.pc = "charge", !.criteria = criteria, !.split = s]]
    BY <1>3 DEF ReserveCheck
  <2>1. rq'[r].op = "reserve" /\ rq'[r].pc = "charge" /\ Others(r)
    BY <1>0, <2>0, <2>5 DEF RequestsOK, Request, Others
  <2>2. EscrowOK(r)'
    BY <1>0, <2>0, <2>1 DEF PanelOps, EscrowOK, ReserveOK, StateOK, ExecuteOK, Rests, Fresh
  <2>3. QED
    BY <2>0, <2>1, <2>2, KeptEscrow DEF Rests
<1>4. CASE ProposeCheck(r)
  <2>1. Rests /\ rq[r].op = "propose" /\ Goto(r, "insert")
    BY <1>4 DEF ProposeCheck, Rests, At
  <2>2. QED
    BY <1>0, <2>1, MoveEffect, CalmKeeps DEF PanelOps, Calm, Rests, EscrowOK
<1>5. CASE ApproveCheck(r) \/ CancelCheck(r)
  <2>1. Rests /\ rq[r].op \in {"approve", "cancel"}
    BY <1>5 DEF ApproveCheck, CancelCheck, Rests, At
  <2>2. PICK k \in LiveIds : SetRes(r, "write", k)
    BY <1>5 DEF ApproveCheck, CancelCheck, SetRes
  <2>3. rq'[r].op = rq[r].op /\ Others(r)
    BY <1>0, <2>2, NameEffect
  <2>4. QED
    BY <1>0, <2>1, <2>3, CalmKeeps DEF PanelOps, Calm, Rests, EscrowOK
<1>6. ASSUME NEW a \in Accounts, ContestBegin(r, a) PROVE EscrowInv' /\ Rests
  <2>1. Rests /\ rq'[r].op = "contest" /\ Others(r)
    BY <1>0, <1>6 DEF ContestBegin, Rests, Begin, Idle, RequestsOK, Others
  <2>2. QED
    BY <2>1, CalmKeeps DEF Calm, Rests, PanelOps
<1>7. CASE InsertContest(r)
  <2>1. Rests /\ rq[r].op = "contest" /\ ToLog(r)
    BY <1>7 DEF InsertContest, Rests, At
  <2>2. QED
    BY <1>0, <2>1, LogEffect, CalmKeeps DEF PanelOps, Calm, Rests, EscrowOK
<1>8. ASSUME NEW m \in Mediators, CloseContestBegin(r, m) PROVE EscrowInv' /\ Rests
  <2>1. Rests /\ rq'[r].op = "close" /\ Others(r)
    BY <1>0, <1>8 DEF CloseContestBegin, Rests, Begin, Idle, RequestsOK, Others
  <2>2. QED
    BY <2>1, CalmKeeps DEF Calm, Rests, PanelOps
<1>9. CASE CloseContest(r)
  <2>1. Rests /\ rq[r].op = "close" /\ ToLog(r)
    BY <1>9 DEF CloseContest, Rests, At
  <2>2. QED
    BY <1>0, <2>1, LogEffect, CalmKeeps DEF PanelOps, Calm, Rests, EscrowOK
<1>10. CASE ExecuteCheck(r)
  <2>1. Rests /\ rq[r].op = "execute" /\ rq[r].pc = "live"
    BY <1>10 DEF ExecuteCheck, Rests, At
  <2>2. PICK k \in LiveIds : SetRes(r, "contests", k)
    BY <1>10 DEF ExecuteCheck, SetRes
  <2>3. /\ rq'[r].op = "execute" /\ rq'[r].pc = "contests" /\ rq'[r].charge = rq[r].charge
        /\ Others(r)
    BY <1>0, <2>1, <2>2, NameEffect
  <2>4. EscrowOK(r)'
    BY <1>0, <2>1, <2>3 DEF PanelOps, EscrowOK, ReserveOK, StateOK, ExecuteOK, Rests, Opened
  <2>5. QED
    BY <2>1, <2>3, <2>4, KeptEscrow DEF Rests
<1>11. CASE ExecuteContests(r)
  <2>1. Rests /\ rq[r].op = "execute" /\ rq[r].pc = "contests" /\ Goto(r, "instruct")
    BY <1>11 DEF ExecuteContests, Rests, At
  <2>3. /\ rq'[r].op = "execute" /\ rq'[r].pc = "instruct" /\ rq'[r].charge = rq[r].charge
        /\ Others(r)
    BY <1>0, <2>1, MoveEffect
  <2>4. EscrowOK(r)'
    BY <1>0, <2>1, <2>3 DEF PanelOps, EscrowOK, ReserveOK, StateOK, ExecuteOK, Rests, Opened
  <2>5. QED
    BY <2>1, <2>3, <2>4, KeptEscrow DEF Rests
<1>12. CASE MarkPaid(r)
  <2>1. Rests /\ rq[r].op = "execute" /\ Goto(r, "markExecuted")
    BY <1>12 DEF MarkPaid, Rests, At
  <2>2. QED
    BY <1>0, <2>1, MoveEffect, CalmKeeps DEF PanelOps, Calm, Rests, EscrowOK
<1>13. CASE StateBegin(r)
  <2>1. /\ Rests /\ offer.status = "reserved" /\ offer.charge # 0 /\ Others(r)
        /\ rq'[r].op = "state" /\ rq'[r].pc = "rail" /\ rq'[r].charge = offer.charge
    BY <1>0, <1>13 DEF StateBegin, Rests, Begin, Idle, RequestsOK, Others
  <2>2. Reserving' => Reserving /\ Fresh(offer.charge)
    BY <2>1 DEF Reserving, Others, EscrowInv, EscrowOK, ReserveOK
  <2>3. EscrowOK(r)'
    BY <1>0, <2>1, <2>2
       DEF PanelOps, EscrowOK, ReserveOK, StateOK, ExecuteOK, Rests, Opened, GuaranteeOK, Fresh
  <2>4. QED
    BY <2>1, <2>3, KeptEscrow DEF Rests
<1>14. CASE StateRail(r)
  <2> DEFINE c    == rq[r].charge
             live == rail[c].status
             pc   == IF live \in {"refunded", "expired"} THEN "write" ELSE "reply"
  <2>1. /\ Rests /\ rq[r].op = "state" /\ rq[r].pc = "rail"
        /\ rq' = [rq EXCEPT ![r].live = live, ![r].pc = pc]
    BY <1>14 DEF StateRail, Rests, At
  <2>2. Opened(c) /\ (Reserving => Fresh(c))
    BY <1>0, <2>1 DEF PanelOps, EscrowOK, StateOK
  <2> HIDE DEF c, pc
  <2>3. rq'[r].op = "state" /\ rq'[r].pc = pc /\ rq'[r].live = live /\ Others(r)
    BY <1>0, <2>1 DEF RequestsOK, Request, Others
  <2>4. Reserving' => Reserving
    BY <2>3 DEF Reserving, Others
  <2>5. pc = "write" => Settled /\ ~Reserving /\ (live = "refunded" => Refunded)
    BY <2>2 DEF pc, Opened, Fresh, Settled, Refunded
  <2>6. Settled' = Settled /\ Refunded' = Refunded /\ pc # "rail"
    BY <2>1 DEF Rests, Settled, Refunded, pc
  <2> HIDE DEF live
  <2>7. EscrowOK(r)'
    BY <1>0, <2>1, <2>3, <2>4, <2>5, <2>6
       DEF PanelOps, EscrowOK, ReserveOK, StateOK, ExecuteOK, Rests
  <2>8. QED
    BY <2>1, <2>3, <2>7, KeptEscrow DEF Rests
<1>15. ASSUME NEW m \in Mediators, NEW op \in PanelOps, ReadReservedOffer(r, op, m)
       PROVE  EscrowInv' /\ Rests
  <2>1. /\ Rests /\ offer.status = "reserved" /\ offer.charge # 0 /\ Others(r)
        /\ rq'[r].op = op /\ rq'[r].pc = "live" /\ rq'[r].charge = offer.charge
    BY <1>0, <1>15 DEF ReadReservedOffer, Rests, Begin, Idle, RequestsOK, Others
  <2>2. EscrowOK(r)'
    BY <1>0, <2>1
       DEF PanelOps, EscrowOK, ReserveOK, StateOK, ExecuteOK, Rests, Opened, GuaranteeOK
  <2>3. QED
    BY <2>1, <2>2, KeptEscrow DEF Rests, PanelOps
<1>16. QED
  BY <1>1, <1>2, <1>3, <1>4, <1>5, <1>6, <1>7, <1>8, <1>9, <1>10, <1>11, <1>12, <1>13, <1>14,
     <1>15
     DEF Contest, Close

----------------------------------------------------------------------------
(* Steps that write them                                                   *)

RailGrows ==
    /\ \A c \in ChargeIds : Opened(c) => Opened(c)'
    /\ Settled => Settled'
    /\ Refunded => Refunded'
    /\ Reserving => \A c \in ChargeIds : Fresh(c) => Fresh(c)'

\* What another request relies on, through the step of one.
LEMMA OthersKept ==
    ASSUME EscrowInv, NEW q \in Reqs, rq'[q] = rq[q], Reserving' => Reserving, RailGrows,
           offer.status \notin {"none", "open"} => offer'.status \notin {"none", "open"},
           Reserving => /\ offer'.status \in {"open", "reserved"}
                        /\ offer'.charge # 0 => Fresh(offer.charge)'
                        /\ \A k \in ResolutionIds : resolutions'[k].endsAt \notin 1 .. now',
           At(q, "execute", "markOffer") => Verdict(q)' = Verdict(q)
    PROVE  EscrowOK(q)'
<1>1. EscrowOK(q) /\ (rq[q].op = "reserve" => Reserving)
  BY DEF EscrowInv, Reserving
<1>2. \A c : (Opened(c) => Opened(c)') /\ (Reserving /\ Fresh(c) => Fresh(c)')
  BY DEF RailGrows, Opened, Fresh
<1>3. ReserveOK(q)'
  BY <1>1, <1>2 DEF EscrowOK, ReserveOK
<1>4. StateOK(q)'
  BY <1>1, <1>2 DEF EscrowOK, StateOK, RailGrows
<1>5. ExecuteOK(q)'
  BY <1>1, <1>2 DEF EscrowOK, ExecuteOK, RailGrows, At
<1>6. QED
  BY <1>1, <1>3, <1>4, <1>5 DEF EscrowOK

LEMMA RailRests == ASSUME rail' = rail, now' = now PROVE RailGrows
BY DEF RailGrows, Opened, Settled, Refunded, Fresh

\* The rail settles a charge that it retained.
LEMMA RailSettles ==
    ASSUME TypeInv, NEW c \in ChargeIds, NEW s \in {"finished", "expired", "refunded"},
           rail[c].status = "retained", now' = now,
           rail' = [rail EXCEPT ![c].status = s], Reserving => ~Fresh(c)
    PROVE  /\ RailGrows /\ Settled' /\ (s = "refunded" => Refunded')
           /\ rail'[c].status = s /\ \A d \in ChargeIds \ {c} : rail'[d] = rail[d]
<1>1. rail'[c].status = s /\ \A d \in ChargeIds \ {c} : rail'[d] = rail[d]
  BY DEF TypeInv, TablesOK
<1>2. QED
  BY <1>1 DEF RailGrows, Opened, Settled, Refunded, Fresh

LEMMA StepOffer == ASSUME EscrowInv, OfferReward, TypeInv PROVE EscrowInv'
<1>1. /\ offer.status = "none" /\ offer'.status = "open" /\ offer'.charge = offer.charge
      /\ UNCHANGED <<resolutions, rail, now, rq>>
  BY DEF OfferReward, TypeInv, TablesOK
<1>2. ~Reserving
  BY <1>1 DEF EscrowInv, EscrowOK, ReserveOK, Reserving
<1>3. GuaranteeOK'
  BY <1>1 DEF EscrowInv, GuaranteeOK, Opened
<1>4. ASSUME NEW q \in Reqs PROVE EscrowOK(q)'
  <2>1. ~Reserving' /\ Verdict(q)' = Verdict(q)
    BY <1>1, <1>2 DEF Reserving, Verdict
  <2>2. QED
    BY <1>1, <1>2, <2>1, RailRests, OthersKept
<1>5. QED
  BY <1>3, <1>4 DEF EscrowInv

LEMMA StepDay == ASSUME EscrowInv, NextDay, TypeInv PROVE EscrowInv'
<1>1. UNCHANGED <<offer, resolutions, rail, rq>> /\ \A q \in Reqs : rq'[q].op = "idle"
  BY IdleRequest DEF NextDay
<1>2. GuaranteeOK'
  BY <1>1 DEF EscrowInv, GuaranteeOK, Opened
<1>3. ASSUME NEW q \in Reqs PROVE EscrowOK(q)'
  BY <1>1 DEF EscrowOK, PanelOps, ReserveOK, StateOK, ExecuteOK
<1>4. QED
  BY <1>2, <1>3 DEF EscrowInv

LEMMA StepExpire == ASSUME EscrowInv, TypeInv, NEW c \in ChargeIds, RailExpire(c) PROVE EscrowInv'
<1>1. /\ rail[c].status = "retained" /\ now >= rail[c].since + Retention
      /\ rail' = [rail EXCEPT ![c].status = "expired"]
      /\ UNCHANGED <<offer, resolutions, now, rq>>
  BY DEF RailExpire
<1>2. rail[c].since \in Nat /\ now \in Nat /\ Retention \in Nat \ {0}
  BY RewardAssumption DEF TypeInv, TablesOK
<1>3. ~Fresh(c)
  BY <1>1, <1>2 DEF Fresh
<1>4. RailGrows
  BY <1>1, <1>3, RailSettles
<1>5. GuaranteeOK'
  BY <1>1, <1>4 DEF EscrowInv, GuaranteeOK, RailGrows, Opened
<1>6. ASSUME NEW q \in Reqs PROVE EscrowOK(q)'
  <2>1. Reserving' = Reserving /\ Verdict(q)' = Verdict(q)
    BY <1>1 DEF Reserving, Verdict
  <2>2. Reserving => /\ offer'.status \in {"open", "reserved"}
                     /\ offer'.charge # 0 => Fresh(offer.charge)'
                     /\ \A k \in ResolutionIds : resolutions'[k].endsAt \notin 1 .. now'
    BY <1>1, <1>4 DEF EscrowInv, EscrowOK, ReserveOK, Reserving, RailGrows, Fresh
  <2>3. QED
    BY <1>1, <1>4, <2>1, <2>2, OthersKept
<1>7. QED
  BY <1>5, <1>6 DEF EscrowInv

LEMMA StepRailReserve ==
    ASSUME EscrowInv, TypeInv, NEW r \in Reqs, RailReserve(r) PROVE EscrowInv'
<1>0. rq[r] \in Request /\ rq \in [Reqs -> Request] /\ EscrowOK(r)
  BY DEF TypeInv, RequestsOK, EscrowInv
<1>1. PICK c \in ChargeIds :
         /\ rail[c].status = "none"
         /\ rail' = [rail EXCEPT ![c] = [status |-> "retained", since |-> now]]
         /\ rq' = [rq EXCEPT ![r] = [rq[r] EXCEPT !.pc = "mark", !.charge = c]]
  BY DEF RailReserve
<1>2. rq[r].op = "reserve" /\ UNCHANGED <<offer, resolutions, now>>
  BY DEF RailReserve, At
<1>3. rq'[r].op = "reserve" /\ rq'[r].pc = "mark" /\ rq'[r].charge = c /\ Others(r)
  BY <1>0, <1>1, <1>2 DEF Request, Others
<1>4. Reserving /\ (Reserving' => Reserving)
  BY <1>2 DEF Reserving
<1>5. Fresh(c)' /\ \A d \in ChargeIds \ {c} : rail'[d] = rail[d]
  BY <1>1, <1>2 DEF TypeInv, TablesOK, Fresh
<1>6. RailGrows
  BY <1>1, <1>2, <1>5 DEF RailGrows, Opened, Fresh, Settled, Refunded
<1>7. GuaranteeOK'
  BY <1>2, <1>6 DEF EscrowInv, GuaranteeOK, RailGrows, Opened
<1>8. /\ offer'.status \in {"open", "reserved"}
      /\ offer'.charge # 0 => Fresh(offer.charge)'
      /\ \A k \in ResolutionIds : resolutions'[k].endsAt \notin 1 .. now'
  BY <1>0, <1>2, <1>4, <1>6 DEF EscrowOK, ReserveOK, RailGrows, Fresh
<1>9. ASSUME NEW q \in Reqs \ {r} PROVE EscrowOK(q)'
  <2>1. Verdict(q)' = Verdict(q) /\ rq'[q] = rq[q]
    BY <1>2, <1>3 DEF Verdict, Others
  <2>2. QED
    BY <1>2, <1>4, <1>6, <1>8, <2>1, OthersKept
<1>10. EscrowOK(r)'
  BY <1>3, <1>5, <1>8 DEF EscrowOK, ReserveOK, StateOK, ExecuteOK, PanelOps
<1>11. QED
  BY <1>7, <1>9, <1>10 DEF EscrowInv

LEMMA StepReserved ==
    ASSUME EscrowInv, TypeInv, NEW r \in Reqs, MarkReserved(r) PROVE EscrowInv'
<1>0. RequestsOK /\ EscrowOK(r) /\ offer \in [status : OfferStatus, charge : {0} \cup ChargeIds, criteria : Nat,
                 resolved : BOOLEAN]
  BY DEF TypeInv, EscrowInv, TablesOK
<1>1. At(r, "reserve", "mark") /\ Finish(r) /\ UNCHANGED <<resolutions, rail, now>>
  BY DEF MarkReserved
<1>2. /\ rq[r].op = "reserve" /\ rq[r].pc = "mark" /\ rq'[r].op = "idle" /\ rq'[r].pc = "idle"
      /\ Others(r)
  BY <1>0, <1>1, EndEffect DEF At
<1>3. Reserving /\ Fresh(rq[r].charge)
  BY <1>0, <1>2 DEF Reserving, EscrowOK, ReserveOK
<1>4. CASE offer' = offer
  BY <1>1, <1>2, <1>4, CalmKeeps DEF Calm, PanelOps
<1>5. CASE offer' = [offer EXCEPT !.status = "reserved", !.charge = rq[r].charge,
                                  !.criteria = rq[r].criteria]
  <2>1. offer'.status = "reserved" /\ offer'.charge = rq[r].charge
    BY <1>0, <1>5
  <2>2. Fresh(offer.charge)'
    BY <1>1, <1>3, <2>1 DEF Fresh
  <2>3. GuaranteeOK'
    BY <2>1, <2>2 DEF GuaranteeOK, Fresh, Opened
  <2>4. \A k \in ResolutionIds : resolutions'[k].endsAt \notin 1 .. now'
    BY <1>0, <1>1, <1>2 DEF EscrowOK, ReserveOK
  <2>5. ASSUME NEW q \in Reqs \ {r} PROVE EscrowOK(q)'
    <3>1. Verdict(q)' = Verdict(q) /\ rq'[q] = rq[q]
      BY <1>1, <1>2 DEF Verdict, Others
    <3>2. QED
      BY <1>1, <1>3, <2>1, <2>2, <2>4, <3>1, RailRests, OthersKept
  <2>6. EscrowOK(r)'
    BY <1>2 DEF EscrowOK, ReserveOK, StateOK, ExecuteOK, PanelOps
  <2>7. QED
    BY <2>3, <2>5, <2>6 DEF EscrowInv
<1>6. QED
  BY <1>4, <1>5 DEF MarkReserved

\* A window that is over was not over while a reservation was in flight.
LEMMA NoneReserving ==
    ASSUME EscrowInv, VerdictInv, NEW r \in Reqs, Executing(r)
    PROVE  ~Reserving
BY DEF EscrowInv, EscrowOK, ReserveOK, Reserving, VerdictInv, ExecutionOK

\* A row is written that is new, or whose outcome stays.
LEMMA RowsWritten ==
    ASSUME EscrowInv, TypeInv, VerdictInv, NEW r \in Reqs, rq[r].op \in PanelOps, ToLog(r),
           UNCHANGED <<offer, rail, now>>,
           \A k \in ResolutionIds : /\ resolutions'[k].endsAt \in {resolutions[k].endsAt, 0, now + Window}
                                    /\ resolutions[k].status # "none" =>
                                          resolutions'[k].outcome = resolutions[k].outcome
    PROVE  EscrowInv'
<1>0. /\ RequestsOK /\ now \in Nat /\ Window \in Nat \ {0}
      /\ \A k \in ResolutionIds : resolutions[k].endsAt \in Nat
  BY RewardAssumption DEF TypeInv, TablesOK, Resolution
<1>1. rq'[r].op = rq[r].op /\ rq'[r].pc = "log" /\ Others(r)
  BY <1>0, LogEffect
<1>2. offer.status \notin {"none", "open"}
  BY DEF EscrowInv, EscrowOK
<1>3. GuaranteeOK'
  BY <1>2 DEF EscrowInv, GuaranteeOK, Opened
<1>4. Reserving' => Reserving
  BY <1>1 DEF Reserving, Others, PanelOps
<1>5. Reserving => /\ offer'.status \in {"open", "reserved"}
                   /\ offer'.charge # 0 => Fresh(offer.charge)'
                   /\ \A k \in ResolutionIds : resolutions'[k].endsAt \notin 1 .. now'
  <2>1. SUFFICES ASSUME Reserving
                 PROVE  /\ offer.status \in {"open", "reserved"}
                        /\ offer.charge # 0 => Fresh(offer.charge)'
                        /\ \A k \in ResolutionIds : resolutions'[k].endsAt \notin 1 .. now
    OBVIOUS
  <2>2. /\ offer.status \in {"open", "reserved"}
        /\ offer.charge # 0 => Fresh(offer.charge)
        /\ \A k \in ResolutionIds : resolutions[k].endsAt \notin 1 .. now
    BY <2>1 DEF Reserving, EscrowInv, EscrowOK, ReserveOK
  <2>3. offer.charge # 0 => Fresh(offer.charge)'
    BY <2>2 DEF Fresh
  <2>4. ASSUME NEW k \in ResolutionIds PROVE resolutions'[k].endsAt \notin 1 .. now
    BY <1>0, <2>2
  <2>5. QED
    BY <2>2, <2>3, <2>4
<1>6. ASSUME NEW q \in Reqs \ {r} PROVE EscrowOK(q)'
  <2>1. At(q, "execute", "markOffer") => Verdict(q)' = Verdict(q)
    <3>1. SUFFICES ASSUME At(q, "execute", "markOffer") PROVE Verdict(q)' = Verdict(q)
      OBVIOUS
    <3>2. Executing(q) /\ rq'[q] = rq[q]
      BY <1>1, <3>1 DEF At, Executing, Others
    <3>3. rq[q].res \in ResolutionIds /\ resolutions[rq[q].res].status # "none"
      BY <3>2 DEF VerdictInv, ExecutionOK, RowsOK, TwoAgree
    <3>4. QED
      BY <3>2, <3>3 DEF Verdict
  <2>2. QED
    BY <1>1, <1>2, <1>4, <1>5, <2>1, RailRests, OthersKept DEF Others
<1>7. EscrowOK(r)'
  BY <1>1, <1>2, CalmOK DEF Calm, PanelOps
<1>8. QED
  BY <1>3, <1>6, <1>7 DEF EscrowInv

\* Once nothing is being reserved, the offer may be settled and the rail instructed.
LEMMA OfferWritten ==
    ASSUME EscrowInv, NEW r \in Reqs, Others(r), Calm(r)', ~Reserving,
           rq[r].op \in PanelOps \cup {"state"},
           offer'.charge = offer.charge, offer'.status \in {"released", "refunded"},
           UNCHANGED <<resolutions, rail, now>>
    PROVE  EscrowInv'
<1>1. GuaranteeOK'
  BY DEF EscrowInv, GuaranteeOK, Opened
<1>2. ~Reserving'
  BY DEF Reserving, Others, Calm
<1>3. ASSUME NEW q \in Reqs \ {r} PROVE EscrowOK(q)'
  <2>1. Verdict(q)' = Verdict(q) /\ rq'[q] = rq[q]
    BY DEF Verdict, Others
  <2>2. QED
    BY <1>2, <2>1, RailRests, OthersKept
<1>4. EscrowOK(r)'
  BY CalmOK
<1>5. QED
  BY <1>1, <1>3, <1>4 DEF EscrowInv

LEMMA StepInsert ==
    ASSUME EscrowInv, TypeInv, VerdictInv, NEW r \in Reqs, InsertResolution(r) PROVE EscrowInv'
<1>1. PICK k \in ResolutionIds, o \in Outcomes :
         /\ resolutions[k].status = "none"
         /\ resolutions' = [resolutions EXCEPT ![k] =
               [NoResolution EXCEPT !.status = "proposed", !.outcome = o, !.proposedBy = rq[r].who]]
  BY DEF InsertResolution
<1>2. rq[r].op \in PanelOps /\ ToLog(r) /\ UNCHANGED <<offer, rail, now>>
  BY DEF InsertResolution, At, PanelOps
<1>3. resolutions'[k].endsAt = 0 /\ \A j \in ResolutionIds \ {k} : resolutions'[j] = resolutions[j]
  BY <1>1 DEF TypeInv, TablesOK, NoResolution
<1>4. QED
  BY <1>1, <1>2, <1>3, RowsWritten

LEMMA StepRow ==
    ASSUME EscrowInv, TypeInv, VerdictInv, NEW r \in Reqs,
           ApproveResolution(r) \/ CancelResolution(r) \/ MarkResolutionExecuted(r)
    PROVE  EscrowInv'
<1> DEFINE k == rq[r].res
<1>1. rq[r].op \in PanelOps /\ ToLog(r) /\ UNCHANGED <<offer, rail, now>>
  BY DEF ApproveResolution, CancelResolution, MarkResolutionExecuted, At, PanelOps
<1>2. \/ resolutions' = [resolutions EXCEPT ![k] = [resolutions[k] EXCEPT
                !.status = "approved", !.approvedBy = rq[r].who, !.endsAt = now + Window]]
      \/ resolutions' = [resolutions EXCEPT ![k] = [resolutions[k] EXCEPT !.status = "cancelled"]]
      \/ resolutions' = [resolutions EXCEPT ![k] = [resolutions[k] EXCEPT
                !.status = "executed", !.executed = TRUE]]
  BY DEF ApproveResolution, CancelResolution, MarkResolutionExecuted
<1> HIDE DEF k
<1>3. ASSUME NEW j \in ResolutionIds
      PROVE  /\ resolutions'[j].endsAt \in {resolutions[j].endsAt, now + Window}
             /\ resolutions'[j].outcome = resolutions[j].outcome
  <2>1. resolutions[j] \in Resolution /\ resolutions \in [ResolutionIds -> Resolution]
    BY DEF TypeInv, TablesOK
  <2>2. CASE j # k
    BY <1>2, <2>1, <2>2
  <2>3. CASE j = k
    <3>1. resolutions[j].endsAt \in Nat /\ DOMAIN resolutions[j]
            = {"status", "outcome", "proposedBy", "approvedBy", "endsAt", "executed"}
      BY <2>1 DEF Resolution
    <3>2. QED
      BY <1>2, <2>1, <2>3, <3>1
  <2>4. QED
    BY <2>2, <2>3
<1>4. QED
  BY <1>1, <1>3, RowsWritten

LEMMA StepRail ==
    ASSUME EscrowInv, TypeInv, VerdictInv, NEW r \in Reqs, ExecuteRail(r) PROVE EscrowInv'
<1> DEFINE c == rq[r].charge
<1>0. rq[r] \in Request /\ rq \in [Reqs -> Request] /\ EscrowOK(r)
  BY DEF TypeInv, RequestsOK, EscrowInv
<1>1. /\ rq[r].op = "execute" /\ rq[r].pc = "instruct" /\ UNCHANGED <<offer, resolutions, now>>
      /\ rq' = [rq EXCEPT ![r] = [rq[r] EXCEPT !.pc = "markOffer", !.seen = {}, !.charge = 0]]
  BY DEF ExecuteRail, At
<1>2. /\ rq'[r].op = "execute" /\ rq'[r].pc = "markOffer" /\ rq'[r].res = rq[r].res /\ Others(r)
  BY <1>0, <1>1 DEF Request, Others
<1>3. ~Reserving /\ ~Reserving' /\ Opened(c)
  <2>1. ~Reserving
    BY <1>1, NoneReserving DEF Executing
  <2>2. QED
    BY <1>0, <1>1, <1>2, <2>1 DEF Reserving, Others, EscrowOK, ExecuteOK
<1>4. \/ /\ Verdict(r) = "fulfilled" /\ rail[c].status = "retained"
         /\ rail' = [rail EXCEPT ![c].status = "finished"]
      \/ Verdict(r) = "fulfilled" /\ rail[c].status # "retained" /\ rail' = rail
      \/ /\ Verdict(r) = "not_fulfilled" /\ rail[c].status = "retained"
         /\ rail' = [rail EXCEPT ![c].status = "refunded"]
  BY DEF ExecuteRail, RailCapture, RailCancel
<1> HIDE DEF c
<1>5. c \in ChargeIds /\ rail[c].status \in RailStatus \ {"none"}
  BY <1>3 DEF Opened, TypeInv, TablesOK
<1>6. /\ RailGrows
      /\ Verdict(r) = "fulfilled" => Settled'
      /\ Verdict(r) = "not_fulfilled" => Refunded'
  <2>1. CASE rail' = rail /\ rail[c].status # "retained" /\ Verdict(r) = "fulfilled"
    <3>1. Settled'
      BY <1>5, <2>1 DEF Settled, RailStatus
    <3>2. QED
      BY <1>1, <2>1, <3>1, RailRests
  <2>2. CASE /\ Verdict(r) = "fulfilled" /\ rail[c].status = "retained"
             /\ rail' = [rail EXCEPT ![c].status = "finished"]
    BY <1>1, <1>3, <1>5, <2>2, RailSettles
  <2>3. CASE /\ Verdict(r) = "not_fulfilled" /\ rail[c].status = "retained"
             /\ rail' = [rail EXCEPT ![c].status = "refunded"]
    BY <1>1, <1>3, <1>5, <2>3, RailSettles
  <2>4. QED
    BY <1>4, <2>1, <2>2, <2>3
<1>7. GuaranteeOK'
  BY <1>1, <1>6 DEF EscrowInv, GuaranteeOK, RailGrows, Opened
<1>8. ASSUME NEW q \in Reqs \ {r} PROVE EscrowOK(q)'
  <2>1. Verdict(q)' = Verdict(q) /\ rq'[q] = rq[q]
    BY <1>1, <1>2 DEF Verdict, Others
  <2>2. QED
    BY <1>1, <1>3, <1>6, <2>1, OthersKept
<1>9. EscrowOK(r)'
  <2>1. Verdict(r)' = Verdict(r) /\ offer'.status \notin {"none", "open"}
    BY <1>0, <1>1, <1>2 DEF Verdict, EscrowOK, PanelOps
  <2>2. QED
    BY <1>2, <1>6, <2>1 DEF EscrowOK, ReserveOK, StateOK, ExecuteOK
<1>10. QED
  BY <1>7, <1>8, <1>9 DEF EscrowInv

LEMMA StepSettle ==
    ASSUME EscrowInv, TypeInv, VerdictInv, NEW r \in Reqs, MarkOffer(r) \/ StateReconcile(r)
    PROVE  EscrowInv'
<1>0. RequestsOK /\ EscrowOK(r) /\ offer \in [status : OfferStatus, charge : {0} \cup ChargeIds,
                                              criteria : Nat, resolved : BOOLEAN]
  BY DEF TypeInv, EscrowInv, TablesOK
<1>1. /\ offer'.charge = offer.charge /\ offer'.status \in {"released", "refunded"}
      /\ UNCHANGED <<resolutions, rail, now>>
  BY <1>0 DEF MarkOffer, StateReconcile
<1>2. CASE MarkOffer(r)
  <2>1. rq[r].op = "execute" /\ rq[r].pc = "markOffer" /\ \E p \in {"markPaid", "markExecuted"} : Goto(r, p)
    BY <1>2 DEF MarkOffer, At
  <2>2. rq'[r].op = "execute" /\ rq'[r].pc \in {"markPaid", "markExecuted"} /\ Others(r)
    BY <1>0, <2>1, MoveEffect
  <2>3. ~Reserving
    BY <2>1, NoneReserving DEF Executing
  <2>4. QED
    BY <1>1, <2>1, <2>2, <2>3, OfferWritten DEF Calm, PanelOps
<1>3. CASE StateReconcile(r)
  <2>1. rq[r].op = "state" /\ rq[r].pc = "write" /\ Finish(r)
    BY <1>3 DEF StateReconcile, At
  <2>2. rq'[r].op = "idle" /\ Others(r)
    BY <1>0, <2>1, EndEffect
  <2>3. ~Reserving
    BY <1>0, <2>1 DEF EscrowOK, StateOK
  <2>4. QED
    BY <1>1, <2>1, <2>2, <2>3, OfferWritten DEF Calm
<1>4. QED
  BY <1>2, <1>3

LEMMA EscrowStep == TypeInv /\ VerdictInv /\ EscrowInv /\ [Next]_vars => EscrowInv'
<1> SUFFICES ASSUME TypeInv, VerdictInv, EscrowInv, [Next]_vars PROVE EscrowInv'
  OBVIOUS
<1>1. CASE PublishCriteria \/ UNCHANGED vars \/ \E h \in HelpOffers : OnboardAsRecipient(h)
  BY <1>1, AllKept DEF PublishCriteria, OnboardAsRecipient, vars
<1>2. CASE OfferReward \/ NextDay \/ \E c \in ChargeIds : RailExpire(c)
  BY <1>2, StepOffer, StepDay, StepExpire
<1>3. CASE \E r \in Reqs : \/ RailReserve(r) \/ MarkReserved(r) \/ InsertResolution(r)
                           \/ ApproveResolution(r) \/ CancelResolution(r)
                           \/ MarkResolutionExecuted(r) \/ ExecuteRail(r) \/ MarkOffer(r)
                           \/ StateReconcile(r)
  BY <1>3, StepRailReserve, StepReserved, StepInsert, StepRow, StepRail, StepSettle
<1>4. QED
  BY <1>1, <1>2, <1>3, RestSteps
     DEF Next, Handler, Reserve, Propose, Approve, Cancel, Execute, State, PanelOps

----------------------------------------------------------------------------
(* The implementation of EscrowedReward                                    *)

\* What the charges of a rail tell of the money.
FatesIn(charges) == {Fate[s] : s \in {charges[c].status : c \in ChargeIds} \cap DOMAIN Fate}

LEMMA FatesAre ==
    ASSUME NEW charges
    PROVE  /\ FatesIn(charges) \subseteq {"captured", "expired", "refunded"}
           /\ "captured" \in FatesIn(charges) <=> \E c \in ChargeIds : charges[c].status = "finished"
           /\ "expired" \in FatesIn(charges) <=> \E c \in ChargeIds : charges[c].status = "expired"
           /\ "refunded" \in FatesIn(charges) <=> \E c \in ChargeIds : charges[c].status = "refunded"
<1>1. /\ DOMAIN Fate = {"finished", "expired", "refunded"}
      /\ Fate["finished"] = "captured" /\ Fate["expired"] = "expired"
      /\ Fate["refunded"] = "refunded"
  BY DEF Fate
<1>2. QED
  BY <1>1 DEF FatesIn

\* What a rail tells beyond another.
Beyond(old, new, S) ==
    \A t \in {"finished", "expired", "refunded"} :
       (\E c \in ChargeIds : new[c].status = t) <=> t \in S \/ \E c \in ChargeIds : old[c].status = t

LEMMA FatesDiffer ==
    ASSUME NEW old, NEW new, NEW S \in SUBSET {"finished", "expired", "refunded"},
           Beyond(old, new, S)
    PROVE  FatesIn(new) = FatesIn(old) \cup {IF t = "finished" THEN "captured" ELSE t : t \in S}
<1> DEFINE F == FatesIn(old)
           G == FatesIn(new)
           H == {IF t = "finished" THEN "captured" ELSE t : t \in S}
<1>1. /\ F \subseteq {"captured", "expired", "refunded"}
      /\ G \subseteq {"captured", "expired", "refunded"}
      /\ H \subseteq {"captured", "expired", "refunded"}
  BY FatesAre
<1>2. /\ "captured" \in H <=> "finished" \in S
      /\ "expired" \in H <=> "expired" \in S
      /\ "refunded" \in H <=> "refunded" \in S
  OBVIOUS
<1>3. /\ "captured" \in G <=> "captured" \in F \/ "finished" \in S
      /\ "expired" \in G <=> "expired" \in F \/ "expired" \in S
      /\ "refunded" \in G <=> "refunded" \in F \/ "refunded" \in S
  BY FatesAre DEF Beyond
<1> HIDE DEF F, G, H
<1>4. G = F \cup H
  BY <1>1, <1>2, <1>3
<1>5. QED
  BY <1>4 DEF F, G, H

LEMMA FatesRead == Fates = FatesIn(rail) /\ Fates' = FatesIn(rail')
BY DEF Fates, FatesIn

\* One settled charge more.
LEMMA FatesGrow ==
    ASSUME TypeInv, NEW c \in ChargeIds, NEW s \in {"finished", "expired", "refunded"},
           rail[c].status = "retained", rail' = [rail EXCEPT ![c].status = s]
    PROVE  Fates' = Fates \cup {IF s = "finished" THEN "captured" ELSE s}
<1>1. rail'[c].status = s /\ \A d \in ChargeIds \ {c} : rail'[d] = rail[d]
  BY DEF TypeInv, TablesOK
<1>2. Beyond(rail, rail', {s})
  BY <1>1 DEF Beyond
<1>3. FatesIn(rail') = FatesIn(rail) \cup {IF t = "finished" THEN "captured" ELSE t : t \in {s}}
  BY <1>2, FatesDiffer
<1>4. QED
  BY <1>3, FatesRead

LEMMA FatesMeanMoney == (Settled => Fates # {}) /\ (Refunded => "refunded" \in Fates)
BY FatesAre, FatesRead DEF Settled, Refunded

\* The rows on which a verdict rests.
Final(k) == TwoAgree(k) /\ resolutions[k].endsAt \in 1 .. now

LEMMA VerdictsAre ==
    /\ Verdicts = {resolutions[k].outcome : k \in {j \in ResolutionIds : Final(j)}}
    /\ Verdicts' = {resolutions'[k].outcome : k \in {j \in ResolutionIds : Final(j)'}}
BY DEF Verdicts, Final, TwoAgree

LEMMA VerdictsStay ==
    ASSUME UNCHANGED <<resolutions, now>> PROVE Verdicts' = Verdicts
BY DEF Verdicts

LEMMA VerdictsGrow ==
    ASSUME TypeInv, TypeInv',
           \A k \in ResolutionIds : Final(k) => Final(k)' /\ resolutions'[k].outcome = resolutions[k].outcome
    PROVE  Verdicts \subseteq Verdicts' /\ Verdicts' \subseteq Escrow!Verdicts
<1>1. Verdicts \subseteq Verdicts'
  BY VerdictsAre
<1>2. \A k \in ResolutionIds : resolutions'[k].outcome \in Outcomes
  BY DEF TypeInv, TablesOK, Resolution
<1>3. QED
  BY <1>1, <1>2, VerdictsAre DEF Escrow!Verdicts, Outcomes

LEMMA EscrowStarts == Init => Escrow!Init
<1> SUFFICES ASSUME Init PROVE Escrow!Init
  OBVIOUS
<1>1. Verdicts = {}
  BY VerdictsAre DEF Init, NoResolution, Final, TwoAgree
<1>2. Fates = {}
  BY FatesAre, FatesRead DEF Init, NoCharge
<1>3. QED
  BY <1>1, <1>2 DEF Init, NoOffer, Escrow!Init

\* Steps that only decide.
LEMMA RowsDecide ==
    ASSUME TypeInv, TypeInv', UNCHANGED <<offer, rail>>,
           \A k \in ResolutionIds : Final(k) => Final(k)' /\ resolutions'[k].outcome = resolutions[k].outcome
    PROVE  Escrow!Next
BY VerdictsGrow, FatesRead DEF Escrow!Next, Escrow!Decide

LEMMA FinalRows ==
    ASSUME TypeInv, VerdictInv, NEW r \in Reqs,
           \/ InsertResolution(r) \/ ApproveResolution(r) \/ CancelResolution(r)
           \/ MarkResolutionExecuted(r)
    PROVE  /\ UNCHANGED <<offer, rail>>
           /\ \A k \in ResolutionIds : Final(k) => Final(k)' /\ resolutions'[k].outcome = resolutions[k].outcome
<1>0. /\ now' = now /\ UNCHANGED <<offer, rail>> /\ now \in Nat /\ Window \in Nat \ {0}
      /\ resolutions \in [ResolutionIds -> Resolution]
  BY RewardAssumption
     DEF InsertResolution, ApproveResolution, CancelResolution, MarkResolutionExecuted, TypeInv,
         TablesOK
<1>1. SUFFICES ASSUME NEW k \in ResolutionIds, Final(k)
               PROVE  Final(k)' /\ resolutions'[k].outcome = resolutions[k].outcome
  BY <1>0
<1>2. resolutions[k].status # "none"
  BY <1>1 DEF Final, TwoAgree, VerdictInv, RowsOK
<1>3. CASE InsertResolution(r)
  <2>1. resolutions'[k] = resolutions[k]
    BY <1>0, <1>2, <1>3 DEF InsertResolution
  <2>2. QED
    BY <1>0, <1>1, <2>1 DEF Final, TwoAgree
<1>4. CASE ApproveResolution(r)
  <2>1. rq[r].res # k
    BY <1>0, <1>1, <1>4 DEF ApproveResolution, VerdictInv, ApprovalOK, Final
  <2>2. resolutions'[k] = resolutions[k]
    BY <1>0, <1>4, <2>1 DEF ApproveResolution
  <2>3. QED
    BY <1>0, <1>1, <2>2 DEF Final, TwoAgree
<1>5. CASE CancelResolution(r) \/ MarkResolutionExecuted(r)
  <2>1. /\ resolutions'[k].approvedBy = resolutions[k].approvedBy
        /\ resolutions'[k].proposedBy = resolutions[k].proposedBy
        /\ resolutions'[k].endsAt = resolutions[k].endsAt
        /\ resolutions'[k].outcome = resolutions[k].outcome
    BY <1>0, <1>5 DEF CancelResolution, MarkResolutionExecuted, Resolution
  <2>2. QED
    BY <1>0, <1>1, <2>1 DEF Final, TwoAgree
<1>6. QED
  BY <1>3, <1>4, <1>5

\* The rail is instructed on a verdict.
LEMMA RailPays ==
    ASSUME TypeInv, VerdictInv, EscrowInv, NEW r \in Reqs, ExecuteRail(r)
    PROVE  [Escrow!Next]_(Escrow!escrowVars)
<1> DEFINE c == rq[r].charge
<1>1. rq[r].op = "execute" /\ rq[r].pc = "instruct" /\ UNCHANGED <<offer, resolutions, now>>
  BY DEF ExecuteRail, At
<1>2. Verdicts' = Verdicts
  BY <1>1, VerdictsStay
<1>3. Verdict(r) \in Verdicts
  BY <1>1, VerdictsAre DEF VerdictInv, ExecutionOK, Executing, Final, Verdict
<1>4. c \in ChargeIds
  BY <1>1 DEF EscrowInv, EscrowOK, ExecuteOK, Opened
<1>5. \/ Verdict(r) = "fulfilled" /\ rail[c].status = "retained"
            /\ rail' = [rail EXCEPT ![c].status = "finished"]
      \/ rail' = rail
      \/ Verdict(r) = "not_fulfilled" /\ rail[c].status = "retained"
            /\ rail' = [rail EXCEPT ![c].status = "refunded"]
  BY DEF ExecuteRail, RailCapture, RailCancel
<1> HIDE DEF c
<1>6. CASE rail' = rail
  BY <1>1, <1>2, <1>6, FatesRead DEF Escrow!escrowVars
<1>7. CASE /\ Verdict(r) = "fulfilled" /\ rail[c].status = "retained"
           /\ rail' = [rail EXCEPT ![c].status = "finished"]
  <2>1. Fates' = Fates \cup {"captured"}
    BY <1>4, <1>7, FatesGrow
  <2>2. QED
    BY <1>1, <1>2, <1>3, <1>7, <2>1 DEF Escrow!Next, Escrow!MoneyMoves
<1>8. CASE /\ Verdict(r) = "not_fulfilled" /\ rail[c].status = "retained"
           /\ rail' = [rail EXCEPT ![c].status = "refunded"]
  <2>1. Fates' = Fates \cup {"refunded"}
    BY <1>4, <1>8, FatesGrow
  <2>2. QED
    BY <1>1, <1>2, <1>3, <1>8, <2>1 DEF Escrow!Next, Escrow!MoneyMoves
<1>9. QED
  BY <1>5, <1>6, <1>7, <1>8

LEMMA OfferSettles ==
    ASSUME TypeInv, VerdictInv, EscrowInv, NEW r \in Reqs, MarkOffer(r) \/ StateReconcile(r)
    PROVE  Escrow!Next
<1>0. /\ EscrowOK(r) /\ UNCHANGED <<resolutions, rail, now>> /\ rq[r] \in Request
      /\ offer \in [status : OfferStatus, charge : {0} \cup ChargeIds, criteria : Nat, resolved : BOOLEAN]
  BY DEF TypeInv, EscrowInv, TablesOK, RequestsOK, MarkOffer, StateReconcile
<1>1. Verdicts' = Verdicts /\ Fates' = Fates
  BY <1>0, VerdictsStay, FatesRead
<1>2. offer.status \in {"reserved", "released", "refunded"}
  BY <1>0 DEF EscrowOK, PanelOps, OfferStatus, MarkOffer, StateReconcile, At
<1>3. \/ offer'.status = "released" /\ Settled
      \/ offer'.status = "refunded" /\ Refunded
  <2>1. CASE MarkOffer(r)
    BY <1>0, <2>1 DEF MarkOffer, At, EscrowOK, ExecuteOK
  <2>2. CASE StateReconcile(r)
    BY <1>0, <2>2 DEF StateReconcile, At, EscrowOK, StateOK
  <2>3. QED
    BY <2>1, <2>2
<1>4. QED
  BY <1>1, <1>2, <1>3, FatesMeanMoney DEF Escrow!Next, Escrow!Settle

LEMMA EscrowImplemented ==
    ASSUME TypeInv, TypeInv', VerdictInv, EscrowInv, [Next]_vars
    PROVE  [Escrow!Next]_(Escrow!escrowVars)
<1>1. CASE Rests \/ (UNCHANGED <<offer, resolutions, now>> /\ \E r \in Reqs : RailReserve(r))
  <2>1. offer' = offer /\ Verdicts' = Verdicts
    BY <1>1, VerdictsStay DEF Rests
  <2>2. Fates' = Fates
    <3>1. CASE rail' = rail
      BY <3>1, FatesRead
    <3>2. ASSUME NEW r \in Reqs, RailReserve(r) PROVE Fates' = Fates
      <4>1. PICK c \in ChargeIds :
               /\ rail[c].status = "none"
               /\ rail' = [rail EXCEPT ![c] = [status |-> "retained", since |-> now]]
        BY <3>2 DEF RailReserve
      <4>2. rail'[c].status = "retained" /\ \A d \in ChargeIds \ {c} : rail'[d] = rail[d]
        BY <4>1 DEF TypeInv, TablesOK
      <4>3. Beyond(rail, rail', {})
        BY <4>1, <4>2 DEF Beyond
      <4>4. FatesIn(rail') = FatesIn(rail) \cup {IF t = "finished" THEN "captured" ELSE t : t \in {}}
        BY <4>3, FatesDiffer
      <4>5. QED
        BY <4>4, FatesRead
    <3>3. QED
      BY <1>1, <3>1, <3>2 DEF Rests
  <2>3. QED
    BY <2>1, <2>2 DEF Escrow!escrowVars
<1>2. CASE PublishCriteria \/ UNCHANGED vars \/ \E h \in HelpOffers : OnboardAsRecipient(h)
  BY <1>1, <1>2 DEF PublishCriteria, OnboardAsRecipient, vars, Rests
<1>3. CASE OfferReward
  <2>1. offer.status = "none" /\ offer'.status = "open" /\ UNCHANGED <<resolutions, rail, now>>
    BY <1>3 DEF OfferReward, TypeInv, TablesOK
  <2>2. QED
    BY <2>1, VerdictsStay, FatesRead DEF Escrow!Next, Escrow!Offer
<1>4. CASE NextDay
  <2>1. UNCHANGED <<offer, rail, resolutions>> /\ now' = now + 1 /\ now \in Nat
    BY <1>4 DEF NextDay, TypeInv, TablesOK
  <2>2. ASSUME NEW k \in ResolutionIds, Final(k)
        PROVE  Final(k)' /\ resolutions'[k].outcome = resolutions[k].outcome
    BY <2>1, <2>2 DEF Final, TwoAgree
  <2>3. QED
    BY <2>1, <2>2, RowsDecide
<1>5. ASSUME NEW c \in ChargeIds, RailExpire(c) PROVE Escrow!Next
  <2>1. Fates' = Fates \cup {"expired"}
    BY <1>5, FatesGrow DEF RailExpire
  <2>2. UNCHANGED <<offer, resolutions, now>>
    BY <1>5 DEF RailExpire
  <2>3. QED
    BY <2>1, <2>2, VerdictsStay DEF Escrow!Next, Escrow!MoneyMoves
<1>6. ASSUME NEW r \in Reqs, MarkReserved(r) PROVE [Escrow!Next]_(Escrow!escrowVars)
  <2>1. UNCHANGED <<resolutions, rail, now>> /\ rq[r].op = "reserve"
    BY <1>6 DEF MarkReserved, At
  <2>2. Verdicts' = Verdicts /\ Fates' = Fates
    BY <2>1, VerdictsStay, FatesRead
  <2>3. offer.status \in {"open", "reserved"}
    BY <2>1 DEF EscrowInv, EscrowOK, ReserveOK
  <2>4. offer' = offer \/ offer'.status = "reserved"
    BY <1>6 DEF MarkReserved, TypeInv, TablesOK
  <2>5. QED
    BY <2>2, <2>3, <2>4 DEF Escrow!Next, Escrow!Guarantee, Escrow!escrowVars
<1>7. ASSUME NEW r \in Reqs, RailReserve(r) PROVE [Escrow!Next]_(Escrow!escrowVars)
  BY <1>1, <1>7 DEF RailReserve
<1>8. ASSUME NEW r \in Reqs,
             \/ InsertResolution(r) \/ ApproveResolution(r) \/ CancelResolution(r)
             \/ MarkResolutionExecuted(r)
      PROVE  Escrow!Next
  BY <1>8, FinalRows, RowsDecide
<1>9. QED
  BY <1>1, <1>2, <1>3, <1>4, <1>5, <1>6, <1>7, <1>8, RestSteps, RailPays, OfferSettles
     DEF Next, Handler, Reserve, Propose, Approve, Cancel, Execute, State, PanelOps

\* Whatever requests overlap, whoever dies, and however many charges are reserved: no
\* capture without a fulfilled verdict of two mediators, no refund without a not-fulfilled
\* one, no settled status before the money moved, no way back (executeResolution,
\* markReserved, getRewardState).
THEOREM EscrowKept == Spec => KeepsTheEscrow
<1>1. Init => TypeInv /\ VerdictInv /\ EscrowInv /\ Escrow!Init
  BY TypeInit, VerdictInit, EscrowStart, EscrowStarts
<1>2. TypeInv /\ VerdictInv /\ EscrowInv /\ [Next]_vars
         => TypeInv' /\ VerdictInv' /\ EscrowInv' /\ [Escrow!Next]_(Escrow!escrowVars)
  BY RequestsStep, TablesStep, VerdictStep, EscrowStep, EscrowImplemented DEF TypeInv
<1>3. QED
  BY <1>1, <1>2, PTL DEF Spec, KeepsTheEscrow, Escrow!Spec

=============================================================================
