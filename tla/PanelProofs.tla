---------------------------- MODULE PanelProofs -----------------------------
(***************************************************************************)
(* The panel plane, for any number of users, requests, codes, processes and *)
(* ticks: its one-time codes, second factor, guards, lockout protection and *)
(* dual control, and the policy of fees its team keeps.                    *)
(*                                                                         *)
(* The six components share no table, hence no invariant; each has the types *)
(* of its tables and requests, what a request in flight may still rely on, *)
(* and the property it is for.                                             *)
(***************************************************************************)
EXTENDS DualControl, FeePolicy, TwoFactor, VerificationCode, PanelGuards, PanelUsers, FiniteSetTheorems, TLAPS

----------------------------------------------------------------------------
(* DualControl: the accountability log is opened by two                    *)

\* A request before its audit row holds what it is about to say: that the access was asked
\* for by whom, or granted by whom, and rows only move on.

DualRequest ==
    {Idle}
    \cup [op : {"open"}, pc : {"audit"}, req : Requests, who : Team, step : {"request"}]
    \cup [op : {"approve"}, pc : {"grant", "audit"}, req : Requests, who : Team,
          step : {"approve"}]

DualTyped == DualTypeOK /\ rq \in [Reqs -> DualRequest]

\* A row the trail may speak of, or is about to.
AskedFor(k, u)   == asked[k].status # "none" /\ asked[k].requestedBy = u
GrantedBy(k, u) == /\ asked[k].status = "granted"
                 /\ asked[k].approvedBy = u /\ asked[k].requestedBy # u

Opening(r)  == rq[r].op = "open" => AskedFor(rq[r].req, rq[r].who)
Approving(r) == At(r, "approve", "audit") => GrantedBy(rq[r].req, rq[r].who)
Recorded(k, step, u) ==
    IF step = "approve" THEN GrantedBy(k, u) ELSE AskedFor(k, u)

DualInv ==
    /\ DualTyped
    /\ \A r \in Reqs : Opening(r) /\ Approving(r)
    /\ \A k \in Requests, step \in {"request", "approve"}, u \in Team :
          <<k, step, u>> \in trail => Recorded(k, step, u)

LEMMA DualInit_Inv == DualInit => DualInv
BY DEF DualInit, HandlersInit, Idle, DualInv, DualTyped, DualTypeOK, AccessRequest, DualRequest,
       Opening, Approving, At, Recorded

\* What a step keeps true of the rows the others speak of.
AsksKept ==
    \A k \in Requests, u \in Team :
        /\ AskedFor(k, u) => AskedFor(k, u)'
        /\ GrantedBy(k, u) => GrantedBy(k, u)'

LEMMA DualStep == DualInv /\ [DualNext]_dualVars => DualInv'
<1> SUFFICES ASSUME DualInv, [DualNext]_dualVars PROVE DualInv'
  OBVIOUS
<1> USE DEF DualInv, DualTyped, DualTypeOK, AccessRequest, DualRequest, Idle
<1>1. ASSUME NEW r \in Reqs, NEW u \in Team, NEW k \in Requests, ApproveBegin(r, u, k)
      PROVE  DualInv'
  BY <1>1 DEF ApproveBegin, Begin, Opening, Approving, Recorded, AskedFor, GrantedBy, At
<1>2. ASSUME NEW r \in Reqs, NEW u \in Team, NEW k \in Requests, NEW entry \in Entries,
             OpenRequest(r, u, k, entry)
      PROVE  DualInv'
  BY <1>2 DEF OpenRequest, Begin, Opening, Approving, Recorded, AskedFor, GrantedBy, At
<1>3. ASSUME NEW r \in Reqs, Grant(r)
      PROVE  DualInv'
  <2>0. PICK k \in Requests, u \in Team : rq[r].req = k /\ rq[r].who = u
    BY <1>3 DEF Grant, At
  <2>1. /\ asked[k].status = "pending" /\ asked[k].requestedBy # u
        /\ asked' = [asked EXCEPT ![k] = [asked[k] EXCEPT !.status = "granted", !.approvedBy = u]]
    BY <1>3, <2>0 DEF Grant
  <2>2. DualTyped'
    BY <1>3, <2>0, <2>1 DEF Grant, Goto, At
  <2>3. GrantedBy(k, u)' /\ AsksKept
    BY <2>1 DEF AskedFor, GrantedBy, AsksKept
  <2>4. rq'[r] = [rq[r] EXCEPT !.pc = "audit"] /\ \A s \in Reqs \ {r} : rq'[s] = rq[s]
    BY <1>3 DEF Grant, Goto
  <2>5. ASSUME NEW s \in Reqs PROVE Opening(s)' /\ Approving(s)'
    BY <1>3, <2>0, <2>3, <2>4 DEF Grant, Opening, Approving, At, AsksKept
  <2>6. QED
    BY <1>3, <2>2, <2>3, <2>5 DEF Grant, Recorded, AsksKept
<1>4. ASSUME NEW r \in Reqs, Audit(r)
      PROVE  DualInv'
  BY <1>4 DEF Audit, Finish, Opening, Approving, Recorded, AskedFor, GrantedBy, At
<1>5. ASSUME NEW r \in Reqs, GivesUp(r), UNCHANGED <<asked, trail>>
      PROVE  DualInv'
  BY <1>5 DEF GivesUp, Finish, Opening, Approving, Recorded, AskedFor, GrantedBy, At
<1>6. CASE UNCHANGED dualVars
  BY <1>6 DEF dualVars, Opening, Approving, Recorded, AskedFor, GrantedBy, At
<1>7. QED
  BY <1>1, <1>2, <1>3, <1>4, <1>5, <1>6 DEF DualNext

\* Whatever requests and approvals overlap, the tables keep their types, and the trail of the
\* opening of the accountability log names who asked and who, another, granted (Grant, Audit).
THEOREM DualTrail == DualSpec => [](DualTypeOK /\ TrailNamesTheTwo)
<1>1. DualInv => DualTypeOK /\ TrailNamesTheTwo
  BY DEF DualInv, DualTyped, DualTypeOK, TrailNamesTheTwo, Recorded, AskedFor, GrantedBy
<1>2. QED
  BY DualInit_Inv, DualStep, <1>1, PTL DEF DualSpec

----------------------------------------------------------------------------
(* FeePolicy: the veto of a high tier                                      *)

\* What is copied of a tier, into the cache or a request, has as much less to live as the
\* tier has been high.

Cached == Tiers \cup {"none"}

FeeRequest ==
    {Idle}
    \cup [op : {"get"}, pc : {"ruleStore", "fallback", "tier", "answer"}, value : Modes]
    \cup [op : {"get"}, pc : {"tierStore", "tiered"}, value : Modes, tier : Cached]
    \cup [op : {"set"}, pc : {"tier", "tierStore", "tiered"}, row : {"own", "global"},
          value : Modes, tier : Cached]

FeeTyped == FeeTypeOK /\ rq \in [Reqs -> FeeRequest]

\* What a handler read of the tier before it stores it is no older than this tick, and a
\* tier that became high within the tick has an age of 0.
ReadThisTick(r)  == (rq[r].op # "idle" /\ rq[r].pc = "tierStore" /\ rq[r].tier # "high"
                        /\ tier = "high") => high = 0
\* What a handler was told, by the row or by the cache, and what it answers.
ToldInTime(r)    == (At(r, "get", "tiered") /\ rq[r].tier # "high" /\ tier = "high")
                        => high < TierTtl
AnsweredInTime(r) == (At(r, "get", "answer") /\ rq[r].value = "peer" /\ tier = "high")
                        => high < TierTtl
\* An entry that is out of date is dropped before the tier has been high for its time.
EntryRunsOut == (tierEntry.left > 0 /\ tierEntry.value # "high" /\ tier = "high")
                   => high + tierEntry.left <= TierTtl

FeeInv ==
    /\ FeeTyped
    /\ \A r \in Reqs : ReadThisTick(r) /\ ToldInTime(r) /\ AnsweredInTime(r)
    /\ EntryRunsOut

LEMMA FeeInit_Inv == FeeInit => FeeInv
BY FeeAssumption DEF FeeInit, HandlersInit, Idle, Empty, FeeInv, FeeTyped, FeeTypeOK, FeeRequest,
       Modes, Tiers, ReadThisTick, ToldInTime, AnsweredInTime, EntryRunsOut, At

LEMMA FeeStep == FeeInv /\ [FeeNext]_feeVars => FeeInv'
<1> SUFFICES ASSUME FeeInv, [FeeNext]_feeVars PROVE FeeInv'
  OBVIOUS
<1> USE FeeAssumption DEF FeeInv, FeeTyped, FeeTypeOK, FeeRequest, Idle, Modes, Tiers, Cached, Empty,
        ReadThisTick, ToldInTime, AnsweredInTime, EntryRunsOut, At
<1>1. ASSUME NEW r \in Reqs, TierHit(r) PROVE FeeInv'
  BY <1>1 DEF TierHit, With
<1>2. ASSUME NEW r \in Reqs, TierMiss(r) PROVE FeeInv'
  BY <1>2 DEF TierMiss, With
<1>3. ASSUME NEW r \in Reqs, TierStore(r) PROVE FeeInv'
  BY <1>3 DEF TierStore, Goto
<1>4. ASSUME NEW r \in Reqs, GetHit(r) PROVE FeeInv'
  BY <1>4 DEF GetHit, Begin, Asking
<1>5. ASSUME NEW r \in Reqs, GetMiss(r) PROVE FeeInv'
  BY <1>5 DEF GetMiss, Begin, Asking
<1>6. ASSUME NEW r \in Reqs, GetFallback(r) PROVE FeeInv'
  BY <1>6 DEF GetFallback, With
<1>7. ASSUME NEW r \in Reqs, RuleStore(r) PROVE FeeInv'
  BY <1>7 DEF RuleStore, Goto
<1>8. ASSUME NEW r \in Reqs, Veto(r) PROVE FeeInv'
  BY <1>8 DEF Veto, Asking
<1>9. ASSUME NEW r \in Reqs, NEW row \in {"own", "global"}, NEW value \in {"peer", "mediated"},
             SetBegin(r, row, value)
      PROVE  FeeInv'
  BY <1>9 DEF SetBegin, Begin
<1>10. ASSUME NEW r \in Reqs, SetFeeRule(r) PROVE FeeInv'
  BY <1>10 DEF SetFeeRule, Finish
<1>11. ASSUME NEW r \in Reqs, GivesUp(r), UNCHANGED <<rules, tier, ruleEntry, tierEntry, high>>
       PROVE  FeeInv'
  BY <1>11 DEF GivesUp, Finish
<1>12. ASSUME NEW t \in Tiers, NEW here \in BOOLEAN, SetRiskTier(t, here) PROVE FeeInv'
  BY <1>12 DEF SetRiskTier
<1>13. ASSUME FeeTick PROVE FeeInv'
  BY <1>13 DEF FeeTick
<1>14. CASE UNCHANGED feeVars
  BY <1>14 DEF feeVars
<1>15. QED
  BY <1>1, <1>2, <1>3, <1>4, <1>5, <1>6, <1>7, <1>8, <1>9, <1>10, <1>11, <1>12, <1>13, <1>14
  DEF FeeNext

\* However old the two caches are, a category that has been high for as long as a tier is
\* cached is not answered with peer_to_peer (getFeeRule and its veto).
THEOREM Vetoed == FeeSpec => [](FeeTypeOK /\ PeerToPeerVetoed)
<1>1. FeeInv => FeeTypeOK /\ PeerToPeerVetoed
  BY DEF FeeInv, FeeTyped, PeerToPeerVetoed, AnsweredInTime
<1>2. QED
  BY FeeInit_Inv, FeeStep, <1>1, PTL DEF FeeSpec

----------------------------------------------------------------------------
(* TwoFactor: no factor is enabled unproved                                *)

\* As long as no secret changed under an activation, an activation is about the confirmed
\* secret, and a login that found the factor enabled had a code.

FactorRequest ==
    {Idle}
    \cup [op : {"login"}, pc : {"register"}, enabled : BOOLEAN, by : {"totp", "password"}]
    \cup [op : {"activate"}, pc : {"codes", "enable"}]
    \cup [op : {"recover"}, pc : {"mark", "clear"}, code : Codes]

FactorTyped ==
    /\ FactorTypeOK
    /\ totp.secret <= secrets
    /\ rq \in [Reqs -> FactorRequest]

\* As long as no activation was crossed: what an activation will enable is confirmed, and
\* a login that found the factor enabled was asked for a code.
FactorUncrossed ==
    ~crossed =>
        /\ \A r \in Reqs : rq[r].op = "activate" => totp.secret \in confirmed
        /\ \A r \in Reqs : rq[r].op = "login" => (rq[r].enabled => rq[r].by = "totp")

FactorInv == FactorTyped /\ FactorUncrossed /\ FactorIsProved

LEMMA FactorStart == FactorInit => FactorInv
<1> SUFFICES ASSUME FactorInit PROVE FactorInv
  OBVIOUS
<1>1. enrolToken \in BOOLEAN /\ crossed \in BOOLEAN
  BY DEF FactorInit
<1>2. totp \in Totp /\ unused \subseteq Codes /\ secrets \in 0 .. MaxSecrets /\ sets \in 0 .. MaxSets
      /\ confirmed \subseteq 1 .. secrets /\ opened = {} /\ totp.secret <= secrets
      /\ ~totp.enabled
  BY TwoFactorAssumption DEF FactorInit, Totp
<1>3. rq \in [Reqs -> FactorRequest] /\ \A r \in Reqs : rq[r].op = "idle"
  BY DEF FactorInit, HandlersInit, Idle, FactorRequest
<1>4. QED
  BY <1>1, <1>2, <1>3
  DEF FactorInv, FactorTyped, FactorTypeOK, FactorUncrossed, FactorIsProved,
      NoSessionWithoutFactor

LEMMA FactorTyping ==
    ASSUME FactorTyped, [FactorNext]_factorVars
    PROVE  FactorTyped'
<1> USE TwoFactorAssumption DEF FactorTyped, FactorTypeOK
<1>1. /\ totp' \in Totp /\ totp'.secret <= secrets' /\ secrets' \in 0 .. MaxSecrets
      /\ secrets <= secrets'
  <2>0. /\ totp \in Totp /\ secrets \in 0 .. MaxSecrets /\ totp.secret <= secrets
        /\ MaxSecrets \in Nat
    OBVIOUS
  <2> HIDE TwoFactorAssumption DEF FactorTyped, FactorTypeOK
  <2>1. ASSUME StartEnrolment
        PROVE  /\ totp' \in Totp /\ totp'.secret <= secrets' /\ secrets' \in 0 .. MaxSecrets
               /\ secrets <= secrets'
    BY <2>0, <2>1 DEF StartEnrolment, Totp
  <2>2. ASSUME UNCHANGED secrets, ResetTwoFactor \/ \E r \in Reqs : EnableTotp(r) \/ ClearTotp(r)
        PROVE  totp' \in Totp /\ totp'.secret <= secrets'
    <3>1. \/ totp' = [totp EXCEPT !.enabled = TRUE] 
          \/ totp' = [secret |-> 0, enabled |-> FALSE]
      BY <2>2 DEF ResetTwoFactor, EnableTotp, ClearTotp
    <3>2. totp' = [totp EXCEPT !.enabled = TRUE] => totp' \in Totp /\ totp'.secret <= secrets'
      BY <2>0, <2>2 DEF Totp
    <3>3. totp' = [secret |-> 0, enabled |-> FALSE] => totp' \in Totp /\ totp'.secret <= secrets'
      BY <2>0, <2>2 DEF Totp
    <3>4. QED
      BY <3>1, <3>2, <3>3
  <2>3. CASE UNCHANGED <<totp, secrets>>
    BY <2>0, <2>3
  <2>4. StartEnrolment \/ UNCHANGED secrets
    BY DEF FactorNext, FactorStep, factorVars, EnrolTokenExpires, ResetTwoFactor
  <2>5. StartEnrolment \/ ResetTwoFactor \/ (\E r \in Reqs : EnableTotp(r) \/ ClearTotp(r)) \/ UNCHANGED totp
    BY DEF FactorNext, FactorStep, factorVars, EnrolTokenExpires, AuthenticateAdmin,
           RegisterLogin,
       ActivateBegin, ReplaceRecoveryCodes, RecoverBegin, MarkRecoveryCodeUsed
  <2>6. QED
    BY <2>0, <2>1, <2>2, <2>3, <2>4, <2>5
<1>2. unused' \subseteq Codes /\ sets' \in 0 .. MaxSets
  BY DEF FactorNext, FactorStep, factorVars, AuthenticateAdmin, RegisterLogin, EnrolTokenExpires,
     StartEnrolment, ActivateBegin, ReplaceRecoveryCodes, EnableTotp, RecoverBegin,
     MarkRecoveryCodeUsed, ClearTotp, ResetTwoFactor, Codes
<1>3. enrolToken' \in BOOLEAN /\ crossed' \in BOOLEAN
  BY DEF FactorNext, FactorStep, factorVars, AuthenticateAdmin, RegisterLogin, EnrolTokenExpires,
     StartEnrolment, ActivateBegin, ReplaceRecoveryCodes, EnableTotp, RecoverBegin,
     MarkRecoveryCodeUsed, ClearTotp, ResetTwoFactor
<1>4. confirmed' \subseteq 1 .. secrets'
  BY <1>1
     DEF FactorNext, FactorStep, factorVars, AuthenticateAdmin, RegisterLogin,
         EnrolTokenExpires,
     StartEnrolment, ActivateBegin, ReplaceRecoveryCodes, EnableTotp, RecoverBegin,
     MarkRecoveryCodeUsed, ClearTotp, ResetTwoFactor, Totp
<1> HIDE TwoFactorAssumption DEF FactorTyped, FactorTypeOK
<1>6. rq' \in [Reqs -> FactorRequest]
  <2>0. rq \in [Reqs -> FactorRequest] /\ unused \subseteq Codes /\ totp.enabled \in BOOLEAN
    BY DEF FactorTyped, FactorTypeOK, Totp
  <2>1. ASSUME NEW r \in Reqs, AuthenticateAdmin(r) PROVE rq' \in [Reqs -> FactorRequest]
    BY <2>0, <2>1 DEF AuthenticateAdmin, Begin, FactorRequest
  <2>2. ASSUME NEW r \in Reqs, ActivateBegin(r) PROVE rq' \in [Reqs -> FactorRequest]
    BY <2>0, <2>2 DEF ActivateBegin, Begin, FactorRequest
  <2>3. ASSUME NEW r \in Reqs, RecoverBegin(r) PROVE rq' \in [Reqs -> FactorRequest]
    BY <2>0, <2>3 DEF RecoverBegin, Begin, FactorRequest
  <2>4. ASSUME NEW r \in Reqs, ReplaceRecoveryCodes(r) PROVE rq' \in [Reqs -> FactorRequest]
    BY <2>0, <2>4 DEF ReplaceRecoveryCodes, At, Goto, FactorRequest, Idle
  <2>5. ASSUME NEW r \in Reqs, MarkRecoveryCodeUsed(r) PROVE rq' \in [Reqs -> FactorRequest]
    BY <2>0, <2>5 DEF MarkRecoveryCodeUsed, At, Goto, FactorRequest, Idle
  <2>6. ASSUME NEW r \in Reqs, Finish(r) PROVE rq' \in [Reqs -> FactorRequest]
    BY <2>0, <2>6 DEF Finish, FactorRequest
  <2>7. CASE UNCHANGED rq
    BY <2>0, <2>7
  <2>8. QED
    BY <2>1, <2>2, <2>3, <2>4, <2>5, <2>6, <2>7
    DEF FactorNext, FactorStep, factorVars, RegisterLogin, EnrolTokenExpires, StartEnrolment,
        EnableTotp, ClearTotp, ResetTwoFactor, GivesUp
<1>7. opened' \subseteq {"password", "totp", "enrolment", "recovery"}
  <2>1. ASSUME NEW r \in Reqs, RegisterLogin(r) 
        PROVE opened' \subseteq {"password", "totp", "enrolment", "recovery"}
    <3>1. rq[r].by \in {"totp", "password"}
      BY <2>1 DEF RegisterLogin, At, FactorTyped, FactorRequest, Idle
    <3>2. opened' = opened \/ opened' = opened \cup {rq[r].by}
      BY <2>1 DEF RegisterLogin, Open
    <3>3. QED
      BY <3>1, <3>2 DEF FactorTyped, FactorTypeOK
  <2>2. QED
    BY <2>1 DEF FactorNext, FactorStep, factorVars, AuthenticateAdmin, EnrolTokenExpires,
       StartEnrolment, ActivateBegin, ReplaceRecoveryCodes, EnableTotp, RecoverBegin, Open,
       MarkRecoveryCodeUsed, ClearTotp, ResetTwoFactor, FactorTyped, FactorTypeOK
<1>8. QED
  BY <1>1, <1>2, <1>3, <1>4, <1>6, <1>7 DEF FactorTyped, FactorTypeOK

LEMMA FactorKept ==
    ASSUME FactorInv, [FactorNext]_factorVars
    PROVE  (FactorUncrossed /\ FactorIsProved)'
<1> SUFFICES ASSUME FactorTyped, ~crossed', crossed' \in BOOLEAN,
                    \A r \in Reqs : rq[r].op = "activate" => totp.secret \in confirmed,
                    \A r \in Reqs : rq[r].op = "login" => (rq[r].enabled => rq[r].by = "totp"),
                    totp.enabled => totp.secret \in confirmed,
                    "password" \notin opened
             PROVE  /\ \A r \in Reqs : rq'[r].op = "activate" => totp'.secret \in confirmed'
                    /\ \A r \in Reqs : rq'[r].op = "login" => (rq'[r].enabled => rq'[r].by = "totp")
                    /\ totp'.enabled => totp'.secret \in confirmed'
                    /\ "password" \notin opened'
  <2>1. crossed' = crossed \/ (crossed' = (crossed \/ (totp'.secret # totp.secret
                                    /\ \E r \in Reqs : rq[r].op = "activate")))
    BY DEF FactorNext, EnrolTokenExpires, factorVars
  <2>2. ASSUME ~crossed' PROVE ~crossed
    BY <2>1, <2>2
  <2>3. crossed' \in BOOLEAN
    BY FactorTyping DEF FactorInv, FactorTyped, FactorTypeOK
  <2>4. QED
    BY <2>2, <2>3 DEF FactorInv, FactorUncrossed, FactorIsProved, NoSessionWithoutFactor
<1> USE DEF FactorTyped
<1>0. rq \in [Reqs -> FactorRequest] /\ totp \in Totp /\ confirmed \subseteq 1 .. secrets
  BY DEF FactorTyped, FactorTypeOK
<1> DEFINE Uncrossed ==
      /\ \A s \in Reqs : rq'[s].op = "activate" => totp'.secret \in confirmed'
      /\ \A s \in Reqs : rq'[s].op = "login" => (rq'[s].enabled => rq'[s].by = "totp")
      /\ totp'.enabled => totp'.secret \in confirmed'
      /\ "password" \notin opened'
<1>1. ASSUME NEW r \in Reqs, AuthenticateAdmin(r) PROVE Uncrossed
  <2>1. /\ UNCHANGED <<totp, confirmed, opened>>
        /\ rq' = [rq EXCEPT ![r] = [op |-> "login", pc |-> "register", enabled |-> totp.enabled,
                 by |-> IF totp.enabled /\ totp.secret # 0 THEN "totp" ELSE "password"]]
    BY <1>1 DEF AuthenticateAdmin, Begin
  <2>2. totp.enabled => totp.secret # 0
    BY <1>0 DEF Totp
  <2>3. QED
    BY <1>0, <2>1, <2>2
<1>2. ASSUME NEW r \in Reqs, RegisterLogin(r) PROVE Uncrossed
  <2>1. rq[r].op = "login" /\ UNCHANGED <<totp, confirmed>> /\ rq' = [rq EXCEPT ![r] = Idle]
    BY <1>2 DEF RegisterLogin, At, Finish
  <2>2. opened' = opened \/ opened' = opened \cup {"totp"}
    <3>1. rq[r].enabled => rq[r].by = "totp"
      BY <2>1
    <3>2. QED
      BY <1>2, <3>1 DEF RegisterLogin, Open
  <2>3. QED
    BY <1>0, <2>1, <2>2 DEF Idle
<1>3. ASSUME NEW r \in Reqs, ActivateBegin(r) PROVE Uncrossed
  BY <1>0, <1>3 DEF ActivateBegin, Begin
<1>4. ASSUME NEW r \in Reqs, ReplaceRecoveryCodes(r) PROVE Uncrossed
  BY <1>0, <1>4 DEF ReplaceRecoveryCodes, At, Goto, FactorRequest
<1>5. ASSUME NEW r \in Reqs, EnableTotp(r) PROVE Uncrossed
  BY <1>0, <1>5 DEF EnableTotp, At, Open, Finish, Idle, Totp
<1>6. ASSUME NEW r \in Reqs, RecoverBegin(r) PROVE Uncrossed
  BY <1>0, <1>6 DEF RecoverBegin, Begin
<1>7. ASSUME NEW r \in Reqs, MarkRecoveryCodeUsed(r) PROVE Uncrossed
  BY <1>0, <1>7 DEF MarkRecoveryCodeUsed, At, Goto, FactorRequest
<1>8. ASSUME NEW r \in Reqs, ClearTotp(r),
             totp'.secret = totp.secret \/ \A s \in Reqs : rq[s].op # "activate"
      PROVE  Uncrossed
  BY <1>0, <1>8 DEF ClearTotp, At, Open, Finish, Idle
<1>9. ASSUME NEW r \in Reqs, GivesUp(r), UNCHANGED <<totp, confirmed, opened>> PROVE Uncrossed
  BY <1>0, <1>9 DEF GivesUp, Finish, Idle
<1>10. ASSUME StartEnrolment \/ ResetTwoFactor,
             totp'.secret = totp.secret \/ \A s \in Reqs : rq[s].op # "activate"
      PROVE  Uncrossed
  BY <1>0, <1>10 DEF StartEnrolment, ResetTwoFactor
<1>11. CASE EnrolTokenExpires \/ UNCHANGED factorVars
  BY <1>11 DEF EnrolTokenExpires, factorVars
<1>12. CASE FactorStep /\ crossed' = (crossed \/ (totp'.secret # totp.secret
                                                   /\ \E r \in Reqs : rq[r].op = "activate"))
  <2>1. totp'.secret = totp.secret \/ \A s \in Reqs : rq[s].op # "activate"
    BY <1>12
  <2>2. QED
    BY <1>1, <1>2, <1>3, <1>4, <1>5, <1>6, <1>7, <1>8, <1>9, <1>10, <1>12, <2>1 DEF FactorStep
<1>13. QED
  BY <1>11, <1>12 DEF FactorNext

\* Unless a secret was replaced or cleared under an activation, the factor that is enabled is
\* one its user confirmed, and the password alone opens no session (authenticateAdmin,
\* activateEnrollment).
THEOREM FactorHolds == FactorSpec => [](FactorTypeOK /\ FactorIsProved)
<1>1. FactorInv /\ [FactorNext]_factorVars => FactorInv'
  BY FactorTyping, FactorKept DEF FactorInv
<1>2. FactorInv => FactorTypeOK /\ FactorIsProved
  BY DEF FactorInv, FactorTyped
<1>3. QED
  BY FactorStart, <1>1, <1>2, PTL DEF FactorSpec

----------------------------------------------------------------------------
(* VerificationCode: guesses at a one-time code                            *)

\* A wrong guess is under count, counted, or lost with its handler. The invariant is this
\* account of the guesses: what is in the column, in the hands of the requests and lost
\* bounds what was guessed, and the other way round.

Sending  == [op : {"send"}, pc : {"store"}]
Guessing == [op : {"present"}, pc : {"count", "read", "wipe"}, code : CodeIds]
Applying == [op : {"present"}, pc : {"apply"}, code : CodeIds, seen : 0 .. Ttl + 1]
CodesRequest == {Idle} \cup Sending \cup Guessing \cup Applying

CodesTyped ==
    /\ plane \in {"app", "panel"}
    /\ sent \in 0 .. MaxCodes /\ storedCode \in {0, sent}
    /\ attempts \in Nat /\ age \in 0 .. Ttl + 1 /\ trueAge \in 0 .. Ttl + 1
    /\ guesses \in [CodeIds -> Nat] /\ uses \in [CodeIds -> Nat] /\ lost \in 0 .. MaxLost
    /\ rq \in [Reqs -> CodesRequest]

\* The handlers at the count of a wrong code, at that of code n, and past their count.
Counting      == {r \in Reqs : rq[r].pc = "count"}
CountingAt(n) == {r \in Reqs : rq[r].pc = "count" /\ rq[r].code = n}
Settling      == {r \in Reqs : rq[r].pc \in {"read", "wipe"}}

\* No code is presented before it is sent, and one is wiped for Tries attempts.
Presented ==
    /\ \A r \in Reqs : rq[r].op = "present" => rq[r].code <= sent
    /\ \A r \in Reqs : rq[r].pc = "wipe" /\ rq[r].code = storedCode => attempts >= Tries
    /\ \A n \in CodeIds : n > sent => guesses[n] = 0

\* A wrong code is under count, counted or lost; whoever has counted the last of Tries
\* has yet to wipe the code; and of the counts some may be for the code before.
Budget ==
    /\ storedCode = 0 => attempts + Cardinality(Counting) <= Tries - 1 + Cardinality(Reqs) + lost
    /\ \A k \in CodeIds : storedCode = k =>
          /\ guesses[k] <= attempts + Cardinality(CountingAt(k)) + lost
          /\ guesses[k] <= Tries - 1 + Cardinality(CountingAt(k)) + Cardinality(Settling) + lost
          /\ attempts + Cardinality(Counting) <= guesses[k] + Others
          /\ attempts <= Tries - 1 + Cardinality(Settling) + lost

CodesInv == CodesTyped /\ Presented /\ Budget /\ GuessesBounded

LEMMA CodesSizes ==
    /\ Tries \in Nat \ {0} /\ Ttl \in Nat \ {0} /\ MaxCodes \in Nat \ {0} /\ MaxLost \in Nat
    /\ IsFiniteSet(Reqs) /\ Cardinality(Reqs) \in Nat
BY CodesAssumption, HandlersAssumption, FS_CardinalityType

LEMMA CodeShapes ==
    /\ Idle.op = "idle" /\ Idle.pc = "idle"
    /\ \A q \in Sending : q.op = "send" /\ q.pc = "store"
    /\ \A q \in Guessing : q.op = "present" /\ q.pc \in {"count", "read", "wipe"} /\ q.code \in CodeIds
    /\ \A q \in Applying : q.op = "present" /\ q.pc = "apply" /\ q.code \in CodeIds
BY DEF Idle, Sending, Guessing, Applying

LEMMA SlotsApart ==
    ASSUME NEW A \in SUBSET Reqs, NEW B \in SUBSET Reqs, A \cap B = {}
    PROVE  /\ IsFiniteSet(A) /\ Cardinality(A) \in Nat /\ Cardinality(B) \in Nat
           /\ Cardinality(A) + Cardinality(B) <= Cardinality(Reqs)
<1>1. IsFiniteSet(A) /\ IsFiniteSet(B) /\ Cardinality(A) \in Nat /\ Cardinality(B) \in Nat
  BY CodesSizes, FS_Subset, FS_CardinalityType
<1>2. IsFiniteSet(A \cup B) /\ Cardinality(A \cup B) = Cardinality(A) + Cardinality(B)
  <2>1. Cardinality(A \cap B) = 0
    BY FS_EmptySet
  <2>2. Cardinality(A \cup B) = Cardinality(A) + Cardinality(B) - Cardinality(A \cap B)
    BY <1>1, FS_Union
  <2>3. IsFiniteSet(A \cup B)
    BY <1>1, FS_Union
  <2>4. QED
    BY <1>1, <2>1, <2>2, <2>3
<1>3. Cardinality(A \cup B) <= Cardinality(Reqs)
  BY CodesSizes, FS_Subset
<1>4. QED
  BY <1>1, <1>2, <1>3

LEMMA OneMore ==
    ASSUME NEW A \in SUBSET Reqs, NEW r \in Reqs, r \notin A
    PROVE  Cardinality(A \cup {r}) = Cardinality(A) + 1
BY CodesSizes, FS_Subset, FS_AddElement

LEMMA OneLess ==
    ASSUME NEW A \in SUBSET Reqs, NEW r \in A
    PROVE  Cardinality(A \ {r}) = Cardinality(A) - 1
BY CodesSizes, FS_Subset, FS_RemoveElement

LEMMA NotAll ==
    ASSUME NEW A \in SUBSET Reqs, NEW r \in Reqs, r \notin A
    PROVE  Cardinality(A) <= Cardinality(Reqs) - 1
<1>1. Cardinality(A \cup {r}) = Cardinality(A) + 1 
  BY OneMore
<1>2. Cardinality(A \cup {r}) <= Cardinality(Reqs)
  BY CodesSizes, FS_Subset
<1>3. Cardinality(A) \in Nat
  BY CodesSizes, FS_Subset, FS_CardinalityType
<1>4. QED
  BY <1>1, <1>2, <1>3, CodesSizes

\* What the three counts may be.
LEMMA CodeCounts ==
    ASSUME NEW n
    PROVE  /\ Cardinality(Counting) \in Nat /\ Cardinality(CountingAt(n)) \in Nat
           /\ Cardinality(Settling) \in Nat
           /\ Cardinality(Counting) + Cardinality(Settling) <= Cardinality(Reqs)
           /\ Cardinality(CountingAt(n)) + Cardinality(Settling) <= Cardinality(Reqs)
<1>1. /\ Counting \in SUBSET Reqs /\ CountingAt(n) \in SUBSET Reqs /\ Settling \in SUBSET Reqs
      /\ Counting \cap Settling = {} /\ CountingAt(n) \cap Settling = {}
  BY DEF Counting, CountingAt, Settling
<1>2. QED
  BY <1>1, SlotsApart

LEMMA CodeTotals ==
    /\ Cardinality(Counting) \in Nat /\ Cardinality(Settling) \in Nat
    /\ Cardinality(Counting) + Cardinality(Settling) <= Cardinality(Reqs)
<1>1. Counting \in SUBSET Reqs /\ Settling \in SUBSET Reqs /\ Counting \cap Settling = {}
  BY DEF Counting, Settling
<1>2. QED
  BY <1>1, SlotsApart

LEMMA CodeCountsNext ==
    ASSUME NEW n
    PROVE  /\ Cardinality(Counting') \in Nat /\ Cardinality(CountingAt(n)') \in Nat
           /\ Cardinality(Settling') \in Nat
           /\ Cardinality(Counting') + Cardinality(Settling') <= Cardinality(Reqs)
           /\ Cardinality(CountingAt(n)') + Cardinality(Settling') <= Cardinality(Reqs)
<1>1. /\ Counting' \in SUBSET Reqs /\ CountingAt(n)' \in SUBSET Reqs /\ Settling' \in SUBSET Reqs
      /\ Counting' \cap Settling' = {} /\ CountingAt(n)' \cap Settling' = {}
  BY DEF Counting, CountingAt, Settling
<1>2. QED
  BY <1>1, SlotsApart

\* One request moves on, and what that does to the counts, n being a code.
LEMMA CodeMoves ==
    ASSUME NEW r \in Reqs, \A s \in Reqs : s # r => rq'[s] = rq[s], NEW n
    PROVE  /\ rq'[r].pc = "count" /\ rq'[r].code = n /\ rq[r].pc \notin {"count", "read", "wipe"} =>
                 /\ Cardinality(Counting') = Cardinality(Counting) + 1
                 /\ Cardinality(CountingAt(n)') = Cardinality(CountingAt(n)) + 1
           /\ rq[r].pc = "count" /\ rq'[r].pc # "count" =>
                 /\ Cardinality(Counting') = Cardinality(Counting) - 1
                 /\ rq[r].code = n => Cardinality(CountingAt(n)') = Cardinality(CountingAt(n)) - 1
                 /\ rq[r].code # n => Cardinality(CountingAt(n)') = Cardinality(CountingAt(n))
           /\ rq[r].pc # "count" /\ rq'[r].pc # "count" =>
                 /\ Cardinality(Counting') = Cardinality(Counting)
                 /\ Cardinality(CountingAt(n)') = Cardinality(CountingAt(n))
           /\ rq[r].pc \notin {"read", "wipe"} /\ rq'[r].pc \in {"read", "wipe"} =>
                 Cardinality(Settling') = Cardinality(Settling) + 1
           /\ rq[r].pc \in {"read", "wipe"} /\ rq'[r].pc \notin {"read", "wipe"} =>
                 Cardinality(Settling') = Cardinality(Settling) - 1
           /\ (rq[r].pc \in {"read", "wipe"} <=> rq'[r].pc \in {"read", "wipe"}) =>
                 Cardinality(Settling') = Cardinality(Settling)
<1>0. Counting \in SUBSET Reqs /\ CountingAt(n) \in SUBSET Reqs /\ Settling \in SUBSET Reqs
  BY DEF Counting, CountingAt, Settling
<1>1. ASSUME rq'[r].pc = "count", rq'[r].code = n, rq[r].pc \notin {"count", "read", "wipe"}
      PROVE  /\ Cardinality(Counting') = Cardinality(Counting) + 1
             /\ Cardinality(CountingAt(n)') = Cardinality(CountingAt(n)) + 1
  <2>1. /\ Counting' = Counting \cup {r} /\ r \notin Counting
        /\ CountingAt(n)' = CountingAt(n) \cup {r} /\ r \notin CountingAt(n)
    BY <1>1 DEF Counting, CountingAt
  <2>2. QED
    BY <1>0, <2>1, OneMore
<1>2. ASSUME rq[r].pc = "count", rq'[r].pc # "count"
      PROVE  /\ Cardinality(Counting') = Cardinality(Counting) - 1
             /\ rq[r].code = n => Cardinality(CountingAt(n)') = Cardinality(CountingAt(n)) - 1
             /\ rq[r].code # n => Cardinality(CountingAt(n)') = Cardinality(CountingAt(n))
  <2>1. Counting' = Counting \ {r} /\ r \in Counting
    BY <1>2 DEF Counting
  <2>2. rq[r].code = n => CountingAt(n)' = CountingAt(n) \ {r} /\ r \in CountingAt(n)
    BY <1>2 DEF CountingAt
  <2>3. rq[r].code # n => CountingAt(n)' = CountingAt(n)
    BY <1>2 DEF CountingAt
  <2>4. QED
    BY <1>0, <2>1, <2>2, <2>3, OneLess
<1>3. ASSUME rq[r].pc # "count", rq'[r].pc # "count"
      PROVE  Counting' = Counting /\ CountingAt(n)' = CountingAt(n)
  BY <1>3 DEF Counting, CountingAt
<1>4. ASSUME rq[r].pc \notin {"read", "wipe"}, rq'[r].pc \in {"read", "wipe"}
      PROVE  Cardinality(Settling') = Cardinality(Settling) + 1
  <2>1. Settling' = Settling \cup {r} /\ r \notin Settling
    BY <1>4 DEF Settling
  <2>2. QED
    BY <1>0, <2>1, OneMore
<1>5. ASSUME rq[r].pc \in {"read", "wipe"}, rq'[r].pc \notin {"read", "wipe"}
      PROVE  Cardinality(Settling') = Cardinality(Settling) - 1
  <2>1. Settling' = Settling \ {r} /\ r \in Settling
    BY <1>5 DEF Settling
  <2>2. QED
    BY <1>0, <2>1, OneLess
<1>6. ASSUME rq[r].pc \in {"read", "wipe"} <=> rq'[r].pc \in {"read", "wipe"}
      PROVE  Settling' = Settling
  BY <1>6 DEF Settling
<1>7. QED
  BY <1>1, <1>2, <1>3, <1>4, <1>5, <1>6

\* Of the codes but the one in the row no more guesses are made.
LEMMA GuessesKept ==
    ASSUME CodesTyped, CodesTyped', Budget', lost <= lost', GuessesBounded,
           \A n \in CodeIds : n # storedCode' => guesses'[n] = guesses[n]
    PROVE  GuessesBounded'
<1> SUFFICES ASSUME NEW n \in CodeIds PROVE guesses'[n] <= Tries + Others + lost'
  BY DEF GuessesBounded
<1>1. /\ guesses[n] \in Nat /\ guesses'[n] \in Nat /\ lost \in Nat /\ lost' \in Nat
  BY CodesSizes DEF CodesTyped
<1>2. CASE storedCode' = n
  BY <1>1, <1>2, CodesSizes, CodeCountsNext DEF Budget, Others
<1>3. CASE storedCode' # n
  BY <1>1, <1>3, CodesSizes DEF GuessesBounded, Others
<1>4. QED
  BY <1>2, <1>3

\* A step that leaves the row's code, its attempts and the histories alone, and no
\* request at a count or past it.
LEMMA CodesQuiet ==
    ASSUME CodesInv, CodesTyped', UNCHANGED <<storedCode, attempts, guesses, sent, lost>>,
           Presented', UNCHANGED rq \/ \E r \in Reqs : /\ \A s \in Reqs : s # r => rq'[s] = rq[s]
                                                       /\ rq[r].pc \notin {"count", "read", "wipe"}
                                                       /\ rq'[r].pc \notin {"count", "read", "wipe"}
    PROVE  CodesInv'
<1>1. \A k : /\ Cardinality(Counting') = Cardinality(Counting)
             /\ Cardinality(CountingAt(k)') = Cardinality(CountingAt(k))
             /\ Cardinality(Settling') = Cardinality(Settling)
  <2>1. CASE UNCHANGED rq
    BY <2>1 DEF Counting, CountingAt, Settling
  <2>2. ASSUME NEW r \in Reqs, \A s \in Reqs : s # r => rq'[s] = rq[s],
               rq[r].pc \notin {"count", "read", "wipe"}, rq'[r].pc \notin {"count", "read", "wipe"}
        PROVE  Counting' = Counting /\ Settling' = Settling /\ \A k : CountingAt(k)' = CountingAt(k)
    BY <2>2 DEF Counting, CountingAt, Settling
  <2>3. QED
    BY <2>1, <2>2
<1>2. Budget'
  BY <1>1 DEF CodesInv, Budget
<1>3. GuessesBounded'
  BY DEF CodesInv, GuessesBounded
<1>4. QED
  BY <1>2, <1>3 DEF CodesInv

LEMMA CodesStore == ASSUME CodesInv, NEW r \in Reqs, StoreCode(r) PROVE CodesInv'
<1>1. /\ sent < MaxCodes /\ storedCode' = sent + 1 /\ sent' = sent + 1
      /\ attempts' = 0 /\ age' = 0 /\ trueAge' = 0 /\ rq' = [rq EXCEPT ![r] = Idle]
      /\ rq[r].pc = "store" /\ UNCHANGED <<plane, guesses, uses, lost>>
  BY DEF StoreCode, At, Finish
<1>2. CodesTyped' /\ rq'[r] = Idle /\ \A s \in Reqs : s # r => rq'[s] = rq[s]
  BY <1>1, CodesSizes DEF CodesInv, CodesTyped, CodesRequest
<1>3. Presented'
  <2>1. \A s \in Reqs : rq[s].op = "present" => rq[s].code \in CodeIds
    BY CodeShapes DEF CodesInv, CodesTyped, CodesRequest
  <2>2. \A s \in Reqs : rq[s].pc = "wipe" => rq[s].op = "present"
    BY CodeShapes DEF CodesInv, CodesTyped, CodesRequest
  <2>3. sent \in Nat
    BY CodesSizes DEF CodesInv, CodesTyped
  <2>4. QED
    BY <1>1, <1>2, <2>1, <2>2, <2>3, CodeShapes DEF CodesInv, Presented, CodeIds
<1>4. Budget'
  <2>1. Counting' \in SUBSET Reqs /\ r \notin Counting'
    BY <1>2, CodeShapes DEF Counting
  <2>2. Cardinality(Counting') <= Cardinality(Reqs) - 1
    BY <2>1, NotAll
  <2>3. lost' \in Nat /\ sent' \in Nat \ {0} /\ \A k \in CodeIds : storedCode' = k => guesses'[k] = 0
    BY <1>1, CodesSizes DEF CodesInv, CodesTyped, Presented, CodeIds
  <2>4. storedCode' # 0 /\ attempts' = 0
    BY <1>1, <2>3
  <2>5. QED
    BY <2>2, <2>3, <2>4, CodesSizes, CodeCountsNext DEF Budget, Others
<1>5. QED
  BY <1>1, <1>2, <1>3, <1>4, GuessesKept, CodesSizes DEF CodesInv, CodesTyped

LEMMA CodesGuess == ASSUME CodesInv, NEW r \in Reqs, GuessWrong(r) PROVE CodesInv'
<1>1. PICK k \in CodeIds : storedCode = k /\ k <= sent
  BY CodesSizes DEF GuessWrong, CodesInv, CodesTyped, CodeIds
<1>2. /\ guesses' = [guesses EXCEPT ![k] = @ + 1] /\ rq[r].op = "idle"
      /\ rq' = [rq EXCEPT ![r] = [op |-> "present", pc |-> "count", code |-> k]]
      /\ UNCHANGED <<plane, stored, sent, uses, lost>>
  BY <1>1 DEF GuessWrong, Begin
<1>a. UNCHANGED <<plane, storedCode, attempts, age, trueAge, sent, uses, lost>>
  BY <1>2 DEF stored
<1>3. /\ rq'[r] \in Guessing /\ rq'[r].pc = "count" /\ rq'[r].code = k /\ rq[r].pc = "idle"
      /\ \A s \in Reqs : s # r => rq'[s] = rq[s]
  BY <1>2, CodeShapes DEF CodesInv, CodesTyped, CodesRequest, Guessing
<1>4. CodesTyped'
  <2>1. rq' \in [Reqs -> CodesRequest]
    BY <1>2, <1>3 DEF CodesInv, CodesTyped, CodesRequest
  <2>2. guesses' \in [CodeIds -> Nat]
    BY <1>2 DEF CodesInv, CodesTyped
  <2>3. QED
    BY <1>a, <2>1, <2>2 DEF CodesInv, CodesTyped
<1>5. Presented'
  BY <1>1, <1>2, <1>a, <1>3, CodesSizes DEF CodesInv, Presented, CodesTyped, CodeIds
<1>6. Budget'
  <2>1. /\ Cardinality(Counting') = Cardinality(Counting) + 1
        /\ Cardinality(CountingAt(k)') = Cardinality(CountingAt(k)) + 1
        /\ Cardinality(Settling') = Cardinality(Settling)
    BY <1>3, CodeMoves
  <2>2. /\ guesses'[k] = guesses[k] + 1 /\ guesses[k] \in Nat /\ attempts \in Nat
        /\ lost \in Nat /\ storedCode' = k /\ k # 0
    BY <1>1, <1>2, <1>a, CodesSizes DEF CodesInv, CodesTyped, CodeIds
  <2>3. /\ guesses[k] <= attempts + Cardinality(CountingAt(k)) + lost
        /\ guesses[k] <= Tries - 1 + Cardinality(CountingAt(k)) + Cardinality(Settling) + lost
        /\ attempts + Cardinality(Counting) <= guesses[k] + Others
        /\ attempts <= Tries - 1 + Cardinality(Settling) + lost
    BY <1>1 DEF CodesInv, Budget
  <2>4. QED
    BY <1>a, <2>1, <2>2, <2>3, CodesSizes, CodeCounts DEF Budget, Others
<1>7. GuessesBounded'
  BY <1>1, <1>2, <1>a, <1>4, <1>6, GuessesKept, CodesSizes DEF CodesInv, CodesTyped
<1>8. QED
  BY <1>4, <1>5, <1>6, <1>7 DEF CodesInv

\* What the budget says when the row holds code k, as facts about numbers.
LEMMA BudgetAt ==
    ASSUME CodesInv, NEW k \in CodeIds, storedCode = k
    PROVE  /\ guesses[k] <= attempts + Cardinality(CountingAt(k)) + lost
           /\ guesses[k] <= Tries - 1 + Cardinality(CountingAt(k)) + Cardinality(Settling) + lost
           /\ attempts + Cardinality(Counting) <= guesses[k] + Others
           /\ attempts <= Tries - 1 + Cardinality(Settling) + lost
           /\ guesses[k] \in Nat /\ attempts \in Nat /\ lost \in Nat /\ k # 0
BY CodesSizes DEF CodesInv, CodesTyped, Budget, CodeIds

LEMMA CodesNumbers ==
    ASSUME CodesInv
    PROVE  attempts \in Nat /\ lost \in Nat /\ sent \in Nat /\ storedCode \in {0} \cup CodeIds
BY CodesSizes DEF CodesInv, CodesTyped, CodeIds

\* A handler that has guessed wrong goes on or ends; the row's code stays.
LEMMA CodesCount == ASSUME CodesInv, NEW r \in Reqs, CountAttempt(r) PROVE CodesInv'
<1>1. /\ rq[r].op = "present" /\ rq[r].pc = "count" /\ attempts' = attempts + 1
      /\ rq' = [rq EXCEPT ![r].pc = "read"] /\ age' \in {0, age}
      /\ UNCHANGED <<plane, storedCode, trueAge, sent, guesses, uses, lost>>
  BY DEF CountAttempt, At, Restamp, Goto, history
<1>2. /\ rq[r] \in Guessing /\ rq'[r] \in Guessing /\ rq'[r].pc = "read"
      /\ rq'[r].code = rq[r].code
      /\ rq' = [rq EXCEPT ![r] = rq'[r]] /\ \A s \in Reqs : s # r => rq'[s] = rq[s]
  <2>1. rq[r] \in Guessing
    BY <1>1, CodeShapes DEF CodesInv, CodesTyped, CodesRequest
  <2>2. QED
    BY <1>1, <2>1 DEF CodesInv, CodesTyped, Guessing
<1>3. CodesTyped'
  <2>1. rq' \in [Reqs -> CodesRequest]
    BY <1>2 DEF CodesInv, CodesTyped, CodesRequest
  <2>2. QED
    BY <1>1, <2>1, CodesSizes DEF CodesInv, CodesTyped
<1>4. Presented'
  BY <1>1, <1>2, CodesNumbers, CodesSizes DEF CodesInv, Presented
<1>5. \A k \in CodeIds : /\ Cardinality(Counting') = Cardinality(Counting) - 1
                         /\ rq[r].code = k => Cardinality(CountingAt(k)') = Cardinality(CountingAt(k)) - 1
                         /\ rq[r].code # k => Cardinality(CountingAt(k)') = Cardinality(CountingAt(k))
                         /\ Cardinality(Settling') = Cardinality(Settling) + 1
  BY <1>1, <1>2, CodeMoves
<1>6. Budget'
  <2>1. ASSUME storedCode = 0
        PROVE  attempts' + Cardinality(Counting') <= Tries - 1 + Cardinality(Reqs) + lost'
    <3>1. rq[r].code \in CodeIds
      BY <1>2, CodeShapes
    <3>2. Cardinality(Counting') = Cardinality(Counting) - 1
      BY <1>5, <3>1
    <3>3. attempts + Cardinality(Counting) <= Tries - 1 + Cardinality(Reqs) + lost
      BY <2>1 DEF CodesInv, Budget
    <3>4. QED
      BY <1>1, <3>2, <3>3, CodesNumbers, CodesSizes, CodeTotals
  <2>2. ASSUME NEW k \in CodeIds, storedCode = k
        PROVE  /\ guesses'[k] <= attempts' + Cardinality(CountingAt(k)') + lost'
               /\ guesses'[k] <= Tries - 1 + Cardinality(CountingAt(k)') + Cardinality(Settling') + lost'
               /\ attempts' + Cardinality(Counting') <= guesses'[k] + Others
               /\ attempts' <= Tries - 1 + Cardinality(Settling') + lost'
    BY <1>1, <1>5, <2>2, BudgetAt, CodesSizes, CodeCounts DEF Others
  <2>3. QED
    BY <1>1, <2>1, <2>2 DEF Budget
<1>7. GuessesBounded'
  BY <1>1, <1>3, <1>6, CodesNumbers, GuessesKept DEF CodesInv
<1>8. QED
  BY <1>3, <1>4, <1>6, <1>7 DEF CodesInv

\* Fewer than Tries attempts: the handler ends.
LEMMA CodesRead ==
    ASSUME CodesInv, NEW r \in Reqs, ReadAttempts(r)
    PROVE  CodesInv'
<1>1. /\ rq[r].op = "present" /\ rq[r].pc = "read"
      /\ UNCHANGED <<plane, storedCode, attempts, age, trueAge, sent, guesses, uses, lost>>
  BY DEF ReadAttempts, At, stored, history
<1>2. rq[r] \in Guessing /\ rq \in [Reqs -> CodesRequest]
  BY <1>1, CodeShapes DEF CodesInv, CodesTyped, CodesRequest
<1>3. CASE attempts >= Tries /\ Goto(r, "wipe")
  <2>1. /\ rq'[r] \in Guessing /\ rq'[r].pc = "wipe" /\ rq'[r].code = rq[r].code
        /\ rq'[r].op = "present"
        /\ rq' = [rq EXCEPT ![r] = rq'[r]] /\ \A s \in Reqs : s # r => rq'[s] = rq[s]
    BY <1>2, <1>3 DEF Goto, Guessing
  <2>2. CodesTyped'
    BY <1>1, <1>2, <2>1 DEF CodesInv, CodesTyped, CodesRequest
  <2>3. Presented'
    BY <1>1, <1>3, <2>1 DEF CodesInv, Presented
  <2>4. \A k : /\ Cardinality(Counting') = Cardinality(Counting)
               /\ Cardinality(CountingAt(k)') = Cardinality(CountingAt(k))
               /\ Cardinality(Settling') = Cardinality(Settling)
    BY <1>1, <2>1, CodeMoves
  <2>5. Budget' /\ GuessesBounded'
    BY <1>1, <2>4 DEF CodesInv, Budget, GuessesBounded
  <2>6. QED
    BY <2>2, <2>3, <2>5 DEF CodesInv
<1>4. CASE attempts < Tries /\ Finish(r)
  <2>1. /\ rq'[r] = Idle /\ rq' = [rq EXCEPT ![r] = Idle] /\ \A s \in Reqs : s # r => rq'[s] = rq[s]
    BY <1>2, <1>4 DEF Finish
  <2>2. CodesTyped'
    BY <1>1, <1>2, <2>1 DEF CodesInv, CodesTyped, CodesRequest
  <2>3. Presented'
    BY <1>1, <2>1, CodeShapes DEF CodesInv, Presented
  <2>4. \A k : /\ Cardinality(Counting') = Cardinality(Counting)
               /\ Cardinality(CountingAt(k)') = Cardinality(CountingAt(k))
               /\ Cardinality(Settling') = Cardinality(Settling) - 1
    BY <1>1, <2>1, CodeMoves, CodeShapes
  <2>5. Budget'
    <3>1. storedCode = 0 => attempts' + Cardinality(Counting') <= Tries - 1 + Cardinality(Reqs) + lost'
      BY <1>1, <2>4 DEF CodesInv, Budget
    <3>2. ASSUME NEW k \in CodeIds, storedCode = k
          PROVE  /\ guesses'[k] <= attempts' + Cardinality(CountingAt(k)') + lost'
                 /\ guesses'[k] <= Tries - 1 + Cardinality(CountingAt(k)') + Cardinality(Settling') + lost'
                 /\ attempts' + Cardinality(Counting') <= guesses'[k] + Others
                 /\ attempts' <= Tries - 1 + Cardinality(Settling') + lost'
      BY <1>1, <1>4, <2>4, <3>2, BudgetAt, CodesSizes, CodeCounts, CodeCountsNext DEF Others
    <3>3. QED
      BY <1>1, <3>1, <3>2 DEF Budget
  <2>6. QED
    BY <1>1, <2>2, <2>3, <2>5, CodesNumbers, GuessesKept DEF CodesInv
<1>5. QED
  <2>1. attempts \in Nat /\ Tries \in Nat
    BY CodesNumbers, CodesSizes
  <2>2. QED
    BY <1>3, <1>4, <2>1 DEF ReadAttempts

\* The code goes, by a wipe or because it was used.
LEMMA CodesGone ==
    ASSUME CodesInv, NEW r \in Reqs, rq[r] \in Guessing \/ rq[r] \in Applying, rq[r].pc # "count",
           storedCode' = 0, attempts' \in {0, attempts}, attempts' = attempts => rq[r].pc = "wipe" \/ attempts = 0,
           Finish(r), age' \in {0, age}, uses' \in [CodeIds -> Nat],
           UNCHANGED <<plane, trueAge, sent, guesses, lost>>
    PROVE  CodesInv'
<1>1. /\ rq'[r] = Idle /\ rq' = [rq EXCEPT ![r] = Idle] /\ \A s \in Reqs : s # r => rq'[s] = rq[s]
      /\ rq \in [Reqs -> CodesRequest]
  BY DEF Finish, CodesInv, CodesTyped
<1>2. CodesTyped'
  BY <1>1, CodesSizes, CodesNumbers DEF CodesInv, CodesTyped, CodesRequest
<1>3. Presented'
  <2>1. \A s \in Reqs : rq[s].pc = "wipe" => rq[s].code # 0
    BY <1>1, CodeShapes, CodesSizes DEF CodesRequest, CodeIds
  <2>2. QED
    BY <1>1, <2>1, CodeShapes DEF CodesInv, Presented
<1>4. Budget'
  <2>1. attempts' + Cardinality(Counting') <= Tries - 1 + Cardinality(Reqs) + lost'
    <3>1. /\ Cardinality(Counting') = Cardinality(Counting)
      BY <1>1, CodeMoves, CodeShapes
    <3>2. CASE attempts' = 0
      BY <3>1, <3>2, CodesSizes, CodesNumbers, CodeTotals
    <3>3. CASE attempts' = attempts /\ storedCode = 0
      BY <3>1, <3>3 DEF CodesInv, Budget
    <3>4. CASE attempts' = attempts /\ storedCode \in CodeIds
      <4>1. PICK k \in CodeIds : storedCode = k
        BY <3>4
      <4>2. QED
        BY <3>1, <3>4, <4>1, BudgetAt, CodesSizes, CodesNumbers, CodeTotals
    <3>5. QED
      BY <3>2, <3>3, <3>4, CodesNumbers
  <2>2. \A k \in CodeIds : k # 0
    BY CodesSizes DEF CodeIds
  <2>3. QED
    BY <2>1, <2>2 DEF Budget
<1>5. GuessesBounded'
  BY DEF CodesInv, GuessesBounded
<1>6. QED
  BY <1>2, <1>3, <1>4, <1>5 DEF CodesInv

\* A handler dies: a count is lost, or one that was made stays.
LEMMA CodesLose == ASSUME CodesInv, NEW r \in Reqs, CodesDrop(r) PROVE CodesInv'
<1>1. /\ lost < MaxLost /\ lost' = lost + 1 /\ rq' = [rq EXCEPT ![r] = Idle]
      /\ UNCHANGED <<plane, storedCode, attempts, age, trueAge, sent, guesses, uses>>
  BY DEF CodesDrop, GivesUp, Finish, stored, history
<1>2. /\ rq'[r] = Idle /\ \A s \in Reqs : s # r => rq'[s] = rq[s] /\ rq \in [Reqs -> CodesRequest]
  BY <1>1 DEF CodesInv, CodesTyped
<1>3. CodesTyped'
  BY <1>1, CodesSizes DEF CodesInv, CodesTyped, CodesRequest
<1>4. Presented'
  BY <1>1, <1>2, CodeShapes DEF CodesInv, Presented
<1>5. \A k : /\ Cardinality(Counting') \in {Cardinality(Counting), Cardinality(Counting) - 1}
             /\ Cardinality(CountingAt(k)') \in {Cardinality(CountingAt(k)), Cardinality(CountingAt(k)) - 1}
             /\ Cardinality(Settling') \in {Cardinality(Settling), Cardinality(Settling) - 1}
             /\ Cardinality(CountingAt(k)') = Cardinality(CountingAt(k)) \/ Cardinality(Settling') = Cardinality(Settling)
  BY <1>2, CodeMoves, CodeShapes
<1>6. Budget'
  <2>1. ASSUME storedCode = 0
        PROVE  attempts' + Cardinality(Counting') <= Tries - 1 + Cardinality(Reqs) + lost'
    <3>1. attempts + Cardinality(Counting) <= Tries - 1 + Cardinality(Reqs) + lost
      BY <2>1 DEF CodesInv, Budget
    <3>2. Cardinality(Counting') \in {Cardinality(Counting), Cardinality(Counting) - 1}
      BY <1>2, CodeMoves, CodeShapes
    <3>3. QED
      BY <1>1, <3>1, <3>2, CodesNumbers, CodesSizes, CodeTotals
  <2>2. ASSUME NEW k \in CodeIds, storedCode = k
        PROVE  /\ guesses'[k] <= attempts' + Cardinality(CountingAt(k)') + lost'
               /\ guesses'[k] <= Tries - 1 + Cardinality(CountingAt(k)') + Cardinality(Settling') + lost'
               /\ attempts' + Cardinality(Counting') <= guesses'[k] + Others
               /\ attempts' <= Tries - 1 + Cardinality(Settling') + lost'
    BY <1>1, <1>5, <2>2, BudgetAt, CodesSizes, CodeCounts DEF Others
  <2>3. QED
    BY <1>1, <2>1, <2>2 DEF Budget
<1>7. QED
  BY <1>1, <1>3, <1>4, <1>6, CodesNumbers, GuessesKept DEF CodesInv

LEMMA CodesStep == ASSUME CodesInv, [CodesNext]_codeVars PROVE CodesInv'
<1>0. rq \in [Reqs -> CodesRequest] /\ CodesTyped /\ Presented
  BY DEF CodesInv, CodesTyped
<1>1. ASSUME NEW r \in Reqs, SendBegin(r) PROVE CodesInv'
  <2>1. /\ rq'[r] = [op |-> "send", pc |-> "store"] /\ \A s \in Reqs : s # r => rq'[s] = rq[s]
        /\ rq[r].op = "idle" /\ rq' = [rq EXCEPT ![r] = [op |-> "send", pc |-> "store"]]
        /\ UNCHANGED <<plane, storedCode, attempts, age, trueAge, sent, guesses, uses, lost>>
    BY <1>0, <1>1 DEF SendBegin, Begin, stored, history
  <2>2. CodesTyped'
    BY <1>0, <2>1 DEF CodesTyped, CodesRequest, Sending
  <2>3. Presented'
    BY <1>0, <2>1 DEF Presented
  <2>4. rq[r].pc \notin {"count", "read", "wipe"}
    BY <1>0, <2>1, CodeShapes DEF CodesRequest
  <2>5. QED
    BY <2>1, <2>2, <2>3, <2>4, CodesQuiet
<1>2. ASSUME NEW r \in Reqs, GuessRight(r) PROVE CodesInv'
  <2>1. PICK q : /\ q = [op |-> "present", pc |-> "apply", code |-> storedCode, seen |-> trueAge]
                 /\ rq' = [rq EXCEPT ![r] = q] /\ rq[r].op = "idle" /\ storedCode # 0
    BY <1>2 DEF GuessRight, Begin
  <2>2. UNCHANGED <<plane, storedCode, attempts, age, trueAge, sent, guesses, uses, lost>>
    BY <1>2 DEF GuessRight, stored, history
  <2>3. rq'[r] = q /\ \A s \in Reqs : s # r => rq'[s] = rq[s]
    BY <1>0, <2>1
  <2>4. q \in Applying /\ q.pc = "apply" /\ q.code = storedCode /\ storedCode <= sent
    BY <1>0, <2>1, CodesSizes DEF CodesTyped, Applying, CodeIds
  <2>5. CodesTyped'
    BY <1>0, <2>1, <2>2, <2>4 DEF CodesTyped, CodesRequest
  <2>6. Presented'
    BY <1>0, <2>2, <2>3, <2>4 DEF Presented
  <2>7. rq[r].pc \notin {"count", "read", "wipe"}
    BY <1>0, <2>1, CodeShapes DEF CodesRequest
  <2>8. QED
    BY <2>2, <2>3, <2>4, <2>5, <2>6, <2>7, CodesQuiet
<1>3. ASSUME NEW r \in Reqs, WipeCode(r) PROVE CodesInv'
  <2>1. /\ rq[r].op = "present" /\ rq[r].pc = "wipe" /\ storedCode' = 0 /\ attempts' = attempts
        /\ age' \in {0, age} /\ Finish(r)
        /\ UNCHANGED <<plane, trueAge, sent, guesses, uses, lost>>
    BY <1>3 DEF WipeCode, At, Restamp, history
  <2>2. rq[r] \in Guessing /\ uses' \in [CodeIds -> Nat]
    BY <1>0, <2>1, CodeShapes DEF CodesTyped, CodesRequest
  <2>3. QED
    BY <2>1, <2>2, CodesGone
<1>4. ASSUME NEW r \in Reqs, ApplyCode(r) PROVE CodesInv'
  <2>1. /\ rq[r].op = "present" /\ rq[r].pc = "apply" /\ storedCode' = 0 /\ attempts' = 0
        /\ age' \in {0, age} /\ Finish(r) /\ UNCHANGED <<plane, trueAge, sent, guesses, lost>>
        /\ uses' = [uses EXCEPT ![rq[r].code] = @ + 1]
    BY <1>4 DEF ApplyCode, At, Restamp
  <2>2. rq[r] \in Applying /\ uses' \in [CodeIds -> Nat]
    BY <1>0, <2>1, CodeShapes DEF CodesTyped, CodesRequest
  <2>3. attempts' = attempts => attempts = 0
    BY <2>1
  <2>4. QED
    BY <2>1, <2>2, <2>3, CodesGone
<1>5. ASSUME TouchRow \/ Elapse \/ UNCHANGED codeVars PROVE CodesInv'
  <2>1. /\ UNCHANGED <<plane, storedCode, attempts, sent, guesses, uses, lost, rq>>
        /\ age' \in {0, age, Later(age)} /\ trueAge' \in {trueAge, Later(trueAge)}
    BY <1>5 DEF TouchRow, Elapse, Restamp, codeVars, history
  <2>2. Later(age) \in 0 .. Ttl + 1 /\ Later(trueAge) \in 0 .. Ttl + 1 /\ 0 \in 0 .. Ttl + 1
    BY <1>0, CodesSizes DEF CodesTyped, Later
  <2>3. CodesTyped'
    BY <1>0, <2>1, <2>2 DEF CodesTyped
  <2>4. Presented'
    BY <1>0, <2>1 DEF Presented
  <2>5. QED
    BY <2>1, <2>3, <2>4, CodesQuiet
<1>6. QED
  BY <1>1, <1>2, <1>3, <1>4, <1>5, CodesStore, CodesGuess, CodesCount, CodesRead, CodesLose
     DEF CodesNext

LEMMA CodesStart == CodesInit => CodesInv
<1> SUFFICES ASSUME CodesInit PROVE CodesInv
  OBVIOUS
<1>1. /\ storedCode = 0 /\ attempts = 0 /\ sent = 0 /\ lost = 0 /\ rq = [r \in Reqs |-> Idle]
      /\ guesses = [n \in CodeIds |-> 0]
  BY DEF CodesInit, HandlersInit
<1>2. CodesTyped
  BY <1>1, CodesSizes DEF CodesInit, CodesTyped, CodesRequest
<1>3. Presented
  BY <1>1, CodeShapes DEF Presented
<1>4. Budget
  BY <1>1, CodesSizes, CodeTotals DEF Budget, CodeIds
<1>5. GuessesBounded
  <2>1. Cardinality(Reqs) \in Nat /\ (Cardinality(Reqs) = 0 => Tries + Others + lost >= 0)
    BY <1>1, CodesSizes DEF Others
  <2>2. QED
    BY <1>1, <2>1, CodesSizes DEF GuessesBounded, Others
<1>6. QED
  BY <1>2, <1>3, <1>4, <1>5 DEF CodesInv

\* Wrong guesses at a code are at most the tries, those in flight beside the last of them and
\* those whose count died, for any number of requests, tries and codes 
\* (registerEmailVerificationAttempt and its like of the panel).
THEOREM BruteForceBounded == CodesSpec => [](CodesTypeOK /\ GuessesBounded)
<1>1. ASSUME CodesInv PROVE CodesTypeOK /\ GuessesBounded
  <2>1. storedCode \in 0 .. MaxCodes
    BY <1>1, CodesSizes DEF CodesInv, CodesTyped
  <2>2. attempts \in 0 .. MaxTries
    <3>1. lost \in 0 .. MaxLost
      BY <1>1 DEF CodesInv, CodesTyped
    <3>2. CASE storedCode = 0
      <4>1. attempts + Cardinality(Counting) <= Tries - 1 + Cardinality(Reqs) + lost
        BY <1>1, <3>2 DEF CodesInv, Budget
      <4>2. QED
        BY <1>1, <3>1, <4>1, CodesNumbers, CodesSizes, CodeTotals DEF MaxTries
    <3>3. ASSUME NEW k \in CodeIds, storedCode = k PROVE attempts \in 0 .. MaxTries
      BY <1>1, <3>1, <3>3, BudgetAt, CodesSizes, CodeTotals DEF MaxTries
    <3>4. QED
      BY <1>1, <3>2, <3>3, CodesNumbers
  <2>3. QED
    BY <1>1, <2>1, <2>2 DEF CodesInv, CodesTyped, CodesTypeOK
<1>2. QED
  BY <1>1, CodesStart, CodesStep, PTL DEF CodesSpec

LEMMA CodesWiped ==
    ASSUME CodesInv, [CodesNext]_codeVars, storedCode # 0, storedCode' = 0, uses' = uses
    PROVE  \/ guesses[storedCode] >= Tries - Others
           \/ \E r \in Reqs : At(r, "present", "wipe") /\ rq[r].code < storedCode
<1>0. rq \in [Reqs -> CodesRequest] /\ CodesTyped /\ Presented
  BY DEF CodesInv, CodesTyped
<1>1. \A r \in Reqs : ~StoreCode(r)
  BY CodesNumbers DEF StoreCode
<1>2. \A r \in Reqs : ~ApplyCode(r)
  <2> SUFFICES ASSUME NEW r \in Reqs, ApplyCode(r) PROVE FALSE
    OBVIOUS
  <2>1. PICK n \in CodeIds : rq[r].code = n
    BY <1>0, CodeShapes DEF ApplyCode, At, CodesRequest
  <2>2. uses'[n] = uses[n] + 1 /\ uses[n] \in Nat
    BY <1>0, <2>1 DEF ApplyCode, CodesTyped
  <2>3. QED
    BY <2>2
<1>3. PICK r \in Reqs : WipeCode(r)
  BY <1>1, <1>2
     DEF CodesNext, codeVars, SendBegin, GuessWrong, GuessRight, CountAttempt, ReadAttempts,
     CodesDrop, TouchRow, Elapse, stored
<1>4. /\ At(r, "present", "wipe") /\ rq[r].code \in CodeIds /\ rq[r].code <= sent
      /\ rq[r].pc = "wipe"
  BY <1>0, <1>3, CodeShapes DEF WipeCode, At, CodesRequest, Presented
<1>5. PICK k \in CodeIds : storedCode = k /\ k = sent
  BY CodesNumbers DEF CodesInv, CodesTyped
<1>6. CASE rq[r].code = k
  <2>1. attempts >= Tries
    BY <1>0, <1>4, <1>5, <1>6 DEF Presented
  <2>2. QED
    BY <1>5, <2>1, BudgetAt, CodesSizes, CodeTotals DEF Others
<1>7. CASE rq[r].code # k
  BY <1>4, <1>5, <1>7, CodesSizes DEF CodeIds
<1>8. QED
  BY <1>6, <1>7

\* A code is wiped only when enough wrong guesses were made at itself, but for the counts of
\* requests that were in flight when it was sent.
THEOREM WipedForItsOwn == CodesSpec => WipedForItsOwnGuesses
<1>1. CodesInv /\ [CodesNext]_codeVars =>
        [(storedCode # 0 /\ storedCode' = 0 /\ uses' = uses)
            => \/ guesses[storedCode] >= Tries - Others
               \/ \E r \in Reqs : At(r, "present", "wipe") /\ rq[r].code < storedCode]_codeVars
  BY CodesWiped
<1>2. QED
  BY <1>1, CodesStart, CodesStep, PTL DEF CodesSpec, WipedForItsOwnGuesses

----------------------------------------------------------------------------
(* PanelGuards: what a guard lets in late                                  *)

\* An entry of a cache that no longer says what the row says has as much less to live as
\* the change is old; what a request has read and not yet stored went stale within the
\* tick.

SessionKept    == [sv : Sv, active : BOOLEAN]
PrivilegeKept  == [granted : BOOLEAN]
SessionEntry   == {NoEntry} \cup [left : 1 .. CacheTtl, info : SessionKept]
PrivilegeEntry == {NoEntry} \cup [left : 1 .. CacheTtl, info : PrivilegeKept]
Caches == [Stores -> [Procs -> SessionEntry \cup PrivilegeEntry]]

\* What a slot holds: a request before a guard or past it, one that has missed and
\* read, a login about to sign, a kill about to bump.
Guarded == [op : {"act", "renew"}, pc : {"session", "privilege", "in"}, proc : Procs, sv : Sv, late : 0 .. CacheTtl]
MissedSession ==
    [op : {"act", "renew"}, pc : {"store"}, proc : Procs, sv : Sv, late : 0 .. CacheTtl,
     store : {"session"}, info : SessionKept]
MissedPrivilege ==
    [op : {"act", "renew"}, pc : {"store"}, proc : Procs, sv : Sv, late : 0 .. CacheTtl,
     store : {"privilege"}, info : PrivilegeKept]
Signing == [op : {"login"}, pc : {"sign"}, proc : Procs, sv : Sv, late : {0}]
Killing == [op : {"kill"}, pc : {"bump"}, proc : Anywhere]
GuardsQuiet == {Idle} \cup Guarded \cup Signing \cup Killing
GuardsRequest == GuardsQuiet \cup MissedSession \cup MissedPrivilege

GuardsTyped ==
    /\ user \in User
    /\ cache \in Caches
    /\ \A p \in Procs : cache["session"][p] \in SessionEntry /\ cache["privilege"][p] \in PrivilegeEntry
    /\ signed \subseteq Sv
    /\ since \in [Sv -> Ages] /\ lapse \in [active : Ages, granted : Ages]
    /\ rq \in [Reqs -> GuardsRequest]

\* An entry that no longer says what the row says has as much less to live as the
\* change is old.
SessionDated ==
    \A p \in Procs : cache["session"][p].left > 0 =>
        /\ cache["session"][p].info.sv <= user.sv
        /\ cache["session"][p].info.sv # user.sv =>
              since[cache["session"][p].info.sv] + cache["session"][p].left <= CacheTtl
        /\ user.active = FALSE =>
              \/ cache["session"][p].info.sv # user.sv
              \/ cache["session"][p].info.active = FALSE
              \/ lapse.active + cache["session"][p].left <= CacheTtl
PrivilegeDated ==
    \A p \in Procs : cache["privilege"][p].left > 0 =>
        \/ user.granted = TRUE \/ cache["privilege"][p].info.granted = FALSE
        \/ lapse.granted + cache["privilege"][p].left <= CacheTtl

\* What a request has read but not stored went stale within this tick.
SessionRead ==
    \A r \in Reqs : rq[r] \in MissedSession =>
        /\ rq[r].info.sv <= user.sv
        /\ rq[r].info.sv # user.sv => since[rq[r].info.sv] = 0
        /\ user.active = FALSE => rq[r].info.sv # user.sv \/ rq[r].info.active = FALSE \/ lapse.active = 0
PrivilegeRead ==
    \A r \in Reqs : rq[r] \in MissedPrivilege =>
        user.granted = TRUE \/ rq[r].info.granted = FALSE \/ lapse.granted = 0

GuardsInv == GuardsTyped /\ SessionDated /\ PrivilegeDated /\ SessionRead /\ PrivilegeRead

LEMMA GuardsSizes == CacheTtl \in Nat \ {0} /\ MaxSv \in Nat \ {0}
BY GuardsAssumption

LEMMA GuardsShapes ==
    /\ \A q \in Guarded : q.pc \in {"session", "privilege", "in"} /\ q.op \in {"act", "renew"}
                          /\ q.proc \in Procs /\ q.sv \in Sv /\ q.late \in 0 .. CacheTtl
    /\ \A q \in MissedSession \cup MissedPrivilege :
          q.pc = "store" /\ q.op \in {"act", "renew"} /\ q.proc \in Procs /\ q.sv \in Sv /\ q.late \in 0 .. CacheTtl
    /\ \A q \in MissedSession : q.store = "session" /\ q.info \in SessionKept
    /\ \A q \in MissedPrivilege : q.store = "privilege" /\ q.info \in PrivilegeKept
    /\ \A q \in Signing : q.op = "login" /\ q.pc = "sign" /\ q.proc \in Procs /\ q.sv \in Sv
    /\ \A q \in Killing : q.op = "kill" /\ q.pc = "bump" /\ q.proc \in Anywhere
    /\ Idle.op = "idle" /\ Idle.pc = "idle"
    /\ \A q \in GuardsQuiet : q \notin MissedSession /\ q \notin MissedPrivilege
BY DEF Guarded, MissedSession, MissedPrivilege, Signing, Killing, Idle, GuardsQuiet

LEMMA EntryShapes ==
    /\ \A e \in SessionEntry : e.left \in 0 .. CacheTtl /\ (e.left > 0 => e.info \in SessionKept)
    /\ \A e \in PrivilegeEntry : e.left \in 0 .. CacheTtl /\ (e.left > 0 => e.info \in PrivilegeKept)
    /\ NoEntry \in SessionEntry /\ NoEntry \in PrivilegeEntry /\ NoEntry.left = 0
BY GuardsSizes DEF SessionEntry, PrivilegeEntry, NoEntry

LEMMA GuardsMeans == ASSUME GuardsInv PROVE GuardsTypeOK /\ LetInWithinTtl
<1>1. \A p \in Procs :
         /\ cache["session"][p].left \in 0 .. CacheTtl
         /\ cache["privilege"][p].left \in 0 .. CacheTtl
         /\ cache["session"][p].left > 0 => cache["session"][p].info \in SessionKept
         /\ cache["privilege"][p].left > 0 => cache["privilege"][p].info \in PrivilegeKept
  BY EntryShapes DEF GuardsInv, GuardsTyped
<1>2. \A i \in SessionKept : \E row \in User : i = Kept("session", row)
  <2>1. SUFFICES ASSUME NEW i \in SessionKept PROVE \E row \in User : i = Kept("session", row)
    OBVIOUS
  <2>2. [sv |-> i.sv, active |-> i.active, granted |-> TRUE] \in User
    BY DEF SessionKept, User
  <2>3. QED
    BY <2>2 DEF SessionKept, Kept
<1>3. \A i \in PrivilegeKept : \E row \in User : i = Kept("privilege", row)
  <2>1. SUFFICES ASSUME NEW i \in PrivilegeKept PROVE \E row \in User : i = Kept("privilege", row)
    OBVIOUS
  <2>2. [sv |-> 0, active |-> TRUE, granted |-> i.granted] \in User
    BY GuardsSizes DEF PrivilegeKept, User, Sv
  <2>3. QED
    BY <2>2 DEF PrivilegeKept, Kept
<1>4. GuardsTypeOK
  <2>1. \A k \in Stores, p \in Procs :
          cache[k][p].left \in 0 .. CacheTtl /\ (cache[k][p].left > 0 => \E row \in User : cache[k][p].info = Kept(k, row))
    BY <1>1, <1>2, <1>3 DEF Stores
  <2>2. QED
    BY <2>1 DEF GuardsInv, GuardsTyped, GuardsTypeOK
<1>5. LetInWithinTtl
  <2>1. SUFFICES ASSUME NEW r \in Reqs, rq[r].pc = "in" PROVE rq[r].late <= CacheTtl
    BY DEF LetInWithinTtl
  <2>2. rq[r] \in GuardsRequest
    BY DEF GuardsInv, GuardsTyped
  <2>3. rq[r] \in Guarded
    BY <2>1, <2>2, GuardsShapes DEF GuardsRequest, GuardsQuiet
  <2>4. QED
    BY <2>3, GuardsShapes, GuardsSizes
<1>6. QED
  BY <1>4, <1>5

LEMMA GuardsStart == ASSUME GuardsInit PROVE GuardsInv
<1>1. /\ user \in User /\ since \in [Sv -> Ages] /\ lapse \in [active : Ages, granted : Ages]
      /\ signed \subseteq Sv
  BY GuardsSizes DEF GuardsInit, User, Sv, Ages
<1>2. cache \in Caches /\ \A p \in Procs : cache["session"][p] = NoEntry /\ cache["privilege"][p] = NoEntry
  BY EntryShapes DEF GuardsInit, Caches, Stores
<1>3. rq = [r \in Reqs |-> Idle] /\ Idle \in GuardsQuiet
  BY DEF GuardsInit, HandlersInit, GuardsQuiet
<1>4. GuardsTyped
  BY <1>1, <1>2, <1>3, EntryShapes DEF GuardsTyped, GuardsRequest
<1>5. SessionDated /\ PrivilegeDated
  BY <1>2, EntryShapes DEF SessionDated, PrivilegeDated
<1>6. SessionRead /\ PrivilegeRead
  BY <1>3, GuardsShapes DEF SessionRead, PrivilegeRead
<1>7. QED
  BY <1>4, <1>5, <1>6 DEF GuardsInv

\* Nothing changes but that an entry may go, a version is signed, and a slot that
\* moves holds nothing read.
LEMMA GuardsQuietly ==
    ASSUME GuardsInv, NEW r \in Reqs, NEW q \in GuardsQuiet, rq' = [rq EXCEPT ![r] = q],
           UNCHANGED <<user, since, lapse>>, signed' \subseteq Sv, cache' \in Caches,
           \A k \in Stores, p \in Procs : cache'[k][p] \in {cache[k][p], NoEntry}
    PROVE  GuardsInv'
<1>1. rq'[r] = q /\ \A s \in Reqs : s # r => rq'[s] = rq[s]
  BY DEF GuardsInv, GuardsTyped
<1>2. \A p \in Procs : /\ cache'["session"][p] \in {cache["session"][p], NoEntry}
                       /\ cache'["privilege"][p] \in {cache["privilege"][p], NoEntry}
  BY DEF Stores
<1>3. rq' \in [Reqs -> GuardsRequest]
  BY DEF GuardsInv, GuardsTyped, GuardsRequest
<1>4. GuardsTyped'
  BY <1>2, <1>3, EntryShapes DEF GuardsInv, GuardsTyped
<1>5. SessionDated'
  BY <1>2, EntryShapes DEF GuardsInv, SessionDated
<1>6. PrivilegeDated'
  BY <1>2, EntryShapes DEF GuardsInv, PrivilegeDated
<1>7. SessionRead' /\ PrivilegeRead'
  BY <1>1, GuardsShapes DEF GuardsInv, SessionRead, PrivilegeRead
<1>8. QED
  BY <1>4, <1>5, <1>6, <1>7 DEF GuardsInv

LEMMA Invalidated ==
    ASSUME GuardsTyped, NEW k \in Stores, NEW p \in Anywhere, Invalidate(k, p)
    PROVE  cache' \in Caches /\ \A j \in Stores, q \in Procs : cache'[j][q] \in {cache[j][q], NoEntry}
<1>1. CASE cache' = cache
  BY <1>1 DEF GuardsTyped
<1>2. CASE p \in Procs /\ cache' = [cache EXCEPT ![k][p] = NoEntry]
  <2>1. PICK c : c = [cache[k] EXCEPT ![p] = NoEntry]
    OBVIOUS
  <2>2. c \in [Procs -> SessionEntry \cup PrivilegeEntry] /\ \A q \in Procs : c[q] \in {cache[k][q], NoEntry}
    BY <2>1, EntryShapes DEF GuardsTyped, Caches
  <2>3. cache' = [cache EXCEPT ![k] = c]
    BY <1>2, <2>1
  <2>4. QED
    BY <2>2, <2>3 DEF GuardsTyped, Caches
<1>3. QED
  BY <1>1, <1>2 DEF Invalidate, Anywhere

\* The next guard, or the handler, for a request whose guard relied on what ceased to
\* be true no longer than an entry lives ago.
LEMMA LetInGuarded ==
    ASSUME GuardsInv, NEW r \in Reqs, NEW k \in Stores, Stale(k, rq[r].sv) \in 0 .. CacheTtl,
           rq[r] \in Guarded \cup MissedSession \cup MissedPrivilege, LetIn(r, k)
    PROVE  \E q \in GuardsQuiet : rq' = [rq EXCEPT ![r] = q]
<1>1. PICK n \in 0 .. CacheTtl : n = Stale(k, rq[r].sv)
  OBVIOUS
<1>2. /\ rq[r].op \in {"act", "renew"} /\ rq[r].proc \in Procs /\ rq[r].sv \in Sv
      /\ rq[r].late \in 0 .. CacheTtl
  BY GuardsShapes
<1>3. PICK q : /\ q = [op |-> rq[r].op, proc |-> rq[r].proc, sv |-> rq[r].sv,
                       pc |-> IF k = "session" /\ rq[r].op = "act" THEN "privilege" ELSE "in",
                       late |-> IF n > rq[r].late THEN n ELSE rq[r].late]
               /\ rq' = [rq EXCEPT ![r] = q]
  BY <1>1 DEF LetIn
<1>4. q \in Guarded
  BY <1>1, <1>2, <1>3 DEF Guarded
<1>5. QED
  BY <1>3, <1>4 DEF GuardsQuiet

\* What passes the guard of the sessions.
LEMMA SessionStale ==
    ASSUME GuardsInv, NEW sv \in Sv, NEW d \in 0 .. CacheTtl,
           user.sv # sv => since[sv] <= d,
           user.sv = sv /\ user.active = FALSE => lapse.active <= d
    PROVE  Stale("session", sv) \in 0 .. CacheTtl
<1>1. since[sv] \in Nat /\ lapse.active \in Nat /\ d \in Nat /\ d <= CacheTtl /\ CacheTtl \in Nat
  BY GuardsSizes DEF GuardsInv, GuardsTyped, Ages
<1>2. user.active \in BOOLEAN
  BY DEF GuardsInv, GuardsTyped, User
<1>3. CASE user.sv # sv
  BY <1>1, <1>3 DEF Stale
<1>4. CASE user.sv = sv /\ user.active = FALSE
  BY <1>1, <1>4 DEF Stale
<1>5. CASE user.sv = sv /\ user.active = TRUE
  BY <1>1, <1>5 DEF Stale
<1>6. QED
  BY <1>2, <1>3, <1>4, <1>5

LEMMA PrivilegeStale ==
    ASSUME GuardsInv, NEW sv, NEW d \in 0 .. CacheTtl, user.granted = TRUE \/ lapse.granted <= d
    PROVE  Stale("privilege", sv) \in 0 .. CacheTtl
<1>1. lapse.granted \in Nat /\ d \in Nat /\ d <= CacheTtl /\ CacheTtl \in Nat
  BY GuardsSizes DEF GuardsInv, GuardsTyped, Ages
<1>2. user.granted \in BOOLEAN
  BY DEF GuardsInv, GuardsTyped, User
<1>3. CASE user.granted = TRUE
  BY <1>1, <1>3 DEF Stale
<1>4. CASE user.granted = FALSE
  BY <1>1, <1>4 DEF Stale
<1>5. QED
  BY <1>2, <1>3, <1>4

LEMMA GuardsHit == ASSUME GuardsInv, NEW r \in Reqs, NEW k \in Stores, Hit(r, k) PROVE GuardsInv'
<1>1. rq[r] \in GuardsRequest /\ GuardsTyped
  BY DEF GuardsInv, GuardsTyped
<1>2. rq[r] \in Guarded
  BY <1>1, GuardsShapes DEF Hit, Stores, GuardsRequest, GuardsQuiet
<1>3. rq[r].proc \in Procs /\ rq[r].sv \in Sv
  BY <1>2, GuardsShapes
<1>4. PICK p \in Procs : p = rq[r].proc
  BY <1>3
<1>5. cache[k][p].left > 0 /\ UNCHANGED <<user, cache, signed, since, lapse>>
  BY <1>4 DEF Hit, Fresh, clocks
<1>6. (Passes(k, cache[k][p].info, rq[r].sv) /\ LetIn(r, k)) \/ rq' = [rq EXCEPT ![r] = Idle]
  BY <1>4 DEF Hit, Finish
<1>7. ASSUME k = "session", Passes(k, cache[k][p].info, rq[r].sv)
      PROVE  Stale(k, rq[r].sv) \in 0 .. CacheTtl
  <2>1. /\ cache["session"][p].info.active /\ cache["session"][p].info.sv = rq[r].sv
        /\ cache["session"][p].left > 0 /\ cache["session"][p] \in SessionEntry
    BY <1>1, <1>5, <1>7 DEF Passes, GuardsTyped
  <2>2. cache["session"][p].left \in 0 .. CacheTtl
    BY <2>1, EntryShapes
  <2>3. /\ user.sv # rq[r].sv => since[rq[r].sv] <= CacheTtl
        /\ user.sv = rq[r].sv /\ user.active = FALSE => lapse.active <= CacheTtl
    BY <1>1, <1>3, <2>1, <2>2, GuardsSizes DEF GuardsInv, SessionDated, GuardsTyped, Ages
  <2>4. CacheTtl \in 0 .. CacheTtl
    BY GuardsSizes
  <2>5. QED
    BY <1>3, <1>7, <2>3, <2>4, SessionStale
<1>8. ASSUME k = "privilege", Passes(k, cache[k][p].info, rq[r].sv)
      PROVE  Stale(k, rq[r].sv) \in 0 .. CacheTtl
  <2>1. /\ cache["privilege"][p].info.granted
        /\ cache["privilege"][p].left > 0 /\ cache["privilege"][p] \in PrivilegeEntry
    BY <1>1, <1>5, <1>8 DEF Passes, GuardsTyped
  <2>2. cache["privilege"][p].left \in 0 .. CacheTtl
    BY <2>1, EntryShapes
  <2>3. user.granted = TRUE \/ lapse.granted <= CacheTtl
    BY <1>1, <2>1, <2>2, GuardsSizes DEF GuardsInv, PrivilegeDated, GuardsTyped, Ages
  <2>4. CacheTtl \in 0 .. CacheTtl
    BY GuardsSizes
  <2>5. QED
    BY <1>8, <2>3, <2>4, PrivilegeStale
<1>9. \E q \in GuardsQuiet : rq' = [rq EXCEPT ![r] = q]
  <2>1. CASE rq' = [rq EXCEPT ![r] = Idle]
    BY <2>1 DEF GuardsQuiet
  <2>2. CASE Passes(k, cache[k][p].info, rq[r].sv) /\ LetIn(r, k)
    <3>1. Stale(k, rq[r].sv) \in 0 .. CacheTtl
      BY <1>7, <1>8, <2>2 DEF Stores
    <3>2. QED
      BY <1>2, <2>2, <3>1, LetInGuarded
  <2>3. QED
    BY <1>6, <2>1, <2>2
<1>10. QED
  BY <1>1, <1>5, <1>9, GuardsQuietly DEF GuardsTyped

LEMMA GuardsMiss == ASSUME GuardsInv, NEW r \in Reqs, NEW k \in Stores, Miss(r, k) PROVE GuardsInv'
<1>1. rq[r] \in GuardsRequest /\ rq \in [Reqs -> GuardsRequest]
  BY DEF GuardsInv, GuardsTyped
<1>2. rq[r] \in Guarded
  BY <1>1, GuardsShapes DEF Miss, Stores, GuardsRequest, GuardsQuiet
<1>3. UNCHANGED <<user, cache, signed, since, lapse>> /\ user \in User
  BY DEF Miss, clocks, GuardsInv, GuardsTyped
<1>4. With(r, [pc |-> "store", store |-> k, info |-> Kept(k, user)])
  BY DEF Miss
<1>5. PICK i : i = Kept(k, user)
  OBVIOUS
<1>6. /\ k = "session" => i = [sv |-> user.sv, active |-> user.active] /\ i \in SessionKept
      /\ k = "privilege" => i = [granted |-> user.granted] /\ i \in PrivilegeKept
  BY <1>3, <1>5 DEF Kept, SessionKept, PrivilegeKept, User
<1>7. With(r, [pc |-> "store", store |-> k, info |-> i])
  BY <1>4, <1>5
<1>8. PICK q : /\ rq' = [rq EXCEPT ![r] = q] /\ q.info = i
               /\ k = "session" => q \in MissedSession
               /\ k = "privilege" => q \in MissedPrivilege
  <2>1. PICK q : q = [f \in {"pc", "store", "info"} \cup {"op", "pc", "proc", "sv", "late"} |->
                        IF f \in {"pc", "store", "info"} THEN [pc |-> "store", store |-> k, info |-> i][f] ELSE rq[r][f]]
    OBVIOUS
  <2>2. DOMAIN rq[r] = {"op", "pc", "proc", "sv", "late"}
    BY <1>2 DEF Guarded
  <2>3. rq' = [rq EXCEPT ![r] = q]
    BY <1>7, <2>1, <2>2 DEF With
  <2>4. q.info = i /\ q.pc = "store" /\ q.store = k /\ q.op = rq[r].op /\ q.proc = rq[r].proc
        /\ q.sv = rq[r].sv /\ q.late = rq[r].late
    BY <2>1
  <2>5. q = [op |-> q.op, pc |-> q.pc, proc |-> q.proc, sv |-> q.sv, late |-> q.late, store |-> q.store, info |-> q.info]
    BY <2>1
  <2>6. /\ rq[r].op \in {"act", "renew"} /\ rq[r].proc \in Procs /\ rq[r].sv \in Sv
        /\ rq[r].late \in 0 .. CacheTtl
    BY <1>2, GuardsShapes
  <2>7. k = "session" => q \in MissedSession
    BY <1>6, <2>4, <2>5, <2>6 DEF MissedSession
  <2>8. k = "privilege" => q \in MissedPrivilege
    BY <1>6, <2>4, <2>5, <2>6 DEF MissedPrivilege
  <2>9. QED
    BY <2>3, <2>4, <2>7, <2>8
<1>9. rq'[r] = q /\ \A s \in Reqs : s # r => rq'[s] = rq[s]
  BY <1>1, <1>8
<1>10. GuardsTyped'
  BY <1>1, <1>3, <1>8 DEF GuardsInv, GuardsTyped, GuardsRequest, Stores
<1>11. SessionDated' /\ PrivilegeDated'
  BY <1>3 DEF GuardsInv, SessionDated, PrivilegeDated
<1>12. SessionRead'
  BY <1>3, <1>6, <1>8, <1>9, GuardsShapes, GuardsSizes
     DEF GuardsInv, SessionRead, Stores, User, Sv
<1>13. PrivilegeRead'
  BY <1>3, <1>6, <1>8, <1>9, GuardsShapes, GuardsSizes DEF GuardsInv, PrivilegeRead, Stores, User
<1>14. QED
  BY <1>10, <1>11, <1>12, <1>13 DEF GuardsInv
LEMMA GuardsStore == ASSUME GuardsInv, NEW r \in Reqs, StoreEntry(r) PROVE GuardsInv'
<1>1. rq[r] \in GuardsRequest /\ rq \in [Reqs -> GuardsRequest] /\ GuardsTyped
  BY DEF GuardsInv, GuardsTyped
<1>2. rq[r] \in MissedSession \cup MissedPrivilege
  BY <1>1, GuardsShapes DEF StoreEntry, GuardsRequest, GuardsQuiet
<1>3. PICK k \in Stores, p \in Procs, i \in SessionKept \cup PrivilegeKept : k = rq[r].store /\ p = rq[r].proc /\ i = rq[r].info
  BY <1>2, GuardsShapes DEF Stores
<1>4. rq[r].sv \in Sv /\ (rq[r].op = "idle") = FALSE
  BY <1>2, GuardsShapes
<1>5. /\ UNCHANGED <<user, signed, since, lapse>>
      /\ cache' = [cache EXCEPT ![k][p] = [left |-> CacheTtl, info |-> i]]
  BY <1>3 DEF StoreEntry, clocks
<1>6. (Passes(k, i, rq[r].sv) /\ LetIn(r, k)) \/ rq' = [rq EXCEPT ![r] = Idle]
  BY <1>3 DEF StoreEntry, Finish
<1>7. k = "session" => /\ i \in SessionKept /\ i.sv <= user.sv /\ (i.sv # user.sv => since[i.sv] = 0)
                       /\ user.active = FALSE => i.sv # user.sv \/ i.active = FALSE \/ lapse.active = 0
  BY <1>2, <1>3, GuardsShapes DEF GuardsInv, SessionRead
<1>8. k = "privilege" => /\ i \in PrivilegeKept
                         /\ user.granted = TRUE \/ i.granted = FALSE \/ lapse.granted = 0
  BY <1>2, <1>3, GuardsShapes DEF GuardsInv, PrivilegeRead
<1>9. Passes(k, i, rq[r].sv) => Stale(k, rq[r].sv) \in 0 .. CacheTtl
  <2>1. 0 \in 0 .. CacheTtl
    BY GuardsSizes
  <2>2. ASSUME k = "session", Passes(k, i, rq[r].sv) PROVE Stale(k, rq[r].sv) \in 0 .. CacheTtl
    <3>1. i.active /\ i.sv = rq[r].sv
      BY <2>2 DEF Passes
    <3>2. /\ user.sv # rq[r].sv => since[rq[r].sv] <= 0
          /\ user.sv = rq[r].sv /\ user.active = FALSE => lapse.active <= 0
      BY <1>7, <2>2, <3>1
    <3>3. QED
      BY <1>4, <2>1, <2>2, <3>2, SessionStale
  <2>3. ASSUME k = "privilege", Passes(k, i, rq[r].sv) PROVE Stale(k, rq[r].sv) \in 0 .. CacheTtl
    <3>1. i.granted
      BY <2>3 DEF Passes
    <3>2. user.granted = TRUE \/ lapse.granted <= 0
      BY <1>8, <2>3, <3>1
    <3>3. QED
      BY <2>1, <2>3, <3>2, PrivilegeStale
  <2>4. QED
    BY <2>2, <2>3 DEF Stores
<1>10. PICK q \in GuardsQuiet : rq' = [rq EXCEPT ![r] = q]
  <2>1. CASE rq' = [rq EXCEPT ![r] = Idle]
    BY <2>1 DEF GuardsQuiet
  <2>2. CASE Passes(k, i, rq[r].sv) /\ LetIn(r, k)
    BY <1>2, <1>9, <2>2, LetInGuarded
  <2>3. QED
    BY <1>6, <2>1, <2>2
<1>11. rq' \in [Reqs -> GuardsRequest] /\ rq'[r] = q /\ \A s \in Reqs : s # r => rq'[s] = rq[s]
  BY <1>1, <1>10 DEF GuardsRequest
<1>12. PICK e : e = [left |-> CacheTtl, info |-> i]
  OBVIOUS
<1>13. /\ k = "session" => e \in SessionEntry
       /\ k = "privilege" => e \in PrivilegeEntry
       /\ e.left = CacheTtl /\ e.info = i
  BY <1>7, <1>8, <1>12, GuardsSizes DEF SessionEntry, PrivilegeEntry
<1>14. /\ cache' \in Caches
       /\ cache'[k][p] = e
       /\ \A j \in Stores, s \in Procs : j # k \/ s # p => cache'[j][s] = cache[j][s]
  <2>1. PICK c : c = [cache[k] EXCEPT ![p] = e]
    OBVIOUS
  <2>2. /\ c \in [Procs -> SessionEntry \cup PrivilegeEntry] /\ c[p] = e
        /\ \A s \in Procs : s # p => c[s] = cache[k][s]
    BY <1>1, <1>13, <2>1 DEF GuardsTyped, Caches, Stores
  <2>3. cache' = [cache EXCEPT ![k] = c]
    BY <1>5, <1>12, <2>1
  <2>4. QED
    BY <1>1, <2>2, <2>3 DEF GuardsTyped, Caches
<1>15. \A s \in Procs :
          /\ cache'["session"][s] = cache["session"][s] \/ (k = "session" /\ cache'["session"][s] = e)
          /\ cache'["privilege"][s] = cache["privilege"][s] \/ (k = "privilege" /\ cache'["privilege"][s] = e)
  <2>1. "session" \in Stores /\ "privilege" \in Stores /\ "session" # "privilege"
    BY DEF Stores
  <2>2. ASSUME NEW j \in Stores, NEW s \in Procs
        PROVE  cache'[j][s] = cache[j][s] \/ (k = j /\ cache'[j][s] = e)
    BY <1>14
  <2>3. QED
    BY <2>1, <2>2
<1>16. GuardsTyped'
  BY <1>1, <1>5, <1>11, <1>13, <1>14, <1>15 DEF GuardsTyped
<1>17. SessionDated'
  <2>1. CacheTtl <= CacheTtl /\ 0 + CacheTtl <= CacheTtl
    BY GuardsSizes
  <2>2. QED
    BY <1>5, <1>7, <1>13, <1>15, <2>1 DEF GuardsInv, SessionDated
<1>18. PrivilegeDated'
  <2>1. 0 + CacheTtl <= CacheTtl
    BY GuardsSizes
  <2>2. QED
    BY <1>5, <1>8, <1>13, <1>15, <2>1 DEF GuardsInv, PrivilegeDated
<1>19. SessionRead' /\ PrivilegeRead'
  BY <1>5, <1>11, GuardsShapes DEF GuardsInv, SessionRead, PrivilegeRead
<1>20. QED
  BY <1>16, <1>17, <1>18, <1>19 DEF GuardsInv

\* The version goes up: the clock of the one it supersedes starts.
LEMMA GuardsBump ==
    ASSUME GuardsInv, NEW p \in Anywhere, user.sv < MaxSv, user' = Bumped(user),
           Invalidate("session", p),
           Superseded, signed' = signed,
           rq' = rq \/ \E r \in Reqs : rq' = [rq EXCEPT ![r] = Idle]
    PROVE  GuardsInv'
<1>1. user \in User /\ since \in [Sv -> Ages] /\ GuardsTyped /\ rq \in [Reqs -> GuardsRequest]
  BY DEF GuardsInv, GuardsTyped
<1>2. /\ user' \in User /\ user'.sv = user.sv + 1 /\ user'.active = user.active
      /\ user'.granted = user.granted
  BY <1>1, GuardsSizes DEF Bumped, User, Sv
<1>3. lapse' = lapse /\ since' = [since EXCEPT ![user.sv] = 0] /\ user.sv \in Sv
  BY <1>1 DEF Superseded, User
<1>4. since' \in [Sv -> Ages] /\ since'[user.sv] = 0 /\ \A v \in Sv : v # user.sv => since'[v] = since[v]
  BY <1>1, <1>3, GuardsSizes DEF Ages
<1>5. cache' \in Caches /\ \A j \in Stores, q \in Procs : cache'[j][q] \in {cache[j][q], NoEntry}
  BY <1>1, Invalidated DEF Stores
<1>6. \A s \in Procs : /\ cache'["session"][s] \in {cache["session"][s], NoEntry}
                       /\ cache'["privilege"][s] \in {cache["privilege"][s], NoEntry}
  BY <1>5 DEF Stores
<1>7. rq' \in [Reqs -> GuardsRequest] /\ \A s \in Reqs : rq'[s] \in {rq[s], Idle}
  BY <1>1 DEF GuardsRequest, GuardsQuiet
<1>8. GuardsTyped'
  BY <1>1, <1>2, <1>3, <1>4, <1>5, <1>6, <1>7, EntryShapes DEF GuardsTyped
<1>9. SessionDated'
  <2>1. SUFFICES ASSUME NEW s \in Procs, cache'["session"][s].left > 0
                 PROVE  /\ cache'["session"][s].info.sv <= user.sv
                        /\ since'[cache'["session"][s].info.sv] + cache'["session"][s].left <= CacheTtl
    BY <1>1, <1>2, <1>6, EntryShapes, GuardsSizes
       DEF SessionDated, GuardsTyped, SessionKept, User, Sv
  <2>2. cache'["session"][s] = cache["session"][s] /\ cache["session"][s].left > 0
    BY <1>6, <2>1, EntryShapes, GuardsSizes
  <2>3. PICK n, l : n = cache["session"][s].info.sv /\ l = cache["session"][s].left
    OBVIOUS
  <2>4. n \in Sv /\ l \in 0 .. CacheTtl
    BY <1>1, <2>2, <2>3, EntryShapes DEF GuardsTyped, SessionKept
  <2>5. n <= user.sv /\ (n # user.sv => since[n] + l <= CacheTtl)
    BY <2>2, <2>3 DEF GuardsInv, SessionDated
  <2>6. since'[n] + l <= CacheTtl
    BY <1>4, <2>4, <2>5, GuardsSizes
  <2>7. QED
    BY <2>2, <2>3, <2>5, <2>6
<1>10. PrivilegeDated'
  BY <1>2, <1>3, <1>6, EntryShapes DEF GuardsInv, PrivilegeDated
<1>11. SessionRead'
  <2>1. SUFFICES ASSUME NEW s \in Reqs, rq'[s] \in MissedSession
                 PROVE  rq'[s].info.sv <= user.sv /\ since'[rq'[s].info.sv] = 0
    BY <1>1, <1>2, GuardsShapes, GuardsSizes DEF SessionRead, SessionKept, User, Sv
  <2>2. rq'[s] = rq[s] /\ rq[s].info.sv \in Sv
    BY <1>7, <2>1, GuardsShapes DEF GuardsQuiet, SessionKept
  <2>3. QED
    BY <1>4, <2>1, <2>2 DEF GuardsInv, SessionRead
<1>12. PrivilegeRead'
  BY <1>2, <1>3, <1>7, GuardsShapes DEF GuardsInv, PrivilegeRead, GuardsQuiet
<1>13. QED
  BY <1>8, <1>9, <1>10, <1>11, <1>12 DEF GuardsInv

LEMMA GuardsDeactivate == ASSUME GuardsInv, NEW r \in Reqs, NEW p \in Anywhere, Deactivate(r, p) PROVE GuardsInv'
<1>1. /\ user \in User /\ GuardsTyped /\ rq \in [Reqs -> GuardsRequest]
      /\ lapse \in [active : Ages, granted : Ages]
  BY DEF GuardsInv, GuardsTyped
<1>2. UNCHANGED <<cache, signed, since>>
  BY DEF Deactivate
<1>3. user' \in User /\ user'.sv = user.sv /\ user'.active = FALSE /\ user'.granted = user.granted
  BY <1>1 DEF Deactivate, User
<1>4. /\ lapse' \in [active : Ages, granted : Ages] /\ lapse'.active = 0
      /\ lapse'.granted = lapse.granted
  BY <1>1, GuardsSizes DEF Deactivate, Ages
<1>5. PICK q : q = [op |-> "kill", pc |-> "bump", proc |-> p] /\ rq' = [rq EXCEPT ![r] = q]
  BY DEF Deactivate, Begin
<1>6. q \in GuardsQuiet
  BY <1>5 DEF Killing, GuardsQuiet
<1>7. rq' \in [Reqs -> GuardsRequest] /\ \A s \in Reqs : rq'[s] \in {rq[s], q}
  BY <1>1, <1>5, <1>6 DEF GuardsRequest
<1>8. GuardsTyped'
  BY <1>1, <1>2, <1>3, <1>4, <1>7 DEF GuardsTyped
<1>9. SessionDated'
  <2>1. SUFFICES ASSUME NEW s \in Procs, cache["session"][s].left > 0
                 PROVE  /\ cache["session"][s].info.sv <= user.sv
                        /\ cache["session"][s].info.sv # user.sv =>
                              since[cache["session"][s].info.sv] + cache["session"][s].left <= CacheTtl
                        /\ 0 + cache["session"][s].left <= CacheTtl
    BY <1>2, <1>3, <1>4 DEF SessionDated
  <2>2. cache["session"][s].left \in 0 .. CacheTtl
    BY <1>1, EntryShapes DEF GuardsTyped
  <2>3. QED
    BY <2>1, <2>2, GuardsSizes DEF GuardsInv, SessionDated
<1>10. PrivilegeDated'
  BY <1>2, <1>3, <1>4 DEF GuardsInv, PrivilegeDated
<1>11. SessionRead' /\ PrivilegeRead'
  BY <1>2, <1>3, <1>4, <1>6, <1>7, GuardsShapes DEF GuardsInv, SessionRead, PrivilegeRead
<1>12. QED
  BY <1>8, <1>9, <1>10, <1>11 DEF GuardsInv

\* The privilege is taken, or the user is restored; the version stays.
LEMMA GuardsRevoke ==
    ASSUME GuardsInv, NEW p \in Anywhere, Revoke(p) \/ Restore(p)
    PROVE  GuardsInv'
<1>1. user \in User /\ GuardsTyped /\ lapse \in [active : Ages, granted : Ages]
  BY DEF GuardsInv, GuardsTyped
<1>2. UNCHANGED <<signed, since, rq>>
  BY DEF Revoke, Restore
<1>3. /\ user' \in User /\ user'.sv = user.sv
      /\ (user'.active = TRUE \/ (user'.active = user.active /\ lapse'.active = lapse.active))
  <2>1. CASE Revoke(p)
    <3>1. user' = [user EXCEPT !.granted = FALSE] /\ lapse' = [lapse EXCEPT !.granted = 0]
      BY <2>1 DEF Revoke
    <3>2. lapse'.active = lapse.active
      BY <1>1, <3>1
    <3>3. user' \in User /\ user'.sv = user.sv /\ user'.active = user.active
      BY <1>1, <3>1 DEF User
    <3>4. QED
      BY <3>2, <3>3
  <2>2. CASE Restore(p)
    <3>1. user' = [user EXCEPT !.active = TRUE, !.granted = TRUE]
      BY <2>2 DEF Restore
    <3>2. user' \in User /\ user'.sv = user.sv
      BY <1>1, <3>1 DEF User
    <3>3. user'.active = TRUE
      BY <1>1, <3>1 DEF User
    <3>4. QED
      BY <3>2, <3>3
  <2>3. QED
    BY <2>1, <2>2
<1>4. lapse' \in [active : Ages, granted : Ages]
  BY <1>1, GuardsSizes DEF Revoke, Restore, Ages
<1>5. user'.granted = TRUE \/ lapse'.granted = 0
  BY <1>1 DEF Revoke, Restore, User
<1>6. cache' \in Caches /\ \A j \in Stores, q \in Procs : cache'[j][q] \in {cache[j][q], NoEntry}
  <2>1. CASE Invalidate("privilege", p)
    BY <1>1, <2>1, Invalidated DEF Stores
  <2>2. CASE cache' = cache
    BY <1>1, <2>2 DEF GuardsTyped
  <2>3. QED
    BY <2>1, <2>2 DEF Revoke, Restore
<1>7. \A s \in Procs : /\ cache'["session"][s] \in {cache["session"][s], NoEntry}
                       /\ cache'["privilege"][s] \in {cache["privilege"][s], NoEntry}
  BY <1>6 DEF Stores
<1>8. GuardsTyped'
  BY <1>1, <1>2, <1>3, <1>4, <1>6, <1>7, EntryShapes DEF GuardsTyped
<1>9. SessionDated'
  BY <1>2, <1>3, <1>7, EntryShapes DEF GuardsInv, SessionDated
<1>10. PrivilegeDated'
  <2>1. \A s \in Procs : 0 + cache'["privilege"][s].left <= CacheTtl
    BY <1>1, <1>7, EntryShapes, GuardsSizes DEF GuardsTyped
  <2>2. QED
    BY <1>5, <2>1 DEF PrivilegeDated
<1>11. SessionRead' /\ PrivilegeRead'
  BY <1>2, <1>3, <1>5 DEF GuardsInv, SessionRead, PrivilegeRead
<1>12. QED
  BY <1>8, <1>9, <1>10, <1>11 DEF GuardsInv

LEMMA GuardsTick == ASSUME GuardsInv, CacheTick PROVE GuardsInv'
<1>1. /\ user \in User /\ GuardsTyped /\ lapse \in [active : Ages, granted : Ages]
      /\ since \in [Sv -> Ages]
  BY DEF GuardsInv, GuardsTyped
<1>2. UNCHANGED <<user, signed, rq>> /\ \A r \in Reqs : rq[r].op = "idle"
  BY DEF CacheTick
<1>3. \A r \in Reqs : rq[r] \notin MissedSession /\ rq[r] \notin MissedPrivilege
  BY <1>2, GuardsShapes
<1>4. \A n \in Ages : Older(n) \in Ages /\ Older(n) <= n + 1
  BY GuardsSizes DEF Ages, Older
<1>5. since' = [sv \in Sv |-> IF sv < user.sv THEN Older(since[sv]) ELSE 0]
  BY DEF CacheTick
<1>6. since' \in [Sv -> Ages] /\ \A v \in Sv : since'[v] <= since[v] + 1
  BY <1>1, <1>4, <1>5, GuardsSizes DEF Ages
<1>7. lapse' = [active |-> IF user.active THEN 0 ELSE Older(lapse.active),
                granted |-> IF user.granted THEN 0 ELSE Older(lapse.granted)]
  BY DEF CacheTick
<1>8. /\ lapse' \in [active : Ages, granted : Ages] /\ lapse'.active <= lapse.active + 1
      /\ lapse'.granted <= lapse.granted + 1
  <2>1. 0 \in Ages /\ \A n \in Ages : 0 <= n + 1
    BY GuardsSizes DEF Ages
  <2>2. QED
    BY <1>1, <1>4, <1>7, <2>1
<1>9. cache' = [k \in Stores |-> [p \in Procs |->
          IF cache[k][p].left > 1 THEN [cache[k][p] EXCEPT !.left = @ - 1] ELSE NoEntry]]
  BY DEF CacheTick
<1>10. \A p \in Procs :
          /\ cache["session"][p] \in SessionEntry /\ cache["privilege"][p] \in PrivilegeEntry
          /\ cache'["session"][p] =
                IF cache["session"][p].left > 1 THEN [cache["session"][p] EXCEPT !.left = @ - 1] ELSE NoEntry
          /\ cache'["privilege"][p] =
                IF cache["privilege"][p].left > 1 THEN [cache["privilege"][p] EXCEPT !.left = @ - 1] ELSE NoEntry
  BY <1>1, <1>9 DEF GuardsTyped, Stores
<1>11. \A e \in SessionEntry : e.left > 1 =>
          /\ [e EXCEPT !.left = @ - 1] \in SessionEntry
          /\ [e EXCEPT !.left = @ - 1].left = e.left - 1
          /\ [e EXCEPT !.left = @ - 1].info = e.info
  BY GuardsSizes DEF SessionEntry, NoEntry
<1>12. \A e \in PrivilegeEntry : e.left > 1 =>
          /\ [e EXCEPT !.left = @ - 1] \in PrivilegeEntry
          /\ [e EXCEPT !.left = @ - 1].left = e.left - 1
          /\ [e EXCEPT !.left = @ - 1].info = e.info
  BY GuardsSizes DEF PrivilegeEntry, NoEntry
<1>13. \A p \in Procs :
          /\ cache'["session"][p] \in SessionEntry /\ cache'["privilege"][p] \in PrivilegeEntry
          /\ cache'["session"][p].left > 0 =>
                /\ cache["session"][p].left > 1
                /\ cache'["session"][p].left = cache["session"][p].left - 1
                /\ cache'["session"][p].info = cache["session"][p].info
          /\ cache'["privilege"][p].left > 0 =>
                /\ cache["privilege"][p].left > 1
                /\ cache'["privilege"][p].left = cache["privilege"][p].left - 1
                /\ cache'["privilege"][p].info = cache["privilege"][p].info
  <2>1. ASSUME NEW p \in Procs
        PROVE  /\ cache'["session"][p] \in SessionEntry
               /\ cache'["session"][p].left > 0 =>
                     /\ cache["session"][p].left > 1
                     /\ cache'["session"][p].left = cache["session"][p].left - 1
                     /\ cache'["session"][p].info = cache["session"][p].info
    <3>1. PICK e : e = cache["session"][p]
      OBVIOUS
    <3>2. /\ e \in SessionEntry
          /\ cache'["session"][p] = IF e.left > 1 THEN [e EXCEPT !.left = @ - 1] ELSE NoEntry
      BY <1>10, <3>1
    <3>3. QED
      BY <1>11, <3>1, <3>2, EntryShapes
  <2>2. ASSUME NEW p \in Procs
        PROVE  /\ cache'["privilege"][p] \in PrivilegeEntry
               /\ cache'["privilege"][p].left > 0 =>
                     /\ cache["privilege"][p].left > 1
                     /\ cache'["privilege"][p].left = cache["privilege"][p].left - 1
                     /\ cache'["privilege"][p].info = cache["privilege"][p].info
    <3>1. PICK e : e = cache["privilege"][p]
      OBVIOUS
    <3>2. /\ e \in PrivilegeEntry
          /\ cache'["privilege"][p] = IF e.left > 1 THEN [e EXCEPT !.left = @ - 1] ELSE NoEntry
      BY <1>10, <3>1
    <3>3. QED
      BY <1>12, <3>1, <3>2, EntryShapes
  <2>3. QED
    BY <2>1, <2>2
<1>14. cache' \in Caches
  BY <1>9, <1>13 DEF Caches, Stores
<1>15. GuardsTyped'
  BY <1>1, <1>2, <1>6, <1>8, <1>13, <1>14 DEF GuardsTyped
<1>16. SessionDated'
  <2>1. SUFFICES ASSUME NEW p \in Procs, cache'["session"][p].left > 0
                 PROVE  /\ cache["session"][p].info.sv <= user.sv
                        /\ cache["session"][p].info.sv # user.sv =>
                              since'[cache["session"][p].info.sv] + (cache["session"][p].left - 1) <= CacheTtl
                        /\ user.active = FALSE =>
                              \/ cache["session"][p].info.sv # user.sv
                              \/ cache["session"][p].info.active = FALSE
                              \/ lapse'.active + (cache["session"][p].left - 1) <= CacheTtl
    BY <1>2, <1>13 DEF SessionDated
  <2>2. PICK n, l : n = cache["session"][p].info.sv /\ l = cache["session"][p].left
    OBVIOUS
  <2>3. n \in Sv /\ l \in 0 .. CacheTtl /\ l > 1 /\ l > 0
    <3>1. l \in 0 .. CacheTtl /\ l > 1
      BY <1>10, <1>13, <2>1, <2>2, EntryShapes
    <3>2. l > 0
      BY <3>1, GuardsSizes
    <3>3. QED
      BY <1>10, <2>2, <3>1, <3>2, EntryShapes DEF SessionKept
  <2>4. /\ n <= user.sv
        /\ n # user.sv => since[n] + l <= CacheTtl
        /\ user.active = FALSE =>
              n # user.sv \/ cache["session"][p].info.active = FALSE \/ lapse.active + l <= CacheTtl
    BY <2>2, <2>3 DEF GuardsInv, SessionDated
  <2>5. /\ since[n] \in Nat /\ since'[n] \in Nat /\ since'[n] <= since[n] + 1
        /\ lapse.active \in Nat /\ lapse'.active \in Nat /\ lapse'.active <= lapse.active + 1
    BY <1>1, <1>6, <1>8, <2>3, GuardsSizes DEF Ages
  <2>6. /\ n # user.sv => since'[n] + (l - 1) <= CacheTtl
        /\ user.active = FALSE =>
              n # user.sv \/ cache["session"][p].info.active = FALSE \/ lapse'.active + (l - 1) <= CacheTtl
    BY <2>3, <2>4, <2>5, GuardsSizes
  <2>7. QED
    BY <2>2, <2>4, <2>6
<1>17. PrivilegeDated'
  <2>1. SUFFICES ASSUME NEW p \in Procs, cache'["privilege"][p].left > 0
                 PROVE  \/ user.granted = TRUE \/ cache["privilege"][p].info.granted = FALSE
                        \/ lapse'.granted + (cache["privilege"][p].left - 1) <= CacheTtl
    BY <1>2, <1>13 DEF PrivilegeDated
  <2>2. PICK l : l = cache["privilege"][p].left
    OBVIOUS
  <2>3. l \in 0 .. CacheTtl /\ l > 1 /\ l > 0
    <3>1. l \in 0 .. CacheTtl /\ l > 1
      BY <1>10, <1>13, <2>1, <2>2, EntryShapes
    <3>2. QED
      BY <3>1, GuardsSizes
  <2>4. user.granted = TRUE \/ cache["privilege"][p].info.granted = FALSE \/ lapse.granted + l <= CacheTtl
    BY <2>2, <2>3 DEF GuardsInv, PrivilegeDated
  <2>5. lapse.granted \in Nat /\ lapse'.granted \in Nat /\ lapse'.granted <= lapse.granted + 1
    BY <1>1, <1>8, GuardsSizes DEF Ages
  <2>6. lapse.granted + l <= CacheTtl => lapse'.granted + (l - 1) <= CacheTtl
    BY <2>3, <2>5, GuardsSizes
  <2>7. QED
    BY <2>2, <2>4, <2>6
<1>18. SessionRead' /\ PrivilegeRead'
  BY <1>2, <1>3 DEF SessionRead, PrivilegeRead
<1>19. QED
  BY <1>15, <1>16, <1>17, <1>18 DEF GuardsInv

LEMMA GuardsStep == ASSUME GuardsInv, [GuardsNext]_guardVars PROVE GuardsInv'
<1>1. /\ rq \in [Reqs -> GuardsRequest] /\ cache \in Caches /\ signed \subseteq Sv
      /\ user \in User /\ GuardsTyped
  BY DEF GuardsInv, GuardsTyped
<1>2. Idle \in GuardsQuiet
  BY DEF GuardsQuiet
<1>3. ASSUME NEW r \in Reqs, NEW p \in Procs, NEW sv \in Sv, Arrive(r, p, sv) PROVE GuardsInv'
  <2>1. PICK op \in {"act", "renew"}, q \in {[op |-> o, pc |-> "session", proc |-> p, sv |-> sv, late |-> 0] : o \in {"act", "renew"}} :
           q = [op |-> op, pc |-> "session", proc |-> p, sv |-> sv, late |-> 0] /\ rq' = [rq EXCEPT ![r] = q]
    BY <1>3 DEF Arrive, Begin
  <2>2. q \in GuardsQuiet
    BY <2>1, GuardsSizes DEF Guarded, GuardsQuiet
  <2>3. QED
    BY <1>1, <1>3, <2>1, <2>2, GuardsQuietly DEF Arrive, clocks
<1>4. ASSUME NEW r \in Reqs, NEW p \in Procs, PanelLogin(r, p) PROVE GuardsInv'
  <2>1. PICK q : q = [op |-> "login", pc |-> "sign", proc |-> p, sv |-> user.sv, late |-> 0] /\ rq' = [rq EXCEPT ![r] = q]
    BY <1>4 DEF PanelLogin, Begin
  <2>2. q \in GuardsQuiet
    BY <1>1, <2>1 DEF Signing, GuardsQuiet, User
  <2>3. QED
    BY <1>1, <1>4, <2>1, <2>2, GuardsQuietly DEF PanelLogin, clocks
<1>5. ASSUME NEW r \in Reqs, NEW p \in Anywhere, Deactivate(r, p) PROVE GuardsInv'
  BY <1>5, GuardsDeactivate
<1>6. ASSUME NEW r \in Reqs, NEW k \in Stores, Hit(r, k) \/ Miss(r, k) PROVE GuardsInv'
  BY <1>6, GuardsHit, GuardsMiss
<1>7. ASSUME NEW r \in Reqs, StoreEntry(r) PROVE GuardsInv'
  BY <1>7, GuardsStore
<1>8. ASSUME NEW r \in Reqs, PanelSign(r) PROVE GuardsInv'
  <2>1. rq[r] \in Signing
    BY <1>1, <1>8, GuardsShapes DEF PanelSign, At, GuardsRequest, GuardsQuiet
  <2>2. rq[r].proc \in Anywhere /\ rq[r].sv \in Sv
    BY <2>1, GuardsShapes DEF Anywhere
  <2>3. PICK p \in Anywhere : p = rq[r].proc
    BY <2>2
  <2>4. Invalidate("session", p)
    BY <1>8, <2>3 DEF PanelSign
  <2>5. cache' \in Caches /\ \A j \in Stores, q \in Procs : cache'[j][q] \in {cache[j][q], NoEntry}
    BY <1>1, <2>4, Invalidated DEF Stores
  <2>6. signed' \subseteq Sv /\ UNCHANGED <<user, since, lapse>> /\ rq' = [rq EXCEPT ![r] = Idle]
    BY <1>1, <1>8, <2>2 DEF PanelSign, clocks, Finish
  <2>7. QED
    BY <1>2, <2>5, <2>6, GuardsQuietly
<1>9. ASSUME NEW r \in Reqs, Renew(r) PROVE GuardsInv'
  <2>1. signed' \subseteq Sv
    BY <1>1, <1>9 DEF Renew, User
  <2>2. UNCHANGED <<user, cache, since, lapse>> /\ rq' = [rq EXCEPT ![r] = Idle]
    BY <1>9 DEF Renew, clocks, Finish
  <2>3. QED
    BY <1>1, <1>2, <2>1, <2>2, GuardsQuietly
<1>10. ASSUME NEW r \in Reqs,
              Act(r) \/ (GivesUp(r) /\ UNCHANGED <<user, cache, signed, clocks>>)
       PROVE  GuardsInv'
  <2>1. UNCHANGED <<user, cache, signed, since, lapse>> /\ rq' = [rq EXCEPT ![r] = Idle]
    BY <1>10 DEF Act, GivesUp, clocks, Finish
  <2>2. QED
    BY <1>1, <1>2, <2>1, GuardsQuietly
<1>11. ASSUME NEW r \in Reqs, BumpSessionVersion(r) PROVE GuardsInv'
  <2>1. rq[r] \in Killing
    BY <1>1, <1>11, GuardsShapes DEF BumpSessionVersion, At, GuardsRequest, GuardsQuiet
  <2>2. PICK p \in Anywhere : p = rq[r].proc
    BY <2>1, GuardsShapes
  <2>3. /\ Invalidate("session", p) /\ user.sv < MaxSv /\ user' = Bumped(user) /\ Superseded
        /\ signed' = signed
    BY <1>11, <2>2 DEF BumpSessionVersion
  <2>4. rq' = [rq EXCEPT ![r] = Idle]
    BY <1>11 DEF BumpSessionVersion, Finish
  <2>5. QED
    BY <2>3, <2>4, GuardsBump
<1>12. ASSUME NEW p \in Anywhere, ChangePassword(p) PROVE GuardsInv'
  BY <1>12, GuardsBump DEF ChangePassword
<1>13. ASSUME NEW p \in Anywhere, Revoke(p) \/ Restore(p) PROVE GuardsInv'
  BY <1>13, GuardsRevoke
<1>14. ASSUME CacheTick PROVE GuardsInv'
  BY <1>14, GuardsTick
<1>15. ASSUME UNCHANGED guardVars PROVE GuardsInv'
  BY <1>15
     DEF guardVars, GuardsInv, GuardsTyped, SessionDated, PrivilegeDated, SessionRead,
         PrivilegeRead
<1>16. ASSUME GuardsNext PROVE GuardsInv'
  <2>1. CASE \E r \in Reqs :
               \/ \E p \in Procs : (\E sv \in Sv : Arrive(r, p, sv)) \/ PanelLogin(r, p)
               \/ \E p \in Anywhere : Deactivate(r, p)
               \/ \E k \in Stores : Hit(r, k) \/ Miss(r, k)
               \/ StoreEntry(r) \/ PanelSign(r) \/ Renew(r) \/ Act(r) \/ BumpSessionVersion(r)
               \/ GivesUp(r) /\ UNCHANGED <<user, cache, signed, clocks>>
    <3>1. PICK r \in Reqs :
             \/ \E p \in Procs : (\E sv \in Sv : Arrive(r, p, sv)) \/ PanelLogin(r, p)
             \/ \E p \in Anywhere : Deactivate(r, p)
             \/ \E k \in Stores : Hit(r, k) \/ Miss(r, k)
             \/ StoreEntry(r) \/ PanelSign(r) \/ Renew(r) \/ Act(r) \/ BumpSessionVersion(r)
             \/ GivesUp(r) /\ UNCHANGED <<user, cache, signed, clocks>>
      BY <2>1
    <3>2. CASE \E p \in Procs : (\E sv \in Sv : Arrive(r, p, sv)) \/ PanelLogin(r, p)
      BY <1>3, <1>4, <3>2
    <3>3. CASE \E p \in Anywhere : Deactivate(r, p)
      BY <1>5, <3>3
    <3>4. CASE \E k \in Stores : Hit(r, k) \/ Miss(r, k)
      BY <1>6, <3>4
    <3>5. CASE StoreEntry(r) \/ PanelSign(r) \/ Renew(r) \/ BumpSessionVersion(r)
      BY <1>7, <1>8, <1>9, <1>11, <3>5
    <3>6. CASE Act(r) \/ (GivesUp(r) /\ UNCHANGED <<user, cache, signed, clocks>>)
      BY <1>10, <3>6
    <3>7. QED
      BY <3>1, <3>2, <3>3, <3>4, <3>5, <3>6
  <2>2. CASE \E p \in Anywhere : ChangePassword(p) \/ Revoke(p) \/ Restore(p)
    BY <1>12, <1>13, <2>2
  <2>3. CASE CacheTick
    BY <1>14, <2>3
  <2>4. QED
    BY <1>16, <2>1, <2>2, <2>3, Zenon DEF GuardsNext
<1>17. QED
  BY <1>15, <1>16

\* Whatever lookups, invalidations and requests overlap in any number of processes, a session,
\* an account or a privilege that was revoked lets nobody in after the life of a cache entry
\* (authMiddleware, requirePrivilege).
THEOREM KilledWithinTtl == GuardsSpec => [](GuardsTypeOK /\ LetInWithinTtl)
<1>1. GuardsInit => GuardsInv
  BY GuardsStart
<1>2. GuardsInv /\ [GuardsNext]_guardVars => GuardsInv'
  BY GuardsStep
<1>3. GuardsInv => GuardsTypeOK /\ LetInWithinTtl
  BY GuardsMeans
<1>4. QED
  BY <1>1, <1>2, <1>3, PTL DEF GuardsSpec

----------------------------------------------------------------------------
(* PanelUsers: the last who may grant                                      *)

\* A request about to write neither deletes its own author nor empties the author's access,
\* so that the author, while still one who may grant, is left or has resigned.

\* What a slot holds between a check and its write.
Updating == [op : {"update"}, pc : {"write"}, actor : Users, user : Users, active : BOOLEAN]
Deleting == {q \in [op : {"delete"}, pc : {"write"}, actor : Users, user : Users] : q.actor # q.user}
GrantingAccess ==
    {q \in [op : {"sync"}, pc : {"write"}, actor : Users, user : Users, screen : Screens, grant : SUBSET {"VIEW", "UPDATE", "DELETE"}] :
        q.grant \subseteq Catalog[q.screen] /\ (q.actor = q.user => "VIEW" \in q.grant)}
UsersRequest == {Idle} \cup Updating \cup Deleting \cup GrantingAccess

UsersInv == UsersTypeOK /\ rq \in [Reqs -> UsersRequest]

LEMMA CatalogShape ==
    /\ Catalog["users"] = {"VIEW", "UPDATE", "DELETE"}
    /\ Catalog["user_privileges"] = {"VIEW", "UPDATE"}
    /\ Catalog.users = {"VIEW", "UPDATE", "DELETE"}
    /\ Catalog.user_privileges = {"VIEW", "UPDATE"}
BY DEF Catalog

LEMMA UsersShapes ==
    /\ \A q \in Updating : q.op = "update" /\ q.pc = "write" /\ q.user \in Users /\ q.active \in BOOLEAN
    /\ \A q \in Deleting : q.op = "delete" /\ q.pc = "write" /\ q.user \in Users /\ q.actor # q.user
    /\ \A q \in GrantingAccess : /\ q.op = "sync" /\ q.pc = "write" /\ q.user \in Users /\ q.screen \in Screens
                           /\ q.grant \subseteq Catalog[q.screen]
                           /\ (q.actor = q.user => "VIEW" \in q.grant)
    /\ Idle.op = "idle"
BY DEF Updating, Deleting, GrantingAccess, Idle

LEMMA UsersStart == ASSUME UsersInit PROVE UsersInv
<1>1. rq \in [Reqs -> UsersRequest]
  BY DEF UsersInit, HandlersInit, UsersRequest
<1>2. /\ NoUser \in UserRow
      /\ [NoUser EXCEPT !.state = "present", !.active = TRUE, !.users = Catalog.users,
                        !.user_privileges = Catalog.user_privileges] \in UserRow
  BY DEF NoUser, UserRow
<1>3. staff \in [Users -> UserRow]
  BY <1>2 DEF UsersInit
<1>4. QED
  BY <1>1, <1>3 DEF UsersInv, UsersTypeOK

\* The writes.
LEMMA UsersWrite ==
    ASSUME UsersInv, NEW r \in Reqs
    PROVE  /\ UpdateUser(r) => /\ rq[r] \in Updating /\ staff' \in [Users -> UserRow]
                               /\ \A u \in Users : u # rq[r].user => staff'[u] = staff[u]
           /\ SoftDeleteUser(r) => /\ rq[r] \in Deleting /\ staff' \in [Users -> UserRow]
                                   /\ \A u \in Users : u # rq[r].user => staff'[u] = staff[u]
           /\ SyncUserPrivileges(r) =>
                 /\ rq[r] \in GrantingAccess /\ staff' \in [Users -> UserRow]
                 /\ \A u \in Users : u # rq[r].user => staff'[u] = staff[u]
                 /\ \A u \in Users, s \in Screens :
                       /\ staff'[u].state = staff[u].state /\ staff'[u].active = staff[u].active
                       /\ staff'[u][s] = IF u = rq[r].user /\ s = rq[r].screen THEN rq[r].grant ELSE staff[u][s]
<1>1. staff \in [Users -> UserRow] /\ rq[r] \in UsersRequest
  BY DEF UsersInv, UsersTypeOK
<1>2. ASSUME UpdateUser(r)
      PROVE  /\ rq[r] \in Updating /\ staff' \in [Users -> UserRow]
             /\ \A u \in Users : u # rq[r].user => staff'[u] = staff[u]
  <2>1. rq[r] \in Updating
    BY <1>1, <1>2, UsersShapes DEF UpdateUser, At, UsersRequest
  <2>2. PICK u \in Users, a \in BOOLEAN : u = rq[r].user /\ a = rq[r].active
    BY <2>1, UsersShapes
  <2>3. PICK row : row = [staff[u] EXCEPT !.active = a]
    OBVIOUS
  <2>4. row \in UserRow
    BY <1>1, <2>3 DEF UserRow
  <2>5. staff' = [staff EXCEPT ![u] = row]
    BY <1>2, <2>2, <2>3 DEF UpdateUser
  <2>6. QED
    BY <1>1, <2>1, <2>2, <2>4, <2>5
<1>3. ASSUME SoftDeleteUser(r)
      PROVE  /\ rq[r] \in Deleting /\ staff' \in [Users -> UserRow]
             /\ \A u \in Users : u # rq[r].user => staff'[u] = staff[u]
  <2>1. rq[r] \in Deleting
    BY <1>1, <1>3, UsersShapes DEF SoftDeleteUser, At, UsersRequest
  <2>2. PICK u \in Users : u = rq[r].user
    BY <2>1, UsersShapes
  <2>3. PICK row : row = [NoUser EXCEPT !.state = "deleted"]
    OBVIOUS
  <2>4. row \in UserRow
    BY <2>3 DEF UserRow, NoUser
  <2>5. staff' = [staff EXCEPT ![u] = row]
    BY <1>3, <2>2, <2>3 DEF SoftDeleteUser
  <2>6. QED
    BY <1>1, <2>1, <2>2, <2>4, <2>5
<1>4. ASSUME SyncUserPrivileges(r)
      PROVE  /\ rq[r] \in GrantingAccess /\ staff' \in [Users -> UserRow]
             /\ \A u \in Users : u # rq[r].user => staff'[u] = staff[u]
             /\ \A u \in Users, s \in Screens :
                   /\ staff'[u].state = staff[u].state /\ staff'[u].active = staff[u].active
                   /\ staff'[u][s] = IF u = rq[r].user /\ s = rq[r].screen THEN rq[r].grant ELSE staff[u][s]
  <2>1. rq[r] \in GrantingAccess
    BY <1>1, <1>4, UsersShapes DEF SyncUserPrivileges, At, UsersRequest
  <2>2. PICK u \in Users, s \in Screens, g \in SUBSET {"VIEW", "UPDATE", "DELETE"} :
           u = rq[r].user /\ s = rq[r].screen /\ g = rq[r].grant
    BY <2>1, UsersShapes DEF GrantingAccess
  <2>3. PICK row : row = [staff[u] EXCEPT ![s] = g]
    OBVIOUS
  <2>4. g \subseteq Catalog[s]
    BY <2>1, <2>2, UsersShapes
  <2>5. /\ row \in UserRow /\ row.state = staff[u].state /\ row.active = staff[u].active
        /\ \A z \in Screens : row[z] = IF z = s THEN g ELSE staff[u][z]
    <3>1. PICK old \in UserRow : old = staff[u]
      BY <1>1
    <3>2. CASE s = "users"
      <4>1. row = [old EXCEPT !.users = g] /\ g \subseteq Catalog.users
        BY <2>3, <2>4, <3>1, <3>2, CatalogShape
      <4>2. QED
        BY <3>1, <3>2, <4>1 DEF UserRow, Screens
    <3>3. CASE s = "user_privileges"
      <4>1. row = [old EXCEPT !.user_privileges = g] /\ g \subseteq Catalog.user_privileges
        BY <2>3, <2>4, <3>1, <3>3, CatalogShape
      <4>2. QED
        BY <3>1, <3>3, <4>1 DEF UserRow, Screens
    <3>4. QED
      BY <3>2, <3>3 DEF Screens
  <2>6. staff' = [staff EXCEPT ![u] = row]
    BY <1>4, <2>2, <2>3 DEF SyncUserPrivileges
  <2>7. QED
    BY <1>1, <2>1, <2>2, <2>5, <2>6
<1>5. QED
  BY <1>2, <1>3, <1>4

LEMMA UsersCreate ==
    ASSUME UsersInv, NEW actor \in Users, NEW u \in Users, CreateUser(actor, u)
    PROVE  /\ staff' \in [Users -> UserRow] /\ rq' = rq /\ staff[u].state = "none"
           /\ \A v \in Users : v # u => staff'[v] = staff[v]
<1>1. staff \in [Users -> UserRow]
  BY DEF UsersInv, UsersTypeOK
<1>2. PICK row : row = [staff[u] EXCEPT !.state = "present", !.active = TRUE]
  OBVIOUS
<1>3. row \in UserRow
  BY <1>1, <1>2 DEF UserRow
<1>4. staff' = [staff EXCEPT ![u] = row] /\ rq' = rq /\ staff[u].state = "none"
  BY <1>1, <1>2 DEF CreateUser
<1>5. QED
  BY <1>1, <1>3, <1>4

\* What a check lets through.
LEMMA UsersBegin ==
    ASSUME UsersInv, NEW r \in Reqs, NEW actor \in Users, NEW u \in Users
    PROVE  /\ \A active \in {"S", "N", "omitted"} :
                 UpdateUserBegin(r, actor, u, active) => staff' = staff /\ rq' \in [Reqs -> UsersRequest]
           /\ DeleteUserBegin(r, actor, u) => staff' = staff /\ rq' \in [Reqs -> UsersRequest]
           /\ \A screen \in Screens : \A privileges \in Asked(screen) :
                 SyncBegin(r, actor, u, screen, privileges) => staff' = staff /\ rq' \in [Reqs -> UsersRequest]
<1>1. staff \in [Users -> UserRow] /\ rq \in [Reqs -> UsersRequest]
  BY DEF UsersInv, UsersTypeOK
<1>2. ASSUME NEW active \in {"S", "N", "omitted"}, UpdateUserBegin(r, actor, u, active)
      PROVE  staff' = staff /\ rq' \in [Reqs -> UsersRequest]
  <2>1. PICK a \in BOOLEAN : a = IF active = "omitted" THEN staff[u].active ELSE active = "S"
    <3>1. staff[u].active \in BOOLEAN
      BY <1>1 DEF UserRow
    <3>2. QED
      BY <3>1
  <2>2. PICK q : q = [op |-> "update", pc |-> "write", actor |-> actor, user |-> u, active |-> a]
    OBVIOUS
  <2>3. q \in UsersRequest
    BY <2>1, <2>2 DEF Updating, UsersRequest
  <2>4. rq' = [rq EXCEPT ![r] = q] /\ staff' = staff
    BY <1>2, <2>1, <2>2 DEF UpdateUserBegin, Begin
  <2>5. QED
    BY <1>1, <2>3, <2>4
<1>3. ASSUME DeleteUserBegin(r, actor, u) PROVE staff' = staff /\ rq' \in [Reqs -> UsersRequest]
  <2>1. PICK q : q = [op |-> "delete", pc |-> "write", actor |-> actor, user |-> u]
    OBVIOUS
  <2>2. rq' = [rq EXCEPT ![r] = q] /\ staff' = staff /\ actor # u
    BY <1>3, <2>1 DEF DeleteUserBegin, Begin
  <2>3. q \in UsersRequest
    BY <2>1, <2>2 DEF Deleting, UsersRequest
  <2>4. QED
    BY <1>1, <2>2, <2>3
<1>4. ASSUME NEW screen \in Screens, NEW privileges \in Asked(screen),
             SyncBegin(r, actor, u, screen, privileges)
      PROVE  staff' = staff /\ rq' \in [Reqs -> UsersRequest]
  <2>1. PICK g : g = IF privileges = {} THEN {} ELSE privileges \cup {"VIEW"}
    OBVIOUS
  <2>2. PICK q : q = [op |-> "sync", pc |-> "write", actor |-> actor, user |-> u, screen |-> screen, grant |-> g]
    OBVIOUS
  <2>3. /\ rq' = [rq EXCEPT ![r] = q] /\ staff' = staff
        /\ privileges \subseteq Catalog[screen] /\ (actor = u => privileges # {})
    BY <1>4, <2>1, <2>2 DEF SyncBegin, Begin
  <2>4. /\ g \subseteq Catalog[screen] /\ g \subseteq {"VIEW", "UPDATE", "DELETE"}
        /\ (actor = u => "VIEW" \in g)
    BY <2>1, <2>3, CatalogShape DEF Screens
  <2>5. q \in UsersRequest
    BY <2>2, <2>4 DEF GrantingAccess, UsersRequest
  <2>6. QED
    BY <1>1, <2>3, <2>5
<1>5. QED
  BY <1>2, <1>3, <1>4

LEMMA UsersStep == ASSUME UsersInv, [UsersNext]_usersVars PROVE UsersInv'
<1>1. staff \in [Users -> UserRow] /\ rq \in [Reqs -> UsersRequest] /\ Idle \in UsersRequest
  BY DEF UsersInv, UsersTypeOK, UsersRequest
<1>2. ASSUME NEW actor \in Users, NEW u \in Users, CreateUser(actor, u) PROVE UsersInv'
  BY <1>1, <1>2, UsersCreate DEF UsersInv, UsersTypeOK
<1>3. ASSUME NEW r \in Reqs, UpdateUser(r) \/ SoftDeleteUser(r) \/ SyncUserPrivileges(r)
      PROVE  UsersInv'
  <2>1. staff' \in [Users -> UserRow]
    BY <1>3, UsersWrite
  <2>2. rq' = [rq EXCEPT ![r] = Idle]
    BY <1>3 DEF UpdateUser, SoftDeleteUser, SyncUserPrivileges, Finish
  <2>3. QED
    BY <1>1, <2>1, <2>2 DEF UsersInv, UsersTypeOK
<1>4. ASSUME NEW r \in Reqs, GivesUp(r), UNCHANGED staff PROVE UsersInv'
  BY <1>1, <1>4 DEF GivesUp, Finish, UsersInv, UsersTypeOK
<1>5. ASSUME NEW r \in Reqs, NEW actor \in Users, NEW u \in Users,
             \/ \E active \in {"S", "N", "omitted"} : UpdateUserBegin(r, actor, u, active)
             \/ DeleteUserBegin(r, actor, u)
             \/ \E screen \in Screens : \E privileges \in Asked(screen) : SyncBegin(r, actor, u, screen, privileges)
      PROVE  UsersInv'
  <2>1. staff' = staff /\ rq' \in [Reqs -> UsersRequest]
    BY <1>5, UsersBegin
  <2>2. QED
    BY <1>1, <2>1 DEF UsersInv, UsersTypeOK
<1>6. ASSUME UNCHANGED usersVars PROVE UsersInv'
  BY <1>6 DEF UsersInv, UsersTypeOK, usersVars
<1>7. QED
  BY <1>2, <1>3, <1>4, <1>5, <1>6 DEF UsersNext

\* Whose row stays as it is may still grant.
LEMMA StaysGrantor ==
    ASSUME NEW u \in Grantors, staff'[u] = staff[u]
    PROVE  u \in Grantors'
BY DEF Grantors, MayGrant, Can, Present

\* A request whose author still may grant, and does not resign, leaves somebody.
LEMMA GrantorStep ==
    ASSUME UsersInv, UsersNext, Grantors # {}, Grantors' = {}
    PROVE  \E r \in Reqs : /\ rq[r].op # "idle" /\ rq'[r].op = "idle"
                           /\ rq[r].actor \notin Grantors \/ Resigns(r)
<1>1. staff \in [Users -> UserRow] /\ rq \in [Reqs -> UsersRequest] /\ \A u \in Grantors : u \in Users
  BY DEF UsersInv, UsersTypeOK, Grantors
<1>2. staff' # staff
  <2>1. SUFFICES ASSUME staff' = staff PROVE FALSE
    OBVIOUS
  <2>2. \A u \in Grantors : u \in Grantors'
    BY <2>1, StaysGrantor
  <2>3. QED
    BY <2>2
<1>3. ~\E actor, u \in Users : CreateUser(actor, u)
  <2>1. SUFFICES ASSUME NEW actor \in Users, NEW u \in Users, CreateUser(actor, u) PROVE FALSE
    OBVIOUS
  <2>2. PICK a \in Grantors : TRUE
    OBVIOUS
  <2>3. a \in Users /\ staff[a].state = "present"
    BY DEF Grantors, MayGrant, Can, Present
  <2>4. staff'[a] = staff[a]
    BY <2>1, <2>3, UsersCreate
  <2>5. QED
    BY <2>4, StaysGrantor
<1>4. PICK r \in Reqs : UpdateUser(r) \/ SoftDeleteUser(r) \/ SyncUserPrivileges(r)
  BY <1>2, <1>3, UsersBegin DEF UsersNext
<1>5. rq'[r].op = "idle" /\ rq[r].op # "idle"
  BY <1>1, <1>4, UsersShapes DEF UpdateUser, SoftDeleteUser, SyncUserPrivileges, Finish, At
<1>6. SUFFICES ASSUME rq[r].actor \in Grantors PROVE Resigns(r)
  BY <1>5
<1>7. PICK a \in Grantors : a = rq[r].actor
  BY <1>6
<1>8. staff'[a] # staff[a]
  BY StaysGrantor
<1>9. rq[r].user = a
  BY <1>1, <1>4, <1>7, <1>8, UsersWrite
<1>10. CASE UpdateUser(r)
  <2>1. rq[r].op = "update" /\ staff' = [staff EXCEPT ![a].active = rq[r].active]
    BY <1>9, <1>10 DEF UpdateUser, At
  <2>2. staff[a].active /\ staff[a] \in UserRow
    BY <1>1 DEF Grantors, MayGrant, Can
  <2>3. ASSUME rq[r].active = TRUE PROVE FALSE
    BY <1>1, <1>8, <2>1, <2>2, <2>3 DEF UserRow
  <2>4. rq[r].active \in BOOLEAN
    BY <1>10, UsersWrite DEF Updating
  <2>5. ~rq[r].active
    BY <2>3, <2>4
  <2>6. QED
    BY <1>7, <1>9, <2>1, <2>5 DEF Resigns
<1>11. CASE SoftDeleteUser(r)
  BY <1>7, <1>9, <1>11, UsersWrite, UsersShapes
<1>12. CASE SyncUserPrivileges(r)
  <2>1. "VIEW" \in rq[r].grant /\ rq[r].op = "sync"
    BY <1>7, <1>9, <1>12, UsersWrite, UsersShapes
  <2>2. QED
    BY <1>7, <1>9, <2>1 DEF Resigns
<1>13. QED
  BY <1>4, <1>10, <1>11, <1>12

\* The panel loses the last who may grant in no other way than by resignation or by a request
\* whose author may not grant, or no longer may, for any number of users and requests
\* (updateUser, deleteUser, syncUserPrivileges).
THEOREM AccessStaysManaged == UsersSpec => LastGrantorGoes /\ []UsersTypeOK
<1>1. UsersInit => UsersInv
  BY UsersStart
<1>2. UsersInv /\ [UsersNext]_usersVars => UsersInv'
  BY UsersStep
<1>3. UsersInv => UsersTypeOK
  BY DEF UsersInv
<1>4. UsersInv /\ [UsersNext]_usersVars =>
         [(Grantors # {} /\ Grantors' = {})
            => \E r \in Reqs : /\ rq[r].op # "idle" /\ rq'[r].op = "idle"
                               /\ rq[r].actor \notin Grantors \/ Resigns(r)]_usersVars
  BY GrantorStep
<1>5. QED
  BY <1>1, <1>2, <1>3, <1>4, PTL DEF UsersSpec, LastGrantorGoes

=============================================================================
