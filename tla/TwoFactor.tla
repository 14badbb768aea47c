----------------------------- MODULE TwoFactor -----------------------------
(***************************************************************************)
(* The second factor of a team user: enrolment of a TOTP secret, login     *)
(* with it, recovery codes, and the reset another admin grants.            *)
(*                                                                         *)
(* One user, whose password is known to whoever acts: the module is about  *)
(* what the password alone must not open.  A secret is its ordinal, 0 for  *)
(* NULL; a recovery code is <<enrolment, index>>.                          *)
(***************************************************************************)
EXTENDS Handlers

CONSTANTS
    MaxSecrets,  \* bound: secrets ever generated
    MaxSets,     \* bound: sets of recovery codes ever generated
    CodesPerSet  \* recovery codes of an enrolment: 10 in the source

ASSUME TwoFactorAssumption == {MaxSecrets, MaxSets, CodesPerSet} \subseteq Nat \ {0}

VARIABLES
    totp,       \* totp_secret and totp_enabled of the row
    unused,     \* tb_user_recovery_code WHERE used_at IS NULL
    enrolToken, \* an enrolment token of the last ten minutes exists
    secrets,    \* history: secrets generated
    sets,       \* history: sets of recovery codes generated
    confirmed,  \* history: secrets a code of which was verified
    opened,     \* history: what the sessions opened so far were opened by
    crossed     \* history: a secret changed while an activation was in flight

factorVars == <<totp, unused, enrolToken, secrets, sets, confirmed, opened, crossed, rq>>

Codes == (1 .. MaxSets) \X (1 .. CodesPerSet)

\* The columns of the factor: 0 is no secret.
Totp == [secret : 0 .. MaxSecrets, enabled : BOOLEAN]

FactorTypeOK ==
    /\ totp \in Totp
    /\ unused \subseteq Codes
    /\ {enrolToken, crossed} \subseteq BOOLEAN
    /\ secrets \in 0 .. MaxSecrets /\ sets \in 0 .. MaxSets
    /\ confirmed \subseteq 1 .. secrets
    /\ opened \subseteq {"password", "totp", "enrolment", "recovery"}

FactorInit ==
    /\ totp = [secret |-> 0, enabled |-> FALSE]
    /\ unused = {} /\ enrolToken = FALSE /\ secrets = 0 /\ sets = 0
    /\ confirmed = {} /\ opened = {} /\ crossed = FALSE
    /\ HandlersInit

Open(how) == opened' = opened \cup {how}

----------------------------------------------------------------------------
(* authenticateAdmin, past the password                                    *)

\* The row decides whether a code is asked for: a flag without a secret asks for none.
AuthenticateAdmin(r) ==
    /\ Begin(r, [op |-> "login", pc |-> "register", enabled |-> totp.enabled,
                 by |-> IF totp.enabled /\ totp.secret # 0 THEN "totp" ELSE "password"])
    /\ UNCHANGED <<totp, unused, enrolToken, sets, confirmed, opened>>

\* Mutated form: a full session although no factor is set up.
RegisterLoginNoEnrolment(r) ==
    /\ At(r, "login", "register")
    /\ Open(rq[r].by)
    /\ Finish(r)
    /\ UNCHANGED <<totp, unused, enrolToken, sets, confirmed>>

\* registerLogin, and the answer: a session, or a token that opens the enrolment only.
RegisterLogin(r) ==
    /\ At(r, "login", "register")
    /\ IF rq[r].enabled THEN Open(rq[r].by) /\ UNCHANGED enrolToken
       ELSE enrolToken' = TRUE /\ UNCHANGED opened
    /\ Finish(r)
    /\ UNCHANGED <<totp, unused, sets, confirmed>>

EnrolTokenExpires ==
    /\ enrolToken' = FALSE
    /\ UNCHANGED <<totp, unused, secrets, sets, confirmed, opened, crossed, rq>>

----------------------------------------------------------------------------
(* Enrolment                                                               *)

\* startEnrollment: setTotpSecret stores a new secret, disabled.
StartEnrolment ==
    /\ enrolToken /\ secrets < MaxSecrets
    /\ secrets' = secrets + 1
    /\ totp' = [secret |-> secrets + 1, enabled |-> FALSE]
    /\ UNCHANGED <<unused, enrolToken, sets, confirmed, opened, rq>>

\* activateEnrollment: a code of the secret in the row.  Hashing the recovery codes
\* takes a while.
ActivateBegin(r) ==
    /\ enrolToken /\ totp.secret # 0
    /\ confirmed' = confirmed \cup {totp.secret}
    /\ Begin(r, [op |-> "activate", pc |-> "codes"])
    /\ UNCHANGED <<totp, unused, enrolToken, sets, opened>>

ReplaceRecoveryCodes(r) ==
    /\ At(r, "activate", "codes") /\ sets < MaxSets
    /\ sets' = sets + 1
    /\ unused' = {sets + 1} \X (1 .. CodesPerSet)
    /\ Goto(r, "enable")
    /\ UNCHANGED <<totp, enrolToken, confirmed, opened>>

\* enableTotp: by id, whatever secret the row holds now.
EnableTotp(r) ==
    /\ At(r, "activate", "enable")
    /\ totp' = [totp EXCEPT !.enabled = TRUE]
    /\ Open("enrolment")
    /\ Finish(r)
    /\ UNCHANGED <<unused, enrolToken, sets, confirmed>>

----------------------------------------------------------------------------
(* Recovery and reset                                                      *)

\* recoverWithCode: listUnusedRecoveryCodes, one of which matches.
RecoverBegin(r) ==
    /\ \E c \in unused : Begin(r, [op |-> "recover", pc |-> "mark", code |-> c])
    /\ UNCHANGED <<totp, unused, enrolToken, sets, confirmed, opened>>

MarkRecoveryCodeUsed(r) ==
    /\ At(r, "recover", "mark")
    /\ unused' = unused \ {rq[r].code}
    /\ Goto(r, "clear")
    /\ UNCHANGED <<totp, enrolToken, sets, confirmed, opened>>

\* clearTotp, and a session.
ClearTotp(r) ==
    /\ At(r, "recover", "clear")
    /\ totp' = [secret |-> 0, enabled |-> FALSE]
    /\ Open("recovery")
    /\ Finish(r)
    /\ UNCHANGED <<unused, enrolToken, sets, confirmed>>

\* resetTwoFactor: clearTwoFactor is one transaction.
ResetTwoFactor ==
    /\ totp' = [secret |-> 0, enabled |-> FALSE]
    /\ unused' = {}
    /\ UNCHANGED <<enrolToken, secrets, sets, confirmed, opened, rq>>

----------------------------------------------------------------------------

FactorStep ==
    \/ \E r \in Reqs :
        /\ \/ AuthenticateAdmin(r) \/ RegisterLogin(r)
           \/ ActivateBegin(r) \/ ReplaceRecoveryCodes(r) \/ EnableTotp(r)
           \/ RecoverBegin(r) \/ MarkRecoveryCodeUsed(r) \/ ClearTotp(r)
           \/ GivesUp(r) /\ UNCHANGED <<totp, unused, enrolToken, sets, confirmed, opened>>
        /\ UNCHANGED secrets
    \/ StartEnrolment
    \/ ResetTwoFactor

FactorNext ==
    \/ /\ FactorStep
       /\ crossed' = (crossed \/ (totp'.secret # totp.secret
                                    /\ \E r \in Reqs : rq[r].op = "activate"))
    \/ EnrolTokenExpires

FactorSpec == FactorInit /\ [][FactorNext]_factorVars

----------------------------------------------------------------------------
(* Properties                                                              *)

\* "No full session exists before it completes": a password alone never opens one.
NoSessionWithoutFactor == "password" \notin opened

\* As long as no secret was replaced or cleared under an activation, the second factor
\* is one its user has proved to hold, and the password alone opens nothing.
FactorIsProved ==
    ~crossed => (totp.enabled => totp.secret \in confirmed) /\ NoSessionWithoutFactor

=============================================================================
