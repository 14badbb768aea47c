-------------------------- MODULE VerificationCode --------------------------
(***************************************************************************)
(* The six-digit codes sent by e-mail: the app plane's, which confirms an   *)
(* address, and the panel's, which lets a team user set a new password.    *)
(* Both keep the code, the attempts made at it and the start of its window *)
(* in the account's own row.  The planes share nothing, so that a behaviour *)
(* is about one account of one plane.                                      *)
(*                                                                         *)
(* A code is its ordinal, 0 for NULL.  Time is counted in quarters of the   *)
(* window; a handler's own duration is not.                                *)
(***************************************************************************)
EXTENDS Handlers

CONSTANTS
    Tries,     \* wrong codes that wipe the code: 5 in the source
    Ttl,       \* the window: 15 minutes
    MaxCodes,  \* bound: codes ever sent
    MaxLost    \* bound: handlers that die between a guess and its count

ASSUME CodesAssumption == {Tries, Ttl, MaxCodes} \subseteq Nat \ {0} /\ MaxLost \in Nat

VARIABLES
    plane,      \* "app": tb_user_account.  "panel": tb_user
    storedCode, \* email_verification_code / activation_key
    attempts,   \* email_verification_attempts / recovery_attempt_count
    age,        \* time since email_verification_sent_at / updated_at
    trueAge,    \* history: time since the code was stored
    sent,       \* history: codes sent so far
    guesses,    \* history: wrong codes compared with each code
    uses,       \* history: confirmations and password changes by each code
    lost        \* history: handlers that died

codeVars == <<plane, storedCode, attempts, age, trueAge, sent, guesses, uses, lost, rq>>
stored   == <<storedCode, attempts, age, trueAge>>
history  == <<sent, guesses, uses>>

CodeIds == 1 .. MaxCodes
MaxTries == Tries + Cardinality(Reqs) + MaxLost

CodesTypeOK ==
    /\ plane \in {"app", "panel"}
    /\ storedCode \in 0 .. MaxCodes /\ sent \in 0 .. MaxCodes
    /\ attempts \in 0 .. MaxTries
    /\ {age, trueAge} \subseteq 0 .. Ttl + 1
    /\ guesses \in [CodeIds -> Nat] /\ uses \in [CodeIds -> Nat] /\ lost \in 0 .. MaxLost

CodesInit ==
    /\ plane \in {"app", "panel"}
    /\ storedCode = 0 /\ attempts = 0 /\ age = 0 /\ trueAge = 0 /\ sent = 0 /\ lost = 0
    /\ guesses = [n \in CodeIds |-> 0] /\ uses = [n \in CodeIds |-> 0]
    /\ HandlersInit

----------------------------------------------------------------------------
(* Sending a code                                                          *)

\* recoveryPassword, sendEmailVerification: the account is looked up; a verified
\* address is sent nothing more.
SendBegin(r) ==
    /\ sent < MaxCodes
    /\ plane = "app" => \A n \in CodeIds : uses[n] = 0
    /\ Begin(r, [op |-> "send", pc |-> "store"])
    /\ UNCHANGED <<plane, stored, history, lost>>

\* Mutated form: a fresh code inherits the attempts at the last one.
StoreCodeKeepAttempts(r) ==
    /\ At(r, "send", "store") /\ sent < MaxCodes
    /\ storedCode' = sent + 1 /\ sent' = sent + 1 /\ age' = 0 /\ trueAge' = 0
    /\ Finish(r)
    /\ UNCHANGED <<plane, attempts, guesses, uses, lost>>

\* setActivationKey, setEmailVerificationCode; the mail that follows changes nothing.
StoreCode(r) ==
    /\ At(r, "send", "store") /\ sent < MaxCodes
    /\ storedCode' = sent + 1 /\ sent' = sent + 1
    /\ attempts' = 0 /\ age' = 0 /\ trueAge' = 0
    /\ Finish(r)
    /\ UNCHANGED <<plane, guesses, uses, lost>>

----------------------------------------------------------------------------
(* Presenting a code                                                       *)

\* updated_at is ON UPDATE CURRENT_TIMESTAMP: every statement that changes the panel's
\* row restarts it.  email_verification_sent_at has no such clause.
Restamp == age' = IF plane = "panel" THEN 0 ELSE age

\* A wrong code, compared with the one in the row.
GuessWrong(r) ==
    /\ storedCode # 0
    /\ guesses' = [guesses EXCEPT ![storedCode] = @ + 1]
    /\ Begin(r, [op |-> "present", pc |-> "count", code |-> storedCode])
    /\ UNCHANGED <<plane, stored, sent, uses, lost>>

\* The right code, within the window as the row tells it.
GuessRight(r) ==
    /\ storedCode # 0 /\ age <= Ttl
    /\ Begin(r, [op |-> "present", pc |-> "apply", code |-> storedCode, seen |-> trueAge])
    /\ UNCHANGED <<plane, stored, history, lost>>

\* registerRecoveryAttempt, registerEmailVerificationAttempt: add one, read the sum,
\* wipe the code when it is reached.
CountAttempt(r) ==
    /\ At(r, "present", "count")
    /\ attempts' = attempts + 1
    /\ Restamp
    /\ Goto(r, "read")
    /\ UNCHANGED <<plane, storedCode, trueAge, history, lost>>

\* Mutated form: one guess too many.
ReadAttemptsLate(r) ==
    /\ At(r, "present", "read")
    /\ IF attempts > Tries THEN Goto(r, "wipe") ELSE Finish(r)
    /\ UNCHANGED <<plane, stored, history, lost>>

ReadAttempts(r) ==
    /\ At(r, "present", "read")
    /\ IF attempts >= Tries THEN Goto(r, "wipe") ELSE Finish(r)
    /\ UNCHANGED <<plane, stored, history, lost>>

WipeCode(r) ==
    /\ At(r, "present", "wipe")
    /\ storedCode' = 0
    /\ Restamp
    /\ Finish(r)
    /\ UNCHANGED <<plane, attempts, trueAge, history, lost>>

\* updatePassword, markEmailVerified: the code goes with the attempts.
ApplyCode(r) ==
    /\ At(r, "present", "apply")
    /\ uses' = [uses EXCEPT ![rq[r].code] = @ + 1]
    /\ storedCode' = 0 /\ attempts' = 0
    /\ Restamp
    /\ Finish(r)
    /\ UNCHANGED <<plane, trueAge, sent, guesses, lost>>

----------------------------------------------------------------------------

\* Any other UPDATE of the row: a login, good or bad, a change on the Users screen.
TouchRow ==
    /\ Restamp
    /\ UNCHANGED <<plane, storedCode, attempts, trueAge, history, lost, rq>>

Later(t) == IF t <= Ttl THEN t + 1 ELSE t

Elapse ==
    /\ \A r \in Reqs : rq[r].op = "idle"
    /\ age' = Later(age) /\ trueAge' = Later(trueAge)
    /\ UNCHANGED <<plane, storedCode, attempts, history, lost, rq>>

CodesDrop(r) ==
    /\ lost < MaxLost
    /\ lost' = lost + 1
    /\ GivesUp(r)
    /\ UNCHANGED <<plane, stored, history>>

CodesNext ==
    \/ \E r \in Reqs :
        \/ SendBegin(r) \/ StoreCode(r)
        \/ GuessWrong(r) \/ GuessRight(r)
        \/ CountAttempt(r) \/ ReadAttempts(r) \/ WipeCode(r)
        \/ ApplyCode(r)
        \/ CodesDrop(r)
    \/ TouchRow
    \/ Elapse

CodesSpec == CodesInit /\ [][CodesNext]_codeVars

----------------------------------------------------------------------------
(* Properties                                                              *)

\* Others: how many handlers can run beside one.
Others == Cardinality(Reqs) - 1

\* Brute force is bounded (decision 113): a code is compared with no more wrong codes
\* than Tries, those in flight together and those whose count was lost.
GuessesBounded == \A n \in CodeIds : guesses[n] <= Tries + Others + lost

\* A code is wiped for the guesses made at it, not for those at the code before: only
\* a handler that was already counting then may count against it, or wipe it.
WipedForItsOwnGuesses ==
    [][(storedCode # 0 /\ storedCode' = 0 /\ uses' = uses)
        => \/ guesses[storedCode] >= Tries - Others
           \/ \E r \in Reqs : At(r, "present", "wipe") /\ rq[r].code < storedCode]_codeVars

\* Nobody sets a new password by a code past its window: "updated_at marks the start of
\* its window", so it says.
PanelCodeExpires ==
    \A r \in Reqs : plane = "panel" /\ At(r, "present", "apply") => rq[r].seen <= Ttl

=============================================================================
