---------------------------- MODULE AppSessions ----------------------------
(***************************************************************************)
(* Sessions of the app plane: every sign-in ends in issueSession, a refresh *)
(* rotates its token inside a family, reuse of a rotated token revokes the *)
(* family, and "sign out everywhere" revokes all of the account's.         *)
(*                                                                         *)
(* A token row stands for the pair issueSession hands out: the refresh     *)
(* token it stores and the access token it signs with the session_version  *)
(* read earlier.  The 90 days of a refresh token and the 30 minutes of an   *)
(* access token only take sessions away and are left to GivesUp.           *)
(***************************************************************************)
EXTENDS Handlers

CONSTANTS
    Accounts,   \* app accounts
    MaxTokens,  \* bound: tokens ever issued
    MaxVersion  \* bound: session_version

ASSUME SessionsAssumption == {MaxTokens, MaxVersion} \subseteq Nat \ {0}

VARIABLES
    version,  \* tb_user_account.session_version
    tokens,   \* tb_user_refresh_token, in order of insertion
    excused,  \* history: families two handlers worked on at once, or one half-way
    met,      \* history: what each revocation under way has met between its statements
    ended     \* history: families that were revoked by a revocation that met none of them

sessionsVars == <<version, tokens, excused, met, ended, rq>>

----------------------------------------------------------------------------
(* Rows                                                                    *)

\* fam: the family's first token.  sv: what the access token was signed with.
Token  == [acc : Accounts, fam : 1 .. MaxTokens, used : BOOLEAN, revoked : BOOLEAN,
           sv : 0 .. MaxVersion]
Issued == DOMAIN tokens
Families == {tokens[i].fam : i \in Issued}
Owner(f) == tokens[f].acc

\* What refreshSession would rotate, and what appAuthMiddleware lets pass.
Live(i)     == ~tokens[i].used /\ ~tokens[i].revoked
Accepted(i) == tokens[i].sv = version[tokens[i].acc]

SessionsTypeOK ==
    /\ version \in [Accounts -> 0 .. MaxVersion]
    /\ tokens \in Seq(Token) /\ Len(tokens) <= MaxTokens
    /\ excused \subseteq Families /\ ended \subseteq Families
    /\ met \in [Reqs -> SUBSET Families]
    /\ \A r \in Reqs : rq[r].op \in {"idle", "signin", "refresh", "signout"}

SessionsInit ==
    /\ version = [a \in Accounts |-> 0]
    /\ tokens = << >>
    /\ excused = {} /\ ended = {} /\ met = [r \in Reqs |-> {}]
    /\ HandlersInit

\* The families a handler works on.
Touches(r) ==
    CASE rq[r].op = "refresh" -> {rq[r].fam}
      [] rq[r].op = "signout" -> {f \in Families : Owner(f) = rq[r].acc}
      [] OTHER -> {}
Overlapped == {f \in Families : \E r, s \in Reqs : r # s /\ f \in Touches(r) \cap Touches(s)}

\* Families with a rotation under way, and a revocation between its two statements.
Rotated     == {rq[s].fam : s \in {s \in Reqs : /\ rq[s].op = "refresh"
                                                 /\ rq[s].pc \in {"account", "mark", "issue"}}}
Revoking(r) == At(r, "refresh", "bump") \/ At(r, "signout", "revoke")

----------------------------------------------------------------------------
(* Issuing                                                                 *)

\* A sign-in has read its account and proved who it is.
SignIn(r, a) ==
    /\ Begin(r, [op |-> "signin", pc |-> "issue", acc |-> a, sv |-> version[a]])
    /\ UNCHANGED <<version, tokens>>

\* issueSession: a rotation stays in its family, a sign-in opens a new one.
IssueSession(r) ==
    /\ rq[r].pc = "issue" /\ Len(tokens) < MaxTokens
    /\ tokens' = Append(tokens,
         [acc |-> rq[r].acc, used |-> FALSE, revoked |-> FALSE, sv |-> rq[r].sv,
          fam |-> IF rq[r].op = "refresh" THEN rq[r].fam ELSE Len(tokens) + 1])
    /\ Finish(r)
    /\ UNCHANGED version

----------------------------------------------------------------------------
(* Refresh                                                                 *)

\* findRefreshToken: a used token is reuse, a revoked one is refused.
RefreshBegin(r, i) ==
    /\ tokens[i].used \/ ~tokens[i].revoked
    /\ Begin(r, [op |-> "refresh", pc |-> IF tokens[i].used THEN "family" ELSE "account",
                 acc |-> tokens[i].acc, fam |-> tokens[i].fam, token |-> i, sv |-> 0])
    /\ UNCHANGED <<version, tokens>>

\* findAccountById.
RefreshAccount(r) ==
    /\ At(r, "refresh", "account")
    /\ With(r, [pc |-> "mark", sv |-> version[rq[r].acc]])
    /\ UNCHANGED <<version, tokens>>

\* Mutated form: the token stays fresh.
RefreshMarkNothing(r) ==
    /\ At(r, "refresh", "mark")
    /\ Goto(r, "issue")
    /\ UNCHANGED <<version, tokens>>

\* markRefreshTokenUsed: whoever else has marked it since it was read.
RefreshMark(r) ==
    /\ At(r, "refresh", "mark")
    /\ tokens' = [tokens EXCEPT ![rq[r].token].used = TRUE]
    /\ Goto(r, "issue")
    /\ UNCHANGED version

\* Reuse: revokeRefreshFamily, then bumpSessionVersion.
RevokeFamily(r) ==
    /\ At(r, "refresh", "family")
    /\ tokens' = [i \in Issued |->
         [tokens[i] EXCEPT !.revoked = @ \/ tokens[i].fam = rq[r].fam]]
    /\ Goto(r, "bump")
    /\ UNCHANGED version

BumpAfterReuse(r) ==
    /\ At(r, "refresh", "bump") /\ version[rq[r].acc] < MaxVersion
    /\ version' = [version EXCEPT ![rq[r].acc] = @ + 1]
    /\ Finish(r)
    /\ UNCHANGED tokens

----------------------------------------------------------------------------
(* Sign out everywhere                                                     *)

\* appAuthMiddleware: the row is read on every request, nothing is cached.
SignOutBegin(r, i) ==
    /\ Accepted(i)
    /\ Begin(r, [op |-> "signout", pc |-> "bump", acc |-> tokens[i].acc])
    /\ UNCHANGED <<version, tokens>>

\* Mutated form: the version is forgotten.
SignOutBumpNothing(r) ==
    /\ At(r, "signout", "bump")
    /\ Goto(r, "revoke")
    /\ UNCHANGED <<version, tokens>>

SignOutBump(r) ==
    /\ At(r, "signout", "bump") /\ version[rq[r].acc] < MaxVersion
    /\ version' = [version EXCEPT ![rq[r].acc] = @ + 1]
    /\ Goto(r, "revoke")
    /\ UNCHANGED tokens

\* revokeAllRefreshTokens.
SignOutRevoke(r) ==
    /\ At(r, "signout", "revoke")
    /\ tokens' = [i \in Issued |->
         [tokens[i] EXCEPT !.revoked = @ \/ tokens[i].acc = rq[r].acc]]
    /\ Finish(r)
    /\ UNCHANGED version

----------------------------------------------------------------------------

SessionsStep(r) ==
    \/ \E a \in Accounts : SignIn(r, a)
    \/ \E i \in Issued : RefreshBegin(r, i) \/ SignOutBegin(r, i)
    \/ IssueSession(r)
    \/ RefreshAccount(r)
    \/ RefreshMark(r)
    \/ RevokeFamily(r)
    \/ BumpAfterReuse(r)
    \/ SignOutBump(r)
    \/ SignOutRevoke(r)
    \/ GivesUp(r) /\ UNCHANGED <<version, tokens>>

\* The history: overlaps, a family founded while its owner signs out, and what a
\* handler that died left half-done.
Founded == {f \in Families' \ Families : \E s \in Reqs : f \in Touches(s)'}
Died(r) == {f \in Touches(r) : rq'[r].op = "idle" /\ UNCHANGED <<version, tokens>>}

\* The history of revocations: one meets the rotations under way and the families founded
\* between its two statements, and ends the others with the second.
Meets ==
    met' = [r \in Reqs |-> IF Revoking(r)' THEN met[r] \cup Rotated' \cup (Families' \ Families)
                           ELSE {}]
Ends(r) ==
    ended' = ended \cup IF BumpAfterReuse(r) \/ SignOutRevoke(r) THEN Touches(r) \ met[r] ELSE {}

SessionsNext ==
    \E r \in Reqs :
        /\ SessionsStep(r)
        /\ excused' = excused \cup Overlapped' \cup Founded \cup Died(r)
        /\ Meets /\ Ends(r)

SessionsSpec == SessionsInit /\ [][SessionsNext]_sessionsVars

----------------------------------------------------------------------------
(* Properties                                                              *)

\* The live tokens of a family, and the one a rotation is about to insert.
LiveTokens(f) == {i \in Issued : tokens[i].fam = f /\ Live(i)}
Rotating(f)   == {r \in Reqs : At(r, "refresh", "issue") /\ rq[r].fam = f}

\* A device has one session: however refreshes, reuse and sign-outs follow each
\* other, a family holds one live token at most, the one a refresh is about to store
\* included, unless two handlers worked on it at once.
OneLiveToken ==
    \A f \in Families \ excused : Cardinality(LiveTokens(f)) + Cardinality(Rotating(f)) <= 1

\* A completed revocation is final: once the reuse of a token, or its owner's signing out,
\* has revoked a family, none of its refresh tokens is live and none of its access tokens
\* passes the middleware, whatever overlapped before and whatever comes later.  One
\* exception: a rotation under way, or a family founded, between the two statements.
\* account.service.ts:278 names none: "kills access tokens (<=cache TTL) and refreshes".
RevokedStaysOut ==
    \A f \in ended : \A i \in Issued : tokens[i].fam = f => ~Live(i) /\ ~Accepted(i)

=============================================================================
