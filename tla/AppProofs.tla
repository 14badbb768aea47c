----------------------------- MODULE AppProofs ------------------------------
(***************************************************************************)
(* The app plane, for any number of accounts, tokens, messages, alerts and *)
(* requests: sessions, accounts, masked chat, panic alerts, help and ratings. *)
(*                                                                         *)
(* The components share no table, hence no invariant. In each the invariant *)
(* says, beside the property, what a request holds between two awaits.     *)
(***************************************************************************)
EXTENDS AppSessions, AppAccounts, MaskedChat, PanicAlerts, HelpAndRating, FiniteSetTheorems, SequenceTheorems, TLAPS

----------------------------------------------------------------------------
(* AppSessions: one live token, and revoked for good                       *)

\* For a family no two handlers worked on at once: a refresh about to mark has the only
\* live token, one about to issue leaves none, and once revoked it has none.

SignInRequest  == [op : {"signin"}, pc : {"issue"}, acc : Accounts, sv : 0 .. MaxVersion]
RefreshRequest == [op : {"refresh"}, pc : {"family", "account", "mark", "issue", "bump"}, acc : Accounts,
                   fam : 1 .. MaxTokens, token : 1 .. MaxTokens, sv : 0 .. MaxVersion]
SignOutRequest == [op : {"signout"}, pc : {"bump", "revoke"}, acc : Accounts]
SessionRequest == {Idle} \cup SignInRequest \cup RefreshRequest \cup SignOutRequest

SessionsTyped ==
    /\ version \in [Accounts -> 0 .. MaxVersion]
    /\ tokens \in Seq(Token) /\ Len(tokens) <= MaxTokens
    /\ excused \subseteq Families
    /\ rq \in [Reqs -> SessionRequest]

\* A token belongs to the account of its family, and was signed with a version of then.
TokenSound(i) ==
    /\ tokens[i].fam \in Issued /\ Owner(tokens[i].fam) = tokens[i].acc
    /\ tokens[i].sv <= version[tokens[i].acc]

SessionSound(q) ==
    /\ q.op \in {"signin", "refresh"} => q.sv <= version[q.acc]
    /\ q.op = "refresh" => /\ q.token \in Issued /\ tokens[q.token].fam = q.fam
                           /\ tokens[q.token].acc = q.acc

\* A handler that works on a family.
Handles(q, f) == (q.op = "refresh" /\ q.fam = f) \/ (q.op = "signout" /\ q.acc = Owner(f))
Alone(f) == \A r, s \in Reqs : Handles(rq[r], f) /\ Handles(rq[s], f) => r = s

Of(f) == {i \in Issued : tokens[i].fam = f}
Revoked(f) == \E i \in Of(f) : tokens[i].revoked
Dead(f) == \A i \in Of(f) : ~Live(i)

\* What a request that handles a family knows of it.
Knows(q, f) ==
    q.op = "refresh" /\ q.fam = f =>
          /\ q.pc \in {"account", "mark"} => \A i \in Of(f) : Live(i) => i = q.token
          /\ q.pc = "issue" => Dead(f)
          /\ Revoked(f) => q.pc \in {"family", "bump"}

\* A family no two handlers worked on at once.
FamilySound(f) ==
    /\ \A i, j \in Of(f) : Live(i) /\ Live(j) => i = j
    /\ \A r \in Reqs : Knows(rq[r], f)
    /\ Revoked(f) => Dead(f)

SessionsInv ==
    /\ SessionsTyped
    /\ \A i \in Issued : TokenSound(i)
    /\ \A r \in Reqs : SessionSound(rq[r])
    /\ \A f \in Families \ excused : Alone(f) /\ FamilySound(f)

LEMMA TokensAre ==
    ASSUME SessionsInv
    PROVE  /\ Issued = 1 .. Len(tokens) /\ Len(tokens) \in Nat /\ Len(tokens) <= MaxTokens /\ MaxTokens \in Nat
           /\ MaxVersion \in Nat
           /\ \A i \in Issued : tokens[i] \in Token
           /\ \A f : f \in Families <=> \E i \in Issued : tokens[i].fam = f
           /\ \A f \in Families : f \in Issued /\ Owner(f) \in Accounts /\ \A i \in Of(f) : tokens[i].acc = Owner(f)
<1>1. /\ Issued = 1 .. Len(tokens) /\ Len(tokens) \in Nat /\ Len(tokens) <= MaxTokens
      /\ \A i \in Issued : tokens[i] \in Token
  BY DEF SessionsInv, SessionsTyped, Issued
<1>2. MaxTokens \in Nat /\ MaxVersion \in Nat
  BY SessionsAssumption
<1>3. \A f : f \in Families <=> \E i \in Issued : tokens[i].fam = f
  BY DEF Families
<1>4. \A f \in Families : f \in Issued /\ \A i \in Of(f) : tokens[i].acc = Owner(f)
  BY <1>3 DEF SessionsInv, TokenSound, Of
<1>5. \A f \in Families : Owner(f) \in Accounts
  BY <1>1, <1>4 DEF Owner, Token
<1>6. QED
  BY <1>1, <1>2, <1>3, <1>4, <1>5

LEMMA RequestIs ==
    ASSUME SessionsInv, NEW r \in Reqs
    PROVE  /\ rq[r] \in SessionRequest /\ SessionSound(rq[r])
           /\ rq[r].op = "idle" => rq[r] = Idle
           /\ rq[r].op = "signin" => rq[r] \in SignInRequest
           /\ rq[r].op = "refresh" => rq[r] \in RefreshRequest
           /\ rq[r].op = "signout" => rq[r] \in SignOutRequest
           /\ rq[r].op \in {"idle", "signin", "refresh", "signout"}
<1>1. rq[r] \in SessionRequest /\ SessionSound(rq[r])
  BY DEF SessionsInv, SessionsTyped
<1>2. QED
  BY <1>1 DEF SessionRequest, Idle, SignInRequest, RefreshRequest, SignOutRequest

LEMMA TouchesIs ==
    ASSUME NEW r \in Reqs, NEW f \in Families
    PROVE  f \in Touches(r) <=> Handles(rq[r], f)
BY DEF Touches, Handles

\* What the runs check, read off the invariant.
LEMMA OneIsEnough ==
    ASSUME SessionsInv, NEW f \in Families \ excused
    PROVE  Cardinality(LiveTokens(f)) + Cardinality(Rotating(f)) <= 1
<1>1. FamilySound(f) /\ Alone(f)
  BY DEF SessionsInv
<1>2. \A S : (\A x, y \in S : x = y) => S = {} \/ \E x : S = {x}
  OBVIOUS
<1>3. LiveTokens(f) = {} \/ \E i : LiveTokens(f) = {i}
  <2>1. \A i, j \in LiveTokens(f) : i = j
    BY <1>1 DEF FamilySound, LiveTokens, Of
  <2>2. QED
    BY <1>2, <2>1
<1>4. Rotating(f) = {} \/ \E r : Rotating(f) = {r}
  <2>1. \A r, s \in Rotating(f) : r = s
    BY <1>1 DEF Alone, Handles, Rotating, At
  <2>2. QED
    BY <1>2, <2>1
<1>5. Rotating(f) = {} \/ LiveTokens(f) = {}
  <2>1. ASSUME NEW r \in Rotating(f) PROVE Dead(f)
    BY <1>1, <2>1 DEF Rotating, FamilySound, Knows, At
  <2>2. QED
    BY <2>1 DEF Dead, LiveTokens, Of
<1>6. Cardinality({}) = 0 /\ \A x : Cardinality({x}) = 1
  BY FS_EmptySet, FS_Singleton
<1>7. QED
  BY <1>3, <1>4, <1>5, <1>6

LEMMA SessionsStart == ASSUME SessionsInit PROVE SessionsInv
<1>1. /\ version = [a \in Accounts |-> 0] /\ tokens = << >> /\ excused = {}
      /\ rq = [r \in Reqs |-> Idle]
  BY DEF SessionsInit, HandlersInit
<1>2. tokens \in Seq(Token) /\ Len(tokens) = 0 /\ Issued = {}
  BY <1>1 DEF Issued
<1>3. Families = {}
  BY <1>2 DEF Families
<1>4. Idle \in SessionRequest /\ SessionSound(Idle)
  BY DEF SessionRequest, SessionSound, Idle
<1>5. SessionsTyped
  BY <1>1, <1>2, <1>3, <1>4, SessionsAssumption DEF SessionsTyped
<1>6. QED
  BY <1>1, <1>2, <1>3, <1>4, <1>5 DEF SessionsInv

\* The history is wide enough: two handlers on one family excuse it.
LEMMA AloneNext ==
    ASSUME Overlapped' \subseteq excused', NEW f \in Families' \ excused' PROVE Alone(f)'
<1>1. ASSUME NEW r \in Reqs, NEW s \in Reqs, Handles(rq[r], f)', Handles(rq[s], f)', r # s
      PROVE  FALSE
  <2>1. f \in Touches(r)' /\ f \in Touches(s)'
    BY <1>1 DEF Touches, Handles
  <2>2. f \in Overlapped'
    BY <1>1, <2>1 DEF Overlapped
  <2>3. QED
    BY <2>2
<1>2. QED
  BY <1>1 DEF Alone

\* Tokens keep their account, their family and their version, and are used or revoked for good.
TokensStay ==
    /\ tokens' \in Seq(Token) /\ Len(tokens') = Len(tokens)
    /\ \A i \in Issued : /\ tokens'[i].acc = tokens[i].acc /\ tokens'[i].fam = tokens[i].fam
                         /\ tokens'[i].sv = tokens[i].sv
                         /\ tokens[i].used => tokens'[i].used
                         /\ tokens[i].revoked => tokens'[i].revoked

VersionsGrow ==
    /\ version' \in [Accounts -> 0 .. MaxVersion]
    /\ \A a \in Accounts : version'[a] >= version[a]

LEMMA StayingIs ==
    ASSUME SessionsInv, TokensStay
    PROVE  /\ Issued' = Issued /\ Families' = Families
           /\ \A f \in Families : Owner(f)' = Owner(f)
           /\ \A f : Of(f)' = Of(f)
<1>1. Issued' = Issued
  BY DEF SessionsInv, SessionsTyped, TokensStay, Issued
<1>2. Families' = Families
  BY <1>1 DEF Families, TokensStay
<1>3. \A f \in Families : Owner(f)' = Owner(f)
  BY TokensAre DEF Owner, TokensStay
<1>4. \A f : Of(f)' = Of(f)
  BY <1>1 DEF Of, TokensStay
<1>5. QED
  BY <1>1, <1>2, <1>3, <1>4

\* A step of a handler that issues nothing.
LEMMA HandlerMoves ==
    ASSUME SessionsInv, TokensStay, VersionsGrow, NEW r \in Reqs, NEW q \in SessionRequest,
           rq' = [rq EXCEPT ![r] = q], SessionSound(q)',
           excused' = excused \cup Overlapped' \cup Founded \cup Died(r),
           \A f \in Families \ excused' : FamilySound(f)'
    PROVE  SessionsInv'
<1>1. /\ Issued' = Issued /\ Families' = Families /\ \A f \in Families : Owner(f)' = Owner(f)
  BY StayingIs
<1>2. rq' \in [Reqs -> SessionRequest] /\ rq'[r] = q /\ \A s \in Reqs : s # r => rq'[s] = rq[s]
  BY DEF SessionsInv, SessionsTyped
<1>3. excused' \subseteq Families' /\ excused \subseteq excused'
  <2>1. Overlapped' \subseteq Families' /\ Founded \subseteq Families'
    BY DEF Overlapped, Founded
  <2>2. Died(r) \subseteq Families
    <3>1. rq[r].op = "refresh" => rq[r].fam \in Families
      BY RequestIs, TokensAre DEF SessionSound
    <3>2. QED
      BY <3>1, RequestIs DEF Died, Touches
  <2>3. QED
    BY <1>1, <2>1, <2>2 DEF SessionsInv, SessionsTyped
<1>4. SessionsTyped'
  BY <1>2, <1>3 DEF SessionsInv, SessionsTyped, TokensStay, VersionsGrow
<1>5. ASSUME NEW i \in Issued' PROVE TokenSound(i)'
  <2>1. i \in Issued /\ TokenSound(i) /\ tokens[i] \in Token /\ tokens[i].acc \in Accounts
    BY <1>1, <1>5, TokensAre DEF SessionsInv, Token
  <2>2. /\ tokens'[i].acc = tokens[i].acc /\ tokens'[i].fam = tokens[i].fam
        /\ tokens'[i].sv = tokens[i].sv
    BY <2>1 DEF TokensStay
  <2>3. tokens[i].fam \in Families
    BY <2>1, TokensAre
  <2>4. tokens'[i].sv <= version'[tokens'[i].acc]
    <3>1. /\ tokens[i].sv <= version[tokens[i].acc]
          /\ version'[tokens[i].acc] >= version[tokens[i].acc]
      BY <2>1 DEF TokenSound, VersionsGrow
    <3>2. /\ tokens[i].sv \in Int /\ version[tokens[i].acc] \in Int
          /\ version'[tokens[i].acc] \in Int
      BY <2>1, <1>4 DEF SessionsInv, SessionsTyped, Token, VersionsGrow
    <3>3. QED
      BY <2>2, <3>1, <3>2
  <2>5. QED
    BY <1>1, <2>1, <2>2, <2>3, <2>4 DEF TokenSound
<1>6. ASSUME NEW s \in Reqs PROVE SessionSound(rq[s])'
  <2>1. CASE s = r
    BY <1>2, <2>1 DEF SessionSound
  <2>2. CASE s # r
    <3>1. PICK p : p = rq[s] /\ p \in SessionRequest /\ SessionSound(p) /\ rq'[s] = p
      BY <1>2, <2>2, RequestIs
    <3>2. p.op \in {"signin", "refresh"} => p.sv <= version'[p.acc]
      <4>1. ASSUME p.op \in {"signin", "refresh"}
            PROVE  p.acc \in Accounts /\ p.sv \in Int /\ p.sv <= version[p.acc]
        BY <3>1, <4>1, RequestIs DEF SessionSound, SignInRequest, RefreshRequest
      <4>2. \A a \in Accounts : version[a] \in Int /\ version'[a] \in Int /\ version'[a] >= version[a]
        BY DEF SessionsInv, SessionsTyped, VersionsGrow
      <4>3. QED
        BY <4>1, <4>2
    <3>3. p.op = "refresh" => /\ p.token \in Issued' /\ tokens'[p.token].fam = p.fam
                              /\ tokens'[p.token].acc = p.acc
      BY <1>1, <3>1 DEF SessionSound, TokensStay
    <3>4. QED
      BY <3>1, <3>2, <3>3 DEF SessionSound
  <2>3. QED
    BY <2>1, <2>2
<1>7. \A f \in Families' \ excused' : Alone(f)'
  BY AloneNext
<1>8. QED
  BY <1>1, <1>4, <1>5, <1>6, <1>7 DEF SessionsInv

FamilyUnrevoked(f) ==
    /\ Of(f)' = Of(f) /\ Owner(f)' = Owner(f)
    /\ \A i \in Of(f) : /\ tokens'[i].acc = tokens[i].acc /\ tokens'[i].sv = tokens[i].sv
                        /\ tokens[i].used => tokens'[i].used
                        /\ tokens'[i].revoked <=> tokens[i].revoked

\* A family that the step does not revoke.
LEMMA FamilyStays ==
    ASSUME SessionsInv, VersionsGrow, NEW r \in Reqs, NEW q \in SessionRequest,
           rq' = [rq EXCEPT ![r] = q],
           NEW f \in Families \ excused, FamilyUnrevoked(f), Knows(q, f)'
    PROVE  FamilySound(f)'
<1>1. FamilySound(f)
  BY DEF SessionsInv
<1>2. rq'[r] = q /\ \A s \in Reqs : s # r => rq'[s] = rq[s]
  BY DEF SessionsInv, SessionsTyped
<1>0. /\ Of(f)' = Of(f) /\ Owner(f)' = Owner(f)
      /\ \A i \in Of(f) : /\ tokens'[i].acc = tokens[i].acc /\ tokens'[i].sv = tokens[i].sv
                          /\ tokens[i].used => tokens'[i].used
                          /\ tokens'[i].revoked <=> tokens[i].revoked
  BY DEF FamilyUnrevoked
<1>3. \A i \in Of(f) : Live(i)' => Live(i)
  BY <1>0 DEF Live
<1>4. Revoked(f)' <=> Revoked(f)
  BY <1>0 DEF Revoked
<1>5. Dead(f) => Dead(f)'
  BY <1>0, <1>3 DEF Dead
<1>6. Revoked(f)' => Dead(f)'
  BY <1>1, <1>4, <1>5 DEF FamilySound
<1>7. \A i, j \in Of(f)' : Live(i)' /\ Live(j)' => i = j
  BY <1>0, <1>1, <1>3 DEF FamilySound
<1>8. ASSUME NEW s \in Reqs PROVE Knows(rq[s], f)'
  <2>1. CASE s = r
    BY <1>2, <2>1 DEF Knows
  <2>2. CASE s # r
    <3>1. PICK p : p = rq[s] /\ rq'[s] = p /\ Knows(p, f)
      BY <1>1, <1>2, <2>2 DEF FamilySound
    <3>2. QED
      BY <1>0, <1>3, <1>4, <1>5, <3>1 DEF Knows
  <2>3. QED
    BY <2>1, <2>2
<1>9. QED
  BY <1>0, <1>6, <1>7, <1>8 DEF FamilySound

\* A family whose every token the step of its only handler revokes.
LEMMA FamilyEnds ==
    ASSUME SessionsInv, UNCHANGED version, NEW r \in Reqs, NEW q, rq' = [rq EXCEPT ![r] = q],
           NEW f \in Families \ excused, Of(f)' = Of(f), Owner(f)' = Owner(f), Handles(rq[r], f),
           \A i \in Of(f) : tokens'[i].revoked,
           q = Idle \/ (q.op = "refresh" /\ q.fam = f /\ q.pc = "bump")
    PROVE  FamilySound(f)'
<1>1. Alone(f)
  BY DEF SessionsInv
<1>2. rq'[r] = q /\ \A s \in Reqs : s # r => rq'[s] = rq[s] /\ ~Handles(rq[s], f)
  BY <1>1 DEF SessionsInv, SessionsTyped, Alone
<1>3. Dead(f)'
  BY DEF Dead, Live
<1>4. ASSUME NEW s \in Reqs PROVE Knows(rq[s], f)'
  <2>1. CASE s = r
    BY <1>2, <2>1 DEF Knows, Idle
  <2>2. CASE s # r
    <3>1. ~Handles(rq'[s], f)
      BY <1>2, <2>2
    <3>2. QED
      BY <3>1 DEF Knows, Handles
  <2>3. QED
    BY <2>1, <2>2
<1>5. QED
  BY <1>3, <1>4 DEF FamilySound, Dead

\* A step that leaves the tokens alone.
LEMMA TokensRest ==
    ASSUME SessionsInv, UNCHANGED tokens, VersionsGrow, NEW r \in Reqs, NEW q \in SessionRequest,
           rq' = [rq EXCEPT ![r] = q], SessionSound(q)',
           excused' = excused \cup Overlapped' \cup Founded \cup Died(r),
           \A f \in Families \ excused' : Knows(q, f)'
    PROVE  SessionsInv'
<1>1. TokensStay
  BY DEF TokensStay, SessionsInv, SessionsTyped
<1>2. ASSUME NEW f \in Families \ excused' PROVE FamilySound(f)'
  <2>1. f \in Families \ excused /\ Of(f)' = Of(f) /\ Owner(f)' = Owner(f)
    BY <1>1, StayingIs
  <2>2. Knows(q, f)'
    OBVIOUS
  <2>3. FamilyUnrevoked(f)
    BY <2>1 DEF FamilyUnrevoked
  <2>4. QED
    BY <2>1, <2>2, <2>3, FamilyStays
<1>3. QED
  BY <1>1, <1>2, HandlerMoves

History(r) == excused' = excused \cup Overlapped' \cup Founded \cup Died(r)

LEMMA SignInKeeps ==
    ASSUME SessionsInv, NEW r \in Reqs, NEW a \in Accounts, SignIn(r, a), History(r)
    PROVE  SessionsInv'
<1>1. PICK q : q = [op |-> "signin", pc |-> "issue", acc |-> a, sv |-> version[a]]
  OBVIOUS
<1>2. rq' = [rq EXCEPT ![r] = q] /\ rq[r].op = "idle" /\ UNCHANGED <<version, tokens>>
  BY <1>1 DEF SignIn, Begin
<1>3. version[a] \in 0 .. MaxVersion /\ VersionsGrow
  BY <1>2, SessionsAssumption DEF SessionsInv, SessionsTyped, VersionsGrow
<1>4. q \in SessionRequest /\ q.op = "signin" /\ q.acc = a /\ q.sv = version[a]
  BY <1>1, <1>3 DEF SignInRequest, SessionRequest
<1>5. SessionSound(q)' /\ \A f \in Families : Knows(q, f)'
  BY <1>2, <1>3, <1>4 DEF SessionSound, Knows
<1>6. QED
  BY <1>2, <1>3, <1>4, <1>5, TokensRest DEF History

LEMMA SignOutBeginKeeps ==
    ASSUME SessionsInv, NEW r \in Reqs, NEW i \in Issued, SignOutBegin(r, i), History(r)
    PROVE  SessionsInv'
<1>1. PICK q : q = [op |-> "signout", pc |-> "bump", acc |-> tokens[i].acc]
  OBVIOUS
<1>2. rq' = [rq EXCEPT ![r] = q] /\ rq[r].op = "idle" /\ UNCHANGED <<version, tokens>>
  BY <1>1 DEF SignOutBegin, Begin
<1>3. tokens[i].acc \in Accounts /\ VersionsGrow
  BY <1>2, TokensAre, SessionsAssumption DEF SessionsInv, SessionsTyped, VersionsGrow, Token
<1>4. q \in SessionRequest /\ q.op = "signout" /\ q.pc = "bump"
  BY <1>1, <1>3 DEF SignOutRequest, SessionRequest
<1>5. SessionSound(q)' /\ \A f \in Families : Knows(q, f)'
  BY <1>4 DEF SessionSound, Knows
<1>6. QED
  BY <1>2, <1>3, <1>4, <1>5, TokensRest DEF History

LEMMA RefreshBeginKeeps ==
    ASSUME SessionsInv, NEW r \in Reqs, NEW i \in Issued, RefreshBegin(r, i), History(r)
    PROVE  SessionsInv'
<1>1. PICK pc : pc = (IF tokens[i].used THEN "family" ELSE "account")
  OBVIOUS
<1>2. PICK q : q = [op |-> "refresh", pc |-> pc, acc |-> tokens[i].acc, fam |-> tokens[i].fam, token |-> i, sv |-> 0]
  OBVIOUS
<1>3. rq' = [rq EXCEPT ![r] = q] /\ rq[r].op = "idle" /\ UNCHANGED <<version, tokens>>
  BY <1>1, <1>2 DEF RefreshBegin, Begin
<1>4. /\ tokens[i].acc \in Accounts /\ tokens[i].fam \in 1 .. MaxTokens /\ i \in 1 .. MaxTokens
      /\ 0 \in 0 .. MaxVersion
      /\ version[tokens[i].acc] \in 0 .. MaxVersion
  BY TokensAre DEF SessionsInv, SessionsTyped, Token
<1>5. /\ q \in SessionRequest /\ q.op = "refresh" /\ q.pc = pc /\ q.acc = tokens[i].acc
      /\ q.fam = tokens[i].fam
      /\ q.token = i /\ q.sv = 0 /\ pc \in {"family", "account"}
  BY <1>1, <1>2, <1>4 DEF RefreshRequest, SessionRequest
<1>6. VersionsGrow
  BY <1>3, SessionsAssumption DEF SessionsInv, SessionsTyped, VersionsGrow
<1>7. SessionSound(q)'
  BY <1>3, <1>4, <1>5 DEF SessionSound, Issued
<1>8. ASSUME NEW f \in Families \ excused PROVE Knows(q, f)'
  <2>1. FamilySound(f)
    BY DEF SessionsInv
  <2>2. CASE q.fam # f
    BY <1>5, <2>2 DEF Knows
  <2>3. CASE q.fam = f
    <3>1. i \in Of(f)
      BY <1>5, <2>3 DEF Of
    <3>2. pc = "account" => Live(i)
      BY <1>1 DEF RefreshBegin, Live
    <3>3. pc = "account" => ~Revoked(f) /\ \A j \in Of(f) : Live(j) => j = i
      BY <2>1, <3>1, <3>2 DEF FamilySound, Dead
    <3>4. Knows(q, f)
      BY <1>5, <3>3 DEF Knows
    <3>5. QED
      BY <1>3, <3>4 DEF Knows, Of, Live, Revoked, Issued, Dead
  <2>4. QED
    BY <2>2, <2>3
<1>9. \A f \in Families \ excused' : Knows(q, f)'
  BY <1>8 DEF History
<1>10. QED
  BY <1>3, <1>5, <1>6, <1>7, <1>9, TokensRest DEF History

LEMMA RefreshAccountKeeps ==
    ASSUME SessionsInv, NEW r \in Reqs, RefreshAccount(r), History(r) PROVE SessionsInv'
<1>1. /\ rq[r].op = "refresh" /\ rq[r].pc = "account" /\ UNCHANGED <<version, tokens>>
      /\ rq[r] \in RefreshRequest /\ SessionSound(rq[r])
  BY RequestIs DEF RefreshAccount, At
<1>2. PICK sv \in 0 .. MaxVersion : sv = version[rq[r].acc]
  BY <1>1 DEF SessionsInv, SessionsTyped, RefreshRequest
<1>3. PICK q : q = [op |-> "refresh", pc |-> "mark", acc |-> rq[r].acc, fam |-> rq[r].fam,
                    token |-> rq[r].token, sv |-> sv]
  OBVIOUS
<1>4. rq' = [rq EXCEPT ![r] = q]
  <2>1. With(r, [pc |-> "mark", sv |-> sv])
    BY <1>2 DEF RefreshAccount
  <2>2. [f \in {"pc", "sv"} \cup DOMAIN rq[r] |->
           IF f \in {"pc", "sv"} THEN [pc |-> "mark", sv |-> sv][f] ELSE rq[r][f]] = q
    BY <1>1, <1>3 DEF RefreshRequest
  <2>3. QED
    BY <2>1, <2>2 DEF With
<1>5. /\ q \in RefreshRequest /\ q \in SessionRequest /\ q.op = "refresh" /\ q.pc = "mark"
      /\ q.acc = rq[r].acc
      /\ q.fam = rq[r].fam /\ q.token = rq[r].token /\ q.sv = sv
  BY <1>1, <1>3 DEF RefreshRequest, SessionRequest
<1>6. VersionsGrow
  BY <1>1, SessionsAssumption DEF SessionsInv, SessionsTyped, VersionsGrow
<1>7. SessionSound(q)'
  BY <1>1, <1>2, <1>5 DEF SessionSound, Issued
<1>8. ASSUME NEW f \in Families \ excused PROVE Knows(q, f)'
  <2>1. Knows(rq[r], f)
    BY DEF SessionsInv, FamilySound
  <2>2. Knows(q, f)
    BY <1>1, <1>5, <2>1 DEF Knows
  <2>3. QED
    BY <1>1, <2>2 DEF Knows, Of, Live, Revoked, Issued, Dead
<1>9. \A f \in Families \ excused' : Knows(q, f)'
  BY <1>8 DEF History
<1>10. QED
  BY <1>1, <1>4, <1>5, <1>6, <1>7, <1>9, TokensRest DEF History

LEMMA GivingUpKeeps ==
    ASSUME SessionsInv, NEW r \in Reqs, GivesUp(r), UNCHANGED <<version, tokens>>, History(r)
    PROVE  SessionsInv'
<1>1. rq' = [rq EXCEPT ![r] = Idle] /\ rq[r].op # "idle"
  BY DEF GivesUp, Finish
<1>2. VersionsGrow
  BY SessionsAssumption DEF SessionsInv, SessionsTyped, VersionsGrow
<1>3. Idle \in SessionRequest /\ SessionSound(Idle)' /\ \A f \in Families : Knows(Idle, f)'
  BY DEF SessionRequest, Idle, SessionSound, Knows
<1>4. QED
  BY <1>1, <1>2, <1>3, TokensRest DEF History

\* A bump leaves behind every token issued so far.
Behind(f) == \A i \in Of(f) : tokens[i].sv < version[tokens[i].acc]

LEMMA BumpLeaves ==
    ASSUME SessionsInv, UNCHANGED tokens, NEW a \in Accounts, version[a] < MaxVersion,
           version' = [version EXCEPT ![a] = @ + 1]
    PROVE  VersionsGrow /\ \A f \in Families : Owner(f) = a => Behind(f)'
<1>1. version \in [Accounts -> 0 .. MaxVersion] /\ MaxVersion \in Nat
  BY TokensAre DEF SessionsInv, SessionsTyped
<1>2. VersionsGrow
  BY <1>1 DEF VersionsGrow
<1>3. ASSUME NEW f \in Families, Owner(f) = a, NEW i \in Of(f)
      PROVE  tokens'[i].sv < version'[tokens'[i].acc]
  <2>1. i \in Issued /\ tokens[i].acc = a /\ tokens[i] \in Token /\ TokenSound(i)
    BY <1>3, TokensAre DEF SessionsInv, Of
  <2>2. PICK n \in Int : n = tokens[i].sv /\ n <= version[a]
    BY <2>1 DEF Token, TokenSound
  <2>3. version'[a] = version[a] + 1 /\ version[a] \in Int
    BY <1>1
  <2>4. n < version'[a]
    BY <2>2, <2>3
  <2>5. QED
    BY <2>1, <2>2, <2>4
<1>4. QED
  BY <1>2, <1>3 DEF Behind, Of, Issued

LEMMA BumpAfterReuseKeeps ==
    ASSUME SessionsInv, NEW r \in Reqs, BumpAfterReuse(r), History(r) PROVE SessionsInv'
<1>1. /\ rq[r].op = "refresh" /\ rq[r] \in RefreshRequest /\ SessionSound(rq[r])
      /\ rq' = [rq EXCEPT ![r] = Idle]
      /\ UNCHANGED tokens
  BY RequestIs DEF BumpAfterReuse, At, Finish
<1>2. PICK a \in Accounts : a = rq[r].acc
  BY <1>1 DEF RefreshRequest
<1>3. version[a] < MaxVersion /\ version' = [version EXCEPT ![a] = @ + 1]
  BY <1>2 DEF BumpAfterReuse
<1>4. VersionsGrow
  BY <1>1, <1>3, BumpLeaves
<1>5. Idle \in SessionRequest /\ SessionSound(Idle)' /\ \A f \in Families : Knows(Idle, f)'
  BY DEF SessionRequest, Idle, SessionSound, Knows
<1>6. QED
  BY <1>1, <1>4, <1>5, TokensRest DEF History

LEMMA SignOutBumpKeeps ==
    ASSUME SessionsInv, NEW r \in Reqs, SignOutBump(r), History(r) PROVE SessionsInv'
<1>1. /\ rq[r].op = "signout" /\ rq[r] \in SignOutRequest /\ UNCHANGED tokens
  BY RequestIs DEF SignOutBump, At
<1>2. PICK a \in Accounts : a = rq[r].acc
  BY <1>1 DEF SignOutRequest
<1>3. version[a] < MaxVersion /\ version' = [version EXCEPT ![a] = @ + 1]
  BY <1>2 DEF SignOutBump
<1>4. VersionsGrow
  BY <1>1, <1>3, BumpLeaves
<1>5. PICK q : q = [rq[r] EXCEPT !.pc = "revoke"]
  OBVIOUS
<1>6. /\ q \in SignOutRequest /\ q \in SessionRequest /\ q.op = "signout" /\ q.pc = "revoke"
      /\ q.acc = a
  BY <1>1, <1>2, <1>5 DEF SignOutRequest, SessionRequest
<1>7. rq' = [rq EXCEPT ![r] = q]
  BY <1>5 DEF SignOutBump, Goto
<1>8. SessionSound(q)'
  BY <1>6 DEF SessionSound
<1>9. \A f \in Families : Knows(q, f)'
  BY <1>6 DEF Knows
<1>10. QED
  BY <1>1, <1>4, <1>6, <1>7, <1>8, <1>9, TokensRest DEF History

LEMMA MarkingIs ==
    ASSUME SessionsInv, NEW r \in Reqs, RefreshMark(r)
    PROVE  /\ TokensStay /\ UNCHANGED version
           /\ rq[r].token \in Issued /\ tokens'[rq[r].token].used
           /\ \A i \in Issued : /\ tokens'[i].revoked = tokens[i].revoked
                                /\ i # rq[r].token => tokens'[i] = tokens[i]
<1>1. /\ rq[r].op = "refresh" /\ SessionSound(rq[r]) /\ UNCHANGED version
  BY RequestIs DEF RefreshMark, At
<1>2. PICK k \in Issued : k = rq[r].token /\ tokens[k].fam = rq[r].fam
  BY <1>1 DEF SessionSound
<1>3. tokens' = [tokens EXCEPT ![k].used = TRUE] /\ tokens \in Seq(Token)
  BY <1>2 DEF RefreshMark, SessionsInv, SessionsTyped
<1>4. PICK token : token = [tokens[k] EXCEPT !.used = TRUE]
  OBVIOUS
<1>5. /\ token \in Token /\ token.acc = tokens[k].acc /\ token.fam = tokens[k].fam
      /\ token.sv = tokens[k].sv
      /\ token.used = TRUE /\ token.revoked = tokens[k].revoked
  BY <1>2, <1>4, TokensAre DEF Token
<1>6. tokens' = [tokens EXCEPT ![k] = token]
  BY <1>3, <1>4
<1>7. /\ tokens' \in Seq(Token) /\ Len(tokens') = Len(tokens) /\ tokens'[k] = token
      /\ \A i \in Issued : i # k => tokens'[i] = tokens[i]
  BY <1>2, <1>3, <1>5, <1>6 DEF Issued
<1>8. TokensStay /\ \A i \in Issued : tokens'[i].revoked = tokens[i].revoked
  BY <1>5, <1>7 DEF TokensStay
<1>9. QED
  BY <1>1, <1>2, <1>5, <1>7, <1>8

LEMMA RefreshMarkKeeps ==
    ASSUME SessionsInv, NEW r \in Reqs, RefreshMark(r), History(r) PROVE SessionsInv'
<1>1. /\ rq[r].op = "refresh" /\ rq[r].pc = "mark" /\ rq[r] \in RefreshRequest
      /\ SessionSound(rq[r])
      /\ UNCHANGED version
  BY RequestIs DEF RefreshMark, At
<1>2. PICK k \in Issued : k = rq[r].token /\ tokens[k].fam = rq[r].fam
  BY <1>1 DEF SessionSound
<1>3. /\ TokensStay /\ tokens'[k].used
      /\ \A i \in Issued : tokens'[i].revoked = tokens[i].revoked /\ (i # k => tokens'[i] = tokens[i])
  <2>1. rq[r].token \in Issued
    BY <1>2
  <2>2. /\ TokensStay /\ tokens'[rq[r].token].used
        /\ \A i \in Issued : /\ tokens'[i].revoked = tokens[i].revoked
                             /\ i # rq[r].token => tokens'[i] = tokens[i]
    BY <2>1, MarkingIs
  <2>3. QED
    BY <1>2, <2>2
<1>4. VersionsGrow
  BY <1>1, SessionsAssumption DEF SessionsInv, SessionsTyped, VersionsGrow
<1>5. PICK q : q = [rq[r] EXCEPT !.pc = "issue"]
  OBVIOUS
<1>6. /\ q \in RefreshRequest /\ q \in SessionRequest /\ q.op = "refresh" /\ q.pc = "issue"
       /\ q.acc = rq[r].acc
       /\ q.fam = rq[r].fam /\ q.token = k /\ q.sv = rq[r].sv
  BY <1>1, <1>2, <1>5 DEF RefreshRequest, SessionRequest
<1>7. rq' = [rq EXCEPT ![r] = q]
  BY <1>5 DEF RefreshMark, Goto
<1>8. SessionSound(q)'
  BY <1>1, <1>2, <1>3, <1>6, StayingIs DEF SessionSound, TokensStay
<1>9. ASSUME NEW f \in Families \ excused PROVE FamilySound(f)'
  <2>1. Knows(rq[r], f)
    BY DEF SessionsInv, FamilySound
  <2>2. Of(f)' = Of(f) /\ Owner(f)' = Owner(f) /\ Of(f) \subseteq Issued
    BY <1>3, StayingIs DEF Of
  <2>3. Knows(q, f)'
    <3>1. CASE q.fam # f
      BY <1>6, <3>1 DEF Knows
    <3>2. CASE q.fam = f
      <4>1. \A i \in Of(f) : Live(i) => i = k
        BY <1>1, <1>2, <1>6, <2>1, <3>2 DEF Knows
      <4>2. \A i \in Of(f) : ~Live(i)'
        BY <1>3, <2>2, <4>1 DEF Live
      <4>3. ~Revoked(f)
        BY <1>1, <1>6, <2>1, <3>2 DEF Knows
      <4>4. ~Revoked(f)'
        BY <1>3, <2>2, <4>3 DEF Revoked
      <4>5. QED
        BY <1>6, <2>2, <4>2, <4>4 DEF Knows, Dead
    <3>3. QED
      BY <3>1, <3>2
  <2>4. FamilyUnrevoked(f)
    BY <1>3, <2>2 DEF TokensStay, FamilyUnrevoked
  <2>5. q \in SessionRequest
    BY <1>6
  <2>6. QED
    BY <1>4, <1>7, <2>3, <2>4, <2>5, FamilyStays
<1>10. \A f \in Families \ excused' : FamilySound(f)'
  BY <1>9 DEF History
<1>11. QED
  BY <1>3, <1>4, <1>6, <1>7, <1>8, <1>10, HandlerMoves DEF History

\* Revoking: the tokens of a family, or those of an account.
Revokes(S) == tokens' = [i \in Issued |-> [tokens[i] EXCEPT !.revoked = @ \/ i \in S]]

OnlyRevoked(S) ==
    \A i \in Issued : /\ tokens'[i].used = tokens[i].used
                      /\ tokens'[i].revoked <=> (tokens[i].revoked \/ i \in S)

LEMMA RevokingIs ==
    ASSUME SessionsInv, NEW S, S \subseteq Issued, Revokes(S)
    PROVE  TokensStay /\ OnlyRevoked(S)
<1>1. ASSUME NEW i \in Issued
      PROVE  /\ tokens'[i] \in Token /\ tokens'[i].acc = tokens[i].acc /\ tokens'[i].fam = tokens[i].fam
             /\ tokens'[i].sv = tokens[i].sv /\ tokens'[i].used = tokens[i].used
             /\ tokens'[i].revoked <=> (tokens[i].revoked \/ i \in S)
  <2>1. PICK revoked \in BOOLEAN : revoked = (tokens[i].revoked \/ i \in S)
    OBVIOUS
  <2>2. tokens'[i] = [tokens[i] EXCEPT !.revoked = revoked] /\ tokens[i] \in Token
    BY <2>1, TokensAre DEF Revokes
  <2>3. QED
    BY <2>1, <2>2 DEF Token
<1>2. Issued = 1 .. Len(tokens) /\ Len(tokens) \in Nat
  BY TokensAre
<1>3. tokens' \in Seq(Token) /\ Len(tokens') = Len(tokens)
  <2>1. PICK n \in Nat : n = Len(tokens)
    BY <1>2
  <2>2. \A i \in 1 .. n : tokens'[i] \in Token
    BY <1>1, <1>2, <2>1
  <2>3. tokens' = [i \in 1 .. n |-> tokens'[i]]
    BY <1>2, <2>1 DEF Revokes
  <2>4. QED
    BY <2>1, <2>2, <2>3
<1>4. QED
  BY <1>1, <1>3 DEF TokensStay, OnlyRevoked

LEMMA RevokeFamilyKeeps ==
    ASSUME SessionsInv, NEW r \in Reqs, RevokeFamily(r), History(r) PROVE SessionsInv'
<1>1. /\ rq[r].op = "refresh" /\ rq[r].pc = "family" /\ rq[r] \in RefreshRequest
      /\ SessionSound(rq[r])
      /\ UNCHANGED version
  BY RequestIs DEF RevokeFamily, At
<1>2. PICK k : k = rq[r].fam
  OBVIOUS
<1>3. TokensStay /\ OnlyRevoked(Of(k))
  <2>1. Of(k) \subseteq Issued /\ Revokes(Of(k))
    BY <1>2 DEF RevokeFamily, Of, Revokes
  <2>2. QED
    BY <2>1, RevokingIs
<1>4. VersionsGrow
  BY <1>1, SessionsAssumption DEF SessionsInv, SessionsTyped, VersionsGrow
<1>5. PICK q : q = [rq[r] EXCEPT !.pc = "bump"]
  OBVIOUS
<1>6. /\ q \in RefreshRequest /\ q \in SessionRequest /\ q.op = "refresh" /\ q.pc = "bump"
      /\ q.acc = rq[r].acc
      /\ q.fam = k /\ q.token = rq[r].token /\ q.sv = rq[r].sv
  BY <1>1, <1>2, <1>5 DEF RefreshRequest, SessionRequest
<1>7. rq' = [rq EXCEPT ![r] = q]
  BY <1>5 DEF RevokeFamily, Goto
<1>8. SessionSound(q)'
  BY <1>1, <1>2, <1>3, <1>6, StayingIs DEF SessionSound, TokensStay
<1>9. ASSUME NEW f \in Families \ excused PROVE FamilySound(f)'
  <2>1. Of(f)' = Of(f) /\ Owner(f)' = Owner(f) /\ Of(f) \subseteq Issued
    BY <1>3, StayingIs DEF Of
  <2>2. CASE f = k
    <3>1. Handles(rq[r], f)
      BY <1>1, <1>2, <2>2 DEF Handles
    <3>2. \A i \in Of(f) : tokens'[i].revoked
      BY <1>3, <2>1, <2>2 DEF OnlyRevoked
    <3>3. QED
      BY <1>1, <1>6, <1>7, <2>1, <2>2, <3>1, <3>2, FamilyEnds
  <2>3. CASE f # k
    <3>1. FamilyUnrevoked(f)
      BY <1>3, <2>1, <2>3 DEF TokensStay, OnlyRevoked, FamilyUnrevoked, Of
    <3>2. Knows(q, f)'
      BY <1>6, <2>3 DEF Knows
    <3>3. QED
      BY <1>4, <1>6, <1>7, <3>1, <3>2, FamilyStays
  <2>4. QED
    BY <2>2, <2>3
<1>10. \A f \in Families \ excused' : FamilySound(f)'
  BY <1>9 DEF History
<1>11. QED
  BY <1>3, <1>4, <1>6, <1>7, <1>8, <1>10, HandlerMoves DEF History

LEMMA SignOutRevokeKeeps ==
    ASSUME SessionsInv, NEW r \in Reqs, SignOutRevoke(r), History(r) PROVE SessionsInv'
<1>1. /\ rq[r].op = "signout" /\ rq[r].pc = "revoke" /\ rq' = [rq EXCEPT ![r] = Idle]
      /\ UNCHANGED version
  BY DEF SignOutRevoke, At, Finish
<1>2. PICK a : a = rq[r].acc
  OBVIOUS
<1>3. PICK S : S = {i \in Issued : tokens[i].acc = a}
  OBVIOUS
<1>4. TokensStay /\ OnlyRevoked(S)
  <2>1. S \subseteq Issued /\ Revokes(S)
    BY <1>2, <1>3 DEF SignOutRevoke, Revokes
  <2>2. QED
    BY <2>1, RevokingIs
<1>5. VersionsGrow
  BY <1>1, SessionsAssumption DEF SessionsInv, SessionsTyped, VersionsGrow
<1>6. Idle \in SessionRequest /\ SessionSound(Idle)' /\ \A f : Knows(Idle, f)'
  BY DEF SessionRequest, Idle, SessionSound, Knows
<1>7. ASSUME NEW f \in Families \ excused PROVE FamilySound(f)'
  <2>1. /\ Of(f)' = Of(f) /\ Owner(f)' = Owner(f) /\ Of(f) \subseteq Issued
        /\ \A i \in Of(f) : tokens[i].acc = Owner(f)
    BY <1>4, StayingIs, TokensAre DEF Of
  <2>2. CASE Owner(f) = a
    <3>1. Handles(rq[r], f)
      BY <1>1, <1>2, <2>2 DEF Handles
    <3>2. \A i \in Of(f) : i \in S
      BY <1>3, <2>1, <2>2
    <3>3. \A i \in Of(f) : tokens'[i].revoked
      BY <1>4, <2>1, <3>2 DEF OnlyRevoked
    <3>4. QED
      BY <1>1, <2>1, <3>1, <3>3, FamilyEnds
  <2>3. CASE Owner(f) # a
    <3>1. FamilyUnrevoked(f)
      BY <1>3, <1>4, <2>1, <2>3 DEF TokensStay, OnlyRevoked, FamilyUnrevoked
    <3>2. Knows(Idle, f)' /\ Idle \in SessionRequest
      BY <1>6
    <3>3. QED
      BY <1>1, <1>5, <3>1, <3>2, FamilyStays
  <2>4. QED
    BY <2>2, <2>3
<1>8. \A f \in Families \ excused' : FamilySound(f)'
  BY <1>7 DEF History
<1>9. QED
  BY <1>1, <1>4, <1>5, <1>6, <1>8, HandlerMoves DEF History

\* issueSession stores one more token, in the family of the refresh or in one of its own.
IssuesToken(k, t) ==
    /\ tokens' = Append(tokens, t) /\ UNCHANGED version
    /\ t \in Token /\ t.fam = k /\ ~t.revoked /\ t.sv <= version[t.acc]
    /\ k \in Issued => Owner(k) = t.acc

LEMMA StoringIs ==
    ASSUME SessionsInv, NEW k, NEW t, IssuesToken(k, t), Len(tokens) < MaxTokens,
           k \in Families \/ k = Len(tokens) + 1
    PROVE  /\ tokens' \in Seq(Token) /\ Len(tokens') <= MaxTokens
           /\ Len(tokens) + 1 \notin Issued /\ Issued' = Issued \cup {Len(tokens) + 1}
           /\ tokens'[Len(tokens) + 1] = t /\ \A i \in Issued : tokens'[i] = tokens[i]
           /\ Families' = Families \cup {k}
           /\ \A f \in Families : Owner(f)' = Owner(f)
           /\ \A f : f # k => Of(f)' = Of(f)
           /\ Of(k)' = Of(k) \cup {Len(tokens) + 1}
           /\ VersionsGrow
<1>1. PICK n : n = Len(tokens) + 1
  OBVIOUS
<1>2. tokens \in Seq(Token) /\ t \in Token /\ tokens' = Append(tokens, t)
  BY DEF SessionsInv, SessionsTyped, IssuesToken
<1>3. /\ tokens' \in Seq(Token) /\ Len(tokens') = n /\ Len(tokens') <= MaxTokens
      /\ n \notin Issued /\ Issued' = Issued \cup {n}
      /\ tokens'[n] = t /\ \A i \in Issued : tokens'[i] = tokens[i]
  BY <1>1, <1>2, TokensAre DEF Issued
<1>4. t.fam = k
  BY DEF IssuesToken
<1>5. Families' = Families \cup {k}
  BY <1>3, <1>4 DEF Families
<1>6. \A f \in Families : Owner(f)' = Owner(f)
  BY <1>3, TokensAre DEF Owner
<1>7. (\A f : f # k => Of(f)' = Of(f)) /\ Of(k)' = Of(k) \cup {n}
  BY <1>3, <1>4 DEF Of
<1>8. VersionsGrow
  BY SessionsAssumption DEF SessionsInv, SessionsTyped, VersionsGrow, IssuesToken
<1>9. QED
  BY <1>1, <1>3, <1>5, <1>6, <1>7, <1>8

\* The family that gets the token: its only live one.
LEMMA FamilyGrows ==
    ASSUME SessionsInv, NEW r \in Reqs, NEW k, NEW t, IssuesToken(k, t), Len(tokens) < MaxTokens,
           k \in Families \/ k = Len(tokens) + 1,
           \A i \in Of(k) : ~Live(i) /\ ~tokens[i].revoked,
           \A s \in Reqs : ~Handles(rq[s], k)'
    PROVE  FamilySound(k)'
<1>1. PICK n : n = Len(tokens) + 1
  OBVIOUS
<1>2. Of(k)' = Of(k) \cup {n} /\ tokens'[n] = t /\ Of(k) \subseteq Issued /\ \A i \in Issued : tokens'[i] = tokens[i]
  BY <1>1, StoringIs DEF Of
<1>3. \A i \in Of(k) : ~Live(i)' /\ ~tokens'[i].revoked
  BY <1>2 DEF Live
<1>4. ~t.revoked
  BY DEF IssuesToken
<1>5. ~Revoked(k)'
  BY <1>2, <1>3, <1>4 DEF Revoked
<1>6. \A i, j \in Of(k)' : Live(i)' /\ Live(j)' => i = j
  BY <1>2, <1>3
<1>7. \A s \in Reqs : Knows(rq[s], k)'
  BY DEF Knows, Handles
<1>8. QED
  BY <1>5, <1>6, <1>7 DEF FamilySound

LEMMA StoringKeeps ==
    ASSUME SessionsInv, NEW r \in Reqs, NEW k, NEW t, IssuesToken(k, t), Len(tokens) < MaxTokens,
           k \in Families \/ k = Len(tokens) + 1, rq[r].pc = "issue", rq' = [rq EXCEPT ![r] = Idle], History(r),
           k \notin excused' => FamilySound(k)'
    PROVE  SessionsInv'
<1>1. PICK n : n = Len(tokens) + 1
  OBVIOUS
<1>2. /\ tokens' \in Seq(Token) /\ Len(tokens') <= MaxTokens
      /\ n \notin Issued /\ Issued' = Issued \cup {n}
      /\ tokens'[n] = t /\ \A i \in Issued : tokens'[i] = tokens[i]
      /\ Families' = Families \cup {k}
      /\ \A f \in Families : Owner(f)' = Owner(f)
      /\ \A f : f # k => Of(f)' = Of(f)
      /\ VersionsGrow
  BY <1>1, StoringIs
<1>3. /\ UNCHANGED version /\ t.fam = k /\ t.sv <= version[t.acc]
      /\ (k \in Issued => Owner(k) = t.acc)
  BY DEF IssuesToken
<1>4. rq' \in [Reqs -> SessionRequest] /\ rq'[r] = Idle /\ \A s \in Reqs : s # r => rq'[s] = rq[s]
  BY DEF SessionsInv, SessionsTyped, SessionRequest
<1>5. excused' \subseteq Families'
  <2>1. Died(r) = {}
    BY <1>2 DEF Died, Issued
  <2>2. Overlapped' \subseteq Families' /\ Founded \subseteq Families'
    BY DEF Overlapped, Founded
  <2>3. QED
    BY <1>2, <2>1, <2>2 DEF History, SessionsInv, SessionsTyped
<1>6. SessionsTyped'
  BY <1>2, <1>3, <1>4, <1>5 DEF SessionsInv, SessionsTyped
<1>7. ASSUME NEW i \in Issued' PROVE TokenSound(i)'
  <2>1. CASE i = n
    <3>1. k \in Issued' /\ Owner(k)' = t.acc
      BY <1>1, <1>2, <1>3, TokensAre DEF Owner
    <3>2. QED
      BY <1>2, <1>3, <2>1, <3>1 DEF TokenSound
  <2>2. CASE i \in Issued
    <3>1. TokenSound(i) /\ tokens'[i] = tokens[i] /\ tokens[i].fam \in Families
      BY <1>2, <2>2, TokensAre DEF SessionsInv
    <3>2. QED
      BY <1>2, <1>3, <3>1 DEF TokenSound
  <2>3. QED
    BY <1>2, <2>1, <2>2
<1>8. ASSUME NEW s \in Reqs PROVE SessionSound(rq[s])'
  <2>1. CASE s = r
    BY <1>4, <2>1 DEF SessionSound, Idle
  <2>2. CASE s # r
    <3>1. SessionSound(rq[s]) /\ rq'[s] = rq[s]
      BY <1>4, <2>2, RequestIs
    <3>2. QED
      BY <1>2, <1>3, <3>1 DEF SessionSound
  <2>3. QED
    BY <2>1, <2>2
<1>9. ASSUME NEW f \in Families' \ excused' PROVE FamilySound(f)'
  <2>1. CASE f = k
    BY <1>9, <2>1
  <2>2. CASE f # k
    <3>1. f \in Families \ excused
      BY <1>2, <1>9, <2>2 DEF History
    <3>2. FamilyUnrevoked(f)
      BY <1>2, <2>2, <3>1 DEF FamilyUnrevoked, Of
    <3>3. Knows(Idle, f)' /\ Idle \in SessionRequest
      BY DEF Knows, Idle, SessionRequest
    <3>4. QED
      BY <1>2, <3>1, <3>2, <3>3, FamilyStays
  <2>3. QED
    BY <2>1, <2>2
<1>10. \A f \in Families' \ excused' : Alone(f)'
  BY AloneNext DEF History
<1>11. QED
  BY <1>6, <1>7, <1>8, <1>9, <1>10 DEF SessionsInv

LEMMA IssuingIs ==
    ASSUME SessionsInv, NEW r \in Reqs, IssueSession(r)
    PROVE  \E k, t : /\ IssuesToken(k, t) /\ (k \in Families \/ k = Len(tokens) + 1)
                     /\ rq[r].op = "refresh" => k = rq[r].fam /\ k \in Families
                     /\ rq[r].op # "refresh" => k = Len(tokens) + 1 /\ k \notin Issued /\ k \notin Families
<1>1. rq[r].pc = "issue" /\ Len(tokens) < MaxTokens /\ UNCHANGED version /\ SessionSound(rq[r])
  BY RequestIs DEF IssueSession
<1>2. PICK k : k = (IF rq[r].op = "refresh" THEN rq[r].fam ELSE Len(tokens) + 1)
  OBVIOUS
<1>3. PICK t : t = [acc |-> rq[r].acc, used |-> FALSE, revoked |-> FALSE, sv |-> rq[r].sv, fam |-> k]
  OBVIOUS
<1>4. tokens' = Append(tokens, t)
  BY <1>2, <1>3 DEF IssueSession
<1>5. CASE rq[r].op = "refresh"
  <2>1. /\ rq[r] \in RefreshRequest /\ k = rq[r].fam /\ k \in Families
        /\ Owner(k) = rq[r].acc /\ rq[r].sv <= version[rq[r].acc]
    BY <1>1, <1>2, <1>5, RequestIs, TokensAre DEF SessionSound, SessionsInv, TokenSound
  <2>2. t \in Token
    BY <1>3, <2>1 DEF RefreshRequest, Token
  <2>3. QED
    BY <1>1, <1>3, <1>4, <1>5, <2>1, <2>2 DEF IssuesToken
<1>6. CASE rq[r].op # "refresh"
  <2>1. rq[r] \in SignInRequest /\ k = Len(tokens) + 1 /\ rq[r].sv <= version[rq[r].acc]
    BY <1>1, <1>2, <1>6, RequestIs
       DEF SessionSound, SessionRequest, Idle, SignOutRequest, SignInRequest
  <2>2. k \notin Issued /\ k \notin Families /\ k \in 1 .. MaxTokens
    BY <1>1, <2>1, TokensAre
  <2>3. t \in Token
    BY <1>3, <2>1, <2>2 DEF SignInRequest, Token
  <2>4. QED
    BY <1>1, <1>3, <1>4, <1>6, <2>1, <2>2, <2>3 DEF IssuesToken
<1>7. QED
  BY <1>5, <1>6

LEMMA IssueSessionKeeps ==
    ASSUME SessionsInv, NEW r \in Reqs, IssueSession(r), History(r) PROVE SessionsInv'
<1>1. rq[r].pc = "issue" /\ Len(tokens) < MaxTokens /\ rq' = [rq EXCEPT ![r] = Idle]
  BY DEF IssueSession, Finish
<1>2. rq'[r] = Idle /\ \A s \in Reqs : s # r => rq'[s] = rq[s]
  BY <1>1 DEF SessionsInv, SessionsTyped
<1>3. PICK k, t : /\ IssuesToken(k, t) /\ (k \in Families \/ k = Len(tokens) + 1)
                  /\ rq[r].op = "refresh" => k = rq[r].fam /\ k \in Families
                  /\ rq[r].op # "refresh" => k = Len(tokens) + 1 /\ k \notin Issued /\ k \notin Families
  BY IssuingIs
<1>4. ASSUME rq[r].op = "refresh", k \notin excused' PROVE FamilySound(k)'
  <2>1. k = rq[r].fam /\ k \in Families /\ k \notin excused
    BY <1>3, <1>4 DEF History
  <2>2. Knows(rq[r], k) /\ Alone(k)
    BY <2>1 DEF SessionsInv, FamilySound
  <2>3. Dead(k) /\ ~Revoked(k)
    BY <1>1, <1>4, <2>1, <2>2 DEF Knows
  <2>4. \A i \in Of(k) : ~Live(i) /\ ~tokens[i].revoked
    BY <2>3 DEF Dead, Revoked
  <2>5. Owner(k)' = Owner(k)
    BY <1>1, <1>3, <2>1, StoringIs
  <2>6. \A s \in Reqs : ~Handles(rq[s], k)'
    <3>1. Handles(rq[r], k)
      BY <1>4, <2>1 DEF Handles
    <3>2. \A s \in Reqs : s # r => ~Handles(rq[s], k)
      BY <2>2, <3>1 DEF Alone
    <3>3. QED
      BY <1>2, <2>5, <3>2 DEF Handles, Idle
  <2>7. QED
    BY <1>1, <1>3, <2>4, <2>6, FamilyGrows
<1>5. ASSUME rq[r].op # "refresh", k \notin excused' PROVE FamilySound(k)'
  <2>1. k \in Families' \ Families
    BY <1>1, <1>3, <1>5, StoringIs
  <2>2. \A s \in Reqs : ~(k \in Touches(s)')
    BY <1>5, <2>1 DEF History, Founded
  <2>3. \A s \in Reqs : ~Handles(rq[s], k)'
    BY <2>1, <2>2 DEF Handles, Touches
  <2>4. Of(k) = {}
    BY <1>3, <1>5, TokensAre DEF Of
  <2>5. QED
    BY <1>1, <1>3, <2>3, <2>4, FamilyGrows
<1>6. QED
  BY <1>1, <1>3, <1>4, <1>5, StoringKeeps

LEMMA SessionsStepKeeps == ASSUME SessionsInv, SessionsNext PROVE SessionsInv'
<1>1. PICK r \in Reqs : SessionsStep(r) /\ History(r)
  BY DEF SessionsNext, History
<1>2. CASE \E a \in Accounts : SignIn(r, a)
  BY <1>1, <1>2, SignInKeeps
<1>3. CASE \E i \in Issued : RefreshBegin(r, i)
  BY <1>1, <1>3, RefreshBeginKeeps
<1>4. CASE \E i \in Issued : SignOutBegin(r, i)
  BY <1>1, <1>4, SignOutBeginKeeps
<1>5. CASE IssueSession(r)
  BY <1>1, <1>5, IssueSessionKeeps
<1>6. CASE RefreshAccount(r)
  BY <1>1, <1>6, RefreshAccountKeeps
<1>7. CASE RefreshMark(r)
  BY <1>1, <1>7, RefreshMarkKeeps
<1>8. CASE RevokeFamily(r)
  BY <1>1, <1>8, RevokeFamilyKeeps
<1>9. CASE BumpAfterReuse(r)
  BY <1>1, <1>9, BumpAfterReuseKeeps
<1>10. CASE SignOutBump(r)
  BY <1>1, <1>10, SignOutBumpKeeps
<1>11. CASE SignOutRevoke(r)
  BY <1>1, <1>11, SignOutRevokeKeeps
<1>12. CASE GivesUp(r) /\ UNCHANGED <<version, tokens>>
  BY <1>1, <1>12, GivingUpKeeps
<1>13. QED
  BY <1>1, <1>2, <1>3, <1>4, <1>5, <1>6, <1>7, <1>8, <1>9, <1>10, <1>11, <1>12 DEF SessionsStep

LEMMA SessionsStutter == ASSUME SessionsInv, UNCHANGED sessionsVars PROVE SessionsInv'
BY DEF SessionsInv, sessionsVars, SessionsTyped, TokenSound, SessionSound, Alone, FamilySound,
       Handles, Of,
       Revoked, Dead, Knows, Issued, Families, Owner, Live, At

\* A completed revocation is final. Its history vouches for it: a family that it has not met
\* has no rotation under way, and is barred by its first statement or left behind by it.

Rotates(q, f) == q.op = "refresh" /\ q.pc \in {"account", "mark", "issue"} /\ q.fam = f
Resting(f) == \A s \in Reqs : ~Rotates(rq[s], f)
Barred(f) == \A i \in Of(f) : tokens[i].revoked

HalfWay(r, f) ==
    /\ At(r, "refresh", "bump") /\ rq[r].fam = f => Barred(f)
    /\ At(r, "signout", "revoke") /\ rq[r].acc = Owner(f) => Behind(f)

RevocationInv ==
    /\ ended \subseteq Families /\ met \in [Reqs -> SUBSET Families]
    /\ \A f \in ended : Barred(f) /\ Behind(f) /\ Resting(f)
    /\ \A r \in Reqs : Revoking(r) => \A f \in Families \ met[r] : Resting(f) /\ HalfWay(r, f)

LEMMA SessionsMean ==
    ASSUME SessionsInv, RevocationInv PROVE SessionsTypeOK /\ OneLiveToken /\ RevokedStaysOut
<1>1. SessionsTypeOK
  BY RequestIs DEF SessionsInv, SessionsTyped, RevocationInv, SessionsTypeOK
<1>2. OneLiveToken
  BY OneIsEnough DEF OneLiveToken
<1>3. ASSUME NEW f \in ended, NEW i \in Issued, tokens[i].fam = f PROVE ~Live(i) /\ ~Accepted(i)
  <2>1. tokens[i].revoked /\ tokens[i].sv < version[tokens[i].acc]
    BY <1>3 DEF RevocationInv, Barred, Behind, Of
  <2>2. tokens[i] \in Token /\ version[tokens[i].acc] \in Int
    BY TokensAre DEF SessionsInv, SessionsTyped, Token
  <2>3. tokens[i].sv \in Int
    BY <2>2 DEF Token
  <2>4. QED
    BY <2>1, <2>2, <2>3 DEF Accepted, Live
<1>4. QED
  BY <1>1, <1>2, <1>3 DEF RevokedStaysOut

\* Only an issue adds a token.
LEMMA TokensStayUnless ==
    ASSUME SessionsInv, NEW r \in Reqs, SessionsStep(r), ~IssueSession(r)
    PROVE  TokensStay /\ VersionsGrow
<1>1. /\ version \in [Accounts -> 0 .. MaxVersion] /\ MaxVersion \in Nat /\ tokens \in Seq(Token)
  BY TokensAre DEF SessionsInv, SessionsTyped
<1>2. UNCHANGED version => VersionsGrow
  BY <1>1 DEF VersionsGrow
<1>3. UNCHANGED tokens => TokensStay
  BY <1>1 DEF TokensStay
<1>4. CASE UNCHANGED <<version, tokens>>
  BY <1>2, <1>3, <1>4
<1>5. CASE RefreshMark(r)
  BY <1>2, <1>5, MarkingIs
<1>6. CASE RevokeFamily(r)
  <2>1. Of(rq[r].fam) \subseteq Issued /\ Revokes(Of(rq[r].fam)) /\ UNCHANGED version
    BY <1>6 DEF RevokeFamily, Of, Revokes
  <2>2. QED
    BY <1>2, <2>1, RevokingIs
<1>7. CASE SignOutRevoke(r)
  <2>1. PICK S : S = {i \in Issued : tokens[i].acc = rq[r].acc}
    OBVIOUS
  <2>2. S \subseteq Issued /\ Revokes(S) /\ UNCHANGED version
    BY <1>7, <2>1 DEF SignOutRevoke, Revokes
  <2>3. QED
    BY <1>2, <2>2, RevokingIs
<1>8. CASE BumpAfterReuse(r) \/ SignOutBump(r)
  <2>1. rq[r].acc \in Accounts
    BY <1>8, RequestIs DEF BumpAfterReuse, SignOutBump, At, RefreshRequest, SignOutRequest
  <2>2. UNCHANGED tokens /\ version[rq[r].acc] < MaxVersion /\ version' = [version EXCEPT ![rq[r].acc] = @ + 1]
    BY <1>8 DEF BumpAfterReuse, SignOutBump
  <2>3. QED
    BY <1>3, <2>1, <2>2, BumpLeaves
<1>9. QED
  BY <1>4, <1>5, <1>6, <1>7, <1>8 DEF SessionsStep, SignIn, RefreshBegin, SignOutBegin, RefreshAccount

\* Nothing is added to a family that no rotation works on, and once barred none will.
LEMMA RestingKeeps ==
    ASSUME SessionsInv, NEW r \in Reqs, SessionsStep(r), NEW f \in Families, Resting(f)
    PROVE  /\ f \in Families' /\ Owner(f)' = Owner(f) /\ Of(f)' = Of(f)
           /\ \A i \in Of(f) : /\ tokens'[i].acc = tokens[i].acc /\ tokens'[i].sv = tokens[i].sv
                               /\ tokens[i].revoked => tokens'[i].revoked
           /\ VersionsGrow
<1>1. CASE IssueSession(r)
  <2>1. PICK k, t : /\ IssuesToken(k, t) /\ (k \in Families \/ k = Len(tokens) + 1)
                    /\ rq[r].op = "refresh" => k = rq[r].fam
                    /\ rq[r].op # "refresh" => k \notin Families
    BY <1>1, IssuingIs
  <2>2. f # k
    BY <1>1, <2>1 DEF Resting, Rotates, IssueSession
  <2>3. Len(tokens) < MaxTokens
    BY <1>1 DEF IssueSession
  <2>4. /\ Families' = Families \cup {k} /\ Owner(f)' = Owner(f) /\ Of(f)' = Of(f)
        /\ \A i \in Issued : tokens'[i] = tokens[i]
        /\ VersionsGrow
    BY <2>1, <2>2, <2>3, StoringIs
  <2>5. QED
    BY <2>4 DEF Of
<1>2. CASE ~IssueSession(r)
  <2>1. TokensStay /\ VersionsGrow
    BY <1>2, TokensStayUnless
  <2>2. QED
    BY <2>1, StayingIs DEF TokensStay, Of
<1>3. QED
  BY <1>1, <1>2

LEMMA BehindKeeps ==
    ASSUME SessionsInv, NEW r \in Reqs, SessionsStep(r), NEW f \in Families, Resting(f), Behind(f)
    PROVE  Behind(f)'
<1>1. /\ Of(f)' = Of(f) /\ VersionsGrow
      /\ \A i \in Of(f) : tokens'[i].acc = tokens[i].acc /\ tokens'[i].sv = tokens[i].sv
  BY RestingKeeps
<1>2. ASSUME NEW i \in Of(f) PROVE tokens'[i].sv < version'[tokens'[i].acc]
  <2>1. tokens[i] \in Token
    BY TokensAre DEF Of
  <2>2. PICK a \in Accounts, n \in Int : a = tokens[i].acc /\ n = tokens[i].sv
    BY <2>1 DEF Token
  <2>3. tokens'[i].acc = a /\ tokens'[i].sv = n /\ n < version[a]
    BY <1>1, <2>2 DEF Behind
  <2>4. version[a] \in Int /\ version'[a] \in Int /\ version'[a] >= version[a]
    BY <1>1 DEF SessionsInv, SessionsTyped, VersionsGrow
  <2>5. QED
    BY <2>3, <2>4
<1>3. QED
  BY <1>1, <1>2 DEF Behind

LEMMA BarredKeeps ==
    ASSUME SessionsInv, NEW r \in Reqs, SessionsStep(r), NEW f \in Families, Resting(f), Barred(f)
    PROVE  Barred(f)' /\ Resting(f)'
<1>1. Barred(f)'
  BY RestingKeeps DEF Barred
<1>2. rq \in [Reqs -> SessionRequest]
  BY DEF SessionsInv, SessionsTyped
<1>3. \A s \in Reqs : s # r => rq'[s] = rq[s]
  BY <1>2
     DEF SessionsStep, SignIn, RefreshBegin, SignOutBegin, IssueSession, RefreshAccount, RefreshMark,
         RevokeFamily, BumpAfterReuse, SignOutBump, SignOutRevoke, GivesUp, Begin, Goto, With, Finish
<1>4. ~Rotates(rq'[r], f)
  <2>1. CASE \E i \in Issued : RefreshBegin(r, i)
    <3>1. PICK i \in Issued : RefreshBegin(r, i)
      BY <2>1
    <3>2. PICK pc : pc = (IF tokens[i].used THEN "family" ELSE "account")
      OBVIOUS
    <3>3. rq'[r].fam = tokens[i].fam /\ rq'[r].pc = pc
      BY <1>2, <3>1, <3>2 DEF RefreshBegin, Begin
    <3>4. tokens[i].fam = f => tokens[i].used
      BY <3>1 DEF RefreshBegin, Barred, Of
    <3>5. QED
      BY <3>2, <3>3, <3>4 DEF Rotates
  <2>2. CASE RefreshAccount(r)
    <3>1. rq[r] \in RefreshRequest /\ rq[r].op = "refresh" /\ rq[r].pc = "account"
      BY <2>2, RequestIs DEF RefreshAccount, At
    <3>2. rq'[r].fam = rq[r].fam
      BY <1>2, <2>2, <3>1 DEF RefreshAccount, With, RefreshRequest
    <3>3. QED
      BY <3>1, <3>2 DEF Resting, Rotates
  <2>3. CASE RefreshMark(r)
    <3>1. rq[r] \in RefreshRequest /\ rq[r].op = "refresh" /\ rq[r].pc = "mark"
      BY <2>3, RequestIs DEF RefreshMark, At
    <3>2. rq'[r].fam = rq[r].fam
      BY <1>2, <2>3, <3>1 DEF RefreshMark, Goto, RefreshRequest
    <3>3. QED
      BY <3>1, <3>2 DEF Resting, Rotates
  <2>4. CASE RevokeFamily(r)
    <3>1. rq[r] \in RefreshRequest
      BY <2>4, RequestIs DEF RevokeFamily, At
    <3>2. rq'[r].pc = "bump"
      BY <1>2, <2>4, <3>1 DEF RevokeFamily, Goto, RefreshRequest
    <3>3. QED
      BY <3>2 DEF Rotates
  <2>5. CASE SignOutBump(r)
    <3>1. rq[r] \in SignOutRequest
      BY <2>5, RequestIs DEF SignOutBump, At
    <3>2. rq'[r].pc = "revoke"
      BY <1>2, <2>5, <3>1 DEF SignOutBump, Goto, SignOutRequest
    <3>3. QED
      BY <3>2 DEF Rotates
  <2>6. CASE \/ \E a \in Accounts : SignIn(r, a)
             \/ \E i \in Issued : SignOutBegin(r, i)
    BY <1>2, <2>6 DEF SignIn, SignOutBegin, Begin, Rotates
  <2>7. CASE rq' = [rq EXCEPT ![r] = Idle]
    BY <1>2, <2>7 DEF Rotates, Idle
  <2>8. QED
    BY <2>1, <2>2, <2>3, <2>4, <2>5, <2>6, <2>7
       DEF SessionsStep, IssueSession, BumpAfterReuse, SignOutRevoke, GivesUp, Finish
<1>5. Resting(f)'
  BY <1>3, <1>4 DEF Resting
<1>6. QED
  BY <1>1, <1>5

\* What a revocation has done after its first statement, and after its second.
LEMMA RevocationBegins ==
    ASSUME SessionsInv, NEW r \in Reqs, SessionsStep(r), NEW s \in Reqs, ~Revoking(s), Revoking(s)',
           NEW f \in Families, Owner(f)' = Owner(f)
    PROVE  HalfWay(s, f)'
<1>1. rq \in [Reqs -> SessionRequest]
  BY DEF SessionsInv, SessionsTyped
<1>2. \A p \in Reqs : p # r => rq'[p] = rq[p]
  BY <1>1
     DEF SessionsStep, SignIn, RefreshBegin, SignOutBegin, IssueSession, RefreshAccount, RefreshMark,
         RevokeFamily, BumpAfterReuse, SignOutBump, SignOutRevoke, GivesUp, Begin, Goto, With, Finish
<1>3. s = r
  BY <1>2 DEF Revoking, At
<1>4. CASE RevokeFamily(r)
  <2>1. rq[r] \in RefreshRequest /\ rq' = [rq EXCEPT ![r].pc = "bump"] /\ rq'[r].op = "refresh"
    BY <1>1, <1>4, RequestIs DEF RevokeFamily, At, Goto, RefreshRequest
  <2>2. rq'[r].fam = rq[r].fam
    BY <1>1, <2>1 DEF RefreshRequest
  <2>3. Of(rq[r].fam) \subseteq Issued /\ Revokes(Of(rq[r].fam))
    BY <1>4 DEF RevokeFamily, Of, Revokes
  <2>4. TokensStay /\ OnlyRevoked(Of(rq[r].fam))
    BY <2>3, RevokingIs
  <2>5. rq[r].fam = f => Barred(f)'
    BY <2>4, StayingIs DEF Barred, OnlyRevoked, Of
  <2>6. QED
    BY <1>3, <2>1, <2>2, <2>5 DEF HalfWay, At
<1>5. CASE SignOutBump(r)
  <2>1. rq[r] \in SignOutRequest /\ rq' = [rq EXCEPT ![r].pc = "revoke"] /\ rq'[r].op = "signout"
    BY <1>1, <1>5, RequestIs DEF SignOutBump, At, Goto, SignOutRequest
  <2>2. rq'[r].acc = rq[r].acc /\ rq[r].acc \in Accounts
    BY <1>1, <2>1 DEF SignOutRequest
  <2>3. UNCHANGED tokens /\ version[rq[r].acc] < MaxVersion /\ version' = [version EXCEPT ![rq[r].acc] = @ + 1]
    BY <1>5 DEF SignOutBump
  <2>4. Owner(f) = rq[r].acc => Behind(f)'
    BY <2>2, <2>3, BumpLeaves
  <2>5. QED
    BY <1>3, <2>1, <2>2, <2>4 DEF HalfWay, At
<1>6. CASE \E i \in Issued : RefreshBegin(r, i)
  BY <1>1, <1>3, <1>6 DEF RefreshBegin, Begin, Revoking, At
<1>7. CASE \/ \E a \in Accounts : SignIn(r, a)
           \/ \E i \in Issued : SignOutBegin(r, i)
  BY <1>1, <1>3, <1>7 DEF SignIn, SignOutBegin, Begin, Revoking, At
<1>8. CASE RefreshAccount(r) \/ RefreshMark(r)
  <2>1. rq[r] \in RefreshRequest
    BY <1>8, RequestIs DEF RefreshAccount, RefreshMark, At
  <2>2. rq'[r].pc \in {"mark", "issue"}
    BY <1>1, <1>8, <2>1 DEF RefreshAccount, RefreshMark, With, Goto, RefreshRequest
  <2>3. QED
    BY <1>3, <2>2 DEF Revoking, At
<1>9. CASE rq' = [rq EXCEPT ![r] = Idle]
  BY <1>1, <1>3, <1>9 DEF Revoking, At, Idle
<1>10. QED
  BY <1>4, <1>5, <1>6, <1>7, <1>8, <1>9
     DEF SessionsStep, IssueSession, BumpAfterReuse, SignOutRevoke, GivesUp, Finish

LEMMA RevocationEnds ==
    ASSUME SessionsInv, RevocationInv, NEW r \in Reqs, SessionsStep(r),
           BumpAfterReuse(r) \/ SignOutRevoke(r), NEW f \in Touches(r) \ met[r]
    PROVE  f \in Families' /\ Barred(f)' /\ Behind(f)' /\ Resting(f)'
<1>1. f \in Families
  <2>1. CASE BumpAfterReuse(r)
    BY <2>1, RequestIs, TokensAre DEF BumpAfterReuse, At, Touches, SessionSound
  <2>2. CASE SignOutRevoke(r)
    BY <2>2 DEF SignOutRevoke, At, Touches
  <2>3. QED
    BY <2>1, <2>2
<1>2. Resting(f) /\ HalfWay(r, f)
  BY <1>1 DEF RevocationInv, Revoking, BumpAfterReuse, SignOutRevoke
<1>3. /\ f \in Families' /\ Of(f)' = Of(f) /\ Owner(f) \in Accounts
      /\ \A i \in Of(f) : i \in Issued /\ tokens[i].acc = Owner(f)
  BY <1>1, <1>2, RestingKeeps, TokensAre DEF Of
<1>4. CASE BumpAfterReuse(r)
  <2>1. rq[r].op = "refresh" /\ rq[r].pc = "bump" /\ rq[r].fam = f /\ SessionSound(rq[r])
    BY <1>4, RequestIs DEF BumpAfterReuse, At, Touches
  <2>2. Barred(f)' /\ Resting(f)'
    BY <1>1, <1>2, <2>1, BarredKeeps DEF HalfWay, At
  <2>3. Owner(f) = rq[r].acc
    BY <1>3, <2>1, TokensAre DEF SessionSound, Of
  <2>4. UNCHANGED tokens /\ version[Owner(f)] < MaxVersion /\ version' = [version EXCEPT ![Owner(f)] = @ + 1]
    BY <1>4, <2>3 DEF BumpAfterReuse
  <2>5. Behind(f)'
    BY <1>1, <1>3, <2>4, BumpLeaves
  <2>6. QED
    BY <1>3, <2>2, <2>5
<1>5. CASE SignOutRevoke(r)
  <2>1. rq[r].op = "signout" /\ rq[r].pc = "revoke" /\ Owner(f) = rq[r].acc
    BY <1>5 DEF SignOutRevoke, At, Touches
  <2>2. Behind(f)'
    BY <1>1, <1>2, <2>1, BehindKeeps DEF HalfWay, At
  <2>3. PICK S : S = {i \in Issued : tokens[i].acc = rq[r].acc}
    OBVIOUS
  <2>4. S \subseteq Issued /\ Revokes(S) /\ rq' = [rq EXCEPT ![r] = Idle]
    BY <1>5, <2>3 DEF SignOutRevoke, Revokes, Finish
  <2>5. OnlyRevoked(S)
    BY <2>4, RevokingIs
  <2>6. Barred(f)'
    BY <1>3, <2>1, <2>3, <2>5 DEF Barred, OnlyRevoked
  <2>7. Resting(f)'
    BY <1>2, <2>4 DEF Resting, Rotates, Idle, SessionsInv, SessionsTyped
  <2>8. QED
    BY <1>3, <2>2, <2>6, <2>7
<1>6. QED
  BY <1>4, <1>5

\* A revocation half-way stays where it is until its second statement.
LEMMA RevokingStays ==
    ASSUME SessionsInv, NEW r \in Reqs, SessionsStep(r), NEW s \in Reqs, Revoking(s), Revoking(s)'
    PROVE  rq'[s] = rq[s]
<1>1. rq \in [Reqs -> SessionRequest]
  BY DEF SessionsInv, SessionsTyped
<1>2. \A p \in Reqs : p # r => rq'[p] = rq[p]
  BY <1>1
     DEF SessionsStep, SignIn, RefreshBegin, SignOutBegin, IssueSession, RefreshAccount, RefreshMark,
         RevokeFamily, BumpAfterReuse, SignOutBump, SignOutRevoke, GivesUp, Begin, Goto, With, Finish
<1>3. ASSUME s = r PROVE FALSE
  <2>1. rq[r].op # "idle" /\ rq[r].pc \in {"bump", "revoke"}
    BY <1>3 DEF Revoking, At
  <2>2. rq[r].op = "signout" => rq[r].pc = "revoke"
    BY <1>3 DEF Revoking, At
  <2>3. rq' = [rq EXCEPT ![r] = Idle]
    BY <2>1, <2>2, RequestIs
       DEF SessionsStep, SignIn, RefreshBegin, SignOutBegin, IssueSession, RefreshAccount, RefreshMark,
           RevokeFamily, BumpAfterReuse, SignOutBump, SignOutRevoke, GivesUp, Begin, Finish, At
  <2>4. QED
    BY <1>1, <1>3, <2>3 DEF Revoking, At, Idle
<1>4. QED
  BY <1>2, <1>3

LEMMA RevocationKeeps == ASSUME SessionsInv, RevocationInv, SessionsNext PROVE RevocationInv'
<1>1. PICK r \in Reqs : SessionsStep(r) /\ Meets /\ Ends(r)
  BY DEF SessionsNext
<1>2. SessionsInv'
  BY SessionsStepKeeps
<1>3. Families \subseteq Families' /\ \A f \in Families : Owner(f)' = Owner(f)
  <2>1. CASE IssueSession(r)
    BY <2>1, IssuingIs, StoringIs DEF IssueSession
  <2>2. CASE ~IssueSession(r)
    BY <1>1, <2>2, TokensStayUnless, StayingIs
  <2>3. QED
    BY <2>1, <2>2
<1>4. Rotated' \subseteq Families'
  <2>1. ASSUME NEW s \in Reqs, rq'[s].op = "refresh" PROVE rq'[s].fam \in Families'
    <3>1. rq'[s].token \in Issued' /\ tokens'[rq'[s].token].fam = rq'[s].fam
      BY <1>2, <2>1 DEF SessionsInv, SessionSound
    <3>2. QED
      BY <3>1 DEF Families
  <2>2. QED
    BY <2>1 DEF Rotated
<1>5. met' = [s \in Reqs |-> IF Revoking(s)' THEN met[s] \cup Rotated' \cup (Families' \ Families) ELSE {}]
  BY <1>1 DEF Meets
<1>6. met' \in [Reqs -> SUBSET Families']
  BY <1>3, <1>4, <1>5 DEF RevocationInv
<1>7. ASSUME NEW f \in ended' PROVE f \in Families' /\ Barred(f)' /\ Behind(f)' /\ Resting(f)'
  <2>1. CASE f \in ended
    BY <1>1, <1>3, <2>1, BarredKeeps, BehindKeeps DEF RevocationInv
  <2>2. CASE f \notin ended
    <3>1. BumpAfterReuse(r) \/ SignOutRevoke(r)
      BY <1>1, <1>7, <2>2 DEF Ends
    <3>2. f \in Touches(r) \ met[r]
      BY <1>1, <1>7, <2>2, <3>1 DEF Ends
    <3>3. QED
      BY <1>1, <3>1, <3>2, RevocationEnds
  <2>3. QED
    BY <2>1, <2>2
<1>8. ASSUME NEW s \in Reqs, Revoking(s)', NEW f \in Families' \ met'[s]
      PROVE  Resting(f)' /\ HalfWay(s, f)'
  <2>1. f \in Families /\ f \notin Rotated' /\ f \notin met[s]
    BY <1>5, <1>8
  <2>2. Resting(f)'
    BY <2>1 DEF Resting, Rotates, Rotated
  <2>3. CASE ~Revoking(s)
    BY <1>1, <1>3, <1>8, <2>1, <2>3, <2>2, RevocationBegins
  <2>4. CASE Revoking(s)
    <3>1. Resting(f) /\ HalfWay(s, f)
      BY <2>1, <2>4 DEF RevocationInv
    <3>2. Barred(f) => Barred(f)'
      BY <1>1, <2>1, <3>1, BarredKeeps
    <3>3. Behind(f) => Behind(f)'
      BY <1>1, <2>1, <3>1, BehindKeeps
    <3>4. rq'[s] = rq[s]
      BY <1>1, <1>8, <2>4, RevokingStays
    <3>5. QED
      BY <1>3, <2>1, <2>2, <3>1, <3>2, <3>3, <3>4 DEF HalfWay, At
  <2>5. QED
    BY <2>3, <2>4
<1>9. QED
  BY <1>6, <1>7, <1>8 DEF RevocationInv

LEMMA RevocationStutters == ASSUME RevocationInv, UNCHANGED sessionsVars PROVE RevocationInv'
BY DEF RevocationInv, sessionsVars, Barred, Behind, Resting, HalfWay, Revoking, Rotates, Families, Owner,
       Of, Issued, At

LEMMA RevocationStarts == ASSUME SessionsInit PROVE RevocationInv
BY DEF SessionsInit, HandlersInit, RevocationInv, Revoking, At, Idle

\* However refreshes, reuse and sign-outs follow each other, a family has at most one live
\* token, unless two handlers worked on it at once or one died half-way; and a family that a
\* revocation, once completed, had not met rotating or being founded between its two
\* statements stays out, its access tokens included, whatever overlapped before and whatever
\* comes later (refreshSession, issueSession, revokeAllSessions).
THEOREM SessionsHold == SessionsSpec => [](SessionsTypeOK /\ OneLiveToken /\ RevokedStaysOut)
<1>1. SessionsInit => SessionsInv /\ RevocationInv
  BY SessionsStart, RevocationStarts
<1>2. SessionsInv /\ RevocationInv /\ [SessionsNext]_sessionsVars => SessionsInv' /\ RevocationInv'
  BY SessionsStepKeeps, SessionsStutter, RevocationKeeps, RevocationStutters
<1>3. SessionsInv /\ RevocationInv => SessionsTypeOK /\ OneLiveToken /\ RevokedStaysOut
  BY SessionsMean
<1>4. QED
  BY <1>1, <1>2, <1>3, PTL DEF SessionsSpec

----------------------------------------------------------------------------
(* AppAccounts: nobody enters what another made                            *)

\* An address has one account, an identity is linked to an account of its own address and
\* person, and so is what a social login holds before it links.

Callers == {"owner", "stranger"} \X Emails

Registering == [op : {"register"}, pc : {"insert"}, who : Callers, acc : {0}]
Registered  == [op : {"register"}, pc : {"link"}, who : Callers, acc : 1 .. MaxAccounts]
Comparing   == [op : {"login"}, pc : {"compare"}, who : Callers, acc : 1 .. MaxAccounts]
ProviderAsking == [op : {"provider"}, pc : {"lookup", "insert"}, who : Identities, acc : {0}]
Holding     == [op : {"provider"}, pc : {"enter", "join", "link", "mark"}, who : Identities, acc : 1 .. MaxAccounts]
AccountsRequest == {Idle} \cup Registering \cup Registered \cup Comparing \cup ProviderAsking \cup Holding

\* Rows: an address has one account; a password account is of its maker's address; an
\* account is verified only for the owner of its address.
RowsInv ==
    /\ accounts \in Seq(Account) /\ Len(accounts) <= MaxAccounts
    /\ \A a, b \in 1 .. Len(accounts) :
          accounts[a].email = accounts[b].email /\ accounts[a].email # None => a = b
    /\ \A a \in 1 .. Len(accounts) : accounts[a].by \in Callers => accounts[a].by[2] = accounts[a].email
    /\ \A a \in 1 .. Len(accounts) :
          accounts[a].verified = TRUE => Person(accounts[a].by) = <<"owner", accounts[a].email>>

\* An identity is linked to an account of its own address and person.
Linked ==
    /\ linkOf \in [Identities -> 0 .. MaxAccounts]
    /\ \A i \in Identities : linkOf[i] # 0 =>
          /\ linkOf[i] \in 1 .. Len(accounts)
          /\ accounts[linkOf[i]].email = EmailOf[i] /\ Person(accounts[linkOf[i]].by) = Person(i)

\* So is what a handler holds, linked already when it is about to enter.
Held ==
    /\ rq \in [Reqs -> AccountsRequest]
    /\ \A r \in Reqs : rq[r] \in Comparing => rq[r].acc \in 1 .. Len(accounts)
    /\ \A r \in Reqs : rq[r] \in Registered =>
          rq[r].acc \in 1 .. Len(accounts) /\ accounts[rq[r].acc].by = rq[r].who
    /\ \A r \in Reqs : rq[r] \in ProviderAsking /\ rq[r].pc = "lookup" => rq[r].who \in Verified
    /\ \A r \in Reqs : rq[r] \in Holding =>
          /\ rq[r].acc \in 1 .. Len(accounts)
          /\ accounts[rq[r].acc].email = EmailOf[rq[r].who]
          /\ Person(accounts[rq[r].acc].by) = Person(rq[r].who)
          /\ rq[r].pc = "mark" => rq[r].who \in Verified
          /\ rq[r].pc \in {"mark", "enter"} => linkOf[rq[r].who] # 0

EnteredOwn ==
    \A x \in entered :
        /\ x \in People \X (1 .. Len(accounts))
        /\ Person(x[1]) = Person(accounts[x[2]].by)
        /\ x[1] \in Identities /\ EmailOf[x[1]] # None => linkOf[x[1]] = x[2]

AccountsInv == RowsInv /\ Linked /\ Held /\ EnteredOwn

\* Rows are added and keep their address and maker.
AccountsKept ==
    /\ Len(accounts) <= Len(accounts')
    /\ \A a \in 1 .. Len(accounts) :
          accounts'[a].email = accounts[a].email /\ accounts'[a].by = accounts[a].by

LEMMA AccountsSizes ==
    /\ MaxAccounts \in Nat \ {0} /\ MaxFailed \in Nat
    /\ EmailOf \in [Identities -> Emails \cup {None}]
    /\ \A i \in Verified : i \in Identities /\ EmailOf[i] # None
    /\ \A i \in Identities : i \notin Callers
    /\ \A who \in People : who \in Identities \/ who \in Callers
    /\ \A who \in Callers : who \in People /\ who[2] \in Emails /\ who \notin Verified /\ Person(who) = who
    /\ \A i \in Verified : Person(i) = <<"owner", EmailOf[i]>>
    /\ \A e \in Emails : <<"owner", e>> \in Callers
BY AccountsAssumption DEF Callers, People, Person

LEMMA AccountsShapes ==
    /\ \A q \in Registering : q.op = "register" /\ q.pc = "insert" /\ q.who \in Callers /\ q.acc = 0
    /\ \A q \in Registered : q.op = "register" /\ q.pc = "link" /\ q.who \in Callers /\ q.acc \in 1 .. MaxAccounts
    /\ \A q \in Comparing : q.op = "login" /\ q.pc = "compare" /\ q.who \in Callers /\ q.acc \in 1 .. MaxAccounts
    /\ \A q \in ProviderAsking : q.op = "provider" /\ q.pc \in {"lookup", "insert"} /\ q.who \in Identities /\ q.acc = 0
    /\ \A q \in Holding : /\ q.op = "provider" /\ q.pc \in {"enter", "join", "link", "mark"}
                          /\ q.who \in Identities /\ q.acc \in 1 .. MaxAccounts
    /\ Idle.op = "idle"
BY DEF Registering, Registered, Comparing, ProviderAsking, Holding, Idle

LEMMA AccountsMeans == ASSUME AccountsInv PROVE AccountsTypeOK /\ NoTakeover /\ ComesBackToSameAccount
<1>1. Ids = 1 .. Len(accounts)
  BY DEF AccountsInv, RowsInv, Ids
<1>2. AccountsTypeOK
  BY <1>1 DEF AccountsInv, RowsInv, Linked, EnteredOwn, AccountsTypeOK
<1>3. NoTakeover /\ ComesBackToSameAccount
  BY DEF AccountsInv, EnteredOwn, NoTakeover, ComesBackToSameAccount
<1>4. QED
  BY <1>2, <1>3

LEMMA AccountsStart == ASSUME AccountsInit PROVE AccountsInv
<1>1. /\ accounts = << >> /\ linkOf = [i \in Identities |-> 0] /\ entered = {}
      /\ rq = [r \in Reqs |-> Idle]
  BY DEF AccountsInit, HandlersInit
<1>2. RowsInv
  BY <1>1, AccountsSizes DEF RowsInv
<1>3. Linked
  BY <1>1, AccountsSizes DEF Linked
<1>4. Held
  BY <1>1, AccountsShapes DEF Held, AccountsRequest
<1>5. EnteredOwn
  BY <1>1 DEF EnteredOwn
<1>6. QED
  BY <1>2, <1>3, <1>4, <1>5 DEF AccountsInv

LEMMA RowsAppended ==
    ASSUME RowsInv, NEW e \in Emails \cup {None}, NEW who \in People, NEW password \in BOOLEAN,
           CanInsert(e), who \in Callers => e = who[2],
           accounts' = Append(accounts, NewAccount(e, password, who))
    PROVE  /\ RowsInv' /\ AccountsKept /\ Len(accounts') = Len(accounts) + 1
           /\ Len(accounts) + 1 \in 1 .. MaxAccounts
           /\ accounts'[Len(accounts) + 1].email = e /\ accounts'[Len(accounts) + 1].by = who
<1>1. PICK row \in Account : /\ row.email = e /\ row.by = who /\ row.verified = FALSE
                             /\ accounts' = Append(accounts, row)
  <2>1. PICK row : row = [email |-> e, password |-> password, verified |-> FALSE, failed |-> 0, by |-> who]
    OBVIOUS
  <2>2. row \in Account
    BY <2>1, AccountsSizes DEF Account
  <2>3. accounts' = Append(accounts, row)
    BY <2>1 DEF NewAccount
  <2>4. QED
    BY <2>1, <2>2, <2>3
<1>2. /\ accounts \in Seq(Account) /\ Len(accounts) \in Nat
      /\ Len(accounts) < MaxAccounts
      /\ \A a \in 1 .. Len(accounts) : e # None => accounts[a].email # e
  BY DEF RowsInv, CanInsert, ByEmail, Ids
<1>3. /\ accounts' \in Seq(Account) /\ Len(accounts') = Len(accounts) + 1
      /\ accounts'[Len(accounts) + 1] = row
      /\ \A a \in 1 .. Len(accounts) : accounts'[a] = accounts[a]
  BY <1>1, <1>2
<1>4. \A a \in 1 .. Len(accounts') : a \in 1 .. Len(accounts) \/ a = Len(accounts) + 1
  BY <1>2, <1>3
<1>5. AccountsKept
  BY <1>2, <1>3 DEF AccountsKept
<1>6. RowsInv'
  <2>1. Len(accounts') <= MaxAccounts
    BY <1>2, <1>3, AccountsSizes
  <2>2. \A a, b \in 1 .. Len(accounts') :
          accounts'[a].email = accounts'[b].email /\ accounts'[a].email # None => a = b
    BY <1>1, <1>2, <1>3, <1>4 DEF RowsInv
  <2>3. \A a \in 1 .. Len(accounts') : accounts'[a].by \in Callers => accounts'[a].by[2] = accounts'[a].email
    BY <1>1, <1>3, <1>4 DEF RowsInv
  <2>4. \A a \in 1 .. Len(accounts') :
          accounts'[a].verified = TRUE => Person(accounts'[a].by) = <<"owner", accounts'[a].email>>
    BY <1>1, <1>3, <1>4 DEF RowsInv
  <2>5. QED
    BY <1>3, <2>1, <2>2, <2>3, <2>4 DEF RowsInv, Person
<1>7. QED
  BY <1>1, <1>2, <1>3, <1>5, <1>6, AccountsSizes

LEMMA RowsWritten ==
    ASSUME RowsInv, NEW a \in 1 .. Len(accounts), NEW row \in Account,
           accounts' = [accounts EXCEPT ![a] = row],
           row.email = accounts[a].email, row.by = accounts[a].by,
           row.verified = TRUE => Person(row.by) = <<"owner", row.email>>
    PROVE  RowsInv' /\ AccountsKept /\ Len(accounts') = Len(accounts)
<1>1. /\ accounts \in Seq(Account) /\ Len(accounts) \in Nat /\ Len(accounts) <= MaxAccounts
      /\ accounts \in [1 .. Len(accounts) -> Account]
  BY DEF RowsInv
<1>2. /\ accounts' \in Seq(Account) /\ Len(accounts') = Len(accounts)
      /\ accounts'[a] = row
      /\ \A b \in 1 .. Len(accounts) : b # a => accounts'[b] = accounts[b]
  BY <1>1
<1>3. AccountsKept
  BY <1>1, <1>2 DEF AccountsKept
<1>4. \A b, c \in 1 .. Len(accounts') :
          accounts'[b].email = accounts'[c].email /\ accounts'[b].email # None => b = c
  BY <1>1, <1>2 DEF RowsInv
<1>5. \A b \in 1 .. Len(accounts') : accounts'[b].by \in Callers => accounts'[b].by[2] = accounts'[b].email
  BY <1>1, <1>2 DEF RowsInv
<1>6. \A b \in 1 .. Len(accounts') :
          accounts'[b].verified = TRUE => Person(accounts'[b].by) = <<"owner", accounts'[b].email>>
  BY <1>1, <1>2 DEF RowsInv
<1>7. RowsInv'
  BY <1>1, <1>2, <1>4, <1>5, <1>6 DEF RowsInv, Person
<1>8. QED
  BY <1>2, <1>3, <1>7

\* Rows are kept and one slot moves: what the other slots hold is still right.
LEMMA AccountsMove ==
    ASSUME AccountsInv, RowsInv', AccountsKept, NEW r \in Reqs, NEW q \in AccountsRequest,
           rq' = [rq EXCEPT ![r] = q],
           linkOf' \in [Identities -> 0 .. MaxAccounts],
           \A i \in Identities : linkOf[i] # 0 => linkOf'[i] = linkOf[i],
           \A i \in Identities : linkOf'[i] # linkOf[i] =>
                /\ linkOf'[i] \in 1 .. Len(accounts)
                /\ accounts[linkOf'[i]].email = EmailOf[i]
                /\ Person(accounts[linkOf'[i]].by) = Person(i),
           q \in Comparing => q.acc \in 1 .. Len(accounts'),
           q \in Registered => q.acc \in 1 .. Len(accounts') /\ accounts'[q.acc].by = q.who,
           q \in ProviderAsking /\ q.pc = "lookup" => q.who \in Verified,
           q \in Holding =>
                /\ q.acc \in 1 .. Len(accounts')
                /\ accounts'[q.acc].email = EmailOf[q.who]
                /\ Person(accounts'[q.acc].by) = Person(q.who)
                /\ q.pc = "mark" => q.who \in Verified
                /\ q.pc \in {"mark", "enter"} => linkOf'[q.who] # 0,
           \A x \in entered' : x \in entered \/
                /\ x \in People \X (1 .. Len(accounts))
                /\ Person(x[1]) = Person(accounts[x[2]].by)
                /\ x[1] \in Identities /\ EmailOf[x[1]] # None => linkOf[x[1]] = x[2]
    PROVE  AccountsInv'
<1>1. /\ accounts \in Seq(Account) /\ Len(accounts) \in Nat /\ accounts' \in Seq(Account)
      /\ Len(accounts') \in Nat
      /\ rq \in [Reqs -> AccountsRequest]
  BY DEF AccountsInv, RowsInv, Held
<1>2. \A a \in 1 .. Len(accounts) :
         /\ a \in 1 .. Len(accounts') /\ a # 0
         /\ accounts'[a].email = accounts[a].email /\ accounts'[a].by = accounts[a].by
  BY <1>1 DEF AccountsKept
<1>3. \A s \in Reqs : IF s = r THEN rq'[s] = q ELSE rq'[s] = rq[s]
  BY <1>1
<1>4. Linked'
  <2>1. \A i \in Identities : linkOf'[i] # 0 =>
           /\ linkOf'[i] \in 1 .. Len(accounts)
           /\ accounts[linkOf'[i]].email = EmailOf[i]
           /\ Person(accounts[linkOf'[i]].by) = Person(i)
    BY DEF AccountsInv, Linked
  <2>2. \A i \in Identities : linkOf'[i] # 0 =>
           /\ linkOf'[i] \in 1 .. Len(accounts')
           /\ accounts'[linkOf'[i]].email = EmailOf[i]
           /\ Person(accounts'[linkOf'[i]].by) = Person(i)
    BY <1>2, <2>1
  <2>3. QED
    BY <2>2 DEF Linked, Person
<1>5. Held'
  <2>1. rq' \in [Reqs -> AccountsRequest]
    BY <1>1
  <2>2. ASSUME NEW s \in Reqs
        PROVE  /\ rq'[s] \in Comparing => rq'[s].acc \in 1 .. Len(accounts')
               /\ rq'[s] \in Registered =>
                     rq'[s].acc \in 1 .. Len(accounts') /\ accounts'[rq'[s].acc].by = rq'[s].who
               /\ rq'[s] \in ProviderAsking /\ rq'[s].pc = "lookup" => rq'[s].who \in Verified
               /\ rq'[s] \in Holding =>
                     /\ rq'[s].acc \in 1 .. Len(accounts')
                     /\ accounts'[rq'[s].acc].email = EmailOf[rq'[s].who]
                     /\ Person(accounts'[rq'[s].acc].by) = Person(rq'[s].who)
                     /\ rq'[s].pc = "mark" => rq'[s].who \in Verified
                     /\ rq'[s].pc \in {"mark", "enter"} => linkOf'[rq'[s].who] # 0
    <3>1. CASE s = r
      BY <1>3, <3>1
    <3>2. CASE s # r
      <4>1. rq'[s] = rq[s]
        BY <1>3, <3>2
      <4>2. QED
        BY <1>2, <4>1, AccountsShapes DEF AccountsInv, Held
    <3>3. QED
      BY <3>1, <3>2
  <2>3. QED
    BY <2>1, <2>2 DEF Held, Person
<1>6. EnteredOwn'
  <2>1. ASSUME NEW x \in entered'
        PROVE  /\ x \in People \X (1 .. Len(accounts))
               /\ Person(x[1]) = Person(accounts[x[2]].by)
               /\ x[1] \in Identities /\ EmailOf[x[1]] # None => linkOf[x[1]] = x[2]
    BY DEF AccountsInv, EnteredOwn
  <2>2. ASSUME NEW x \in entered'
        PROVE  /\ x \in People \X (1 .. Len(accounts'))
               /\ Person(x[1]) = Person(accounts'[x[2]].by)
               /\ x[1] \in Identities /\ EmailOf[x[1]] # None => linkOf'[x[1]] = x[2]
    BY <1>2, <2>1
  <2>3. QED
    BY <2>2 DEF EnteredOwn, Person
<1>7. QED
  BY <1>4, <1>5, <1>6 DEF AccountsInv
\* No row changes.
LEMMA AccountsAnswer ==
    ASSUME AccountsInv, accounts' = accounts, NEW r \in Reqs, NEW q \in AccountsRequest,
           rq' = [rq EXCEPT ![r] = q],
           linkOf' = linkOf,
           q \in Comparing => q.acc \in 1 .. Len(accounts),
           q \notin Registered,
           q \in ProviderAsking /\ q.pc = "lookup" => q.who \in Verified,
           q \in Holding =>
                /\ q.acc \in 1 .. Len(accounts)
                /\ accounts[q.acc].email = EmailOf[q.who]
                /\ Person(accounts[q.acc].by) = Person(q.who)
                /\ q.pc = "mark" => q.who \in Verified
                /\ q.pc \in {"mark", "enter"} => linkOf[q.who] # 0,
           \A x \in entered' : x \in entered \/
                /\ x \in People \X (1 .. Len(accounts))
                /\ Person(x[1]) = Person(accounts[x[2]].by)
                /\ x[1] \in Identities /\ EmailOf[x[1]] # None => linkOf[x[1]] = x[2]
    PROVE  AccountsInv'
<1>1. RowsInv'
  BY DEF AccountsInv, RowsInv, Person
<1>2. AccountsKept
  BY DEF AccountsInv, RowsInv, AccountsKept
<1>3. linkOf' \in [Identities -> 0 .. MaxAccounts]
  BY DEF AccountsInv, Linked
<1>4. QED
  BY <1>1, <1>2, <1>3, AccountsMove

LEMMA AccountsRegister == ASSUME AccountsInv, NEW r \in Reqs PROVE
    /\ \A who \in People : RegisterBegin(r, who) => AccountsInv'
    /\ RegisterInsert(r) => AccountsInv'
    /\ RegisterLink(r) => AccountsInv'
<1>1. rq \in [Reqs -> AccountsRequest] /\ RowsInv /\ rq[r] \in AccountsRequest
  BY DEF AccountsInv, Held
<1>2. ASSUME NEW who \in People, RegisterBegin(r, who) PROVE AccountsInv'
  <2>1. PICK q : q = [op |-> "register", pc |-> "insert", who |-> who, acc |-> 0]
    OBVIOUS
  <2>2. who \in Callers /\ rq' = [rq EXCEPT ![r] = q] /\ UNCHANGED <<accounts, linkOf, entered>>
    BY <1>2, <2>1, AccountsSizes DEF RegisterBegin, Begin
  <2>3. q \in Registering
    BY <2>1, <2>2 DEF Registering
  <2>4. /\ q \in AccountsRequest /\ q \notin Comparing /\ q \notin Registered /\ q \notin ProviderAsking
        /\ q \notin Holding
    BY <2>1, <2>3, AccountsShapes DEF AccountsRequest
  <2>5. QED
    BY <2>2, <2>4, AccountsAnswer
<1>3. ASSUME RegisterInsert(r) PROVE AccountsInv'
  <2>1. rq[r] \in Registering
    BY <1>1, <1>3, AccountsShapes DEF RegisterInsert, At, AccountsRequest
  <2>2. PICK who \in Callers : who = rq[r].who
    BY <2>1, AccountsShapes
  <2>3. who \in People /\ who[2] \in Emails /\ who[2] \in Emails \cup {None}
    BY <2>2, AccountsSizes
  <2>4. /\ CanInsert(who[2]) /\ accounts' = Append(accounts, NewAccount(who[2], TRUE, who))
        /\ UNCHANGED <<linkOf, entered>>
    BY <1>3, <2>2 DEF RegisterInsert
  <2>5. /\ RowsInv' /\ AccountsKept /\ Len(accounts') = Len(accounts) + 1
        /\ Len(accounts) + 1 \in 1 .. MaxAccounts
        /\ accounts'[Len(accounts) + 1].by = who
    BY <1>1, <2>3, <2>4, RowsAppended
  <2>6. With(r, [pc |-> "link", acc |-> Len(accounts) + 1])
    BY <1>3 DEF RegisterInsert
  <2>7. PICK n \in 1 .. MaxAccounts : n = Len(accounts) + 1
    BY <2>5
  <2>8. PICK q : q = [op |-> "register", pc |-> "link", who |-> who, acc |-> n]
    OBVIOUS
  <2>9. rq' = [rq EXCEPT ![r] = q]
    <3>1. With(r, [pc |-> "link", acc |-> n])
      BY <2>6, <2>7
    <3>2. [f \in {"pc", "acc"} \cup DOMAIN rq[r] |-> IF f \in {"pc", "acc"} THEN [pc |-> "link", acc |-> n][f] ELSE rq[r][f]] = q
      BY <2>1, <2>2, <2>8 DEF Registering
    <3>3. QED
      BY <3>1, <3>2 DEF With
  <2>10. q \in Registered /\ q.acc = n /\ q.who = who
    BY <2>8 DEF Registered
  <2>11. q \in AccountsRequest /\ q \notin Comparing /\ q \notin ProviderAsking /\ q \notin Holding
    BY <2>10, AccountsShapes DEF AccountsRequest
  <2>12. q.acc \in 1 .. Len(accounts') /\ accounts'[q.acc].by = q.who
    BY <1>1, <2>5, <2>7, <2>10 DEF RowsInv
  <2>13. linkOf' = linkOf /\ entered' = entered /\ linkOf \in [Identities -> 0 .. MaxAccounts]
    BY <2>4 DEF AccountsInv, Linked
  <2>14. QED
    BY <2>5, <2>9, <2>11, <2>12, <2>13, AccountsMove
<1>4. ASSUME RegisterLink(r) PROVE AccountsInv'
  <2>1. rq[r] \in Registered
    BY <1>1, <1>4, AccountsShapes DEF RegisterLink, At, AccountsRequest
  <2>2. PICK who \in Callers, a \in 1 .. Len(accounts) : who = rq[r].who /\ a = rq[r].acc /\ accounts[a].by = who
    BY <2>1, AccountsShapes DEF AccountsInv, Held
  <2>3. who \in People /\ who \notin Identities
    BY AccountsSizes
  <2>4. /\ UNCHANGED <<accounts, linkOf>> /\ rq' = [rq EXCEPT ![r] = Idle]
        /\ entered' = entered \cup {<<who, a>>}
    BY <1>4, <2>2 DEF RegisterLink, Enter, Finish
  <2>5. /\ Idle \in AccountsRequest /\ Idle \notin Comparing /\ Idle \notin Registered
        /\ Idle \notin ProviderAsking /\ Idle \notin Holding
    BY AccountsShapes DEF AccountsRequest
  <2>6. \A x \in entered' : x \in entered \/
                /\ x \in People \X (1 .. Len(accounts))
                /\ Person(x[1]) = Person(accounts[x[2]].by)
                /\ x[1] \in Identities /\ EmailOf[x[1]] # None => linkOf[x[1]] = x[2]
    BY <2>2, <2>3, <2>4
  <2>7. QED
    BY <2>4, <2>5, <2>6, AccountsAnswer
<1>5. QED
  BY <1>2, <1>3, <1>4

LEMMA AccountsPassword == ASSUME AccountsInv, NEW r \in Reqs PROVE
    /\ \A a \in Ids, who \in People : PasswordLogin(r, a, who) => AccountsInv'
    /\ LoginFail(r) => AccountsInv'
    /\ Login(r) => AccountsInv'
<1>1. rq \in [Reqs -> AccountsRequest] /\ RowsInv /\ rq[r] \in AccountsRequest /\ accounts \in Seq(Account)
      /\ linkOf \in [Identities -> 0 .. MaxAccounts]
  BY DEF AccountsInv, Held, RowsInv, Linked
<1>2. /\ Idle \in AccountsRequest /\ Idle \notin Comparing /\ Idle \notin Registered
      /\ Idle \notin ProviderAsking /\ Idle \notin Holding
  BY AccountsShapes DEF AccountsRequest
<1>3. ASSUME NEW a \in Ids, NEW who \in People, PasswordLogin(r, a, who) PROVE AccountsInv'
  <2>1. PICK q : q = [op |-> "login", pc |-> "compare", who |-> who, acc |-> a]
    OBVIOUS
  <2>2. who \in Callers /\ rq' = [rq EXCEPT ![r] = q] /\ UNCHANGED <<accounts, linkOf, entered>>
    BY <1>3, <2>1, AccountsSizes DEF PasswordLogin, Begin
  <2>3. a \in 1 .. Len(accounts) /\ a \in 1 .. MaxAccounts
    BY <1>1, AccountsSizes DEF Ids, RowsInv
  <2>4. q \in Comparing /\ q.acc = a
    BY <2>1, <2>2, <2>3 DEF Comparing
  <2>5. q \in AccountsRequest /\ q \notin Registered /\ q \notin ProviderAsking /\ q \notin Holding
    BY <2>4, AccountsShapes DEF AccountsRequest
  <2>6. QED
    BY <2>2, <2>3, <2>4, <2>5, AccountsAnswer
<1>4. ASSUME LoginFail(r) \/ Login(r)
      PROVE  /\ RowsInv' /\ AccountsKept /\ linkOf' = linkOf /\ rq' = [rq EXCEPT ![r] = Idle]
             /\ rq[r] \in Comparing
  <2>1. rq[r] \in Comparing
    BY <1>1, <1>4, AccountsShapes DEF LoginFail, Login, At, AccountsRequest
  <2>2. PICK a \in 1 .. Len(accounts) : a = rq[r].acc
    BY <2>1 DEF AccountsInv, Held
  <2>3. accounts[a] \in Account
    BY <1>1
  <2>4. PICK n \in 0 .. MaxFailed : accounts' = [accounts EXCEPT ![a] = [accounts[a] EXCEPT !.failed = n]]
    <3>1. accounts[a].failed \in 0 .. MaxFailed
      BY <2>3 DEF Account
    <3>2. CASE LoginFail(r)
      <4>1. accounts[a].failed < MaxFailed /\ accounts' = [accounts EXCEPT ![a].failed = @ + 1]
        BY <2>2, <3>2 DEF LoginFail
      <4>2. accounts[a].failed + 1 \in 0 .. MaxFailed
        BY <3>1, <4>1, AccountsSizes
      <4>3. QED
        BY <4>1, <4>2
    <3>3. CASE Login(r)
      <4>1. accounts' = [accounts EXCEPT ![a].failed = 0]
        BY <2>2, <3>3 DEF Login
      <4>2. 0 \in 0 .. MaxFailed
        BY AccountsSizes
      <4>3. QED
        BY <4>1, <4>2
    <3>4. QED
      BY <1>4, <3>2, <3>3
  <2>5. PICK row : row = [accounts[a] EXCEPT !.failed = n]
    OBVIOUS
  <2>6. /\ row \in Account /\ row.email = accounts[a].email /\ row.by = accounts[a].by
        /\ row.verified = accounts[a].verified
    BY <2>3, <2>5 DEF Account
  <2>7. row.verified = TRUE => Person(row.by) = <<"owner", row.email>>
    BY <1>1, <2>6 DEF RowsInv
  <2>8. linkOf' = linkOf /\ rq' = [rq EXCEPT ![r] = Idle]
    BY <1>4 DEF LoginFail, Login, Enter, Finish
  <2>9. QED
    BY <1>1, <2>1, <2>4, <2>5, <2>6, <2>7, <2>8, RowsWritten
<1>5. ASSUME LoginFail(r) PROVE AccountsInv'
  <2>1. entered' = entered
    BY <1>5 DEF LoginFail
  <2>2. QED
    BY <1>1, <1>2, <1>4, <1>5, <2>1, AccountsMove
<1>6. ASSUME Login(r) PROVE AccountsInv'
  <2>1. PICK who \in Callers, a \in 1 .. Len(accounts) : who = rq[r].who /\ a = rq[r].acc
    BY <1>4, <1>6, AccountsShapes DEF AccountsInv, Held
  <2>2. who \in People /\ who \notin Identities
    BY AccountsSizes
  <2>3. accounts[a].by = who /\ entered' = entered \cup {<<who, a>>}
    BY <1>6, <2>1 DEF Login, Enter
  <2>4. \A x \in entered' : x \in entered \/
                /\ x \in People \X (1 .. Len(accounts))
                /\ Person(x[1]) = Person(accounts[x[2]].by)
                /\ x[1] \in Identities /\ EmailOf[x[1]] # None => linkOf[x[1]] = x[2]
    BY <2>2, <2>3
  <2>5. QED
    BY <1>1, <1>2, <1>4, <1>6, <2>4, AccountsMove
<1>7. QED
  BY <1>3, <1>5, <1>6

LEMMA AccountsProvider == ASSUME AccountsInv, NEW r \in Reqs PROVE
    /\ \A i \in Identities : ProviderBegin(r, i) => AccountsInv'
    /\ ProviderEnter(r) => AccountsInv'
    /\ ProviderLookup(r) => AccountsInv'
    /\ ProviderInsert(r) => AccountsInv'
<1>1. rq \in [Reqs -> AccountsRequest] /\ RowsInv /\ rq[r] \in AccountsRequest /\ accounts \in Seq(Account)
      /\ linkOf \in [Identities -> 0 .. MaxAccounts]
  BY DEF AccountsInv, Held, RowsInv, Linked
<1>2. /\ Idle \in AccountsRequest /\ Idle \notin Comparing /\ Idle \notin Registered
      /\ Idle \notin ProviderAsking /\ Idle \notin Holding
  BY AccountsShapes DEF AccountsRequest
<1>3. /\ \A q \in ProviderAsking : q \in AccountsRequest /\ q \notin Comparing /\ q \notin Registered /\ q \notin Holding
      /\ \A q \in Holding : q \in AccountsRequest /\ q \notin Comparing /\ q \notin Registered /\ q \notin ProviderAsking
  BY AccountsShapes DEF AccountsRequest
<1>4. \A i \in Identities : i \in People
  BY DEF People
<1>5. ASSUME NEW i \in Identities, ProviderBegin(r, i) PROVE AccountsInv'
  <2>1. UNCHANGED <<accounts, linkOf, entered>>
    BY <1>5 DEF ProviderBegin
  <2>2. CASE linkOf[i] # 0
    <3>1. PICK q : q = [op |-> "provider", pc |-> "enter", who |-> i, acc |-> linkOf[i]]
      OBVIOUS
    <3>2. rq' = [rq EXCEPT ![r] = q]
      BY <1>5, <2>2, <3>1 DEF ProviderBegin, Begin, ProviderRequest
    <3>3. q \in Holding /\ q.pc = "enter" /\ q.who = i /\ q.acc = linkOf[i]
      BY <1>1, <2>2, <3>1, AccountsSizes DEF Holding
    <3>4. /\ linkOf[i] \in 1 .. Len(accounts)
          /\ accounts[linkOf[i]].email = EmailOf[i] /\ Person(accounts[linkOf[i]].by) = Person(i)
      BY <2>2 DEF AccountsInv, Linked
    <3>5. QED
      BY <1>3, <2>1, <2>2, <3>2, <3>3, <3>4, AccountsAnswer
  <2>3. CASE linkOf[i] = 0
    <3>1. PICK pc \in {"lookup", "insert"} : pc = IF CanAutoLink(i) THEN "lookup" ELSE "insert"
      OBVIOUS
    <3>2. PICK q : q = [op |-> "provider", pc |-> pc, who |-> i, acc |-> 0]
      OBVIOUS
    <3>3. rq' = [rq EXCEPT ![r] = q]
      BY <1>5, <2>3, <3>1, <3>2 DEF ProviderBegin, Begin, ProviderRequest
    <3>4. q \in ProviderAsking /\ q.pc = pc /\ q.who = i
      BY <3>2 DEF ProviderAsking
    <3>5. pc = "lookup" => i \in Verified
      BY <3>1 DEF CanAutoLink
    <3>6. QED
      BY <1>3, <2>1, <3>3, <3>4, <3>5, AccountsAnswer
  <2>4. QED
    BY <2>2, <2>3
<1>6. ASSUME ProviderEnter(r) PROVE AccountsInv'
  <2>1. rq[r] \in Holding /\ rq[r].pc = "enter"
    BY <1>1, <1>6, AccountsShapes DEF ProviderEnter, At, AccountsRequest
  <2>2. PICK i \in Identities, a \in 1 .. Len(accounts) :
           /\ i = rq[r].who /\ a = rq[r].acc
           /\ accounts[a].email = EmailOf[i] /\ Person(accounts[a].by) = Person(i)
           /\ linkOf[i] # 0
    BY <2>1, AccountsShapes DEF AccountsInv, Held
  <2>3. /\ UNCHANGED <<accounts, linkOf>> /\ rq' = [rq EXCEPT ![r] = Idle]
        /\ entered' = entered \cup {<<i, a>>}
    BY <1>6, <2>2 DEF ProviderEnter, Enter, Finish
  <2>4. EmailOf[i] # None => linkOf[i] = a
    <3>1. linkOf[i] \in 1 .. Len(accounts) /\ accounts[linkOf[i]].email = EmailOf[i]
      BY <2>2 DEF AccountsInv, Linked
    <3>2. QED
      BY <1>1, <2>2, <3>1 DEF RowsInv
  <2>5. \A x \in entered' : x \in entered \/
                /\ x \in People \X (1 .. Len(accounts))
                /\ Person(x[1]) = Person(accounts[x[2]].by)
                /\ x[1] \in Identities /\ EmailOf[x[1]] # None => linkOf[x[1]] = x[2]
    BY <1>4, <2>2, <2>3, <2>4
  <2>6. QED
    BY <1>2, <2>3, <2>5, AccountsAnswer
<1>7. ASSUME ProviderLookup(r) PROVE AccountsInv'
  <2>1. rq[r] \in ProviderAsking /\ rq[r].pc = "lookup" /\ rq[r].op = "provider"
    BY <1>1, <1>7, AccountsShapes DEF ProviderLookup, At, AccountsRequest
  <2>2. PICK i \in Identities : i = rq[r].who /\ i \in Verified
    BY <2>1, AccountsShapes DEF AccountsInv, Held
  <2>3. UNCHANGED <<accounts, linkOf, entered>>
    BY <1>7 DEF ProviderLookup
  <2>4. Goto(r, "insert") \/
        \E a \in ByEmail(EmailOf[i]) : accounts[a].verified /\ With(r, [pc |-> "join", acc |-> a])
    BY <1>7, <2>2 DEF ProviderLookup
  <2>5. CASE Goto(r, "insert")
    <3>1. PICK q : q = [rq[r] EXCEPT !.pc = "insert"]
      OBVIOUS
    <3>2. rq' = [rq EXCEPT ![r] = q]
      BY <2>5, <3>1 DEF Goto
    <3>3. q \in ProviderAsking /\ q.pc = "insert"
      BY <2>1, <3>1 DEF ProviderAsking
    <3>4. QED
      BY <1>3, <2>3, <3>2, <3>3, AccountsAnswer
  <2>6. CASE \E a \in ByEmail(EmailOf[i]) : accounts[a].verified /\ With(r, [pc |-> "join", acc |-> a])
    <3>1. PICK a \in ByEmail(EmailOf[i]) : accounts[a].verified /\ With(r, [pc |-> "join", acc |-> a])
      BY <2>6
    <3>2. a \in 1 .. Len(accounts) /\ accounts[a].email = EmailOf[i] /\ a \in 1 .. MaxAccounts
      BY <1>1, AccountsSizes DEF ByEmail, Ids, RowsInv
    <3>3. accounts[a].verified = TRUE
      BY <1>1, <3>1, <3>2 DEF Account
    <3>4. Person(accounts[a].by) = <<"owner", EmailOf[i]>> /\ Person(i) = <<"owner", EmailOf[i]>>
      BY <1>1, <2>2, <3>2, <3>3, AccountsSizes DEF RowsInv
    <3>5. PICK q : q = [op |-> "provider", pc |-> "join", who |-> i, acc |-> a]
      OBVIOUS
    <3>6. rq' = [rq EXCEPT ![r] = q]
      <4>1. With(r, [pc |-> "join", acc |-> a])
        BY <3>1
      <4>2. [f \in {"pc", "acc"} \cup DOMAIN rq[r] |-> IF f \in {"pc", "acc"} THEN [pc |-> "join", acc |-> a][f] ELSE rq[r][f]] = q
        BY <2>1, <2>2, <3>5 DEF ProviderAsking
      <4>3. QED
        BY <4>1, <4>2 DEF With
    <3>7. q \in Holding /\ q.pc = "join" /\ q.who = i /\ q.acc = a
      BY <3>2, <3>5 DEF Holding
    <3>8. QED
      BY <1>3, <2>3, <3>2, <3>4, <3>6, <3>7, AccountsAnswer
  <2>7. QED
    BY <2>4, <2>5, <2>6
<1>8. ASSUME ProviderInsert(r) PROVE AccountsInv'
  <2>1. rq[r] \in ProviderAsking
    BY <1>1, <1>8, AccountsShapes DEF ProviderInsert, At, AccountsRequest
  <2>2. PICK i \in Identities : i = rq[r].who
    BY <2>1, AccountsShapes
  <2>3. i \in People /\ i \notin Callers /\ EmailOf[i] \in Emails \cup {None}
    BY <1>4, AccountsSizes
  <2>4. /\ CanInsert(EmailOf[i])
        /\ accounts' = Append(accounts, NewAccount(EmailOf[i], FALSE, i))
        /\ UNCHANGED <<linkOf, entered>>
    BY <1>8, <2>2 DEF ProviderInsert
  <2>5. /\ RowsInv' /\ AccountsKept /\ Len(accounts') = Len(accounts) + 1
        /\ Len(accounts) + 1 \in 1 .. MaxAccounts
        /\ accounts'[Len(accounts) + 1].by = i /\ accounts'[Len(accounts) + 1].email = EmailOf[i]
    BY <1>1, <2>3, <2>4, RowsAppended
  <2>6. With(r, [pc |-> "link", acc |-> Len(accounts) + 1])
    BY <1>8 DEF ProviderInsert
  <2>7. PICK n \in 1 .. MaxAccounts : n = Len(accounts) + 1
    BY <2>5
  <2>8. PICK q : q = [op |-> "provider", pc |-> "link", who |-> i, acc |-> n]
    OBVIOUS
  <2>9. rq' = [rq EXCEPT ![r] = q]
    <3>1. With(r, [pc |-> "link", acc |-> n])
      BY <2>6, <2>7
    <3>2. [f \in {"pc", "acc"} \cup DOMAIN rq[r] |-> IF f \in {"pc", "acc"} THEN [pc |-> "link", acc |-> n][f] ELSE rq[r][f]] = q
      BY <2>1, <2>2, <2>8 DEF ProviderAsking
    <3>3. QED
      BY <3>1, <3>2 DEF With
  <2>10. q \in Holding /\ q.pc = "link" /\ q.acc = n /\ q.who = i
    BY <2>8 DEF Holding
  <2>11. /\ q.acc \in 1 .. Len(accounts') /\ accounts'[q.acc].by = i
         /\ accounts'[q.acc].email = EmailOf[i]
    BY <1>1, <2>5, <2>7, <2>10 DEF RowsInv
  <2>12. linkOf' = linkOf /\ entered' = entered
    BY <2>4
  <2>13. QED
    BY <1>1, <1>3, <2>5, <2>9, <2>10, <2>11, <2>12, AccountsMove
<1>9. QED
  BY <1>5, <1>6, <1>7, <1>8

LEMMA AccountsLink == ASSUME AccountsInv, NEW r \in Reqs PROVE
    /\ ProviderLink(r) => AccountsInv'
    /\ MarkEmailVerified(r) => AccountsInv'
<1>1. rq \in [Reqs -> AccountsRequest] /\ RowsInv /\ rq[r] \in AccountsRequest /\ accounts \in Seq(Account)
      /\ linkOf \in [Identities -> 0 .. MaxAccounts]
  BY DEF AccountsInv, Held, RowsInv, Linked
<1>2. \A q \in Holding : q \in AccountsRequest /\ q \notin Comparing /\ q \notin Registered /\ q \notin ProviderAsking
  BY AccountsShapes DEF AccountsRequest
<1>3. ASSUME ProviderLink(r) \/ MarkEmailVerified(r)
      PROVE  /\ rq[r] \in Holding
             /\ \E i \in Identities, a \in 1 .. Len(accounts) :
                   /\ i = rq[r].who /\ a = rq[r].acc
                   /\ accounts[a].email = EmailOf[i] /\ Person(accounts[a].by) = Person(i)
                   /\ rq[r].pc = "mark" => i \in Verified /\ linkOf[i] # 0
  <2>1. rq[r] \in Holding
    BY <1>1, <1>3, AccountsShapes DEF ProviderLink, MarkEmailVerified, At, AccountsRequest
  <2>2. QED
    BY <2>1, AccountsShapes DEF AccountsInv, Held
<1>4. ASSUME ProviderLink(r) PROVE AccountsInv'
  <2>1. PICK i \in Identities, a \in 1 .. Len(accounts) :
           /\ i = rq[r].who /\ a = rq[r].acc
           /\ accounts[a].email = EmailOf[i] /\ Person(accounts[a].by) = Person(i)
    BY <1>3, <1>4
  <2>2. PICK pc : pc = IF rq[r].pc = "link" /\ CanAutoLink(i) THEN "mark" ELSE "enter"
    OBVIOUS
  <2>3. /\ pc \in {"mark", "enter"} /\ (pc = "mark" => i \in Verified)
    BY <2>2 DEF CanAutoLink
  <2>4. PICK q : q = [rq[r] EXCEPT !.pc = pc]
    OBVIOUS
  <2>5. rq' = [rq EXCEPT ![r] = q] /\ UNCHANGED <<accounts, entered>>
    BY <1>4, <2>1, <2>2, <2>4 DEF ProviderLink, Goto
  <2>6. q \in Holding /\ q.pc = pc /\ q.who = i /\ q.acc = a
    BY <1>3, <1>4, <2>1, <2>3, <2>4 DEF Holding
  <2>7. linkOf' = [linkOf EXCEPT ![i] = IF linkOf[i] = 0 THEN a ELSE linkOf[i]]
    BY <1>4, <2>1 DEF ProviderLink, Link
  <2>8. a \in 0 .. MaxAccounts /\ a # 0
    BY <1>1, AccountsSizes DEF RowsInv
  <2>9. /\ linkOf' \in [Identities -> 0 .. MaxAccounts] /\ linkOf'[i] # 0
        /\ \A j \in Identities : linkOf[j] # 0 => linkOf'[j] = linkOf[j]
        /\ \A j \in Identities : linkOf'[j] # linkOf[j] => j = i /\ linkOf'[j] = a
    BY <1>1, <2>7, <2>8
  <2>10. RowsInv' /\ AccountsKept
    <3>1. accounts' = accounts
      BY <2>5
    <3>2. RowsInv'
      BY <1>1, <3>1 DEF RowsInv, Person
    <3>3. QED
      BY <1>1, <3>1, <3>2 DEF AccountsKept
  <2>11. QED
    BY <1>2, <2>1, <2>3, <2>5, <2>6, <2>9, <2>10, AccountsMove
<1>5. ASSUME MarkEmailVerified(r) PROVE AccountsInv'
  <2>1. PICK i \in Identities, a \in 1 .. Len(accounts) :
           /\ i = rq[r].who /\ a = rq[r].acc
           /\ accounts[a].email = EmailOf[i] /\ Person(accounts[a].by) = Person(i)
           /\ i \in Verified /\ linkOf[i] # 0
    BY <1>3, <1>5 DEF MarkEmailVerified, At
  <2>2. PICK row : row = [accounts[a] EXCEPT !.verified = TRUE]
    OBVIOUS
  <2>3. accounts' = [accounts EXCEPT ![a] = row] /\ UNCHANGED <<linkOf, entered>>
    BY <1>5, <2>1, <2>2 DEF MarkEmailVerified
  <2>4. accounts[a] \in Account
    BY <1>1
  <2>5. row \in Account /\ row.email = accounts[a].email /\ row.by = accounts[a].by
    BY <2>2, <2>4 DEF Account
  <2>6. Person(row.by) = <<"owner", row.email>>
    BY <2>1, <2>5, AccountsSizes
  <2>7. RowsInv' /\ AccountsKept /\ Len(accounts') = Len(accounts)
    BY <1>1, <2>3, <2>5, <2>6, RowsWritten
  <2>8. PICK q : q = [rq[r] EXCEPT !.pc = "enter"]
    OBVIOUS
  <2>9. rq' = [rq EXCEPT ![r] = q]
    BY <1>5, <2>8 DEF MarkEmailVerified, Goto
  <2>10. q \in Holding /\ q.pc = "enter" /\ q.who = i /\ q.acc = a
    BY <1>3, <1>5, <2>1, <2>8 DEF Holding
  <2>11. /\ a \in 1 .. Len(accounts') /\ accounts'[a].email = EmailOf[i]
         /\ Person(accounts'[a].by) = Person(i)
    BY <2>1, <2>7 DEF AccountsKept
  <2>12. QED
    BY <1>1, <1>2, <2>1, <2>3, <2>7, <2>9, <2>10, <2>11, AccountsMove
<1>6. QED
  BY <1>4, <1>5

LEMMA AccountsConfirm == ASSUME AccountsInv, NEW a \in Ids, ConfirmEmail(a) PROVE AccountsInv'
<1>1. /\ RowsInv /\ accounts \in Seq(Account) /\ a \in 1 .. Len(accounts)
      /\ linkOf \in [Identities -> 0 .. MaxAccounts]
  BY DEF AccountsInv, RowsInv, Ids, Linked
<1>2. PICK e \in Emails : accounts[a].by = <<"owner", e>>
  BY DEF ConfirmEmail
<1>3. PICK row : row = [accounts[a] EXCEPT !.verified = TRUE]
  OBVIOUS
<1>4. accounts' = [accounts EXCEPT ![a] = row] /\ UNCHANGED <<linkOf, entered, rq>>
  BY <1>3 DEF ConfirmEmail
<1>5. accounts[a] \in Account
  BY <1>1
<1>6. row \in Account /\ row.email = accounts[a].email /\ row.by = accounts[a].by
  BY <1>3, <1>5 DEF Account
<1>7. Person(row.by) = <<"owner", row.email>>
  <2>1. row.by \in Callers /\ row.by[2] = e /\ Person(row.by) = row.by
    BY <1>2, <1>6, AccountsSizes
  <2>2. row.email = e
    BY <1>1, <1>6, <2>1 DEF RowsInv
  <2>3. QED
    BY <1>2, <1>6, <2>1, <2>2
<1>8. RowsInv' /\ AccountsKept /\ Len(accounts') = Len(accounts)
  BY <1>1, <1>4, <1>6, <1>7, RowsWritten
<1>9. \A b \in 1 .. Len(accounts) : accounts'[b].email = accounts[b].email /\ accounts'[b].by = accounts[b].by
  BY <1>8 DEF AccountsKept
<1>10. Linked' /\ Held'
  <2>1. linkOf' = linkOf /\ rq' = rq /\ Len(accounts') = Len(accounts)
    BY <1>4, <1>8
  <2>2. \A i \in Identities : linkOf[i] # 0 =>
          /\ linkOf[i] \in 1 .. Len(accounts)
          /\ accounts'[linkOf[i]].email = EmailOf[i]
          /\ Person(accounts'[linkOf[i]].by) = Person(i)
    BY <1>9 DEF AccountsInv, Linked
  <2>3. Linked'
    BY <1>1, <2>1, <2>2 DEF Linked, Person
  <2>4. \A r \in Reqs :
          /\ rq[r] \in Registered => accounts'[rq[r].acc].by = rq[r].who
          /\ rq[r] \in Holding =>
                /\ accounts'[rq[r].acc].email = EmailOf[rq[r].who]
                /\ Person(accounts'[rq[r].acc].by) = Person(rq[r].who)
    BY <1>9 DEF AccountsInv, Held
  <2>5. Held'
    BY <2>1, <2>4 DEF AccountsInv, Held, Person
  <2>6. QED
    BY <2>3, <2>5
<1>11. EnteredOwn'
  BY <1>4, <1>8, <1>9 DEF AccountsInv, EnteredOwn, Person
<1>12. QED
  BY <1>8, <1>10, <1>11 DEF AccountsInv

LEMMA AccountsStep == ASSUME AccountsInv, [AccountsNext]_accountsVars PROVE AccountsInv'
<1>1. ASSUME NEW r \in Reqs, AccountsDrop(r) PROVE AccountsInv'
  <2>1. /\ Idle \in AccountsRequest /\ Idle \notin Comparing /\ Idle \notin Registered
        /\ Idle \notin ProviderAsking /\ Idle \notin Holding
    BY AccountsShapes DEF AccountsRequest
  <2>2. UNCHANGED <<accounts, linkOf, entered>> /\ rq' = [rq EXCEPT ![r] = Idle]
    BY <1>1 DEF AccountsDrop, GivesUp, Finish
  <2>3. QED
    BY <2>1, <2>2, AccountsAnswer
<1>2. ASSUME NEW r \in Reqs,
             \/ \E who \in People : RegisterBegin(r, who)
             \/ \E a \in Ids, who \in People : PasswordLogin(r, a, who)
             \/ \E i \in Identities : ProviderBegin(r, i)
             \/ RegisterInsert(r) \/ RegisterLink(r) \/ LoginFail(r) \/ Login(r)
             \/ ProviderEnter(r) \/ ProviderLookup(r) \/ ProviderInsert(r)
             \/ ProviderLink(r) \/ MarkEmailVerified(r)
      PROVE  AccountsInv'
  BY <1>2, AccountsRegister, AccountsPassword, AccountsProvider, AccountsLink
<1>3. ASSUME NEW a \in Ids, ConfirmEmail(a) PROVE AccountsInv'
  BY <1>3, AccountsConfirm
<1>4. ASSUME UNCHANGED accountsVars PROVE AccountsInv'
  BY <1>4 DEF accountsVars, AccountsInv, RowsInv, Linked, Held, EnteredOwn, Person
<1>5. QED
  BY <1>1, <1>2, <1>3, <1>4 DEF AccountsNext

\* However registrations, logins and social logins overlap, nobody enters an account another
\* person made, and who was let in once comes back to the same account 
\* (registerWithPassword, loginWithPassword, loginWithProvider).
THEOREM AccountsStayTheirOwn == AccountsSpec => [](AccountsTypeOK /\ NoTakeover /\ ComesBackToSameAccount)
<1>1. AccountsInit => AccountsInv
  BY AccountsStart
<1>2. AccountsInv /\ [AccountsNext]_accountsVars => AccountsInv'
  BY AccountsStep
<1>3. AccountsInv => AccountsTypeOK /\ NoTakeover /\ ComesBackToSameAccount
  BY AccountsMeans
<1>4. QED
  BY <1>1, <1>2, <1>3, PTL DEF AccountsSpec

----------------------------------------------------------------------------
(* MaskedChat: retries and the rate                                        *)

\* Two stored messages differ in thread, sender or key; every answer names a stored
\* message; and the messages counted as recent and those about to be stored stay within the
\* rate and the requests beside the one that counts.

LEMMA SeqPut ==
    ASSUME NEW S, NEW s \in Seq(S), NEW i \in DOMAIN s, NEW x \in S, NEW t,
           t = [s EXCEPT ![i] = x]
    PROVE  t \in Seq(S) /\ Len(t) = Len(s) /\ DOMAIN t = DOMAIN s
<1>1. i \in 1 .. Len(s)
  OBVIOUS
<1>2. t \in Seq(S) /\ Len(t) = Len(s)
  BY <1>1, ExceptSeq
<1>3. QED
  BY <1>2

Seeking == [op : {"first"}, pc : {"thread", "create"}, helper : Helpers, from : {"helper"},
            key : MessageKeys, closed : BOOLEAN]
Posting == [op : {"first", "post"}, pc : {"member", "replay", "count", "insert"},
            thread : 1 .. MaxMessages, helper : Helpers, from : Roles, key : MessageKeys,
            closed : BOOLEAN]
Reading == [op : {"read"}, pc : {"advance"}, thread : 1 .. MaxMessages, role : Roles,
            last : 1 .. MaxMessages]
ChatRequest == {Idle} \cup Seeking \cup Posting \cup Reading

ChatTyped ==
    /\ chatCase \in [status : {"open", "resolved", "purged"}, hidden : BOOLEAN]
    /\ threads \in Seq(Thread) /\ Len(threads) <= MaxMessages
    /\ messages \in Seq(Message) /\ Len(messages) <= MaxMessages
    /\ rq \in [Reqs -> ChatRequest]

\* A request past its thread posts to the thread of its helper.
ChatRead ==
    \A r \in Reqs :
        /\ rq[r] \in Posting => /\ rq[r].thread <= Len(threads)
                                /\ threads[rq[r].thread].helper = rq[r].helper
        /\ rq[r] \in Reading => rq[r].thread <= Len(threads) /\ rq[r].last <= Len(messages)

OneThread == \A t, u \in DOMAIN threads : threads[t].helper = threads[u].helper => t = u

OneMessage ==
    \A i, j \in MessageIds :
        /\ messages[i].thread = messages[j].thread
        /\ messages[i].from = messages[j].from
        /\ messages[i].key = messages[j].key
        => i = j

\* Every answer names the one message of its helper, sender and key.
AnsweredBacked ==
    \A x \in answered : \E i \in MessageIds :
        /\ messages[i].thread \in DOMAIN threads
        /\ x = <<threads[messages[i].thread].helper, messages[i].from, messages[i].key, i>>

ChatInv == ChatTyped /\ ChatRead /\ OneThread /\ OneMessage /\ AnsweredBacked

\* The messages about to be stored were counted within the rate.
Inserting(t, role) ==
    {r \in Reqs : rq[r] \in Posting /\ rq[r].pc = "insert" /\ rq[r].thread = t /\ rq[r].from = role}
RateInv ==
    \A t \in 1 .. MaxMessages, role \in Roles :
        Cardinality(Recent(t, role)) + Cardinality(Inserting(t, role)) <= Rate + Cardinality(Reqs) - 1

LEMMA ChatSizes == MaxMessages \in Nat \ {0} /\ Rate \in Nat \ {0} /\ IsFiniteSet(Reqs) /\ Cardinality(Reqs) \in Nat
BY ChatAssumption, HandlersAssumption, FS_CardinalityType

LEMMA Shapes ==
    /\ Idle \notin Posting /\ Idle \notin Reading /\ Idle.op = "idle" /\ Idle.pc = "idle"
    /\ \A q \in Seeking : q \notin Posting /\ q \notin Reading
    /\ \A q \in Posting : q \notin Seeking /\ q \notin Reading
    /\ \A q \in Reading : q \notin Seeking /\ q \notin Posting
BY DEF Idle, Seeking, Posting, Reading

LEMMA Counted ==
    ASSUME ChatTyped, NEW t, NEW role
    PROVE  /\ IsFiniteSet(Recent(t, role)) /\ Cardinality(Recent(t, role)) \in Nat
           /\ IsFiniteSet(Inserting(t, role)) /\ Cardinality(Inserting(t, role)) \in Nat
           /\ Cardinality(Inserting(t, role)) <= Cardinality(Reqs)
<1> DEFINE M == MessageIds
<1>1. IsFiniteSet(M)
  <2>1. Len(messages) \in Nat /\ MessageIds = 1 .. Len(messages)
    BY DEF ChatTyped, MessageIds
  <2>2. QED
    BY <2>1, FS_Interval
<1>2. Recent(t, role) \in SUBSET M
  BY DEF Recent
<1>3. Inserting(t, role) \in SUBSET Reqs
  BY DEF Inserting
<1> HIDE DEF M
<1>4. QED
  BY <1>1, <1>2, <1>3, ChatSizes, FS_Subset, FS_CardinalityType

LEMMA RateShrinks ==
    ASSUME ChatTyped, ChatTyped', RateInv, NEW t \in 1 .. MaxMessages, NEW role \in Roles,
           Recent(t, role)' \subseteq Recent(t, role), Inserting(t, role)' \subseteq Inserting(t, role)
    PROVE  Cardinality(Recent(t, role)') + Cardinality(Inserting(t, role)') <= Rate + Cardinality(Reqs) - 1
<1>1. /\ Cardinality(Recent(t, role)') <= Cardinality(Recent(t, role))
      /\ Cardinality(Inserting(t, role)') <= Cardinality(Inserting(t, role))
  BY Counted, FS_Subset
<1>2. Cardinality(Recent(t, role)') \in Nat /\ Cardinality(Inserting(t, role)') \in Nat
  <2>1. IsFiniteSet(Recent(t, role)') /\ IsFiniteSet(Inserting(t, role)')
    BY Counted, FS_Subset
  <2>2. QED
    BY <2>1, FS_CardinalityType
<1>3. Cardinality(Recent(t, role)) + Cardinality(Inserting(t, role)) <= Rate + Cardinality(Reqs) - 1
  BY DEF RateInv
<1>4. QED
  BY <1>1, <1>2, <1>3, Counted, ChatSizes

\* What stays of the threads and the messages in every step but the two that store one.
Restated ==
    /\ Len(threads') = Len(threads) /\ Len(messages') = Len(messages)
    /\ \A t \in DOMAIN threads : threads'[t].helper = threads[t].helper
    /\ \A i \in MessageIds : /\ messages'[i].thread = messages[i].thread
                             /\ messages'[i].from = messages[i].from
                             /\ messages'[i].key = messages[i].key
                             /\ messages'[i].recent => messages[i].recent

LEMMA ChatDomains ==
    ASSUME ChatTyped
    PROVE  /\ Len(threads) \in 0 .. MaxMessages /\ DOMAIN threads = 1 .. Len(threads)
           /\ Len(messages) \in 0 .. MaxMessages /\ MessageIds = 1 .. Len(messages)
           /\ \A t \in DOMAIN threads : threads[t] \in Thread
           /\ \A i \in MessageIds : messages[i] \in Message
BY ChatSizes DEF ChatTyped, MessageIds

LEMMA ChatRestated ==
    ASSUME ChatInv, ChatTyped', ChatRead', Restated, UNCHANGED answered
    PROVE  ChatInv'
<1>1. DOMAIN threads' = DOMAIN threads /\ MessageIds' = MessageIds
  BY DEF ChatInv, ChatTyped, Restated, MessageIds
<1>2. OneThread'
  BY <1>1 DEF ChatInv, OneThread, Restated
<1>3. OneMessage'
  BY <1>1 DEF ChatInv, OneMessage, Restated
<1>4. AnsweredBacked'
  BY <1>1 DEF ChatInv, AnsweredBacked, Restated
<1>5. QED
  BY <1>2, <1>3, <1>4 DEF ChatInv

LEMMA RateRestated ==
    ASSUME ChatTyped, ChatTyped', RateInv, Restated,
           \A s \in Reqs : rq'[s] \in Posting /\ rq'[s].pc = "insert" => rq'[s] = rq[s]
    PROVE  RateInv'
<1>1. MessageIds' = MessageIds
  BY DEF ChatTyped, Restated, MessageIds
<1>2. \A t \in 1 .. MaxMessages, role \in Roles :
        /\ Recent(t, role)' \subseteq Recent(t, role)
        /\ Inserting(t, role)' \subseteq Inserting(t, role)
  BY <1>1 DEF Recent, Inserting, Restated
<1>3. QED
  BY <1>2, RateShrinks DEF RateInv

\* A step that only moves one request on, and not to the insertion.
LEMMA ChatMoves ==
    ASSUME ChatInv, RateInv, NEW r \in Reqs, rq' = [rq EXCEPT ![r] = rq'[r]],
           rq'[r] \in ChatRequest,
           UNCHANGED <<chatCase, threads, messages, answered>>,
           rq'[r] \in Posting => /\ rq'[r].thread <= Len(threads)
                                 /\ threads[rq'[r].thread].helper = rq'[r].helper
                                 /\ rq'[r].pc # "insert",
           rq'[r] \in Reading => rq'[r].thread <= Len(threads) /\ rq'[r].last <= Len(messages)
    PROVE  ChatInv' /\ RateInv'
<1>1. rq \in [Reqs -> ChatRequest] /\ \A s \in Reqs : s # r => rq'[s] = rq[s]
  BY DEF ChatInv, ChatTyped
<1>2. ChatTyped'
  BY <1>1 DEF ChatInv, ChatTyped
<1>3. ChatRead'
  BY <1>1 DEF ChatInv, ChatRead
<1>4. Restated
  BY DEF Restated
<1>5. \A s \in Reqs : rq'[s] \in Posting /\ rq'[s].pc = "insert" => rq'[s] = rq[s]
  BY <1>1
<1>6. QED
  BY <1>2, <1>3, <1>4, <1>5, ChatRestated, RateRestated DEF ChatInv

LEMMA ChatEnds ==
    ASSUME ChatInv, RateInv, NEW r \in Reqs, Finish(r),
           UNCHANGED <<chatCase, threads, messages, answered>>
    PROVE  ChatInv' /\ RateInv'
<1>1. rq' = [rq EXCEPT ![r] = Idle] /\ rq'[r] = Idle
  BY DEF Finish, ChatInv, ChatTyped
<1>2. QED
  BY <1>1, ChatMoves, Shapes DEF ChatRequest

\* The answer of a stored message.
LEMMA ChatAnswers ==
    ASSUME ChatInv, RateInv, NEW r \in Reqs, rq[r] \in Posting, NEW i \in SameKey(r),
           Answer(r, i),
           UNCHANGED <<chatCase, threads, messages>>
    PROVE  ChatInv' /\ RateInv'
<1>1. /\ i \in MessageIds /\ messages[i].thread = rq[r].thread /\ messages[i].from = rq[r].from
      /\ messages[i].key = rq[r].key
      /\ answered' = answered \cup {<<rq[r].helper, rq[r].from, rq[r].key, i>>}
      /\ rq' = [rq EXCEPT ![r] = Idle]
  BY DEF SameKey, Answer, Finish
<1>2. rq[r].thread \in DOMAIN threads /\ threads[rq[r].thread].helper = rq[r].helper
  BY ChatDomains DEF ChatInv, ChatRead, Posting
<1>3. AnsweredBacked'
  BY <1>1, <1>2 DEF ChatInv, AnsweredBacked, MessageIds
<1>4. rq \in [Reqs -> ChatRequest] /\ rq'[r] = Idle /\ \A s \in Reqs : s # r => rq'[s] = rq[s]
  BY <1>1 DEF ChatInv, ChatTyped
<1>5. ChatTyped' /\ ChatRead' /\ OneThread' /\ OneMessage'
  BY <1>1, <1>4, Shapes
     DEF ChatInv, ChatTyped, ChatRead, OneThread, OneMessage, MessageIds, ChatRequest
<1>6. RateInv'
  BY <1>4, <1>5, Shapes, RateRestated DEF ChatInv, Restated
<1>7. QED
  BY <1>3, <1>5, <1>6 DEF ChatInv

LEMMA ChatCreates ==
    ASSUME ChatInv, RateInv, NEW r \in Reqs, rq[r] \in Seeking, ThreadsOf(rq[r].helper) = {},
           Len(threads) < MaxMessages, threads' = Append(threads, NewThread(rq[r].helper)),
           With(r, [pc |-> "member", thread |-> Len(threads) + 1]),
           UNCHANGED <<chatCase, messages, answered>>
    PROVE  ChatInv' /\ RateInv'
<1>1. /\ rq[r].helper \in Helpers /\ NewThread(rq[r].helper) \in Thread
      /\ NewThread(rq[r].helper).helper = rq[r].helper
  BY ChatSizes DEF Seeking, NewThread, Thread
<1> DEFINE new == NewThread(rq[r].helper)
<1> HIDE DEF new
<1>2. /\ threads' \in Seq(Thread) /\ Len(threads') = Len(threads) + 1
      /\ threads'[Len(threads) + 1] = new
      /\ \A t \in DOMAIN threads : threads'[t] = threads[t]
      /\ DOMAIN threads' = 1 .. (Len(threads) + 1) /\ DOMAIN threads = 1 .. Len(threads)
      /\ Len(threads) \in Nat
  BY <1>1 DEF ChatInv, ChatTyped, new
<1>3. /\ rq'[r] \in Posting /\ rq'[r].pc = "member" /\ rq'[r].thread = Len(threads) + 1
      /\ rq'[r].helper = rq[r].helper
  <2>1. Len(threads) + 1 \in 1 .. MaxMessages
    BY <1>2, ChatSizes
  <2>2. rq \in [Reqs -> ChatRequest]
    BY DEF ChatInv, ChatTyped
  <2>3. QED
    BY <2>1, <2>2 DEF With, Seeking, Posting, Roles
<1>4. rq \in [Reqs -> ChatRequest] /\ rq' \in [Reqs -> ChatRequest] /\ \A s \in Reqs : s # r => rq'[s] = rq[s]
  <2>1. rq' = [rq EXCEPT ![r] = rq'[r]] /\ rq \in [Reqs -> ChatRequest]
    BY DEF With, ChatInv, ChatTyped
  <2>2. QED
    BY <1>3, <2>1 DEF ChatRequest
<1>5. ChatTyped'
  BY <1>2, <1>4, ChatSizes DEF ChatInv, ChatTyped
<1>6. ChatRead'
  <2>1. \A s \in Reqs : rq[s] \in Posting \/ rq[s] \in Reading => rq[s].thread \in 1 .. MaxMessages
    BY DEF Posting, Reading
  <2>2. \A s \in Reqs : s # r => (rq'[s] \in Posting => /\ rq'[s].thread <= Len(threads')
                                                        /\ threads'[rq'[s].thread].helper = rq'[s].helper)
    BY <1>2, <1>4, <2>1, ChatSizes DEF ChatInv, ChatRead
  <2>3. \A s \in Reqs : s # r => (rq'[s] \in Reading => /\ rq'[s].thread <= Len(threads')
                                                        /\ rq'[s].last <= Len(messages'))
    BY <1>2, <1>4, <2>1, ChatSizes DEF ChatInv, ChatRead
  <2>4. rq'[r] \notin Reading
    BY <1>3, Shapes
  <2>5. threads'[rq'[r].thread].helper = rq'[r].helper /\ rq'[r].thread <= Len(threads')
    BY <1>1, <1>2, <1>3 DEF new
  <2>6. QED
    BY <2>2, <2>3, <2>4, <2>5 DEF ChatRead
<1>7. OneThread'
  BY <1>1, <1>2 DEF ChatInv, OneThread, ThreadsOf, new
<1>8. OneMessage' /\ AnsweredBacked'
  BY <1>2 DEF ChatInv, OneMessage, AnsweredBacked, MessageIds
<1>9. RateInv'
  <2>1. \A t \in 1 .. MaxMessages, role \in Roles :
            /\ Recent(t, role)' \subseteq Recent(t, role)
            /\ Inserting(t, role)' \subseteq Inserting(t, role)
    BY <1>3, <1>4 DEF Recent, Inserting, MessageIds
  <2>2. QED
    BY <1>5, <2>1, RateShrinks DEF RateInv, ChatInv
<1>10. QED
  BY <1>5, <1>6, <1>7, <1>8, <1>9 DEF ChatInv

LEMMA ChatCounts ==
    ASSUME ChatInv, RateInv, NEW r \in Reqs, rq[r] \in Posting, rq[r].pc = "count",
           Cardinality(Recent(rq[r].thread, rq[r].from)) < Rate, Goto(r, "insert"),
           UNCHANGED <<chatCase, threads, messages, answered>>
    PROVE  ChatInv' /\ RateInv'
<1>1. /\ rq' \in [Reqs -> ChatRequest] /\ \A s \in Reqs : s # r => rq'[s] = rq[s]
      /\ rq'[r] \in Posting /\ rq'[r].thread = rq[r].thread /\ rq'[r].from = rq[r].from
      /\ rq'[r].helper = rq[r].helper
  <2>1. rq \in [Reqs -> ChatRequest]
    BY DEF ChatInv, ChatTyped
  <2>2. /\ rq'[r] \in Posting /\ rq'[r].thread = rq[r].thread /\ rq'[r].from = rq[r].from
        /\ rq'[r].helper = rq[r].helper
        /\ \A s \in Reqs : s # r => rq'[s] = rq[s] /\ rq' = [rq EXCEPT ![r] = rq'[r]]
    BY <2>1 DEF Goto, Posting
  <2>3. QED
    BY <2>1, <2>2 DEF ChatRequest, Goto
<1>2. ChatTyped'
  BY <1>1 DEF ChatInv, ChatTyped
<1>3. ChatRead'
  BY <1>1, Shapes DEF ChatInv, ChatRead
<1>4. ChatInv'
  BY <1>2, <1>3, ChatRestated DEF Restated
<1>5. RateInv'
  <2> SUFFICES ASSUME NEW t \in 1 .. MaxMessages, NEW role \in Roles
               PROVE  Cardinality(Recent(t, role)') + Cardinality(Inserting(t, role)') <= Rate + Cardinality(Reqs) - 1
    BY DEF RateInv
  <2>1. Recent(t, role)' = Recent(t, role)
    BY DEF Recent, MessageIds
  <2>2. CASE rq[r].thread = t /\ rq[r].from = role
    <3>1. Cardinality(Recent(t, role)') < Rate /\ Cardinality(Recent(t, role)') \in Nat
      BY <2>1, <2>2, Counted DEF ChatInv
    <3>2. /\ Cardinality(Inserting(t, role)') <= Cardinality(Reqs)
          /\ Cardinality(Inserting(t, role)') \in Nat
      <4>1. Inserting(t, role)' \in SUBSET Reqs
        BY DEF Inserting
      <4>2. QED
        BY <4>1, ChatSizes, FS_Subset, FS_CardinalityType
    <3>3. QED
      BY <3>1, <3>2, ChatSizes
  <2>3. CASE ~(rq[r].thread = t /\ rq[r].from = role)
    <3>1. Inserting(t, role)' \subseteq Inserting(t, role)
      BY <1>1, <2>3 DEF Inserting
    <3>2. QED
      BY <1>2, <2>1, <3>1, RateShrinks DEF ChatInv
  <2>4. QED
    BY <2>2, <2>3
<1>6. QED
  BY <1>4, <1>5

LEMMA ChatStores ==
    ASSUME ChatInv, RateInv, NEW r \in Reqs, rq[r] \in Posting, rq[r].pc = "insert",
           SameKey(r) = {},
           Len(messages) < MaxMessages, messages' = Append(messages, StoredMessage(r)),
           Answer(r, Len(messages) + 1), UNCHANGED <<chatCase, threads>>
    PROVE  ChatInv' /\ RateInv'
<1> DEFINE n == Len(messages) + 1
           new == StoredMessage(r)
<1>1. /\ new \in Message /\ new.thread = rq[r].thread /\ new.from = rq[r].from
      /\ new.key = rq[r].key
  BY DEF StoredMessage, Message, Posting
<1> HIDE DEF new
<1>2. /\ messages' \in Seq(Message) /\ Len(messages') = n /\ messages'[n] = new
      /\ \A i \in MessageIds : messages'[i] = messages[i]
      /\ MessageIds' = MessageIds \cup {n} /\ n \notin MessageIds /\ Len(messages) \in Nat
      /\ Len(messages') <= MaxMessages
  BY <1>1, ChatSizes DEF ChatInv, ChatTyped, MessageIds, new
<1>3. /\ answered' = answered \cup {<<rq[r].helper, rq[r].from, rq[r].key, n>>}
      /\ rq' = [rq EXCEPT ![r] = Idle] /\ rq \in [Reqs -> ChatRequest]
  BY DEF Answer, Finish, ChatInv, ChatTyped
<1>4. rq'[r] = Idle /\ \A s \in Reqs : s # r => rq'[s] = rq[s]
  BY <1>3
<1>5. ChatTyped'
  BY <1>2, <1>3 DEF ChatInv, ChatTyped, ChatRequest
<1>6. ChatRead'
  <2>1. \A s \in Reqs : rq[s] \in Reading => rq[s].last \in 1 .. MaxMessages
    BY DEF Reading
  <2>2. QED
    BY <1>2, <1>4, <2>1, Shapes, ChatSizes DEF ChatInv, ChatRead
<1>7. OneThread'
  BY DEF ChatInv, OneThread
<1>8. OneMessage'
  <2>1. \A i \in MessageIds :
          ~(messages[i].thread = new.thread /\ messages[i].from = new.from /\ messages[i].key = new.key)
    BY <1>1 DEF SameKey
  <2>2. SUFFICES ASSUME NEW i \in MessageIds \cup {n}, NEW j \in MessageIds \cup {n},
                        messages'[i].thread = messages'[j].thread, messages'[i].from = messages'[j].from,
                        messages'[i].key = messages'[j].key
                 PROVE  i = j
    BY <1>2 DEF OneMessage
  <2>3. CASE i \in MessageIds /\ j \in MessageIds
    BY <1>2, <2>2, <2>3 DEF ChatInv, OneMessage
  <2>4. ASSUME i \in MessageIds, j = n PROVE FALSE
    BY <1>2, <2>1, <2>2, <2>4
  <2>5. ASSUME j \in MessageIds, i = n PROVE FALSE
    BY <1>2, <2>1, <2>2, <2>5
  <2> HIDE DEF n
  <2>6. QED
    BY <2>3, <2>4, <2>5
<1>9. AnsweredBacked'
  <2>1. rq[r].thread \in DOMAIN threads /\ threads[rq[r].thread].helper = rq[r].helper
    BY ChatDomains DEF ChatInv, ChatRead, Posting
  <2>2. QED
    BY <1>1, <1>2, <1>3, <2>1 DEF ChatInv, AnsweredBacked
<1>10. RateInv'
  <2> SUFFICES ASSUME NEW t \in 1 .. MaxMessages, NEW role \in Roles
               PROVE  Cardinality(Recent(t, role)') + Cardinality(Inserting(t, role)') <= Rate + Cardinality(Reqs) - 1
    BY DEF RateInv
  <2>1. CASE rq[r].thread = t /\ rq[r].from = role
    <3>1. Recent(t, role)' \subseteq Recent(t, role) \cup {n}
      BY <1>2 DEF Recent
    <3>2. Inserting(t, role)' = Inserting(t, role) \ {r} /\ r \in Inserting(t, role)
      BY <1>4, <2>1, Shapes DEF Inserting
    <3>3. /\ Cardinality(Recent(t, role)') <= Cardinality(Recent(t, role)) + 1
          /\ Cardinality(Recent(t, role)') \in Nat
      <4>1. /\ IsFiniteSet(Recent(t, role) \cup {n})
            /\ Cardinality(Recent(t, role) \cup {n}) <= Cardinality(Recent(t, role)) + 1
        <5>1. IsFiniteSet(Recent(t, role)) /\ Cardinality(Recent(t, role)) \in Nat
          BY Counted DEF ChatInv
        <5> DEFINE R == Recent(t, role)
        <5> HIDE DEF R, n
        <5>2. IsFiniteSet(R) => IsFiniteSet(R \cup {n}) /\ Cardinality(R \cup {n}) =
                 IF n \in R THEN Cardinality(R) ELSE Cardinality(R) + 1
          BY FS_AddElement
        <5> USE DEF R
        <5>3. QED
          BY <5>1, <5>2
      <4>2. /\ IsFiniteSet(Recent(t, role)')
            /\ Cardinality(Recent(t, role)') <= Cardinality(Recent(t, role) \cup {n})
        BY <3>1, <4>1, FS_Subset
      <4>3. QED
        <5>1. Cardinality(Recent(t, role)') \in Nat /\ Cardinality(Recent(t, role) \cup {n}) \in Nat
              /\ Cardinality(Recent(t, role)) \in Nat
          BY <4>1, <4>2, Counted, FS_CardinalityType DEF ChatInv
        <5>2. QED
          BY <4>1, <4>2, <5>1
    <3>4. Cardinality(Inserting(t, role)') = Cardinality(Inserting(t, role)) - 1
      BY <3>2, Counted, FS_RemoveElement DEF ChatInv
    <3>5. Cardinality(Recent(t, role)) + Cardinality(Inserting(t, role)) <= Rate + Cardinality(Reqs) - 1
      BY DEF RateInv
    <3>6. QED
      BY <3>3, <3>4, <3>5, Counted, ChatSizes DEF ChatInv
  <2>2. CASE ~(rq[r].thread = t /\ rq[r].from = role)
    <3>1. Recent(t, role)' \subseteq Recent(t, role)
      BY <1>1, <1>2, <2>2 DEF Recent
    <3>2. Inserting(t, role)' \subseteq Inserting(t, role)
      BY <1>4, Shapes DEF Inserting
    <3>3. QED
      BY <1>5, <3>1, <3>2, RateShrinks DEF ChatInv
  <2>3. QED
    BY <2>1, <2>2
<1>11. QED
  BY <1>5, <1>6, <1>7, <1>8, <1>9, <1>10 DEF ChatInv

LEMMA ChatRequestStep ==
    ASSUME ChatInv, RateInv, NEW r \in Reqs,
           \/ \E h \in Helpers, key \in MessageKeys : PostToReport(r, h, key)
           \/ \E t \in DOMAIN threads, role \in Roles :
                 ReadThread(r, t, role) \/ \E key \in MessageKeys : PostToThread(r, t, role, key)
           \/ FindThread(r) \/ CreateThread(r) \/ ReadMembership(r) \/ AnswerReplay(r)
           \/ CountRecent(r) \/ InsertMessage(r)
           \/ GivesUp(r) /\ UNCHANGED <<chatCase, threads, messages, answered>>
    PROVE  ChatInv' /\ RateInv'
<1>0. /\ rq \in [Reqs -> ChatRequest] /\ ChatRead
      /\ chatCase \in [status : {"open", "resolved", "purged"}, hidden : BOOLEAN]
  BY DEF ChatInv, ChatTyped
<1>a. Closed \in BOOLEAN
  BY DEF Closed
<1>1. ASSUME NEW h \in Helpers, NEW key \in MessageKeys, PostToReport(r, h, key)
      PROVE  ChatInv' /\ RateInv'
  <2>1. PICK q \in Seeking : rq' = [rq EXCEPT ![r] = q]
    <3>1. [op |-> "first", pc |-> "thread", helper |-> h, from |-> "helper", key |-> key, closed |-> Closed] \in Seeking
      BY <1>a DEF Seeking
    <3>2. QED
      BY <1>1, <3>1 DEF PostToReport, Begin
  <2>2. rq'[r] = q /\ UNCHANGED <<chatCase, threads, messages, answered>>
    BY <1>0, <1>1, <2>1 DEF PostToReport
  <2>3. QED
    BY <2>1, <2>2, ChatMoves, Shapes DEF ChatRequest
<1>2. ASSUME NEW t \in DOMAIN threads, NEW role \in Roles, ReadThread(r, t, role)
      PROVE  ChatInv' /\ RateInv'
  <2>1. PICK i \in MessageIds : rq' = [rq EXCEPT ![r] =
                 [op |-> "read", pc |-> "advance", thread |-> t, role |-> role, last |-> i]]
    BY <1>2 DEF ReadThread, Begin
  <2>2. rq'[r] = [op |-> "read", pc |-> "advance", thread |-> t, role |-> role, last |-> i]
        /\ UNCHANGED <<chatCase, threads, messages, answered>>
    BY <1>0, <1>2, <2>1 DEF ReadThread
  <2>3. /\ rq'[r] \in Reading /\ t <= Len(threads) /\ i <= Len(messages) /\ rq'[r].thread = t
        /\ rq'[r].last = i
    BY <2>2, ChatDomains, ChatSizes DEF Reading, ChatInv
  <2>4. rq' = [rq EXCEPT ![r] = rq'[r]]
    BY <2>1, <2>2
  <2>5. QED
    BY <2>2, <2>3, <2>4, ChatMoves, Shapes DEF ChatRequest
<1>3. ASSUME NEW t \in DOMAIN threads, NEW role \in Roles, NEW key \in MessageKeys,
             PostToThread(r, t, role, key)
      PROVE  ChatInv' /\ RateInv'
  <2>1. PICK q : /\ q = [op |-> "post", pc |-> "member", thread |-> t, helper |-> threads[t].helper,
                         from |-> role, key |-> key, closed |-> FALSE]
                 /\ rq' = [rq EXCEPT ![r] = q]
    BY <1>3 DEF PostToThread, Begin
  <2>2. rq'[r] = q /\ UNCHANGED <<chatCase, threads, messages, answered>>
    BY <1>0, <1>3, <2>1 DEF PostToThread
  <2>3. t \in 1 .. MaxMessages /\ t <= Len(threads) /\ threads[t].helper \in Helpers
    BY ChatDomains, ChatSizes DEF ChatInv, Thread
  <2>4. q \in Posting /\ q.thread = t /\ q.helper = threads[t].helper /\ q.pc # "insert"
    BY <2>1, <2>3 DEF Posting
  <2>5. QED
    BY <2>1, <2>2, <2>3, <2>4, ChatMoves, Shapes DEF ChatRequest
\* The thread that is found, or adopted, is the helper's own.
<1>4. ASSUME rq[r] \in Seeking, NEW t \in ThreadsOf(rq[r].helper),
             With(r, [pc |-> "member", thread |-> t]),
             UNCHANGED <<chatCase, threads, messages, answered>>
      PROVE  ChatInv' /\ RateInv'
  <2>1. t \in 1 .. MaxMessages /\ t <= Len(threads) /\ threads[t].helper = rq[r].helper
    BY ChatDomains, ChatSizes DEF ChatInv, ThreadsOf
  <2>2. rq' = [rq EXCEPT ![r] = rq'[r]]
    BY <1>0, <1>4 DEF With
  <2>3. /\ rq'[r] \in Posting /\ rq'[r].pc = "member" /\ rq'[r].thread = t
        /\ rq'[r].helper = rq[r].helper
    <3>1. With(r, [pc |-> "member", thread |-> t]) /\ rq[r] \in Seeking
      BY <1>4
    <3>2. QED
      BY <1>0, <2>1, <3>1 DEF With, Seeking, Posting, Roles
  <2>4. QED
    BY <1>4, <2>1, <2>2, <2>3, ChatMoves, Shapes DEF ChatRequest
<1>5. ASSUME FindThread(r) PROVE ChatInv' /\ RateInv'
  <2>1. rq[r] \in Seeking /\ UNCHANGED <<chatCase, threads, messages, answered>>
    BY <1>0, <1>5 DEF FindThread, At, ChatRequest, Posting, Reading, Idle
  <2>2. CASE Goto(r, "create")
    <3>1. rq'[r] \in Seeking /\ rq' = [rq EXCEPT ![r] = rq'[r]]
      BY <1>0, <2>1, <2>2 DEF Goto, Seeking
    <3>2. QED
      BY <2>1, <3>1, ChatMoves, Shapes DEF ChatRequest
  <2>3. QED
    BY <1>4, <1>5, <2>1, <2>2 DEF FindThread
<1>6. ASSUME CreateThread(r) PROVE ChatInv' /\ RateInv'
  <2>1. rq[r] \in Seeking
    BY <1>0, <1>6 DEF CreateThread, At, ChatRequest, Posting, Reading, Idle
  <2>2. QED
    BY <1>4, <1>6, <2>1, ChatCreates DEF CreateThread
<1>7. ASSUME ReadMembership(r) PROVE ChatInv' /\ RateInv'
  <2>1. rq[r] \in Posting /\ UNCHANGED <<chatCase, threads, messages, answered>>
    BY <1>0, <1>7 DEF ReadMembership, At, ChatRequest, Seeking, Reading, Idle
  <2>2. PICK closed \in BOOLEAN : With(r, [pc |-> "replay", closed |-> closed])
    <3>1. Closed \in BOOLEAN /\ With(r, [pc |-> "replay", closed |-> Closed])
      BY <1>a, <1>7 DEF ReadMembership
    <3>2. QED
      BY <3>1
  <2>3. rq' = [rq EXCEPT ![r] = rq'[r]]
    BY <1>0, <2>2 DEF With
  <2>4. /\ rq'[r] \in Posting /\ rq'[r].pc = "replay" /\ rq'[r].thread = rq[r].thread
        /\ rq'[r].helper = rq[r].helper
    BY <1>0, <2>1, <2>2 DEF With, Posting
  <2>5. QED
    BY <1>0, <2>1, <2>3, <2>4, ChatMoves, Shapes DEF ChatRequest, ChatRead
<1>8. ASSUME AnswerReplay(r) PROVE ChatInv' /\ RateInv'
  <2>1. rq[r] \in Posting /\ UNCHANGED <<chatCase, threads, messages>>
    BY <1>0, <1>8 DEF AnswerReplay, At, ChatRequest, Seeking, Reading, Idle
  <2>2. CASE Goto(r, "count") /\ UNCHANGED answered
    <3>1. /\ rq'[r] \in Posting /\ rq' = [rq EXCEPT ![r] = rq'[r]] /\ rq'[r].pc = "count"
          /\ rq'[r].thread = rq[r].thread /\ rq'[r].helper = rq[r].helper
      BY <1>0, <2>1, <2>2 DEF Goto, Posting
    <3>2. QED
      BY <1>0, <2>1, <2>2, <3>1, ChatMoves, Shapes DEF ChatRequest, ChatRead
  <2>3. QED
    BY <1>8, <2>1, <2>2, ChatAnswers DEF AnswerReplay
<1>9. ASSUME CountRecent(r) PROVE ChatInv' /\ RateInv'
  <2>1. /\ rq[r] \in Posting /\ rq[r].pc = "count"
        /\ UNCHANGED <<chatCase, threads, messages, answered>>
    BY <1>0, <1>9 DEF CountRecent, ChatRequest, Seeking, Reading, Idle
  <2>2. QED
    BY <1>9, <2>1, ChatCounts DEF CountRecent
<1>10. ASSUME InsertMessage(r) PROVE ChatInv' /\ RateInv'
  <2>1. rq[r] \in Posting /\ rq[r].pc = "insert" /\ UNCHANGED <<chatCase, threads>>
    BY <1>0, <1>10 DEF InsertMessage, ChatRequest, Seeking, Reading, Idle
  <2>2. QED
    BY <1>10, <2>1, ChatAnswers, ChatStores DEF InsertMessage
<1>11. ASSUME GivesUp(r), UNCHANGED <<chatCase, threads, messages, answered>>
       PROVE  ChatInv' /\ RateInv'
  BY <1>11, ChatEnds DEF GivesUp
<1>12. QED
  BY <1>1, <1>2, <1>3, <1>5, <1>6, <1>7, <1>8, <1>9, <1>10, <1>11

LEMMA ChatStep ==
    ASSUME ChatInv, RateInv, [ChatNext]_chatVars
    PROVE  ChatInv' /\ RateInv'
<1>0. /\ rq \in [Reqs -> ChatRequest] /\ ChatRead /\ threads \in Seq(Thread)
      /\ messages \in Seq(Message)
      /\ chatCase \in [status : {"open", "resolved", "purged"}, hidden : BOOLEAN]
      /\ Len(threads) \in 0 .. MaxMessages /\ Len(messages) \in 0 .. MaxMessages
      /\ MessageIds = 1 .. Len(messages) /\ DOMAIN threads = 1 .. Len(threads)
  BY ChatDomains DEF ChatInv, ChatTyped
<1>1. ASSUME UNCHANGED rq, ChatTyped', Restated, UNCHANGED answered PROVE ChatInv' /\ RateInv'
  <2>1. ChatRead'
    <3>1. \A s \in Reqs : rq[s] \in Posting \/ rq[s] \in Reading => rq[s].thread \in 1 .. MaxMessages
      BY DEF Posting, Reading
    <3>2. \A s \in Reqs : rq[s] \in Posting => rq[s].thread \in DOMAIN threads
      BY <1>0, <3>1, ChatSizes DEF ChatRead
    <3>3. QED
      BY <1>0, <1>1, <3>2 DEF ChatRead, Restated
  <2>2. QED
    BY <1>1, <2>1, ChatRestated, RateRestated DEF ChatInv
<1>2. ASSUME NEW r \in Reqs, AdvanceLastRead(r) PROVE ChatInv' /\ RateInv'
  <2>1. /\ rq[r] \in Reading /\ UNCHANGED <<chatCase, messages, answered>>
        /\ rq' = [rq EXCEPT ![r] = Idle]
    BY <1>0, <1>2 DEF AdvanceLastRead, At, Finish, ChatRequest, Seeking, Posting, Idle
  <2>2. PICK t \in DOMAIN threads, role \in Roles, last \in 1 .. MaxMessages :
              rq[r].thread = t /\ rq[r].role = role /\ rq[r].last = last
    BY <1>0, <2>1, ChatSizes DEF ChatRead, Reading
  <2>a. threads[t] \in Thread
    BY <1>0
  <2>3. threads[t] \in Thread /\ threads[t].lastRead \in [Roles -> 0 .. MaxMessages]
    BY <2>a DEF Thread
  <2>4. PICK x \in Thread : threads' = [threads EXCEPT ![t] = x] /\ x.helper = threads[t].helper
    <3>1. PICK read \in 0 .. MaxMessages :
             threads' = [threads EXCEPT ![t] = [threads[t] EXCEPT !.lastRead = [threads[t].lastRead EXCEPT ![role] = read]]]
      <4>1. threads' = [threads EXCEPT ![t].lastRead[role] = IF @ < last THEN last ELSE @]
        BY <1>2, <2>2 DEF AdvanceLastRead
      <4>2. (IF threads[t].lastRead[role] < last THEN last ELSE threads[t].lastRead[role]) \in 0 .. MaxMessages
        BY <2>3, ChatSizes
      <4>3. QED
        BY <4>1, <4>2
    <3>2. [threads[t].lastRead EXCEPT ![role] = read] \in [Roles -> 0 .. MaxMessages]
      BY <2>3
    <3>3. [threads[t] EXCEPT !.lastRead = [threads[t].lastRead EXCEPT ![role] = read]] \in Thread
      BY <2>3, <3>2 DEF Thread
    <3>4. [threads[t] EXCEPT !.lastRead = [threads[t].lastRead EXCEPT ![role] = read]].helper = threads[t].helper
      BY <2>3 DEF Thread
    <3>5. QED
      BY <3>1, <3>3, <3>4
  <2>5. threads' \in Seq(Thread) /\ Len(threads') = Len(threads)
    BY <1>0, <2>4, SeqPut
  <2>6. \A u \in DOMAIN threads : threads'[u].helper = threads[u].helper
    BY <2>4
  <2>7. rq'[r] = Idle /\ \A s \in Reqs : s # r => rq'[s] = rq[s]
    BY <1>0, <2>1
  <2>8. rq' \in [Reqs -> ChatRequest]
    BY <1>0, <2>1 DEF ChatRequest
  <2>9. ChatTyped'
    BY <1>0, <2>1, <2>5, <2>8, ChatSizes DEF ChatTyped
  <2>10. Restated
    BY <2>1, <2>5, <2>6 DEF Restated
  <2>11. ChatRead'
    <3>1. \A s \in Reqs : rq[s] \in Posting => rq[s].thread \in DOMAIN threads
      BY <1>0, ChatSizes DEF ChatRead, Posting
    <3>2. QED
      BY <1>0, <2>1, <2>5, <2>6, <2>7, <3>1, Shapes DEF ChatRead
  <2>12. QED
    BY <2>1, <2>7, <2>9, <2>10, <2>11, Shapes, ChatRestated, RateRestated DEF ChatInv
<1>3. ASSUME CloseCase \/ ToggleHidden PROVE ChatInv' /\ RateInv'
  <2>1. UNCHANGED <<threads, messages, answered, rq>>
        /\ chatCase' \in [status : {"open", "resolved", "purged"}, hidden : BOOLEAN]
    BY <1>0, <1>3 DEF CloseCase, ToggleHidden
  <2>2. QED
    BY <1>0, <1>1, <2>1, ChatSizes DEF ChatTyped, Restated
<1>4. ASSUME PurgeChat PROVE ChatInv' /\ RateInv'
  <2>1. /\ messages' = [i \in MessageIds |-> [messages[i] EXCEPT !.text = FALSE]]
        /\ UNCHANGED <<threads, answered, rq>>
        /\ chatCase' \in [status : {"open", "resolved", "purged"}, hidden : BOOLEAN]
    BY <1>0, <1>4 DEF PurgeChat
  <2>2. \A i \in MessageIds : messages[i] \in Message
    BY <1>0
  <2>3. \A i \in MessageIds : [messages[i] EXCEPT !.text = FALSE] \in Message
    BY <2>2 DEF Message
  <2>4. messages' \in Seq(Message) /\ Len(messages') = Len(messages)
    BY <1>0, <2>1, <2>3
  <2>5. Restated
    BY <1>0, <2>1, <2>2, <2>4 DEF Restated, Message
  <2>6. QED
    BY <1>0, <1>1, <2>1, <2>4, <2>5, ChatSizes DEF ChatTyped
<1>5. ASSUME WindowSlides PROVE ChatInv' /\ RateInv'
  <2>1. PICK i \in MessageIds : messages' = [messages EXCEPT ![i] = [messages[i] EXCEPT !.recent = FALSE]]
    BY <1>5 DEF WindowSlides
  <2>2. UNCHANGED <<chatCase, threads, answered, rq>>
    BY <1>5 DEF WindowSlides
  <2>3. \A j \in MessageIds : messages[j] \in Message
    BY <1>0
  <2>4. [messages[i] EXCEPT !.recent = FALSE] \in Message
    BY <2>3 DEF Message
  <2>5. messages' \in Seq(Message) /\ Len(messages') = Len(messages)
    BY <1>0, <2>1, <2>4, SeqPut
  <2>6. Restated
    BY <1>0, <2>1, <2>2, <2>3, <2>5 DEF Restated, Message
  <2>7. QED
    BY <1>0, <1>1, <2>2, <2>5, <2>6, ChatSizes DEF ChatTyped
<1>6. CASE UNCHANGED chatVars
  <2>1. UNCHANGED <<chatCase, threads, messages, answered, rq>>
    BY <1>6 DEF chatVars
  <2>2. QED
    BY <1>0, <1>1, <2>1, ChatSizes DEF ChatTyped, Restated
<1>7. QED
  BY <1>2, <1>3, <1>4, <1>5, <1>6, ChatRequestStep DEF ChatNext, ChatRequests

LEMMA ChatStart == ChatInit => ChatInv /\ RateInv
<1> SUFFICES ASSUME ChatInit PROVE ChatInv /\ RateInv
  OBVIOUS
<1>1. threads = << >> /\ messages = << >> /\ answered = {} /\ rq = [r \in Reqs |-> Idle]
      /\ chatCase \in [status : {"open", "resolved", "purged"}, hidden : BOOLEAN]
  BY DEF ChatInit, HandlersInit
<1>2. ChatInv
  BY <1>1, ChatSizes, Shapes
     DEF ChatInv, ChatTyped, ChatRead, ChatRequest, OneThread, OneMessage, AnsweredBacked,
         MessageIds
<1>3. ASSUME NEW t \in 1 .. MaxMessages, NEW role \in Roles
      PROVE  Cardinality(Recent(t, role)) + Cardinality(Inserting(t, role)) <= Rate + Cardinality(Reqs) - 1
  <2>1. Recent(t, role) = {} /\ Inserting(t, role) = {}
    BY <1>1, Shapes DEF Recent, MessageIds, Inserting
  <2>2. QED
    BY <2>1, ChatSizes, FS_EmptySet
<1>4. QED
  BY <1>2, <1>3 DEF RateInv

\* A message sent again with its key is answered with the same message, whatever retries,
\* first messages and posts overlap (post, postToReport, insertMessage).
THEOREM RetriesAnswered == ChatSpec => [](ChatTypeOK /\ RetryAnsweredOnce)
<1>1. ASSUME ChatInv PROVE ChatTypeOK /\ RetryAnsweredOnce
  <2>1. ASSUME NEW x \in answered PROVE x \in Helpers \X Roles \X MessageKeys \X MessageIds
    <3>1. PICK i \in MessageIds :
             /\ messages[i].thread \in DOMAIN threads
             /\ x = <<threads[messages[i].thread].helper, messages[i].from, messages[i].key, i>>
      BY <1>1 DEF ChatInv, AnsweredBacked
    <3>2. messages[i] \in Message /\ threads[messages[i].thread] \in Thread
      BY <1>1, <3>1, ChatDomains DEF ChatInv
    <3>3. QED
      BY <3>1, <3>2 DEF Message, Thread
  <2>2. ASSUME NEW x \in answered, NEW y \in answered, x[1] = y[1], x[2] = y[2], x[3] = y[3]
        PROVE  x[4] = y[4]
    <3>1. PICK i \in MessageIds :
             /\ messages[i].thread \in DOMAIN threads
             /\ x = <<threads[messages[i].thread].helper, messages[i].from, messages[i].key, i>>
      BY <1>1 DEF ChatInv, AnsweredBacked
    <3>2. PICK j \in MessageIds :
             /\ messages[j].thread \in DOMAIN threads
             /\ y = <<threads[messages[j].thread].helper, messages[j].from, messages[j].key, j>>
      BY <1>1 DEF ChatInv, AnsweredBacked
    <3>3. messages[i].thread = messages[j].thread
      BY <1>1, <2>2, <3>1, <3>2 DEF ChatInv, OneThread
    <3>4. QED
      BY <1>1, <2>2, <3>1, <3>2, <3>3 DEF ChatInv, OneMessage
  <2>3. QED
    BY <1>1, <2>1, <2>2 DEF ChatInv, ChatTyped, ChatTypeOK, RetryAnsweredOnce
<1>2. QED
  BY <1>1, ChatStart, ChatStep, PTL DEF ChatSpec

\* The rate of a sender in a thread is exceeded by less than the number of requests in flight
\* (countRecentMessages, read some awaits before the insert).
THEOREM RateHolds == ChatSpec => []RateBounded
<1>1. ASSUME ChatInv, RateInv PROVE RateBounded
  <2> SUFFICES ASSUME NEW t \in DOMAIN threads, NEW role \in Roles
               PROVE  Cardinality(Recent(t, role)) <= Rate + Cardinality(Reqs) - 1
    BY DEF RateBounded
  <2>1. t \in 1 .. MaxMessages
    BY <1>1, ChatDomains, ChatSizes DEF ChatInv
  <2>2. Cardinality(Recent(t, role)) + Cardinality(Inserting(t, role)) <= Rate + Cardinality(Reqs) - 1
    BY <1>1, <2>1 DEF RateInv
  <2>3. QED
    BY <1>1, <2>2, Counted, ChatSizes DEF ChatInv
<1>2. QED
  BY <1>1, ChatStart, ChatStep, PTL DEF ChatSpec

\* What a step does to the threads and messages, as far as keys go: threads stay their
\* helpers', messages stay whose they are, and one of them, perhaps new, may be answered.
Filed == \A i \in MessageIds : messages[i].thread \in DOMAIN threads
Grown ==
    /\ \A t \in DOMAIN threads : t \in DOMAIN threads' /\ threads'[t].helper = threads[t].helper
    /\ \A i \in MessageIds : /\ messages'[i].thread = messages[i].thread
                             /\ messages'[i].from = messages[i].from
                             /\ messages'[i].key = messages[i].key
Reached(i) == <<threads[messages[i].thread].helper, messages[i].from, messages[i].key, i>>
Replied == /\ MessageIds' = MessageIds
           /\ UNCHANGED answered \/ \E i \in MessageIds : answered' = answered \cup {Reached(i)}
Stored  == \E i : /\ i \notin MessageIds /\ MessageIds' = MessageIds \cup {i}
                  /\ messages'[i].thread \in DOMAIN threads'
                  /\ answered' = answered \cup {Reached(i)'}
ChatEffect == Grown /\ (Replied \/ Stored)

LEMMA ChatEffects == ASSUME ChatInv, [ChatNext]_chatVars PROVE ChatEffect
<1>0. /\ ChatTyped /\ rq \in [Reqs -> ChatRequest] /\ ChatRead
      /\ DOMAIN threads = 1 .. Len(threads) /\ Len(threads) \in Nat /\ threads \in Seq(Thread)
      /\ MessageIds = 1 .. Len(messages) /\ Len(messages) \in Nat /\ messages \in Seq(Message)
      /\ MessageIds = DOMAIN messages
      /\ \A i \in MessageIds : messages[i] \in Message
  BY ChatDomains DEF ChatInv, ChatTyped, MessageIds
<1>1. ASSUME UNCHANGED <<threads, messages, answered>> PROVE ChatEffect
  BY <1>1 DEF ChatEffect, Grown, Replied, MessageIds
<1>2. ASSUME NEW r \in Reqs, rq[r].op \in {"first", "post"}, rq[r].pc \in {"replay", "insert"}
      PROVE  /\ rq[r].thread \in DOMAIN threads /\ threads[rq[r].thread].helper = rq[r].helper
             /\ rq[r].from \in Roles /\ rq[r].key \in MessageKeys /\ rq[r].thread \in 1 .. MaxMessages
  <2>1. rq[r] \in Posting
    BY <1>0, <1>2 DEF ChatRequest, Seeking, Reading, Idle
  <2>2. QED
    BY <1>0, <2>1, ChatSizes DEF ChatRead, Posting
<1>3. ASSUME NEW r \in Reqs, rq[r].op \in {"first", "post"}, rq[r].pc \in {"replay", "insert"},
             NEW i \in SameKey(r), Answer(r, i), UNCHANGED <<threads, messages>>
      PROVE  ChatEffect
  <2>1. i \in MessageIds /\ Reached(i) = <<rq[r].helper, rq[r].from, rq[r].key, i>>
    BY <1>2, <1>3 DEF SameKey, Reached
  <2>2. Grown /\ MessageIds' = MessageIds
    BY <1>3 DEF Grown, MessageIds
  <2>3. answered' = answered \cup {Reached(i)}
    BY <1>3, <2>1 DEF Answer
  <2>4. QED
    BY <2>1, <2>2, <2>3 DEF ChatEffect, Replied
<1>4. ASSUME NEW r \in Reqs, AnswerReplay(r) PROVE ChatEffect
  BY <1>1, <1>3, <1>4 DEF AnswerReplay
<1>5. ASSUME NEW r \in Reqs, InsertMessage(r) PROVE ChatEffect
  <2>0. rq[r].op \in {"first", "post"} /\ rq[r].pc = "insert" /\ UNCHANGED threads
    BY <1>5 DEF InsertMessage
  <2>1. CASE UNCHANGED messages /\ \E i \in SameKey(r) : Answer(r, i)
    BY <1>3, <2>0, <2>1
  <2>2. CASE messages' = Append(messages, StoredMessage(r)) /\ Answer(r, Len(messages) + 1)
    <3>0. PICK n : n = Len(messages) + 1
      OBVIOUS
    <3> DEFINE new == StoredMessage(r)
    <3>1. /\ new \in Message /\ new.thread = rq[r].thread /\ new.from = rq[r].from
          /\ new.key = rq[r].key
      BY <1>2, <2>0 DEF StoredMessage, Message
    <3> HIDE DEF new
    <3>2. /\ \A i \in MessageIds : messages'[i] = messages[i]
          /\ messages'[n] = new /\ MessageIds' = MessageIds \cup {n} /\ n \notin MessageIds
      BY <1>0, <2>2, <3>0, <3>1 DEF MessageIds, new
    <3>3. Reached(n)' = <<rq[r].helper, rq[r].from, rq[r].key, n>>
      BY <1>2, <2>0, <3>1, <3>2 DEF Reached
    <3>4. answered' = answered \cup {Reached(n)'}
      BY <2>2, <3>0, <3>3 DEF Answer
    <3>5. Grown /\ messages'[n].thread \in DOMAIN threads'
      BY <1>2, <2>0, <3>1, <3>2 DEF Grown
    <3>6. QED
      BY <3>2, <3>4, <3>5 DEF ChatEffect, Stored
  <2>3. QED
    BY <1>5, <2>1, <2>2 DEF InsertMessage
<1>6. ASSUME NEW r \in Reqs, CreateThread(r) PROVE ChatEffect
  <2>0. UNCHANGED <<messages, answered>>
    BY <1>6 DEF CreateThread
  <2>1. \A t \in DOMAIN threads : t \in DOMAIN threads' /\ threads'[t].helper = threads[t].helper
    <3>1. CASE threads' = Append(threads, NewThread(rq[r].helper))
      BY <1>0, <3>1
    <3>2. QED
      BY <1>6, <3>1 DEF CreateThread
  <2>2. QED
    BY <2>0, <2>1 DEF ChatEffect, Grown, Replied, MessageIds
<1>7. ASSUME NEW r \in Reqs, AdvanceLastRead(r) PROVE ChatEffect
  <2>0. UNCHANGED <<messages, answered>>
    BY <1>7 DEF AdvanceLastRead
  <2>1. DOMAIN threads' = DOMAIN threads /\ \A t \in DOMAIN threads : threads'[t].helper = threads[t].helper
    <3>1. \A t \in DOMAIN threads : threads[t] \in Thread
      BY <1>0
    <3>2. QED
      BY <1>7, <3>1 DEF AdvanceLastRead, Thread
  <2>2. QED
    BY <2>0, <2>1 DEF ChatEffect, Grown, Replied, MessageIds
<1>8. ASSUME PurgeChat \/ WindowSlides PROVE ChatEffect
  <2>1. UNCHANGED <<threads, answered>> /\ DOMAIN messages' = DOMAIN messages
    BY <1>0, <1>8 DEF PurgeChat, WindowSlides
  <2>2. \A i \in MessageIds : /\ messages'[i].thread = messages[i].thread
                              /\ messages'[i].from = messages[i].from
                              /\ messages'[i].key = messages[i].key
    <3>1. CASE messages' = [i \in MessageIds |-> [messages[i] EXCEPT !.text = FALSE]]
      BY <1>0, <3>1 DEF Message
    <3>2. CASE \E i \in MessageIds : messages' = [messages EXCEPT ![i].recent = FALSE]
      BY <1>0, <3>2 DEF Message
    <3>3. QED
      BY <1>8, <3>1, <3>2 DEF PurgeChat, WindowSlides
  <2>3. QED
    BY <2>1, <2>2 DEF ChatEffect, Grown, Replied, MessageIds
<1>9. ASSUME CloseCase \/ ToggleHidden \/ UNCHANGED chatVars PROVE ChatEffect
  BY <1>1, <1>9 DEF CloseCase, ToggleHidden, chatVars
<1>10. ASSUME ChatRequests PROVE ChatEffect
  <2>1. PICK r \in Reqs :
           \/ \E h \in Helpers, key \in MessageKeys : PostToReport(r, h, key)
           \/ \E t \in DOMAIN threads, role \in Roles :
                 ReadThread(r, t, role) \/ \E key \in MessageKeys : PostToThread(r, t, role, key)
           \/ FindThread(r) \/ CreateThread(r) \/ ReadMembership(r) \/ AnswerReplay(r)
           \/ CountRecent(r) \/ InsertMessage(r) \/ AdvanceLastRead(r)
           \/ GivesUp(r) /\ UNCHANGED <<chatCase, threads, messages, answered>>
    BY <1>10 DEF ChatRequests
  <2>2. \/ UNCHANGED <<threads, messages, answered>>
        \/ CreateThread(r) \/ AnswerReplay(r) \/ InsertMessage(r) \/ AdvanceLastRead(r)
    BY <2>1 DEF PostToReport, ReadThread, PostToThread, FindThread, ReadMembership, CountRecent
  <2>3. QED
    BY <1>1, <1>4, <1>5, <1>6, <1>7, <2>2
<1>11. QED
  BY <1>8, <1>9, <1>10 DEF ChatNext

\* The key of message i, and message i under its key.
Filing(i) == <<<<threads[messages[i].thread].helper, messages[i].from, messages[i].key>>, i>>
ToldOf(x) == <<<<x[1], x[2], x[3]>>, x[4]>>

LEMMA ChatImplements ==
    ASSUME ChatInv, Filed, ChatEffect, ChatInv'
    PROVE  Filed' /\ [ChatKeys!Next]_(ChatKeys!keyedVars)
<1> DEFINE stored == {Filing(i) : i \in MessageIds}
           told == {ToldOf(x) : x \in answered}
<1>1. \A i \in MessageIds : Filing(i)' = Filing(i) /\ Reached(i)' = Reached(i)
  BY DEF Filing, Reached, Filed, ChatEffect, Grown
<1>2. \A i : ToldOf(Reached(i)) = Filing(i) /\ ToldOf(Reached(i)') = Filing(i)'
  BY DEF ToldOf, Reached, Filing
<1>3. Filed'
  BY DEF Filed, ChatEffect, Grown, Replied, Stored
<1>4. (UNCHANGED <<stored, told>>) \/ ChatKeys!Next => [ChatKeys!Next]_(ChatKeys!keyedVars)
  BY DEF ChatKeys!keyedVars, Filing, ToldOf
<1>5. CASE Replied
  <2>1. stored' = stored
    BY <1>1, <1>5 DEF Replied
  <2>2. CASE UNCHANGED answered
    <3>1. told' = told
      BY <2>2 DEF ToldOf
    <3>2. QED
      BY <1>3, <1>4, <2>1, <3>1
  <2>3. CASE \E i \in MessageIds : answered' = answered \cup {Reached(i)}
    <3>1. PICK i \in MessageIds : answered' = answered \cup {Reached(i)}
      BY <2>3
    <3>2. told' = told \cup {Filing(i)} /\ Filing(i) \in stored
      <4>1. told' = {ToldOf(x) : x \in answered'}
        BY DEF ToldOf
      <4>2. QED
        BY <1>2, <3>1, <4>1
    <3>3. (\E entry \in stored : told' = told \cup {entry}) /\ UNCHANGED stored
      BY <2>1, <3>2
    <3>4. ChatKeys!Retry
      BY <3>3 DEF ChatKeys!Retry, Filing, ToldOf
    <3>5. QED
      BY <1>3, <1>4, <3>4 DEF ChatKeys!Next
  <2>4. QED
    BY <1>5, <2>2, <2>3 DEF Replied
<1>6. CASE Stored
  <2>1. PICK i : /\ i \notin MessageIds /\ MessageIds' = MessageIds \cup {i}
                 /\ answered' = answered \cup {Reached(i)'}
    BY <1>6 DEF Stored
  <2>2. stored' = stored \cup {Filing(i)'} /\ told' = told \cup {Filing(i)'}
    <3>1. told' = {ToldOf(x) : x \in answered'} /\ stored' = {Filing(j)' : j \in MessageIds'}
      BY DEF ToldOf
    <3>2. stored' = stored \cup {Filing(i)'}
      BY <1>1, <2>1, <3>1
    <3>3. told' = told \cup {Filing(i)'}
      BY <1>2, <2>1, <3>1
    <3>4. QED
      BY <3>2, <3>3
  <2>3. \A old \in stored : old[1] # (Filing(i)')[1]
    <3>1. ASSUME NEW j \in MessageIds, Filing(j)[1] = (Filing(i)')[1] PROVE FALSE
      <4>1. (Filing(j)')[1] = (Filing(i)')[1] /\ {i, j} \subseteq MessageIds'
        BY <1>1, <2>1, <3>1
      <4>2. /\ threads'[messages'[j].thread].helper = threads'[messages'[i].thread].helper
            /\ messages'[j].from = messages'[i].from /\ messages'[j].key = messages'[i].key
        BY <4>1 DEF Filing
      <4>3. messages'[j].thread = messages'[i].thread
        BY <1>3, <4>1, <4>2 DEF ChatInv, OneThread, Filed
      <4>4. QED
        BY <2>1, <4>1, <4>2, <4>3 DEF ChatInv, OneMessage
    <3>2. QED
      BY <3>1
  <2>4. \E entry \in stored' : /\ \A old \in stored : old[1] # entry[1]
                               /\ stored' = stored \cup {entry}
                               /\ told' \in {told, told \cup {entry}}
    BY <2>2, <2>3
  <2>5. ChatKeys!Write
    BY <2>4 DEF ChatKeys!Write, Filing, ToldOf
  <2>6. QED
    BY <1>3, <1>4, <2>5 DEF ChatKeys!Next
<1>7. QED
  BY <1>5, <1>6 DEF ChatEffect

\* A key of a sender in a thread sends one message, which stays, and every answer to the key
\* is about it (insertMessage, findMessageByClientKey, insertThreadWithParticipants).
THEOREM ChatKeysKept == ChatSpec => ChatKeepsKeys
<1>1. ChatInit => Filed /\ ChatKeys!Init
  BY DEF ChatInit, Filed, MessageIds, ChatKeys!Init
<1>2. ChatInv /\ RateInv /\ Filed /\ [ChatNext]_chatVars
         => ChatInv' /\ RateInv' /\ Filed' /\ [ChatKeys!Next]_(ChatKeys!keyedVars)
  BY ChatStep, ChatEffects, ChatImplements
<1>3. QED
  BY <1>1, <1>2, ChatStart, PTL DEF ChatSpec, ChatKeepsKeys, ChatKeys!Spec

----------------------------------------------------------------------------
(* PanicAlerts: the cooldown of an account                                 *)

\* A trigger past its cooldown has looked at every alert of its account up to a point, and
\* those it saw were not active.

Snapshot == UNION {[S -> Responders] : S \in SUBSET (1 .. MaxMemberships)}

PanicRequest ==
    {Idle}
    \cup [op : {"trigger"}, pc : {"replay", "cooldown", "pool"}, who : Triggerers \cup {None},
          key : PanicKeys, lookedAt : 0 .. MaxAlerts]
    \cup [op : {"trigger"}, pc : {"insert"}, who : Triggerers \cup {None}, key : PanicKeys,
          lookedAt : 0 .. MaxAlerts, members : Snapshot]
    \cup [op : {"resolve"}, pc : {"update"}, alert : 1 .. MaxAlerts]

PanicTyped ==
    /\ pool \in Seq(Membership) /\ Len(pool) <= MaxMemberships
    /\ alerts \in Seq(Alert) /\ Len(alerts) <= MaxAlerts
    /\ rq \in [Reqs -> PanicRequest]

\* What a trigger past its cooldown, and a resolution, have read of the alerts.
PanicRead ==
    \A r \in Reqs :
        /\ rq[r].op = "resolve" => rq[r].alert <= Len(alerts)
        /\ rq[r].op = "trigger" => rq[r].lookedAt <= Len(alerts)
        /\ rq[r].op = "trigger" /\ rq[r].pc \in {"pool", "insert"} /\ rq[r].who # None =>
              \A a \in DOMAIN alerts :
                 alerts[a].account = rq[r].who /\ alerts[a].active => rq[r].lookedAt < a

OneByOne ==
    \A a, b \in DOMAIN alerts :
        (a < b /\ alerts[a].account # None /\ alerts[a].account = alerts[b].account
           /\ alerts[a].active)
        => alerts[b].lookedAt < a

KeyOfOne == \A a, b \in DOMAIN alerts : alerts[a].key = alerts[b].key => a = b

\* Every answer names its own alert and the recipients the alert was stored with.
Truthful ==
    /\ \A a \in DOMAIN alerts : Cardinality(alerts[a].recipients) \in 0 .. MaxMemberships
    /\ \A x \in replies : \E a \in DOMAIN alerts :
          x = <<alerts[a].key, a, Cardinality(alerts[a].recipients)>>

PanicInv == PanicTyped /\ PanicRead /\ OneByOne /\ KeyOfOne /\ Truthful

LEMMA PanicStart == PanicInit => PanicInv
BY PanicAssumption DEF PanicInit, HandlersInit, Idle, PanicInv, PanicTyped, PanicRequest,
   PanicRead, OneByOne, KeyOfOne, Truthful

\* The alerts are appended to, and of the stored ones only the activity changes.
AlertsGrow ==
    \A a \in DOMAIN alerts : /\ a \in DOMAIN alerts'
                             /\ alerts'[a].key = alerts[a].key
                             /\ alerts'[a].account = alerts[a].account
                             /\ alerts'[a].recipients = alerts[a].recipients
                             /\ alerts'[a].lookedAt = alerts[a].lookedAt
                             /\ alerts'[a].active => alerts[a].active

LEMMA MembersCounted ==
    ASSUME NEW members \in Snapshot,
           \A m, n \in DOMAIN members : members[m] = members[n] => m = n
    PROVE  Cardinality({members[m] : m \in DOMAIN members}) \in 0 .. MaxMemberships
<1>0. MaxMemberships \in Nat
  BY PanicAssumption
<1>1. PICK S \in SUBSET (1 .. MaxMemberships) : members \in [S -> Responders]
  BY DEF Snapshot
<1> DEFINE T == {members[m] : m \in DOMAIN members}
<1>2. members \in Surjection(S, T)
  BY <1>1 DEF Surjection
<1>3. IsFiniteSet(S) /\ Cardinality(S) <= MaxMemberships /\ Cardinality(S) \in Nat
  <2>1. IsFiniteSet(1 .. MaxMemberships) /\ Cardinality(1 .. MaxMemberships) = MaxMemberships
    BY <1>0, PanicAssumption, FS_Interval
  <2>2. IsFiniteSet(S) /\ Cardinality(S) <= MaxMemberships
    <3> DEFINE U == 1 .. MaxMemberships
    <3>1. S \in SUBSET U /\ IsFiniteSet(U) /\ Cardinality(U) = MaxMemberships
      BY <1>1, <2>1
    <3> HIDE DEF U
    <3>2. QED
      BY <3>1, FS_Subset
  <2>3. QED
    BY <2>2, FS_CardinalityType
<1>4. IsFiniteSet(T) /\ Cardinality(T) <= Cardinality(S)
  BY <1>2, <1>3, FS_Surjection
<1>5. Cardinality(T) \in Nat
  BY <1>4, FS_CardinalityType
<1>6. QED
  BY <1>0, <1>3, <1>4, <1>5

LEMMA PanicInsert ==
    ASSUME PanicInv, NEW r \in Reqs, InsertAlert(r)
    PROVE  PanicInv'
<1> USE DEF PanicInv, PanicTyped
<1>0. MaxAlerts \in Nat
  BY PanicAssumption
<1>1. /\ rq[r] \in [op : {"trigger"}, pc : {"insert"}, who : Triggerers \cup {None}, key : PanicKeys,
                    lookedAt : 0 .. MaxAlerts, members : Snapshot]
      /\ rq[r].op = "trigger" /\ rq[r].pc = "insert"
  BY DEF InsertAlert, At, PanicRequest, Idle
<1> DEFINE who == rq[r].who
           members == {rq[r].members[m] : m \in DOMAIN rq[r].members}
           b == [key |-> rq[r].key, account |-> rq[r].who, active |-> TRUE,
                 recipients |-> members, lookedAt |-> rq[r].lookedAt]
<1>2. /\ alerts' = Append(alerts, b) /\ pool' = pool
      /\ replies' = replies \cup {<<rq[r].key, Len(alerts) + 1, Cardinality(members)>>}
      /\ rq' = [rq EXCEPT ![r] = Idle]
      /\ Len(alerts) < MaxAlerts
      /\ \A a \in DOMAIN alerts : alerts[a].key # rq[r].key
  BY <1>1 DEF InsertAlert, Reply, Finish, KeyOwners
<1>3. b \in Alert
  BY <1>1 DEF Alert, Snapshot
<1>4. Cardinality(members) \in 0 .. MaxMemberships
  BY <1>1, MembersCounted DEF InsertAlert
<1> HIDE DEF b, members
<1>5. /\ alerts' \in Seq(Alert) /\ Len(alerts') = Len(alerts) + 1 /\ Len(alerts) \in Nat
      /\ \A a \in DOMAIN alerts : alerts'[a] = alerts[a]
      /\ alerts'[Len(alerts) + 1] = b
      /\ DOMAIN alerts = 1 .. Len(alerts) /\ DOMAIN alerts' = 1 .. (Len(alerts) + 1)
  BY <1>2, <1>3
<1>6. PanicTyped'
  BY <1>0, <1>2, <1>5 DEF PanicRequest
<1>7. PanicRead'
  BY <1>2, <1>5 DEF PanicRead, Idle, PanicRequest
<1>8. OneByOne'
  <2>1. \A a \in DOMAIN alerts : alerts[a].account = b.account /\ b.account # None /\ alerts[a].active
            => b.lookedAt < a
    BY <1>1 DEF PanicRead, b
  <2>2. QED
    BY <1>5, <2>1 DEF OneByOne
<1>9. KeyOfOne'
  <2>1. \A a \in DOMAIN alerts : alerts[a].key # b.key
    BY <1>2 DEF b
  <2>2. QED
    BY <1>5, <2>1 DEF KeyOfOne
<1>10. Truthful'
  <2>1. b.key = rq[r].key /\ b.recipients = members
    BY DEF b
  <2>2. QED
    BY <1>2, <1>4, <1>5, <2>1 DEF Truthful
<1>11. QED
  BY <1>6, <1>7, <1>8, <1>9, <1>10

\* A step that stores nothing new.
LEMMA PanicQuiet ==
    ASSUME PanicInv, pool' \in Seq(Membership), Len(pool') <= MaxMemberships,
           UNCHANGED <<alerts, replies>>, rq' \in [Reqs -> PanicRequest], PanicRead'
    PROVE  PanicInv'
BY DEF PanicInv, PanicTyped, OneByOne, KeyOfOne, Truthful

LEMMA PanicStep == ASSUME PanicInv, [PanicNext]_panicVars PROVE PanicInv'
<1>0. /\ pool \in Seq(Membership) /\ Len(pool) <= MaxMemberships /\ Len(alerts) \in 0 .. MaxAlerts
      /\ alerts \in Seq(Alert) /\ rq \in [Reqs -> PanicRequest] /\ PanicRead
      /\ MaxAlerts \in Nat /\ MaxMemberships \in Nat
  BY PanicAssumption DEF PanicInv, PanicTyped
<1>1. ASSUME NEW u \in Responders, AskToRespond(u) PROVE PanicInv'
  <2>1. pool' \in Seq(Membership) /\ Len(pool') <= MaxMemberships
    BY <1>0, <1>1 DEF AskToRespond, Membership
  <2>2. QED
    BY <1>0, <1>1, <2>1, PanicQuiet DEF AskToRespond, PanicRead
<1>2. ASSUME NEW m \in DOMAIN pool, NEW status \in {"approved", "denied"},
             ResolveMembership(m, status)
      PROVE  PanicInv'
  <2>1. pool' \in Seq(Membership) /\ Len(pool') <= MaxMemberships
    <3>0. pool[m] \in Membership
      BY <1>0
    <3>1. [pool[m] EXCEPT !.status = status] \in Membership
      BY <3>0 DEF Membership
    <3>2. pool' = [pool EXCEPT ![m] = [pool[m] EXCEPT !.status = status]]
      BY <1>2 DEF ResolveMembership
    <3>3. QED
      BY <1>0, <3>1, <3>2, SeqPut
  <2>2. QED
    BY <1>0, <1>2, <2>1, PanicQuiet DEF ResolveMembership, PanicRead
<1>3. ASSUME NEW r \in Reqs, NEW who \in Triggerers \cup {None}, NEW key \in PanicKeys,
             Trigger(r, who, key)
      PROVE  PanicInv'
  <2>1. PICK pc \in {"replay", "cooldown", "pool"} :
           /\ pc = "pool" => who = None
           /\ rq' = [rq EXCEPT ![r] = [op |-> "trigger", who |-> who, key |-> key, lookedAt |-> 0, pc |-> pc]]
    BY <1>3 DEF Trigger, Begin
  <2>2. UNCHANGED <<pool, alerts, replies>>
    BY <1>3 DEF Trigger
  <2>3. rq' \in [Reqs -> PanicRequest]
    BY <1>0, <2>1 DEF PanicRequest
  <2>4. PanicRead'
    BY <1>0, <2>1, <2>2 DEF PanicRead
  <2>5. QED
    BY <1>0, <2>2, <2>3, <2>4, PanicQuiet
<1>4. ASSUME NEW r \in Reqs, NEW a \in DOMAIN alerts, ResolveBegin(r, a) PROVE PanicInv'
  <2>1. a \in 1 .. Len(alerts) /\ UNCHANGED <<pool, alerts, replies>>
        /\ rq' = [rq EXCEPT ![r] = [op |-> "resolve", pc |-> "update", alert |-> a]]
    BY <1>0, <1>4 DEF ResolveBegin, Begin
  <2>2. rq' \in [Reqs -> PanicRequest]
    BY <1>0, <2>1 DEF PanicRequest
  <2>3. PanicRead'
    BY <1>0, <2>1 DEF PanicRead
  <2>4. QED
    BY <1>0, <2>1, <2>2, <2>3, PanicQuiet
<1>5. ASSUME NEW r \in Reqs, TriggerReplay(r) PROVE PanicInv'
  <2>1. PICK a \in DOMAIN alerts : alerts[a].key = rq[r].key
           /\ replies' = replies \cup {<<rq[r].key, a, Cardinality(alerts[a].recipients)>>}
           /\ rq' = [rq EXCEPT ![r] = Idle] /\ UNCHANGED <<pool, alerts>>
    <3>1. rq[r].key \in PanicKeys
      BY <1>0, <1>5 DEF TriggerReplay, At, PanicRequest, Idle
    <3>2. QED
      BY <1>5, <3>1 DEF TriggerReplay, KeyOwners, Reply, Finish
  <2>2. rq' \in [Reqs -> PanicRequest]
    BY <1>0, <2>1 DEF PanicRequest
  <2>3. PanicRead'
    BY <1>0, <2>1 DEF PanicRead, Idle
  <2>4. Truthful'
    BY <2>1 DEF Truthful, PanicInv
  <2>5. QED
    BY <1>0, <2>1, <2>2, <2>3, <2>4 DEF PanicInv, PanicTyped, OneByOne, KeyOfOne
<1>6. ASSUME NEW r \in Reqs, Cooldown(r) PROVE PanicInv'
  <2>1. rq[r].op = "trigger" /\ rq[r].pc = "cooldown" /\ UNCHANGED <<pool, alerts, replies>>
        /\ \A a \in DOMAIN alerts : ~(alerts[a].account = rq[r].who /\ alerts[a].active)
        /\ With(r, [pc |-> "pool", lookedAt |-> Len(alerts)])
    BY <1>6 DEF Cooldown, At, ActiveOf
  <2>2. rq[r] \in [op : {"trigger"}, pc : {"replay", "cooldown", "pool"}, who : Triggerers \cup {None},
                   key : PanicKeys, lookedAt : 0 .. MaxAlerts]
    BY <1>0, <2>1 DEF PanicRequest, Idle
  <2>3. /\ rq' \in [Reqs -> PanicRequest] /\ \A s \in Reqs \ {r} : rq'[s] = rq[s]
        /\ rq'[r].op = "trigger" /\ rq'[r].who = rq[r].who /\ rq'[r].lookedAt = Len(alerts)
    <3>1. With(r, [pc |-> "pool", lookedAt |-> Len(alerts)])
      BY <1>6 DEF Cooldown
    <3>2. rq \in [Reqs -> PanicRequest] /\ Len(alerts) \in 0 .. MaxAlerts
      BY <1>0
    <3>3. QED
      BY <2>2, <3>1, <3>2 DEF With, PanicRequest
  <2>4. PanicRead'
    BY <1>0, <2>1, <2>3 DEF PanicRead
  <2>5. QED
    BY <1>0, <2>1, <2>3, <2>4, PanicQuiet
<1>7. ASSUME NEW r \in Reqs, ReadPool(r) PROVE PanicInv'
  <2>1. rq[r].op = "trigger" /\ rq[r].pc = "pool" /\ UNCHANGED <<pool, alerts, replies>>
        /\ With(r, [pc |-> "insert", members |-> [m \in Approved |-> pool[m].user]])
    BY <1>7 DEF ReadPool, At
  <2>2. [m \in Approved |-> pool[m].user] \in Snapshot
    <3>1. Approved \in SUBSET (1 .. MaxMemberships)
      BY <1>0 DEF Approved
    <3>2. \A m \in Approved : pool[m].user \in Responders
      <4>1. \A m \in DOMAIN pool : pool[m] \in Membership
        BY <1>0
      <4>2. QED
        BY <4>1 DEF Approved, Membership
    <3>3. [m \in Approved |-> pool[m].user] \in [Approved -> Responders]
      BY <3>2
    <3>4. \A f \in [Approved -> Responders] : f \in Snapshot
      BY <3>1 DEF Snapshot
    <3>5. QED
      BY <3>3, <3>4
  <2>3. PICK members \in Snapshot : With(r, [pc |-> "insert", members |-> members])
    BY <2>1, <2>2
  <2>4. rq[r] \in [op : {"trigger"}, pc : {"replay", "cooldown", "pool"}, who : Triggerers \cup {None},
                   key : PanicKeys, lookedAt : 0 .. MaxAlerts]
    BY <1>0, <2>1 DEF PanicRequest, Idle
  <2>5. /\ rq' \in [Reqs -> PanicRequest] /\ \A s \in Reqs \ {r} : rq'[s] = rq[s]
        /\ rq'[r].op = "trigger" /\ rq'[r].who = rq[r].who /\ rq'[r].lookedAt = rq[r].lookedAt
    BY <1>0, <2>3, <2>4 DEF With, PanicRequest
  <2>6. PanicRead'
    BY <1>0, <2>1, <2>5 DEF PanicRead
  <2>7. QED
    BY <1>0, <2>1, <2>5, <2>6, PanicQuiet
<1>8. ASSUME NEW r \in Reqs, ResolveUpdate(r) PROVE PanicInv'
  <2>1. PICK a \in DOMAIN alerts : alerts' = [alerts EXCEPT ![a] = [alerts[a] EXCEPT !.active = FALSE]]
    <3>1. rq[r].op = "resolve" /\ rq[r].alert \in 1 .. Len(alerts)
      BY <1>0, <1>8 DEF ResolveUpdate, At, PanicRead, PanicRequest, Idle
    <3>2. rq[r].alert \in DOMAIN alerts
      BY <1>0, <3>1
    <3>3. alerts' = [alerts EXCEPT ![rq[r].alert] = [alerts[rq[r].alert] EXCEPT !.active = FALSE]]
      BY <1>8 DEF ResolveUpdate
    <3>4. QED
      BY <3>2, <3>3
  <2>2. UNCHANGED <<pool, replies>> /\ rq' = [rq EXCEPT ![r] = Idle]
    BY <1>8 DEF ResolveUpdate, Finish
  <2>3. alerts' \in Seq(Alert) /\ Len(alerts') = Len(alerts) /\ DOMAIN alerts' = DOMAIN alerts
    <3>0. alerts[a] \in Alert
      BY <1>0
    <3>1. [alerts[a] EXCEPT !.active = FALSE] \in Alert
      BY <3>0 DEF Alert
    <3>2. QED
      BY <1>0, <2>1, <3>1, SeqPut
  <2>4. \A b \in DOMAIN alerts : /\ alerts'[b].key = alerts[b].key
                                 /\ alerts'[b].account = alerts[b].account
                                 /\ alerts'[b].recipients = alerts[b].recipients
                                 /\ alerts'[b].lookedAt = alerts[b].lookedAt
                                 /\ alerts'[b].active => alerts[b].active
    BY <1>0, <2>1 DEF Alert
  <2>5. PanicTyped'
    BY <1>0, <2>2, <2>3 DEF PanicTyped, PanicRequest
  <2>6. PanicRead'
    BY <1>0, <2>2, <2>3, <2>4 DEF PanicRead, Idle
  <2>7. OneByOne' /\ KeyOfOne'
    BY <1>0, <2>3, <2>4 DEF PanicInv, OneByOne, KeyOfOne
  <2>8. Truthful'
    BY <2>2, <2>3, <2>4 DEF PanicInv, Truthful
  <2>9. QED
    BY <2>5, <2>6, <2>7, <2>8 DEF PanicInv
<1>9. ASSUME NEW r \in Reqs, GivesUp(r), UNCHANGED <<pool, alerts, replies>> PROVE PanicInv'
  <2>1. rq' \in [Reqs -> PanicRequest] /\ PanicRead'
    BY <1>0, <1>9 DEF GivesUp, Finish, Idle, PanicRequest, PanicRead
  <2>2. QED
    BY <1>0, <1>9, <2>1, PanicQuiet
<1>10. CASE UNCHANGED panicVars
  BY <1>0, <1>10, PanicQuiet DEF panicVars, PanicRead
<1>11. QED
  BY <1>1, <1>2, <1>3, <1>4, <1>5, <1>6, <1>7, <1>8, <1>9, <1>10, PanicInsert DEF PanicNext

\* An account has one active alert unless two triggers overlapped, and whoever retries with a
\* key is answered with the alert of that key and its recipients (triggerAlert).
THEOREM CooldownKept == PanicSpec => [](PanicTypeOK /\ CooldownHolds)
<1>1. PanicInv => PanicTypeOK
  <2> SUFFICES ASSUME PanicInv, NEW x \in replies PROVE x \in PanicKeys \X (DOMAIN alerts) \X (0 .. MaxMemberships)
    BY DEF PanicInv, PanicTyped, PanicTypeOK
  <2>1. PICK a \in DOMAIN alerts : x = <<alerts[a].key, a, Cardinality(alerts[a].recipients)>>
    BY DEF PanicInv, Truthful
  <2>2. alerts[a] \in Alert
    BY DEF PanicInv, PanicTyped
  <2>3. alerts[a].key \in PanicKeys /\ Cardinality(alerts[a].recipients) \in 0 .. MaxMemberships
    BY <2>2 DEF PanicInv, Truthful, Alert
  <2>4. QED
    BY <2>1, <2>3
<1>2. PanicInv => CooldownHolds
  <2> SUFFICES ASSUME PanicInv, NEW x \in replies, NEW y \in replies, x[1] = y[1] PROVE x = y
    BY DEF PanicInv, CooldownHolds, OneByOne
  <2>1. PICK a \in DOMAIN alerts : x = <<alerts[a].key, a, Cardinality(alerts[a].recipients)>>
    BY DEF PanicInv, Truthful
  <2>2. PICK b \in DOMAIN alerts : y = <<alerts[b].key, b, Cardinality(alerts[b].recipients)>>
    BY DEF PanicInv, Truthful
  <2>3. QED
    BY <2>1, <2>2 DEF PanicInv, KeyOfOne
<1>3. QED
  BY <1>1, <1>2, PanicStart, PanicStep, PTL DEF PanicSpec

\* What a step does to the alerts and the answers, as far as keys go.
AlertReply(a) == <<alerts[a].key, a, Cardinality(alerts[a].recipients)>>
AlertReplied ==
    /\ DOMAIN alerts' = DOMAIN alerts
    /\ UNCHANGED replies \/ \E a \in DOMAIN alerts : replies' = replies \cup {AlertReply(a)}
AlertRaised ==
    \E a : /\ a \notin DOMAIN alerts /\ DOMAIN alerts' = DOMAIN alerts \cup {a}
           /\ replies' = replies \cup {AlertReply(a)'}
PanicEffect == AlertsGrow /\ (AlertReplied \/ AlertRaised)

LEMMA PanicEffects == ASSUME PanicInv, [PanicNext]_panicVars PROVE PanicEffect
<1>0. /\ alerts \in Seq(Alert) /\ rq \in [Reqs -> PanicRequest] /\ PanicRead
      /\ Len(alerts) \in Nat /\ DOMAIN alerts = 1 .. Len(alerts)
  BY DEF PanicInv, PanicTyped
<1>1. ASSUME UNCHANGED <<alerts, replies>> PROVE PanicEffect
  BY <1>1 DEF PanicEffect, AlertsGrow, AlertReplied
<1>2. ASSUME NEW r \in Reqs, TriggerReplay(r) PROVE PanicEffect
  <2>1. rq[r].key \in PanicKeys
    BY <1>0, <1>2 DEF TriggerReplay, At, PanicRequest, Idle
  <2>2. PICK a \in DOMAIN alerts : alerts[a].key = rq[r].key /\ Reply(r, a, Cardinality(alerts[a].recipients))
    BY <1>2, <2>1 DEF TriggerReplay, KeyOwners
  <2>3. replies' = replies \cup {AlertReply(a)} /\ UNCHANGED alerts
    BY <1>2, <2>2 DEF Reply, AlertReply, TriggerReplay
  <2>4. QED
    BY <2>3 DEF PanicEffect, AlertsGrow, AlertReplied
<1>3. ASSUME NEW r \in Reqs, InsertAlert(r) PROVE PanicEffect
  <2> DEFINE members == {rq[r].members[m] : m \in DOMAIN rq[r].members}
             b == [key |-> rq[r].key, account |-> rq[r].who, active |-> TRUE,
                   recipients |-> members, lookedAt |-> rq[r].lookedAt]
  <2>1. PICK n : n = Len(alerts) + 1
    OBVIOUS
  <2>2. alerts' = Append(alerts, b) /\ replies' = replies \cup {<<rq[r].key, n, Cardinality(members)>>}
    BY <1>3, <2>1 DEF InsertAlert, Reply
  <2>3. b.key = rq[r].key /\ b.recipients = members
    OBVIOUS
  <2> HIDE DEF b, members
  <2>4. /\ \A a \in DOMAIN alerts : a \in DOMAIN alerts' /\ alerts'[a] = alerts[a]
        /\ alerts'[n] = b /\ n \notin DOMAIN alerts /\ DOMAIN alerts' = DOMAIN alerts \cup {n}
    BY <1>0, <2>1, <2>2
  <2>5. AlertsGrow
    BY <2>4 DEF AlertsGrow
  <2>6. AlertReply(n)' = <<rq[r].key, n, Cardinality(members)>>
    BY <2>3, <2>4 DEF AlertReply
  <2>7. QED
    BY <2>2, <2>4, <2>5, <2>6 DEF PanicEffect, AlertRaised
<1>4. ASSUME NEW r \in Reqs, ResolveUpdate(r) PROVE PanicEffect
  <2>1. alerts' = [alerts EXCEPT ![rq[r].alert] = [alerts[rq[r].alert] EXCEPT !.active = FALSE]]
        /\ UNCHANGED replies /\ alerts[rq[r].alert].active
    BY <1>4 DEF ResolveUpdate
  <2>2. \A a \in DOMAIN alerts : alerts[a] \in Alert
    BY <1>0
  <2>3. AlertsGrow /\ DOMAIN alerts' = DOMAIN alerts
    BY <2>1, <2>2 DEF AlertsGrow, Alert
  <2>4. QED
    BY <2>1, <2>3 DEF PanicEffect, AlertReplied
<1>5. \/ UNCHANGED <<alerts, replies>>
      \/ \E r \in Reqs : TriggerReplay(r) \/ InsertAlert(r) \/ ResolveUpdate(r)
  BY DEF PanicNext, AskToRespond, ResolveMembership, Trigger, ResolveBegin, Cooldown, ReadPool,
         panicVars
<1>6. QED
  BY <1>1, <1>2, <1>3, <1>4, <1>5

AlertFiling(a) == <<alerts[a].key, <<a, Cardinality(alerts[a].recipients)>>>>
AlertTold(x) == <<x[1], <<x[2], x[3]>>>>

LEMMA PanicImplements ==
    ASSUME PanicInv, PanicEffect, PanicInv'
    PROVE  [PanicKeyed!Next]_(PanicKeyed!keyedVars)
<1> DEFINE stored == {AlertFiling(a) : a \in DOMAIN alerts}
           told == {AlertTold(x) : x \in replies}
<1>1. \A a \in DOMAIN alerts : AlertFiling(a)' = AlertFiling(a)
  BY DEF AlertFiling, PanicEffect, AlertsGrow
<1>2. \A a : AlertTold(AlertReply(a)) = AlertFiling(a) /\ AlertTold(AlertReply(a)') = AlertFiling(a)'
  BY DEF AlertTold, AlertReply, AlertFiling
<1>3. UNCHANGED <<stored, told>> \/ PanicKeyed!Next => [PanicKeyed!Next]_(PanicKeyed!keyedVars)
  BY DEF PanicKeyed!keyedVars, AlertFiling, AlertTold
<1>4. told' = {AlertTold(x) : x \in replies'} /\ stored' = {AlertFiling(a)' : a \in DOMAIN alerts'}
  BY DEF AlertTold
<1>5. CASE AlertReplied
  <2>1. stored' = stored
    BY <1>1, <1>4, <1>5 DEF AlertReplied
  <2>2. CASE UNCHANGED replies
    BY <1>3, <1>4, <2>1, <2>2
  <2>3. CASE \E a \in DOMAIN alerts : replies' = replies \cup {AlertReply(a)}
    <3>1. PICK a \in DOMAIN alerts : replies' = replies \cup {AlertReply(a)}
      BY <2>3
    <3>2. told' = told \cup {AlertFiling(a)} /\ AlertFiling(a) \in stored
      BY <1>2, <1>4, <3>1
    <3>3. (\E entry \in stored : told' = told \cup {entry}) /\ UNCHANGED stored
      BY <2>1, <3>2
    <3>4. PanicKeyed!Retry
      BY <3>3 DEF PanicKeyed!Retry, AlertFiling, AlertTold
    <3>5. QED
      BY <1>3, <3>4 DEF PanicKeyed!Next
  <2>4. QED
    BY <1>5, <2>2, <2>3 DEF AlertReplied
<1>6. CASE AlertRaised
  <2>1. PICK a : /\ a \notin DOMAIN alerts /\ DOMAIN alerts' = DOMAIN alerts \cup {a}
                 /\ replies' = replies \cup {AlertReply(a)'}
    BY <1>6 DEF AlertRaised
  <2>2. stored' = stored \cup {AlertFiling(a)'}
    BY <1>1, <1>4, <2>1
  <2>3. told' = told \cup {AlertFiling(a)'}
    BY <1>2, <1>4, <2>1
  <2>4. \A old \in stored : old[1] # (AlertFiling(a)')[1]
    <3>1. ASSUME NEW b \in DOMAIN alerts, AlertFiling(b)[1] = (AlertFiling(a)')[1] PROVE FALSE
      <4>1. (AlertFiling(b)')[1] = (AlertFiling(a)')[1] /\ {a, b} \subseteq DOMAIN alerts'
        BY <1>1, <2>1, <3>1
      <4>2. alerts'[b].key = alerts'[a].key
        BY <4>1 DEF AlertFiling
      <4>3. QED
        BY <2>1, <4>1, <4>2 DEF PanicInv, KeyOfOne
    <3>2. QED
      BY <3>1
  <2>5. \E entry \in stored' : /\ \A old \in stored : old[1] # entry[1]
                               /\ stored' = stored \cup {entry}
                               /\ told' \in {told, told \cup {entry}}
    BY <2>2, <2>3, <2>4
  <2>6. PanicKeyed!Write
    BY <2>5 DEF PanicKeyed!Write, AlertFiling, AlertTold
  <2>7. QED
    BY <1>3, <2>6 DEF PanicKeyed!Next
<1>7. QED
  BY <1>5, <1>6 DEF PanicEffect

\* A key raises one alert, whose recipients stay those of that moment and are the count that
\* every answer to the key gives (insertAlertWithRecipients, countRecipients).
THEOREM AlertKeysKept == PanicSpec => AlertsKeepKeys
<1>1. PanicInit => PanicKeyed!Init
  BY DEF PanicInit, PanicKeyed!Init
<1>2. PanicInv /\ [PanicNext]_panicVars => PanicInv' /\ [PanicKeyed!Next]_(PanicKeyed!keyedVars)
  BY PanicStep, PanicEffects, PanicImplements
<1>3. QED
  BY <1>1, <1>2, PanicStart, PTL DEF PanicSpec, AlertsKeepKeys, PanicKeyed!Spec

----------------------------------------------------------------------------
(* HelpAndRating: an accepted rating stands                                *)

\* A rating in the table is never written again, and whatever was accepted is one of them.

HelpRequest ==
    {Idle}
    \cup [op : {"offer"}, pc : {"insert", "item"}, who : HelperAccounts \cup {None}, fronts : Fronts,
          type : {"help_offered"}]
    \cup [op : {"retype"}, pc : {"replace", "item"}, offer : 1 .. MaxOffers, fronts : Fronts,
          type : {"help_offer_updated"}]
    \cup [op : {"rate"}, pc : {"existing", "insert"}, offer : 1 .. MaxOffers, key : RatingKeys,
          score : Scores, ratable : BOOLEAN]

Item   == [type : {"help_offered", "help_offer_updated"}, fronts : Fronts]
Rating == [key : RatingKeys \cup {None}, score : Scores \cup {0}]

HelpTyped ==
    /\ helpCase \in [status : {"open", "resolved"}, hidden : BOOLEAN]
    /\ offers \in Seq(Offer) /\ Len(offers) <= MaxOffers
    /\ items \in Seq(Item)
    /\ ratings \in [1 .. MaxOffers -> Rating]
    /\ rq \in [Reqs -> HelpRequest]

\* A request is about an offer that was made; one about to be rated has an account.
HelpRead ==
    /\ \A r \in Reqs : rq[r].op \in {"retype", "rate"} => rq[r].offer <= Len(offers)
    /\ \A r \in Reqs : rq[r].op = "rate" /\ rq[r].pc = "insert" => offers[rq[r].offer].helper # None

\* A rating is given with a key, of an offer that has an account, and never changes again.
RatingsBacked ==
    \A o \in 1 .. MaxOffers :
        \/ ratings[o] = NoRating
        \/ /\ ratings[o].key \in RatingKeys /\ ratings[o].score \in Scores
           /\ o <= Len(offers) /\ offers[o].helper # None

AcceptedBacked ==
    \A x \in accepted : \E o \in OfferIds :
        ratings[o].key # None /\ x = <<o, ratings[o].key, ratings[o].score>>

HelpInv == HelpTyped /\ HelpRead /\ RatingsBacked /\ AcceptedBacked

LEMMA HelpStart == HelpInit => HelpInv
BY HelpAssumption DEF HelpInit, HandlersInit, Idle, HelpInv, HelpTyped, HelpRequest, HelpRead,
   RatingsBacked, AcceptedBacked, NoRating, Rating

\* A step that gives no rating and accepts none.
LEMMA HelpQuiet ==
    ASSUME HelpInv, HelpTyped', HelpRead', UNCHANGED <<ratings, accepted>>,
           Len(offers) <= Len(offers'),
           \A o \in OfferIds : offers'[o].helper = offers[o].helper
    PROVE  HelpInv'
<1>1. Len(offers) \in Nat /\ OfferIds = 1 .. Len(offers) /\ OfferIds' = 1 .. Len(offers')
  BY DEF HelpInv, HelpTyped, OfferIds
<1>2. RatingsBacked'
  BY <1>1 DEF HelpInv, RatingsBacked
<1>3. AcceptedBacked'
  BY <1>1 DEF HelpInv, AcceptedBacked, HelpTyped
<1>4. QED
  BY <1>2, <1>3 DEF HelpInv

\* The answer to a rating: the one its offer holds.
LEMMA HelpAccepts ==
    ASSUME HelpInv, NEW r \in Reqs, At(r, "rate", "existing") \/ At(r, "rate", "insert"),
           ratings[rq[r].offer].key = rq[r].key, Accept(r, ratings[rq[r].offer].score),
           UNCHANGED <<helpCase, offers, items, ratings>>
    PROVE  HelpInv'
<1>0. HelpAssumption
  BY HelpAssumption
<1>1. /\ rq[r] \in [op : {"rate"}, pc : {"existing", "insert"}, offer : 1 .. MaxOffers, key : RatingKeys,
                    score : Scores, ratable : BOOLEAN]
      /\ rq[r].op = "rate"
  BY DEF At, HelpInv, HelpTyped, HelpRequest, Idle
<1>2. rq' \in [Reqs -> HelpRequest] /\ HelpRead'
  BY DEF Accept, Finish, HelpInv, HelpTyped, HelpRead, HelpRequest, Idle
<1>3. PICK o \in OfferIds : rq[r].offer = o
  BY <1>1 DEF HelpInv, HelpTyped, HelpRead, OfferIds
<1>4. ratings[o].key # None /\ accepted' = accepted \cup {<<o, ratings[o].key, ratings[o].score>>}
  BY <1>1, <1>3, HelpAssumption DEF Accept
<1>5. AcceptedBacked'
  BY <1>4 DEF HelpInv, AcceptedBacked, OfferIds
<1>6. QED
  BY <1>2, <1>5 DEF HelpInv, HelpTyped, RatingsBacked

LEMMA HelpRates ==
    ASSUME HelpInv, NEW r \in Reqs, At(r, "rate", "insert"), ratings[rq[r].offer] = NoRating,
           ratings' = [ratings EXCEPT ![rq[r].offer] = [key |-> rq[r].key, score |-> rq[r].score]],
           Accept(r, rq[r].score), UNCHANGED <<helpCase, offers, items>>
    PROVE  HelpInv'
<1>1. /\ rq[r] \in [op : {"rate"}, pc : {"existing", "insert"}, offer : 1 .. MaxOffers, key : RatingKeys,
                    score : Scores, ratable : BOOLEAN]
      /\ rq[r].op = "rate" /\ rq[r].pc = "insert"
  BY DEF At, HelpInv, HelpTyped, HelpRequest, Idle
<1>2. rq' \in [Reqs -> HelpRequest] /\ HelpRead'
  BY DEF Accept, Finish, HelpInv, HelpTyped, HelpRead, HelpRequest, Idle
<1>3. PICK o \in OfferIds : rq[r].offer = o /\ o \in 1 .. MaxOffers
  BY <1>1 DEF HelpInv, HelpTyped, HelpRead, OfferIds
<1>4. PICK key \in RatingKeys, score \in Scores : rq[r].key = key /\ rq[r].score = score
  BY <1>1
<1>5. /\ ratings' = [ratings EXCEPT ![o] = [key |-> key, score |-> score]]
      /\ ratings[o] = NoRating
      /\ accepted' = accepted \cup {<<o, key, score>>}
      /\ offers[o].helper # None /\ key # None
  BY <1>1, <1>3, <1>4, HelpAssumption DEF Accept, HelpInv, HelpRead
<1>6. HelpTyped'
  BY <1>2, <1>3, <1>5 DEF HelpInv, HelpTyped, Rating
<1>7. RatingsBacked'
  BY <1>3, <1>5 DEF HelpInv, HelpTyped, RatingsBacked, OfferIds
<1>8. AcceptedBacked'
  <2>1. ratings \in [1 .. MaxOffers -> Rating] /\ OfferIds \subseteq 1 .. MaxOffers
    BY HelpAssumption DEF HelpInv, HelpTyped, OfferIds
  <2>2. \A p \in OfferIds : ratings[p].key # None => ratings'[p] = ratings[p]
    BY <1>3, <1>5, <2>1 DEF NoRating
  <2>3. ratings'[o] = [key |-> key, score |-> score]
    BY <1>3, <1>5, <2>1
  <2>4. OfferIds' = OfferIds
    BY DEF OfferIds
  <2>5. QED
    BY <1>3, <1>5, <2>2, <2>3, <2>4 DEF HelpInv, AcceptedBacked
<1>9. QED
  BY <1>2, <1>6, <1>7, <1>8 DEF HelpInv

LEMMA HelpStep == ASSUME HelpInv, [HelpNext]_helpVars PROVE HelpInv'
<1>0. /\ helpCase \in [status : {"open", "resolved"}, hidden : BOOLEAN]
      /\ offers \in Seq(Offer) /\ Len(offers) \in 0 .. MaxOffers /\ items \in Seq(Item)
      /\ OfferIds = 1 .. Len(offers)
      /\ ratings \in [1 .. MaxOffers -> Rating] /\ rq \in [Reqs -> HelpRequest] /\ HelpRead
      /\ MaxOffers \in Nat
  BY HelpAssumption DEF HelpInv, HelpTyped, OfferIds
<1>a. \A s \in Reqs : rq[s].op \in {"retype", "rate"} => rq[s].offer \in OfferIds
  <2>1. \A s \in Reqs : rq[s].op \in {"retype", "rate"} => rq[s].offer \in 1 .. MaxOffers
    BY <1>0 DEF HelpRequest, Idle
  <2>2. QED
    BY <1>0, <2>1 DEF HelpRead
<1>1. ASSUME NEW r \in Reqs, NEW who \in HelperAccounts \cup {None}, NEW fronts \in Fronts,
             OfferBegin(r, who, fronts)
      PROVE  HelpInv'
  <2>1. HelpTyped'
    BY <1>0, <1>1 DEF OfferBegin, Begin, HelpTyped, HelpRequest
  <2>2. HelpRead'
    BY <1>0, <1>1 DEF OfferBegin, Begin, HelpRead
  <2>3. QED
    BY <1>0, <1>1, <2>1, <2>2, HelpQuiet DEF OfferBegin
<1>2. ASSUME NEW r \in Reqs, InsertHelpOffer(r) PROVE HelpInv'
  <2>1. rq[r] \in [op : {"offer"}, pc : {"insert", "item"}, who : HelperAccounts \cup {None}, fronts : Fronts,
                   type : {"help_offered"}]
    BY <1>0, <1>2 DEF InsertHelpOffer, At, HelpRequest, Idle
  <2>2. [helper |-> rq[r].who, fronts |-> rq[r].fronts] \in Offer
    BY <2>1 DEF Offer
  <2>3. /\ offers' = Append(offers, [helper |-> rq[r].who, fronts |-> rq[r].fronts])
        /\ Len(offers) < MaxOffers /\ UNCHANGED <<helpCase, items, ratings, accepted>> 
    BY <1>2 DEF InsertHelpOffer
  <2>4. rq' = [rq EXCEPT ![r].pc = "item"]
    BY <1>2 DEF InsertHelpOffer, Goto
  <2>5. /\ offers' \in Seq(Offer) /\ Len(offers') = Len(offers) + 1 
        /\ \A o \in OfferIds : offers'[o] = offers[o]
    BY <1>0, <2>2, <2>3
  <2>6. rq' \in [Reqs -> HelpRequest]
    BY <1>0, <2>1, <2>4 DEF HelpRequest
  <2>7. HelpTyped'
    BY <1>0, <2>3, <2>5, <2>6 DEF HelpTyped
  <2>8. HelpRead'
    <3>1. \A s \in Reqs : rq'[s].op \in {"retype", "rate"} => rq'[s] = rq[s]
      BY <1>0, <2>1, <2>4
    <3>2. Len(offers) <= Len(offers')
      BY <1>0, <2>5
    <3>3. QED
      BY <1>0, <1>a, <2>5, <3>1, <3>2 DEF HelpRead
  <2>9. QED
    BY <1>0, <2>3, <2>5, <2>7, <2>8, HelpQuiet
<1>3. ASSUME NEW r \in Reqs, NEW o \in OfferIds, NEW fronts \in Fronts,
             UpdateTypesBegin(r, o, fronts)
      PROVE  HelpInv'
  <2>1. HelpTyped'
    BY <1>0, <1>3 DEF UpdateTypesBegin, Begin, HelpTyped, HelpRequest
  <2>2. HelpRead'
    BY <1>0, <1>3 DEF UpdateTypesBegin, Begin, HelpRead
  <2>3. QED
    BY <1>0, <1>3, <2>1, <2>2, HelpQuiet DEF UpdateTypesBegin
<1>4. ASSUME NEW r \in Reqs, ReplaceTypes(r) PROVE HelpInv'
  <2>1. rq[r] \in [op : {"retype"}, pc : {"replace", "item"}, offer : 1 .. MaxOffers, fronts : Fronts,
                   type : {"help_offer_updated"}]
    BY <1>0, <1>4 DEF ReplaceTypes, At, HelpRequest, Idle
  <2>2. rq[r].offer \in OfferIds
    BY <1>0, <2>1 DEF HelpRead
  <2>3. offers[rq[r].offer] \in Offer
    BY <1>0, <2>2 DEF OfferIds
  <2>4. PICK o \in OfferIds, x \in Offer : offers' = [offers EXCEPT ![o] = x] /\ x.helper = offers[o].helper
    <3>1. [offers[rq[r].offer] EXCEPT !.fronts = rq[r].fronts] \in Offer
      BY <2>1, <2>3 DEF Offer
    <3>2. offers' = [offers EXCEPT ![rq[r].offer] = [offers[rq[r].offer] EXCEPT !.fronts = rq[r].fronts]]
      BY <1>4 DEF ReplaceTypes
    <3>3. QED
      BY <2>2, <2>3, <3>1, <3>2 DEF Offer
  <2>5. offers' \in Seq(Offer) /\ Len(offers') = Len(offers) /\ DOMAIN offers' = DOMAIN offers
    BY <1>0, <2>4, SeqPut DEF OfferIds
  <2>6. \A p \in OfferIds : offers'[p].helper = offers[p].helper
    BY <1>0, <2>4 DEF OfferIds
  <2>7. rq' = [rq EXCEPT ![r].pc = "item"] /\ UNCHANGED <<helpCase, items, ratings, accepted>>
    BY <1>4 DEF ReplaceTypes, Goto
  <2>8. rq' \in [Reqs -> HelpRequest]
    BY <1>0, <2>1, <2>7 DEF HelpRequest
  <2>9. HelpTyped'
    BY <1>0, <2>5, <2>7, <2>8 DEF HelpTyped
  <2>10. HelpRead'
    <3>1. \A s \in Reqs : rq'[s].op \in {"retype", "rate"} => rq[s].op = rq'[s].op /\ rq'[s].offer = rq[s].offer
      BY <1>0, <2>1, <2>7
    <3>2. \A s \in Reqs : rq'[s].op = "rate" => rq'[s] = rq[s]
      BY <1>0, <2>1, <2>7
    <3>3. QED
      BY <1>0, <1>a, <2>5, <2>6, <3>1, <3>2 DEF HelpRead
  <2>11. QED
    BY <1>0, <2>5, <2>6, <2>7, <2>9, <2>10, HelpQuiet
<1>5. ASSUME NEW r \in Reqs, AppendItem(r) PROVE HelpInv'
  <2>1. [type |-> rq[r].type, fronts |-> rq[r].fronts] \in Item
    BY <1>0, <1>5 DEF AppendItem, HelpRequest, Idle, Item
  <2>2. items' \in Seq(Item)
    BY <1>0, <1>5, <2>1 DEF AppendItem
  <2>3. UNCHANGED <<helpCase, offers, ratings, accepted>> /\ rq' = [rq EXCEPT ![r] = Idle]
    BY <1>5 DEF AppendItem, Finish
  <2>4. rq' \in [Reqs -> HelpRequest] /\ HelpRead'
    BY <1>0, <2>3 DEF HelpRequest, HelpRead, Idle
  <2>5. QED
    BY <1>0, <2>2, <2>3, <2>4, HelpQuiet DEF HelpTyped, HelpInv
<1>6. ASSUME NEW r \in Reqs, NEW o \in OfferIds, NEW key \in RatingKeys, NEW score \in Scores,
             RateBegin(r, o, key, score)
      PROVE  HelpInv'
  <2>1. UNCHANGED <<helpCase, offers, items, ratings, accepted>>
    BY <1>6 DEF RateBegin
  <2>2. PICK ratable \in BOOLEAN : rq' = [rq EXCEPT ![r] = [op |-> "rate", pc |-> "existing", offer |-> o,
                                      key |-> key, score |-> score, ratable |-> ratable]]
    BY <1>6 DEF RateBegin, Begin
  <2>3. rq' \in [Reqs -> HelpRequest] /\ HelpRead'
    BY <1>0, <2>1, <2>2 DEF HelpRequest, HelpRead
  <2>4. QED
    BY <1>0, <2>1, <2>3, HelpQuiet DEF HelpTyped, HelpInv
<1>7. ASSUME NEW r \in Reqs, FindRating(r) PROVE HelpInv'
  <2>1. CASE ratings[rq[r].offer].key = rq[r].key /\ Accept(r, ratings[rq[r].offer].score)
    BY <1>7, <2>1, HelpAccepts DEF FindRating
  <2>2. CASE offers[rq[r].offer].helper # None /\ Goto(r, "insert") /\ UNCHANGED accepted
    <3>1. UNCHANGED <<helpCase, offers, items, ratings, accepted>> /\ rq[r].op = "rate"
      BY <1>7, <2>2 DEF FindRating, At
    <3>2. rq' \in [Reqs -> HelpRequest] /\ HelpRead'
      <4>1. rq[r] \in [op : {"rate"}, pc : {"existing", "insert"}, offer : 1 .. MaxOffers, key : RatingKeys,
                        score : Scores, ratable : BOOLEAN]
        BY <1>0, <3>1 DEF HelpRequest, Idle
      <4>2. rq' = [rq EXCEPT ![r].pc = "insert"]
        BY <2>2 DEF Goto
      <4>3. rq' \in [Reqs -> HelpRequest]
        BY <1>0, <4>1, <4>2 DEF HelpRequest
      <4>4. HelpRead'
        BY <1>0, <2>2, <3>1, <4>1, <4>2 DEF HelpRead
      <4>5. QED
        BY <4>3, <4>4
    <3>3. QED
      BY <1>0, <3>1, <3>2, HelpQuiet DEF HelpTyped, HelpInv
  <2>3. QED
    BY <1>7, <2>1, <2>2 DEF FindRating
<1>8. ASSUME NEW r \in Reqs, InsertRating(r) PROVE HelpInv'
  BY <1>8, HelpAccepts, HelpRates DEF InsertRating
<1>9. ASSUME NEW r \in Reqs, GivesUp(r), UNCHANGED <<helpCase, offers, items, ratings, accepted>>
      PROVE  HelpInv'
  <2>1. rq' \in [Reqs -> HelpRequest] /\ HelpRead'
    BY <1>0, <1>9 DEF GivesUp, Finish, HelpRequest, HelpRead, Idle
  <2>2. QED
    BY <1>0, <1>9, <2>1, HelpQuiet DEF HelpTyped, HelpInv
<1>10. ASSUME ResolveHelpCase \/ ToggleHelpHidden PROVE HelpInv'
  <2>1. UNCHANGED <<offers, items, ratings, accepted, rq>>
        /\ helpCase' \in [status : {"open", "resolved"}, hidden : BOOLEAN]
    BY <1>0, <1>10 DEF ResolveHelpCase, ToggleHelpHidden
  <2>2. HelpRead'
    BY <1>0, <2>1 DEF HelpRead
  <2>3. QED
    BY <1>0, <2>1, <2>2, HelpQuiet DEF HelpTyped, HelpInv
<1>11. CASE UNCHANGED helpVars
  BY <1>11 DEF helpVars, HelpInv, HelpTyped, HelpRead, RatingsBacked, AcceptedBacked, OfferIds
<1>12. QED
  BY <1>1, <1>2, <1>3, <1>4, <1>5, <1>6, <1>7, <1>8, <1>9, <1>10, <1>11 DEF HelpNext

\* What an owner was told of a rating is what the table holds, through retries, changes of
\* offers and resolutions (rateHelper).
THEOREM RatingsKept == HelpSpec => [](HelpTypeOK /\ AcceptedRatingStands)
<1>1. ASSUME HelpInv PROVE HelpTypeOK /\ AcceptedRatingStands
  <2>1. ASSUME NEW x \in accepted
        PROVE  /\ x \in OfferIds \X RatingKeys \X Scores
               /\ ratings[x[1]] = [key |-> x[2], score |-> x[3]] /\ offers[x[1]].helper # None
    <3>1. PICK o \in OfferIds : ratings[o].key # None /\ x = <<o, ratings[o].key, ratings[o].score>>
      BY <1>1 DEF HelpInv, AcceptedBacked
    <3>2. o \in 1 .. MaxOffers /\ OfferIds = 1 .. Len(offers) /\ ratings[o] \in Rating
      BY <1>1, HelpAssumption DEF HelpInv, HelpTyped, OfferIds
    <3>3. ratings[o] # NoRating
      BY <3>1 DEF NoRating
    <3>4. /\ ratings[o].key \in RatingKeys /\ ratings[o].score \in Scores
          /\ offers[o].helper # None
          /\ ratings[o] = [key |-> ratings[o].key, score |-> ratings[o].score]
      BY <1>1, <3>2, <3>3 DEF HelpInv, RatingsBacked, Rating
    <3>5. QED
      BY <3>1, <3>2, <3>4
  <2>2. QED
    BY <1>1, <2>1 DEF HelpInv, HelpTyped, HelpTypeOK, AcceptedRatingStands, Item, Rating
<1>2. QED
  BY <1>1, HelpStart, HelpStep, PTL DEF HelpSpec

\* What a step does to the ratings and the acceptances; a key rates one offer.
Rated == {o \in DOMAIN ratings : ratings[o] # NoRating}
KeyOfOneOffer == \A o, p \in Rated : ratings[o].key = ratings[p].key => o = p
Acceptance(o) == <<o, ratings[o].key, ratings[o].score>>
RatingAgain ==
    /\ UNCHANGED ratings
    /\ UNCHANGED accepted \/ \E o \in Rated : accepted' = accepted \cup {Acceptance(o)}
RatingNew ==
    \E o : /\ o \notin Rated /\ Rated' = Rated \cup {o}
           /\ \A p \in Rated : ratings'[p] = ratings[p] /\ ratings[p].key # ratings'[o].key
           /\ accepted' = accepted \cup {Acceptance(o)'}

LEMMA HelpEffects == ASSUME HelpInv, [HelpNext]_helpVars PROVE RatingAgain \/ RatingNew
<1>0. /\ ratings \in [1 .. MaxOffers -> Rating] /\ rq \in [Reqs -> HelpRequest] /\ HelpRead
      /\ Rated \subseteq OfferIds
      /\ \A o \in Rated : ratings[o].key # None
      /\ None \notin RatingKeys /\ offers \in Seq(Offer)
  BY HelpAssumption DEF HelpInv, HelpTyped, RatingsBacked, Rated, OfferIds
<1>1. ASSUME NEW r \in Reqs, rq[r].op = "rate", ratings[rq[r].offer].key = rq[r].key,
             Accept(r, ratings[rq[r].offer].score), UNCHANGED ratings
      PROVE  RatingAgain
  <2>1. PICK o \in 1 .. MaxOffers : rq[r].offer = o /\ rq[r].key \in RatingKeys
    BY <1>0, <1>1 DEF HelpRequest, Idle
  <2>2. o \in Rated
    BY <1>0, <1>1, <2>1 DEF Rated, NoRating
  <2>3. accepted' = accepted \cup {Acceptance(o)}
    BY <1>1, <2>1 DEF Accept, Acceptance
  <2>4. QED
    BY <1>1, <2>2, <2>3 DEF RatingAgain
<1>2. ASSUME NEW r \in Reqs, FindRating(r) PROVE RatingAgain
  <2>1. UNCHANGED ratings /\ rq[r].op = "rate"
    BY <1>2 DEF FindRating, At
  <2>2. CASE UNCHANGED accepted
    BY <2>1, <2>2 DEF RatingAgain
  <2>3. QED
    BY <1>1, <1>2, <2>1, <2>2 DEF FindRating
<1>3. ASSUME NEW r \in Reqs, InsertRating(r) PROVE RatingAgain \/ RatingNew
  <2>1. PICK o \in 1 .. MaxOffers, key \in RatingKeys, score \in Scores :
           rq[r].offer = o /\ rq[r].key = key /\ rq[r].score = score /\ rq[r].op = "rate"
    BY <1>0, <1>3 DEF InsertRating, At, HelpRequest, Idle
  <2>2. CASE /\ ratings[o] = NoRating /\ ~KeySpent(key)
             /\ ratings' = [ratings EXCEPT ![o] = [key |-> key, score |-> score]]
             /\ accepted' = accepted \cup {<<o, key, score>>}
    <3>1. /\ ratings'[o] = [key |-> key, score |-> score] /\ o \notin Rated
          /\ \A p \in Rated : ratings'[p] = ratings[p] /\ ratings[p].key # key
      BY <1>0, <2>2 DEF Rated, KeySpent
    <3>2. Rated' = Rated \cup {o}
      BY <1>0, <2>1, <2>2 DEF Rated, NoRating
    <3>3. Acceptance(o)' = <<o, key, score>>
      BY <3>1 DEF Acceptance
    <3>4. QED
      BY <2>2, <3>1, <3>2, <3>3 DEF RatingNew
  <2>3. QED
    BY <1>1, <1>3, <2>1, <2>2 DEF InsertRating, Accept
<1>4. \/ UNCHANGED <<ratings, accepted>>
      \/ \E r \in Reqs : FindRating(r) \/ InsertRating(r)
  BY DEF HelpNext, OfferBegin, UpdateTypesBegin, RateBegin, InsertHelpOffer, ReplaceTypes,
         AppendItem, ResolveHelpCase, ToggleHelpHidden, helpVars
<1>5. QED
  BY <1>2, <1>3, <1>4 DEF RatingAgain

RatingFiling(o) == <<ratings[o].key, <<o, ratings[o].score>>>>
RatingTold(x) == <<x[2], <<x[1], x[3]>>>>

LEMMA HelpImplements ==
    ASSUME KeyOfOneOffer, RatingAgain \/ RatingNew
    PROVE  KeyOfOneOffer' /\ [RatingKeyed!Next]_(RatingKeyed!keyedVars)
<1> DEFINE stored == {RatingFiling(o) : o \in Rated}
           told == {RatingTold(x) : x \in accepted}
<1>1. \A o : /\ RatingTold(Acceptance(o)) = RatingFiling(o)
             /\ RatingTold(Acceptance(o)') = RatingFiling(o)'
  BY DEF RatingTold, Acceptance, RatingFiling
<1>2. UNCHANGED <<stored, told>> \/ RatingKeyed!Next => [RatingKeyed!Next]_(RatingKeyed!keyedVars)
  BY DEF RatingKeyed!keyedVars, RatingFiling, RatingTold, Rated
<1>3. told' = {RatingTold(x) : x \in accepted'} /\ stored' = {RatingFiling(o)' : o \in Rated'}
  BY DEF RatingTold
<1>4. CASE RatingAgain
  <2>1. stored' = stored /\ KeyOfOneOffer'
    BY <1>4 DEF RatingAgain, RatingFiling, Rated, KeyOfOneOffer
  <2>2. CASE UNCHANGED accepted
    BY <1>2, <1>3, <2>1, <2>2
  <2>3. CASE \E o \in Rated : accepted' = accepted \cup {Acceptance(o)}
    <3>1. PICK o \in Rated : accepted' = accepted \cup {Acceptance(o)}
      BY <2>3
    <3>2. told' = told \cup {RatingFiling(o)} /\ RatingFiling(o) \in stored
      BY <1>1, <1>3, <3>1
    <3>3. (\E entry \in stored : told' = told \cup {entry}) /\ UNCHANGED stored
      BY <2>1, <3>2
    <3>4. RatingKeyed!Retry
      BY <3>3 DEF RatingKeyed!Retry, RatingFiling, RatingTold, Rated
    <3>5. QED
      BY <1>2, <2>1, <3>4 DEF RatingKeyed!Next
  <2>4. QED
    BY <1>4, <2>2, <2>3 DEF RatingAgain
<1>5. CASE RatingNew
  <2>1. PICK o : /\ o \notin Rated /\ Rated' = Rated \cup {o}
                 /\ \A p \in Rated : ratings'[p] = ratings[p] /\ ratings[p].key # ratings'[o].key
                 /\ accepted' = accepted \cup {Acceptance(o)'}
    BY <1>5 DEF RatingNew
  <2>2. \A p \in Rated : RatingFiling(p)' = RatingFiling(p)
    BY <2>1 DEF RatingFiling
  <2>3. stored' = stored \cup {RatingFiling(o)'}
    BY <1>3, <2>1, <2>2
  <2>4. told' = told \cup {RatingFiling(o)'}
    BY <1>1, <1>3, <2>1
  <2>5. \A old \in stored : old[1] # (RatingFiling(o)')[1]
    BY <2>1 DEF RatingFiling
  <2>6. \E entry \in stored' : /\ \A old \in stored : old[1] # entry[1]
                               /\ stored' = stored \cup {entry}
                               /\ told' \in {told, told \cup {entry}}
    BY <2>3, <2>4, <2>5
  <2>7. RatingKeyed!Write
    BY <2>6 DEF RatingKeyed!Write, RatingFiling, RatingTold, Rated
  <2>8. KeyOfOneOffer'
    BY <2>1 DEF KeyOfOneOffer
  <2>9. QED
    BY <1>2, <2>7, <2>8 DEF RatingKeyed!Next
<1>6. QED
  BY <1>4, <1>5

\* A key of the owner rates one offer, for good, and every answer to the key is about that
\* rating (insertRating, findRatingByOffer).
THEOREM RatingKeysKept == HelpSpec => RatingsKeepKeys
<1>1. HelpInit => KeyOfOneOffer /\ RatingKeyed!Init
  BY DEF HelpInit, KeyOfOneOffer, Rated, RatingKeyed!Init
<1>2. HelpInv /\ KeyOfOneOffer /\ [HelpNext]_helpVars
         => HelpInv' /\ KeyOfOneOffer' /\ [RatingKeyed!Next]_(RatingKeyed!keyedVars)
  BY HelpStep, HelpEffects, HelpImplements
<1>3. QED
  BY <1>1, <1>2, HelpStart, PTL DEF HelpSpec, RatingsKeepKeys, RatingKeyed!Spec

=============================================================================
