---------------------------- MODULE AppAccounts ----------------------------
(***************************************************************************)
(* How an app account comes to be and who gets into it: registration with  *)
(* a password, login with a password, and social login with the linking    *)
(* rule of decision 121.  A sign-in is recorded in entered; the session it *)
(* opens is AppSessions' matter.                                           *)
(*                                                                         *)
(* An e-mail address has one owner.  Anybody may register it with a         *)
(* password, and anybody may come with a provider identity that names it:  *)
(* only the owner's is verified by the provider, and only the owner can    *)
(* confirm a code sent to it.                                              *)
(***************************************************************************)
EXTENDS Handlers

CONSTANTS
    Emails,      \* e-mail addresses
    Identities,  \* provider identities: (provider, sub)
    EmailOf,     \* [Identities -> Emails \cup {None}]: what the provider asserts
    Verified,    \* the identities whose e-mail the provider calls verified
    MaxAccounts, \* bound: accounts ever inserted
    MaxFailed    \* bound: failed_login_count

ASSUME AccountsAssumption ==
    /\ EmailOf \in [Identities -> Emails \cup {None}]
    /\ Verified \subseteq {i \in Identities : EmailOf[i] # None}
    /\ Identities \cap ({"owner", "stranger"} \X Emails) = {}
    /\ MaxAccounts \in Nat \ {0} /\ MaxFailed \in Nat

VARIABLES
    accounts,  \* tb_user_account, in order of insertion
    linkOf,    \* tb_user_account_provider: the account of a social identity, 0 for no row
    entered    \* history: <<who, account>> a sign-in was answered for

accountsVars == <<accounts, linkOf, entered, rq>>

----------------------------------------------------------------------------
(* Rows                                                                    *)

\* Who acts: a provider identity, the owner of an address, or somebody else using it.
People == Identities \cup ({"owner", "stranger"} \X Emails)

\* by: who made the row.  password: it has a password_hash.
Account  == [email : Emails \cup {None}, password : BOOLEAN, verified : BOOLEAN,
             failed : 0 .. MaxFailed, by : People]
Ids      == DOMAIN accounts
ByEmail(e) == {a \in Ids : e # None /\ accounts[a].email = e}

AccountsTypeOK ==
    /\ accounts \in Seq(Account) /\ Len(accounts) <= MaxAccounts
    /\ linkOf \in [Identities -> 0 .. MaxAccounts]
    /\ entered \subseteq People \X Ids

AccountsInit ==
    /\ accounts = << >>
    /\ linkOf = [i \in Identities |-> 0]
    /\ entered = {}
    /\ HandlersInit

\* findAccountById, issueSession and the answer.
Enter(r, who, a) == entered' = entered \cup {<<who, a>>} /\ Finish(r)

\* Mutated form: email without its UNIQUE key.
CanInsertTwice(e) == Len(accounts) < MaxAccounts

\* insertAccount: email is UNIQUE, and NULL repeats.
CanInsert(e) == ByEmail(e) = {} /\ Len(accounts) < MaxAccounts
NewAccount(e, password, who) ==
    [email |-> e, password |-> password, verified |-> FALSE, failed |-> 0, by |-> who]

----------------------------------------------------------------------------
(* Registration and login with a password                                  *)

\* registerWithPassword: the address is not taken.
RegisterBegin(r, who) ==
    /\ who \notin Identities /\ ByEmail(who[2]) = {}
    /\ Begin(r, [op |-> "register", pc |-> "insert", who |-> who, acc |-> 0])
    /\ UNCHANGED <<accounts, linkOf, entered>>

RegisterInsert(r) ==
    /\ At(r, "register", "insert") /\ CanInsert(rq[r].who[2])
    /\ accounts' = Append(accounts, NewAccount(rq[r].who[2], TRUE, rq[r].who))
    /\ With(r, [pc |-> "link", acc |-> Len(accounts) + 1])
    /\ UNCHANGED <<linkOf, entered>>

\* linkProvider with 'password' as the provider and the session.  No sign-in reads
\* that row, which is left out.
RegisterLink(r) ==
    /\ At(r, "register", "link")
    /\ Enter(r, rq[r].who, rq[r].acc)
    /\ UNCHANGED <<accounts, linkOf>>

\* loginWithPassword reads the row; the delay it then sleeps is one more await.
PasswordLogin(r, a, who) ==
    /\ accounts[a].password /\ who \notin Identities /\ who[2] = accounts[a].email
    /\ Begin(r, [op |-> "login", pc |-> "compare", who |-> who, acc |-> a])
    /\ UNCHANGED <<accounts, linkOf, entered>>

\* Only the one who chose the password knows it.
LoginFail(r) ==
    /\ At(r, "login", "compare") /\ accounts[rq[r].acc].failed < MaxFailed
    /\ accounts' = [accounts EXCEPT ![rq[r].acc].failed = @ + 1]
    /\ Finish(r)
    /\ UNCHANGED <<linkOf, entered>>

Login(r) ==
    /\ At(r, "login", "compare") /\ accounts[rq[r].acc].by = rq[r].who
    /\ accounts' = [accounts EXCEPT ![rq[r].acc].failed = 0]
    /\ Enter(r, rq[r].who, rq[r].acc)
    /\ UNCHANGED <<linkOf>>

----------------------------------------------------------------------------
(* Social login                                                            *)

CanAutoLink(i) == i \in Verified

ProviderRequest(i, pc, a) == [op |-> "provider", pc |-> pc, who |-> i, acc |-> a]

\* findProviderIdentity: a known identity enters its account.
ProviderBegin(r, i) ==
    /\ Begin(r, ProviderRequest(i, IF linkOf[i] # 0 THEN "enter"
                                   ELSE IF CanAutoLink(i) THEN "lookup" ELSE "insert", linkOf[i]))
    /\ UNCHANGED <<accounts, linkOf, entered>>

ProviderEnter(r) ==
    /\ At(r, "provider", "enter")
    /\ Enter(r, rq[r].who, rq[r].acc)
    /\ UNCHANGED <<accounts, linkOf>>

\* Mutated form: an address on both sides is enough.
ProviderLookupUnverified(r) ==
    /\ At(r, "provider", "lookup")
    /\ LET same == ByEmail(EmailOf[rq[r].who]) IN
       IF same = {} THEN Goto(r, "insert") ELSE \E a \in same : With(r, [pc |-> "join", acc |-> a])
    /\ UNCHANGED <<accounts, linkOf, entered>>

\* findAccountByEmail: an unverified account of the same address refuses the login.
ProviderLookup(r) ==
    /\ At(r, "provider", "lookup")
    /\ LET same == ByEmail(EmailOf[rq[r].who]) IN
       IF same = {} THEN Goto(r, "insert")
       ELSE \E a \in same : accounts[a].verified /\ With(r, [pc |-> "join", acc |-> a])
    /\ UNCHANGED <<accounts, linkOf, entered>>

ProviderInsert(r) ==
    /\ At(r, "provider", "insert") /\ CanInsert(EmailOf[rq[r].who])
    /\ accounts' = Append(accounts, NewAccount(EmailOf[rq[r].who], FALSE, rq[r].who))
    /\ With(r, [pc |-> "link", acc |-> Len(accounts) + 1])
    /\ UNCHANGED <<linkOf, entered>>

\* linkProvider: a row that exists keeps its account.
Link(i, a) == linkOf' = [linkOf EXCEPT ![i] = IF @ = 0 THEN a ELSE @]

ProviderLink(r) ==
    /\ rq[r].op = "provider" /\ rq[r].pc \in {"join", "link"}
    /\ Link(rq[r].who, rq[r].acc)
    /\ Goto(r, IF rq[r].pc = "link" /\ CanAutoLink(rq[r].who) THEN "mark" ELSE "enter")
    /\ UNCHANGED <<accounts, entered>>

MarkEmailVerified(r) ==
    /\ At(r, "provider", "mark")
    /\ accounts' = [accounts EXCEPT ![rq[r].acc].verified = TRUE]
    /\ Goto(r, "enter")
    /\ UNCHANGED <<linkOf, entered>>

----------------------------------------------------------------------------

\* confirmEmailVerification: the code reached the owner, whose session is the account's.
ConfirmEmail(a) ==
    /\ \E e \in Emails : accounts[a].by = <<"owner", e>>
    /\ accounts' = [accounts EXCEPT ![a].verified = TRUE]
    /\ UNCHANGED <<linkOf, entered, rq>>

AccountsDrop(r) ==
    /\ GivesUp(r)
    /\ UNCHANGED <<accounts, linkOf, entered>>

AccountsNext ==
    \/ \E r \in Reqs :
        \/ \E who \in People : RegisterBegin(r, who)
        \/ \E a \in Ids, who \in People : PasswordLogin(r, a, who)
        \/ \E i \in Identities : ProviderBegin(r, i)
        \/ RegisterInsert(r) \/ RegisterLink(r)
        \/ LoginFail(r) \/ Login(r)
        \/ ProviderEnter(r) \/ ProviderLookup(r) \/ ProviderInsert(r)
        \/ ProviderLink(r) \/ MarkEmailVerified(r)
        \/ AccountsDrop(r)
    \/ \E a \in Ids : ConfirmEmail(a)

AccountsSpec == AccountsInit /\ [][AccountsNext]_accountsVars

----------------------------------------------------------------------------
(* Properties                                                              *)

\* Who an account of this maker belongs to: an unverified identity is nobody's but its own.
Person(who) == IF who \in Verified THEN <<"owner", EmailOf[who]>> ELSE who

\* Decision 121: however registrations, confirmations and social logins of one
\* address interleave, nobody enters an account that somebody else made.
NoTakeover == \A x \in entered : Person(x[1]) = Person(accounts[x[2]].by)

\* A person comes back to the account they were let into, although lookup, insert and
\* link are three statements and first logins overlap.  It does not hold of an identity
\* without an address, which nothing keeps from making two accounts.
ComesBackToSameAccount ==
    \A x \in entered : x[1] \in Identities /\ EmailOf[x[1]] # None => linkOf[x[1]] = x[2]

=============================================================================
