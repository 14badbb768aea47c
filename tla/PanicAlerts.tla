---------------------------- MODULE PanicAlerts ----------------------------
(***************************************************************************)
(* Panic alerts and the pool of responders they go to: an account asks to  *)
(* be a responder, a team user approves or denies, a trigger copies the    *)
(* approved members into the alert, and only the triggerer resolves it.    *)
(*                                                                         *)
(* The legal gate, asked after the cooldown, is LegalGate's matter.  A      *)
(* trigger without an account has no cooldown, so that such alerts are of  *)
(* no interest here beyond their existing.                                 *)
(***************************************************************************)
EXTENDS Handlers

CONSTANTS
    Triggerers,     \* app accounts that raise alerts
    Responders,     \* app accounts that ask to be responders
    PanicKeys,      \* client keys: one for each alert a device means to raise
    MaxAlerts,      \* bound: alerts ever stored
    MaxMemberships  \* bound: membership requests ever stored

ASSUME PanicAssumption == {MaxAlerts, MaxMemberships} \subseteq Nat \ {0}

VARIABLES
    pool,     \* tb_responder_pool_membership, in order of insertion
    alerts,   \* tb_panic_alert with its recipients, in order of insertion
    replies   \* history: <<key, alert, recipients>> of every trigger that was answered

panicVars == <<pool, alerts, replies, rq>>

----------------------------------------------------------------------------

Membership == [user : Responders, status : {"pending", "approved", "denied"}]
\* lookedAt: history, the alerts there were when the cooldown was looked up.
Alert == [key : PanicKeys, account : Triggerers \cup {None}, active : BOOLEAN,
          recipients : SUBSET Responders, lookedAt : 0 .. MaxAlerts]

PanicTypeOK ==
    /\ pool \in Seq(Membership) /\ Len(pool) <= MaxMemberships
    /\ alerts \in Seq(Alert) /\ Len(alerts) <= MaxAlerts
    /\ replies \subseteq PanicKeys \X (DOMAIN alerts) \X (0 .. MaxMemberships)

PanicInit == pool = << >> /\ alerts = << >> /\ replies = {} /\ HandlersInit

----------------------------------------------------------------------------
(* The pool                                                                *)

\* requestResponderAuthorization: as often as one likes.
AskToRespond(u) ==
    /\ Len(pool) < MaxMemberships
    /\ pool' = Append(pool, [user |-> u, status |-> "pending"])
    /\ UNCHANGED <<alerts, replies, rq>>

\* Mutated form: a status the column's ENUM does not have.
ResolveMembershipMisspelt(m, status) ==
    /\ pool[m].status # status
    /\ pool' = [pool EXCEPT ![m].status = "granted"]
    /\ UNCHANGED <<alerts, replies, rq>>

\* resolveMembership: by id, whatever it was resolved to before.
ResolveMembership(m, status) ==
    /\ pool[m].status # status
    /\ pool' = [pool EXCEPT ![m].status = status]
    /\ UNCHANGED <<alerts, replies, rq>>

Approved == {m \in DOMAIN pool : pool[m].status = "approved"}

----------------------------------------------------------------------------
(* Raising an alert                                                        *)

Reply(r, a, n) == replies' = replies \cup {<<rq[r].key, a, n>>} /\ Finish(r)
KeyOwners == [k \in PanicKeys |-> {a \in DOMAIN alerts : alerts[a].key = k}]

\* triggerAlert: findAlertByClientKey; only identified callers have a cooldown.
Trigger(r, who, key) ==
    /\ \A a \in KeyOwners[key] : alerts[a].account = who
    /\ Begin(r, [op |-> "trigger", who |-> who, key |-> key, lookedAt |-> 0,
                 pc |-> IF KeyOwners[key] # {} THEN "replay"
                        ELSE IF who = None THEN "pool" ELSE "cooldown"])
    /\ UNCHANGED <<pool, alerts, replies>>

\* Mutated form: the recipients are counted in the pool as it is now.
TriggerReplayOfPool(r) ==
    /\ At(r, "trigger", "replay")
    /\ \E a \in KeyOwners[rq[r].key] : Reply(r, a, Cardinality(Approved))
    /\ UNCHANGED <<pool, alerts>>

\* countRecipients, of the snapshot.
TriggerReplay(r) ==
    /\ At(r, "trigger", "replay")
    /\ \E a \in KeyOwners[rq[r].key] : Reply(r, a, Cardinality(alerts[a].recipients))
    /\ UNCHANGED <<pool, alerts>>

ActiveOf(who) == {a \in DOMAIN alerts : alerts[a].account = who /\ alerts[a].active}

\* Mutated form: the cooldown is the key's, not the account's.
CooldownByKey(r) ==
    /\ At(r, "trigger", "cooldown") /\ ActiveOf(rq[r].who) \cap KeyOwners[rq[r].key] = {}
    /\ With(r, [pc |-> "pool", lookedAt |-> Len(alerts)])
    /\ UNCHANGED <<pool, alerts, replies>>

\* findActiveAlertByAccount.
Cooldown(r) ==
    /\ At(r, "trigger", "cooldown") /\ ActiveOf(rq[r].who) = {}
    /\ With(r, [pc |-> "pool", lookedAt |-> Len(alerts)])
    /\ UNCHANGED <<pool, alerts, replies>>

\* findActiveMembers: a row for each approved membership.
ReadPool(r) ==
    /\ At(r, "trigger", "pool")
    /\ With(r, [pc |-> "insert", members |-> [m \in Approved |-> pool[m].user]])
    /\ UNCHANGED <<pool, alerts, replies>>

\* insertAlertWithRecipients: one transaction.  It fails on a key that is taken, and on
\* a responder who is a member twice: recipients are UNIQUE within an alert.
InsertAlert(r) ==
    /\ At(r, "trigger", "insert") /\ KeyOwners[rq[r].key] = {} /\ Len(alerts) < MaxAlerts
    /\ \A m, n \in DOMAIN rq[r].members : rq[r].members[m] = rq[r].members[n] => m = n
    /\ LET members == {rq[r].members[m] : m \in DOMAIN rq[r].members} IN
       /\ alerts' = Append(alerts,
            [key |-> rq[r].key, account |-> rq[r].who, active |-> TRUE, recipients |-> members,
             lookedAt |-> rq[r].lookedAt])
       /\ Reply(r, Len(alerts) + 1, Cardinality(members))
    /\ UNCHANGED pool

----------------------------------------------------------------------------
(* Resolving it                                                            *)

\* resolveAlert: whoever raised it, by account or by key.
ResolveBegin(r, a) ==
    /\ Begin(r, [op |-> "resolve", pc |-> "update", alert |-> a])
    /\ UNCHANGED <<pool, alerts, replies>>

\* WHERE status = 'active': whoever comes second is told 409.
ResolveUpdate(r) ==
    /\ At(r, "resolve", "update") /\ alerts[rq[r].alert].active
    /\ alerts' = [alerts EXCEPT ![rq[r].alert].active = FALSE]
    /\ Finish(r)
    /\ UNCHANGED <<pool, replies>>

PanicNext ==
    \/ \E u \in Responders : AskToRespond(u)
    \/ \E m \in DOMAIN pool, status \in {"approved", "denied"} : ResolveMembership(m, status)
    \/ \E r \in Reqs :
        \/ \E who \in Triggerers \cup {None}, key \in PanicKeys : Trigger(r, who, key)
        \/ \E a \in DOMAIN alerts : ResolveBegin(r, a)
        \/ TriggerReplay(r) \/ Cooldown(r) \/ ReadPool(r) \/ InsertAlert(r) \/ ResolveUpdate(r)
        \/ GivesUp(r) /\ UNCHANGED <<pool, alerts, replies>>

PanicSpec == PanicInit /\ [][PanicNext]_panicVars

----------------------------------------------------------------------------
(* Properties                                                              *)

\* Decision 198: an account with an unresolved alert raises no other, unless the two
\* triggers were under way together; and then a retry of either is still answered with
\* its own alert and the recipients it first had, whatever became of the pool.
CooldownHolds ==
    /\ \A a, b \in DOMAIN alerts :
         (a < b /\ alerts[a].account # None /\ alerts[a].account = alerts[b].account
            /\ alerts[a].active)
         => alerts[b].lookedAt < a
    /\ \A x, y \in replies : x[1] = y[1] => x = y

PanicKeyed == INSTANCE KeyedWrites WITH
    stored <- {<<alerts[a].key, <<a, Cardinality(alerts[a].recipients)>>>> : a \in DOMAIN alerts},
    told   <- {<<x[1], <<x[2], x[3]>>>> : x \in replies}

\* Decisions 137/198: a key raises one alert, with the recipients of that moment for good,
\* and every answer to the key counts them, although the pool changes and triggers of the
\* key overlap.
AlertsKeepKeys == PanicKeyed!Spec

=============================================================================
