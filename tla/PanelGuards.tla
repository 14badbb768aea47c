---------------------------- MODULE PanelGuards ----------------------------
(***************************************************************************)
(* What stands before every panel route: authMiddleware compares a token's *)
(* version with tb_user.session_version, requirePrivilege looks the        *)
(* privilege up, and each asks a cache of its process first.  Against them *)
(* run the handlers that kill sessions and take privileges away.           *)
(*                                                                         *)
(* One user and one privilege.  The two stores are alike but for the row   *)
(* they keep; an entry is what was read and the time it has left.  A        *)
(* request lasts less than a tick of the caches' clock.                    *)
(***************************************************************************)
EXTENDS Handlers

CONSTANTS
    Procs,      \* processes whose caches are followed
    CacheTtl,   \* TTL_MS of both stores, 60 s, in ticks
    MaxSv       \* bound: session_version

ASSUME GuardsAssumption == {CacheTtl, MaxSv} \subseteq Nat \ {0}

VARIABLES
    user,      \* the row: session_version, active, and whether the privilege is granted
    cache,     \* per store and process, the entry
    signed,    \* versions a token was signed with; its fifteen minutes are left out
    since,     \* history: ticks since each version was superseded
    lapse      \* history: ticks since the deactivation and since the revocation

guardVars == <<user, cache, signed, since, lapse, rq>>
clocks == <<since, lapse>>

----------------------------------------------------------------------------

Stores == {"session", "privilege"}
Sv     == 0 .. MaxSv
User   == [sv : Sv, active : BOOLEAN, granted : BOOLEAN]
Ages   == 0 .. CacheTtl + 1
NoEntry == [left |-> 0]

\* What a store keeps of the row.
Kept(k, row) == IF k = "session" THEN [sv |-> row.sv, active |-> row.active]
                ELSE [granted |-> row.granted]

GuardsTypeOK ==
    /\ user \in User
    /\ \A k \in Stores, p \in Procs :
          cache[k][p].left \in 0 .. CacheTtl /\ (cache[k][p].left > 0 => \E row \in User : cache[k][p].info = Kept(k, row))
    /\ signed \subseteq Sv
    /\ since \in [Sv -> Ages] /\ lapse \in [active : Ages, granted : Ages]

GuardsInit ==
    /\ user = [sv |-> 0, active |-> TRUE, granted |-> TRUE]
    /\ cache = [k \in Stores |-> [p \in Procs |-> NoEntry]]
    /\ signed = {}
    /\ since = [sv \in Sv |-> 0] /\ lapse = [active |-> 0, granted |-> 0]
    /\ HandlersInit

----------------------------------------------------------------------------
(* The stores: getSessionInfo, getUserPrivileges                           *)

Fresh(k, p) == cache[k][p].left > 0

\* What the guard of a store asks of the row it got.
Passes(k, info, sv) == IF k = "session" THEN info.active /\ info.sv = sv ELSE info.granted

\* How long ago what the guard relies on ceased to be true.
Stale(k, sv) ==
    IF k = "privilege" THEN IF user.granted THEN 0 ELSE lapse.granted
    ELSE IF user.sv # sv THEN since[sv]
    ELSE IF ~user.active THEN lapse.active ELSE 0

\* The next guard, or the handler.
LetIn(r, k) ==
    rq' = [rq EXCEPT ![r] =
        [op |-> rq[r].op, proc |-> rq[r].proc, sv |-> rq[r].sv,
         pc |-> IF k = "session" /\ rq[r].op = "act" THEN "privilege" ELSE "in",
         late |-> IF Stale(k, rq[r].sv) > rq[r].late THEN Stale(k, rq[r].sv) ELSE rq[r].late]]

\* A token arrives: a renewal needs no privilege, any other request does.
Arrive(r, p, sv) ==
    /\ sv \in signed
    /\ \E op \in {"act", "renew"} :
          Begin(r, [op |-> op, pc |-> "session", proc |-> p, sv |-> sv, late |-> 0])
    /\ UNCHANGED <<user, cache, signed, clocks>>

\* Mutated form: a hit keeps the entry alive.
HitSliding(r, k) ==
    /\ rq[r].op # "idle" /\ rq[r].pc = k /\ Fresh(k, rq[r].proc)
    /\ IF Passes(k, cache[k][rq[r].proc].info, rq[r].sv) THEN LetIn(r, k) ELSE Finish(r)
    /\ cache' = [cache EXCEPT ![k][rq[r].proc].left = CacheTtl]
    /\ UNCHANGED <<user, signed, clocks>>

\* A fresh entry answers at once.
Hit(r, k) ==
    /\ rq[r].op # "idle" /\ rq[r].pc = k /\ Fresh(k, rq[r].proc)
    /\ IF Passes(k, cache[k][rq[r].proc].info, rq[r].sv) THEN LetIn(r, k) ELSE Finish(r)
    /\ UNCHANGED <<user, cache, signed, clocks>>

\* Otherwise the row is read ...
Miss(r, k) ==
    /\ rq[r].op # "idle" /\ rq[r].pc = k /\ ~Fresh(k, rq[r].proc)
    /\ With(r, [pc |-> "store", store |-> k, info |-> Kept(k, user)])
    /\ UNCHANGED <<user, cache, signed, clocks>>

\* ... and stored for CacheTtl from now, whoever invalidated the entry meanwhile.
StoreEntry(r) ==
    /\ rq[r].op # "idle" /\ rq[r].pc = "store"
    /\ cache' = [cache EXCEPT ![rq[r].store][rq[r].proc] = [left |-> CacheTtl, info |-> rq[r].info]]
    /\ IF Passes(rq[r].store, rq[r].info, rq[r].sv)
       THEN LetIn(r, rq[r].store) ELSE Finish(r)
    /\ UNCHANGED <<user, signed, clocks>>

\* invalidateSession, invalidateUserPrivileges: this process only.  None stands for the
\* processes whose caches are not looked at.
Anywhere == Procs \cup {None}
Invalidate(k, p) ==
    cache' = IF p = None THEN cache ELSE [cache EXCEPT ![k][p] = NoEntry]

----------------------------------------------------------------------------
(* Sessions                                                                *)

\* authenticateAdmin: the row, then registerLogin and the token.
PanelLogin(r, p) ==
    /\ user.active
    /\ Begin(r, [op |-> "login", pc |-> "sign", proc |-> p, sv |-> user.sv, late |-> 0])
    /\ UNCHANGED <<user, cache, signed, clocks>>

PanelSign(r) ==
    /\ At(r, "login", "sign")
    /\ signed' = signed \cup {rq[r].sv}
    /\ Invalidate("session", rq[r].proc)
    /\ Finish(r)
    /\ UNCHANGED <<user, clocks>>

\* renewSession reads the row past the cache and signs the version it finds.
Renew(r) ==
    /\ At(r, "renew", "in")
    /\ signed' = IF user.active THEN signed \cup {user.sv} ELSE signed
    /\ Finish(r)
    /\ UNCHANGED <<user, cache, clocks>>

Act(r) ==
    /\ At(r, "act", "in")
    /\ Finish(r)
    /\ UNCHANGED <<user, cache, signed, clocks>>

----------------------------------------------------------------------------
(* Killing sessions and taking the privilege away                          *)

Bumped(row) == [row EXCEPT !.sv = @ + 1]
Superseded  == since' = [since EXCEPT ![user.sv] = 0] /\ UNCHANGED lapse

\* updatePassword bumps in its own statement; the bump after an update that sets a
\* password, or after a reset of the second factor, is the same step on this row.
ChangePassword(p) ==
    /\ user.sv < MaxSv
    /\ user' = Bumped(user)
    /\ Invalidate("session", p)
    /\ Superseded
    /\ UNCHANGED <<signed, rq>>

\* updateUser, deleteUser: the row first, bumpSessionVersion after it.
Deactivate(r, p) ==
    /\ user.active
    /\ user' = [user EXCEPT !.active = FALSE]
    /\ lapse' = [lapse EXCEPT !.active = 0]
    /\ Begin(r, [op |-> "kill", pc |-> "bump", proc |-> p])
    /\ UNCHANGED <<cache, signed, since>>

BumpSessionVersion(r) ==
    /\ At(r, "kill", "bump") /\ user.sv < MaxSv
    /\ user' = Bumped(user)
    /\ Invalidate("session", rq[r].proc)
    /\ Superseded
    /\ Finish(r)
    /\ UNCHANGED signed

\* syncUserPrivileges, deleteUser.
Revoke(p) ==
    /\ user.granted
    /\ user' = [user EXCEPT !.granted = FALSE]
    /\ Invalidate("privilege", p)
    /\ lapse' = [lapse EXCEPT !.granted = 0]
    /\ UNCHANGED <<signed, since, rq>>

\* An update that activates or grants again: the version stays.
Restore(p) ==
    /\ ~user.active \/ ~user.granted
    /\ user' = [user EXCEPT !.active = TRUE, !.granted = TRUE]
    /\ lapse' = [active |-> 0, granted |-> 0]
    /\ IF user.granted THEN UNCHANGED cache ELSE Invalidate("privilege", p)
    /\ UNCHANGED <<signed, since, rq>>

Older(n) == IF n <= CacheTtl THEN n + 1 ELSE n

CacheTick ==
    /\ \A r \in Reqs : rq[r].op = "idle"
    /\ cache' = [k \in Stores |-> [p \in Procs |->
          IF cache[k][p].left > 1 THEN [cache[k][p] EXCEPT !.left = @ - 1] ELSE NoEntry]]
    /\ since' = [sv \in Sv |-> IF sv < user.sv THEN Older(since[sv]) ELSE 0]
    /\ lapse' = [active |-> IF user.active THEN 0 ELSE Older(lapse.active),
                 granted |-> IF user.granted THEN 0 ELSE Older(lapse.granted)]
    /\ UNCHANGED <<user, signed, rq>>

GuardsNext ==
    \/ \E r \in Reqs :
        \/ \E p \in Procs :
              \/ \E sv \in Sv : Arrive(r, p, sv)
              \/ PanelLogin(r, p)
        \/ \E p \in Anywhere : Deactivate(r, p)
        \/ \E k \in Stores : Hit(r, k) \/ Miss(r, k)
        \/ StoreEntry(r)
        \/ PanelSign(r) \/ Renew(r) \/ Act(r) \/ BumpSessionVersion(r)
        \/ GivesUp(r) /\ UNCHANGED <<user, cache, signed, clocks>>
    \/ \E p \in Anywhere : ChangePassword(p) \/ Revoke(p) \/ Restore(p)
    \/ CacheTick

GuardsSpec == GuardsInit /\ [][GuardsNext]_guardVars

----------------------------------------------------------------------------
(* Properties                                                              *)

\* Decision 112: "kills every outstanding session within 60 s".  A request let in on a
\* version, an active flag or a grant that is no longer the row's is let in no later
\* than a cache entry lives after the change, on any process.
LetInWithinTtl == \A r \in Reqs : rq[r].op # "idle" /\ rq[r].pc = "in" => rq[r].late <= CacheTtl

=============================================================================
