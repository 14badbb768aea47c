----------------------------- MODULE PanelUsers -----------------------------
(***************************************************************************)
(* The Users screen: creating, updating and deleting team users and        *)
(* granting them privileges.  There is no super user: whoever administers  *)
(* is a user like the others, and the guards must keep the installation    *)
(* from losing the last of them.                                           *)
(*                                                                         *)
(* Two screens matter: users, and the resource user_privileges.  The       *)
(* privileges of a request are those the middleware found when it came in;  *)
(* how old that finding may be is PanelGuards' matter.                     *)
(***************************************************************************)
EXTENDS Handlers

CONSTANTS
    Users,      \* rows of tb_user, the ones yet to be created included
    Admins      \* users seeded with every privilege

ASSUME UsersAssumption == Admins \subseteq Users

VARIABLE
    staff   \* tb_user with tb_user_has_privilege

usersVars == <<staff, rq>>

----------------------------------------------------------------------------

Screens == {"users", "user_privileges"}
Catalog == [users |-> {"VIEW", "UPDATE", "DELETE"}, user_privileges |-> {"VIEW", "UPDATE"}]

UserRow == [state : {"none", "present", "deleted"}, active : BOOLEAN,
            users : SUBSET Catalog.users, user_privileges : SUBSET Catalog.user_privileges]

UsersTypeOK == staff \in [Users -> UserRow]

\* Bound: the sets a grant asks for.
Asked(screen) == {{}, {"VIEW"}, Catalog[screen]}

NoUser == [state |-> "none", active |-> FALSE, users |-> {}, user_privileges |-> {}]

UsersInit ==
    /\ staff = [u \in Users |-> IF u \in Admins
                THEN [NoUser EXCEPT !.state = "present", !.active = TRUE, !.users = Catalog.users,
                                    !.user_privileges = Catalog.user_privileges]
                ELSE NoUser]
    /\ HandlersInit

Present(u) == staff[u].state = "present"
Can(u, screen, privilege) == Present(u) /\ staff[u].active /\ privilege \in staff[u][screen]

----------------------------------------------------------------------------
(* Handlers                                                                *)

\* createUser: email is UNIQUE, nothing is granted.  INSERT is not told apart.
CreateUser(actor, u) ==
    /\ Can(actor, "users", "VIEW") /\ staff[u].state = "none"
    /\ staff' = [staff EXCEPT ![u].state = "present", ![u].active = TRUE]
    /\ UNCHANGED rq

\* updateUser: what the body leaves out is taken from the row read here.
UpdateUserBegin(r, actor, u, active) ==
    /\ Can(actor, "users", "UPDATE") /\ Present(u)
    /\ Begin(r, [op |-> "update", pc |-> "write", actor |-> actor, user |-> u,
                 active |-> IF active = "omitted" THEN staff[u].active ELSE active = "S"])
    /\ UNCHANGED staff

\* The UPDATE by id; the bump that may follow is PanelGuards'.
UpdateUser(r) ==
    /\ At(r, "update", "write")
    /\ staff' = [staff EXCEPT ![rq[r].user].active = rq[r].active]
    /\ Finish(r)

\* Mutated form: one may delete oneself.
DeleteUserBeginAnyone(r, actor, u) ==
    /\ Can(actor, "users", "DELETE") /\ Present(u)
    /\ Begin(r, [op |-> "delete", pc |-> "write", actor |-> actor, user |-> u])
    /\ UNCHANGED staff

\* deleteUser: never one's own account.
DeleteUserBegin(r, actor, u) ==
    /\ Can(actor, "users", "DELETE") /\ Present(u) /\ actor # u
    /\ Begin(r, [op |-> "delete", pc |-> "write", actor |-> actor, user |-> u])
    /\ UNCHANGED staff

\* softDeleteUser: one transaction.
SoftDeleteUser(r) ==
    /\ At(r, "delete", "write")
    /\ staff' = [staff EXCEPT ![rq[r].user] = [NoUser EXCEPT !.state = "deleted"]]
    /\ Finish(r)

\* The two guards of the granting route.
MayGrant(u) == Can(u, "users", "UPDATE") /\ Can(u, "user_privileges", "UPDATE")

\* syncUserPrivileges: cataloged privileges only, any of them implies VIEW, and one's
\* own access to either resource is not emptied (but may be cut down to VIEW).
SyncBegin(r, actor, u, screen, privileges) ==
    /\ MayGrant(actor) /\ Present(u)
    /\ privileges \subseteq Catalog[screen]
    /\ actor = u => privileges # {}
    /\ Begin(r, [op |-> "sync", pc |-> "write", actor |-> actor, user |-> u, screen |-> screen,
                 grant |-> IF privileges = {} THEN {} ELSE privileges \cup {"VIEW"}])
    /\ UNCHANGED staff

\* syncUserInterfacePrivileges: one transaction; a deleted user's row takes grants too.
SyncUserPrivileges(r) ==
    /\ At(r, "sync", "write")
    /\ staff' = [staff EXCEPT ![rq[r].user][rq[r].screen] = rq[r].grant]
    /\ Finish(r)

UsersNext ==
    \/ \E actor, u \in Users : CreateUser(actor, u)
    \/ \E r \in Reqs :
        \/ \E actor, u \in Users :
              \/ \E active \in {"S", "N", "omitted"} : UpdateUserBegin(r, actor, u, active)
              \/ DeleteUserBegin(r, actor, u)
              \/ \E screen \in Screens : \E privileges \in Asked(screen) :
                    SyncBegin(r, actor, u, screen, privileges)
        \/ UpdateUser(r) \/ SoftDeleteUser(r) \/ SyncUserPrivileges(r)
        \/ GivesUp(r) /\ UNCHANGED staff

UsersSpec == UsersInit /\ [][UsersNext]_usersVars

----------------------------------------------------------------------------
(* Properties                                                              *)

\* Whoever can manage access.
Grantors == {u \in Users : MayGrant(u)}

\* By their own hand: cut down, though not emptied, or deactivated.
Resigns(r) ==
    /\ rq[r].op \in {"sync", "update"} /\ rq[r].actor = rq[r].user
    /\ IF rq[r].op = "sync" THEN rq[r].grant # {} ELSE ~rq[r].active

\* "Without anyone able to manage access" (decisions 70/93), as far as the guards go.
\* Nobody may grant any more only because the last who could resigned, against what the
\* comment of the guard says, or by a request whose author may not grant: one that has
\* lost it since the request was let in, as when two remove each other, or never could,
\* the Users screen alone being enough to deactivate or to delete.
LastGrantorGoes ==
    [][(Grantors # {} /\ Grantors' = {})
        => \E r \in Reqs : /\ rq[r].op # "idle" /\ rq'[r].op = "idle"
                           /\ rq[r].actor \notin Grantors \/ Resigns(r)]_usersVars

=============================================================================
