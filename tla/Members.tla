------------------------------- MODULE Members -------------------------------
(***************************************************************************)
(* The people of the site (internal/store/store.go, permissions.go,        *)
(* users.go, password.go) and the requests that manage them                *)
(* (internal/api/server.go): setup, registration with and without an       *)
(* invitation, login and logout, passwords, roles, states and deletion.    *)
(*                                                                         *)
(* A request is let in by a session and acts later: what it was let in     *)
(* with may be out of date by then, and only some operations look again.   *)
(* Every operation of the store is one step, under Store.mu; one whose     *)
(* save fails changes nothing.                                             *)
(*                                                                         *)
(* A user is known by its identity, which is never used again. Names,      *)
(* permissions, hashes and the data that goes with a deleted user are left *)
(* out; so is ConsumeInviteCode, which nothing calls.                      *)
(***************************************************************************)
EXTENDS Naturals, Sequences, FiniteSets

CONSTANTS
    Users,
    Codes,          \* invitations
    None,           \* no invitation, nobody
    Requests,       \* requests that may be under way at once
    UseLimits,      \* max_uses an administrator may choose; 0 is no limit
    MaxSessions,    \* sessions a user may have; 20 in the code
    MaxPasswords,   \* bound on changes of one password
    MaxFailedSaves  \* bound on registrations whose save fails

ASSUME MembersAssumption ==
    /\ IsFiniteSet(Users)
    /\ None \notin Users \union Codes
    /\ UseLimits \subseteq Nat
    /\ MaxSessions \in Nat \ {0}
    /\ {MaxPasswords, MaxFailedSaves} \subseteq Nat

VARIABLES
    user,
    sessions,       \* user -> its sessions, oldest first
    invite,
    mode,           \* RegistrationMode
    request,
    failedSaves     \* failed saves so far

vars == <<user, sessions, invite, mode, request, failedSaves>>

Roles == {"user", "admin"}
Given == {"active", "pending", "disabled"}      \* states an administrator may give

\* `invite` is history: the invitation a user came with.
UserRecord ==
    [status : Given \union {"none", "gone"}, role : Roles, password : Nat,
     invite : Codes \union {None}]
\* What a session was opened with, and whether by changing the password.
SessionRecord == [password : Nat, changed : BOOLEAN]
InviteRecord ==
    [state : {"none", "open", "disabled", "gone"}, expired : BOOLEAN, used : Nat,
     limit : UseLimits \union {0}, creator : Users \union {None}]
RequestRecord == [user : Users \union {None}, admin : BOOLEAN]

NoUser == [status |-> "none", role |-> "user", password |-> 0, invite |-> None]
NoInvite ==
    [state |-> "none", expired |-> FALSE, used |-> 0, limit |-> 0, creator |-> None]
NoRequest == [user |-> None, admin |-> FALSE]

Init ==
    /\ user = [u \in Users |-> NoUser]
    /\ sessions = [u \in Users |-> <<>>]
    /\ invite = [c \in Codes |-> NoInvite]
    /\ mode = "review"
    /\ request = [r \in Requests |-> NoRequest]
    /\ failedSaves = 0

-----------------------------------------------------------------------------
Exists(u) == user[u].status \in Given

IsAdmin(u) == user[u].role = "admin" /\ user[u].status = "active"

ActiveAdmins == {u \in Users : IsAdmin(u)}

\* Mutant: disabled administrators are counted, too.
LastAdminByRole(u) == IsAdmin(u) /\ Cardinality({v \in Users : Exists(v) /\ user[v].role = "admin"}) <= 1

\* A change that leaves u no active administrator would leave the site none.
LastAdmin(u) == IsAdmin(u) /\ Cardinality(ActiveAdmins) <= 1

\* createSessionLocked: the oldest makes room.
WithSession(held, password, changed) ==
    Append(IF Len(held) >= MaxSessions THEN Tail(held) ELSE held,
           [password |-> password, changed |-> changed])

NewUser(u, role, status, code) ==
    user' = [user EXCEPT ![u] = [status |-> status, role |-> role, password |-> 0,
                                 invite |-> code]]

LogIn(u, password, changed) ==
    sessions' = [sessions EXCEPT ![u] = WithSession(sessions[u], password, changed)]

\* Mutant: the sessions go with the next login only.
LogOutNobody(u) == UNCHANGED sessions

LogOutAll(u) == sessions' = [sessions EXCEPT ![u] = <<>>]

-----------------------------------------------------------------------------
(* Without a session. *)

Setup(u) ==
    /\ user[u].status = "none"
    /\ \A v \in Users : Exists(v) => user[v].role # "admin"
    /\ NewUser(u, "admin", "active", None)
    /\ LogIn(u, 0, FALSE)
    /\ UNCHANGED <<invite, mode, request, failedSaves>>

Register(u) ==
    /\ user[u].status = "none"
    /\ ActiveAdmins # {}
    /\ \/ /\ mode = "review"
          /\ NewUser(u, "user", "pending", None)
          /\ UNCHANGED sessions
       \/ /\ mode = "open"
          /\ NewUser(u, "user", "active", None)
          /\ LogIn(u, 0, FALSE)
    /\ UNCHANGED <<invite, mode, request, failedSaves>>

Usable(c) ==
    /\ invite[c].state = "open"
    /\ ~invite[c].expired
    /\ invite[c].creator \in ActiveAdmins
    /\ invite[c].limit > 0 => invite[c].used < invite[c].limit

Consume(c) == invite' = [invite EXCEPT ![c] = [invite[c] EXCEPT !.used = invite[c].used + 1]]

RegisterInvited(u, c) ==
    /\ user[u].status = "none"
    /\ ActiveAdmins # {}
    /\ Usable(c)
    /\ Consume(c)
    /\ NewUser(u, "user", "active", c)
    /\ LogIn(u, 0, FALSE)
    /\ UNCHANGED <<mode, request, failedSaves>>

\* Mutant: what was consumed is not given back.
FailureConsumes(u, c) ==
    /\ user[u].status = "none"
    /\ ActiveAdmins # {}
    /\ Usable(c)
    /\ failedSaves < MaxFailedSaves
    /\ failedSaves' = failedSaves + 1
    /\ Consume(c)
    /\ UNCHANGED <<user, sessions, mode, request>>

\* The save fails: what was consumed is given back.
RegistrationFails(u, c) ==
    /\ user[u].status = "none"
    /\ ActiveAdmins # {}
    /\ Usable(c)
    /\ failedSaves < MaxFailedSaves
    /\ failedSaves' = failedSaves + 1
    /\ UNCHANGED <<user, sessions, invite, mode, request>>

Authenticate(u) ==
    /\ user[u].status = "active"
    /\ LogIn(u, user[u].password, FALSE)
    /\ UNCHANGED <<user, invite, mode, request, failedSaves>>

Logout(u, i) ==
    /\ i \in 1 .. Len(sessions[u])
    /\ sessions' = [sessions EXCEPT ![u] =
                       SubSeq(sessions[u], 1, i - 1) \o SubSeq(sessions[u], i + 1, Len(sessions[u]))]
    /\ UNCHANGED <<user, invite, mode, request, failedSaves>>

\* Sessions last seven days, so the oldest expires first.
SessionExpires(u) ==
    /\ sessions[u] # <<>>
    /\ sessions' = [sessions EXCEPT ![u] = Tail(sessions[u])]
    /\ UNCHANGED <<user, invite, mode, request, failedSaves>>

InviteExpires(c) ==
    /\ invite[c].state \in {"open", "disabled"} /\ ~invite[c].expired
    /\ invite' = [invite EXCEPT ![c] = [invite[c] EXCEPT !.expired = TRUE]]
    /\ UNCHANGED <<user, sessions, mode, request, failedSaves>>

-----------------------------------------------------------------------------
(* Requests. withAuth and requireAdmin look when a request comes in. *)

Enter(r, u) ==
    /\ request[r].user = None
    /\ sessions[u] # <<>> /\ user[u].status = "active"
    /\ request' = [request EXCEPT ![r] = [user |-> u, admin |-> user[u].role = "admin"]]
    /\ UNCHANGED <<user, sessions, invite, mode, failedSaves>>

\* A request ends, having read something, been refused or failed to save.
Leave(r) == request' = [request EXCEPT ![r] = NoRequest]

Refused(r) ==
    /\ request[r].user # None
    /\ Leave(r)
    /\ UNCHANGED <<user, sessions, invite, mode, failedSaves>>

\* An administrator's request about another user.
Manages(r, u) == request[r].admin /\ u # request[r].user /\ Exists(u)

Change(u, record) == user' = [user EXCEPT ![u] = record]

\* UpdateUserStatus.
SetStatus(r, u, status) ==
    /\ Manages(r, u)
    /\ status # "active" => ~LastAdmin(u)
    /\ Change(u, [user[u] EXCEPT !.status = status])
    /\ IF status # "active" THEN LogOutAll(u) ELSE UNCHANGED sessions
    /\ Leave(r)
    /\ UNCHANGED <<invite, mode, failedSaves>>

\* UpdateUserRole.
SetRole(r, u, role) ==
    /\ Manages(r, u)
    /\ role # "admin" => ~LastAdmin(u)
    /\ Change(u, [user[u] EXCEPT !.role = role])
    /\ Leave(r)
    /\ UNCHANGED <<sessions, invite, mode, failedSaves>>

\* UpdateUserAccess looks at the acting administrator again.
SetAccess(r, u, role, status) ==
    /\ Manages(r, u)
    /\ IsAdmin(request[r].user)
    /\ (role # "admin" \/ status # "active") => ~LastAdmin(u)
    /\ Change(u, [user[u] EXCEPT !.role = role, !.status = status])
    /\ IF status # "active" THEN LogOutAll(u) ELSE UNCHANGED sessions
    /\ Leave(r)
    /\ UNCHANGED <<invite, mode, failedSaves>>

\* ResetUserPassword, which an administrator may use on itself.
ResetPassword(r, u) ==
    /\ request[r].admin /\ Exists(u)
    /\ user[u].password < MaxPasswords
    /\ Change(u, [user[u] EXCEPT !.password = user[u].password + 1])
    /\ LogOutAll(u)
    /\ Leave(r)
    /\ UNCHANGED <<invite, mode, failedSaves>>

\* ChangePassword does not look at the user's state.
ChangePassword(r) ==
    LET u == request[r].user
    IN  /\ u # None /\ Exists(u)
        /\ user[u].password < MaxPasswords
        /\ Change(u, [user[u] EXCEPT !.password = user[u].password + 1])
        /\ sessions' = [sessions EXCEPT ![u] =
                           WithSession(<<>>, user[u].password + 1, TRUE)]
        /\ Leave(r)
        /\ UNCHANGED <<invite, mode, failedSaves>>

DeleteUser(r, u) ==
    /\ Manages(r, u)
    /\ ~LastAdmin(u)
    /\ Change(u, [user[u] EXCEPT !.status = "gone"])
    /\ LogOutAll(u)
    /\ Leave(r)
    /\ UNCHANGED <<invite, mode, failedSaves>>

CreateUser(r, u, role) ==
    /\ request[r].admin
    /\ user[u].status = "none"
    /\ NewUser(u, role, "active", None)
    /\ Leave(r)
    /\ UNCHANGED <<sessions, invite, mode, failedSaves>>

\* CreateInviteCode looks at the acting administrator again.
CreateInviteCode(r, c, limit) ==
    /\ request[r].admin /\ IsAdmin(request[r].user)
    /\ invite[c].state = "none"
    /\ invite' = [invite EXCEPT ![c] =
                     [state |-> "open", expired |-> FALSE, used |-> 0, limit |-> limit,
                      creator |-> request[r].user]]
    /\ Leave(r)
    /\ UNCHANGED <<user, sessions, mode, failedSaves>>

\* DisableInvite and DeleteInviteCode.
SetInvite(r, c, state) ==
    /\ request[r].admin
    /\ invite[c].state \in {"open", "disabled"}
    /\ invite' = [invite EXCEPT ![c] = [invite[c] EXCEPT !.state = state]]
    /\ Leave(r)
    /\ UNCHANGED <<user, sessions, mode, failedSaves>>

SetRegistrationMode(r, chosen) ==
    /\ request[r].admin
    /\ mode' = chosen
    /\ Leave(r)
    /\ UNCHANGED <<user, sessions, invite, failedSaves>>

Administer(r) ==
    \/ \E u \in Users : \/ \E status \in Given : SetStatus(r, u, status)
                        \/ \E role \in Roles : SetRole(r, u, role)
                        \/ \E role \in Roles, status \in Given : SetAccess(r, u, role, status)
                        \/ ResetPassword(r, u)
                        \/ DeleteUser(r, u)
                        \/ \E role \in Roles : CreateUser(r, u, role)
    \/ \E c \in Codes : \/ \E limit \in UseLimits : CreateInviteCode(r, c, limit)
                        \/ \E state \in {"open", "disabled", "gone"} : SetInvite(r, c, state)
    \/ \E chosen \in {"open", "review", "closed"} : SetRegistrationMode(r, chosen)

Visit ==
    \/ \E u \in Users : \/ Setup(u) \/ Register(u) \/ Authenticate(u) \/ SessionExpires(u)
                        \/ \E c \in Codes : RegisterInvited(u, c) \/ RegistrationFails(u, c)
                        \/ \E i \in 1 .. MaxSessions : Logout(u, i)
    \/ \E c \in Codes : InviteExpires(c)

Next ==
    \/ Visit
    \/ \E r \in Requests : \/ \E u \in Users : Enter(r, u)
                           \/ Refused(r)
                           \/ Administer(r)
                           \/ ChangePassword(r)

Spec == Init /\ [][Next]_vars

-----------------------------------------------------------------------------
(* Properties. *)

\* What the store and the requests hold.
TypeOK ==
    /\ user \in [Users -> UserRecord]
    /\ sessions \in [Users -> Seq(SessionRecord)]
    /\ invite \in [Codes -> InviteRecord]
    /\ mode \in {"open", "review", "closed"}
    /\ request \in [Requests -> RequestRecord]
    /\ failedSaves \in Nat

\* Once the site is set up it always has an active administrator, whatever
\* sequence of states, roles and deletions administrators give one another,
\* with requests that were let in before they lost their own rights.
AdminRemains == (\E u \in Users : user[u].status # "none") => ActiveAdmins # {}

\* A session was opened with the password its user has now, and its user is
\* active; the exception is a change of password that was let in before its user
\* was disabled, which opens a session that sleeps until the user is active again.
SessionsHonest ==
    \A u \in Users : \A i \in 1 .. Len(sessions[u]) :
        /\ sessions[u][i].password = user[u].password
        /\ Exists(u)
        /\ user[u].status # "active" => sessions[u][i].changed

\* An invitation counts the users it brought, no more than its limit, also when
\* registrations fail to save and users are deleted.
InvitesCount ==
    \A c \in Codes :
        /\ invite[c].used = Cardinality({u \in Users : user[u].invite = c})
        /\ invite[c].limit > 0 => invite[c].used <= invite[c].limit
=============================================================================
