---------------------------- MODULE Members_proofs ----------------------------
(***************************************************************************)
(* Proofs about Members, for any users, invitations and requests, and any  *)
(* number of sessions, changes of password and failed saves.               *)
(***************************************************************************)
EXTENDS Members, FiniteSetTheorems, SequenceTheorems, TLAPS

-------------------------------------------------------------------------------
(* The inductive invariant: the properties, and what relates the users to    *)
(* the requests and invitations that name them.                              *)

RequestsOfUsers ==
    \A r \in Requests :
        /\ request[r].admin => request[r].user # None
        /\ request[r].user # None => user[request[r].user].status # "none"

FreshIsFresh ==
    /\ \A u \in Users : user[u].status = "none" => user[u].invite = None
    /\ \A c \in Codes : invite[c].state = "none" => invite[c].used = 0

MembersInv == TypeOK /\ RequestsOfUsers /\ FreshIsFresh /\ AdminRemains /\ SessionsHonest /\ InvitesCount

-------------------------------------------------------------------------------
(* Helpers: each changes one user, one user's sessions, one invitation or    *)
(* one request, and leaves a record a record.                                *)

LEMMA Fresh ==
    /\ NoUser \in UserRecord /\ NoUser.status = "none" /\ NoUser.invite = None
    /\ NoInvite \in InviteRecord /\ NoInvite.state = "none" /\ NoInvite.used = 0 /\ NoInvite.limit = 0
    /\ NoRequest \in RequestRecord /\ NoRequest.user = None /\ NoRequest.admin = FALSE
BY DEF NoUser, UserRecord, NoInvite, InviteRecord, NoRequest, RequestRecord, Given, Roles

LEMMA NewSession ==
    ASSUME NEW held \in Seq(SessionRecord), NEW password \in Nat, NEW changed \in BOOLEAN
    PROVE  /\ WithSession(held, password, changed) \in Seq(SessionRecord)
           /\ \A i \in 1 .. Len(WithSession(held, password, changed)) :
                 \/ WithSession(held, password, changed)[i] =
                      [password |-> password, changed |-> changed]
                 \/ \E j \in 1 .. Len(held) : WithSession(held, password, changed)[i] = held[j]
<1> DEFINE kept == IF Len(held) >= MaxSessions THEN Tail(held) ELSE held
           new == [password |-> password, changed |-> changed]
<1>1. new \in SessionRecord
  BY DEF SessionRecord
<1>2. /\ kept \in Seq(SessionRecord)
      /\ \A i \in 1 .. Len(kept) : \E j \in 1 .. Len(held) : kept[i] = held[j]
  <2>1. CASE Len(held) >= MaxSessions
    <3>1. held # <<>>
      BY <2>1, MembersAssumption DEF MembersAssumption
    <3>2. /\ Tail(held) \in Seq(SessionRecord) /\ Len(Tail(held)) = Len(held) - 1
          /\ \A i \in 1 .. Len(Tail(held)) : Tail(held)[i] = held[i + 1]
      BY <3>1, HeadTailProperties
    <3>3. Len(held) \in Nat
      OBVIOUS
    <3>4. ASSUME NEW i \in 1 .. Len(Tail(held))
          PROVE  i + 1 \in 1 .. Len(held) /\ Tail(held)[i] = held[i + 1]
      BY <3>2, <3>3
    <3> QED
      BY <2>1, <3>2, <3>4
  <2>2. CASE ~(Len(held) >= MaxSessions)
    BY <2>2
  <2> QED
    BY <2>1, <2>2
<1>3. PICK k \in Seq(SessionRecord) : k = kept
  BY <1>2
<1>4. /\ Append(k, new) \in Seq(SessionRecord) /\ Len(Append(k, new)) = Len(k) + 1
      /\ \A i \in 1 .. Len(Append(k, new)) :
            Append(k, new)[i] = new \/ (i \in 1 .. Len(k) /\ Append(k, new)[i] = k[i])
  BY <1>1
<1> QED
  BY <1>2, <1>3, <1>4 DEF WithSession

\* Sessions that remain after one is taken away were there before.
LEMMA WithoutFirst ==
    ASSUME NEW held \in Seq(SessionRecord), held # <<>>
    PROVE  /\ Tail(held) \in Seq(SessionRecord)
           /\ \A i \in 1 .. Len(Tail(held)) : \E j \in 1 .. Len(held) : Tail(held)[i] = held[j]
<1>1. /\ Tail(held) \in Seq(SessionRecord) /\ Len(Tail(held)) = Len(held) - 1
      /\ \A i \in 1 .. Len(Tail(held)) : Tail(held)[i] = held[i + 1]
  BY HeadTailProperties
<1>2. ASSUME NEW i \in 1 .. Len(Tail(held))
      PROVE  i + 1 \in 1 .. Len(held) /\ Tail(held)[i] = held[i + 1]
  BY <1>1
<1> QED
  BY <1>1, <1>2

Without(held, n) == SubSeq(held, 1, n - 1) \o SubSeq(held, n + 1, Len(held))

LEMMA WithoutOne ==
    ASSUME NEW held \in Seq(SessionRecord), NEW n \in 1 .. Len(held)
    PROVE  /\ Without(held, n) \in Seq(SessionRecord)
           /\ \A i \in 1 .. Len(Without(held, n)) :
                 \E j \in 1 .. Len(held) : Without(held, n)[i] = held[j]
<1>1. Len(held) \in Nat
  OBVIOUS
<1>2. PICK a : a = SubSeq(held, 1, n - 1)
  OBVIOUS
<1>3. PICK b : b = SubSeq(held, n + 1, Len(held))
  OBVIOUS
<1>4. /\ a \in Seq(SessionRecord) /\ Len(a) = n - 1
      /\ \A i \in 1 .. Len(a) : i \in 1 .. Len(held) /\ a[i] = held[i]
  BY <1>1, <1>2
<1>5. /\ b \in Seq(SessionRecord) /\ Len(b) = Len(held) - n
      /\ \A i \in 1 .. Len(b) : n + i \in 1 .. Len(held) /\ b[i] = held[n + i]
  BY <1>1, <1>3
<1>6. /\ a \o b \in Seq(SessionRecord) /\ Len(a \o b) = Len(a) + Len(b)
      /\ \A i \in 1 .. Len(a \o b) :
            \/ i \in 1 .. Len(a) /\ (a \o b)[i] = a[i]
            \/ i - Len(a) \in 1 .. Len(b) /\ (a \o b)[i] = b[i - Len(a)]
  <2>1. /\ a \o b \in Seq(SessionRecord) /\ Len(a \o b) = Len(a) + Len(b)
        /\ \A i \in 1 .. Len(a) + Len(b) :
              (a \o b)[i] = IF i <= Len(a) THEN a[i] ELSE b[i - Len(a)]
    BY <1>4, <1>5, ConcatProperties
  <2>2. Len(a) \in Nat /\ Len(b) \in Nat
    BY <1>4, <1>5
  <2> QED
    BY <2>1, <2>2
<1>7. ASSUME NEW i \in 1 .. Len(a \o b)
      PROVE  \E j \in 1 .. Len(held) : (a \o b)[i] = held[j]
  <2>1. CASE i \in 1 .. Len(a) /\ (a \o b)[i] = a[i]
    BY <1>4, <2>1
  <2>2. CASE i - Len(a) \in 1 .. Len(b) /\ (a \o b)[i] = b[i - Len(a)]
    BY <1>5, <2>2
  <2> QED
    BY <1>6, <2>1, <2>2
<1> QED
  BY <1>2, <1>3, <1>6, <1>7 DEF Without

-------------------------------------------------------------------------------
(* What most steps have in common: they are about one user, whose invitation *)
(* stays, and leave the counts of invitations and the requests' users alone. *)

HonestFor(u) ==
    \A i \in 1 .. Len(sessions[u]) :
        /\ sessions[u][i].password = user[u].password
        /\ Exists(u)
        /\ user[u].status # "active" => sessions[u][i].changed

OnlyAbout(u) == \A v \in Users \ {u} : user'[v] = user[v] /\ sessions'[v] = sessions[v]

StaysBorn(u) ==
    /\ user'[u].invite = user[u].invite
    /\ user[u].status # "none" => user'[u].status # "none"

CountsStay ==
    \A c \in Codes :
        /\ invite'[c].used = invite[c].used
        /\ invite'[c].limit > 0 => invite'[c].used <= invite'[c].limit
        /\ invite'[c].state = "none" => invite[c].state = "none"

RequestsStay == \A r \in Requests : request'[r] \in {request[r], NoRequest}

LEMMA RequestsKept ==
    ASSUME MembersInv, NEW u \in Users, OnlyAbout(u),
           user[u].status # "none" => user'[u].status # "none", RequestsStay
    PROVE  RequestsOfUsers'
<1> SUFFICES ASSUME NEW r \in Requests
             PROVE  /\ request'[r].admin => request'[r].user # None
                    /\ request'[r].user # None => user'[request'[r].user].status # "none"
  BY DEF RequestsOfUsers
<1>1. CASE request'[r] = NoRequest
  BY <1>1, Fresh
<1>2. CASE request'[r] = request[r]
  <2>1. request[r].user \in Users \union {None}
    BY DEF MembersInv, TypeOK, RequestRecord
  <2> QED
    BY <1>2, <2>1 DEF MembersInv, RequestsOfUsers, OnlyAbout
<1> QED
  BY <1>1, <1>2 DEF RequestsStay

LEMMA FreshKept ==
    ASSUME MembersInv, NEW u \in Users, OnlyAbout(u), StaysBorn(u), CountsStay
    PROVE  FreshIsFresh'
BY DEF MembersInv, FreshIsFresh, OnlyAbout, StaysBorn, CountsStay

LEMMA HonestKept ==
    ASSUME MembersInv, NEW u \in Users, OnlyAbout(u), HonestFor(u)'
    PROVE  SessionsHonest'
<1> SUFFICES ASSUME NEW v \in Users, v # u
             PROVE  HonestFor(v)'
  BY DEF SessionsHonest, HonestFor
<1>1. user'[v] = user[v] /\ sessions'[v] = sessions[v]
  BY DEF OnlyAbout
<1>2. HonestFor(v)
  BY DEF MembersInv, SessionsHonest, HonestFor
<1> QED
  BY <1>1, <1>2 DEF HonestFor, Exists

LEMMA CountKept ==
    ASSUME MembersInv, NEW u \in Users, OnlyAbout(u), StaysBorn(u), CountsStay
    PROVE  InvitesCount'
<1> SUFFICES ASSUME NEW c \in Codes
             PROVE  /\ invite'[c].used = Cardinality({v \in Users : user'[v].invite = c})
                    /\ invite'[c].limit > 0 => invite'[c].used <= invite'[c].limit
  BY DEF InvitesCount
<1>1. {v \in Users : user'[v].invite = c} = {v \in Users : user[v].invite = c}
  BY DEF OnlyAbout, StaysBorn
<1> QED
  BY <1>1 DEF MembersInv, InvitesCount, CountsStay

\* The site keeps an active administrator when u, who is not the last one,
\* changes in any way.
LEMMA AdminsKept ==
    ASSUME MembersInv, NEW u \in Users, OnlyAbout(u), ~LastAdmin(u),
           user[u].status # "none"
    PROVE  AdminRemains'
<1>1. ActiveAdmins # {}
  BY DEF MembersInv, AdminRemains
<1>2. PICK w \in ActiveAdmins : w # u
  <2>1. CASE IsAdmin(u)
    <3>1. ActiveAdmins # {u}
      <4> SUFFICES ASSUME ActiveAdmins = {u} PROVE FALSE
        OBVIOUS
      <4>1. Cardinality(ActiveAdmins) = 1
        BY FS_Singleton
      <4> QED
        BY <2>1, <4>1 DEF LastAdmin
    <3> QED
      BY <1>1, <3>1
  <2>2. CASE ~IsAdmin(u)
    BY <1>1, <2>2 DEF ActiveAdmins
  <2> QED
    BY <2>1, <2>2
<1>3. w \in Users /\ user'[w] = user[w]
  BY <1>2 DEF ActiveAdmins, OnlyAbout
<1>4. IsAdmin(w)'
  BY <1>2, <1>3 DEF ActiveAdmins, IsAdmin
<1> QED
  BY <1>3, <1>4 DEF AdminRemains, ActiveAdmins

\* It keeps those it has when u stays one or has never been.
LEMMA AdminsStay ==
    ASSUME MembersInv, NEW u \in Users, OnlyAbout(u),
           user[u].status # "none" => user'[u].status # "none",
           user'[u].status # "none" =>
                \/ ActiveAdmins # {} /\ (IsAdmin(u) => IsAdmin(u)')
                \/ IsAdmin(u)'
                \/ user'[u] = user[u]
    PROVE  AdminRemains'
<1>1. ASSUME NEW w \in Users, IsAdmin(w), IsAdmin(u) => IsAdmin(u)'
      PROVE  ActiveAdmins' # {}
  BY <1>1 DEF OnlyAbout, IsAdmin, ActiveAdmins
<1>2. ASSUME user'[u].status # "none" PROVE ActiveAdmins' # {}
  <2>1. CASE IsAdmin(u)'
    BY <2>1 DEF ActiveAdmins
  <2>2. CASE ActiveAdmins # {} /\ (IsAdmin(u) => IsAdmin(u)')
    BY <1>1, <2>2 DEF ActiveAdmins
  <2>3. CASE user'[u] = user[u]
    <3>1. ActiveAdmins # {} /\ (IsAdmin(u) => IsAdmin(u)')
      BY <1>2, <2>3 DEF MembersInv, AdminRemains, IsAdmin
    <3> QED
      BY <1>1, <3>1 DEF ActiveAdmins
  <2> QED
    BY <1>2, <2>1, <2>2, <2>3
<1>3. ASSUME NEW v \in Users, v # u, user'[v].status # "none", user'[u].status = "none"
      PROVE  ActiveAdmins' # {}
  <2>1. user[v].status # "none"
    BY <1>3 DEF OnlyAbout
  <2>2. PICK w \in Users : IsAdmin(w)
    BY <2>1 DEF MembersInv, AdminRemains, ActiveAdmins
  <2>3. CASE w # u
    <3>1. IsAdmin(w)'
      BY <2>2, <2>3 DEF OnlyAbout, IsAdmin
    <3> QED
      BY <3>1 DEF ActiveAdmins
  <2>4. CASE w = u
    BY <1>3, <2>2, <2>4 DEF IsAdmin
  <2> QED
    BY <2>3, <2>4
<1> QED
  BY <1>2, <1>3 DEF AdminRemains

-------------------------------------------------------------------------------
(* Types, for the steps of visitors and of requests.                          *)

LEMMA Visitors ==
    ASSUME TypeOK, NEW u \in Users, NEW role \in Roles, NEW status \in Given,
           NEW code \in Codes \union {None}, NewUser(u, role, status, code)
    PROVE  /\ user' \in [Users -> UserRecord]
           /\ user'[u] = [status |-> status, role |-> role, password |-> 0, invite |-> code]
           /\ \A v \in Users \ {u} : user'[v] = user[v]
BY DEF TypeOK, NewUser, UserRecord, Given

LEMMA LoggedIn ==
    ASSUME TypeOK, NEW u \in Users, NEW password \in Nat, NEW changed \in BOOLEAN,
           LogIn(u, password, changed)
    PROVE  /\ sessions' \in [Users -> Seq(SessionRecord)]
           /\ sessions'[u] = WithSession(sessions[u], password, changed)
           /\ \A v \in Users \ {u} : sessions'[v] = sessions[v]
<1>1. sessions \in [Users -> Seq(SessionRecord)]
  BY DEF TypeOK
<1>2. WithSession(sessions[u], password, changed) \in Seq(SessionRecord)
  BY <1>1, NewSession
<1> QED
  BY <1>1, <1>2 DEF LogIn

LEMMA LoggedOut ==
    ASSUME TypeOK, NEW u \in Users, LogOutAll(u)
    PROVE  /\ sessions' \in [Users -> Seq(SessionRecord)]
           /\ sessions'[u] = <<>>
           /\ \A v \in Users \ {u} : sessions'[v] = sessions[v]
<1>1. <<>> \in Seq(SessionRecord)
  OBVIOUS
<1> QED
  BY <1>1 DEF TypeOK, LogOutAll

LEMMA Changed ==
    ASSUME TypeOK, NEW u \in Users, NEW record \in UserRecord, Change(u, record)
    PROVE  /\ user' \in [Users -> UserRecord] /\ user'[u] = record
           /\ \A v \in Users \ {u} : user'[v] = user[v]
BY DEF TypeOK, Change

LEMMA Left ==
    ASSUME TypeOK, NEW r \in Requests, Leave(r)
    PROVE  request' \in [Requests -> RequestRecord] /\ RequestsStay
BY Fresh DEF TypeOK, Leave, RequestsStay

LEMMA CountsSame ==
    ASSUME MembersInv, UNCHANGED invite
    PROVE  CountsStay
BY DEF MembersInv, InvitesCount, CountsStay

\* Somebody new has no sessions and came without an invitation.
LEMMA Unborn ==
    ASSUME MembersInv, NEW u \in Users, user[u].status = "none"
    PROVE  user[u].invite = None /\ sessions[u] = <<>>
<1>1. user[u].invite = None
  BY DEF MembersInv, FreshIsFresh
<1>2. sessions[u] \in Seq(SessionRecord)
  BY DEF MembersInv, TypeOK
<1>3. ~Exists(u)
  BY DEF Exists, Given
<1>4. Len(sessions[u]) = 0
  <2>1. Len(sessions[u]) \in Nat
    BY <1>2
  <2>2. \A i \in 1 .. Len(sessions[u]) : Exists(u)
    BY DEF MembersInv, SessionsHonest
  <2> QED
    BY <1>3, <2>1, <2>2
<1> QED
  BY <1>1, <1>2, <1>4

\* A login with the password of now, of a user who is active, is honest; so is
\* the session that changing the password opens.
LEMMA HonestLogin ==
    ASSUME MembersInv, NEW u \in Users, NEW changed \in BOOLEAN, HonestFor(u),
           user'[u].password = user[u].password, user'[u].status = "active",
           user[u].password \in Nat,
           sessions'[u] = WithSession(sessions[u], user[u].password, changed)
    PROVE  HonestFor(u)'
<1>1. sessions[u] \in Seq(SessionRecord)
  BY DEF MembersInv, TypeOK
<1>0. Exists(u)'
  BY DEF Exists, Given
<1>2. ASSUME NEW i \in 1 .. Len(sessions'[u])
      PROVE  sessions'[u][i].password = user'[u].password
  <2>0. PICK held \in Seq(SessionRecord) : held = sessions[u]
    BY <1>1
  <2>p. PICK password \in Nat : password = user[u].password
    OBVIOUS
  <2>1. \A k \in 1 .. Len(WithSession(held, password, changed)) :
           \/ WithSession(held, password, changed)[k] =
                [password |-> password, changed |-> changed]
           \/ \E j \in 1 .. Len(held) : WithSession(held, password, changed)[k] = held[j]
    BY NewSession
  <2>q. PICK new : new = sessions'[u] /\ new = WithSession(held, password, changed)
    BY <2>0, <2>p
  <2>2. \/ new[i] = [password |-> password, changed |-> changed]
        \/ \E j \in 1 .. Len(held) : new[i] = held[j]
    BY <1>2, <2>1, <2>q
  <2> QED
    BY <2>0, <2>p, <2>q, <2>2 DEF HonestFor
<1>3. ~(user'[u].status # "active")
  OBVIOUS
<1> QED
  BY <1>0, <1>2, <1>3, Zenon DEF HonestFor

LEMMA FirstSession ==
    ASSUME NEW password \in Nat, NEW changed \in BOOLEAN
    PROVE  \A i \in 1 .. Len(WithSession(<<>>, password, changed)) :
              WithSession(<<>>, password, changed)[i] = [password |-> password, changed |-> changed]
<1>1. <<>> \in Seq(SessionRecord) /\ Len(<<>>) = 0
  OBVIOUS
<1>2. PICK none \in Seq(SessionRecord) : none = <<>> /\ Len(none) = 0
  BY <1>1
<1>3. \A i \in 1 .. Len(WithSession(none, password, changed)) :
         \/ WithSession(none, password, changed)[i] = [password |-> password, changed |-> changed]
         \/ \E j \in 1 .. Len(none) : WithSession(none, password, changed)[i] = none[j]
  BY NewSession
<1>4. 1 .. 0 = {}
  OBVIOUS
<1> QED
  BY <1>2, <1>3, <1>4

LEMMA NoSessions ==
    ASSUME NEW u \in Users, sessions'[u] = <<>>
    PROVE  HonestFor(u)'
<1>1. Len(sessions'[u]) = 0
  OBVIOUS
<1>2. 1 .. 0 = {}
  OBVIOUS
<1> QED
  BY <1>1, <1>2 DEF HonestFor

LEMMA StillHonest ==
    ASSUME MembersInv, NEW u \in Users
    PROVE  HonestFor(u)
BY DEF MembersInv, SessionsHonest, HonestFor

-------------------------------------------------------------------------------
(* A step about one user u, and one that leaves all users alone.              *)

LEMMA AboutOne ==
    ASSUME MembersInv, TypeOK', NEW u \in Users, OnlyAbout(u), StaysBorn(u),
           CountsStay, RequestsStay, HonestFor(u)', AdminRemains'
    PROVE  MembersInv'
<1>1. RequestsOfUsers'
  BY RequestsKept DEF StaysBorn
<1>2. FreshIsFresh' /\ SessionsHonest' /\ InvitesCount'
  BY FreshKept, HonestKept, CountKept
<1> QED
  BY <1>1, <1>2 DEF MembersInv

LEMMA AboutNone ==
    ASSUME MembersInv, TypeOK', UNCHANGED <<user, sessions>>, CountsStay,
           RequestsOfUsers'
    PROVE  MembersInv'
<1>1. AdminRemains' /\ SessionsHonest'
  BY DEF MembersInv, AdminRemains, SessionsHonest, ActiveAdmins, IsAdmin, Exists
<1>2. FreshIsFresh'
  BY DEF MembersInv, FreshIsFresh, CountsStay
<1>3. InvitesCount'
  <2> SUFFICES ASSUME NEW c \in Codes
               PROVE  /\ invite'[c].used = Cardinality({v \in Users : user[v].invite = c})
                      /\ invite'[c].limit > 0 => invite'[c].used <= invite'[c].limit
    BY DEF InvitesCount
  <2> QED
    BY DEF MembersInv, InvitesCount, CountsStay
<1> QED
  BY <1>1, <1>2, <1>3 DEF MembersInv

LEMMA RequestsSame ==
    ASSUME MembersInv, UNCHANGED user, RequestsStay
    PROVE  RequestsOfUsers'
BY Fresh DEF MembersInv, RequestsOfUsers, RequestsStay

-------------------------------------------------------------------------------
(* Without a session.                                                         *)

LEMMA SetupStep ==
    ASSUME MembersInv, NEW u \in Users, Setup(u)
    PROVE  MembersInv'
<1>1. /\ user[u].status = "none" /\ NewUser(u, "admin", "active", None) /\ LogIn(u, 0, FALSE)
      /\ UNCHANGED <<invite, mode, request, failedSaves>> /\ TypeOK
  BY DEF Setup, MembersInv
<1>2. user[u].invite = None /\ sessions[u] = <<>>
  BY <1>1, Unborn
<1>3. "admin" \in Roles /\ "active" \in Given
  BY DEF Roles, Given
<1>4. /\ user' \in [Users -> UserRecord]
      /\ user'[u] = [status |-> "active", role |-> "admin", password |-> 0, invite |-> None]
      /\ \A v \in Users \ {u} : user'[v] = user[v]
  BY <1>1, <1>3, Visitors
<1>5. /\ sessions' \in [Users -> Seq(SessionRecord)]
      /\ sessions'[u] = WithSession(sessions[u], 0, FALSE)
      /\ \A v \in Users \ {u} : sessions'[v] = sessions[v]
  BY <1>1, LoggedIn
<1>6. TypeOK'
  BY <1>1, <1>4, <1>5 DEF TypeOK
<1>7. OnlyAbout(u) /\ StaysBorn(u) /\ RequestsStay
  BY <1>1, <1>2, <1>4, <1>5 DEF OnlyAbout, StaysBorn, RequestsStay
<1>8. HonestFor(u)'
  <2>1. \A i \in 1 .. Len(sessions'[u]) : sessions'[u][i] = [password |-> 0, changed |-> FALSE]
    BY <1>2, <1>5, FirstSession
  <2>2. Exists(u)'
    BY <1>4 DEF Exists, Given
  <2> QED
    BY <1>4, <2>1, <2>2 DEF HonestFor
<1>9. AdminRemains'
  <2>1. IsAdmin(u)'
    BY <1>4 DEF IsAdmin
  <2> QED
    BY <2>1 DEF AdminRemains, ActiveAdmins
<1> QED
  BY <1>1, <1>6, <1>7, <1>8, <1>9, CountsSame, AboutOne

\* A registration that leaves the user active, with or without an invitation:
\* what it shares but for the count of invitations.
LEMMA Registered ==
    ASSUME MembersInv, NEW u \in Users, NEW code \in Codes \union {None},
           user[u].status = "none", ActiveAdmins # {},
           NewUser(u, "user", "active", code), LogIn(u, 0, FALSE)
    PROVE  /\ user' \in [Users -> UserRecord] /\ sessions' \in [Users -> Seq(SessionRecord)]
           /\ user'[u].status = "active" /\ user'[u].invite = code
           /\ OnlyAbout(u) /\ HonestFor(u)' /\ AdminRemains'
<1>1. TypeOK /\ sessions[u] = <<>>
  BY Unborn DEF MembersInv
<1>2. "user" \in Roles /\ "active" \in Given
  BY DEF Roles, Given
<1>3. /\ user' \in [Users -> UserRecord]
      /\ user'[u] = [status |-> "active", role |-> "user", password |-> 0, invite |-> code]
      /\ \A v \in Users \ {u} : user'[v] = user[v]
  BY <1>1, <1>2, Visitors
<1>4. /\ sessions' \in [Users -> Seq(SessionRecord)]
      /\ sessions'[u] = WithSession(sessions[u], 0, FALSE)
      /\ \A v \in Users \ {u} : sessions'[v] = sessions[v]
  BY <1>1, LoggedIn
<1>5. OnlyAbout(u)
  BY <1>3, <1>4 DEF OnlyAbout
<1>6. HonestFor(u)'
  <2>1. \A i \in 1 .. Len(sessions'[u]) : sessions'[u][i] = [password |-> 0, changed |-> FALSE]
    BY <1>1, <1>4, FirstSession
  <2>2. Exists(u)'
    BY <1>3 DEF Exists, Given
  <2> QED
    BY <1>3, <2>1, <2>2 DEF HonestFor
<1>7. AdminRemains'
  BY <1>5, AdminsStay DEF IsAdmin
<1> QED
  BY <1>3, <1>4, <1>5, <1>6, <1>7

LEMMA RegisterStep ==
    ASSUME MembersInv, NEW u \in Users, Register(u)
    PROVE  MembersInv'
<1>1. /\ user[u].status = "none" /\ ActiveAdmins # {} /\ TypeOK
      /\ UNCHANGED <<invite, mode, request, failedSaves>>
  BY DEF Register, MembersInv
<1>2. user[u].invite = None /\ sessions[u] = <<>> /\ CountsStay /\ RequestsStay
  BY <1>1, Unborn, CountsSame DEF RequestsStay
<1>3. CASE NewUser(u, "user", "pending", None) /\ UNCHANGED sessions
  <2>1. "user" \in Roles /\ "pending" \in Given
    BY DEF Roles, Given
  <2>2. /\ user' \in [Users -> UserRecord]
        /\ user'[u] = [status |-> "pending", role |-> "user", password |-> 0, invite |-> None]
        /\ \A v \in Users \ {u} : user'[v] = user[v]
    BY <1>1, <1>3, <2>1, Visitors
  <2>3. TypeOK' /\ OnlyAbout(u) /\ StaysBorn(u) /\ HonestFor(u)'
    BY <1>1, <1>2, <1>3, <2>2, NoSessions DEF TypeOK, OnlyAbout, StaysBorn
  <2>4. AdminRemains'
    BY <1>1, <2>2, <2>3, AdminsStay DEF IsAdmin
  <2> QED
    BY <1>2, <2>3, <2>4, AboutOne
<1>4. CASE NewUser(u, "user", "active", None) /\ LogIn(u, 0, FALSE)
  <2>1. /\ user' \in [Users -> UserRecord] /\ sessions' \in [Users -> Seq(SessionRecord)]
        /\ user'[u].status = "active" /\ user'[u].invite = None
        /\ OnlyAbout(u) /\ HonestFor(u)' /\ AdminRemains'
    BY <1>1, <1>4, Registered
  <2>2. TypeOK' /\ StaysBorn(u)
    BY <1>1, <1>2, <2>1 DEF TypeOK, StaysBorn
  <2> QED
    BY <1>2, <2>1, <2>2, AboutOne
<1> QED
  BY <1>3, <1>4 DEF Register

LEMMA RegisterInvitedStep ==
    ASSUME MembersInv, NEW u \in Users, NEW code \in Codes, RegisterInvited(u, code)
    PROVE  MembersInv'
<1>1. /\ user[u].status = "none" /\ ActiveAdmins # {} /\ Usable(code) /\ Consume(code)
      /\ NewUser(u, "user", "active", code) /\ LogIn(u, 0, FALSE)
      /\ UNCHANGED <<mode, request, failedSaves>> /\ TypeOK
  BY DEF RegisterInvited, MembersInv
<1>2. /\ user' \in [Users -> UserRecord] /\ sessions' \in [Users -> Seq(SessionRecord)]
      /\ user'[u].status = "active" /\ user'[u].invite = code
      /\ OnlyAbout(u) /\ HonestFor(u)' /\ AdminRemains'
  BY <1>1, Registered
<1>3. user[u].invite = None /\ code # None
  BY <1>1, Unborn, MembersAssumption DEF MembersAssumption
<1>4. /\ invite' \in [Codes -> InviteRecord]
      /\ invite'[code].used = invite[code].used + 1
      /\ invite'[code].limit = invite[code].limit /\ invite'[code].state = invite[code].state
      /\ \A c \in Codes \ {code} : invite'[c] = invite[c]
      /\ invite[code].used \in Nat /\ invite[code].limit \in Nat
  <2>1. invite \in [Codes -> InviteRecord]
    BY <1>1 DEF TypeOK
  <2>2. invite[code].used \in Nat /\ invite[code].limit \in UseLimits \union {0}
    BY <2>1 DEF InviteRecord
  <2>3. UseLimits \union {0} \subseteq Nat
    BY MembersAssumption, Zenon, 0 \in Nat DEF MembersAssumption
  <2>4. [invite[code] EXCEPT !.used = invite[code].used + 1] \in InviteRecord
    BY <2>1, <2>2 DEF InviteRecord
  <2>5. /\ [invite[code] EXCEPT !.used = invite[code].used + 1].used = invite[code].used + 1
        /\ [invite[code] EXCEPT !.used = invite[code].used + 1].limit = invite[code].limit
        /\ [invite[code] EXCEPT !.used = invite[code].used + 1].state = invite[code].state
    BY <2>1 DEF InviteRecord
  <2>6. /\ invite'[code] = [invite[code] EXCEPT !.used = invite[code].used + 1]
        /\ \A c \in Codes \ {code} : invite'[c] = invite[c]
    BY <1>1, <2>1 DEF Consume
  <2>7. invite' \in [Codes -> InviteRecord]
    BY <1>1, <2>1, <2>4 DEF Consume
  <2> QED
    BY <2>2, <2>3, <2>5, <2>6, <2>7
<1>5. TypeOK'
  BY <1>1, <1>2, <1>4 DEF TypeOK
<1>6. RequestsOfUsers' /\ SessionsHonest'
  BY <1>1, <1>2, RequestsKept, HonestKept DEF RequestsStay
<1>7. FreshIsFresh'
  <2>1. invite[code].state = "open"
    BY <1>1 DEF Usable
  <2> QED
    BY <1>2, <1>4, <2>1 DEF MembersInv, FreshIsFresh, OnlyAbout
<1>8. ASSUME NEW c \in Codes
      PROVE  /\ invite'[c].used = Cardinality({v \in Users : user'[v].invite = c})
             /\ invite'[c].limit > 0 => invite'[c].used <= invite'[c].limit
  <2> DEFINE came == {v \in Users : user[v].invite = c}
             come == {v \in Users : user'[v].invite = c}
  <2>1. invite[c].used = Cardinality(came) /\ (invite[c].limit > 0 => invite[c].used <= invite[c].limit)
    BY DEF MembersInv, InvitesCount
  <2>2. CASE c = code
    <3>1. come = came \union {u} /\ u \notin came
      BY <1>2, <1>3, <2>2 DEF OnlyAbout
    <3>2. IsFiniteSet(came)
      BY FS_Subset, MembersAssumption DEF MembersAssumption
    <3>3. Cardinality(come) = Cardinality(came) + 1
      BY <3>1, <3>2, FS_AddElement
    <3>4. invite[c].limit > 0 => invite[c].used < invite[c].limit
      BY <1>1, <2>2 DEF Usable
    <3>5. invite'[c].limit > 0 => invite'[c].used <= invite'[c].limit
      BY <1>4, <2>2, <3>4
    <3> QED
      BY <1>4, <2>1, <2>2, <3>3, <3>5
  <2>3. CASE c # code
    <3>1. ASSUME NEW v \in Users
          PROVE  user'[v].invite = c <=> user[v].invite = c
      <4>1. None # c
        BY MembersAssumption DEF MembersAssumption
      <4>2. CASE v = u
        BY <1>2, <1>3, <2>3, <4>1, <4>2
      <4>3. CASE v # u
        BY <1>2, <4>3 DEF OnlyAbout
      <4> QED
        BY <4>2, <4>3
    <3>2. come = came
      BY <3>1
    <3> QED
      BY <1>4, <2>1, <2>3, <3>2
  <2> QED
    BY <2>2, <2>3
<1>9. InvitesCount'
  BY <1>8 DEF InvitesCount
<1> QED
  BY <1>2, <1>5, <1>6, <1>7, <1>9 DEF MembersInv

\* Steps that change the sessions of one user and nothing else.
LEMMA SessionsOnly ==
    ASSUME MembersInv, NEW u \in Users,
           sessions' \in [Users -> Seq(SessionRecord)],
           \A v \in Users \ {u} : sessions'[v] = sessions[v],
           UNCHANGED <<user, invite, mode, request, failedSaves>>, HonestFor(u)'
    PROVE  MembersInv'
<1>1. TypeOK' /\ OnlyAbout(u) /\ StaysBorn(u) /\ RequestsStay
  BY DEF MembersInv, TypeOK, OnlyAbout, StaysBorn, RequestsStay
<1>2. AdminRemains'
  BY <1>1, AdminsStay DEF StaysBorn
<1> QED
  BY <1>1, <1>2, CountsSame, AboutOne

LEMMA FewerHonest ==
    ASSUME MembersInv, NEW u \in Users, UNCHANGED user,
           \A i \in 1 .. Len(sessions'[u]) :
              \E j \in 1 .. Len(sessions[u]) : sessions'[u][i] = sessions[u][j]
    PROVE  HonestFor(u)'
BY StillHonest DEF HonestFor, Exists

LEMMA AuthenticateStep ==
    ASSUME MembersInv, NEW u \in Users, Authenticate(u)
    PROVE  MembersInv'
<1>1. /\ user[u].status = "active" /\ LogIn(u, user[u].password, FALSE)
      /\ UNCHANGED <<user, invite, mode, request, failedSaves>> /\ TypeOK
  BY DEF Authenticate, MembersInv
<1>2. user[u].password \in Nat
  BY <1>1 DEF TypeOK, UserRecord
<1>3. /\ sessions' \in [Users -> Seq(SessionRecord)]
      /\ sessions'[u] = WithSession(sessions[u], user[u].password, FALSE)
      /\ \A v \in Users \ {u} : sessions'[v] = sessions[v]
  BY <1>1, <1>2, LoggedIn
<1>4. HonestFor(u)'
  BY <1>1, <1>2, <1>3, StillHonest, HonestLogin
<1> QED
  BY <1>1, <1>3, <1>4, SessionsOnly

LEMMA LogoutStep ==
    ASSUME MembersInv, NEW u \in Users, NEW n \in 1 .. MaxSessions, Logout(u, n)
    PROVE  MembersInv'
<1>1. /\ n \in 1 .. Len(sessions[u])
      /\ sessions' = [sessions EXCEPT ![u] =
                         SubSeq(sessions[u], 1, n - 1) \o SubSeq(sessions[u], n + 1, Len(sessions[u]))]
      /\ UNCHANGED <<user, invite, mode, request, failedSaves>>
      /\ sessions \in [Users -> Seq(SessionRecord)]
  BY DEF Logout, MembersInv, TypeOK
<1>2. PICK held \in Seq(SessionRecord) : held = sessions[u]
  BY <1>1
<1>r. PICK rest : rest = Without(held, n)
  OBVIOUS
<1>3. /\ rest \in Seq(SessionRecord)
      /\ \A i \in 1 .. Len(rest) : \E j \in 1 .. Len(sessions[u]) : rest[i] = sessions[u][j]
  <2>1. n \in 1 .. Len(held)
    BY <1>1, <1>2
  <2>2. /\ Without(held, n) \in Seq(SessionRecord)
        /\ \A i \in 1 .. Len(Without(held, n)) :
              \E j \in 1 .. Len(held) : Without(held, n)[i] = held[j]
    BY <2>1, WithoutOne
  <2> QED
    BY <1>2, <1>r, <2>2
<1>4. /\ sessions' \in [Users -> Seq(SessionRecord)] /\ sessions'[u] = rest
      /\ \A v \in Users \ {u} : sessions'[v] = sessions[v]
  <2>1. sessions' = [sessions EXCEPT ![u] = rest]
    BY <1>1, <1>2, <1>r DEF Without
  <2> QED
    BY <1>1, <1>3, <2>1
<1>5. UNCHANGED <<user, invite, mode, request, failedSaves>>
  BY <1>1
<1>6. HonestFor(u)'
  <2>1. \A i \in 1 .. Len(sessions'[u]) :
           \E j \in 1 .. Len(sessions[u]) : sessions'[u][i] = sessions[u][j]
    BY <1>3, <1>4, Zenon
  <2> QED
    BY <1>5, <2>1, FewerHonest
<1> QED
  BY <1>4, <1>5, <1>6, SessionsOnly

LEMMA SessionExpiresStep ==
    ASSUME MembersInv, NEW u \in Users, SessionExpires(u)
    PROVE  MembersInv'
<1>1. /\ sessions[u] # <<>> /\ sessions' = [sessions EXCEPT ![u] = Tail(sessions[u])]
      /\ UNCHANGED <<user, invite, mode, request, failedSaves>>
      /\ sessions \in [Users -> Seq(SessionRecord)]
  BY DEF SessionExpires, MembersInv, TypeOK
<1>2. /\ Tail(sessions[u]) \in Seq(SessionRecord)
      /\ \A i \in 1 .. Len(Tail(sessions[u])) :
            \E j \in 1 .. Len(sessions[u]) : Tail(sessions[u])[i] = sessions[u][j]
  BY <1>1, WithoutFirst
<1>3. /\ sessions' \in [Users -> Seq(SessionRecord)] /\ sessions'[u] = Tail(sessions[u])
      /\ \A v \in Users \ {u} : sessions'[v] = sessions[v]
  BY <1>1, <1>2
<1>4. HonestFor(u)'
  BY <1>1, <1>2, <1>3, FewerHonest
<1> QED
  BY <1>1, <1>3, <1>4, SessionsOnly

LEMMA InviteStep ==
    ASSUME MembersInv, TypeOK', UNCHANGED <<user, sessions>>, CountsStay, RequestsStay
    PROVE  MembersInv'
BY RequestsSame, AboutNone

LEMMA InviteExpiresStep ==
    ASSUME MembersInv, NEW c \in Codes, InviteExpires(c)
    PROVE  MembersInv'
<1>1. /\ invite[c].state # "none"
      /\ invite' = [invite EXCEPT ![c] = [invite[c] EXCEPT !.expired = TRUE]]
      /\ UNCHANGED <<user, sessions, mode, request, failedSaves>> /\ TypeOK
  BY DEF InviteExpires, MembersInv
<1>2. TypeOK'
  BY <1>1 DEF TypeOK, InviteRecord
<1>3. CountsStay /\ RequestsStay
  BY <1>1 DEF CountsStay, RequestsStay, MembersInv, InvitesCount, TypeOK, InviteRecord
<1> QED
  BY <1>1, <1>2, <1>3, InviteStep

LEMMA RegistrationFailsStep ==
    ASSUME MembersInv, NEW u \in Users, NEW c \in Codes, RegistrationFails(u, c)
    PROVE  MembersInv'
<1>1. failedSaves' = failedSaves + 1 /\ UNCHANGED <<user, sessions, invite, mode, request>> /\ TypeOK
  BY DEF RegistrationFails, MembersInv
<1>2. TypeOK' /\ RequestsStay
  BY <1>1 DEF TypeOK, RequestsStay
<1> QED
  BY <1>1, <1>2, CountsSame, InviteStep

-------------------------------------------------------------------------------
(* Requests. *)

LEMMA EnterStep ==
    ASSUME MembersInv, NEW r \in Requests, NEW u \in Users, Enter(r, u)
    PROVE  MembersInv'
<1>1. /\ user[u].status = "active"
      /\ request' = [request EXCEPT ![r] = [user |-> u, admin |-> user[u].role = "admin"]]
      /\ UNCHANGED <<user, sessions, invite, mode, failedSaves>>
      /\ TypeOK /\ RequestsOfUsers
  BY DEF Enter, MembersInv
<1>2. PICK admin \in BOOLEAN : admin = (user[u].role = "admin")
  OBVIOUS
<1>3. [user |-> u, admin |-> admin] \in RequestRecord
  BY DEF RequestRecord
<1>4. /\ request' \in [Requests -> RequestRecord] /\ request'[r].user = u
      /\ \A q \in Requests \ {r} : request'[q] = request[q]
  BY <1>1, <1>2, <1>3 DEF TypeOK
<1>5. TypeOK'
  BY <1>1, <1>4 DEF TypeOK
<1>6. u # None
  BY MembersAssumption DEF MembersAssumption
<1>7. RequestsOfUsers'
  BY <1>1, <1>4, <1>6 DEF RequestsOfUsers
<1> QED
  BY <1>1, <1>5, <1>7, CountsSame, AboutNone

\* A request that ends without a change of users or sessions.
LEMMA EndsQuietly ==
    ASSUME MembersInv, NEW r \in Requests, Leave(r),
           invite' \in [Codes -> InviteRecord], CountsStay,
           mode' \in {"open", "review", "closed"},
           UNCHANGED <<user, sessions, failedSaves>>
    PROVE  MembersInv'
<1>1. TypeOK
  BY DEF MembersInv
<1>2. request' \in [Requests -> RequestRecord] /\ RequestsStay
  BY <1>1, Left
<1>3. TypeOK'
  BY <1>1, <1>2 DEF TypeOK
<1> QED
  BY <1>2, <1>3, InviteStep

LEMMA RefusedStep ==
    ASSUME MembersInv, NEW r \in Requests, Refused(r)
    PROVE  MembersInv'
<1>1. Leave(r) /\ UNCHANGED <<user, sessions, invite, mode, failedSaves>> /\ TypeOK
  BY DEF Refused, MembersInv
<1>2. /\ invite' \in [Codes -> InviteRecord]
      /\ mode' \in {"open", "review", "closed"}
  BY <1>1 DEF TypeOK
<1>3. CountsStay
  BY <1>1, CountsSame
<1> QED
  BY <1>1, <1>2, <1>3, EndsQuietly

LEMMA SetRegistrationModeStep ==
    ASSUME MembersInv, NEW r \in Requests, NEW chosen \in {"open", "review", "closed"},
           SetRegistrationMode(r, chosen)
    PROVE  MembersInv'
<1>1. /\ mode' = chosen /\ Leave(r) /\ UNCHANGED <<user, sessions, invite, failedSaves>> /\ TypeOK
  BY DEF SetRegistrationMode, MembersInv
<1>2. /\ invite' \in [Codes -> InviteRecord]
      /\ mode' \in {"open", "review", "closed"}
  BY <1>1 DEF TypeOK
<1>3. CountsStay
  BY <1>1, CountsSame
<1> QED
  BY <1>1, <1>2, <1>3, EndsQuietly

LEMMA SetInviteStep ==
    ASSUME MembersInv, NEW r \in Requests, NEW c \in Codes,
           NEW state \in {"open", "disabled", "gone"}, SetInvite(r, c, state)
    PROVE  MembersInv'
<1>1. /\ invite[c].state # "none"
      /\ invite' = [invite EXCEPT ![c] = [invite[c] EXCEPT !.state = state]]
      /\ Leave(r) /\ UNCHANGED <<user, sessions, mode, failedSaves>> /\ TypeOK
  BY DEF SetInvite, MembersInv
<1>2. invite' \in [Codes -> InviteRecord]
  BY <1>1 DEF TypeOK, InviteRecord
<1>3. CountsStay
  BY <1>1 DEF CountsStay, MembersInv, InvitesCount, TypeOK, InviteRecord
<1> QED
  BY <1>1, <1>2, <1>3, EndsQuietly DEF TypeOK

LEMMA CreateInviteCodeStep ==
    ASSUME MembersInv, NEW r \in Requests, NEW c \in Codes, NEW limit \in UseLimits,
           CreateInviteCode(r, c, limit)
    PROVE  MembersInv'
<1>1. /\ IsAdmin(request[r].user) /\ request[r].admin /\ invite[c].state = "none"
      /\ invite' = [invite EXCEPT ![c] =
                       [state |-> "open", expired |-> FALSE, used |-> 0, limit |-> limit,
                        creator |-> request[r].user]]
      /\ Leave(r) /\ UNCHANGED <<user, sessions, mode, failedSaves>> /\ TypeOK
  BY DEF CreateInviteCode, MembersInv
<1>2. request[r].user \in Users \union {None}
  BY <1>1 DEF TypeOK, RequestRecord
<1>3. [state |-> "open", expired |-> FALSE, used |-> 0, limit |-> limit,
       creator |-> request[r].user] \in InviteRecord
  BY <1>2 DEF InviteRecord
<1>4. /\ invite' \in [Codes -> InviteRecord]
      /\ invite'[c].used = 0 /\ invite'[c].limit = limit /\ invite'[c].state = "open"
      /\ \A d \in Codes \ {c} : invite'[d] = invite[d]
  BY <1>1, <1>3 DEF TypeOK
<1>5. invite[c].used = 0
  BY <1>1 DEF MembersInv, FreshIsFresh
<1>6. CountsStay
  <2>1. UseLimits \subseteq Nat
    BY MembersAssumption DEF MembersAssumption
  <2>2. ASSUME NEW d \in Codes
        PROVE  /\ invite'[d].used = invite[d].used
               /\ invite'[d].limit > 0 => invite'[d].used <= invite'[d].limit
               /\ invite'[d].state = "none" => invite[d].state = "none"
    <3>1. CASE d = c
      BY <1>4, <1>5, <2>1, <3>1
    <3>2. CASE d # c
      BY <1>4, <3>2 DEF MembersInv, InvitesCount
    <3> QED
      BY <3>1, <3>2
  <2> QED
    BY <2>2 DEF CountsStay
<1> QED
  BY <1>1, <1>4, <1>6, EndsQuietly DEF TypeOK

\* A request that ends having changed one user or its sessions.
LEMMA EndsAboutOne ==
    ASSUME MembersInv, NEW r \in Requests, NEW u \in Users, Leave(r),
           user' \in [Users -> UserRecord], sessions' \in [Users -> Seq(SessionRecord)],
           UNCHANGED <<invite, mode, failedSaves>>,
           OnlyAbout(u), StaysBorn(u), HonestFor(u)', AdminRemains'
    PROVE  MembersInv'
<1>1. TypeOK
  BY DEF MembersInv
<1>2. request' \in [Requests -> RequestRecord] /\ RequestsStay
  BY <1>1, Left
<1>3. TypeOK'
  BY <1>1, <1>2 DEF TypeOK
<1> QED
  BY <1>2, <1>3, CountsSame, AboutOne

LEMMA NonActive ==
    ASSUME NEW status \in Given
    PROVE  /\ status # "none" /\ status \in Given \union {"none", "gone"}
           /\ "gone" # "none" /\ "gone" # "active" /\ "gone" \in Given \union {"none", "gone"}
BY DEF Given

\* What the administrator's operations on states and roles share: an existing
\* user gets another role and status, and is logged out unless active; the site
\* keeps an administrator because u is not the last one or stays one.
LEMMA Managed ==
    ASSUME MembersInv, NEW r \in Requests, NEW u \in Users, Leave(r),
           NEW record \in UserRecord, Change(u, record), Exists(u),
           record.invite = user[u].invite, record.status # "none",
           record.password = user[u].password,
           \/ LogOutAll(u)
           \/ UNCHANGED sessions /\ record.status \in Given
              /\ (record.status # "active" => record.status = user[u].status),
           (record.role # "admin" \/ record.status # "active") => ~LastAdmin(u),
           UNCHANGED <<invite, mode, failedSaves>>
    PROVE  MembersInv'
<1>1. TypeOK
  BY DEF MembersInv
<1>2. /\ user' \in [Users -> UserRecord] /\ user'[u] = record
      /\ \A v \in Users \ {u} : user'[v] = user[v]
  BY <1>1, Changed
<1>3. /\ sessions' \in [Users -> Seq(SessionRecord)]
      /\ \A v \in Users \ {u} : sessions'[v] = sessions[v]
      /\ HonestFor(u)'
  <2>1. CASE LogOutAll(u)
    BY <1>1, <2>1, LoggedOut, NoSessions
  <2>2. CASE /\ UNCHANGED sessions /\ record.status \in Given
             /\ (record.status # "active" => record.status = user[u].status)
    <3>1. HonestFor(u)
      BY StillHonest
    <3>2. HonestFor(u)'
      BY <1>2, <2>2, <3>1 DEF HonestFor, Exists
    <3> QED
      BY <1>1, <2>2, <3>2 DEF TypeOK
  <2> QED
    BY <2>1, <2>2
<1>4. OnlyAbout(u) /\ StaysBorn(u)
  BY <1>2, <1>3 DEF OnlyAbout, StaysBorn
<1>5. user[u].status # "none"
  BY DEF Exists, Given
<1>6. AdminRemains'
  <2>1. CASE ~LastAdmin(u)
    BY <1>4, <1>5, <2>1, AdminsKept
  <2>2. CASE record.role = "admin" /\ record.status = "active"
    <3>1. IsAdmin(u)'
      BY <1>2, <2>2 DEF IsAdmin
    <3> QED
      BY <3>1 DEF AdminRemains, ActiveAdmins
  <2> QED
    BY <2>1, <2>2
<1> QED
  BY <1>2, <1>3, <1>4, <1>6, EndsAboutOne

LEMMA SetStatusStep ==
    ASSUME MembersInv, NEW r \in Requests, NEW u \in Users, NEW status \in Given,
           SetStatus(r, u, status)
    PROVE  MembersInv'
<1>1. /\ Exists(u) /\ (status # "active" => ~LastAdmin(u))
      /\ Change(u, [user[u] EXCEPT !.status = status])
      /\ (status # "active" => LogOutAll(u)) /\ (status = "active" => UNCHANGED sessions)
      /\ Leave(r) /\ UNCHANGED <<invite, mode, failedSaves>>
      /\ user[u] \in UserRecord
  BY DEF SetStatus, Manages, MembersInv, TypeOK
<1>2. PICK record : record = [user[u] EXCEPT !.status = status]
  OBVIOUS
<1>3. /\ record \in UserRecord /\ record.status = status /\ record.role = user[u].role
      /\ record.invite = user[u].invite /\ record.password = user[u].password
  BY <1>1, <1>2, NonActive DEF UserRecord
<1>4. record.role # "admin" => ~LastAdmin(u)
  BY <1>3 DEF LastAdmin, IsAdmin
<1>5. status # "none" /\ status \in Given
  BY NonActive
<1>6. ~LastAdmin(u) \/ (record.role = "admin" /\ record.status = "active")
  BY <1>1, <1>3, <1>4
<1>7. LogOutAll(u) \/ (UNCHANGED sessions /\ status = "active")
  BY <1>1
<1> QED
  BY <1>1, <1>2, <1>3, <1>5, <1>6, <1>7, Managed

LEMMA SetRoleStep ==
    ASSUME MembersInv, NEW r \in Requests, NEW u \in Users, NEW role \in Roles,
           SetRole(r, u, role)
    PROVE  MembersInv'
<1>1. /\ Exists(u) /\ (role # "admin" => ~LastAdmin(u))
      /\ Change(u, [user[u] EXCEPT !.role = role]) /\ UNCHANGED sessions
      /\ Leave(r) /\ UNCHANGED <<invite, mode, failedSaves>>
      /\ user[u] \in UserRecord
  BY DEF SetRole, Manages, MembersInv, TypeOK
<1>2. PICK record : record = [user[u] EXCEPT !.role = role]
  OBVIOUS
<1>3. /\ record \in UserRecord /\ record.status = user[u].status /\ record.role = role
      /\ record.invite = user[u].invite /\ record.password = user[u].password
  BY <1>1, <1>2 DEF UserRecord
<1>4. record.status \in Given /\ record.status # "none"
  BY <1>1, <1>3, NonActive DEF Exists
<1>5. record.status # "active" => ~LastAdmin(u)
  BY <1>3 DEF LastAdmin, IsAdmin
<1>6. (record.role # "admin" \/ record.status # "active") => ~LastAdmin(u)
  BY <1>1, <1>3, <1>5
<1> QED
  BY <1>1, <1>2, <1>3, <1>4, <1>6, Managed

LEMMA SetAccessStep ==
    ASSUME MembersInv, NEW r \in Requests, NEW u \in Users, NEW role \in Roles,
           NEW status \in Given, SetAccess(r, u, role, status)
    PROVE  MembersInv'
<1>1. /\ Exists(u) /\ ((role # "admin" \/ status # "active") => ~LastAdmin(u))
      /\ Change(u, [user[u] EXCEPT !.role = role, !.status = status])
      /\ (status # "active" => LogOutAll(u)) /\ (status = "active" => UNCHANGED sessions)
      /\ Leave(r) /\ UNCHANGED <<invite, mode, failedSaves>>
      /\ user[u] \in UserRecord
  BY DEF SetAccess, Manages, MembersInv, TypeOK
<1>2. PICK record : record = [user[u] EXCEPT !.role = role, !.status = status]
  OBVIOUS
<1>3. /\ record \in UserRecord /\ record.status = status /\ record.role = role
      /\ record.invite = user[u].invite /\ record.password = user[u].password
  BY <1>1, <1>2, NonActive DEF UserRecord
<1>4. status # "none" /\ status \in Given
  BY NonActive
<1>5. LogOutAll(u) \/ (UNCHANGED sessions /\ status = "active")
  BY <1>1
<1> QED
  BY <1>1, <1>2, <1>3, <1>4, <1>5, Managed

LEMMA DeleteUserStep ==
    ASSUME MembersInv, NEW r \in Requests, NEW u \in Users, DeleteUser(r, u)
    PROVE  MembersInv'
<1>1. /\ Exists(u) /\ ~LastAdmin(u)
      /\ Change(u, [user[u] EXCEPT !.status = "gone"]) /\ LogOutAll(u)
      /\ Leave(r) /\ UNCHANGED <<invite, mode, failedSaves>>
      /\ user[u] \in UserRecord
  BY DEF DeleteUser, Manages, MembersInv, TypeOK
<1>2. PICK record : record = [user[u] EXCEPT !.status = "gone"]
  OBVIOUS
<1>3. /\ record \in UserRecord /\ record.status = "gone" /\ record.role = user[u].role
      /\ record.invite = user[u].invite /\ record.password = user[u].password
  BY <1>1, <1>2 DEF UserRecord
<1>4. record.status # "none"
  BY <1>3
<1> QED
  BY <1>1, <1>2, <1>3, <1>4, Managed

LEMMA Renewed ==
    ASSUME NEW old \in UserRecord, NEW password \in Nat
    PROVE  LET record == [old EXCEPT !.password = password]
           IN  /\ record \in UserRecord /\ record.status = old.status /\ record.role = old.role
               /\ record.invite = old.invite /\ record.password = password
BY DEF UserRecord

\* A new password, which costs the sessions opened with the old one.
LEMMA NewPassword ==
    ASSUME MembersInv, NEW r \in Requests, NEW u \in Users, Leave(r), Exists(u),
           Change(u, [user[u] EXCEPT !.password = user[u].password + 1]),
           sessions' \in [Users -> Seq(SessionRecord)],
           \A v \in Users \ {u} : sessions'[v] = sessions[v],
           \A i \in 1 .. Len(sessions'[u]) :
              sessions'[u][i] = [password |-> user[u].password + 1, changed |-> TRUE],
           UNCHANGED <<invite, mode, failedSaves>>
    PROVE  MembersInv'
<1>1. TypeOK /\ user[u] \in UserRecord
  BY DEF MembersInv, TypeOK
<1>2. PICK record : record = [user[u] EXCEPT !.password = user[u].password + 1]
  OBVIOUS
<1>3. /\ record \in UserRecord /\ record.status = user[u].status /\ record.role = user[u].role
      /\ record.invite = user[u].invite /\ record.password = user[u].password + 1
  <2>1. PICK old \in UserRecord : old = user[u]
    BY <1>1
  <2>2. PICK password \in Nat : password = user[u].password + 1
    BY <1>1 DEF UserRecord
  <2>3. record = [old EXCEPT !.password = password]
    BY <1>2, <2>1, <2>2
  <2> QED
    BY <2>1, <2>2, <2>3, Renewed
<1>4. /\ user' \in [Users -> UserRecord] /\ user'[u] = record
      /\ \A v \in Users \ {u} : user'[v] = user[v]
  BY <1>1, <1>2, <1>3, Changed
<1>5. OnlyAbout(u) /\ StaysBorn(u)
  BY <1>3, <1>4 DEF OnlyAbout, StaysBorn
<1>6. HonestFor(u)'
  <2>1. Exists(u)'
    BY <1>3, <1>4 DEF Exists
  <2>2. ASSUME NEW i \in 1 .. Len(sessions'[u])
        PROVE  sessions'[u][i].password = user'[u].password /\ sessions'[u][i].changed
    BY <1>3, <1>4, <2>2
  <2> QED
    BY <2>1, <2>2 DEF HonestFor
<1>7. AdminRemains'
  <2>1. user[u].status # "none"
    BY DEF Exists, Given
  <2>2. ActiveAdmins # {}
    BY <2>1 DEF MembersInv, AdminRemains
  <2>3. IsAdmin(u) => IsAdmin(u)'
    BY <1>3, <1>4 DEF IsAdmin
  <2> QED
    BY <1>5, <2>2, <2>3, AdminsStay DEF StaysBorn
<1> QED
  BY <1>4, <1>5, <1>6, <1>7, EndsAboutOne

LEMMA ResetPasswordStep ==
    ASSUME MembersInv, NEW r \in Requests, NEW u \in Users, ResetPassword(r, u)
    PROVE  MembersInv'
<1>1. /\ Exists(u) /\ LogOutAll(u) /\ Leave(r) /\ UNCHANGED <<invite, mode, failedSaves>>
      /\ Change(u, [user[u] EXCEPT !.password = user[u].password + 1]) /\ TypeOK
  BY DEF ResetPassword, MembersInv
<1>2. /\ sessions' \in [Users -> Seq(SessionRecord)] /\ sessions'[u] = <<>>
      /\ \A v \in Users \ {u} : sessions'[v] = sessions[v]
  BY <1>1, LoggedOut
<1>3. Len(sessions'[u]) = 0 /\ 1 .. 0 = {}
  BY <1>2
<1> QED
  BY <1>1, <1>2, <1>3, NewPassword

LEMMA ChangePasswordStep ==
    ASSUME MembersInv, NEW r \in Requests, ChangePassword(r)
    PROVE  MembersInv'
<1>1. PICK u : u = request[r].user
  OBVIOUS
<1>2. /\ u # None /\ Exists(u) /\ Leave(r) /\ UNCHANGED <<invite, mode, failedSaves>>
      /\ Change(u, [user[u] EXCEPT !.password = user[u].password + 1])
      /\ sessions' = [sessions EXCEPT ![u] = WithSession(<<>>, user[u].password + 1, TRUE)]
      /\ TypeOK
  BY <1>1 DEF ChangePassword, MembersInv
<1>3. u \in Users
  BY <1>1, <1>2 DEF TypeOK, RequestRecord
<1>4. PICK password \in Nat : password = user[u].password + 1
  BY <1>2, <1>3 DEF TypeOK, UserRecord
<1>5. PICK opened : opened = WithSession(<<>>, password, TRUE)
  OBVIOUS
<1>6. opened \in Seq(SessionRecord)
  <2>0. <<>> \in Seq(SessionRecord)
    OBVIOUS
  <2>1. PICK none \in Seq(SessionRecord) : none = <<>>
    BY <2>0
  <2>2. WithSession(none, password, TRUE) \in Seq(SessionRecord)
    BY NewSession
  <2> QED
    BY <1>5, <2>1, <2>2
<1>7. \A i \in 1 .. Len(opened) : opened[i] = [password |-> password, changed |-> TRUE]
  BY <1>5, FirstSession
<1>8. /\ sessions' \in [Users -> Seq(SessionRecord)] /\ sessions'[u] = opened
      /\ \A v \in Users \ {u} : sessions'[v] = sessions[v]
  BY <1>2, <1>3, <1>4, <1>5, <1>6 DEF TypeOK
<1> QED
  BY <1>2, <1>3, <1>4, <1>7, <1>8, NewPassword

LEMMA CreateUserStep ==
    ASSUME MembersInv, NEW r \in Requests, NEW u \in Users, NEW role \in Roles,
           CreateUser(r, u, role)
    PROVE  MembersInv'
<1>1. /\ request[r].admin /\ user[u].status = "none" /\ NewUser(u, role, "active", None)
      /\ Leave(r) /\ UNCHANGED <<sessions, invite, mode, failedSaves>> /\ TypeOK
  BY DEF CreateUser, MembersInv
<1>2. user[u].invite = None /\ sessions[u] = <<>>
  BY <1>1, Unborn
<1>3. "active" \in Given
  BY DEF Given
<1>4. /\ user' \in [Users -> UserRecord]
      /\ user'[u] = [status |-> "active", role |-> role, password |-> 0, invite |-> None]
      /\ \A v \in Users \ {u} : user'[v] = user[v]
  BY <1>1, <1>3, Visitors
<1>5. OnlyAbout(u) /\ StaysBorn(u) /\ HonestFor(u)'
  BY <1>1, <1>2, <1>4, NoSessions DEF OnlyAbout, StaysBorn
<1>6. AdminRemains'
  <2>1. PICK a : a = request[r].user
    OBVIOUS
  <2>2. a \in Users /\ user[a].status # "none"
    BY <1>1, <2>1 DEF MembersInv, RequestsOfUsers, TypeOK, RequestRecord
  <2>3. ActiveAdmins # {}
    BY <2>2 DEF MembersInv, AdminRemains
  <2>4. ~IsAdmin(u)
    BY <1>1 DEF IsAdmin
  <2> QED
    BY <1>1, <1>5, <2>3, <2>4, AdminsStay
<1> QED
  BY <1>1, <1>4, <1>5, <1>6, EndsAboutOne DEF TypeOK

-------------------------------------------------------------------------------
(* The invariant is inductive. *)

LEMMA Beginning == Init => MembersInv
<1> SUFFICES ASSUME Init PROVE MembersInv
  OBVIOUS
<1>1. /\ \A u \in Users : user[u] = NoUser /\ sessions[u] = <<>>
      /\ \A c \in Codes : invite[c] = NoInvite
      /\ \A r \in Requests : request[r] = NoRequest
  BY DEF Init
<1>2. TypeOK
  <2>1. <<>> \in Seq(SessionRecord)
    OBVIOUS
  <2> QED
    BY <2>1, Fresh DEF Init, TypeOK
<1>3. RequestsOfUsers /\ FreshIsFresh
  BY <1>1, Fresh DEF RequestsOfUsers, FreshIsFresh
<1>4. AdminRemains
  BY <1>1, Fresh DEF AdminRemains
<1>5. SessionsHonest
  <2>1. \A u \in Users : Len(sessions[u]) = 0
    BY <1>1
  <2>2. 1 .. 0 = {}
    OBVIOUS
  <2> QED
    BY <2>1, <2>2 DEF SessionsHonest
<1>6. InvitesCount
  <2>1. ASSUME NEW c \in Codes PROVE {u \in Users : user[u].invite = c} = {}
    BY <1>1, Fresh, MembersAssumption DEF MembersAssumption
  <2>2. Cardinality({}) = 0
    BY FS_EmptySet
  <2>3. ASSUME NEW c \in Codes
        PROVE  /\ invite[c].used = Cardinality({u \in Users : user[u].invite = c})
               /\ invite[c].limit > 0 => invite[c].used <= invite[c].limit
    <3>1. invite[c].used = 0 /\ invite[c].limit = 0
      BY <1>1, Fresh
    <3>2. Cardinality({u \in Users : user[u].invite = c}) = 0
      BY <2>1, <2>2
    <3> QED
      BY <3>1, <3>2
  <2> QED
    BY <2>3 DEF InvitesCount
<1> QED
  BY <1>2, <1>3, <1>4, <1>5, <1>6 DEF MembersInv

LEMMA AdministerStep ==
    ASSUME MembersInv, NEW r \in Requests, Administer(r)
    PROVE  MembersInv'
<1>1. ASSUME NEW u \in Users,
             \/ \E status \in Given : SetStatus(r, u, status)
             \/ \E role \in Roles : SetRole(r, u, role)
             \/ \E role \in Roles, status \in Given : SetAccess(r, u, role, status)
             \/ ResetPassword(r, u)
             \/ DeleteUser(r, u)
             \/ \E role \in Roles : CreateUser(r, u, role)
      PROVE  MembersInv'
  BY <1>1, SetStatusStep, SetRoleStep, SetAccessStep, ResetPasswordStep, DeleteUserStep,
     CreateUserStep
<1>2. ASSUME NEW c \in Codes,
             \/ \E limit \in UseLimits : CreateInviteCode(r, c, limit)
             \/ \E state \in {"open", "disabled", "gone"} : SetInvite(r, c, state)
      PROVE  MembersInv'
  BY <1>2, CreateInviteCodeStep, SetInviteStep
<1>3. ASSUME \E chosen \in {"open", "review", "closed"} : SetRegistrationMode(r, chosen)
      PROVE  MembersInv'
  BY <1>3, SetRegistrationModeStep
<1> QED
  BY <1>1, <1>2, <1>3 DEF Administer

LEMMA VisitStep ==
    ASSUME MembersInv, Visit
    PROVE  MembersInv'
<1>1. ASSUME NEW u \in Users,
             \/ Setup(u) \/ Register(u) \/ Authenticate(u) \/ SessionExpires(u)
             \/ \E c \in Codes : RegisterInvited(u, c) \/ RegistrationFails(u, c)
             \/ \E i \in 1 .. MaxSessions : Logout(u, i)
      PROVE  MembersInv'
  BY <1>1, SetupStep, RegisterStep, AuthenticateStep, SessionExpiresStep,
     RegisterInvitedStep, RegistrationFailsStep, LogoutStep
<1> QED
  BY <1>1, InviteExpiresStep DEF Visit

LEMMA Step ==
    ASSUME MembersInv, [Next]_vars
    PROVE  MembersInv'
<1>1. CASE UNCHANGED vars
  <2>1. UNCHANGED <<user, sessions, invite, mode, request, failedSaves>>
    BY <1>1 DEF vars
  <2>2. TypeOK' /\ RequestsStay
    BY <2>1 DEF MembersInv, TypeOK, RequestsStay
  <2> QED
    BY <2>1, <2>2, CountsSame, InviteStep
<1>2. CASE Visit
  BY <1>2, VisitStep
<1>3. ASSUME NEW r \in Requests,
             (\E u \in Users : Enter(r, u)) \/ Refused(r) \/ Administer(r) \/ ChangePassword(r)
      PROVE  MembersInv'
  BY <1>3, EnterStep, RefusedStep, AdministerStep, ChangePasswordStep
<1> QED
  BY <1>1, <1>2, <1>3 DEF Next

\* Every behaviour of the site's people keeps the invariant.
THEOREM MembersInductive == Spec => []MembersInv
BY Beginning, Step, PTL DEF Spec

\* What the store and the requests hold stays what they may hold.
THEOREM MembersTyped == Spec => []TypeOK
<1>1. MembersInv => TypeOK
  BY DEF MembersInv
<1> QED
  BY <1>1, MembersInductive, PTL

\* A site that was set up is never left without an active administrator.
THEOREM AdminStays == Spec => []AdminRemains
<1>1. MembersInv => AdminRemains
  BY DEF MembersInv
<1> QED
  BY <1>1, MembersInductive, PTL

\* No session outlives its password, and none is opened by somebody who may not
\* come in but for a change of password under way.
THEOREM SessionsStayHonest == Spec => []SessionsHonest
<1>1. MembersInv => SessionsHonest
  BY DEF MembersInv
<1> QED
  BY <1>1, MembersInductive, PTL

\* An invitation's count is the number of users it brought, within its limit.
THEOREM InvitesStayCounted == Spec => []InvitesCount
<1>1. MembersInv => InvitesCount
  BY DEF MembersInv
<1> QED
  BY <1>1, MembersInductive, PTL

===============================================================================
