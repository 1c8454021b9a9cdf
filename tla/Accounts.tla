------------------------------ MODULE Accounts ------------------------------
(***************************************************************************)
(* The accounts users bind (internal/store/accounts.go, archive.go): adding *)
(* by cookie, binding after a login, editing, importing and deleting, for  *)
(* several users at once. Every operation is one step, under Store.mu.     *)
(*                                                                         *)
(* Logins extends this module with the dialogs that find accounts to bind. *)
(*                                                                         *)
(* An account is what tells it from others: whose it is, the uid at the    *)
(* provider, once known, and its name. Credentials, task settings, groups  *)
(* and the switch that disables it are in TaskRunner and AutomaticRuns. An *)
(* operation whose save fails changes nothing.                             *)
(***************************************************************************)
EXTENDS Naturals, FiniteSets

CONSTANTS
    Users,
    Ids,        \* identities of accounts, none of them used twice
    Uids,       \* accounts at the provider
    Names,
    None        \* nobody, no uid, no account, no dialog

ASSUME AccountsAssumption == None \notin Users \union Ids \union Uids \union Names

VARIABLES
    member,     \* user -> its state
    account,
    exchanging  \* accounts with a running plan

accountVars == <<member, account, exchanging>>

AccountRecord ==
    [state : {"none", "bound", "gone"}, owner : Users \union {None},
     uid : Uids \union {None}, name : Names \union {None}]

NoAccount == [state |-> "none", owner |-> None, uid |-> None, name |-> None]

AccountsInit ==
    /\ member = [u \in Users |-> "active"]
    /\ account = [i \in Ids |-> NoAccount]
    /\ exchanging = {}

-----------------------------------------------------------------------------
Bound == {i \in Ids : account[i].state = "bound"}

Owned(u) == {i \in Bound : account[i].owner = u}

\* What addAccountLocked takes for the account it is given: the same identity,
\* the same uid, or the owner's name for it. `given` is the record a caller
\* brings, `id` the identity it knows or None.
Matches(given, id) ==
    {i \in Bound : \/ i = id
                   \/ given.uid # None /\ account[i].uid = given.uid
                   \/ account[i].owner = given.owner /\ account[i].name = given.name}

\* Mutant: another user's account is taken over.
MayJoinAnyone(given, i) ==
    /\ given.uid # None /\ account[i].uid # None => account[i].uid = given.uid
    /\ i \notin exchanging

MayJoin(given, i) ==
    /\ account[i].owner = given.owner
    /\ given.uid # None /\ account[i].uid # None => account[i].uid = given.uid
    /\ i \notin exchanging

\* It updates the one account it matches, or makes a new one.
CanAdd(given, id) ==
    LET same == Matches(given, id)
    IN  /\ Cardinality(same) <= 1
        /\ \A i \in same : MayJoin(given, i)
        /\ same = {} => \E i \in Ids : account[i].state = "none"

AddLocked(given, id) ==
    LET same == Matches(given, id)
        target == IF same # {} THEN CHOOSE i \in same : TRUE
                  ELSE CHOOSE i \in Ids : account[i].state = "none"
        old == account[target].uid
    IN  account' = [account EXCEPT ![target] =
                       [given EXCEPT !.uid = IF given.uid = None THEN old ELSE given.uid]]

Given(u, uid, name) == [state |-> "bound", owner |-> u, uid |-> uid, name |-> name]

-----------------------------------------------------------------------------
\* AddAccountForUser: a cookie that may not tell the uid.
AddAccount(u, uid, name) ==
    /\ member[u] = "active"
    /\ CanAdd(Given(u, uid, name), None)
    /\ AddLocked(Given(u, uid, name), None)
    /\ UNCHANGED <<member, exchanging>>

\* BindAccountForUser, for an account of the user or, with None, for a new one.
\* The account keeps the name it has.
BoundAs(target, name) == IF target = None THEN name ELSE account[target].name

CanBind(u, target, uid, name) ==
    /\ member[u] = "active"
    /\ target # None => target \in Owned(u) /\ account[target].uid \in {None, uid}
    /\ CanAdd(Given(u, uid, BoundAs(target, name)), target)

Bind(u, target, uid, name) == AddLocked(Given(u, uid, BoundAs(target, name)), target)

\* Mutant: uids are compared with the user's own accounts only.
TakenByOwner(i, given) ==
    \E j \in Bound \ {i} : /\ account[j].owner = given.owner
                           /\ \/ account[j].name = given.name
                              \/ given.uid # None /\ account[j].uid = given.uid

Taken(i, given) ==
    \E j \in Bound \ {i} : \/ account[j].owner = given.owner /\ account[j].name = given.name
                           \/ given.uid # None /\ account[j].uid = given.uid

\* UpdateAccount: a new name, or a cookie that tells the uid.
UpdateAccount(i, uid, name) ==
    LET given == Given(account[i].owner, uid, name)
    IN  /\ i \in Bound
        /\ account[i].uid # None => uid = account[i].uid
        /\ ~Taken(i, given)
        /\ account' = [account EXCEPT ![i] = given]
        /\ UNCHANGED <<member, exchanging>>

DeleteAccount(i) ==
    /\ i \in Bound /\ i \notin exchanging
    /\ account' = [account EXCEPT ![i] = [NoAccount EXCEPT !.state = "gone"]]
    /\ UNCHANGED <<member, exchanging>>

\* DeleteUser takes the user's accounts along.
DeleteUser(u) ==
    /\ member[u] # "gone"
    /\ Owned(u) \intersect exchanging = {}
    /\ member' = [member EXCEPT ![u] = "gone"]
    /\ account' = [i \in Ids |-> IF i \in Owned(u) THEN [NoAccount EXCEPT !.state = "gone"]
                                 ELSE account[i]]
    /\ UNCHANGED exchanging

\* UpdateUserStatus and UpdateUserAccess.
SetMember(u, state) ==
    /\ member[u] # "gone"
    /\ member' = [member EXCEPT ![u] = state]
    /\ UNCHANGED <<account, exchanging>>

\* The exchange engine runs a plan of the account.
ExchangeStarts(i) ==
    /\ i \in Bound \ exchanging
    /\ member[account[i].owner] = "active"
    /\ exchanging' = exchanging \union {i}
    /\ UNCHANGED <<member, account>>

ExchangeEnds(i) ==
    /\ i \in exchanging
    /\ exchanging' = exchanging \ {i}
    /\ UNCHANGED <<member, account>>

AccountsNext ==
    \/ \E u \in Users, uid \in Uids \union {None}, name \in Names : AddAccount(u, uid, name)
    \/ \E i \in Ids : \/ \E uid \in Uids \union {None}, name \in Names : UpdateAccount(i, uid, name)
                      \/ DeleteAccount(i) \/ ExchangeStarts(i) \/ ExchangeEnds(i)

-----------------------------------------------------------------------------
(* Properties. *)

AccountsTypeOK ==
    /\ member \in [Users -> {"active", "disabled", "gone"}]
    /\ account \in [Ids -> AccountRecord]
    /\ exchanging \subseteq Ids

\* Whatever way accounts come in, by cookie, login, edit or file, and whoever
\* does it at the same time: an account at the provider is bound once on the
\* whole site, no user has two accounts of one name, every account has an owner
\* that exists, and one that a plan runs for is not taken away.
AccountsSound ==
    /\ \A i, j \in Bound : i # j =>
          /\ account[i].uid # None => account[i].uid # account[j].uid
          /\ account[i].owner = account[j].owner => account[i].name # account[j].name
    /\ \A i \in Bound : account[i].owner \in Users /\ member[account[i].owner] # "gone"
    /\ exchanging \subseteq Bound

\* An account never changes hands: whatever is merged into it, it keeps its
\* owner, and its uid once that is known.
NeverChangesHands ==
    [][\A i \in Bound : account'[i].state = "bound" =>
          /\ account'[i].owner = account[i].owner
          /\ account[i].uid # None => account'[i].uid = account[i].uid]_account
=============================================================================
