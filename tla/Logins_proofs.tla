---------------------------- MODULE Logins_proofs ----------------------------
(***************************************************************************)
(* Proofs about Logins and the Accounts it extends, for every number of    *)
(* users, accounts and dialogs and every limit.                            *)
(*                                                                         *)
(* AccountsInv and DialogInv are the inductive invariants; they do not need *)
(* each other, except that a dialog which binds has a user.                *)
(***************************************************************************)
EXTENDS Logins, FiniteSetTheorems, TLAPS

-----------------------------------------------------------------------------
(* What the accounts keep. *)

\* A place no account was bound to yet holds no uid.
Blank == \A i \in Ids : account[i].state = "none" => account[i].uid = None

AccountsInv == AccountsTypeOK /\ AccountsSound /\ Blank /\ IsFiniteSet(Bound)

\* NeverChangesHands, of one step.
HandsKept ==
    \A i \in Bound : account'[i].state = "bound" =>
        /\ account'[i].owner = account[i].owner
        /\ account[i].uid # None => account'[i].uid = account[i].uid

LEMMA InitAccounts == AccountsInit => AccountsInv
<1> SUFFICES ASSUME AccountsInit PROVE AccountsInv
  OBVIOUS
<1>1. AccountsTypeOK
  BY DEF AccountsInit, AccountsTypeOK, AccountRecord, NoAccount
<1>2. Bound = {}
  BY DEF AccountsInit, Bound, NoAccount
<1>3. Blank
  BY DEF AccountsInit, Blank, NoAccount
<1> QED
  BY <1>1, <1>2, <1>3, FS_EmptySet DEF AccountsInv, AccountsSound, AccountsInit

\* What addAccountLocked does: it renews the only account it matches, which it may
\* join, or fills an empty place.
LEMMA AddEffect ==
    ASSUME AccountsInv, NEW given \in AccountRecord, NEW id, CanAdd(given, id), AddLocked(given, id)
    PROVE  \E target \in Ids, rec \in AccountRecord :
             /\ account' = [account EXCEPT ![target] = rec]
             /\ rec.state = given.state /\ rec.owner = given.owner /\ rec.name = given.name
             /\ rec.uid = IF given.uid = None THEN account[target].uid ELSE given.uid
             /\ \A i \in Bound \ {target} : i \notin Matches(given, id)
             /\ \/ target \in Bound /\ MayJoin(given, target)
                \/ account[target].state = "none"
<1> DEFINE same == Matches(given, id)
           target == IF same # {} THEN CHOOSE i \in same : TRUE
                     ELSE CHOOSE i \in Ids : account[i].state = "none"
<1>1. same \subseteq Bound /\ Bound \subseteq Ids /\ IsFiniteSet(same) /\ Cardinality(same) <= 1
  <2>1. same \subseteq Bound /\ Bound \subseteq Ids
    BY DEF Matches, Bound
  <2> QED
    BY <2>1, FS_Subset DEF AccountsInv, CanAdd
<1>2. /\ target \in Ids
      /\ \/ target \in same /\ target \in Bound /\ MayJoin(given, target)
         \/ same = {} /\ account[target].state = "none"
  <2>1. CASE same # {}
    BY <1>1, <2>1 DEF CanAdd
  <2>2. CASE same = {}
    BY <2>2 DEF CanAdd
  <2> QED
    BY <2>1, <2>2
<1>3. \A i \in Bound \ {target} : i \notin same
  <2> SUFFICES ASSUME NEW i \in same, i # target PROVE FALSE
    OBVIOUS
  <2>1. {i, target} \subseteq same
    BY <1>2
  <2>2. Cardinality({i, target}) = 2
    <3>1. IsFiniteSet({target}) /\ Cardinality({target}) = 1
      BY FS_Singleton
    <3>2. Cardinality({target} \union {i}) = Cardinality({target}) + 1
      BY <3>1, FS_AddElement
    <3>3. {target} \union {i} = {i, target}
      OBVIOUS
    <3> QED
      BY <3>1, <3>2, <3>3
  <2>3. Cardinality({i, target}) <= Cardinality(same) /\ Cardinality(same) \in Nat
    BY <1>1, <2>1, FS_Subset, FS_CardinalityType
  <2> QED
    BY <1>1, <2>2, <2>3
<1>4. account[target].uid \in Uids \union {None}
  BY <1>2 DEF AccountsInv, AccountsTypeOK, AccountRecord
<1>5. account' = [account EXCEPT ![target] =
                      [given EXCEPT !.uid = IF given.uid = None THEN account[target].uid ELSE given.uid]]
  BY DEF AddLocked
<1> HIDE DEF same, target
<1>6. PICK rec : rec = [given EXCEPT !.uid = IF given.uid = None THEN account[target].uid ELSE given.uid]
  OBVIOUS
<1>7. /\ rec \in AccountRecord
      /\ rec.state = given.state /\ rec.owner = given.owner /\ rec.name = given.name
      /\ rec.uid = IF given.uid = None THEN account[target].uid ELSE given.uid
  BY <1>4, <1>6 DEF AccountRecord
<1>8. account' = [account EXCEPT ![target] = rec]
  BY <1>5, <1>6
<1> QED
  BY <1>2, <1>3, <1>7, <1>8 DEF same

\* One account is written: it is told apart from the others, and keeps what it was.
LEMMA WriteKeeps ==
    ASSUME AccountsInv, NEW i \in Ids, NEW rec \in AccountRecord, account' = [account EXCEPT ![i] = rec],
           UNCHANGED <<member, exchanging>>,
           rec.state = "bound", rec.owner \in Users, member[rec.owner] # "gone",
           \A j \in Bound \ {i} : /\ rec.uid # None => account[j].uid # rec.uid
                                  /\ account[j].owner = rec.owner => account[j].name # rec.name,
           i \in Bound => /\ rec.owner = account[i].owner
                          /\ account[i].uid # None => rec.uid = account[i].uid
    PROVE  AccountsInv' /\ HandsKept
<1>1. account'[i] = rec /\ \A j \in Ids \ {i} : account'[j] = account[j]
  BY DEF AccountsInv, AccountsTypeOK
<1>2. AccountsTypeOK'
  BY DEF AccountsInv, AccountsTypeOK
<1>3. Bound' = Bound \union {i}
  BY <1>1 DEF Bound
<1>4. IsFiniteSet(Bound)'
  BY <1>3, FS_AddElement DEF AccountsInv
<1>5. Blank'
  BY <1>1 DEF AccountsInv, Blank
<1>6. ASSUME NEW j \in Bound', NEW k \in Bound', j # k
      PROVE  /\ account'[j].uid # None => account'[j].uid # account'[k].uid
             /\ account'[j].owner = account'[k].owner => account'[j].name # account'[k].name
  <2>1. CASE j # i /\ k # i
    BY <1>1, <1>3, <1>6, <2>1 DEF AccountsInv, AccountsSound, Bound
  <2>2. CASE j = i
    BY <1>1, <1>3, <1>6, <2>2 DEF Bound
  <2>3. CASE k = i
    BY <1>1, <1>3, <1>6, <2>3 DEF Bound
  <2> QED
    BY <2>1, <2>2, <2>3
<1>7. \A j \in Bound' : account'[j].owner \in Users /\ member'[account'[j].owner] # "gone"
  BY <1>1, <1>3 DEF AccountsInv, AccountsSound, Bound
<1>8. exchanging' \subseteq Bound'
  BY <1>3 DEF AccountsInv, AccountsSound
<1>9. HandsKept
  BY <1>1 DEF HandsKept, Bound
<1> QED
  BY <1>2, <1>4, <1>5, <1>6, <1>7, <1>8, <1>9 DEF AccountsInv, AccountsSound

LEMMA AddKeeps ==
    ASSUME AccountsInv, NEW given \in AccountRecord, NEW id, CanAdd(given, id), AddLocked(given, id),
           UNCHANGED <<member, exchanging>>,
           given.state = "bound", given.owner \in Users, member[given.owner] = "active"
    PROVE  AccountsInv' /\ HandsKept
<1>1. PICK target \in Ids, rec \in AccountRecord :
        /\ account' = [account EXCEPT ![target] = rec]
        /\ rec.state = given.state /\ rec.owner = given.owner /\ rec.name = given.name
        /\ rec.uid = IF given.uid = None THEN account[target].uid ELSE given.uid
        /\ \A i \in Bound \ {target} : i \notin Matches(given, id)
        /\ \/ target \in Bound /\ MayJoin(given, target)
           \/ account[target].state = "none"
  BY AddEffect
<1>2. ASSUME NEW j \in Bound \ {target}
      PROVE  /\ rec.uid # None => account[j].uid # rec.uid
             /\ account[j].owner = rec.owner => account[j].name # rec.name
  <2>1. /\ given.uid # None => account[j].uid # given.uid
        /\ account[j].owner = given.owner => account[j].name # given.name
    BY <1>1, <1>2 DEF Matches
  <2>2. account[target].uid # None => account[j].uid # account[target].uid
    <3>1. CASE target \in Bound
      BY <1>2, <3>1 DEF AccountsInv, AccountsSound
    <3>2. CASE account[target].state = "none"
      BY <3>2 DEF AccountsInv, Blank
    <3> QED
      BY <1>1, <3>1, <3>2
  <2> QED
    BY <1>1, <2>1, <2>2
<1>3. target \in Bound => /\ rec.owner = account[target].owner
                          /\ account[target].uid # None => rec.uid = account[target].uid
  BY <1>1 DEF MayJoin, Bound
<1>4. member[rec.owner] # "gone" /\ rec.owner \in Users /\ rec.state = "bound"
  BY <1>1
<1> QED
  BY <1>1, <1>2, <1>3, <1>4, WriteKeeps

LEMMA BindKeeps ==
    ASSUME AccountsInv, NEW u \in Users, NEW target \in Ids \union {None}, NEW uid \in Uids \union {None},
           NEW name \in Names \union {None}, CanBind(u, target, uid, name), Bind(u, target, uid, name),
           UNCHANGED <<member, exchanging>>
    PROVE  AccountsInv' /\ HandsKept
<1>1. PICK given : given = Given(u, uid, BoundAs(target, name))
  OBVIOUS
<1>2. BoundAs(target, name) \in Names \union {None}
  BY DEF BoundAs, AccountsInv, AccountsTypeOK, AccountRecord
<1>3. given \in AccountRecord /\ given.state = "bound" /\ given.owner = u
  BY <1>1, <1>2 DEF Given, AccountRecord
<1>4. CanAdd(given, target) /\ AddLocked(given, target) /\ member[u] = "active"
  BY <1>1 DEF CanBind, Bind
<1> QED
  BY <1>3, <1>4, AddKeeps

\* Accounts that go leave the others as they were.
LEMMA LeaveKeeps ==
    ASSUME AccountsInv, AccountsTypeOK',
           \A i \in Ids : account'[i] = account[i] \/ account'[i].state = "gone",
           exchanging' \subseteq Bound',
           \A i \in Bound' : member'[account[i].owner] # "gone"
    PROVE  AccountsInv' /\ HandsKept
<1>1. Bound' \subseteq Bound /\ \A i \in Bound' : account'[i] = account[i] /\ i \in Ids
  BY DEF Bound
<1>2. IsFiniteSet(Bound)'
  BY <1>1, FS_Subset DEF AccountsInv
<1>3. Blank'
  BY DEF AccountsInv, Blank
<1>4. AccountsSound'
  BY <1>1 DEF AccountsInv, AccountsSound
<1>5. HandsKept
  BY <1>1 DEF HandsKept, Bound
<1> QED
  BY <1>2, <1>3, <1>4, <1>5 DEF AccountsInv

LEMMA StillAccounts ==
    ASSUME AccountsInv, UNCHANGED account, AccountsTypeOK', exchanging' \subseteq Bound,
           \A u \in Users : member'[u] = "gone" => member[u] = "gone"
    PROVE  AccountsInv' /\ HandsKept
<1>1. Bound' = Bound
  BY DEF Bound
<1>2. \A i \in Bound' : member'[account[i].owner] # "gone"
  BY <1>1 DEF AccountsInv, AccountsSound
<1> QED
  BY <1>1, <1>2, LeaveKeeps

LEMMA DeleteUserKeeps ==
    ASSUME AccountsInv, NEW u \in Users, DeleteUser(u)
    PROVE  AccountsInv' /\ HandsKept
<1>1. \A i \in Ids : account'[i] = IF i \in Owned(u) THEN [NoAccount EXCEPT !.state = "gone"] ELSE account[i]
  BY DEF DeleteUser
<1>2. \A i \in Owned(u) : account'[i].state = "gone"
  BY <1>1 DEF NoAccount, Owned, Bound
<1>3. AccountsTypeOK'
  BY DEF DeleteUser, AccountsInv, AccountsTypeOK, AccountRecord, NoAccount
<1>4. \A i \in Bound' : i \in Bound /\ account[i].owner # u
  BY <1>1, <1>2 DEF Bound, Owned
<1>5. \A i \in Bound' : member'[account[i].owner] # "gone"
  BY <1>4 DEF DeleteUser, AccountsInv, AccountsSound, AccountsTypeOK
<1>6. exchanging' \subseteq Bound'
  <2> SUFFICES ASSUME NEW i \in exchanging PROVE i \in Bound'
    BY DEF DeleteUser
  <2>1. i \in Bound /\ i \notin Owned(u)
    BY DEF DeleteUser, AccountsInv, AccountsSound
  <2> QED
    BY <1>1, <2>1 DEF Bound
<1> QED
  BY <1>1, <1>2, <1>3, <1>5, <1>6, LeaveKeeps

LEMMA SetMemberKeeps ==
    ASSUME AccountsInv, NEW u \in Users, NEW state \in {"active", "disabled"}, SetMember(u, state)
    PROVE  AccountsInv' /\ HandsKept
<1>1. AccountsTypeOK'
  BY DEF SetMember, AccountsInv, AccountsTypeOK
<1>2. \A v \in Users : member'[v] = "gone" => member[v] = "gone"
  BY DEF SetMember, AccountsInv, AccountsTypeOK
<1>3. exchanging' \subseteq Bound /\ UNCHANGED account
  BY DEF SetMember, AccountsInv, AccountsSound
<1> QED
  BY <1>1, <1>2, <1>3, StillAccounts

LEMMA AccountsSteps ==
    ASSUME AccountsInv, AccountsNext
    PROVE  AccountsInv' /\ HandsKept
<1>1. ASSUME NEW u \in Users, NEW uid \in Uids \union {None}, NEW name \in Names, AddAccount(u, uid, name)
      PROVE  AccountsInv' /\ HandsKept
  <2>1. PICK given : given = Given(u, uid, name)
    OBVIOUS
  <2>2. given \in AccountRecord /\ given.state = "bound" /\ given.owner = u
    BY <2>1 DEF Given, AccountRecord
  <2> QED
    BY <1>1, <2>1, <2>2, AddKeeps DEF AddAccount
<1>2. ASSUME NEW i \in Ids, NEW uid \in Uids \union {None}, NEW name \in Names, UpdateAccount(i, uid, name)
      PROVE  AccountsInv' /\ HandsKept
  <2>1. PICK given : given = Given(account[i].owner, uid, name)
    OBVIOUS
  <2>2. /\ given \in AccountRecord /\ given.state = "bound"
        /\ given.owner = account[i].owner /\ given.uid = uid
    BY <2>1 DEF Given, AccountRecord, AccountsInv, AccountsTypeOK
  <2>3. /\ i \in Bound /\ (account[i].uid # None => uid = account[i].uid) /\ ~Taken(i, given)
        /\ account' = [account EXCEPT ![i] = given] /\ UNCHANGED <<member, exchanging>>
    BY <1>2, <2>1 DEF UpdateAccount
  <2>4. \A j \in Bound \ {i} : /\ given.uid # None => account[j].uid # given.uid
                               /\ account[j].owner = given.owner => account[j].name # given.name
    BY <2>3 DEF Taken
  <2>5. given.owner \in Users /\ member[given.owner] # "gone"
    BY <2>2, <2>3 DEF AccountsInv, AccountsSound
  <2> QED
    BY <2>2, <2>3, <2>4, <2>5, WriteKeeps
<1>3. ASSUME NEW i \in Ids, DeleteAccount(i) PROVE AccountsInv' /\ HandsKept
  <2>1. \A j \in Ids : account'[j] = IF j = i THEN [NoAccount EXCEPT !.state = "gone"] ELSE account[j]
    BY <1>3 DEF DeleteAccount, AccountsInv, AccountsTypeOK
  <2>2. account'[i].state = "gone"
    BY <2>1 DEF NoAccount
  <2>3. AccountsTypeOK'
    BY <1>3 DEF DeleteAccount, AccountsInv, AccountsTypeOK, AccountRecord, NoAccount
  <2>4. exchanging' \subseteq Bound'
    BY <1>3, <2>1 DEF DeleteAccount, AccountsInv, AccountsSound, Bound
  <2>5. \A j \in Bound' : member'[account[j].owner] # "gone"
    BY <1>3, <2>1, <2>2 DEF DeleteAccount, AccountsInv, AccountsSound, Bound
  <2> QED
    BY <2>1, <2>2, <2>3, <2>4, <2>5, LeaveKeeps
<1>4. ASSUME NEW i \in Ids, ExchangeStarts(i) \/ ExchangeEnds(i) PROVE AccountsInv' /\ HandsKept
  <2>1. AccountsTypeOK' /\ exchanging' \subseteq Bound
    BY <1>4 DEF ExchangeStarts, ExchangeEnds, AccountsInv, AccountsTypeOK, AccountsSound
  <2> QED
    BY <1>4, <2>1, StillAccounts DEF ExchangeStarts, ExchangeEnds
<1> QED
  BY <1>1, <1>2, <1>3, <1>4 DEF AccountsNext

-----------------------------------------------------------------------------
(* What the dialogs keep. *)

\* Between the first and the last step of a login's goroutine.
Carried == {"fetching", "polling", "exchanging", "ending"}

\* A dialog that was begun is a user's; a code goes to a phone; only a preview opens.
Sound(d) ==
    /\ dialog[d].step # "new" => dialog[d].user \in Users
    /\ dialog[d].step = "sending" \/ dialog[d].pending = "sending" => dialog[d].phone \in Phones
    /\ dialog[d].step \in {"opening", "ready"} => dialog[d].kind = "preview"

\* A manager's map leads to a dialog of that manager, begun by that user.
Leads(map, kind) ==
    \A u \in Users : map[u] # None =>
        /\ dialog[map[u]].kind = kind
        /\ dialog[map[u]].user = u
        /\ dialog[map[u]].step # "new"

\* Who waits for the code of a login that still runs was not cancelled: cancelling
\* ends it, and the two minutes begin with the code.
Runs(d) ==
    dialog[d].running =>
        /\ dialog[d].step \in Carried
        /\ dialog[d].step = "fetching" => dialog[d].live

\* What is revoked is not wanted any more, each manager in its way.
Unwanted(d) ==
    /\ dialog[d].step # "new"
    /\ dialog[d].kind = "qr" => ~QRWanted(d)
    /\ dialog[d].kind = "sms" => ~CurrentSMS(d)
    /\ dialog[d].kind = "preview" => preview[Owner(d)] # d

DialogTypeOK ==
    /\ dialog \in [Dialogs -> DialogRecord]
    /\ {qr, sms, preview} \subseteq [Users -> Dialogs \union {None}]
    /\ cooling \subseteq Phones
    /\ stopped \subseteq Managers
    /\ revoked \subseteq Dialogs

DialogInv ==
    /\ DialogTypeOK
    /\ \A d \in Dialogs : Sound(d)
    /\ Leads(qr, "qr") /\ Leads(sms, "sms") /\ Leads(preview, "preview")
    /\ \A u \in Users : qr[u] # None => Runs(qr[u])
    /\ \A d \in revoked : Unwanted(d)

LEMMA InitDialogs == LoginsInit => DialogInv
<1> SUFFICES ASSUME LoginsInit PROVE DialogInv
  OBVIOUS
<1>1. PICK kinds \in [Dialogs -> Managers] : dialog = [d \in Dialogs |-> NewDialog(kinds[d])]
  BY DEF LoginsInit
<1>2. \A d \in Dialogs : dialog[d] \in DialogRecord /\ dialog[d].step = "new" /\ dialog[d].pending = "none"
  BY <1>1 DEF NewDialog, DialogRecord, Steps
<1>3. dialog \in [Dialogs -> DialogRecord]
  BY <1>1, <1>2
<1>4. qr = NoDialogs /\ sms = NoDialogs /\ preview = NoDialogs /\ revoked = {} /\ cooling = {} /\ stopped = {}
  BY DEF LoginsInit
<1>5. NoDialogs \in [Users -> Dialogs \union {None}] /\ \A u \in Users : NoDialogs[u] = None
  BY DEF NoDialogs
<1> QED
  BY <1>2, <1>3, <1>4, <1>5 DEF DialogInv, DialogTypeOK, Sound, Leads

\* A map forgets dialogs, or takes up one that is begun by the user it is for.
Turns(map, later, kind) ==
    \A u \in Users : \/ later[u] \in {map[u], None}
                     \/ /\ dialog[later[u]].step = "new" /\ dialog[later[u]].kind = kind
                        /\ dialog'[later[u]].step # "new" /\ dialog'[later[u]].user = u

\* What a dialog may not become. Only a login that is begun comes to life.
Follows(d) ==
    /\ dialog'[d].kind = dialog[d].kind
    /\ dialog[d].step # "new" => dialog'[d].step # "new" /\ dialog'[d].user = dialog[d].user
    /\ dialog[d].kind = "qr" /\ dialog[d].step # "new" /\ dialog'[d].live => dialog[d].live

\* The steps of dialogs, seen from the maps and from what is revoked.
LEMMA DialogsKept ==
    ASSUME DialogInv, DialogTypeOK', \A d \in Dialogs : Follows(d) /\ Sound(d)',
           Turns(qr, qr', "qr"), Turns(sms, sms', "sms"), Turns(preview, preview', "preview"),
           \A u \in Users : \A d \in Dialogs : qr'[u] = d => Runs(d)',
           \A d \in revoked' \ revoked : Unwanted(d)'
    PROVE  DialogInv'
<1>1. /\ \A u \in Users : qr[u] \in Dialogs \union {None} /\ qr'[u] \in Dialogs \union {None}
      /\ \A u \in Users : sms[u] \in Dialogs \union {None} /\ sms'[u] \in Dialogs \union {None}
      /\ \A u \in Users : preview[u] \in Dialogs \union {None} /\ preview'[u] \in Dialogs \union {None}
      /\ None \notin Dialogs
  BY LoginsAssumption DEF DialogInv, DialogTypeOK, LoginsAssumption
<1>2. Leads(qr, "qr")'
  BY <1>1 DEF DialogInv, Leads, Turns, Follows
<1>3. Leads(sms, "sms")'
  BY <1>1 DEF DialogInv, Leads, Turns, Follows
<1>4. Leads(preview, "preview")'
  BY <1>1 DEF DialogInv, Leads, Turns, Follows
<1>5. \A u \in Users : (qr[u] # None => Runs(qr[u]))'
  <2> SUFFICES ASSUME NEW u \in Users, qr'[u] # None PROVE Runs(qr[u])'
    OBVIOUS
  <2>1. PICK d \in Dialogs : d = qr'[u]
    BY <1>1
  <2>2. Runs(d)'
    BY <2>1
  <2> QED
    BY <2>1, <2>2 DEF Runs
<1>6. \A d \in revoked' : Unwanted(d)'
  <2> SUFFICES ASSUME NEW d \in revoked, d \in revoked' PROVE Unwanted(d)'
    OBVIOUS
  <2>1. d \in Dialogs /\ Unwanted(d) /\ Follows(d) /\ dialog[d].step # "new" /\ dialog[d].user \in Users
    BY DEF DialogInv, DialogTypeOK, Unwanted, Sound
  <2>2. PICK u \in Users : u = dialog[d].user /\ u = dialog'[d].user
    BY <2>1 DEF Follows
  <2>3. /\ qr'[u] = d => qr[u] = d
        /\ sms'[u] = d => sms[u] = d
        /\ preview'[u] = d => preview[u] = d
    BY <1>1, <2>1 DEF Turns
  <2> QED
    BY <2>1, <2>2, <2>3 DEF Unwanted, Follows, QRWanted, Current, CurrentSMS, Owner
<1> QED
  BY <1>2, <1>3, <1>4, <1>5, <1>6 DEF DialogInv

\* One dialog goes on.
LEMMA StepKeeps ==
    ASSUME DialogInv, NEW d \in Dialogs, NEW rec \in DialogRecord, dialog' = [dialog EXCEPT ![d] = rec],
           rec.kind = dialog[d].kind, rec.user \in Users, rec.step # "new",
           dialog[d].step # "new" => rec.user = dialog[d].user,
           rec.kind = "qr" /\ dialog[d].step # "new" /\ rec.live => dialog[d].live,
           rec.step = "sending" \/ rec.pending = "sending" => rec.phone \in Phones,
           rec.step \in {"opening", "ready"} => rec.kind = "preview",
           rec.kind = "qr" /\ qr'[rec.user] = d /\ rec.running =>
             rec.step \in Carried /\ (rec.step = "fetching" => rec.live),
           {qr', sms', preview'} \subseteq [Users -> Dialogs \union {None}],
           \A u \in Users : \/ qr'[u] \in {qr[u], None}
                            \/ dialog[d].step = "new" /\ qr'[u] = d /\ rec.kind = "qr" /\ u = rec.user,
           \A u \in Users : \/ sms'[u] \in {sms[u], None}
                            \/ dialog[d].step = "new" /\ sms'[u] = d /\ rec.kind = "sms" /\ u = rec.user,
           \A u \in Users : \/ preview'[u] \in {preview[u], None}
                            \/ dialog[d].step = "new" /\ preview'[u] = d /\ rec.kind = "preview" /\ u = rec.user,
           cooling' \subseteq Phones, stopped' \subseteq Managers, revoked' \subseteq Dialogs,
           \A e \in revoked' \ revoked : Unwanted(e)'
    PROVE  DialogInv'
<1>1. dialog'[d] = rec /\ \A e \in Dialogs \ {d} : dialog'[e] = dialog[e]
  BY DEF DialogInv, DialogTypeOK
<1>2. DialogTypeOK'
  BY DEF DialogInv, DialogTypeOK
<1>3. \A e \in Dialogs : Sound(e)'
  <2> TAKE e \in Dialogs
  <2>1. CASE e = d
    BY <1>1, <2>1 DEF Sound
  <2>2. CASE e # d
    BY <1>1, <2>2 DEF DialogInv, Sound
  <2> QED
    BY <2>1, <2>2
<1>4. \A e \in Dialogs : Follows(e)
  BY <1>1 DEF Follows
<1>5. None \notin Dialogs
  BY LoginsAssumption DEF LoginsAssumption
<1>6. Turns(qr, qr', "qr") /\ Turns(sms, sms', "sms") /\ Turns(preview, preview', "preview")
  BY <1>1, <1>5 DEF Turns
<1>7. ASSUME NEW u \in Users, NEW e \in Dialogs, qr'[u] = e PROVE Runs(e)'
  <2>1. CASE e # d
    <3>1. qr[u] = e
      BY <1>5, <1>7, <2>1
    <3>2. Runs(e)
      BY <1>5, <3>1 DEF DialogInv
    <3> QED
      BY <1>1, <2>1, <3>2 DEF Runs
  <2>2. CASE e = d
    <3>1. rec.kind = "qr" /\ u = rec.user
      BY <1>5, <1>7, <2>2 DEF DialogInv, Leads
    <3> QED
      BY <1>1, <1>7, <2>2, <3>1 DEF Runs
  <2> QED
    BY <2>1, <2>2
<1> QED
  BY <1>2, <1>3, <1>4, <1>6, <1>7, DialogsKept

\* One dialog goes on, and nothing else happens to dialogs but that a phone cools.
LEMMA GoesOn ==
    ASSUME DialogInv, NEW d \in Dialogs, NEW rec \in DialogRecord, Put(d, rec),
           UNCHANGED <<qr, sms, preview, stopped, revoked>>, cooling' \subseteq Phones,
           dialog[d].step # "new", rec.step # "new", rec.kind = dialog[d].kind, rec.user = dialog[d].user,
           rec.kind = "qr" /\ rec.live => dialog[d].live,
           rec.step = "sending" \/ rec.pending = "sending" => rec.phone \in Phones,
           rec.step \in {"opening", "ready"} => rec.kind = "preview",
           rec.kind = "qr" /\ qr[rec.user] = d /\ rec.running =>
             rec.step \in Carried /\ (rec.step = "fetching" => rec.live)
    PROVE  DialogInv'
<1>1. rec.user \in Users
  BY DEF DialogInv, Sound
<1>2. dialog' = [dialog EXCEPT ![d] = rec]
  BY DEF Put
<1>3. /\ {qr', sms', preview'} \subseteq [Users -> Dialogs \union {None}]
      /\ stopped' \subseteq Managers /\ revoked' \subseteq Dialogs
  BY DEF DialogInv, DialogTypeOK
<1> QED
  BY <1>1, <1>2, <1>3, StepKeeps

\* What is known of a dialog.
LEMMA Known ==
    ASSUME DialogInv, NEW d \in Dialogs
    PROVE  /\ dialog[d] \in DialogRecord
           /\ Sound(d)
           /\ dialog[d].step # "new" /\ Current(d) /\ dialog[d].running =>
                /\ dialog[d].step \in Carried
                /\ dialog[d].step = "fetching" => dialog[d].live
<1>1. dialog[d].step # "new" => Owner(d) \in Users
  BY DEF DialogInv, Sound, Owner
<1>2. d # None
  BY LoginsAssumption DEF LoginsAssumption
<1> QED
  BY <1>1, <1>2 DEF DialogInv, DialogTypeOK, Current, Runs

LEMMA QRSteps ==
    ASSUME DialogInv, NEW d \in Dialogs, QRGoesOn(d) \/ QRTimesOut(d)
    PROVE  DialogInv'
<1>1. dialog[d] \in DialogRecord /\ Sound(d) /\ cooling \subseteq Phones
  BY Known DEF DialogInv, DialogTypeOK
<1>2. dialog[d].step # "new" /\ Current(d) /\ dialog[d].running =>
        dialog[d].step \in Carried /\ (dialog[d].step = "fetching" => dialog[d].live)
  BY Known
<1>3. CASE QRFetched(d)
  <2>1. PICK rec : rec = [dialog[d] EXCEPT !.step = IF Current(d) /\ dialog[d].live THEN "polling" ELSE "over"]
    OBVIOUS
  <2>2. rec.step = IF Current(d) /\ dialog[d].live THEN "polling" ELSE "over"
    BY <1>1, <2>1 DEF DialogRecord
  <2>3. /\ rec \in DialogRecord /\ rec.kind = dialog[d].kind /\ rec.user = dialog[d].user
        /\ rec.live = dialog[d].live /\ rec.running = dialog[d].running
        /\ rec.pending = dialog[d].pending /\ rec.phone = dialog[d].phone
    BY <1>1, <2>1 DEF DialogRecord, Steps
  <2>4. rec.kind = "qr" /\ qr[rec.user] = d /\ rec.running => rec.step = "polling"
    BY <1>2, <1>3, <2>2, <2>3 DEF QRFetched, At, Current, Owner
  <2>5. Put(d, rec) /\ UNCHANGED <<qr, sms, preview, stopped, revoked, cooling>>
    BY <1>3, <2>1 DEF QRFetched, OnlyDialog
  <2> QED
    BY <1>1, <1>3, <2>2, <2>3, <2>4, <2>5, GoesOn DEF QRFetched, At, Sound, Carried
<1>4. ASSUME NEW uid \in Uids, QRConfirmed(d, uid) PROVE DialogInv'
  <2>1. PICK rec : rec = [dialog[d] EXCEPT !.step = "exchanging", !.uid = uid]
    OBVIOUS
  <2>2. /\ rec \in DialogRecord /\ rec.kind = dialog[d].kind /\ rec.user = dialog[d].user
        /\ rec.live = dialog[d].live /\ rec.running = dialog[d].running
        /\ rec.pending = dialog[d].pending /\ rec.phone = dialog[d].phone /\ rec.step = "exchanging"
    BY <1>1, <2>1 DEF DialogRecord, Steps
  <2>3. Put(d, rec) /\ UNCHANGED <<qr, sms, preview, stopped, revoked, cooling>>
    BY <1>4, <2>1 DEF QRConfirmed, OnlyDialog
  <2> QED
    BY <1>1, <1>4, <2>2, <2>3, GoesOn DEF QRConfirmed, At, Sound, Carried
<1>5. CASE QRComplete(d) \/ QRFails(d)
  <2>1. PICK bound \in BOOLEAN :
          /\ Put(d, [dialog[d] EXCEPT !.step = "ending", !.bound = bound])
          /\ UNCHANGED <<qr, sms, preview, stopped, revoked, cooling>>
    <3>1. dialog[d].bound \in BOOLEAN
      BY <1>1 DEF DialogRecord
    <3>2. [dialog[d] EXCEPT !.step = "ending"] = [dialog[d] EXCEPT !.step = "ending", !.bound = dialog[d].bound]
      BY <1>1 DEF DialogRecord
    <3> QED
      BY <1>5, <3>1, <3>2 DEF QRComplete, QRFails, OnlyDialog
  <2>2. PICK rec : rec = [dialog[d] EXCEPT !.step = "ending", !.bound = bound]
    OBVIOUS
  <2>3. /\ rec \in DialogRecord /\ rec.kind = dialog[d].kind /\ rec.user = dialog[d].user
        /\ rec.live = dialog[d].live /\ rec.running = dialog[d].running
        /\ rec.pending = dialog[d].pending /\ rec.phone = dialog[d].phone /\ rec.step = "ending"
    BY <1>1, <2>2 DEF DialogRecord, Steps
  <2>4. dialog[d].step # "new"
    BY <1>5 DEF QRComplete, QRFails, At
  <2> QED
    BY <1>1, <2>1, <2>2, <2>3, <2>4, GoesOn DEF Sound, Carried
<1>6. CASE QRFinish(d)
  <2>1. PICK rec : rec = Finished(d)
    OBVIOUS
  <2>2. /\ rec \in DialogRecord /\ rec.kind = dialog[d].kind /\ rec.user = dialog[d].user
        /\ rec.pending = dialog[d].pending /\ rec.phone = dialog[d].phone /\ rec.step = "over"
        /\ rec.live => dialog[d].live
        /\ rec.running => dialog[d].running /\ ~Current(d)
    <3>1. CASE Current(d) /\ dialog[d].running
      <4>1. rec = [dialog[d] EXCEPT !.step = "over", !.running = FALSE, !.live = FALSE]
        BY <2>1, <3>1 DEF Finished
      <4> QED
        BY <1>1, <4>1 DEF DialogRecord, Steps
    <3>2. CASE ~(Current(d) /\ dialog[d].running)
      <4>1. rec = [dialog[d] EXCEPT !.step = "over"]
        BY <2>1, <3>2 DEF Finished
      <4> QED
        BY <1>1, <3>2, <4>1 DEF DialogRecord, Steps
    <3> QED
      BY <3>1, <3>2
  <2>3. Put(d, rec) /\ UNCHANGED <<qr, sms, preview, stopped, revoked, cooling>>
    BY <1>6, <2>1 DEF QRFinish, OnlyDialog
  <2> QED
    BY <1>1, <1>6, <2>2, <2>3, GoesOn DEF QRFinish, At, Sound, Current, Owner
<1>7. CASE QRTimesOut(d)
  <2>1. PICK rec : rec = [dialog[d] EXCEPT !.live = FALSE]
    OBVIOUS
  <2>2. /\ rec \in DialogRecord /\ rec.kind = dialog[d].kind /\ rec.user = dialog[d].user
        /\ rec.pending = dialog[d].pending /\ rec.phone = dialog[d].phone /\ rec.step = dialog[d].step
        /\ rec.live = FALSE /\ rec.running = dialog[d].running
    BY <1>1, <2>1 DEF DialogRecord
  <2>3. dialog' = [dialog EXCEPT ![d] = rec] /\ dialog'[d] = rec
    BY <1>7, <2>1 DEF QRTimesOut, Put, DialogInv, DialogTypeOK
  <2>4. dialog[d].step \in {"polling", "exchanging"} /\ dialog[d].kind = "qr"
    BY <1>7 DEF QRTimesOut
  <2>5. Unwanted(d)'
    BY <2>2, <2>3, <2>4 DEF Unwanted, QRWanted
  <2>6. revoked' = revoked \union {d} /\ UNCHANGED <<qr, sms, preview, cooling, stopped>>
    BY <1>7 DEF QRTimesOut
  <2>7. /\ {qr', sms', preview'} \subseteq [Users -> Dialogs \union {None}]
        /\ stopped' \subseteq Managers /\ revoked' \subseteq Dialogs /\ cooling' \subseteq Phones
    BY <2>6 DEF DialogInv, DialogTypeOK
  <2>8. rec.user \in Users /\ dialog[d].step # "new"
    BY <1>1, <2>2, <2>4 DEF Sound
  <2> QED
    BY <1>1, <2>2, <2>3, <2>4, <2>5, <2>6, <2>7, <2>8, StepKeeps DEF Sound, Carried
<1> QED
  BY <1>3, <1>4, <1>5, <1>6, <1>7 DEF QRGoesOn

LEMMA MapsTyped ==
    ASSUME DialogInv
    PROVE  /\ qr \in [Users -> Dialogs \union {None}]
           /\ sms \in [Users -> Dialogs \union {None}]
           /\ preview \in [Users -> Dialogs \union {None}]
           /\ None \notin Dialogs /\ None \notin Phones
           /\ cooling \subseteq Phones /\ stopped \subseteq Managers /\ revoked \subseteq Dialogs
           /\ dialog \in [Dialogs -> DialogRecord]
BY LoginsAssumption DEF LoginsAssumption, DialogInv, DialogTypeOK

LEMMA BeginKeeps ==
    ASSUME DialogInv, NEW u \in Users, NEW d \in Dialogs, Begins(u, d)
    PROVE  DialogInv'
<1>1. /\ qr \in [Users -> Dialogs \union {None}] /\ sms \in [Users -> Dialogs \union {None}]
      /\ preview \in [Users -> Dialogs \union {None}] /\ dialog[d] \in DialogRecord /\ Sound(d)
      /\ cooling \subseteq Phones /\ stopped \subseteq Managers /\ revoked \subseteq Dialogs
  BY MapsTyped, Known
<1>2. ASSUME NEW target \in Targets(u), NEW name \in Names, QRStart(u, d, target, name) PROVE DialogInv'
  <2>1. PICK rec : rec = [dialog[d] EXCEPT !.step = "fetching", !.user = u, !.target = target,
                                          !.name = name, !.live = TRUE, !.running = TRUE]
    OBVIOUS
  <2>2. target \in Ids \union {None}
    BY DEF Targets, Owned, Bound
  <2>3. /\ rec \in DialogRecord /\ rec.kind = dialog[d].kind /\ rec.user = u /\ rec.step = "fetching"
        /\ rec.live = TRUE /\ rec.pending = dialog[d].pending /\ rec.phone = dialog[d].phone
    BY <1>1, <2>1, <2>2 DEF DialogRecord, Steps
  <2>4. /\ dialog' = [dialog EXCEPT ![d] = rec] /\ qr' = [qr EXCEPT ![u] = d]
        /\ UNCHANGED <<sms, preview, cooling, stopped, revoked>>
        /\ dialog[d].step = "new" /\ dialog[d].kind = "qr"
    BY <1>2, <2>1 DEF QRStart, Put, Fresh, At
  <2>5. /\ {qr', sms', preview'} \subseteq [Users -> Dialogs \union {None}]
        /\ \A v \in Users : qr'[v] \in {qr[v], None} \/ (qr'[v] = d /\ v = u)
    BY <1>1, <2>4
  <2>6. /\ rec.step = "sending" \/ rec.pending = "sending" => rec.phone \in Phones
        /\ rec.step \in Carried
    BY <1>1, <2>3 DEF Sound, Carried
  <2> QED
    BY <1>1, <2>3, <2>4, <2>5, <2>6, StepKeeps, ZenonT(40)
<1>3. ASSUME NEW target \in Targets(u), NEW name \in Names, NEW phone \in Phones,
             SMSSend(u, d, phone, target, name)
      PROVE  DialogInv'
  <2>1. PICK rec : rec = [dialog[d] EXCEPT !.step = "sending", !.user = u, !.target = target, !.name = name,
                                          !.phone = phone, !.live = TRUE, !.cooling = TRUE]
    OBVIOUS
  <2>2. target \in Ids \union {None}
    BY DEF Targets, Owned, Bound
  <2>3. /\ rec \in DialogRecord /\ rec.kind = dialog[d].kind /\ rec.user = u /\ rec.step = "sending"
        /\ rec.phone = phone
    BY <1>1, <2>1, <2>2 DEF DialogRecord, Steps
  <2>4. /\ dialog' = [dialog EXCEPT ![d] = rec] /\ UNCHANGED <<qr, preview, stopped, revoked>>
        /\ dialog[d].step = "new" /\ dialog[d].kind = "sms" /\ cooling' = cooling \union {phone}
    BY <1>3, <2>1 DEF SMSSend, Put, Fresh, At
  <2>5. sms' \in [Users -> Dialogs \union {None}]
        /\ \A v \in Users : \/ sms'[v] \in {sms[v], None}
                            \/ sms'[v] = d /\ v = u
    BY <1>1, <1>3 DEF SMSSend
  <2> QED
    BY <1>1, <2>3, <2>4, <2>5, StepKeeps
<1>4. CASE PreviewReserve(u, d)
  <2>1. PICK rec : rec = [dialog[d] EXCEPT !.step = "opening", !.user = u]
    OBVIOUS
  <2>2. /\ rec \in DialogRecord /\ rec.kind = dialog[d].kind /\ rec.user = u /\ rec.step = "opening"
        /\ rec.pending = dialog[d].pending /\ rec.phone = dialog[d].phone
    BY <1>1, <2>1 DEF DialogRecord, Steps
  <2>3. /\ dialog' = [dialog EXCEPT ![d] = rec] /\ preview' = [preview EXCEPT ![u] = d]
        /\ UNCHANGED <<qr, sms, cooling, stopped>>
        /\ dialog[d].step = "new" /\ dialog[d].kind = "preview"
    BY <1>4, <2>1 DEF PreviewReserve, Put, Fresh, At
  <2>4. /\ {qr', sms', preview'} \subseteq [Users -> Dialogs \union {None}]
        /\ \A v \in Users : preview'[v] = IF v = u THEN d ELSE preview[v]
    BY <1>1, <2>3
  <2>5. /\ revoked' = IF preview[u] = None THEN revoked ELSE revoked \union {preview[u]}
        /\ revoked' \subseteq Dialogs
    BY <1>1, <1>4 DEF PreviewReserve
  <2>6. ASSUME NEW e \in Dialogs, preview[u] = e PROVE Unwanted(e)'
    <3>1. dialog[e].kind = "preview" /\ dialog[e].user = u /\ dialog[e].step # "new"
      BY <2>6, MapsTyped DEF DialogInv, Leads
    <3>2. e # d /\ dialog'[e] = dialog[e]
      BY <2>3, <3>1, MapsTyped
    <3> QED
      BY <2>4, <3>1, <3>2 DEF Unwanted, Owner
  <2>7. \A e \in revoked' \ revoked : Unwanted(e)'
    BY <1>1, <2>5, <2>6
  <2>8. \A v \in Users : preview'[v] \in {preview[v], None} \/ (preview'[v] = d /\ v = u)
    BY <2>4
  <2>9. rec.step = "sending" \/ rec.pending = "sending" => rec.phone \in Phones
    BY <1>1, <2>2 DEF Sound
  <2>10. /\ cooling' \subseteq Phones /\ stopped' \subseteq Managers
         /\ \A v \in Users : qr'[v] \in {qr[v], None} /\ sms'[v] \in {sms[v], None}
         /\ rec.kind = "preview"
    BY <1>1, <2>2, <2>3
  <2>11. dialog[d].step = "new" /\ dialog' = [dialog EXCEPT ![d] = rec]
    BY <2>3
  <2> QED
    BY <2>2, <2>4, <2>5, <2>7, <2>8, <2>9, <2>10, <2>11, StepKeeps
<1> QED
  BY <1>2, <1>3, <1>4 DEF Begins


\* A request of an SMS login is over, and the session free again.
LEMMA FreeKeeps ==
    ASSUME DialogInv, NEW d \in Dialogs, NEW rec \in DialogRecord, Put(d, rec),
           UNCHANGED <<qr, sms, preview, stopped, revoked>>, cooling' \subseteq Phones,
           \/ dialog[d].step \in {"sending", "verifying"}
           \/ dialog[d].kind = "sms" /\ dialog[d].step = "exchanging",
           rec.step = "free", rec.live = FALSE, rec.kind = dialog[d].kind, rec.user = dialog[d].user,
           rec.phone = dialog[d].phone, rec.running = dialog[d].running,
           rec.pending \in {"none", dialog[d].pending, dialog[d].step}
    PROVE  DialogInv'
<1>1. Sound(d) /\ dialog[d].step # "new"
  BY Known
<1>2. rec.pending = "sending" => rec.phone \in Phones
  BY <1>1 DEF Sound
<1>3. rec.kind = "qr" => ~(qr[rec.user] = d /\ rec.running)
  BY <1>1, Known DEF Current, Owner, Carried
<1> QED
  BY <1>1, <1>2, <1>3, GoesOn

LEMMA FreedFields ==
    ASSUME NEW d, dialog[d] \in DialogRecord
    PROVE  /\ Freed(d) \in DialogRecord
           /\ Freed(d).step = "free" /\ Freed(d).live = FALSE /\ Freed(d).kind = dialog[d].kind
           /\ Freed(d).user = dialog[d].user /\ Freed(d).phone = dialog[d].phone
           /\ Freed(d).running = dialog[d].running /\ Freed(d).pending = dialog[d].pending
           /\ Freed(d).bound = dialog[d].bound
BY DEF Freed, DialogRecord, Steps

LEMMA SMSSteps ==
    ASSUME DialogInv, NEW d \in Dialogs, SMSGoesOn(d)
    PROVE  DialogInv'
<1>1. dialog[d] \in DialogRecord /\ Sound(d) /\ cooling \subseteq Phones
  BY Known, MapsTyped
<1>2. PICK free : free = Freed(d)
  OBVIOUS
<1>3. /\ free \in DialogRecord /\ free.step = "free" /\ free.live = FALSE /\ free.kind = dialog[d].kind
      /\ free.user = dialog[d].user /\ free.phone = dialog[d].phone
      /\ free.running = dialog[d].running /\ free.pending = dialog[d].pending
  BY <1>1, <1>2, FreedFields
<1>4. CASE SMSSent(d)
  <2>1. dialog[d].step = "sending" /\ UNCHANGED <<qr, sms, preview, stopped, revoked>>
    BY <1>4 DEF SMSSent, At
  <2>2. CASE CurrentSMS(d) /\ dialog[d].live
    <3>1. PICK rec : rec = [free EXCEPT !.sent = TRUE, !.pending = "none", !.expired = FALSE, !.cooling = TRUE]
      OBVIOUS
    <3>2. /\ rec \in DialogRecord /\ rec.step = "free" /\ rec.live = FALSE /\ rec.kind = dialog[d].kind
          /\ rec.user = dialog[d].user /\ rec.phone = dialog[d].phone
          /\ rec.running = dialog[d].running /\ rec.pending = "none"
      BY <1>3, <3>1 DEF DialogRecord
    <3>3. Put(d, rec) /\ cooling' = cooling \union {dialog[d].phone}
      BY <1>2, <1>4, <2>2, <3>1 DEF SMSSent
    <3>4. cooling' \subseteq Phones
      BY <1>1, <2>1, <3>3 DEF Sound
    <3> QED
      BY <2>1, <3>2, <3>3, <3>4, FreeKeeps
  <2>3. CASE ~(CurrentSMS(d) /\ dialog[d].live)
    <3>1. Put(d, free) /\ UNCHANGED cooling
      BY <1>2, <1>4, <2>3 DEF SMSSent
    <3> QED
      BY <1>1, <1>3, <2>1, <3>1, FreeKeeps
  <2> QED
    BY <2>2, <2>3
<1>5. CASE SMSChallenged(d)
  <2>1. dialog[d].step \in {"sending", "verifying"} /\ UNCHANGED <<qr, sms, preview, stopped, revoked, cooling>>
    BY <1>5 DEF SMSChallenged, OnlyDialog
  <2>2. CASE CurrentSMS(d) /\ dialog[d].live /\ dialog[d].challenges < MaxChallenges
    <3>1. PICK rec : rec = [free EXCEPT !.pending = dialog[d].step, !.challenges = dialog[d].challenges + 1]
      OBVIOUS
    <3>2. dialog[d].challenges + 1 \in Nat
      BY <1>1 DEF DialogRecord
    <3>3. /\ rec \in DialogRecord /\ rec.step = "free" /\ rec.live = FALSE /\ rec.kind = dialog[d].kind
          /\ rec.user = dialog[d].user /\ rec.phone = dialog[d].phone
          /\ rec.running = dialog[d].running /\ rec.pending = dialog[d].step
      BY <1>3, <2>1, <3>1, <3>2 DEF DialogRecord
    <3>4. Put(d, rec)
      BY <1>2, <1>5, <2>2, <3>1 DEF SMSChallenged
    <3> QED
      BY <1>1, <2>1, <3>3, <3>4, FreeKeeps
  <2>3. CASE ~(CurrentSMS(d) /\ dialog[d].live /\ dialog[d].challenges < MaxChallenges)
    <3>1. Put(d, free)
      BY <1>2, <1>5, <2>3 DEF SMSChallenged
    <3> QED
      BY <1>1, <1>3, <2>1, <3>1, FreeKeeps
  <2> QED
    BY <2>2, <2>3
<1>6. CASE SMSFails(d)
  <2>1. /\ dialog[d].kind = "sms" /\ dialog[d].step \in {"sending", "verifying", "exchanging"}
        /\ Put(d, free) /\ UNCHANGED <<qr, sms, preview, stopped, revoked, cooling>>
    BY <1>2, <1>6 DEF SMSFails, Busy, OnlyDialog
  <2> QED
    BY <1>1, <1>3, <2>1, FreeKeeps
<1>7. ASSUME NEW uid \in Uids, SMSVerified(d, uid) PROVE DialogInv'
  <2>1. PICK rec : rec = [dialog[d] EXCEPT !.step = "exchanging", !.uid = uid]
    OBVIOUS
  <2>2. /\ rec \in DialogRecord /\ rec.kind = dialog[d].kind /\ rec.user = dialog[d].user
        /\ rec.live = dialog[d].live /\ rec.running = dialog[d].running
        /\ rec.pending = dialog[d].pending /\ rec.phone = dialog[d].phone /\ rec.step = "exchanging"
    BY <1>1, <2>1 DEF DialogRecord, Steps
  <2>3. /\ Put(d, rec) /\ UNCHANGED <<qr, sms, preview, stopped, revoked, cooling>>
        /\ dialog[d].step = "verifying"
    BY <1>7, <2>1 DEF SMSVerified, OnlyDialog, At
  <2> QED
    BY <1>1, <2>2, <2>3, GoesOn DEF Sound, Carried
<1>8. CASE SMSComplete(d)
  <2>1. /\ dialog[d].step = "exchanging" /\ dialog[d].kind = "sms"
        /\ UNCHANGED <<qr, preview, stopped, revoked, cooling>>
    BY <1>8 DEF SMSComplete, At
  <2>2. CASE Put(d, Freed(d)) /\ UNCHANGED sms
    BY <1>1, <1>2, <1>3, <2>1, <2>2, FreeKeeps
  <2>3. CASE /\ Put(d, [dialog[d] EXCEPT !.step = "over", !.bound = TRUE])
             /\ sms' = [sms EXCEPT ![Owner(d)] = None]
    <3>1. PICK rec : rec = [dialog[d] EXCEPT !.step = "over", !.bound = TRUE]
      OBVIOUS
    <3>2. /\ rec \in DialogRecord /\ rec.kind = "sms" /\ rec.user = dialog[d].user
          /\ rec.pending = dialog[d].pending /\ rec.phone = dialog[d].phone /\ rec.step = "over"
      BY <1>1, <2>1, <3>1 DEF DialogRecord, Steps
    <3>3. dialog' = [dialog EXCEPT ![d] = rec]
      BY <2>3, <3>1 DEF Put
    <3>4. /\ {qr', sms', preview'} \subseteq [Users -> Dialogs \union {None}]
          /\ \A u \in Users : sms'[u] \in {sms[u], None}
      BY <2>1, <2>3, MapsTyped
    <3>5. stopped' \subseteq Managers /\ revoked' \subseteq Dialogs /\ cooling' \subseteq Phones
      BY <2>1, MapsTyped
    <3>6. rec.user \in Users /\ (rec.step = "sending" \/ rec.pending = "sending" => rec.phone \in Phones)
      BY <1>1, <2>1, <3>2 DEF Sound
    <3> QED
      BY <2>1, <3>2, <3>3, <3>4, <3>5, <3>6, StepKeeps
  <2> QED
    BY <1>8, <2>2, <2>3 DEF SMSComplete
<1> QED
  BY <1>4, <1>5, <1>6, <1>7, <1>8 DEF SMSGoesOn

\* The waiting times of an SMS login end.
LEMMA SMSWaits ==
    ASSUME DialogInv, NEW d \in Dialogs, SMSTimesOut(d) \/ SMSExpires(d)
    PROVE  DialogInv'
<1>1. dialog[d] \in DialogRecord /\ Sound(d) /\ cooling \subseteq Phones
  BY Known, MapsTyped
<1>2. /\ dialog[d].kind = "sms" /\ dialog[d].step # "new"
      /\ UNCHANGED <<qr, sms, preview, stopped, revoked, cooling>>
  BY DEF SMSTimesOut, SMSExpires, Busy, At, OnlyDialog
<1>3. PICK rec : /\ Put(d, rec)
                 /\ \/ rec = [dialog[d] EXCEPT !.live = FALSE]
                    \/ rec = [dialog[d] EXCEPT !.pending = "none"]
                    \/ rec = [dialog[d] EXCEPT !.expired = TRUE, !.pending = "none"]
                    \/ rec = [dialog[d] EXCEPT !.cooling = FALSE]
  BY DEF SMSTimesOut, SMSExpires
<1>4. /\ rec \in DialogRecord /\ rec.kind = dialog[d].kind /\ rec.user = dialog[d].user
      /\ rec.phone = dialog[d].phone /\ rec.step = dialog[d].step
      /\ rec.pending \in {"none", dialog[d].pending}
  <2>1. CASE rec = [dialog[d] EXCEPT !.live = FALSE]
    BY <1>1, <2>1 DEF DialogRecord
  <2>2. CASE rec = [dialog[d] EXCEPT !.pending = "none"]
    BY <1>1, <2>2 DEF DialogRecord
  <2>3. CASE rec = [dialog[d] EXCEPT !.expired = TRUE, !.pending = "none"]
    BY <1>1, <2>3 DEF DialogRecord
  <2>4. CASE rec = [dialog[d] EXCEPT !.cooling = FALSE]
    BY <1>1, <2>4 DEF DialogRecord
  <2> QED
    BY <1>3, <2>1, <2>2, <2>3, <2>4
<1> QED
  BY <1>1, <1>2, <1>3, <1>4, GoesOn DEF Sound

\* Maps forget dialogs, which stay as they are.
LEMMA ForgetKeeps ==
    ASSUME DialogInv, UNCHANGED dialog,
           {qr', sms', preview'} \subseteq [Users -> Dialogs \union {None}],
           \A u \in Users : /\ qr'[u] \in {qr[u], None}
                            /\ sms'[u] \in {sms[u], None}
                            /\ preview'[u] \in {preview[u], None},
           cooling' \subseteq Phones, stopped' \subseteq Managers, revoked' \subseteq Dialogs,
           \A d \in revoked' \ revoked : Unwanted(d)'
    PROVE  DialogInv'
<1>1. DialogTypeOK'
  BY DEF DialogInv, DialogTypeOK
<1>2. \A d \in Dialogs : Follows(d) /\ Sound(d)'
  BY DEF Follows, DialogInv, Sound
<1>3. Turns(qr, qr', "qr") /\ Turns(sms, sms', "sms") /\ Turns(preview, preview', "preview")
  BY DEF Turns
<1>4. \A u \in Users : \A d \in Dialogs : qr'[u] = d => Runs(d)'
  BY MapsTyped DEF DialogInv, Runs
<1> QED
  BY <1>1, <1>2, <1>3, <1>4, DialogsKept

LEMMA UnchangedKeeps ==
    ASSUME DialogInv, UNCHANGED <<dialog, qr, sms, preview, cooling, stopped, revoked>>
    PROVE  DialogInv'
<1>1. /\ {qr', sms', preview'} \subseteq [Users -> Dialogs \union {None}]
      /\ cooling' \subseteq Phones /\ stopped' \subseteq Managers /\ revoked' \subseteq Dialogs
  BY MapsTyped
<1> QED
  BY <1>1, ForgetKeeps

LEMMA PreviewSteps ==
    ASSUME DialogInv, NEW d \in Dialogs, PreviewGoesOn(d) \/ PreviewCancel(d)
    PROVE  DialogInv'
<1>1. dialog[d] \in DialogRecord /\ Sound(d)
  BY Known
<1>2. ASSUME dialog[d].step # "new"
      PROVE  /\ Owner(d) \in Users
             /\ \A u \in Users : Drops(d)[u] \in {preview[u], None}
             /\ Drops(d) \in [Users -> Dialogs \union {None}]
             /\ Drops(d)[Owner(d)] # d
  BY <1>1, <1>2, MapsTyped DEF Sound, Owner, Drops
<1>3. /\ {qr, sms, preview} \subseteq [Users -> Dialogs \union {None}]
      /\ cooling \subseteq Phones /\ stopped \subseteq Managers /\ revoked \subseteq Dialogs
  BY MapsTyped
<1>4. ASSUME NEW uid \in Uids, NEW name \in Names, PreviewComplete(d, uid, name) PROVE DialogInv'
  <2>1. PICK rec : rec = [dialog[d] EXCEPT !.step = "ready", !.uid = uid, !.name = name]
    OBVIOUS
  <2>2. /\ Put(d, rec) /\ UNCHANGED <<qr, sms, preview, stopped, revoked, cooling>>
        /\ dialog[d].step = "opening"
    BY <1>4, <2>1 DEF PreviewComplete, OnlyDialog, At
  <2>3. /\ rec \in DialogRecord /\ rec.kind = dialog[d].kind /\ rec.user = dialog[d].user
        /\ rec.pending = dialog[d].pending /\ rec.phone = dialog[d].phone /\ rec.step = "ready"
    BY <1>1, <2>1 DEF DialogRecord, Steps
  <2> QED
    BY <1>1, <1>3, <2>2, <2>3, GoesOn DEF Sound
<1>5. CASE PreviewFails(d) \/ PreviewImport(d)
  <2>1. PICK rec : rec = [dialog[d] EXCEPT !.step = "over"]
    OBVIOUS
  <2>2. /\ Put(d, rec) /\ UNCHANGED <<qr, sms, stopped, revoked, cooling>>
        /\ preview' \in {preview, Drops(d)}
        /\ dialog[d].step \in {"opening", "importing"}
    BY <1>5, <2>1 DEF PreviewFails, PreviewImport, At
  <2>3. /\ rec \in DialogRecord /\ rec.kind = dialog[d].kind /\ rec.user = dialog[d].user
        /\ rec.pending = dialog[d].pending /\ rec.phone = dialog[d].phone /\ rec.step = "over"
        /\ rec.running = dialog[d].running /\ rec.live = dialog[d].live
    BY <1>1, <2>1 DEF DialogRecord, Steps
  <2>4. /\ {qr', sms', preview'} \subseteq [Users -> Dialogs \union {None}]
        /\ \A u \in Users : preview'[u] \in {preview[u], None}
        /\ cooling' \subseteq Phones /\ stopped' \subseteq Managers /\ revoked' \subseteq Dialogs
    BY <1>2, <1>3, <2>2
  <2>5. rec.kind = "qr" => ~(qr[rec.user] = d /\ rec.running)
    BY <1>1, <2>2, <2>3, Known DEF Current, Owner, Carried
  <2>6. /\ rec.user \in Users
        /\ rec.step = "sending" \/ rec.pending = "sending" => rec.phone \in Phones
    BY <1>1, <2>2, <2>3 DEF Sound
  <2>7. dialog' = [dialog EXCEPT ![d] = rec]
    BY <2>2 DEF Put
  <2> QED
    BY <2>2, <2>3, <2>4, <2>5, <2>6, <2>7, StepKeeps
<1>6. CASE PreviewCancel(d)
  <2>1. /\ dialog[d].step \in {"opening", "ready"} /\ preview' = Drops(d) /\ revoked' = revoked \union {d}
        /\ UNCHANGED <<dialog, qr, sms, cooling, stopped>>
    BY <1>6 DEF PreviewCancel
  <2>2. /\ {qr', sms', preview'} \subseteq [Users -> Dialogs \union {None}]
        /\ \A u \in Users : preview'[u] \in {preview[u], None}
        /\ cooling' \subseteq Phones /\ stopped' \subseteq Managers /\ revoked' \subseteq Dialogs
    BY <1>2, <1>3, <2>1
  <2>3. Unwanted(d)'
    BY <1>1, <1>2, <2>1 DEF Sound, Unwanted, Owner
  <2> QED
    BY <2>1, <2>2, <2>3, ForgetKeeps
<1> QED
  BY <1>4, <1>5, <1>6 DEF PreviewGoesOn

LEMMA QRCancelled ==
    ASSUME DialogInv, NEW u \in Users, NEW running \in BOOLEAN, qr[u] # None,
           running => dialog[qr[u]].running,
           Put(qr[u], [dialog[qr[u]] EXCEPT !.live = FALSE, !.running = running]),
           \/ UNCHANGED qr /\ ~running
           \/ qr' = [qr EXCEPT ![u] = None],
           revoked' = revoked \union {qr[u]}, UNCHANGED <<sms, preview, cooling, stopped>>
    PROVE  DialogInv'
<1>1. PICK d \in Dialogs : d = qr[u]
  BY MapsTyped
<1>2. dialog[d] \in DialogRecord /\ Sound(d)
  BY Known
<1>3. dialog[d].kind = "qr" /\ dialog[d].user = u /\ dialog[d].step # "new"
  BY <1>1 DEF DialogInv, Leads
<1>4. PICK rec : rec = [dialog[d] EXCEPT !.live = FALSE, !.running = running]
  OBVIOUS
<1>5. /\ rec \in DialogRecord /\ rec.kind = "qr" /\ rec.user = u /\ rec.pending = dialog[d].pending
      /\ rec.phone = dialog[d].phone /\ rec.step = dialog[d].step
      /\ rec.running = running /\ rec.live = FALSE
  BY <1>2, <1>3, <1>4 DEF DialogRecord
<1>6. dialog' = [dialog EXCEPT ![d] = rec] /\ dialog'[d] = rec
  BY <1>1, <1>4, MapsTyped DEF Put
<1>7. Unwanted(d)'
  BY <1>3, <1>5, <1>6 DEF Unwanted, QRWanted
<1>8. /\ {qr', sms', preview'} \subseteq [Users -> Dialogs \union {None}]
      /\ \A v \in Users : qr'[v] \in {qr[v], None}
      /\ cooling' \subseteq Phones /\ stopped' \subseteq Managers /\ revoked' \subseteq Dialogs
      /\ qr'[u] = d => ~running
  BY <1>1, MapsTyped
<1>9. \A e \in revoked' \ revoked : Unwanted(e)'
  BY <1>1, <1>7
<1> QED
  BY <1>2, <1>3, <1>5, <1>6, <1>8, <1>9, StepKeeps, ZenonT(40) DEF Sound

LEMMA SMSCancelled ==
    ASSUME DialogInv, NEW u \in Users, SMSCancel(u), UNCHANGED <<cooling, stopped>>
    PROVE  DialogInv'
<1>1. /\ {qr', sms', preview'} \subseteq [Users -> Dialogs \union {None}]
      /\ \A v \in Users : sms'[v] \in {sms[v], None} /\ qr'[v] = qr[v] /\ preview'[v] = preview[v]
      /\ sms'[u] = None
      /\ cooling' \subseteq Phones /\ stopped' \subseteq Managers
  BY MapsTyped DEF SMSCancel
<1>2. CASE sms[u] = None
  BY <1>1, <1>2, MapsTyped, ForgetKeeps DEF SMSCancel
<1>3. CASE sms[u] # None
  <2>1. PICK d \in Dialogs : d = sms[u]
    BY <1>3, MapsTyped
  <2>2. dialog[d] \in DialogRecord /\ Sound(d)
    BY Known
  <2>3. dialog[d].kind = "sms" /\ dialog[d].user = u /\ dialog[d].step # "new"
    BY <1>3, <2>1 DEF DialogInv, Leads
  <2>4. PICK rec : rec = [dialog[d] EXCEPT !.live = FALSE]
    OBVIOUS
  <2>5. /\ rec \in DialogRecord /\ rec.kind = "sms" /\ rec.user = u /\ rec.pending = dialog[d].pending
        /\ rec.phone = dialog[d].phone /\ rec.step = dialog[d].step
    BY <2>2, <2>3, <2>4 DEF DialogRecord
  <2>6. /\ dialog' = [dialog EXCEPT ![d] = rec] /\ dialog'[d] = rec /\ revoked' = revoked \union {d}
    BY <1>3, <2>1, <2>4, MapsTyped DEF Put, SMSCancel
  <2>7. Unwanted(d)'
    BY <1>1, <2>1, <2>3, <2>5, <2>6, MapsTyped DEF Unwanted, CurrentSMS, Owner
  <2>8. revoked' \subseteq Dialogs /\ \A e \in revoked' \ revoked : Unwanted(e)'
    BY <2>6, <2>7, MapsTyped
  <2>9. /\ rec.step = "sending" \/ rec.pending = "sending" => rec.phone \in Phones
        /\ rec.step \in {"opening", "ready"} => rec.kind = "preview"
    BY <2>2, <2>3, <2>5 DEF Sound
  <2>10. rec.kind = dialog[d].kind /\ rec.kind # "qr" /\ rec.user \in Users /\ rec.step # "new"
         /\ rec.user = dialog[d].user
    BY <2>3, <2>5
  <2> QED
    BY <1>1, <2>5, <2>6, <2>8, <2>9, <2>10, StepKeeps
<1> QED
  BY <1>2, <1>3

LEMMA PreviewDropped ==
    ASSUME DialogInv, NEW u \in Users, PreviewDrop(u), UNCHANGED <<cooling, stopped>>
    PROVE  DialogInv'
<1>1. /\ {qr', sms', preview'} \subseteq [Users -> Dialogs \union {None}]
      /\ \A v \in Users : preview'[v] \in {preview[v], None}
      /\ preview'[u] = None
      /\ cooling' \subseteq Phones /\ stopped' \subseteq Managers /\ revoked' \subseteq Dialogs
  BY MapsTyped DEF PreviewDrop
<1>2. ASSUME NEW d \in Dialogs, preview[u] = d PROVE Unwanted(d)'
  <2>1. dialog[d].kind = "preview" /\ dialog[d].user = u /\ dialog[d].step # "new"
    BY <1>2, MapsTyped DEF DialogInv, Leads
  <2> QED
    BY <1>1, <2>1, MapsTyped DEF PreviewDrop, Unwanted, Owner
<1>3. \A d \in revoked' \ revoked : Unwanted(d)'
  BY <1>2, MapsTyped DEF PreviewDrop
<1> QED
  BY <1>1, <1>3, ForgetKeeps DEF PreviewDrop

LEMMA CancelKeeps ==
    ASSUME DialogInv, NEW u \in Users, NEW manager, CancelOf(u, manager), UNCHANGED <<cooling, stopped>>
    PROVE  DialogInv'
<1>1. CASE QRCancel(u)
  <2>1. CASE qr[u] = None
    BY <1>1, <2>1, UnchangedKeeps DEF QRCancel
  <2>2. CASE qr[u] # None
    BY <1>1, <2>2, QRCancelled DEF QRCancel
  <2> QED
    BY <2>1, <2>2
<1> QED
  BY <1>1, SMSCancelled, PreviewDropped DEF CancelOf

LEMMA ContinueKeeps ==
    ASSUME DialogInv, NEW u \in Users, Continues(u)
    PROVE  DialogInv'
<1>1. CASE SMSVerify(u) \/ SMSAnswer(u)
  <2>1. PICK d \in Dialogs : d = sms[u]
    BY <1>1, MapsTyped DEF SMSVerify, SMSAnswer
  <2>2. dialog[d] \in DialogRecord /\ Sound(d) /\ dialog[d].kind = "sms" /\ dialog[d].step # "new"
    BY <2>1, Known, MapsTyped DEF DialogInv, Leads
  <2>3. PICK rec : /\ Put(d, rec)
                   /\ \/ rec = [dialog[d] EXCEPT !.step = "verifying", !.live = TRUE,
                                                !.tries = dialog[d].tries + 1]
                      \/ /\ rec = [dialog[d] EXCEPT !.step = dialog[d].pending, !.pending = "none", !.live = TRUE]
                         /\ dialog[d].pending # "none"
    BY <1>1, <2>1 DEF SMSVerify, SMSAnswer
  <2>4. UNCHANGED <<qr, sms, preview, stopped, revoked, cooling>>
    BY <1>1 DEF SMSVerify, SMSAnswer, OnlyDialog
  <2>5. /\ rec \in DialogRecord /\ rec.kind = dialog[d].kind /\ rec.user = dialog[d].user
        /\ rec.phone = dialog[d].phone /\ rec.step \in {"sending", "verifying"}
        /\ rec.step = "sending" => dialog[d].pending = "sending"
        /\ rec.pending = "sending" => dialog[d].pending = "sending"
    <3>1. CASE rec = [dialog[d] EXCEPT !.step = "verifying", !.live = TRUE, !.tries = dialog[d].tries + 1]
      <4>1. dialog[d].tries + 1 \in Nat
        BY <2>2 DEF DialogRecord
      <4> QED
        BY <2>2, <3>1, <4>1 DEF DialogRecord, Steps
    <3>2. CASE /\ rec = [dialog[d] EXCEPT !.step = dialog[d].pending, !.pending = "none", !.live = TRUE]
               /\ dialog[d].pending # "none"
      BY <2>2, <3>2 DEF DialogRecord, Steps
    <3> QED
      BY <2>3, <3>1, <3>2
  <2>6. cooling' \subseteq Phones
    BY <2>4, MapsTyped
  <2> QED
    BY <2>2, <2>3, <2>4, <2>5, <2>6, GoesOn DEF Sound
<1>2. CASE PreviewConsume(u)
  <2>1. PICK d \in Dialogs : d = preview[u]
    BY <1>2, MapsTyped DEF PreviewConsume
  <2>2. dialog[d] \in DialogRecord /\ Sound(d) /\ dialog[d].kind = "preview" /\ dialog[d].step # "new"
    BY <2>1, Known, MapsTyped DEF DialogInv, Leads
  <2>3. PICK rec : rec = [dialog[d] EXCEPT !.step = "importing", !.bound = TRUE]
    OBVIOUS
  <2>4. /\ rec \in DialogRecord /\ rec.kind = dialog[d].kind /\ rec.user = dialog[d].user
        /\ rec.phone = dialog[d].phone /\ rec.step = "importing" /\ rec.pending = dialog[d].pending
    BY <2>2, <2>3 DEF DialogRecord, Steps
  <2>5. /\ dialog' = [dialog EXCEPT ![d] = rec] /\ preview' = [preview EXCEPT ![u] = None]
        /\ UNCHANGED <<qr, sms, cooling, stopped, revoked>>
    BY <1>2, <2>1, <2>3 DEF PreviewConsume, Put
  <2>6. /\ {qr', sms', preview'} \subseteq [Users -> Dialogs \union {None}]
        /\ \A v \in Users : preview'[v] \in {preview[v], None}
        /\ cooling' \subseteq Phones /\ stopped' \subseteq Managers /\ revoked' \subseteq Dialogs
    BY <2>5, MapsTyped
  <2>7. /\ rec.user \in Users /\ rec.kind # "qr"
        /\ rec.step = "sending" \/ rec.pending = "sending" => rec.phone \in Phones
    BY <2>2, <2>4 DEF Sound
  <2> QED
    BY <2>2, <2>4, <2>5, <2>6, <2>7, StepKeeps
<1>3. CASE RevokeNext(u)
  <2>1. CASE Head(revoking[u]) = "delete"
    BY <1>3, <2>1, UnchangedKeeps DEF RevokeNext
  <2>2. CASE Head(revoking[u]) # "delete"
    BY <1>3, <2>2, CancelKeeps DEF RevokeNext
  <2> QED
    BY <2>1, <2>2
<1> QED
  BY <1>1, <1>2, <1>3 DEF Continues

LEMMA RefreshKeeps ==
    ASSUME DialogInv, NEW u \in Users, QRRefresh(u)
    PROVE  DialogInv'
<1>1. PICK d \in Dialogs : d = qr[u]
  BY MapsTyped DEF QRRefresh
<1>2. dialog[d] \in DialogRecord
  BY Known
<1>3. PICK running \in BOOLEAN : running = dialog[d].running
  BY <1>2 DEF DialogRecord
<1>4. [dialog[d] EXCEPT !.live = FALSE] = [dialog[d] EXCEPT !.live = FALSE, !.running = running]
  BY <1>2, <1>3 DEF DialogRecord
<1> QED
  BY <1>1, <1>3, <1>4, QRCancelled DEF QRRefresh

LEMMA CoolKeeps ==
    ASSUME DialogInv, NEW p \in Phones, PhoneCools(p)
    PROVE  DialogInv'
<1>1. /\ cooling' = cooling \ {p} /\ UNCHANGED <<qr, sms, preview, stopped, revoked>>
      /\ dialog' = [d \in Dialogs |-> IF dialog[d].phone = p THEN [dialog[d] EXCEPT !.cooling = FALSE]
                                      ELSE dialog[d]]
  BY DEF PhoneCools
<1>2. \A d \in Dialogs :
        /\ dialog'[d] \in DialogRecord /\ dialog'[d].kind = dialog[d].kind /\ dialog'[d].user = dialog[d].user
        /\ dialog'[d].step = dialog[d].step /\ dialog'[d].pending = dialog[d].pending
        /\ dialog'[d].phone = dialog[d].phone /\ dialog'[d].live = dialog[d].live
        /\ dialog'[d].running = dialog[d].running
  <2> TAKE d \in Dialogs
  <2>1. dialog[d] \in DialogRecord
    BY MapsTyped
  <2>2. CASE dialog[d].phone = p
    <3>1. dialog'[d] = [dialog[d] EXCEPT !.cooling = FALSE]
      BY <1>1, <2>2
    <3> QED
      BY <2>1, <3>1 DEF DialogRecord
  <2>3. CASE dialog[d].phone # p
    <3>1. dialog'[d] = dialog[d]
      BY <1>1, <2>3
    <3> QED
      BY <2>1, <3>1
  <2> QED
    BY <2>2, <2>3
<1>3. DialogTypeOK'
  BY <1>1, <1>2, MapsTyped DEF DialogTypeOK
<1>4. \A d \in Dialogs : Follows(d) /\ Sound(d)'
  BY <1>2 DEF Follows, DialogInv, Sound
<1>5. Turns(qr, qr', "qr") /\ Turns(sms, sms', "sms") /\ Turns(preview, preview', "preview")
  BY <1>1 DEF Turns
<1>6. \A u \in Users : \A d \in Dialogs : qr'[u] = d => Runs(d)'
  BY <1>1, <1>2, MapsTyped DEF DialogInv, Runs
<1> QED
  BY <1>1, <1>3, <1>4, <1>5, <1>6, DialogsKept

\* What stopping a manager does to its dialogs.
LEMMA StopEffect ==
    ASSUME DialogInv, StopNext
    PROVE  \E manager \in Managers, its \in SUBSET Dialogs :
             /\ stopped' = stopped \union {manager}
             /\ dialog' = [d \in Dialogs |->
                              IF d \in its THEN [dialog[d] EXCEPT !.live = FALSE, !.running = FALSE]
                              ELSE dialog[d]]
             /\ preview' = IF manager = "preview" THEN NoDialogs ELSE preview
             /\ qr' = IF manager = "qr" THEN NoDialogs ELSE qr
             /\ sms' = IF manager = "sms" THEN NoDialogs ELSE sms
             /\ revoked' = revoked \union its
             /\ \A d \in its : dialog[d].kind = manager /\ dialog[d].step # "new" /\ dialog[d].user \in Users
             /\ UNCHANGED <<accountVars, cooling, revoking>>
<1> DEFINE maps == [preview |-> preview, qr |-> qr, sms |-> sms]
           idle(d) == [dialog[d] EXCEPT !.live = FALSE, !.running = FALSE]
           Stops(manager, its) ==
             /\ stopped' = stopped \union {manager}
             /\ dialog' = [d \in Dialogs |-> IF d \in its THEN idle(d) ELSE dialog[d]]
             /\ preview' = IF manager = "preview" THEN NoDialogs ELSE preview
             /\ qr' = IF manager = "qr" THEN NoDialogs ELSE qr
             /\ sms' = IF manager = "sms" THEN NoDialogs ELSE sms
             /\ revoked' = revoked \union its
             /\ UNCHANGED <<accountVars, cooling, revoking>>
<1>1. PICK n \in 1 .. Len(CancelUserWork) :
        Stops(CancelUserWork[n], {maps[CancelUserWork[n]][u] : u \in Users} \ {None})
  BY Zenon DEF StopNext
<1> HIDE DEF Stops
<1>2. CancelUserWork[n] \in Managers
  BY DEF CancelUserWork, Managers
<1>3. PICK manager \in Managers : manager = CancelUserWork[n]
  BY <1>2
<1>4. \/ manager = "preview" /\ maps[manager] = preview
      \/ manager = "qr" /\ maps[manager] = qr
      \/ manager = "sms" /\ maps[manager] = sms
  BY <1>3 DEF Managers
<1> HIDE DEF maps
<1>5. PICK its : its = {maps[manager][u] : u \in Users} \ {None}
  OBVIOUS
<1>6. its \in SUBSET Dialogs
  BY <1>4, <1>5, MapsTyped
<1>7. \A d \in its : dialog[d].kind = manager /\ dialog[d].step # "new" /\ dialog[d].user \in Users
  BY <1>4, <1>5 DEF DialogInv, Leads
<1>8. Stops(manager, its)
  BY <1>1, <1>3, <1>5
<1> QED
  BY <1>6, <1>7, <1>8 DEF Stops

LEMMA StopKeeps ==
    ASSUME DialogInv, StopNext
    PROVE  DialogInv'
<1>1. PICK manager \in Managers, its \in SUBSET Dialogs :
        /\ stopped' = stopped \union {manager}
        /\ dialog' = [d \in Dialogs |->
                         IF d \in its THEN [dialog[d] EXCEPT !.live = FALSE, !.running = FALSE]
                         ELSE dialog[d]]
        /\ preview' = IF manager = "preview" THEN NoDialogs ELSE preview
        /\ qr' = IF manager = "qr" THEN NoDialogs ELSE qr
        /\ sms' = IF manager = "sms" THEN NoDialogs ELSE sms
        /\ revoked' = revoked \union its
        /\ \A d \in its : dialog[d].kind = manager /\ dialog[d].step # "new" /\ dialog[d].user \in Users
        /\ UNCHANGED cooling
  BY StopEffect
<1>2. \A d \in Dialogs :
        /\ dialog'[d] \in DialogRecord /\ dialog'[d].kind = dialog[d].kind /\ dialog'[d].user = dialog[d].user
        /\ dialog'[d].step = dialog[d].step /\ dialog'[d].pending = dialog[d].pending
        /\ dialog'[d].phone = dialog[d].phone /\ (dialog'[d].live => dialog[d].live)
        /\ d \in its => ~dialog'[d].running /\ ~dialog'[d].live
        /\ d \notin its => dialog'[d] = dialog[d]
  <2> TAKE d \in Dialogs
  <2>1. dialog[d] \in DialogRecord
    BY MapsTyped
  <2>2. CASE d \in its
    <3>1. dialog'[d] = [dialog[d] EXCEPT !.live = FALSE, !.running = FALSE]
      BY <1>1, <2>2
    <3> QED
      BY <2>1, <2>2, <3>1 DEF DialogRecord
  <2>3. CASE d \notin its
    <3>1. dialog'[d] = dialog[d]
      BY <1>1, <2>3
    <3> QED
      BY <2>1, <2>3, <3>1
  <2> QED
    BY <2>2, <2>3
<1>3. /\ NoDialogs \in [Users -> Dialogs \union {None}]
      /\ \A u \in Users : NoDialogs[u] = None
  BY DEF NoDialogs
<1>4. DialogTypeOK'
  BY <1>1, <1>2, <1>3, MapsTyped, ZenonT(40) DEF DialogTypeOK
<1>5. \A d \in Dialogs : Follows(d) /\ Sound(d)'
  BY <1>2 DEF Follows, DialogInv, Sound
<1>6. Turns(qr, qr', "qr") /\ Turns(sms, sms', "sms") /\ Turns(preview, preview', "preview")
  BY <1>1, <1>3 DEF Turns
<1>7. \A u \in Users : \A d \in Dialogs : qr'[u] = d => Runs(d)'
  <2> SUFFICES ASSUME NEW u \in Users, NEW d \in Dialogs, qr'[u] = d PROVE Runs(d)'
    OBVIOUS
  <2>1. qr[u] = d
    BY <1>1, <1>3, MapsTyped
  <2>2. Runs(d)
    BY <2>1, MapsTyped DEF DialogInv
  <2> QED
    BY <1>2, <2>2 DEF Runs
<1>8. \A d \in its : Unwanted(d)'
  <2> SUFFICES ASSUME NEW d \in its PROVE Unwanted(d)'
    OBVIOUS
  <2>1. /\ dialog'[d].kind = manager /\ dialog'[d].step # "new" /\ dialog'[d].user \in Users
        /\ ~dialog'[d].live /\ d # None
    BY <1>1, <1>2, MapsTyped, ZenonT(40)
  <2> QED
    BY <1>1, <1>3, <2>1 DEF Unwanted, QRWanted, CurrentSMS, Owner
<1> QED
  BY <1>1, <1>4, <1>5, <1>6, <1>7, <1>8, DialogsKept

LEMMA NextDialogs ==
    ASSUME DialogInv, [LoginsNext]_loginVars
    PROVE  DialogInv'
<1>1. CASE Dialogue
  BY <1>1, ContinueKeeps, BeginKeeps, QRSteps, SMSSteps, PreviewSteps, StopKeeps DEF Dialogue
<1>2. CASE Acts
  <2>1. ASSUME NEW u \in Users, Cancel(u) PROVE DialogInv'
    BY <2>1, CancelKeeps DEF Cancel
  <2>2. ASSUME NEW u \in Users, Logout(u) \/ ChangeAccess(u) \/ Delete(u) PROVE DialogInv'
    BY <2>2, UnchangedKeeps DEF Logout, ChangeAccess, Delete, Revokes, dialogVars
  <2>3. CASE TimePasses
    BY <2>3, QRSteps, SMSWaits, PreviewSteps, CoolKeeps DEF TimePasses
  <2>4. CASE UNCHANGED dialogVars
    BY <2>4, UnchangedKeeps DEF dialogVars
  <2> QED
    BY <1>2, <2>1, <2>2, <2>3, <2>4, RefreshKeeps, StopKeeps DEF Acts
<1>3. CASE UNCHANGED loginVars
  BY <1>3, UnchangedKeeps DEF loginVars, dialogVars
<1> QED
  BY <1>1, <1>2, <1>3 DEF LoginsNext

-----------------------------------------------------------------------------
(* The dialogs and the accounts they bind. *)

LEMMA NextAccounts ==
    ASSUME AccountsInv, DialogInv, [LoginsNext]_loginVars
    PROVE  AccountsInv' /\ HandsKept
<1>1. ASSUME UNCHANGED accountVars PROVE AccountsInv' /\ HandsKept
  <2>1. AccountsTypeOK' /\ exchanging' \subseteq Bound
    BY <1>1 DEF accountVars, AccountsInv, AccountsTypeOK, AccountsSound
  <2> QED
    BY <1>1, <2>1, StillAccounts DEF accountVars
<1>2. ASSUME NEW d \in Dialogs, dialog[d].step # "new",
             CanBind(Owner(d), dialog[d].target, dialog[d].uid, dialog[d].name),
             Bind(Owner(d), dialog[d].target, dialog[d].uid, dialog[d].name),
             UNCHANGED <<member, exchanging>>
      PROVE  AccountsInv' /\ HandsKept
  <2>1. /\ Owner(d) \in Users /\ dialog[d].target \in Ids \union {None}
        /\ dialog[d].uid \in Uids \union {None} /\ dialog[d].name \in Names \union {None}
    BY <1>2, Known DEF Sound, Owner, DialogRecord
  <2> QED
    BY <1>2, <2>1, BindKeeps
<1>3. ASSUME NEW d \in Dialogs, QRGoesOn(d) PROVE AccountsInv' /\ HandsKept
  <2>1. CASE QRComplete(d)
    BY <1>1, <1>2, <2>1 DEF QRComplete, At
  <2>2. CASE ~QRComplete(d)
    BY <1>1, <1>3, <2>2 DEF QRGoesOn, QRFetched, QRConfirmed, QRFails, QRFinish, OnlyDialog
  <2> QED
    BY <2>1, <2>2
<1>4. ASSUME NEW d \in Dialogs, SMSGoesOn(d) PROVE AccountsInv' /\ HandsKept
  <2>1. CASE SMSComplete(d)
    BY <1>1, <1>2, <2>1 DEF SMSComplete, At
  <2>2. CASE ~SMSComplete(d)
    BY <1>1, <1>4, <2>2 DEF SMSGoesOn, SMSSent, SMSChallenged, SMSVerified, SMSFails, OnlyDialog
  <2> QED
    BY <2>1, <2>2
<1>5. ASSUME NEW d \in Dialogs, PreviewGoesOn(d) PROVE AccountsInv' /\ HandsKept
  <2>1. CASE PreviewImport(d) /\ ~UNCHANGED accountVars
    <3>1. PICK given : given = Given(Owner(d), dialog[d].uid, dialog[d].name)
      OBVIOUS
    <3>2. /\ Owner(d) \in Users /\ dialog[d].uid \in Uids \union {None}
          /\ dialog[d].name \in Names \union {None}
      BY <2>1, Known DEF PreviewImport, At, Sound, Owner, DialogRecord
    <3>3. given \in AccountRecord /\ given.state = "bound" /\ given.owner = Owner(d)
      BY <3>1, <3>2 DEF Given, AccountRecord
    <3>4. /\ member[Owner(d)] = "active" /\ CanAdd(given, None) /\ AddLocked(given, None)
          /\ UNCHANGED <<member, exchanging>>
      BY <2>1, <3>1 DEF PreviewImport
    <3> QED
      BY <3>2, <3>3, <3>4, AddKeeps
  <2>2. CASE ~PreviewImport(d)
    BY <1>1, <1>5, <2>2 DEF PreviewGoesOn, PreviewComplete, PreviewFails, OnlyDialog
  <2> QED
    BY <1>1, <2>1, <2>2
<1>6. ASSUME NEW u \in Users, Continues(u) PROVE AccountsInv' /\ HandsKept
  <2>1. UNCHANGED accountVars \/ DeleteUser(u)
    BY <1>6 DEF Continues, SMSVerify, SMSAnswer, PreviewConsume, RevokeNext, OnlyDialog
  <2> QED
    BY <1>1, <2>1, DeleteUserKeeps
<1>7. ASSUME NEW u \in Users, NEW d \in Dialogs, Begins(u, d) PROVE AccountsInv' /\ HandsKept
  BY <1>1, <1>7 DEF Begins, QRStart, SMSSend, PreviewReserve
<1>8. CASE StopNext
  BY <1>1, <1>8 DEF StopNext
<1>9. CASE Acts
  <2>1. ASSUME NEW u \in Users, QRRefresh(u) \/ Cancel(u) \/ Logout(u) \/ Delete(u)
        PROVE  AccountsInv' /\ HandsKept
    BY <1>1, <2>1 DEF QRRefresh, Cancel, Logout, Delete
  <2>2. ASSUME NEW u \in Users, ChangeAccess(u) PROVE AccountsInv' /\ HandsKept
    BY <1>1, <2>2, SetMemberKeeps DEF ChangeAccess
  <2>3. CASE TimePasses
    <3>1. UNCHANGED accountVars
      BY <2>3 DEF TimePasses, QRTimesOut, SMSTimesOut, SMSExpires, PreviewCancel, PhoneCools, OnlyDialog
    <3> QED
      BY <1>1, <3>1
  <2> QED
    BY <1>8, <1>9, <2>1, <2>2, <2>3, AccountsSteps DEF Acts
<1>10. CASE UNCHANGED loginVars
  BY <1>1, <1>10 DEF loginVars
<1> QED
  BY <1>3, <1>4, <1>5, <1>6, <1>7, <1>8, <1>9, <1>10 DEF LoginsNext, Dialogue

\* OnlyWantedBind, of one step.
WantedBind ==
    \A d \in Dialogs : dialog'[d].bound /\ ~dialog[d].bound =>
        /\ d \notin revoked
        /\ dialog[d].kind # "preview" => member[Owner(d)] = "active"

\* A step in which one dialog goes on, and binds only if it is still wanted.
LEMMA OneBinds ==
    ASSUME DialogInv, NEW d \in Dialogs, NEW rec, Put(d, rec),
           \/ rec.bound = dialog[d].bound
           \/ d \notin revoked /\ (dialog[d].kind # "preview" => member[Owner(d)] = "active")
    PROVE  WantedBind
<1>1. dialog'[d] = rec /\ \A e \in Dialogs \ {d} : dialog'[e] = dialog[e]
  BY MapsTyped DEF Put
<1> QED
  BY <1>1 DEF WantedBind

LEMMA NoneBinds ==
    ASSUME \A d \in Dialogs : dialog'[d].bound => dialog[d].bound
    PROVE  WantedBind
BY DEF WantedBind

LEMMA GoingOnBinds ==
    ASSUME DialogInv, NEW d \in Dialogs, QRGoesOn(d) \/ SMSGoesOn(d) \/ PreviewGoesOn(d)
    PROVE  WantedBind
<1>1. dialog[d] \in DialogRecord
  BY Known
<1>2. d \in revoked => Unwanted(d)
  BY DEF DialogInv
<1>3. CASE QRComplete(d)
  <2>1. CASE QRWanted(d) /\ CanBind(Owner(d), dialog[d].target, dialog[d].uid, dialog[d].name)
    <3>1. Put(d, [dialog[d] EXCEPT !.step = "ending", !.bound = TRUE])
      BY <1>3, <2>1 DEF QRComplete
    <3>2. d \notin revoked /\ member[Owner(d)] = "active"
      BY <1>2, <1>3, <2>1 DEF Unwanted, CanBind, QRComplete
    <3> QED
      BY <3>1, <3>2, OneBinds
  <2>2. CASE ~(QRWanted(d) /\ CanBind(Owner(d), dialog[d].target, dialog[d].uid, dialog[d].name))
    <3>1. Put(d, [dialog[d] EXCEPT !.step = "ending"])
      BY <1>3, <2>2 DEF QRComplete
    <3>2. [dialog[d] EXCEPT !.step = "ending"].bound = dialog[d].bound
      BY <1>1 DEF DialogRecord
    <3> QED
      BY <3>1, <3>2, OneBinds
  <2> QED
    BY <2>1, <2>2
<1>4. CASE SMSComplete(d)
  <2>1. CASE CurrentSMS(d) /\ CanBind(Owner(d), dialog[d].target, dialog[d].uid, dialog[d].name)
             /\ Put(d, [dialog[d] EXCEPT !.step = "over", !.bound = TRUE])
    <3>1. d \notin revoked /\ member[Owner(d)] = "active"
      BY <1>2, <1>4, <2>1 DEF Unwanted, CanBind, SMSComplete
    <3> QED
      BY <2>1, <3>1, OneBinds
  <2>2. CASE Put(d, Freed(d))
    BY <1>1, <2>2, FreedFields, OneBinds
  <2> QED
    BY <1>4, <2>1, <2>2 DEF SMSComplete
<1>5. CASE QRFetched(d) \/ (\E uid \in Uids : QRConfirmed(d, uid)) \/ QRFails(d)
  <2>1. PICK step, uid : \/ Put(d, [dialog[d] EXCEPT !.step = step])
                         \/ Put(d, [dialog[d] EXCEPT !.step = step, !.uid = uid])
    BY <1>5 DEF QRFetched, QRConfirmed, QRFails
  <2>2. /\ [dialog[d] EXCEPT !.step = step].bound = dialog[d].bound
        /\ [dialog[d] EXCEPT !.step = step, !.uid = uid].bound = dialog[d].bound
    BY <1>1 DEF DialogRecord
  <2> QED
    BY <2>1, <2>2, OneBinds
<1>6. CASE QRFinish(d)
  <2>1. Finished(d).bound = dialog[d].bound
    <3>1. /\ [dialog[d] EXCEPT !.step = "over"].bound = dialog[d].bound
          /\ [dialog[d] EXCEPT !.step = "over", !.running = FALSE, !.live = FALSE].bound = dialog[d].bound
      BY <1>1 DEF DialogRecord
    <3> QED
      BY <3>1 DEF Finished
  <2> QED
    BY <1>6, <2>1, OneBinds DEF QRFinish
<1>7. CASE SMSSent(d) \/ SMSChallenged(d) \/ SMSFails(d)
  <2>1. PICK free \in DialogRecord : free = Freed(d) /\ free.bound = dialog[d].bound
    BY <1>1, FreedFields
  <2>2. /\ [free EXCEPT !.sent = TRUE, !.pending = "none", !.expired = FALSE, !.cooling = TRUE].bound = free.bound
        /\ [free EXCEPT !.pending = dialog[d].step, !.challenges = dialog[d].challenges + 1].bound = free.bound
    BY DEF DialogRecord
  <2>3. \/ Put(d, free)
        \/ Put(d, [free EXCEPT !.sent = TRUE, !.pending = "none", !.expired = FALSE, !.cooling = TRUE])
        \/ Put(d, [free EXCEPT !.pending = dialog[d].step, !.challenges = dialog[d].challenges + 1])
    BY <1>7, <2>1 DEF SMSSent, SMSChallenged, SMSFails
  <2> QED
    BY <2>1, <2>2, <2>3, OneBinds
<1>8. CASE \/ \E uid \in Uids : SMSVerified(d, uid)
           \/ \E uid \in Uids, name \in Names : PreviewComplete(d, uid, name)
           \/ PreviewFails(d) \/ PreviewImport(d)
  <2>1. PICK uid, name : \/ Put(d, [dialog[d] EXCEPT !.step = "exchanging", !.uid = uid])
                         \/ Put(d, [dialog[d] EXCEPT !.step = "ready", !.uid = uid, !.name = name])
                         \/ Put(d, [dialog[d] EXCEPT !.step = "over"])
    BY <1>8 DEF SMSVerified, PreviewComplete, PreviewFails, PreviewImport
  <2>2. /\ [dialog[d] EXCEPT !.step = "exchanging", !.uid = uid].bound = dialog[d].bound
        /\ [dialog[d] EXCEPT !.step = "ready", !.uid = uid, !.name = name].bound = dialog[d].bound
        /\ [dialog[d] EXCEPT !.step = "over"].bound = dialog[d].bound
    BY <1>1 DEF DialogRecord
  <2> QED
    BY <2>1, <2>2, OneBinds
<1> QED
  BY <1>3, <1>4, <1>5, <1>6, <1>7, <1>8 DEF QRGoesOn, SMSGoesOn, PreviewGoesOn

\* Cancelling, refreshing and what users do between two requests.
LEMMA ContinuingBinds ==
    ASSUME DialogInv, NEW u \in Users, Continues(u) \/ Cancel(u) \/ QRRefresh(u)
    PROVE  WantedBind
<1>1. ASSUME NEW d \in Dialogs, NEW rec, Put(d, rec),
             \/ rec = [dialog[d] EXCEPT !.step = "verifying", !.live = TRUE, !.tries = dialog[d].tries + 1]
             \/ rec = [dialog[d] EXCEPT !.step = dialog[d].pending, !.pending = "none", !.live = TRUE]
             \/ rec = [dialog[d] EXCEPT !.live = FALSE]
             \/ rec = [dialog[d] EXCEPT !.live = FALSE, !.running = FALSE]
      PROVE  WantedBind
  <2>1. dialog[d] \in DialogRecord
    BY Known
  <2>2. rec.bound = dialog[d].bound
    BY <1>1, <2>1 DEF DialogRecord
  <2> QED
    BY <1>1, <2>2, OneBinds
<1>2. CASE SMSVerify(u) \/ SMSAnswer(u)
  BY <1>1, <1>2, MapsTyped DEF SMSVerify, SMSAnswer
<1>3. CASE PreviewConsume(u)
  <2>1. PICK d \in Dialogs : d = preview[u]
    BY <1>3, MapsTyped DEF PreviewConsume
  <2>2. dialog[d].kind = "preview" /\ dialog[d].user = u
    BY <2>1, MapsTyped DEF DialogInv, Leads
  <2>3. d \notin revoked
    BY <2>1, <2>2 DEF DialogInv, Unwanted, Owner
  <2> QED
    BY <1>3, <2>1, <2>2, <2>3, OneBinds DEF PreviewConsume
<1>4. ASSUME NEW manager, CancelOf(u, manager) PROVE WantedBind
  <2>1. CASE UNCHANGED dialog
    BY <2>1, NoneBinds
  <2>2. CASE ~UNCHANGED dialog
    BY <1>1, <1>4, <2>2, MapsTyped DEF CancelOf, QRCancel, SMSCancel, PreviewDrop
  <2> QED
    BY <2>1, <2>2
<1>5. CASE RevokeNext(u)
  <2>1. CASE Head(revoking[u]) = "delete"
    BY <1>5, <2>1, NoneBinds DEF RevokeNext
  <2>2. CASE Head(revoking[u]) # "delete"
    BY <1>4, <1>5, <2>2 DEF RevokeNext
  <2> QED
    BY <2>1, <2>2
<1>6. CASE Cancel(u)
  BY <1>4, <1>6 DEF Cancel
<1>7. CASE QRRefresh(u)
  BY <1>1, <1>7, MapsTyped DEF QRRefresh
<1> QED
  BY <1>2, <1>3, <1>5, <1>6, <1>7 DEF Continues

LEMMA BeginningBinds ==
    ASSUME DialogInv, NEW u \in Users, NEW d \in Dialogs, Begins(u, d)
    PROVE  WantedBind
<1>1. dialog[d] \in DialogRecord
  BY Known
<1>2. PICK target, name, phone :
        \/ Put(d, [dialog[d] EXCEPT !.step = "fetching", !.user = u, !.target = target, !.name = name,
                                    !.live = TRUE, !.running = TRUE])
        \/ Put(d, [dialog[d] EXCEPT !.step = "sending", !.user = u, !.target = target, !.name = name,
                                    !.phone = phone, !.live = TRUE, !.cooling = TRUE])
        \/ Put(d, [dialog[d] EXCEPT !.step = "opening", !.user = u])
  BY DEF Begins, QRStart, SMSSend, PreviewReserve
<1>3. /\ [dialog[d] EXCEPT !.step = "fetching", !.user = u, !.target = target, !.name = name,
                           !.live = TRUE, !.running = TRUE].bound = dialog[d].bound
      /\ [dialog[d] EXCEPT !.step = "sending", !.user = u, !.target = target, !.name = name,
                           !.phone = phone, !.live = TRUE, !.cooling = TRUE].bound = dialog[d].bound
      /\ [dialog[d] EXCEPT !.step = "opening", !.user = u].bound = dialog[d].bound
  BY <1>1 DEF DialogRecord
<1> QED
  BY <1>2, <1>3, OneBinds

LEMMA WaitingBinds ==
    ASSUME DialogInv, TimePasses
    PROVE  WantedBind
<1>1. ASSUME NEW d \in Dialogs, QRTimesOut(d) \/ SMSTimesOut(d) \/ SMSExpires(d) PROVE WantedBind
  <2>1. PICK rec : /\ Put(d, rec)
                   /\ \/ rec = [dialog[d] EXCEPT !.live = FALSE]
                      \/ rec = [dialog[d] EXCEPT !.pending = "none"]
                      \/ rec = [dialog[d] EXCEPT !.expired = TRUE, !.pending = "none"]
                      \/ rec = [dialog[d] EXCEPT !.cooling = FALSE]
    BY <1>1 DEF QRTimesOut, SMSTimesOut, SMSExpires
  <2>2. dialog[d] \in DialogRecord
    BY Known
  <2>3. rec.bound = dialog[d].bound
    BY <2>1, <2>2 DEF DialogRecord
  <2> QED
    BY <2>1, <2>3, OneBinds
<1>2. ASSUME NEW d \in Dialogs, PreviewCancel(d) PROVE WantedBind
  BY <1>2, NoneBinds DEF PreviewCancel
<1>3. ASSUME NEW p \in Phones, PhoneCools(p) PROVE WantedBind
  <2> SUFFICES ASSUME NEW d \in Dialogs PROVE dialog'[d].bound = dialog[d].bound
    BY NoneBinds
  <2>1. dialog[d] \in DialogRecord
    BY Known
  <2>2. dialog'[d] = IF dialog[d].phone = p THEN [dialog[d] EXCEPT !.cooling = FALSE] ELSE dialog[d]
    BY <1>3 DEF PhoneCools
  <2>3. [dialog[d] EXCEPT !.cooling = FALSE].bound = dialog[d].bound
    BY <2>1 DEF DialogRecord
  <2> QED
    BY <2>2, <2>3
<1> QED
  BY <1>1, <1>2, <1>3 DEF TimePasses

LEMMA StoppingBinds ==
    ASSUME DialogInv, StopNext
    PROVE  WantedBind
<1> SUFFICES ASSUME NEW d \in Dialogs PROVE dialog'[d].bound = dialog[d].bound
  BY NoneBinds
<1>1. PICK its : dialog' = [e \in Dialogs |->
                               IF e \in its THEN [dialog[e] EXCEPT !.live = FALSE, !.running = FALSE]
                               ELSE dialog[e]]
  BY StopEffect
<1>2. dialog[d] \in DialogRecord
  BY Known
<1>3. [dialog[d] EXCEPT !.live = FALSE, !.running = FALSE].bound = dialog[d].bound
  BY <1>2 DEF DialogRecord
<1>4. dialog'[d] = IF d \in its THEN [dialog[d] EXCEPT !.live = FALSE, !.running = FALSE] ELSE dialog[d]
  BY <1>1
<1> QED
  BY <1>3, <1>4

LEMMA NextBinds ==
    ASSUME DialogInv, [LoginsNext]_loginVars
    PROVE  WantedBind
<1>1. CASE Dialogue
  BY <1>1, GoingOnBinds, ContinuingBinds, BeginningBinds, StoppingBinds DEF Dialogue
<1>2. CASE Acts
  <2>1. ASSUME UNCHANGED dialog PROVE WantedBind
    BY <2>1, NoneBinds
  <2>2. ASSUME NEW u \in Users, Logout(u) \/ ChangeAccess(u) \/ Delete(u) PROVE WantedBind
    BY <2>1, <2>2 DEF Logout, ChangeAccess, Delete, Revokes, dialogVars
  <2> QED
    BY <1>2, <2>1, <2>2, ContinuingBinds, WaitingBinds, StoppingBinds DEF Acts, dialogVars
<1>3. CASE UNCHANGED loginVars
  BY <1>3, NoneBinds DEF loginVars, dialogVars
<1> QED
  BY <1>1, <1>2, <1>3 DEF LoginsNext

-----------------------------------------------------------------------------
(* The theorems. *)

\* The inductive invariant: what the accounts keep, and what the dialogs keep.
THEOREM DialogsInductive == LoginsSpec => [](AccountsInv /\ DialogInv)
<1>1. LoginsInit => AccountsInv /\ DialogInv
  BY InitAccounts, InitDialogs DEF LoginsInit
<1>2. AccountsInv /\ DialogInv /\ [LoginsNext]_loginVars => (AccountsInv /\ DialogInv)'
  BY NextAccounts, NextDialogs
<1> QED
  BY <1>1, <1>2, PTL DEF LoginsSpec

\* Every variable keeps its type.
THEOREM LoginsTypes == LoginsSpec => []LoginsTypeOK
<1>1. LoginsInit => acts \in Nat
  BY DEF LoginsInit
<1>2. acts \in Nat /\ [LoginsNext]_loginVars => (acts \in Nat)'
  BY DEF LoginsNext, loginVars
<1>3. AccountsInv /\ DialogInv /\ acts \in Nat => LoginsTypeOK
  BY DEF AccountsInv, DialogInv, DialogTypeOK, LoginsTypeOK
<1> QED
  BY <1>1, <1>2, <1>3, DialogsInductive, PTL DEF LoginsSpec

\* Whichever dialogs, edits, files and deletions come between each other: an
\* account at the provider is bound once, names are a user's own, and what is
\* bound has an owner (addAccountLocked and UpdateAccount compare with every
\* account under Store.mu).
THEOREM AccountsStaySound == LoginsSpec => []AccountsSound
<1>1. AccountsInv => AccountsSound
  BY DEF AccountsInv
<1> QED
  BY <1>1, DialogsInductive, PTL

\* No merge gives an account to another user or another uid.
THEOREM AccountsKeepTheirOwners == LoginsSpec => NeverChangesHands
<1>1. AccountsInv /\ DialogInv /\ [LoginsNext]_loginVars =>
        [\A i \in Bound : account'[i].state = "bound" =>
            /\ account'[i].owner = account[i].owner
            /\ account[i].uid # None => account'[i].uid = account[i].uid]_account
  BY NextAccounts DEF HandsKept
<1> QED
  BY <1>1, DialogsInductive, PTL DEF LoginsSpec, NeverChangesHands

\* A dialog that was cancelled, replaced, timed out or revoked binds nothing,
\* however late the provider answers, and none binds for a user who is not
\* active.
THEOREM OnlyWantedBindings == LoginsSpec => OnlyWantedBind
<1>1. AccountsInv /\ DialogInv /\ [LoginsNext]_loginVars =>
        [\A d \in Dialogs : dialog'[d].bound /\ ~dialog[d].bound =>
            /\ d \notin revoked
            /\ dialog[d].kind # "preview" => member[Owner(d)] = "active"]_loginVars
  BY NextBinds DEF WantedBind
<1> QED
  BY <1>1, DialogsInductive, PTL DEF LoginsSpec, OnlyWantedBind

\* A login that shows as running has a goroutine that will end it.
THEOREM LoginsAreCarried == LoginsSpec => []RunningIsCarried
<1>1. DialogInv => RunningIsCarried
  BY DEF DialogInv, Runs, Carried, RunningIsCarried
<1> QED
  BY <1>1, DialogsInductive, PTL
=============================================================================
