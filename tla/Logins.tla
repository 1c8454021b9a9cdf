------------------------------- MODULE Logins -------------------------------
(***************************************************************************)
(* The dialogs in which a user finds accounts to bind: the QR login        *)
(* (internal/auth/qr.go), the SMS login (sms.go, sms_captcha.go) and the   *)
(* preview of a migration file (internal/api/archive.go), with what        *)
(* revokes them: cancelling, a newer dialog, a timeout, logging out, losing *)
(* one's access (internal/api/lifecycle.go) and Server.Stop.               *)
(*                                                                         *)
(* A dialog is one qrSession, smsSession or archivePreview. A goroutine or *)
(* handler carries it on between requests to the provider without any lock, *)
(* so it may be revoked at every step, and comes back to its manager's lock *)
(* before it binds anything.                                               *)
(*                                                                         *)
(* What the state shows a user is left out, except Running, which a start  *)
(* looks at; so are codes and challenges, which the provider judges.       *)
(***************************************************************************)
EXTENDS Accounts, Sequences

CONSTANTS
    Dialogs,
    Phones,
    MaxTries,       \* codes a user may try; 5 in the code
    MaxChallenges,  \* challenges a user may be given; 5 in the code
    MaxOpenings,    \* files opened at once; 2 in the code
    MaxPreviews,    \* previews kept; 100 in the code
    MaxActs         \* bound on what happens beside the dialogs: acts and timeouts

ASSUME LoginsAssumption ==
    /\ None \notin Dialogs \union Phones
    /\ {MaxTries, MaxChallenges, MaxOpenings, MaxPreviews, MaxActs} \subseteq Nat

VARIABLES
    dialog,
    qr,             \* QRManager.sessions: user -> dialog
    sms,            \* SMSManager.sessions
    preview,        \* archiveSessions.pending
    cooling,        \* phones a code was sent to lately
    stopped,        \* managers that were stopped
    revoking,       \* user -> managers cancelUserWork has yet to cancel, in order
    revoked,        \* history: dialogs that must not bind anything any more
    acts            \* acts so far

dialogVars == <<dialog, qr, sms, preview, cooling, stopped, revoking, revoked>>

loginVars == <<accountVars, dialogVars, acts>>

Managers == {"preview", "qr", "sms"}

\* Where a dialog stands. Between `fetching` and `ending` a goroutine carries it;
\* an SMS session that is not busy is `free`, a preview to be confirmed `ready`.
Steps == {"new", "fetching", "polling", "exchanging", "ending",
          "sending", "verifying", "free", "opening", "ready", "importing", "over"}

\* `live` says that the context is not cancelled; `sent`, `pending`, `tries` and
\* `challenges` belong to SMS sessions, `bound` is history.
DialogRecord ==
    [kind : Managers, step : Steps, user : Users \union {None}, target : Ids \union {None},
     name : Names \union {None}, uid : Uids \union {None}, live : BOOLEAN, running : BOOLEAN,
     bound : BOOLEAN, phone : Phones \union {None}, sent : BOOLEAN, cooling : BOOLEAN,
     expired : BOOLEAN, pending : {"none", "sending", "verifying"}, tries : Nat, challenges : Nat]

NewDialog(kind) ==
    [kind |-> kind, step |-> "new", user |-> None, target |-> None, name |-> None, uid |-> None,
     live |-> FALSE, running |-> FALSE, bound |-> FALSE, phone |-> None, sent |-> FALSE,
     cooling |-> FALSE, expired |-> FALSE, pending |-> "none", tries |-> 0, challenges |-> 0]

NoDialogs == [u \in Users |-> None]

LoginsInit ==
    /\ AccountsInit
    /\ \E kinds \in [Dialogs -> Managers] : dialog = [d \in Dialogs |-> NewDialog(kinds[d])]
    /\ qr = NoDialogs /\ sms = NoDialogs /\ preview = NoDialogs
    /\ cooling = {}
    /\ stopped = {}
    /\ revoking = [u \in Users |-> <<>>]
    /\ revoked = {}
    /\ acts = 0

-----------------------------------------------------------------------------
At(d, step) == dialog[d].step = step

Owner(d) == dialog[d].user

Put(d, record) == dialog' = [dialog EXCEPT ![d] = record]

\* A dialog that is begun; its user may be None for a while only.
Fresh(d, kind) == dialog[d].kind = kind /\ At(d, "new")

\* A login may name one of the user's accounts to bind anew.
Targets(u) == Owned(u) \union {None}

OnlyDialog == UNCHANGED <<accountVars, qr, sms, preview, cooling, stopped, revoking, revoked>>

-----------------------------------------------------------------------------
(* QR login. *)

Current(d) == qr[Owner(d)] = d

QRStart(u, d, target, name) ==
    /\ Fresh(d, "qr") /\ "qr" \notin stopped
    /\ qr[u] # None => ~dialog[qr[u]].running
    /\ target \in Targets(u)
    /\ Put(d, [dialog[d] EXCEPT !.step = "fetching", !.user = u, !.target = target, !.name = name,
                                !.live = TRUE, !.running = TRUE])
    /\ qr' = [qr EXCEPT ![u] = d]
    /\ UNCHANGED <<accountVars, sms, preview, cooling, stopped, revoking, revoked>>

\* Mutant: only a success ends the dialog.
FinishedOnSuccess(d) ==
    IF Current(d) /\ dialog[d].running /\ dialog[d].bound
      THEN [dialog[d] EXCEPT !.step = "over", !.running = FALSE, !.live = FALSE]
      ELSE [dialog[d] EXCEPT !.step = "over"]

\* finish: the result is for the user's current dialog that still runs.
Finished(d) ==
    IF Current(d) /\ dialog[d].running
      THEN [dialog[d] EXCEPT !.step = "over", !.running = FALSE, !.live = FALSE]
      ELSE [dialog[d] EXCEPT !.step = "over"]

\* The code to scan arrives, for a login that is still wanted.
QRFetched(d) ==
    /\ At(d, "fetching")
    /\ Put(d, [dialog[d] EXCEPT !.step = IF Current(d) /\ dialog[d].live THEN "polling" ELSE "over"])
    /\ OnlyDialog

QRConfirmed(d, uid) ==
    /\ At(d, "polling")
    /\ Put(d, [dialog[d] EXCEPT !.step = "exchanging", !.uid = uid])
    /\ OnlyDialog

\* Mutant: the generation is not looked at again.
QRWantedOnce(d) == dialog[d].kind = "qr"

QRWanted(d) == Current(d) /\ dialog[d].live

\* complete, once the credentials are there.
QRComplete(d) ==
    /\ At(d, "exchanging") /\ dialog[d].kind = "qr"
    /\ LET u == Owner(d)
           target == dialog[d].target
       IN  IF QRWanted(d) /\ CanBind(u, target, dialog[d].uid, dialog[d].name)
             THEN /\ Bind(u, target, dialog[d].uid, dialog[d].name)
                  /\ Put(d, [dialog[d] EXCEPT !.step = "ending", !.bound = TRUE])
                  /\ UNCHANGED <<member, exchanging>>
             ELSE /\ Put(d, [dialog[d] EXCEPT !.step = "ending"])
                  /\ UNCHANGED accountVars
    /\ UNCHANGED <<qr, sms, preview, cooling, stopped, revoking, revoked>>

\* A request fails, the code expires or the context ends.
QRFails(d) ==
    /\ dialog[d].kind = "qr"
    /\ dialog[d].step \in {"fetching", "polling", "exchanging"}
    /\ Put(d, [dialog[d] EXCEPT !.step = "ending"])
    /\ OnlyDialog

QRFinish(d) ==
    /\ At(d, "ending") /\ dialog[d].kind = "qr"
    /\ Put(d, Finished(d))
    /\ OnlyDialog

\* The two minutes of a QR login, which a fetch of thirty seconds never reaches.
\* The goroutine's context ends, so it cannot stay in its request.
QRTimesOut(d) ==
    /\ dialog[d].kind = "qr" /\ dialog[d].step \in {"polling", "exchanging"} /\ dialog[d].live
    /\ Put(d, [dialog[d] EXCEPT !.live = FALSE])
    /\ revoked' = revoked \union {d}
    /\ UNCHANGED <<accountVars, qr, sms, preview, cooling, stopped, revoking>>

\* Refresh forgets the dialog, and starts the next one in a step of its own,
\* which another start may precede.
QRRefresh(u) ==
    /\ qr[u] # None
    /\ Put(qr[u], [dialog[qr[u]] EXCEPT !.live = FALSE])
    /\ qr' = [qr EXCEPT ![u] = None]
    /\ revoked' = revoked \union {qr[u]}
    /\ UNCHANGED <<accountVars, sms, preview, cooling, stopped, revoking>>

-----------------------------------------------------------------------------
(* SMS login. A session is free between the user's requests. *)

Busy(d) == dialog[d].step \in {"sending", "verifying", "exchanging"}

CurrentSMS(d) == sms[Owner(d)] = d

\* Sending gives way to a session that is busy, waits for a challenge or has
\* sent a code lately, and forgets those that expired.
SMSSend(u, d, phone, target, name) ==
    /\ Fresh(d, "sms") /\ "sms" \notin stopped
    /\ sms[u] # None => LET old == dialog[sms[u]]
                        IN  old.step = "free" /\ old.pending = "none" /\ ~old.cooling
    /\ phone \notin cooling
    /\ target \in Targets(u)
    /\ Put(d, [dialog[d] EXCEPT !.step = "sending", !.user = u, !.target = target, !.name = name,
                                !.phone = phone, !.live = TRUE, !.cooling = TRUE])
    /\ cooling' = cooling \union {phone}
    /\ sms' = [v \in Users |->
                  IF v = u THEN d
                  ELSE IF sms[v] # None /\ dialog[sms[v]].expired /\ ~Busy(sms[v]) THEN None
                  ELSE sms[v]]
    /\ UNCHANGED <<accountVars, qr, preview, stopped, revoking, revoked>>

Freed(d) == [dialog[d] EXCEPT !.step = "free", !.live = FALSE]

\* finishSend: the provider has sent the code.
SMSSent(d) ==
    /\ At(d, "sending")
    /\ IF CurrentSMS(d) /\ dialog[d].live
         THEN /\ Put(d, [Freed(d) EXCEPT !.sent = TRUE, !.pending = "none",
                                         !.expired = FALSE, !.cooling = TRUE])
              /\ cooling' = cooling \union {dialog[d].phone}
         ELSE Put(d, Freed(d)) /\ UNCHANGED cooling
    /\ UNCHANGED <<accountVars, qr, sms, preview, stopped, revoking, revoked>>

\* requireCaptcha: the request waits for the user to solve a challenge.
SMSChallenged(d) ==
    /\ dialog[d].step \in {"sending", "verifying"}
    /\ Put(d, IF CurrentSMS(d) /\ dialog[d].live /\ dialog[d].challenges < MaxChallenges
                THEN [Freed(d) EXCEPT !.pending = dialog[d].step,
                                      !.challenges = dialog[d].challenges + 1]
                ELSE Freed(d))
    /\ OnlyDialog

SMSFails(d) ==
    /\ dialog[d].kind = "sms" /\ Busy(d)
    /\ Put(d, Freed(d))
    /\ OnlyDialog

SMSVerify(u) ==
    LET d == sms[u]
    IN  /\ d # None /\ "sms" \notin stopped
        /\ dialog[d].sent /\ ~dialog[d].expired /\ At(d, "free")
        /\ dialog[d].pending = "none"
        /\ dialog[d].tries < MaxTries
        /\ Put(d, [dialog[d] EXCEPT !.step = "verifying", !.live = TRUE,
                                    !.tries = dialog[d].tries + 1])
        /\ OnlyDialog

\* CompleteCaptcha: the request goes on with the answer, which is used once.
SMSAnswer(u) ==
    LET d == sms[u]
    IN  /\ d # None /\ "sms" \notin stopped
        /\ dialog[d].pending # "none" /\ ~dialog[d].expired /\ At(d, "free")
        /\ Put(d, [dialog[d] EXCEPT !.step = dialog[d].pending, !.pending = "none",
                                    !.live = TRUE])
        /\ OnlyDialog

SMSVerified(d, uid) ==
    /\ At(d, "verifying")
    /\ Put(d, [dialog[d] EXCEPT !.step = "exchanging", !.uid = uid])
    /\ OnlyDialog

\* finishVerify: the login ends with the binding only.
SMSComplete(d) ==
    /\ At(d, "exchanging") /\ dialog[d].kind = "sms"
    /\ LET u == Owner(d)
           target == dialog[d].target
       IN  IF CurrentSMS(d) /\ dialog[d].live /\ CanBind(u, target, dialog[d].uid, dialog[d].name)
             THEN /\ Bind(u, target, dialog[d].uid, dialog[d].name)
                  /\ Put(d, [dialog[d] EXCEPT !.step = "over", !.bound = TRUE])
                  /\ sms' = [sms EXCEPT ![u] = None]
                  /\ UNCHANGED <<member, exchanging>>
             ELSE Put(d, Freed(d)) /\ UNCHANGED <<accountVars, sms>>
    /\ UNCHANGED <<qr, preview, cooling, stopped, revoking, revoked>>

\* A request's context ends after ninety seconds, or when the browser leaves.
SMSTimesOut(d) ==
    /\ dialog[d].kind = "sms" /\ Busy(d) /\ dialog[d].live
    /\ Put(d, [dialog[d] EXCEPT !.live = FALSE])
    /\ OnlyDialog

\* A challenge lasts two minutes, a session ten, and never less than its challenge.
SMSExpires(d) ==
    /\ dialog[d].kind = "sms" /\ ~At(d, "new") /\ CurrentSMS(d)
    /\ \/ dialog[d].pending # "none" /\ Put(d, [dialog[d] EXCEPT !.pending = "none"])
       \/ ~dialog[d].expired /\ Put(d, [dialog[d] EXCEPT !.expired = TRUE, !.pending = "none"])
       \/ dialog[d].cooling /\ Put(d, [dialog[d] EXCEPT !.cooling = FALSE])
    /\ OnlyDialog

\* A phone cools no shorter than the session that sent to it last.
PhoneCools(p) ==
    /\ p \in cooling
    /\ cooling' = cooling \ {p}
    /\ dialog' = [d \in Dialogs |-> IF dialog[d].phone = p THEN [dialog[d] EXCEPT !.cooling = FALSE]
                                    ELSE dialog[d]]
    /\ UNCHANGED <<accountVars, qr, sms, preview, stopped, revoking, revoked>>

-----------------------------------------------------------------------------
(* Migration files. A newer preview takes the place of the old one. *)

Opening == {d \in Dialogs : At(d, "opening")}

Previewing == {u \in Users : preview[u] # None}

PreviewReserve(u, d) ==
    /\ Fresh(d, "preview") /\ "preview" \notin stopped
    /\ Cardinality(Opening) < MaxOpenings
    /\ preview[u] = None => Cardinality(Previewing) < MaxPreviews
    /\ Put(d, [dialog[d] EXCEPT !.step = "opening", !.user = u])
    /\ preview' = [preview EXCEPT ![u] = d]
    /\ revoked' = IF preview[u] = None THEN revoked ELSE revoked \union {preview[u]}
    /\ UNCHANGED <<accountVars, qr, sms, cooling, stopped, revoking>>

\* The file holds an account of this uid and name.
PreviewComplete(d, uid, name) ==
    /\ At(d, "opening")
    /\ preview[Owner(d)] = d /\ "preview" \notin stopped
    /\ Put(d, [dialog[d] EXCEPT !.step = "ready", !.uid = uid, !.name = name])
    /\ OnlyDialog

Drops(d) == IF preview[Owner(d)] = d THEN [preview EXCEPT ![Owner(d)] = None] ELSE preview

\* The file cannot be opened, or the preview was replaced or cancelled meanwhile.
PreviewFails(d) ==
    /\ At(d, "opening")
    /\ Put(d, [dialog[d] EXCEPT !.step = "over"])
    /\ preview' = Drops(d)
    /\ UNCHANGED <<accountVars, qr, sms, cooling, stopped, revoking, revoked>>

\* cancel, by the browser or by the timer after five minutes.
PreviewCancel(d) ==
    /\ dialog[d].step \in {"opening", "ready"} /\ d \notin revoked
    /\ preview' = Drops(d)
    /\ revoked' = revoked \union {d}
    /\ UNCHANGED <<accountVars, dialog, qr, sms, cooling, stopped, revoking>>

\* consume: a preview is confirmed once.
PreviewConsume(u) ==
    LET d == preview[u]
    IN  /\ d # None /\ "preview" \notin stopped /\ At(d, "ready")
        /\ Put(d, [dialog[d] EXCEPT !.step = "importing", !.bound = TRUE])
        /\ preview' = [preview EXCEPT ![u] = None]
        /\ UNCHANGED <<accountVars, qr, sms, cooling, stopped, revoking, revoked>>

\* ImportAccountArchive skips what is there.
PreviewImport(d) ==
    /\ At(d, "importing")
    /\ LET given == Given(Owner(d), dialog[d].uid, dialog[d].name)
       IN  IF member[Owner(d)] = "active" /\ Matches(given, None) = {} /\ CanAdd(given, None)
             THEN AddLocked(given, None) /\ UNCHANGED <<member, exchanging>>
             ELSE UNCHANGED accountVars
    /\ Put(d, [dialog[d] EXCEPT !.step = "over"])
    /\ UNCHANGED <<qr, sms, preview, cooling, stopped, revoking, revoked>>

-----------------------------------------------------------------------------
(* Revocation. *)

\* Cancelling the user's dialog of a manager.
QRCancel(u) ==
    /\ IF qr[u] = None THEN UNCHANGED <<dialog, revoked>>
       ELSE /\ Put(qr[u], [dialog[qr[u]] EXCEPT !.live = FALSE, !.running = FALSE])
            /\ revoked' = revoked \union {qr[u]}
    /\ UNCHANGED <<qr, sms, preview>>

SMSCancel(u) ==
    /\ IF sms[u] = None THEN UNCHANGED <<dialog, revoked>>
       ELSE /\ Put(sms[u], [dialog[sms[u]] EXCEPT !.live = FALSE])
            /\ revoked' = revoked \union {sms[u]}
    /\ sms' = [sms EXCEPT ![u] = None]
    /\ UNCHANGED <<qr, preview>>

PreviewDrop(u) ==
    /\ preview' = [preview EXCEPT ![u] = None]
    /\ revoked' = IF preview[u] = None THEN revoked ELSE revoked \union {preview[u]}
    /\ UNCHANGED <<dialog, qr, sms>>

CancelOf(u, manager) ==
    \/ manager = "qr" /\ QRCancel(u)
    \/ manager = "sms" /\ SMSCancel(u)
    \/ manager = "preview" /\ PreviewDrop(u)

\* The user cancels a login.
Cancel(u) ==
    /\ \E manager \in {"qr", "sms"} : CancelOf(u, manager)
    /\ UNCHANGED <<accountVars, cooling, stopped, revoking>>

\* Handlers that cancel several dialogs, one manager after the other: logging
\* out, an administrator's change of the user's access, and deleting the user.
CancelUserWork == <<"preview", "qr", "sms">>

Revokes(u, managers) ==
    /\ revoking[u] = <<>> /\ member[u] # "gone"
    /\ revoking' = [revoking EXCEPT ![u] = managers]
    /\ UNCHANGED <<dialog, qr, sms, preview, cooling, stopped, revoked>>

Logout(u) == Revokes(u, <<"qr", "sms">>) /\ UNCHANGED accountVars

ChangeAccess(u) ==
    \/ Revokes(u, CancelUserWork) /\ SetMember(u, "disabled")
    \/ Revokes(u, CancelUserWork) /\ UNCHANGED accountVars
    \/ SetMember(u, "active") /\ UNCHANGED dialogVars

Delete(u) == Revokes(u, Append(CancelUserWork, "delete")) /\ UNCHANGED accountVars

RevokeNext(u) ==
    /\ revoking[u] # <<>>
    /\ revoking' = [revoking EXCEPT ![u] = Tail(revoking[u])]
    /\ IF Head(revoking[u]) = "delete"
         THEN /\ IF Owned(u) \intersect exchanging = {} THEN DeleteUser(u)
                                                       ELSE UNCHANGED accountVars
              /\ UNCHANGED <<dialog, qr, sms, preview, revoked>>
         ELSE CancelOf(u, Head(revoking[u])) /\ UNCHANGED accountVars
    /\ UNCHANGED <<cooling, stopped>>

\* Server.Stop stops the managers in this order.
StopNext ==
    \E n \in 1 .. Len(CancelUserWork) :
        LET manager == CancelUserWork[n]
            current == [preview |-> preview, qr |-> qr, sms |-> sms][manager]
            its == {current[u] : u \in Users} \ {None}
        IN  /\ manager \notin stopped
            /\ \A k \in 1 .. n - 1 : CancelUserWork[k] \in stopped
            /\ stopped' = stopped \union {manager}
            /\ dialog' = [d \in Dialogs |->
                             IF d \in its THEN [dialog[d] EXCEPT !.live = FALSE, !.running = FALSE]
                             ELSE dialog[d]]
            /\ preview' = IF manager = "preview" THEN NoDialogs ELSE preview
            /\ qr' = IF manager = "qr" THEN NoDialogs ELSE qr
            /\ sms' = IF manager = "sms" THEN NoDialogs ELSE sms
            /\ revoked' = revoked \union its
            /\ UNCHANGED <<accountVars, cooling, revoking>>

-----------------------------------------------------------------------------
QRGoesOn(d) ==
    \/ QRFetched(d)
    \/ \E uid \in Uids : QRConfirmed(d, uid)
    \/ QRComplete(d) \/ QRFails(d) \/ QRFinish(d)

SMSGoesOn(d) ==
    \/ SMSSent(d) \/ SMSChallenged(d) \/ SMSFails(d)
    \/ \E uid \in Uids : SMSVerified(d, uid)
    \/ SMSComplete(d)

PreviewGoesOn(d) ==
    \/ \E uid \in Uids, name \in Names : PreviewComplete(d, uid, name)
    \/ PreviewFails(d) \/ PreviewImport(d)

Begins(u, d) ==
    \/ \E target \in Targets(u), name \in Names :
          \/ QRStart(u, d, target, name)
          \/ \E phone \in Phones : SMSSend(u, d, phone, target, name)
    \/ PreviewReserve(u, d)

Continues(u) == SMSVerify(u) \/ SMSAnswer(u) \/ PreviewConsume(u) \/ RevokeNext(u)

Dialogue ==
    \/ \E u \in Users : Continues(u) \/ \E d \in Dialogs : Begins(u, d)
    \/ \E d \in Dialogs : QRGoesOn(d) \/ SMSGoesOn(d) \/ PreviewGoesOn(d)
    \/ stopped # {} /\ StopNext

TimePasses ==
    \/ \E d \in Dialogs : QRTimesOut(d) \/ SMSTimesOut(d) \/ SMSExpires(d) \/ PreviewCancel(d)
    \/ \E p \in Phones : PhoneCools(p)

Acts ==
    \/ \E u \in Users : QRRefresh(u) \/ Cancel(u) \/ Logout(u) \/ ChangeAccess(u) \/ Delete(u)
    \/ AccountsNext /\ UNCHANGED dialogVars
    \/ stopped = {} /\ StopNext
    \/ TimePasses

LoginsNext ==
    \/ Dialogue /\ UNCHANGED acts
    \/ Acts /\ acts < MaxActs /\ acts' = acts + 1

LoginsSpec == LoginsInit /\ [][LoginsNext]_loginVars

-----------------------------------------------------------------------------
(* Properties. *)

\* What the dialogs hold.
LoginsTypeOK ==
    /\ AccountsTypeOK
    /\ dialog \in [Dialogs -> DialogRecord]
    /\ {qr, sms, preview} \subseteq [Users -> Dialogs \union {None}]
    /\ cooling \subseteq Phones
    /\ stopped \subseteq Managers
    /\ revoked \subseteq Dialogs
    /\ acts \in Nat

\* Nothing is bound by a dialog that was cancelled, replaced, timed out or
\* revoked with its user's access, however late its answers come; and nothing for
\* a user who is not active at that moment.
OnlyWantedBind ==
    [][\A d \in Dialogs : dialog'[d].bound /\ ~dialog[d].bound =>
          /\ d \notin revoked
          /\ dialog[d].kind # "preview" => member[Owner(d)] = "active"]_loginVars

\* No path leaves a login that shows as running, which keeps the user from
\* starting another one, with nobody to carry it on and end it.
RunningIsCarried ==
    \A u \in Users : qr[u] # None /\ dialog[qr[u]].running =>
        dialog[qr[u]].step \in {"fetching", "polling", "exchanging", "ending"}
=============================================================================
