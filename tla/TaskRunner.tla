------------------------------ MODULE TaskRunner ------------------------------
(***************************************************************************)
(* The task runner (internal/tasks/runner.go) and the store and API calls  *)
(* that race with it.                                                      *)
(*                                                                         *)
(* A batch reserves its accounts in one locked step and then works through *)
(* them one by one, outside any lock: it takes a snapshot of the account,  *)
(* reads the configuration, renews the cookie, sends the requests of the   *)
(* selected tasks and records the results. Every request first asks        *)
(* whether the snapshot still holds. Meanwhile users edit task settings,   *)
(* disable, rebind or delete accounts, the administrator switches the site *)
(* off, batches run out of time and the service stops.                     *)
(*                                                                         *)
(* An account record stands for the account and its owner: "closed" is a   *)
(* disabled account or user. The login is the pair of SToken and device,   *)
(* numbered; a cookie says which login it was obtained with. Progress and  *)
(* log lines, which nothing reads back, are left out.                      *)
(***************************************************************************)
EXTENDS Naturals, FiniteSets

CONSTANTS
    Accounts,
    Batches,        \* calls of Run, Start and RunScheduled, each used once
    Automatic,      \* the batches the schedulers start
    Works,          \* task selections, compared as SameWork does
    NoWork,         \* the selection with nothing in it
    DefaultWork,    \* the selection of a new account
    None,           \* no batch, no account
    MaxRequests,    \* bound on the requests of one account's tasks
    MaxChanges,     \* bound on changes made to accounts and to the site
    MaxFailedSaves  \* bound on saves of the runner that fail

ASSUME RunnerAssumption ==
    /\ None \notin Accounts \union Batches
    /\ Automatic \subseteq Batches
    /\ {NoWork, DefaultWork} \subseteq Works
    /\ {MaxRequests, MaxChanges, MaxFailedSaves} \subseteq Nat

VARIABLES
    account,   \* the store's accounts
    site,      \* Config.Enabled
    reserved,  \* account -> the batch whose context Runner.contexts holds
    batch,     \* the batches and their goroutines
    stopped,   \* <<batch, account>> pairs whose context has been cancelled
    revoking,  \* account -> handlers that changed it and have yet to cancel
    sweeping,  \* a handler switched the site off and has yet to read it back
    leaving,   \* accounts a delete handler has cancelled and will now delete
    process,   \* "up", "stopping" (Runner.Stop called) or "down"
    changes, failedSaves,   \* faults and changes so far
    late       \* batch -> requests it sent for cur without authority, since cur was
               \* last enabled

vars == <<account, site, reserved, batch, stopped, revoking, sweeping, leaving,
          process, changes, failedSaves, late>>
store == <<account, site>>
handlers == <<revoking, sweeping, leaving, changes>>

AccountRecord ==
    [state : {"open", "closed", "gone"}, login : Nat,
     cookie : [of : Nat, no : Nat], work : Works, auto : BOOLEAN]
NewAccount ==
    [state |-> "open", login |-> 0, cookie |-> [of |-> 0, no |-> 0],
     work |-> DefaultWork, auto |-> TRUE]

\* Where the goroutine is: between accounts, before ConfigForAccount, before
\* its context is looked up, before the renewal, having compared the account in
\* allowed(), with a request under way, with a renewed cookie in hand, between
\* requests, before RecordTasks, before releaseAccount, past its loop.
Working == {"renew", "asked", "sent", "storing", "tasks"}
Held == Working \union {"config", "context", "record", "release"}
Places == Held \union {"idle", "next", "ending", "ended"}

BatchRecord ==
    [pc : Places, chosen : SUBSET Accounts, todo : SUBSET Accounts,
     cur : Accounts \union {None}, seen : AccountRecord, work : Works,
     on : BOOLEAN, renewing : BOOLEAN, left : Nat, over : BOOLEAN]
\* A batch at no account.
Alone(place, chosen, todo, over, on) ==
    [pc |-> place, chosen |-> chosen, todo |-> todo, cur |-> None, seen |-> NewAccount,
     work |-> NoWork, on |-> on, renewing |-> FALSE, left |-> 0, over |-> over]
IdleBatch == Alone("idle", {}, {}, FALSE, TRUE)

Init ==
    /\ account = [a \in Accounts |-> NewAccount]
    /\ site = TRUE
    /\ reserved = [a \in Accounts |-> None]
    /\ batch = [b \in Batches |-> IdleBatch]
    /\ stopped = {}
    /\ revoking = [a \in Accounts |-> 0]
    /\ sweeping = FALSE
    /\ leaving = {}
    /\ process = "up"
    /\ changes = 0 /\ failedSaves = 0
    /\ late = [b \in Batches |-> 0]

-----------------------------------------------------------------------------
(* Reserving and releasing, under Runner.mu. *)

Active(b) == batch[b].pc \notin {"idle", "ended"}
Runnable(a) == account[a].state = "open"
Stopped(b, a) == <<b, a>> \in stopped \/ batch[b].over

\* What a batch asked for the accounts in wanted may take. The scheduler skips
\* busy accounts and those it cannot claim; ClaimAutomaticRun is abstracted to
\* a choice here and modelled in AutomaticRuns.
Suitable(b, wanted) ==
    {a \in wanted : /\ Runnable(a)
                    /\ account[a].work # NoWork
                    /\ b \in Automatic => account[a].auto}
Free(a) == reserved[a] = None
Choices(b, wanted) ==
    IF b \in Automatic
    THEN SUBSET {a \in Suitable(b, wanted) : Free(a)}
    ELSE {s \in {Suitable(b, wanted)} : \A a \in s : Free(a)}
\* Mutant: Runner.stopped is not looked at.
MayBeginLate == site
MayBegin == process = "up" /\ site

Begin(b) ==
    /\ batch[b].pc = "idle" /\ MayBegin
    /\ \E wanted \in SUBSET Accounts : \E chosen \in Choices(b, wanted) \ {{}} :
         /\ batch' = [batch EXCEPT ![b] = Alone("next", chosen, chosen, FALSE, TRUE)]
         /\ reserved' = [a \in Accounts |-> IF a \in chosen THEN b ELSE reserved[a]]
    /\ UNCHANGED <<store, stopped, handlers, process, failedSaves, late>>

\* The contexts that cancelling these accounts reaches.
Contexts(as) == {<<reserved[a], a>> : a \in {x \in as : reserved[x] # None}}

\* The generation check: an entry is deleted only while it is the batch's own.
OwnedBy(b) == {a \in Accounts : reserved[a] = b}
\* Mutant: the generation is not compared.
WithoutAny(b, as) == [a \in Accounts |-> IF a \in as THEN None ELSE reserved[a]]
Without(b, as) == [a \in Accounts |-> IF a \in as /\ a \in OwnedBy(b) THEN None ELSE reserved[a]]

-----------------------------------------------------------------------------
(* The loop of Runner.run. *)

Goes(b, place) == [batch EXCEPT ![b].pc = place]
\* The variables of an iteration are gone after it.
Between(b, place) ==
    Alone(place, batch[b].chosen, batch[b].todo \ {batch[b].cur}, batch[b].over, TRUE)
NextAccount(b) == [batch EXCEPT ![b] = Between(b, "next")]

\* The check of ctx.Err at the head of the loop, and its end.
LeaveLoop(b) ==
    /\ batch[b].pc = "next"
    /\ batch[b].over \/ batch[b].todo = {}
    /\ batch' = Goes(b, "ending")
    /\ UNCHANGED <<store, reserved, stopped, handlers, process, failedSaves, late>>

\* An account that may no longer run is skipped, and stays reserved.
TakeAccount(b) ==
    /\ batch[b].pc = "next" /\ ~batch[b].over
    /\ \E a \in batch[b].todo :
         batch' = IF Runnable(a)
                  THEN [batch EXCEPT ![b].pc = "config", ![b].cur = a, ![b].seen = account[a]]
                  ELSE [batch EXCEPT ![b].todo = @ \ {a}]
    /\ UNCHANGED <<store, reserved, stopped, handlers, process, failedSaves, late>>

\* ConfigForAccount reads the account again, and Enabled with it; Automatic is
\* looked up in the snapshot. A skipped account stays reserved here too.
ReadConfig(b) ==
    LET a == batch[b].cur
        wanted == Runnable(a) /\ account[a].work # NoWork
                    /\ (b \in Automatic => batch[b].seen.auto)
    IN /\ batch[b].pc = "config"
       /\ batch' = IF wanted
                   THEN [batch EXCEPT ![b].pc = "context", ![b].work = account[a].work,
                                      ![b].on = site, ![b].left = MaxRequests]
                   ELSE NextAccount(b)
       /\ UNCHANGED <<store, reserved, stopped, handlers, process, failedSaves, late>>

\* An account cancelled while it waited is released; a site switched off ends
\* the loop.
FindContext(b) ==
    /\ batch[b].pc = "context"
    /\ batch' = Goes(b, CASE Stopped(b, batch[b].cur) -> "release"
                          [] ~Stopped(b, batch[b].cur) /\ ~batch[b].on -> "ending"
                          [] OTHER -> "renew")
    /\ UNCHANGED <<store, reserved, stopped, handlers, process, failedSaves, late>>

\* No renewal without an SToken or when only cloud games are selected.
SkipRenewal(b) ==
    /\ batch[b].pc = "renew"
    /\ batch' = Goes(b, "tasks")
    /\ UNCHANGED <<store, reserved, stopped, handlers, process, failedSaves, late>>

-----------------------------------------------------------------------------
(* A request: allowed() reads the account, then the site's switch, then the   *)
(* context; the request goes out after that.                                  *)

SameLogin(a, seen) == account[a].login = seen.login /\ account[a].cookie = seen.cookie
\* Mutant: allowed() does not compare the credentials.
AgreesOnWork(b) ==
    LET a == batch[b].cur IN Runnable(a) /\ account[a].work = batch[b].seen.work
Agrees(b) ==
    LET a == batch[b].cur
    IN Runnable(a) /\ SameLogin(a, batch[b].seen) /\ account[a].work = batch[b].seen.work
\* Whether the account's owner still wants exactly this done, with this login.
Authority(b) ==
    LET a == batch[b].cur
    IN Runnable(a) /\ SameLogin(a, batch[b].seen) /\ account[a].work = batch[b].work

\* Mutant: requests go on without end.
SpentNever(b) == batch[b].left
WantsRequest(b) ==
    \/ batch[b].pc = "renew"
    \/ batch[b].pc = "tasks" /\ batch[b].left > 0
Spent(b) == IF batch[b].pc = "tasks" THEN batch[b].left - 1 ELSE batch[b].left

Ask(b) ==
    /\ WantsRequest(b) /\ Agrees(b)
    /\ batch' = [batch EXCEPT ![b].pc = "asked", ![b].left = Spent(b),
                              ![b].renewing = batch[b].pc = "renew"]
    /\ UNCHANGED <<store, reserved, stopped, handlers, process, failedSaves, late>>

\* A snapshot that no longer holds cancels the account's run.
AskRefused(b) ==
    /\ WantsRequest(b) /\ ~Agrees(b)
    /\ batch' = [batch EXCEPT ![b].pc = "tasks", ![b].left = Spent(b)]
    /\ stopped' = stopped \union Contexts({batch[b].cur})
    /\ UNCHANGED <<store, reserved, handlers, process, failedSaves, late>>

SiteRefuses(b) ==
    /\ batch[b].pc = "asked" /\ (~site \/ Stopped(b, batch[b].cur))
    /\ batch' = [batch EXCEPT ![b].pc = "tasks", ![b].renewing = FALSE]
    /\ stopped' = IF site THEN stopped ELSE stopped \union Contexts({batch[b].cur})
    /\ UNCHANGED <<store, reserved, handlers, process, failedSaves, late>>

Send(b) ==
    /\ batch[b].pc = "asked" /\ site /\ ~Stopped(b, batch[b].cur)
    /\ batch' = Goes(b, "sent")
    /\ late' = IF Authority(b) THEN late ELSE [late EXCEPT ![b] = @ + 1]
    /\ UNCHANGED <<store, reserved, stopped, handlers, process, failedSaves>>

\* An answer or an error; of a renewal, only a cookie matters.
Answer(b) ==
    /\ batch[b].pc = "sent"
    /\ \/ batch' = [batch EXCEPT ![b].pc = "tasks", ![b].renewing = FALSE]
       \/ batch[b].renewing /\ batch' = Goes(b, "storing")
    /\ UNCHANGED <<store, reserved, stopped, handlers, process, failedSaves, late>>

-----------------------------------------------------------------------------
(* Renewing the cookie and recording the results. *)

\* RenewAccountCookie compares the stored credentials with the snapshot.
\* Mutant: the snapshot is not compared.
StillThere(b) == Runnable(batch[b].cur)
StillTheSame(b) ==
    LET a == batch[b].cur IN Runnable(a) /\ SameLogin(a, batch[b].seen)
WithCookie(b) ==
    [account[batch[b].cur] EXCEPT
        !.cookie = [of |-> batch[b].seen.login, no |-> account[batch[b].cur].cookie.no + 1]]

\* The run goes on with the whole account as it is stored now.
StoreRenewal(b) ==
    /\ batch[b].pc = "storing" /\ StillTheSame(b)
    /\ account' = [account EXCEPT ![batch[b].cur] = WithCookie(b)]
    /\ batch' = [batch EXCEPT ![b].pc = "tasks", ![b].renewing = FALSE,
                              ![b].seen = WithCookie(b)]
    /\ UNCHANGED <<site, reserved, stopped, handlers, process, failedSaves, late>>

\* Refused, or not saved: the account is given up without a record.
LoseRenewal(b) ==
    /\ batch[b].pc = "storing"
    /\ \/ ~StillTheSame(b) /\ UNCHANGED failedSaves
       \/ failedSaves < MaxFailedSaves /\ failedSaves' = failedSaves + 1
    /\ batch' = [batch EXCEPT ![b].pc = "release", ![b].renewing = FALSE]
    /\ UNCHANGED <<store, reserved, stopped, handlers, process, late>>

FinishTasks(b) ==
    /\ batch[b].pc = "tasks"
    /\ batch' = Goes(b, "record")
    /\ UNCHANGED <<store, reserved, stopped, handlers, process, failedSaves, late>>

\* RecordTasks: an error ends the whole batch.
Record(b) ==
    /\ batch[b].pc = "record"
    /\ account[batch[b].cur].state # "gone"
    /\ batch' = Goes(b, "release")
    /\ UNCHANGED <<store, reserved, stopped, handlers, process, failedSaves, late>>
RecordFails(b) ==
    /\ batch[b].pc = "record"
    /\ \/ account[batch[b].cur].state = "gone" /\ UNCHANGED failedSaves
       \/ failedSaves < MaxFailedSaves /\ failedSaves' = failedSaves + 1
    /\ batch' = [batch EXCEPT ![b] = Between(b, "ending")]
    /\ late' = [late EXCEPT ![b] = 0]
    /\ UNCHANGED <<store, reserved, stopped, handlers, process>>

Release(b) ==
    /\ batch[b].pc = "release"
    /\ reserved' = Without(b, {batch[b].cur})
    /\ stopped' = stopped \ {<<b, batch[b].cur>>}
    /\ batch' = NextAccount(b)
    /\ late' = [late EXCEPT ![b] = 0]
    /\ UNCHANGED <<store, handlers, process, failedSaves>>

\* Runner.end: what the batch still holds is released. A released context is
\* cancelled too, but nothing looks at it any more.
End(b) ==
    /\ batch[b].pc = "ending"
    /\ reserved' = Without(b, batch[b].chosen)
    /\ stopped' = {s \in stopped : s[1] # b}
    /\ batch' = [batch EXCEPT ![b] = Alone("ended", {}, @.todo, @.over, @.on)]
    /\ UNCHANGED <<store, handlers, process, failedSaves, late>>

Step(b) ==
    \/ LeaveLoop(b) \/ TakeAccount(b) \/ ReadConfig(b) \/ FindContext(b)
    \/ SkipRenewal(b) \/ Ask(b) \/ AskRefused(b) \/ SiteRefuses(b) \/ Send(b)
    \/ Answer(b) \/ StoreRenewal(b) \/ LoseRenewal(b) \/ FinishTasks(b)
    \/ Record(b) \/ RecordFails(b) \/ Release(b) \/ End(b)

-----------------------------------------------------------------------------
(* What races with the batches. *)

\* Thirty minutes are over.
Expire(b) ==
    /\ Active(b) /\ ~batch[b].over
    /\ batch' = [batch EXCEPT ![b].over = TRUE]
    /\ UNCHANGED <<store, reserved, stopped, handlers, process, failedSaves, late>>

\* CancelAccount, called by a user or by the handler of an earlier change.
UserCancel(a) ==
    /\ stopped' = stopped \union Contexts({a})
    /\ UNCHANGED <<store, reserved, batch, handlers, process, failedSaves, late>>
Revoke(a) ==
    /\ revoking[a] > 0
    /\ revoking' = [revoking EXCEPT ![a] = @ - 1]
    /\ stopped' = stopped \union Contexts({a})
    /\ UNCHANGED <<store, reserved, batch, sweeping, leaving, changes, process,
                   failedSaves, late>>

Existing(a) == account[a].state # "gone"
Change == changes < MaxChanges /\ changes' = changes + 1
\* A handler that will cancel the run, if the change asks for it.
\* Mutant: the handler leaves the run alone.
WillNotRevoke(a, due) == UNCHANGED revoking
WillRevoke(a, due) == revoking' = IF due THEN [revoking EXCEPT ![a] = @ + 1] ELSE revoking

\* UpdateAccountTasks, from PUT /accounts/tasks or a batch of schedules: only
\* another selection of work revokes.
EditTasks(a) ==
    /\ Existing(a) /\ Change
    /\ \E w \in Works, auto \in BOOLEAN :
         /\ w # account[a].work \/ auto # account[a].auto
         /\ account' = [account EXCEPT ![a].work = w, ![a].auto = auto]
         /\ WillRevoke(a, w # account[a].work)
    /\ UNCHANGED <<site, reserved, batch, stopped, sweeping, leaving, process,
                   failedSaves, late>>

\* Disabling or enabling the account or its owner. Enabling through the batch
\* dialog does not revoke, and PUT /accounts compares with the account it read
\* before its update, which another handler may have changed in between.
OpenOrClose(a) ==
    /\ Existing(a) /\ Change
    /\ account' = [account EXCEPT ![a].state = IF @ = "open" THEN "closed" ELSE "open"]
    /\ \E due \in BOOLEAN : WillRevoke(a, due)
    /\ late' = [b \in Batches |-> IF batch[b].cur = a /\ ~Runnable(a) THEN 0 ELSE late[b]]
    /\ UNCHANGED <<site, reserved, batch, stopped, sweeping, leaving, process, failedSaves>>

\* New credentials, all of one login: by logging in, which does not revoke, or by
\* editing.
Rebind(a) ==
    /\ Existing(a) /\ Change
    /\ account' = [account EXCEPT ![a].login = @ + 1,
                                  ![a].cookie = [of |-> account[a].login + 1, no |-> 0]]
    /\ \E due \in BOOLEAN : WillRevoke(a, due)
    /\ UNCHANGED <<site, reserved, batch, stopped, sweeping, leaving, process,
                   failedSaves, late>>

\* The account check renews the cookie on its own.
CheckRenews(a) ==
    /\ Runnable(a) /\ Change
    /\ account' = [account EXCEPT ![a].cookie.no = @ + 1]
    /\ UNCHANGED <<site, reserved, batch, stopped, revoking, sweeping, leaving,
                   process, failedSaves, late>>

\* Deleting cancels first. The exchange engine may refuse the delete.
StartDelete(a) ==
    /\ Existing(a) /\ a \notin leaving /\ Change
    /\ leaving' = leaving \union {a}
    /\ stopped' = stopped \union Contexts({a})
    /\ UNCHANGED <<store, reserved, batch, revoking, sweeping, process, failedSaves, late>>
Delete(a) ==
    /\ a \in leaving
    /\ leaving' = leaving \ {a}
    /\ \/ account' = [account EXCEPT ![a].state = "gone"]
       \/ UNCHANGED account
    /\ UNCHANGED <<site, reserved, batch, stopped, revoking, sweeping, changes,
                   process, failedSaves, late>>

\* PUT /config: the handler that switches the site off reads the switch back
\* and then cancels every account.
SwitchSite ==
    /\ Change
    /\ site' = ~site
    /\ sweeping' = (sweeping \/ site)
    /\ UNCHANGED <<account, reserved, batch, stopped, revoking, leaving, process,
                   failedSaves, late>>
Sweep ==
    /\ sweeping
    /\ sweeping' = FALSE
    /\ revoking' = IF site THEN revoking
                   ELSE [a \in Accounts |-> IF Existing(a) THEN revoking[a] + 1 ELSE revoking[a]]
    /\ UNCHANGED <<store, reserved, batch, stopped, leaving, changes, process,
                   failedSaves, late>>

\* Runner.Stop: no batch begins any more, all contexts are cancelled, and it
\* waits for the batches.
Stop ==
    /\ process = "up"
    /\ process' = "stopping"
    /\ stopped' = stopped \union Contexts(Accounts)
    /\ batch' = [b \in Batches |-> [batch[b] EXCEPT !.over = @ \/ Active(b)]]
    /\ UNCHANGED <<store, reserved, handlers, failedSaves, late>>
Exit ==
    /\ process = "stopping"
    /\ \A b \in Batches : ~Active(b)
    /\ process' = "down"
    /\ UNCHANGED <<store, reserved, batch, stopped, handlers, failedSaves, late>>

Handler(a) ==
    \/ UserCancel(a) \/ Revoke(a) \/ EditTasks(a) \/ OpenOrClose(a) \/ Rebind(a)
    \/ CheckRenews(a) \/ StartDelete(a) \/ Delete(a)

Next ==
    \/ \E b \in Batches : Begin(b) \/ Step(b) \/ Expire(b)
    \/ process # "down" /\ ((\E a \in Accounts : Handler(a)) \/ SwitchSite \/ Sweep)
    \/ Stop \/ Exit

Spec == Init /\ [][Next]_vars

\* Goroutines run, requests end by their timeouts, handlers return.
Fairness ==
    /\ \A b \in Batches : WF_vars(Step(b))
    /\ WF_vars(Exit)
FairSpec == Spec /\ Fairness

-----------------------------------------------------------------------------
(* Properties. *)

TypeOK ==
    /\ account \in [Accounts -> AccountRecord]
    /\ site \in BOOLEAN
    /\ reserved \in [Accounts -> Batches \union {None}]
    /\ batch \in [Batches -> BatchRecord]
    /\ stopped \subseteq Batches \X Accounts
    /\ revoking \in [Accounts -> Nat]
    /\ sweeping \in BOOLEAN
    /\ leaving \subseteq Accounts
    /\ process \in {"up", "stopping", "down"}
    /\ changes \in 0 .. MaxChanges
    /\ failedSaves \in 0 .. MaxFailedSaves
    /\ late \in [Batches -> Nat]

Handles(b, a) == batch[b].pc \in Held /\ batch[b].cur = a

\* Two batches never work on one account at the same time, whatever is released,
\* skipped, cancelled and started again in between.
OneBatchPerAccount ==
    \A a \in Accounts, b, c \in Batches : Handles(b, a) /\ Handles(c, a) => b = c

\* An account is reserved for exactly as long as a batch works on it or may still
\* turn to it: the context a batch looks up (runner.go:200) is there and is its
\* own, so that no two batches work on one account, and a batch that ended leaves
\* no account blocked, whatever is released twice, skipped or cancelled.
ReservationsHeld ==
    /\ \A b \in Batches, a \in Accounts :
         Handles(b, a) \/ (Active(b) /\ a \in batch[b].todo) => reserved[a] = b
    /\ \A a \in Accounts : reserved[a] # None => Active(reserved[a])

\* A run whose configuration is no longer the stored one is cancelled, or the
\* handler that saved the change is about to cancel it. The comparison in
\* allowed() does not give this: a renewal adopts the stored account, and with
\* it settings the run does not follow.
StaleIsStopped ==
    \A b \in Batches :
        LET a == batch[b].cur
        IN batch[b].pc \in Working /\ account[a].work # batch[b].work =>
             Stopped(b, a) \/ revoking[a] > 0

\* Once the account was closed, deleted, rebound or given other work, at most the
\* request already checked goes out, unless the account is opened again; more only
\* until the handler's own cancel.
LateByOne ==
    \A b \in Batches :
        batch[b].pc \in Working /\ late[b] > 1 =>
            Stopped(b, batch[b].cur) \/ revoking[batch[b].cur] > 0

\* "A delayed renewal must never overwrite credentials from a newer binding"
\* (accounts.go:311): the stored cookie belongs to the stored login.
CookieIsOwn == \A a \in Accounts : account[a].cookie.of = account[a].login

\* After Runner.Stop no batch begins, those under way are cancelled, and when it
\* has returned none is left.
StopIsFinal ==
    /\ process # "up" => \A b \in Batches : Active(b) => batch[b].over
    /\ process = "down" => \A b \in Batches : ~Active(b)

\* Every batch comes to its end, releasing what it holds.
BatchesEnd == \A b \in Batches : Active(b) ~> batch[b].pc = "ended"

\* "cancelling one account affected the whole batch" is what runner_test.go:78
\* rules out: a batch leaves accounts out only when its context is over or the
\* site is off.
BatchServesAll ==
    \A b \in Batches :
        batch[b].pc = "ended" =>
            batch[b].todo = {} \/ batch[b].over \/ ~batch[b].on
=============================================================================
