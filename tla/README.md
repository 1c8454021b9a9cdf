# MiyoHub in TLA+

MiyoHub is a self-hosted service (Go, with a Vue client) that keeps miHoYo
accounts of several users, checks them in every day, exchanges shop goods at the
moment a sale opens, and pushes reports. One process serves everything; all
persistent state is one JSON document that the store replaces atomically.

This directory holds TLA+ models of its concurrent core, the TLC configurations
that check them, and machine-checked proofs.

    tlc -workers 2 -config ExchangeOrders.cfg MCExchangeEngine    # and ExchangeProgress
    tlc -workers 2 -config OutboxDelivery.cfg MCPushOutbox        # and OutboxProgress
    tlc -workers 2 -config RunnerChanges.cfg MCTaskRunner         # and RunnerWholeBatch
    tlc -workers 2 -config RunsDaily.cfg MCDay
    tlc -workers 2 -config RunsRebound.cfg MCAutomaticRuns
    tlc -workers 2 -config Site.cfg MCSite
    tlc -workers 2 -config Dialogs.cfg MCDialogs
    tlc -workers 2 -config Gateways.cfg MCGateways                # and WeixinStops
    tlapm ExchangeEngine_proofs.tla     # and PushOutbox_, TaskRunner_, AutomaticRuns_, Members_,
                                        # Timing_, Logins_, Gateways_

`RunnerWholeBatch`, `RunsRebound` and `WeixinStops` end in a counterexample: the
code does not do there what a test, the README or a message says.

## Inventory

Paths are relative to `internal/`.

| Component | State | Operations | Interacts with |
|---|---|---|---|
| Exchange engine, `shop/engine.go` | a goroutine and a cancel function per running plan, one request gate per account, the wake channel | Start, Wake, Run, Cancel, CancelAccount, Stop, the dispatch loop | claims and records through the store; reads the server clock; sends to the shop |
| Retry loop, `shop/validation.go` | attempt number, last reply, deadline | ExchangeWithRetry, prepare | the engine's gate and progress callback |
| Exchange plans, `store/exchange.go` | plan records | create, update, delete, claim, phase, progress, finish, recover | engine and HTTP handlers |
| Server clock, `shop/clock.go` | offset, uncertainty, one sample in flight | sync, wait, Now, earliestNow | every plan of the engine |
| Store transactions, `store/store.go`, `store/encryption.go`, `processlock/lock.go` | working and committed state, key file, lock | saveLocked, load | everything |
| Push outbox, `store/push_outbox.go`, `notify/dispatcher.go` | queued deliveries and their state, a worker, a calendar ticker | queue, trim, claim, finish, recover | runner and engine enqueue, senders consume |
| Calendar reminders, `store/calendar_reminders.go` | reminders that reference deliveries | add, cancel, clear, queue due | outbox |
| Task runner, `tasks/runner.go` | batches under way, the context that reserves each account | begin, run, release, cancel, stop | schedulers, HTTP handlers, daily-run claims |
| Schedulers, `scheduler/*.go` | next run, running flag, reload signal | start, reload, tick, stop | runner |
| Users, sessions, invitations, `store/store.go`, `store/permissions.go` | users, sessions, codes | create admin, register, approve, change role or status, reset, delete, authenticate | every handler |
| Accounts, `store/accounts.go`, `store/task_settings.go` | accounts, credentials, task options, daily-run marks | bind, renew, update, delete, claim a daily run | runner, engine, login |
| Push settings and bindings, `store/push.go`, `notify/binding.go` | channel configurations, binding sessions | bind, update, cancel, complete | outbox, monitors |
| QQ gateway, Weixin monitor, `notify/qq_gateway.go`, `notify/weixin.go` | one worker per configuration, connection state | reconcile, run, stop | push settings |
| Login, `auth/*.go` | QR and SMS sessions per user | start, poll, verify, complete, cancel | accounts |
| Captcha, `captcha/*.go`, `store/captcha*.go` | budgets, activity, probes | claim, record, recover | runner, login |
| Game records, `gamerecord/service.go` | cache, requests in flight, epochs | get, invalidate, stop | accounts |
| Archives, `api/archive.go`, `transfer/crypto.go` | import previews | preview, confirm, cancel | accounts |
| Task algorithms, `tasks/*_checkin.go` | none of their own | missions, rewards, check-in flows | runner |
| Upstream client, HTTP API, command line, web client | none that a protocol depends on | | |

### What makes each part correct, and what is hard about it

* **Exchange.** Points are spent by a request that cannot be taken back and whose
  reply may be lost. A plan must buy at most once, its record must never call a
  possible purchase "nothing happened", one account must not send overlapping
  requests, and no execution may hang or survive a stop. Hard: the run interleaves
  with the user's edits and cancels, with revocations, with Engine.Stop and with a
  crash between any two steps; saves may fail.
* **Server clock.** A request is never sent before the sale opens although the
  estimate may move backwards while a plan queues.
* **Store.** A transaction is on disk or has not happened.
* **Outbox and reminders.** A delivery is sent by one worker at a time, is not
  forgotten by a crash, is not sent to a channel its user removed, and trimming
  keeps what is due.
* **Runner and schedulers.** An account is worked on by one batch at a time and at
  most once a day automatically; a stop or a cancel leaves nobody waiting.
* **Users.** There is always an active administrator although administrators manage
  one another, sessions follow the password, and an invitation is not used more
  often than it allows. Hard: what a request was let in with may be out of date
  when it acts.
* **Accounts and login.** An account exists once on the site and stays with its
  owner, whichever of several users' dialogs completes first; a dialog that was
  cancelled, replaced or revoked binds nothing.
* **Channel bindings.** A QQ bot serves one channel; a dialog never overwrites an
  edit made while its code was shown.
* **Monitors.** One goroutine per channel reports at a time, and none is missing
  for good. Hard: passes act on what they read before, goroutines report for what
  they were started with.
* **Game records.** A cache entry never outlives the login it was fetched with,
  and requests keep their distance whatever is cancelled.

The hazards are listed with their source lines in `PROJECT.json`.

## Plan

1. `ExchangeEngine` with its abstract specification `ExchangeOrder` and its proofs
   (done).
2. `PushOutbox`: outbox, dispatcher and calendar reminders, with the abstract
   specification `PushPromise`, with the proofs about single deliveries and about
   reminders (done).
3. `TaskRunner`: the runner and what races with it, and `AutomaticRuns`: daily-run
   claims and the two schedulers, each with its proofs (done).
4. `SaleClock`: the shop's clock and the plans that wait by it. `Members`: users,
   sessions, invitations and the requests that manage them. Each with its proofs
   (done).
5. `Accounts`, and `Logins`, which extends it with the three dialogs that bind
   accounts. `PushBindings`, and `Gateways`, which extends it with the monitors.
   `GameRecords`. Each with its proofs (done).
6. Left: captcha budgets and probes; the pure rules of the task scripts; abstract
   specifications of a claim of a day, of a binding and of a cached answer.

Modules that share state extend one another: `Logins` and `Gateways` are
compositions, in which the dialogs and the goroutines meet the store's operations.
The others meet only through values that each leaves open: `ExchangeEngine` takes
any reading of the clock `SaleClock` describes, `TaskRunner` any claim that
`AutomaticRuns` may grant.

## ExchangeEngine

One module holds the engine, the retry loop and the plan records, because the
interesting behaviour is in how they interleave.

| Variable | Code |
|---|---|
| `plan` | the `ExchangePlan` records as committed; `key` stands for `AttemptKey`, numbered by the revision of the claim that drew it |
| `draft` | the revision an edit dialog holds |
| `run` | the goroutine of `Engine.execute`: where it stands, how its context ended, the attempt and the outcome it will record |
| `gate` | `Engine.accountRequests` |
| `access` | what `allowed()` answers for an account: enabled, permitted, credentials unchanged |
| `process` | up, stopping (`Engine.Stop` called) or down |
| `market` | the shop's view: the last request, how many were sent, how many bought |

A step of the goroutine is what happens between two points at which somebody else
can act: a context check together with the store transaction it guards, the send,
the reply. Every store transaction may fail to save (`Save` with `ok = FALSE`),
which leaves the record as it was, as the roll-back in `saveLocked` does. Time is
abstract: each reading of the clock is an arbitrary answer of `Readings`, which
covers every order of the opening, the deadline and corrections of the estimate.
The shop (`ShopDecides`) may decide a request long after the client gave up on it.
`Crash` loses the goroutines and gates; `Start` recovers the records.

`ExchangeOrder` is what the owner of a plan is promised: the order is placed,
begun, possibly exposed to the shop, and closed with a verdict that does not hide
a purchase. `ImplementsOrder` maps records and shop to it; retries, gate, saves
and processes disappear.

### Runs

| Run | Instance | Shows |
|---|---|---|
| `ExchangeOrders` | two plans for the same goods, 1 failed save, 1 crash: one plan has 2 attempts in a run and 3 revisions, so it is edited or runs a second time after a restart; the other, its competitor, makes one attempt in one run (the `CONSTRAINT`) | one run per goods, a run's writes are never refused, at most one purchase, no hidden purchase, and the refinement, which includes that a success is real and a result final |
| `ExchangeProgress` | two plans of one account, different goods, 1 attempt, 1 crash, fairness | requests never overlap, every execution ends, a running record is settled |

Two attempts let a run be rejected, retried and then lost; three revisions let a
plan be edited before its claim, or be claimed, recovered as pending and claimed
again, the case in which a blind recovery would buy twice; a failed save may meet the claim, a progress report or
the final state. Longer sequences are left to the proofs, which bound nothing. Two
plans are enough for the gate and the duplicate check, which compare plans in
pairs. A leaked gate would keep the other plan waiting for ever and so violate
`RunsEnd`. The runs may end (every plan deleted or final, every bound used up), so
they do not check deadlock.

Fairness: a goroutine's steps are weakly fair because the Go scheduler runs every
runnable goroutine and each of its blocking calls is bounded by the seven-minute
context (`engine.go:86`), which is `RunTimeout`. `Exit` is fair because Stop
returns once the goroutines have ended, `Start` because the service is restarted
by its supervisor (`deploy/`). Users, the shop, faults and access changes owe
nothing.

### Proofs

`ExchangeEngine_proofs` proves every safety property above, and the refinement,
for any number of plans, accounts, attempts, failed saves and crashes; also
`TypeOK`, `AttemptsRecorded` (an attempt is on disk before its request leaves) and
`EditsAreCurrent` (an edit replaces the revision its author saw), which no run
lists because the others break with them.

None of them is inductive. That a plan buys at most once rests on where the
goroutine stands, which rests on the record being nobody else's, which rests on
what a restart concludes from the attempt number. `IInv` says so in three parts
for each plan: the record of a plan being executed is its goroutine's
(`OwnsRecord`); the attempt number is on disk before a request leaves
(`AttemptBeforeRequest`); and what the shop may have follows from the step and the
record (`RequestFollowsRecord`). With the gate's invariant and the duplicate check
these are preserved by every action, one lemma per kind of step, and the
properties follow. The refinement reuses `IInv` and shows for each action the
abstract step it is.

The only assumption is `ExchangeAssumption`, the types of the constants.

### Observations

* A failed save of the final state is only logged (`engine.go:103`): the record
  stays `running` until the next start, which makes it `unknown`. `RunningSettles`
  is therefore checked without failed saves.
* A cancel is not recorded until the run ends. If the process crashes in between,
  an automatic plan that has sent nothing returns to `pending` and runs again.

## PushOutbox

One module holds the outbox, the dispatcher's workers and the calendar reminders:
a reminder is closed by the deliveries it asked for, and those are settled by
whoever claims, cancels, sends or recovers them.

| Variable | Code |
|---|---|
| `last`, `notice` | the notices made so far and what each is about; a notice is one call of `queuePushEventLocked` or `RecordPushTest` |
| `outbox`, `status` | `PushDeliveries`, one delivery per notice and channel, and its `Status`; `status` remembers deliveries that were trimmed or removed with their user |
| `reminder` | `CalendarReminders`: event, status, tally, and where now stands (`window`: before `RemindAt`, deliverable, too late) |
| `settings` | `UserPush`: revision, kinds switched on, enabled channels |
| `access` | what `pushAllowedLocked` sees of user and account: open, closed, account removed, user removed |
| `passed`, `deleted` | events whose moment has passed; events a user deleted |
| `worker` | the goroutines of `Dispatcher.work`: between claims, claimed, answered |
| `process` | up, stopping (`Dispatcher.Stop` called) or down |
| `provider` | the push services' view: how often a delivery was offered, whether it was taken |

Claiming, sending and finishing are separate steps: the store's lock is free while
a request is under way, and everything else may happen then. A claim skips the
stale deliveries in front of the one it takes. `Claim` and `SkipStale` settle
reminders (`Settle`, which is `finishCalendarReminderLocked` for all deliveries
settled in one transaction); so do `Finish` and `Start`. A cancel closes its
reminder itself. Every handler's save may fail and is then rolled back, a
stuttering step; the exception is the save of an answer, whose error the worker
ignores (`dispatcher.go:113`), and `Finish` models its failure.

Simplifications: a user has one account and one game's calendar; an event has one
moment; within one notice the channels are claimed and trimmed in any order, where the
code keeps the order of the settings; events exist from the start. Texts, delivery
ids and timestamps are left out.

`PushPromise` is what a user is promised of a single notification: it waits, is
begun once, reaches the provider at most once, and the verdict in the history is
final and true. Reminders, revisions, trimming and restarts disappear in it.

### Runs

| Run | Instance | Shows |
|---|---|---|
| `OutboxDelivery` | one user, two channels, one event, two reminders one after the other, two workers, room for three deliveries, 1 failed save, 1 stop or crash | sent once, no channel told twice, the tally, nothing left "sending", and the refinement |
| `OutboxProgress` | one channel, an outbox of one, a task notice or a test beside a reminder, 1 stop or crash, fairness | deliveries settle, reminders are decided |

Two notices let one delivery overtake, replace or crowd out another; a second
reminder for the same event is needed for a repeated notice; revision 2 is one
change of the settings after the first, while deliveries of the old ones wait. Room
for three is one less than two reminders on two channels ask for, so trimming
happens while deliveries wait. The runs may end (all bounds used up), so they do
not check deadlock.

Fairness: workers (`Work`) because a request is bounded by its timeout
(`push.go:58`), `QueueDue` because the calendar goroutine looks every 30 s, time,
`Exit` and `Start` as above. Without a failed save: an answer that is not saved
leaves its delivery "sending" until the next start.

### Proofs

`PushOutbox_proofs` proves type correctness, `SentOnce`, `HonestStatus` (the history
is true), `OneWorkerPerDelivery`, the refinement and `OutboxBounded`, for any users,
channels, workers, capacity and number of faults. Those that no run lists are what
the refinement rests on.

`SentOnce` is not inductive: it needs that a worker about to send holds a delivery
nobody has offered, which needs that pending deliveries were never offered
(`HonestStatus`), that two workers never hold the same one
(`OneWorkerPerDelivery`), that a number not yet given has no history (`Fresh`), and
what a worker knows of the provider (`WorkerKnows`). `DeliveryInv` is their
conjunction. Most steps only queue, skip or touch neither (`Quiet`), and one lemma
serves them all; `QuietSteps` reduces the next-state relation to `Quiet` and seven
actions. The refinement uses the same lemmas.

`SendingIsHeld` counts: the deliveries that nobody sends although they say so
(`Orphans`) grow by one with a failed save, shrink otherwise, and are none after a
start.

`TallyRight` is about sums. It needs `TallyInv`: a reminder not queued yet has no
deliveries (`Untouched`), what a queued one waits for is in the outbox
(`AwaitedKept`), so trimming, which spares what is active, cannot lose it, and its
deliveries are all its user's (`OwnersTold`, `ChannelsOwned`), so removing a user
removes them with it. Each way of settling deliveries adds to the tally what it
takes from the active ones; one lemma shows it for any set settled at once.

`NoticedOnce` follows from `OnceInv`: at most one reminder of an event may still
speak (`OneSpeaks`), one that spoke gives up its live deliveries before it makes
room for another unless the event is over (`LiveWaits`), and a reminder makes one
notice (`OneNotice`). The only assumption is `OutboxAssumption`.

### Observations

* `FinishPushDelivery`'s error is ignored: the delivery stays "sending" until the
  next start, keeps its place in the outbox, and counts towards the 500.
* `NoticedOnce` speaks of the deliveries the outbox still holds: when an accepted
  delivery of a still queued reminder has been trimmed, the reminder may be
  cancelled, cleared and added again, and the channel is told twice.
* `DeleteCalendarEvent` cancels a queued reminder although a notice may be on its
  way; the answer is then not tallied.

## TaskRunner

The module holds the runner together with the store and API calls that race with
it: what matters is which of the runner's looks at the account comes before an
edit and which after.

| Variable | Code |
|---|---|
| `account` | an account and its owner: open, closed (either is disabled) or gone; the login (SToken and device, numbered), the cookie with the login it was obtained for, the task selection, `Automatic` |
| `site` | `Config.Enabled` |
| `reserved` | `Runner.running` and `Runner.contexts`: whose context an account has |
| `batch` | a call of Run, Start or RunScheduled and its goroutine in `Runner.run`: place, accounts left, the snapshot (`seen`), the selection it follows (`work`), requests left |
| `stopped` | cancelled account contexts; `batch[b].over` is the batch's own |
| `revoking`, `sweeping`, `leaving` | handlers between their store call and their `CancelAccount`, or, for a delete, between the two the other way round |
| `process` | up, stopping (`Runner.Stop` called) or down |
| `late` | history: requests sent for the current account although its owner had taken the authority back |

`Begin` is one step, because `begin` holds `Runner.mu`; the store's answers in it
may be older than its end, which looks no different from a change just after it.
In `run` every look at the store is a step: `TakeAccount`, `ReadConfig`,
`FindContext`, the two halves of `allowed()` (`Ask`, then the switch and the
context in `Send` or `SiteRefuses`), the renewal and its store call, `Record`,
`Release`, `End`. The tasks of an account are a bounded number of requests, any of
which may fail. A handler that changes an account and then cancels its run leaves
an obligation (`WillRevoke`) which `Revoke` meets later.

Simplifications: progress, logs and notifications, which nothing reads back, are
left out; `ClaimAutomaticRun` is a choice of the accounts it grants; each batch is
used once; new credentials come all from one login, as logging in gives them (a
user who types in an SToken and keeps a foreign cookie is not modelled); a PUT of
task settings carries a revision its author has seen, so the settings its handler
read before are the ones it replaces.

### Runs

| Run | Instance | Shows |
|---|---|---|
| `RunnerChanges` | one account, a user's batch and a daily one, three selections, two task requests after the renewal's, 1 change, 1 failed save, fairness | stale runs are cancelled, at most one late request, renewals keep to their login, reservations are exact, Stop is final, every batch ends |
| `RunnerWholeBatch` | a daily batch of two accounts, one change | one deleted account takes the rest of its batch with it (a finding) |

Two batches are all a pair can collide with; that a batch holds one account while
it has given another back is left to the proofs. One change at any point is an edit
before or after a renewal, or a re-binding during one; closing and opening again,
and longer sequences of changes, are left to the proofs, which bound nothing. Two
requests are what a late one and a second one need. The runs stop when the batches
are used up, so they do not check deadlock.

Fairness: the goroutines of batches (`Step`), whose requests end by the client's
timeouts and the thirty minutes of `runner.go:92`, and `Exit`. Handlers, users and
the clock owe nothing: no batch depends on being cancelled.

### Proofs

`TaskRunner_proofs` proves the five safety properties above, `TypeOK` and
`OneBatchPerAccount` for any accounts, batches, selections and bounds, from
`RunnerAssumption` alone.

Mutual exclusion follows from `Reserved`: an account a batch has yet to turn to is
reserved for it, and what is reserved was chosen by a batch that has not ended.
The release at the end of an account and at the end of the batch preserve it only
because of the generation check. `Stale` says a run that follows other settings than
the stored ones is doomed: cancelled, or a handler is about to. `Credentials` says
logins and cookies only move on, so a snapshot that once differed never fits again
(`DifferenceStays`). `Late` rests on both: after a late request the run is doomed,
its account closed or its snapshot outdated, and each of the three keeps `Ask` from
succeeding, except the first, which makes the request excusable. The handlers are
treated together: `Answered` is what each of them guarantees of every account.

### Observations

* An account that `run` skips, because it was disabled or its automatic switch was
  turned off since `begin`, stays reserved until the whole batch ends; the user is
  told meanwhile that a task is running.
* A renewal replaces the run's snapshot by the whole stored account
  (`runner.go:249`), task selection included, while the run keeps following its
  `cfg`. From then on `allowed()` agrees with an edit it should refuse; only the
  handler's own cancel stops the run.
* An account check that renews the cookie ends a running batch's work on that
  account: `allowed()` takes the new cookie for changed credentials.
* DELETE cancels before it deletes (`api/accounts.go:75`): a batch that begins in
  between is not cancelled, and ends on `RecordTasks`' error.

## AutomaticRuns

The site's scheduler, the users' own times and the claim that both make before
they work on an account. They share the store and `Runner.mu`, and nothing else.

| Variable | Code |
|---|---|
| `now` | the clock, in minutes; `Date` and `Clock` say what a zone makes of it |
| `site` | `Config.Enabled`, `Config.Schedule` |
| `account` | runnable or not, `Automatic`, own time, revision, `LastAutomaticAt` (0: never), and a count of its bindings |
| `sched` | `Scheduler.schedule`, `nextRun` and the wake channel, whose one place is full or not |
| `loop` | the goroutine of `Scheduler.loop` and the copies it works on |
| `tick` | the goroutine of `Personal`: the minute it looks at, accounts left, what it attempted in the last minute |
| `job`, `mu` | calls of `Runner.begin` by the two, and the lock it holds meanwhile |
| `reserved` | whose run an account is in |
| `put` | `PUT /config` requests: saved, read back, stored in the scheduler, signalled |
| `process` | up, the phases of `Server.Stop` (ticker, runner, loop), down |
| `grants`, `calm` | history: the claims granted; accounts that nothing disturbed in this minute |

`begin` is taken apart: the look at an account with its revision and the time
(`Look`) and the claim in the store (`Claim`, `ClaimRefused`) are separate steps,
between which accounts are edited, disabled and bound anew and minutes pass; only
other calls of `begin` wait for the lock. `Reload` is taken apart too, into storing
the schedule and signalling. A batch ends at any time (`TaskRunner` says how).

Simplifications: every account has a task to do; the half minute of a switched-off
loop passes at any time; zones keep their offset and the clock is not set back, so
that dates only grow; run-time cancellation is left out. Schedules are valid, as
`UpdateSettings` requires.

### Runs

| Run | Instance | Shows |
|---|---|---|
| `RunsDaily` | one account, days of two minutes, two zones one minute apart, a schedule with a delay and one switched off that runs on start, 3 minutes, one request, 1 edit, 1 failed save, 1 restart; and the instance of `PushBindings` below | at most one run a day per binding, own times served, no lost reload, nothing marked after Stop |
| `RunsRebound` | the same, without failed saves and restarts | an account bound anew on the day of its run runs again (a finding) |

Accounts do not influence one another except through the lock, which one account
and two callers contend for as well. Three minutes see every date of both zones
change, in one of them in the middle of a day of the other; a second request would
overtake the first, which the proofs cover. The process may end for good, so the
runs do not check deadlock.

### Proofs

`AutomaticRuns_proofs` proves `TypeOK`, `OnceADay`, `NoLostWakeup`,
`QuietAfterStop` and `OwnTimeIsServed` for any accounts, zones, schedules, requests
and bounds, from `AutomaticAssumption`: the types of the constants, and dates that never go back.

`OnceADay` speaks of all claims granted so far, but the store compares with the
last mark only. The proof needs that the mark is the latest claim
(`MarkIsLatest`). That rests on the claim's time being read under the lock and so
not older than the mark (`ClaimsAreFresh`), which rests on one claimant at a time
(`Exclusive`). Dates being monotonic, an earlier claim of the same date would have
the mark's date as well, and the claim would be refused. `StoppedIsQuiet` and
`WillSee` are the inductive forms of the other two; `WillSee` also covers the loop
that has read the schedule and not yet planned.

`OwnTimeIsServed` looks at the end of a minute, and so needs `CalmInv`, which follows
the accounts that nothing disturbed through it: whoever is due and has not run is
still before the ticker, or in its call of `begin` (`Attended`), and was not put
aside as attempted; whoever is claimed or reserved has run (`Credited`). That a claim
cannot fail for a stale revision or time rests on nobody claiming when the minute
began (`MinuteIsWhole`), since `Runner.mu` was free.

### Observations

* The loop plans from its copy of the schedule and then stores the next run
  (`scheduler.go:150`), overwriting what a `Reload` in between has reset. It wakes,
  but keeps that plan: the next run follows the schedule just replaced.
* Two concurrent `PUT /config` read the settings back before they reload, so the
  scheduler may be left with the older schedule until the next change.
* With a delay past midnight a site run marks the day after the one it was planned
  for, and that day's own run, due before the mark is a day old, is refused.
* `RunScheduled` collects its accounts before `begin` locks: one whose user sets an
  own time meanwhile is still run by the site.

## SaleClock

The shop's clock as the server estimates it (`shop/clock.go`), and the waits of
plans that use it (`engine.go` execute, `validation.go` ExchangeWithRetry up to the
first request), in integer time.

| Variable | Code |
|---|---|
| `now`, `skew` | local time, and how far the shop's clock is ahead |
| `status`, `attempted` | `serverClock.status`: offset and uncertainty in milliseconds, when; the last attempt |
| `inflight` | the request all callers of `sync` wait for |
| `plan` | where each plan stands: preparing, waiting for the sale, at the gate, sending |

The shop tells whole seconds (`ShopStamps`), so an estimate is off by up to one
round trip and a second; `earliestNow` takes the uncertainty off. Durations are cut
to milliseconds towards zero, as Go does. A plan that queues at the gate looks again
when its turn comes (`StillOpen`); another plan may have set the clock back since.

`SaleNotEarly` allows two milliseconds: offset and uncertainty are each cut to
milliseconds, so `earliestNow` may be up to two milliseconds ahead of what its
comment calls safe. The instance has a second of two milliseconds of two units
each, skews from -5 to 5, two plans, and time for two samples between the first
look and the sale.

`Timing_proofs` proves it for any plans, skew, round trips and time. `ClockInv` says
that a stamp the shop told is past (`StampsPast`), and that the estimate with its
uncertainty taken off is less than two milliseconds ahead (`SetEarly`). The second
follows from the first at each sample: offset less uncertainty, both with the half
second and half the round trip, is the stamp less the moment the answer came; the
lemmas about cutting say what is lost on the way. `SaleClockAssumption` asks that the half second of `clock.go:108` is a whole
number of milliseconds. A plan looks at the clock again in the step in which it
leaves, so a clock set back in between does no harm.

## Members

Users, sessions and invitations (`store/store.go`, `permissions.go`, `users.go`,
`password.go`), and the requests that manage them.

| Variable | Code |
|---|---|
| `user` | users: state, role, the number of their password; with the invitation they came by, which is history |
| `sessions` | a user's sessions, oldest first, with the password they were opened with |
| `invite` | invitation codes: state, expired, used, limit, creator |
| `mode` | `RegistrationMode` |
| `request` | a request that `withAuth` let in: whose, and whether as an administrator |

`Enter` and the action of a request are separate steps, so an administrator may act
after having been demoted; only `UpdateUserAccess` and `CreateInviteCode` look again.
A save that fails changes nothing; for registrations it is an action of its own
(`RegistrationFails`), because there the invitation has been consumed in memory.
Names, permissions, hashes and the data that goes with a deleted user are left out.

`Members_proofs` proves all three properties and `TypeOK` for any users, codes,
requests and limits, from `MembersAssumption`. `MembersInv` adds that requests are
by people who exist, and that whoever and whatever is new has brought nothing. The
last administrator survives because a change is refused to the only active one and
concerns nobody else (`AdminsKept`); a user who is created is never the first,
because its creator exists (`RequestsOfUsers`). Every step is about one user
(`AboutOne`) or none (`AboutNone`).

Observation: `ChangePassword` does not look at the user's state. A change that was
let in before its user was disabled opens a session, which works once the user is
active again; `SessionsHonest` allows for it.

## Accounts and Logins

`Accounts` has what `store/accounts.go` and `archive.go` do to the accounts users
bind; `Logins` extends it with the dialogs that find them: the QR login, the SMS
login with its challenges, and the preview of a migration file.

| Variable | Code |
|---|---|
| `member` | users: active, disabled, gone |
| `account` | accounts: owner, uid at the provider once known, name |
| `exchanging` | accounts with a running plan |
| `dialog` | the sessions of the three managers, and the goroutine or handler that carries each |
| `qr`, `sms`, `preview` | the managers' maps: a user's current dialog |
| `cooling` | phones a code was sent to lately |
| `revoking` | handlers in `cancelUserWork`, which cancels manager by manager |
| `revoked` | history: dialogs that were cancelled, replaced, timed out or lost their user |

A dialog's goroutine asks the provider without a lock and comes back to its
manager's lock (`finish`, `complete`, `finishSend`, `consume`), where it looks whether
it is still wanted; that is one step with the store's operation, which it calls under
the lock. What the provider answers, and whether a code is right, is a choice.
`Accounts` leaves out credentials and task settings, which `TaskRunner` has.

`Logins_proofs` proves `AccountsSound`, `NeverChangesHands`, `OnlyWantedBind` and
`RunningIsCarried`, for any users, accounts, phones, dialogs and limits, from
`AccountsAssumption` and `LoginsAssumption`. `AccountsInv` adds to `AccountsSound`
that a place nothing was bound to holds no uid (`Blank`), and that the accounts are
finitely many, without which `CanAdd` could not count what a login matches; the set
of ids may be infinite. `AddEffect` says once what `addAccountLocked` does, and every
binding is reduced to it. `DialogInv` says that a manager's map leads to dialogs of
that manager and user (`Leads`), that a login which shows as running stands between
its goroutine's first and last step (`Runs`), and that each manager, in its own way,
would refuse a revoked dialog (`Unwanted`). No dialog leaves that state, which is why
revoking is final although the managers are cancelled one after another.

## PushBindings and Gateways

`PushBindings` has the channels as far as connections to bots go, their edits, and
the dialogs that bind a QQ or Weixin bot; `Gateways` extends it with the two
monitors.

| Variable | Code |
|---|---|
| `channel`, `revision` | `PushChannel`: owner, bot (AppID or bot id), secret, enabled, `BindingState`; the settings' revision |
| `dialog`, `session` | `bindingSession` with its goroutine, and the map of current ones |
| `snapshot` | what a pass of a monitor has read from the store and not yet acted on |
| `monitor`, `worker` | the monitors' maps, and goroutines: what each was started for, whether it is cancelled, where it stands |
| `member`, `revoking`, `stopped`, `revoked` | as in `Logins` |

A pass reads and then acts; goroutines store their state in steps of their own, for
the channel and credentials they were started with (`Matches`), and a save of theirs
may fail.

`Gateways_proofs` proves `QQBotsUnique` and `BindsWhatWasSeen` for the dialogs
alone and again beside the monitors, and `OnlineShows`, for any users, channels,
bots, dialogs, goroutines and bounds. `ChannelsInv` is what the store keeps,
`SessionsInv` what dialogs know of it: a dialog that saw settings of the present
revision knows them as they are (`Knows`), because every step leaves a user's
settings alone, tells by the revision, or leaves no user (`SettingsTell`). That
monitors write states without a new revision does no harm, since a state is not
among what a dialog looks at. `WorkersInv` carries the proof of `OnlineShows`: the QQ
monitor's map leads to every goroutine of its that runs, also a cancelled one
(`InPlace`), so two never run for one channel (`OneRunsAChannel`, a theorem of its
own) and none reports after its successor. Besides, a monitor has to do only with
channels of its provider, by what it runs and by what it last read (`OfProvider`), as
no edit changes a channel's provider (`KeepsProvider`).

Fairness (`Gateways!Fairness`): each monitor's loop ticks every three seconds, and a
goroutine goes on because each of its requests and pauses has a timeout. Users,
dialogs and Stop owe nothing.

Observations:

* `WeixinServed` does not hold (`WeixinStops`): a poller whose state cannot be
  stored ends by itself, and `reconcile` takes it for a running one as long as the
  credentials stay.
* A QQ channel that is edited away and back between two passes, or whose secret is
  cleared and entered again, keeps its session online while `BindingState` was
  emptied; `OnlineShows` asks only that it shows no disconnection.
* The bot of a Weixin channel is looked for in other channels by `BindPushChannel`
  but not by `UpdatePushSettings`; `QQBotsUnique` is about QQ.

## GameRecords

The cache of game records (`gamerecord/service.go`) and the handler that reads the
roles and then a note (`api/game_record.go`).

| Variable | Code |
|---|---|
| `credentials`, `runnable` | the account as stored |
| `invalidating` | edits between the store's change and `Invalidate` |
| `entry` | the account's entry: identity, epoch, busy, next, blocked, snapshots |
| `others` | loads of other accounts, which count for the limit |
| `read` | handlers: the account as they began with it, their place in `read`, what they will answer |

A snapshot is represented by the credentials it was fetched with. A login that binds
the account anew does not invalidate at all; the identity check in `read` and the
handler's last look keep the answer right, which `RecordsHonest` and `AnswersCurrent`
show. `OneAfterAnother` follows README.md:164.

`Timing_proofs` proves the three properties for any handlers, credentials, limits and
pauses. `RecordsInv` adds that only the handler that holds the entry pauses or loads
(`OneHolds`), that a handler whose epoch is the entry's has the entry's credentials
(`EpochsTell`), because every change of identity comes with another epoch, and that
the entry remembers the last request and refusal through every clearing
(`PausesKept`). `AnswersCurrent` then rests on `RecordsHonest` and the last look.

## Runs of these modules

| Run | Instance | Shows |
|---|---|---|
| `Site` | `Members`: two users, one invitation with or without a limit of 1, two requests, two sessions, one change of each password, one failed save. `GameRecords`: two readers, two logins, 2 edits, 3 ticks. `SaleClock`: as above | an active administrator remains, sessions and counts are honest; records and answers belong to the login, loads keep their distance; no request before the sale |
| `Dialogs` | two users, two accounts, two uids, one name, two dialogs of any kind, 1 try and 1 challenge, 2 acts | accounts stay unique, sound and with their owner; only wanted dialogs bind; none is left running |
| `RunsDaily` | `PushBindings`: two users, two channels, a bot of each kind, two dialogs, 1 act; and `AutomaticRuns` as above | a QQ bot serves one channel; no edit is overwritten |
| `Gateways` | one channel with a QQ or Weixin bot and a dialog, two goroutines, 1 act, 1 failed save; or two QQ bots with room for one | an online session shows, a QQ channel is served |
| `WeixinStops` | one Weixin channel, 1 failed save | the poller is not started again (a finding) |

`Site` and `RunsDaily` hold instances that share nothing: each behaviour is one of
either module, chosen at the start (`about`): with no variable in common, a mixture
of their steps could show nothing more. Two users and two dialogs are enough for
every conflict, which is between a pair; a user's second dialog replaces the first.
Two acts are an edit or a revocation before and one after a step of a dialog; one
act is enough where a dialog's own steps already change the settings. Two
administrators are what it takes to demote each other at once. The runs may end
(dialogs, identities and acts are used up), so they do not check deadlock.

## Not modelled, and only model-checked

Every invariant and every action property of the passing runs is stated by a theorem.
What TLC alone checks is liveness (`RunsEnd`, `RunningSettles`, `DeliveriesSettle`,
`RemindersDecided`, `BatchesEnd`, `QQServed`): proofs under fairness are out of the
prover's reach. The properties of the three runs that end in a counterexample are
refuted. The type invariants of `GameRecords`, `SaleClock`, `Accounts`, `Logins` and
of what `Gateways` extends are parts of the invariants above; no run lists them.

Not modelled:

* **Captcha.** A probe is a row written before and after one request and a budget a
  counter under the store's mutex; the solvers are network I/O. One thing was seen
  while reading: when the save of `FinishCaptchaProbe` fails, the probe stays
  "running" until the next start although nothing carries it.
* **Task scripts** (`tasks/*_checkin.go`, `bbs_inspect.go`, `mihoyo/*`,
  `shop/exchange.go`): sequential requests whose results are texts. `TaskRunner` has
  them as requests that succeed, fail or are refused.
* **Batch edits** of accounts are one transaction each and appear as single edits.
* Encryption, formatting, validation of fields, request signing, rate limits,
  rendering, the command line and network I/O carry no protocol state and stay out.
