---------------------------- MODULE AutomaticRuns ----------------------------
(***************************************************************************)
(* The daily runs: the site's scheduler (internal/scheduler/scheduler.go), *)
(* the users' own times (internal/scheduler/personal.go), and the claim    *)
(* that keeps the two from serving an account twice on one day             *)
(* (ClaimAutomaticRun, internal/store/task_settings.go).                   *)
(*                                                                         *)
(* Time is counted in minutes from 1; 0 is Go's zero time. A zone gives    *)
(* each minute a date and a time of day. The site's loop reads its         *)
(* schedule, plans, sleeps and runs in separate steps, between which an    *)
(* administrator may reload it. The ticker looks at every account with a   *)
(* time of its own. Both call Runner.begin, which claims account by        *)
(* account under Runner.mu, while the store may change at any time.        *)
(*                                                                         *)
(* How a batch works and is cancelled is TaskRunner's subject: here a run  *)
(* ends at any time. Every account has tasks to do. Changes of a zone's    *)
(* offset, and a clock that is set back, are left out.                     *)
(***************************************************************************)
EXTENDS Naturals, Sequences

CONSTANTS
    Accounts,
    Nothing,           \* no time of one's own, no account, no owner
    Zones,
    Date, Clock,    \* zone -> minute -> the date, the time of day
    SiteSchedules,  \* schedules an administrator may set; a member of it at first
    OwnTimes,       \* times a user may set
    Puts,           \* PUT /config requests that may be under way at once
    MaxTime,        \* bound on time
    MaxEdits,       \* bound on edits of accounts and of the configuration
    MaxFailedSaves, \* bound on claims whose save fails
    MaxRestarts     \* bound on starts after a stop or a crash

Times == 1 .. MaxTime

ASSUME AutomaticAssumption ==
    /\ {MaxTime, MaxEdits, MaxFailedSaves, MaxRestarts} \subseteq Nat
    /\ MaxTime > 0
    /\ {Date, Clock} \subseteq [Zones -> [Times -> Nat]]
    /\ \A z \in Zones : \A s, t \in Times : s <= t => Date[z][s] <= Date[z][t]
    /\ SiteSchedules # {}
    /\ SiteSchedules \subseteq
         [on : BOOLEAN, at : Nat, zone : Zones, jitter : Nat, onStart : BOOLEAN]
    /\ OwnTimes \subseteq [at : Nat, zone : Zones]
    /\ Nothing \notin OwnTimes
    /\ Nothing \notin Accounts \union {"site", "personal", "user"}

VARIABLES
    now,
    site,      \* Config.Enabled and Config.Schedule
    account,   \* the store's accounts
    sched,     \* what the scheduler shares: schedule, next run, the wake channel
    loop,      \* its goroutine, with the copies it works on
    tick,      \* the personal ticker's goroutine
    job,       \* the callers' calls of Runner.begin
    mu,        \* who holds Runner.mu
    reserved,  \* account -> whose run it is in
    put,       \* PUT /config requests
    process,   \* "up", the phases of Server.Stop, "down"
    edits, failedSaves, restarts,   \* changes and faults so far
    grants,    \* history: account -> the claims granted, and for which binding
    calm       \* history: accounts whose run nothing disturbed in this minute

vars == <<now, site, account, sched, loop, tick, job, mu, reserved, put, process,
          edits, failedSaves, restarts, grants, calm>>
store == <<site, account, edits, failedSaves, grants>>
goroutines == <<sched, loop, tick, job, mu>>

Callers == {"site", "personal"}
Beyond == MaxTime + 1

AccountRecord ==
    [open : BOOLEAN, automatic : BOOLEAN, own : OwnTimes \union {Nothing}, rev : Nat,
     last : Nat, binding : Nat]
LoopRecord ==
    [pc : {"start", "read", "sleep", "plan", "wait", "batch", "ended"},
     schedule : SiteSchedules, next : Nat]
TickRecord ==
    [pc : {"idle", "scan", "call", "ended"}, at : Nat, todo : SUBSET Accounts,
     due : SUBSET Accounts, attempted : [at : Nat, who : SUBSET Accounts]]
JobRecord ==
    [pc : {"idle", "enter", "look", "claim"}, todo : SUBSET Accounts,
     got : SUBSET Accounts, cur : Accounts \union {Nothing}, rev : Nat, at : Nat]

NoJob == [pc |-> "idle", todo |-> {}, got |-> {}, cur |-> Nothing, rev |-> 0, at |-> 0]
FreshTick ==
    [pc |-> "idle", at |-> 0, todo |-> {}, due |-> {}, attempted |-> [at |-> 0, who |-> {}]]

RunnerStopped == process \in {"runner", "loop", "down"}
LoopStopped == process \in {"loop", "down"}

-----------------------------------------------------------------------------
(* Schedules (internal/model/schedule.go, nextScheduledRun). *)

Zone(a) == IF account[a].own # Nothing THEN account[a].own.zone ELSE site.schedule.zone

SameDay(z, s, t) == s # 0 /\ Date[z][s] = Date[z][t]

AutomaticDoneToday(a, t) == SameDay(Zone(a), account[a].last, t)

OwnTimeIsNow(a, t) ==
    /\ account[a].own # Nothing
    /\ Clock[account[a].own.zone][t] = account[a].own.at

CustomRunDue(a, t) ==
    /\ account[a].open /\ account[a].automatic
    /\ OwnTimeIsNow(a, t)
    /\ ~AutomaticDoneToday(a, t)

\* The first time of the schedule after t, delayed at random.
NextTimes(s, t) ==
    LET later == {u \in Times : u > t /\ Clock[s.zone][u] = s.at} \union {Beyond}
    IN {u \in later : \A v \in later : u <= v}
NextScheduledRuns(s, t) == {u + delay : u \in NextTimes(s, t), delay \in 0 .. s.jitter}

-----------------------------------------------------------------------------
(* Runner.begin (internal/tasks/runner.go:38), called by the scheduler for the
   accounts without a time of their own and by the ticker for one account. *)

Called(todo) == [NoJob EXCEPT !.pc = "enter", !.todo = todo]

\* Mutant: a stopped runner still begins.
RefusedBySite == ~site.enabled

Refused == RunnerStopped \/ ~site.enabled

Begin(c) ==
    /\ job[c].pc = "enter" /\ mu = Nothing
    /\ IF Refused
       THEN job' = [job EXCEPT ![c] = NoJob] /\ UNCHANGED mu
       ELSE job' = [job EXCEPT ![c].pc = "look"] /\ mu' = c
    /\ UNCHANGED <<now, store, sched, loop, tick, reserved, put, process, restarts, calm>>

Look(c, a) ==
    /\ job[c].pc = "look" /\ a \in job[c].todo
    /\ job' = IF account[a].open /\ account[a].automatic /\ reserved[a] = Nothing
              THEN [job EXCEPT ![c] = [job[c] EXCEPT !.pc = "claim", !.todo = job[c].todo \ {a},
                                              !.cur = a, !.rev = account[a].rev, !.at = now]]
              ELSE [job EXCEPT ![c].todo = @ \ {a}]
    /\ UNCHANGED <<now, store, sched, loop, tick, mu, reserved, put, process, restarts, calm>>

\* Mutant: the claim trusts the ticker's look.
ClaimableOnSight(a, rev, at) ==
    account[a].open /\ site.enabled /\ account[a].automatic /\ account[a].rev = rev

Claimable(a, rev, at) ==
    /\ account[a].open /\ site.enabled /\ account[a].automatic
    /\ account[a].rev = rev
    /\ ~AutomaticDoneToday(a, at)

\* ClaimAutomaticRun: the mark is on disk before the account is reserved.
Claim(c) ==
    LET a == job[c].cur
    IN  /\ job[c].pc = "claim"
        /\ Claimable(a, job[c].rev, job[c].at)
        /\ account' = [account EXCEPT ![a].last = job[c].at]
        /\ grants' = [grants EXCEPT ![a] =
                          Append(@, [at |-> job[c].at, binding |-> account[a].binding])]
        /\ job' = [job EXCEPT ![c] = [job[c] EXCEPT !.pc = "look", !.cur = Nothing,
                                                        !.got = job[c].got \union {a}]]
        /\ UNCHANGED <<now, site, sched, loop, tick, mu, reserved, put, process,
                       edits, failedSaves, restarts, calm>>

ClaimRefused(c) ==
    LET a == job[c].cur
    IN  /\ job[c].pc = "claim"
        /\ \/ /\ ~Claimable(a, job[c].rev, job[c].at)
              /\ UNCHANGED <<failedSaves, calm>>
           \/ /\ Claimable(a, job[c].rev, job[c].at)
              /\ failedSaves < MaxFailedSaves
              /\ failedSaves' = failedSaves + 1
              /\ calm' = calm \ {a}
        /\ job' = [job EXCEPT ![c] = [job[c] EXCEPT !.pc = "look", !.cur = Nothing]]
        /\ UNCHANGED <<now, site, account, sched, loop, tick, mu, reserved, put, process,
                       edits, restarts, grants>>

\* The end of begin: the accounts claimed are reserved, and their batch runs.
Reserve(c) ==
    /\ job[c].pc = "look" /\ job[c].todo = {}
    /\ reserved' = [a \in Accounts |-> IF a \in job[c].got THEN c ELSE reserved[a]]
    /\ job' = [job EXCEPT ![c] = NoJob]
    /\ mu' = Nothing
    /\ UNCHANGED <<now, store, sched, loop, tick, put, process, restarts, calm>>

Job(c) == Begin(c) \/ (\E a \in Accounts : Look(c, a)) \/ Claim(c) \/ ClaimRefused(c) \/ Reserve(c)

\* A user starts a run, which needs no claim.
ManualRun(a) ==
    /\ process = "up" /\ mu = Nothing
    /\ site.enabled /\ account[a].open /\ reserved[a] = Nothing
    /\ reserved' = [reserved EXCEPT ![a] = "user"]
    /\ calm' = calm \ {a}
    /\ UNCHANGED <<now, store, goroutines, put, process, restarts>>

RunEnds(a) ==
    /\ reserved[a] # Nothing
    /\ reserved' = [reserved EXCEPT ![a] = Nothing]
    /\ UNCHANGED <<now, store, goroutines, put, process, restarts, calm>>

-----------------------------------------------------------------------------
(* The scheduler's loop. *)

\* What the loop's own steps leave alone.
BesideLoop == <<now, store, tick, mu, reserved, put, process, restarts, calm>>

\* runOnce, which a stopped scheduler refuses, calls RunScheduled; after it the next
\* run is forgotten.
RunOnce ==
    IF LoopStopped
    THEN /\ loop' = [loop EXCEPT !.pc = "read"]
         /\ sched' = [sched EXCEPT !.next = 0]
         /\ UNCHANGED job
    ELSE /\ loop' = [loop EXCEPT !.pc = "batch"]
         /\ job' = [job EXCEPT !["site"] = Called({a \in Accounts : account[a].own = Nothing})]
         /\ UNCHANGED sched

LoopStart ==
    /\ loop.pc = "start"
    /\ IF sched.schedule.onStart
       THEN RunOnce
       ELSE loop' = [loop EXCEPT !.pc = "read"] /\ UNCHANGED <<sched, job>>
    /\ UNCHANGED BesideLoop

\* One look at the schedule and the next run. Switched off, the loop forgets the next
\* run and sleeps; without a next run it will plan one; else it waits, or runs.
LoopReads ==
    /\ loop.pc = "read"
    /\ LET copy(pc) == [pc |-> pc, schedule |-> sched.schedule,
                        next |-> IF pc = "wait" THEN sched.next ELSE 0]
       IN  \/ /\ ~sched.schedule.on
              /\ loop' = copy("sleep")
              /\ sched' = [sched EXCEPT !.next = 0]
              /\ UNCHANGED job
           \/ /\ sched.schedule.on /\ sched.next = 0
              /\ loop' = copy("plan")
              /\ UNCHANGED <<sched, job>>
           \/ /\ sched.schedule.on /\ sched.next > now
              /\ loop' = copy("wait")
              /\ UNCHANGED <<sched, job>>
           \/ /\ sched.schedule.on /\ sched.next \in Times /\ sched.next <= now
              /\ RunOnce
    /\ UNCHANGED BesideLoop

\* The plan is made from the loop's copy and overwrites what a Reload left.
LoopPlans ==
    /\ loop.pc = "plan"
    /\ \E t \in NextScheduledRuns(loop.schedule, now) :
          /\ sched' = [sched EXCEPT !.next = t]
          /\ loop' = [loop EXCEPT !.pc = "wait", !.next = t]
    /\ UNCHANGED <<job, BesideLoop>>

\* waitForSignal: stopped, woken, or by the timer (half a minute when switched off).
LoopWakes ==
    /\ loop.pc \in {"sleep", "wait"}
    /\ \/ LoopStopped /\ loop' = [loop EXCEPT !.pc = "ended"] /\ UNCHANGED sched
       \/ /\ sched.wake
          /\ sched' = [sched EXCEPT !.wake = FALSE]
          /\ loop' = [loop EXCEPT !.pc = "read", !.next = 0]
       \/ /\ loop.pc = "sleep" \/ loop.next <= now
          /\ loop' = [loop EXCEPT !.pc = "read", !.next = 0]
          /\ UNCHANGED sched
    /\ UNCHANGED <<job, BesideLoop>>

LoopRunEnds ==
    /\ loop.pc = "batch"
    /\ job["site"].pc = "idle" /\ \A a \in Accounts : reserved[a] # "site"
    /\ loop' = [loop EXCEPT !.pc = "read"]
    /\ sched' = [sched EXCEPT !.next = 0]
    /\ UNCHANGED <<job, BesideLoop>>

Loop == LoopStart \/ LoopReads \/ LoopPlans \/ LoopWakes \/ LoopRunEnds

-----------------------------------------------------------------------------
(* The personal ticker. *)

BesideTick == <<now, store, sched, loop, mu, reserved, put, process, restarts, calm>>

TickBegins ==
    /\ tick.pc = "idle" /\ process = "up"
    /\ tick' = IF site.enabled
               THEN [tick EXCEPT !.pc = "scan", !.at = now, !.todo = Accounts, !.due = {}]
               ELSE [tick EXCEPT !.at = now]
    /\ UNCHANGED <<job, BesideTick>>

\* Mutant: the minute of the attempt is not compared.
AttemptedEver(a) == a \in tick.attempted.who

Attempted(a) == tick.attempted.at = tick.at /\ a \in tick.attempted.who

\* The minutes attempted are forgotten, except those of this tick.
TickOver(due) ==
    tick' = [tick EXCEPT !.pc = "idle", !.todo = {}, !.due = {},
                         !.attempted = [at |-> tick.at, who |-> due]]

TickLooks(a) ==
    /\ tick.pc = "scan" /\ a \in tick.todo
    /\ IF ~CustomRunDue(a, tick.at)
       THEN tick' = [tick EXCEPT !.todo = @ \ {a}] /\ UNCHANGED job
       ELSE IF Attempted(a)
       THEN tick' = [tick EXCEPT !.todo = @ \ {a}, !.due = @ \union {a}] /\ UNCHANGED job
       ELSE IF process # "up"
       THEN TickOver(tick.due \union {a}) /\ UNCHANGED job
       ELSE /\ tick' = [tick EXCEPT !.pc = "call", !.todo = @ \ {a}, !.due = @ \union {a}]
            /\ job' = [job EXCEPT !["personal"] = Called({a})]
    /\ UNCHANGED BesideTick

TickReturns ==
    /\ \/ /\ tick.pc = "call" /\ job["personal"].pc = "idle"
          /\ tick' = [tick EXCEPT !.pc = "scan"]
       \/ /\ tick.pc = "scan" /\ tick.todo = {}
          /\ TickOver(tick.due)
       \/ /\ tick.pc = "idle" /\ process # "up"
          /\ tick' = [tick EXCEPT !.pc = "ended"]
    /\ UNCHANGED <<job, BesideTick>>

Tick == TickBegins \/ (\E a \in Accounts : TickLooks(a)) \/ TickReturns

-----------------------------------------------------------------------------
(* Users and administrators. *)

MayEdit == process # "down" /\ edits < MaxEdits /\ edits' = edits + 1

\* UpdateAccountTasks: a new revision with every change.
EditTasks(a) ==
    /\ MayEdit
    /\ \E own \in OwnTimes \union {Nothing}, automatic \in BOOLEAN :
          /\ <<own, automatic>> # <<account[a].own, account[a].automatic>>
          /\ account' = [account EXCEPT ![a] = [account[a] EXCEPT !.own = own,
                              !.automatic = automatic, !.rev = account[a].rev + 1]]
    /\ calm' = calm \ {a}
    /\ UNCHANGED <<now, site, goroutines, reserved, put, process, failedSaves, restarts, grants>>

\* The account or its user is disabled, or enabled again.
SetOpen(a) ==
    /\ MayEdit
    /\ account' = [account EXCEPT ![a].open = ~@]
    /\ calm' = calm \ {a}
    /\ UNCHANGED <<now, site, goroutines, reserved, put, process, failedSaves, restarts, grants>>

\* addAccountLocked on an account that is bound already: the new record takes
\* over much of the old one, but not LastAutomaticAt.
Rebind(a) ==
    /\ MayEdit
    /\ account' = [account EXCEPT ![a] = [account[a] EXCEPT !.last = 0,
                              !.binding = account[a].binding + 1]]
    /\ calm' = calm \ {a}
    /\ UNCHANGED <<now, site, goroutines, reserved, put, process, failedSaves, restarts, grants>>

\* PUT /config saves the settings, reads them back and hands the schedule to the
\* scheduler; Reload stores it under its lock and then signals.
Configure(h) ==
    /\ put[h].pc = "idle" /\ MayEdit
    /\ \E enabled \in BOOLEAN, schedule \in SiteSchedules :
          site' = [enabled |-> enabled, schedule |-> schedule]
    /\ put' = [put EXCEPT ![h].pc = "saved"]
    /\ calm' = {}
    /\ UNCHANGED <<now, account, goroutines, reserved, process, failedSaves, restarts, grants>>

ScheduleOfStore == site.schedule

ReadBack(h) ==
    /\ put[h].pc = "saved"
    /\ put' = [put EXCEPT ![h] = [pc |-> "read", schedule |-> ScheduleOfStore]]
    /\ UNCHANGED <<now, store, goroutines, reserved, process, restarts, calm>>

Reload(h) ==
    /\ put[h].pc = "read"
    /\ sched' = [sched EXCEPT !.schedule = put[h].schedule, !.next = 0]
    /\ put' = [put EXCEPT ![h] = [pc |-> "signal", schedule |-> Nothing]]
    /\ UNCHANGED <<now, store, loop, tick, job, mu, reserved, process, restarts, calm>>

\* Mutant: the signal is forgotten.
Unwoken(s) == s

Woken(s) == [s EXCEPT !.wake = TRUE]

Signal(h) ==
    /\ put[h].pc = "signal"
    /\ sched' = Woken(sched)
    /\ put' = [put EXCEPT ![h].pc = "idle"]
    /\ UNCHANGED <<now, store, loop, tick, job, mu, reserved, process, restarts, calm>>

Put(h) == ReadBack(h) \/ Reload(h) \/ Signal(h)

-----------------------------------------------------------------------------
(* Time and the process. *)

Minute ==
    /\ now < MaxTime
    /\ now' = now + 1
    /\ calm' = IF process = "up" /\ mu = Nothing THEN {a \in Accounts : reserved[a] = Nothing} ELSE {}
    /\ UNCHANGED <<store, goroutines, reserved, put, process, restarts>>

\* Server.Stop: the ticker, the runner, which waits for every batch, the loop.
Enter(phase) ==
    /\ process' = phase
    /\ calm' = {}
    /\ UNCHANGED <<now, store, goroutines, reserved, put, restarts>>

Stop == process = "up" /\ Enter("ticker")
StopRunner == process = "ticker" /\ tick.pc = "ended" /\ mu = Nothing /\ Enter("runner")
StopLoop == process = "runner" /\ (\A a \in Accounts : reserved[a] = Nothing) /\ Enter("loop")
Exit == process = "loop" /\ loop.pc = "ended" /\ Enter("down")
Stopping == StopRunner \/ StopLoop \/ Exit

\* What only memory holds is lost, and made anew by the next start.
NewLoop == [pc |-> "start", schedule |-> site.schedule, next |-> 0]
NewSched == [schedule |-> site.schedule, next |-> 0, wake |-> FALSE]
NewJobs == [c \in Callers |-> NoJob]
NoRuns == [a \in Accounts |-> Nothing]
NoPuts == [h \in Puts |-> [pc |-> "idle", schedule |-> Nothing]]

Fresh ==
    /\ sched' = NewSched /\ loop' = NewLoop /\ tick' = FreshTick
    /\ job' = NewJobs /\ mu' = Nothing /\ reserved' = NoRuns /\ put' = NoPuts

Crash ==
    /\ process # "down"
    /\ process' = "down" /\ calm' = {}
    /\ Fresh
    /\ UNCHANGED <<now, store, restarts>>

Start ==
    /\ process = "down" /\ restarts < MaxRestarts
    /\ process' = "up" /\ restarts' = restarts + 1
    /\ Fresh
    /\ UNCHANGED <<now, store, calm>>

Init ==
    /\ now = 1
    /\ \E s \in SiteSchedules : site = [enabled |-> TRUE, schedule |-> s]
    /\ \E own \in [Accounts -> OwnTimes \union {Nothing}] :
          account = [a \in Accounts |-> [open |-> TRUE, automatic |-> TRUE, own |-> own[a],
                                         rev |-> 1, last |-> 0, binding |-> 0]]
    /\ sched = NewSched /\ loop = NewLoop /\ tick = FreshTick
    /\ job = NewJobs /\ mu = Nothing /\ reserved = NoRuns /\ put = NoPuts
    /\ process = "up"
    /\ edits = 0 /\ failedSaves = 0 /\ restarts = 0
    /\ grants = [a \in Accounts |-> <<>>]
    /\ calm = {}

Next ==
    \/ process # "down" /\ (Loop \/ Tick \/ (\E c \in Callers : Job(c)))
    \/ \E a \in Accounts : EditTasks(a) \/ SetOpen(a) \/ Rebind(a) \/ ManualRun(a) \/ RunEnds(a)
    \/ \E h \in Puts : Configure(h) \/ Put(h)
    \/ Minute \/ Stop \/ Stopping \/ Crash \/ Start

Spec == Init /\ [][Next]_vars

-----------------------------------------------------------------------------
(* Properties. *)

TypeOK ==
    /\ now \in Times
    /\ site \in [enabled : BOOLEAN, schedule : SiteSchedules]
    /\ account \in [Accounts -> AccountRecord]
    /\ sched \in [schedule : SiteSchedules, next : Nat, wake : BOOLEAN]
    /\ loop \in LoopRecord
    /\ tick \in TickRecord
    /\ job \in [Callers -> JobRecord]
    /\ mu \in Callers \union {Nothing}
    /\ reserved \in [Accounts -> Callers \union {"user", Nothing}]
    /\ put \in [Puts -> [pc : {"idle", "saved", "read", "signal"},
                      schedule : SiteSchedules \union {Nothing}]]
    /\ process \in {"up", "ticker", "runner", "loop", "down"}
    /\ {edits, failedSaves, restarts} \subseteq Nat
    /\ grants \in [Accounts -> Seq([at : Nat, binding : Nat])]
    /\ calm \subseteq Accounts

Latest(a) == grants'[a][Len(grants'[a])]

\* A claim is granted for the day of the zone that counts for the account; no
\* claim of the same account was granted earlier for that day.
Repeats(a, i) == Date[Zone(a)][grants[a][i].at] = Date[Zone(a)][Latest(a).at]

\* Whatever the two schedulers, edits of times and zones, crashes and failed
\* saves do, an account runs automatically at most once on each of its local
\* days, for as long as it is not bound anew (task_settings.go:64).
OnceADay ==
    [][\A a \in Accounts : grants'[a] # grants[a] =>
          \A i \in 1 .. Len(grants[a]) :
              grants[a][i].binding = account[a].binding => ~Repeats(a, i)]_vars

\* "the automatic runs of one account on one day are deduplicated durably"
\* (README.md:104), new bindings included.
OnceADayForGood ==
    [][\A a \in Accounts : grants'[a] # grants[a] =>
          \A i \in 1 .. Len(grants[a]) : ~Repeats(a, i)]_vars

\* A user's own time is never passed over: when the minute ends in which the
\* ticker looked at it, and nobody ran, edited or stopped anything meanwhile,
\* the account has had its run of the day.
OwnTimeIsServed ==
    [][\A a \in calm :
          /\ now' # now
          /\ tick.pc = "idle" /\ tick.at = now
          /\ account[a].open /\ account[a].automatic /\ site.enabled
          /\ OwnTimeIsNow(a, now)
          => AutomaticDoneToday(a, now)]_vars

\* Once Runner.Stop has returned no claim marks a day whose run could not begin.
QuietAfterStop == [][RunnerStopped => grants' = grants]_vars

\* A sleeping loop that has not seen the newest schedule will be woken: no signal is
\* lost between the two halves of Reload and the loop's look (scheduler.go:84-100, 130).
NoLostWakeup ==
    loop.pc \in {"sleep", "wait"} /\ loop.schedule # sched.schedule
        => sched.wake \/ \E h \in Puts : put[h].pc = "signal"
=============================================================================
