------------------------------ MODULE PushOutbox ------------------------------
(***************************************************************************)
(* The notification outbox (internal/store/push_outbox.go), the dispatcher *)
(* that drains it (internal/notify/dispatcher.go) and the calendar         *)
(* reminders that feed it (internal/store/calendar_reminders.go).          *)
(*                                                                         *)
(* A notice fans out to every enabled channel of its user: one delivery    *)
(* each. Two workers claim deliveries in order, hand them to a provider    *)
(* outside the store's lock and record the answer. Meanwhile settings      *)
(* change, access is revoked, reminders are cancelled, events deleted,     *)
(* users removed, and the process stops or crashes.                        *)
(*                                                                         *)
(* Every handler runs under the store's mutex and ends in saveLocked, which *)
(* restores the committed state when the write fails. A handler whose save *)
(* fails is thus a stuttering step; only Finish, which forgets the answer  *)
(* of a request already made, has its failure modelled.                    *)
(***************************************************************************)
EXTENDS Naturals, FiniteSets

CONSTANTS
    Users,          \* each with one account and one game's calendar
    Channels,
    Events,         \* moments to be reminded of: an event's start or its end
    Workers,        \* the dispatcher's goroutines (two in the code)
    OwnerOf,        \* channel or event -> user
    ManualEvents,   \* events a user entered, and may delete; each with one moment
    Kinds,          \* the kinds of notice a user may switch on
    Capacity,       \* deliveries the outbox holds (500 in the code)
    BatchSize,      \* due reminders looked at per round (50 in the code)
    ReminderLimit,  \* reminders a user may keep (200 in the code)
    TestedChannels, \* bound on the channels whose tests are explored
    MaxNotices,     \* bound on notices queued and tests recorded
    MaxReminders,   \* bound on reminders created
    MaxRevision,    \* bound on changes of one user's settings
    MaxFailedSaves, \* bound on answers whose save fails
    MaxRestarts     \* bound on stops and crashes

ASSUME OutboxAssumption ==
    /\ OwnerOf \in [Channels \union Events -> Users]
    /\ ManualEvents \subseteq Events
    /\ TestedChannels \subseteq Channels
    /\ Kinds \subseteq {"task", "calendar"}
    /\ IsFiniteSet(Channels)
    /\ Channels # {} /\ Events # {}
    /\ {Capacity, BatchSize, ReminderLimit, MaxNotices} \subseteq Nat \ {0}
    /\ {MaxReminders, MaxRevision, MaxFailedSaves, MaxRestarts} \subseteq Nat

VARIABLES
    last,      \* how many notices have been numbered
    notice,    \* number -> what the notice is about
    outbox,    \* the deliveries the store keeps (PushDeliveries)
    status,    \* delivery -> its Status, remembered after it left the outbox
    reminder,  \* number -> calendar reminder (CalendarReminders)
    settings,  \* user -> push settings (UserPush)
    access,    \* user -> what the store lets the user and the account do
    passed, deleted,   \* events whose moment has passed; events deleted
    worker,    \* the dispatcher's goroutines
    process,   \* "up", "stopping" (Dispatcher.Stop called) or "down"
    provider,  \* delivery -> what the push service has seen of it
    failedSaves, restarts   \* faults so far

queueVars == <<last, notice, outbox, status, reminder>>
userVars == <<settings, access, passed, deleted>>
serviceVars == <<worker, process, provider>>
faultVars == <<failedSaves, restarts>>
vars == <<queueVars, userVars, serviceVars, faultVars>>

Notices == 1..MaxNotices
Reminders == 1..MaxReminders
Deliveries == Notices \X Channels

ActiveStates == {"pending", "sending"}
Answers == {"accepted", "failed", "unknown"}
SettledStates == Answers \union {"skipped"}
DeliveryStates == {"none"} \union ActiveStates \union SettledStates
OpenReminder == {"pending", "queued"}
ReminderStates == OpenReminder \union {"absent", "processed", "expired", "skipped",
                                       "cancelled", "removed"}

\* reminder is 0 in a notice that no reminder asked for.
NoticeRecord == [kind: {"none", "task", "calendar", "test"}, rev: Nat,
                 reminder: {0} \union Reminders]
\* window: before RemindAt, deliverable, or past RemindAt + 15 min or TargetAt + 5 min.
ReminderRecord == [event: Events, status: ReminderStates, window: {"early", "due", "late"},
                   accepted: Nat, failed: Nat, uncertain: Nat]
SettingsRecord == [rev: Nat, on: SUBSET Kinds, channels: SUBSET Channels]
WorkerRecord == [pc: {"idle", "claimed", "answered", "ended"}, delivery: Deliveries,
                 answer: Answers]

\* Fillers of records that are not in use.
NoDelivery == CHOOSE d \in Deliveries : TRUE
NoEvent == CHOOSE e \in Events : TRUE
IdleWorker == [pc |-> "idle", delivery |-> NoDelivery, answer |-> "failed"]
EndedWorker == [IdleWorker EXCEPT !.pc = "ended"]

Init ==
    /\ last = 0
    /\ notice = [n \in Notices |-> [kind |-> "none", rev |-> 0, reminder |-> 0]]
    /\ outbox = {}
    /\ status = [d \in Deliveries |-> "none"]
    /\ reminder = [r \in Reminders |->
           [event |-> NoEvent, status |-> "absent", window |-> "early",
            accepted |-> 0, failed |-> 0, uncertain |-> 0]]
    /\ settings = [u \in Users |-> [rev |-> 1, on |-> {}, channels |-> {}]]
    /\ access = [u \in Users |-> "open"]
    /\ passed = {}
    /\ deleted = {}
    /\ worker = [w \in Workers |-> IdleWorker]
    /\ process = "up"
    /\ provider = [d \in Deliveries |-> [offers |-> 0, taken |-> FALSE]]
    /\ failedSaves = 0
    /\ restarts = 0

(***************************************************************************)
(* The outbox as a list: what is active, what may be appended, what a full *)
(* list gives up.                                                          *)
(***************************************************************************)

UserOfDelivery(d) == OwnerOf[d[2]]
UserOfReminder(r) == OwnerOf[reminder[r].event]
ReminderOf(d) == notice[d[1]].reminder

Active == {d \in outbox : status[d] \in ActiveStates}
Pending == {d \in outbox : status[d] = "pending"}

\* pushAllowedLocked and pushEventEnabled, with a channel left to send to.
Eligible(u, kind) ==
    /\ access[u] = "open"
    /\ kind \in settings[u].on
    /\ settings[u].channels # {}

RoomFor(new) == Cardinality(Active) + Cardinality(new) <= Capacity

\* trimPushLocked: the oldest settled deliveries make way; active ones stay.
Trimmed(out, st, dropped) ==
    LET settled == {d \in out : st[d] \notin ActiveStates}
    IN /\ dropped \subseteq settled
       /\ Cardinality(dropped) = IF Cardinality(out) > Capacity
                                 THEN Cardinality(out) - Capacity ELSE 0
       /\ \A d \in dropped, e \in settled \ dropped : d[1] <= e[1]

\* Append the deliveries new with status s, then trim.
Append(new, s) ==
    /\ status' = [d \in Deliveries |-> IF d \in new THEN s ELSE status[d]]
    /\ \E dropped \in SUBSET (outbox \union new) :
         /\ Trimmed(outbox \union new, status', dropped)
         /\ outbox' = (outbox \union new) \ dropped

(***************************************************************************)
(* Settling a reminder: finishCalendarReminderLocked, for the deliveries   *)
(* settled in one transaction. st is the status of every delivery after it.*)
(***************************************************************************)

CountOf(r, settled, st, outcomes) ==
    Cardinality({d \in settled : ReminderOf(d) = r /\ st[d] \in outcomes})

\* Mutants: the first answer closes the reminder; nothing is tallied.
TalliedAtOnce(r, settled, st) ==
    [reminder[r] EXCEPT !.accepted = @ + CountOf(r, settled, st, {"accepted"}),
                        !.failed = @ + CountOf(r, settled, st, {"failed", "skipped"}),
                        !.uncertain = @ + CountOf(r, settled, st, {"unknown"}),
                        !.status = "processed"]
NotTallied(r, settled, st) == reminder[r]

Tallied(r, settled, st) ==
    [reminder[r] EXCEPT
        !.accepted = @ + CountOf(r, settled, st, {"accepted"}),
        !.failed = @ + CountOf(r, settled, st, {"failed", "skipped"}),
        !.uncertain = @ + CountOf(r, settled, st, {"unknown"}),
        !.status = IF \E d \in outbox : ReminderOf(d) = r /\ st[d] \in ActiveStates
                   THEN "queued" ELSE "processed"]

\* The deliveries in settled take the status st gives them.
Settle(settled, st) ==
    /\ status' = st
    /\ reminder' = [r \in Reminders |->
           IF reminder[r].status = "queued" /\ \E d \in settled : ReminderOf(d) = r
           THEN Tallied(r, settled, st) ELSE reminder[r]]

(***************************************************************************)
(* Producers: task notices, channel tests, reminders falling due.          *)
(***************************************************************************)

Fill(kind, rev, r) == [kind |-> kind, rev |-> rev, reminder |-> r]

\* Enqueue, QueuePushEvent: a task or exchange result is announced.
Enqueue(u) ==
    LET new == {last + 1} \X settings[u].channels
    IN /\ process = "up"
       /\ last < MaxNotices
       /\ Eligible(u, "task")
       /\ RoomFor(new)
       /\ last' = last + 1
       /\ notice' = [notice EXCEPT ![last + 1] = Fill("task", settings[u].rev, 0)]
       /\ Append(new, "pending")
       /\ UNCHANGED <<reminder, userVars, serviceVars, faultVars>>

\* RecordPushTest: the handler has sent the test itself and files the answer.
\* A test is filed while only the account is closed, too.
RecordTest(c) ==
    /\ process # "down"
    /\ last < MaxNotices
    /\ access[OwnerOf[c]] # "gone"
    /\ \E answer \in Answers, taken \in BOOLEAN :
         /\ answer = "accepted" => taken
         /\ answer = "failed" => ~taken
         /\ provider' = [provider EXCEPT ![<<last + 1, c>>] = [offers |-> 1, taken |-> taken]]
         /\ Append({<<last + 1, c>>}, answer)
    /\ last' = last + 1
    /\ notice' = [notice EXCEPT ![last + 1] = Fill("test", 0, 0)]
    /\ UNCHANGED <<reminder, userVars, worker, process, faultVars>>

\* The pending reminders whose moment has come, as many as one round looks at.
Due == {r \in Reminders : reminder[r].status = "pending" /\ reminder[r].window # "early"}
Round == {r \in Due : Cardinality({q \in Due : q < r}) < BatchSize}
Late == {r \in Round : reminder[r].window = "late"}
Refused == {r \in Round \ Late : \/ ~Eligible(UserOfReminder(r), "calendar")
                                 \/ \E d \in outbox : ReminderOf(d) = r}
Wanting == Round \ (Late \union Refused)

ChannelsFor(r) == settings[UserOfReminder(r)].channels

\* In the order of the reminders, each is queued if there is room left for it.
InOrder(queued) ==
    \A r \in Wanting :
        r \in queued <=>
            RoomFor({p \in queued \X Channels : p[1] < r /\ p[2] \in ChannelsFor(p[1])}
                        \union ({r} \X ChannelsFor(r)))

\* slot numbers the notices of the reminders queued.
Announce(queued, slot) ==
    /\ notice' = [n \in Notices |->
           IF \E r \in queued : slot[r] = n
           THEN LET r == CHOOSE r \in queued : slot[r] = n
                IN Fill("calendar", settings[UserOfReminder(r)].rev, r)
           ELSE notice[n]]
    /\ Append({d \in Deliveries : \E r \in queued : d[1] = slot[r] /\ d[2] \in ChannelsFor(r)},
              "pending")

\* QueueDueCalendarReminders: due reminders expire, are skipped, or are queued; those
\* that find no room stay pending. One save commits them all.
QueueDue ==
    /\ process # "down"
    /\ \E queued \in SUBSET Wanting :
         /\ InOrder(queued)
         /\ Late \union Refused \union queued # {}
         /\ last' = last + Cardinality(queued)
         /\ last' <= MaxNotices
         /\ \E slot \in [queued -> (last + 1)..last'] :
              /\ \A q, r \in queued : q < r => slot[q] < slot[r]
              /\ Announce(queued, slot)
         /\ reminder' = [r \in Reminders |->
                [reminder[r] EXCEPT !.status = IF r \in Late THEN "expired"
                                               ELSE IF r \in Refused THEN "skipped"
                                               ELSE IF r \in queued THEN "queued" ELSE @]]
    /\ UNCHANGED <<userVars, serviceVars, faultVars>>

(***************************************************************************)
(* Users: reminders, events, settings, access.                             *)
(***************************************************************************)

Stored(r) == reminder[r].status \notin {"absent", "removed"}

\* AddCalendarReminder: one reminder per moment, while it lies ahead.
AddReminder(e) ==
    LET u == OwnerOf[e]
    IN /\ process # "down"
       /\ access[u] = "open"
       /\ e \notin passed \union deleted
       /\ ~ \E r \in Reminders : /\ reminder[r].event = e
                                 /\ reminder[r].status \in OpenReminder \union {"processed"}
       /\ Cardinality({r \in Reminders : Stored(r) /\ UserOfReminder(r) = u}) < ReminderLimit
       /\ \E r \in Reminders :
            /\ reminder[r].status = "absent"
            /\ \A q \in 1..(r - 1) : reminder[q].status # "absent"
            /\ reminder' = [reminder EXCEPT ![r].event = e, ![r].status = "pending"]
       /\ UNCHANGED <<last, notice, outbox, status, userVars, serviceVars, faultVars>>

\* Mutant of the history to clear.
OldReminder(r) == reminder[r].status \in {"expired", "skipped", "cancelled", "processed"}

Submitted == {"sending", "accepted", "unknown"}

\* CancelCalendarReminder: refused once a delivery was submitted.
CancelReminder(r) ==
    /\ process # "down"
    /\ Stored(r)
    /\ reminder[r].status # "processed"
    /\ ~ \E d \in outbox : ReminderOf(d) = r /\ status[d] \in Submitted
    /\ reminder' = [reminder EXCEPT ![r].status = "cancelled"]
    /\ status' = [d \in Deliveries |->
           IF d \in Pending /\ ReminderOf(d) = r THEN "skipped" ELSE status[d]]
    /\ UNCHANGED <<last, notice, outbox, userVars, serviceVars, faultVars>>

\* What ClearCalendarReminderHistory may forget: a processed reminder only once its
\* moment has passed.
Forgettable(r) ==
    \/ reminder[r].status \in {"expired", "skipped", "cancelled"}
    \/ reminder[r].status = "processed" /\ reminder[r].event \in passed

ClearHistory(u) ==
    /\ process # "down"
    /\ access[u] \in {"open", "closed"}
    /\ reminder' = [r \in Reminders |->
           IF UserOfReminder(r) = u /\ Forgettable(r)
           THEN [reminder[r] EXCEPT !.status = "removed"] ELSE reminder[r]]
    /\ UNCHANGED <<last, notice, outbox, status, userVars, serviceVars, faultVars>>

\* DeleteCalendarEvent: its open reminders are cancelled; deliveries stay queued and
\* are found stale when claimed.
DeleteEvent(e) ==
    /\ process # "down"
    /\ e \in ManualEvents \ deleted
    /\ access[OwnerOf[e]] \in {"open", "closed"}
    /\ deleted' = deleted \union {e}
    /\ reminder' = [r \in Reminders |->
           IF reminder[r].event = e /\ reminder[r].status \in OpenReminder
           THEN [reminder[r] EXCEPT !.status = "cancelled"] ELSE reminder[r]]
    /\ UNCHANGED <<last, notice, outbox, status, settings, access, passed, serviceVars, faultVars>>

\* UpdatePushSettings, BindPushChannel: every change is a new revision.
ChangeSettings(u) ==
    /\ process # "down"
    /\ access[u] # "gone"
    /\ settings[u].rev < MaxRevision
    /\ \E on \in SUBSET Kinds, channels \in SUBSET {c \in Channels : OwnerOf[c] = u} :
         settings' = [settings EXCEPT ![u] = [rev |-> @.rev + 1, on |-> on, channels |-> channels]]
    /\ UNCHANGED <<queueVars, access, passed, deleted, serviceVars, faultVars>>

\* The user or the account is disabled or enabled again.
ChangeAccess(u) ==
    /\ process # "down"
    /\ access[u] \in {"open", "closed"}
    /\ access' = [access EXCEPT ![u] = IF @ = "open" THEN "closed" ELSE "open"]
    /\ UNCHANGED <<queueVars, settings, passed, deleted, serviceVars, faultVars>>

RemindersWithout(u) ==
    [r \in Reminders |-> IF UserOfReminder(r) = u /\ Stored(r)
                         THEN [reminder[r] EXCEPT !.status = "removed"] ELSE reminder[r]]

\* DeleteAccount: the reminders go, the deliveries stay and become stale.
RemoveAccount(u) ==
    /\ process # "down"
    /\ access[u] \in {"open", "closed"}
    /\ access' = [access EXCEPT ![u] = "noaccount"]
    /\ reminder' = RemindersWithout(u)
    /\ UNCHANGED <<last, notice, outbox, status, settings, passed, deleted, serviceVars, faultVars>>

\* DeleteUser: reminders and deliveries go, those being sent included.
RemoveUser(u) ==
    /\ process # "down"
    /\ access[u] # "gone"
    /\ access' = [access EXCEPT ![u] = "gone"]
    /\ reminder' = RemindersWithout(u)
    /\ outbox' = {d \in outbox : UserOfDelivery(d) # u}
    /\ UNCHANGED <<last, notice, status, settings, passed, deleted, serviceVars, faultVars>>

(***************************************************************************)
(* The dispatcher: Claim, Send and Finish are one round of work().         *)
(***************************************************************************)

\* calendarDeliveryAllowed: the reminder still waits for this delivery, in time.
ReminderAllows(d) ==
    notice[d[1]].kind = "calendar" =>
        /\ reminder[ReminderOf(d)].status = "queued"
        /\ reminder[ReminderOf(d)].window = "due"

Valid(d) ==
    LET u == UserOfDelivery(d)
    IN /\ Eligible(u, notice[d[1]].kind)
       /\ notice[d[1]].rev = settings[u].rev
       /\ d[2] \in settings[u].channels
       /\ ReminderAllows(d)

Stale == {d \in Pending : ~Valid(d)}

\* Mutant of the mark a claim leaves: one for the whole notice.
NoticeMarked(d, skipped) ==
    [e \in Deliveries |-> IF e \in Pending /\ e[1] = d[1] THEN "sending"
                          ELSE IF e \in skipped THEN "skipped" ELSE status[e]]

Marked(d, skipped) ==
    [e \in Deliveries |-> IF e = d THEN "sending" ELSE IF e \in skipped THEN "skipped" ELSE status[e]]

\* ClaimPushDelivery: take the first valid delivery and skip the stale ones before it.
\* A worker that looked at the context just before Stop still claims.
Claim(w) ==
    /\ process # "down"
    /\ worker[w].pc = "idle"
    /\ \E d \in Pending \ Stale :
         /\ \A e \in Pending \ Stale : d[1] <= e[1]
         /\ LET skipped == {e \in Stale : e[1] < d[1]}
            IN Settle(skipped, Marked(d, skipped))
         /\ worker' = [worker EXCEPT ![w].pc = "claimed", ![w].delivery = d]
    /\ UNCHANGED <<last, notice, outbox, userVars, process, provider, faultVars>>

\* ClaimPushDelivery when nothing valid is pending: all of it is skipped.
SkipStale(w) ==
    /\ process # "down"
    /\ worker[w].pc = "idle"
    /\ Pending # {} /\ Pending = Stale
    /\ Settle(Stale, [d \in Deliveries |-> IF d \in Stale THEN "skipped" ELSE status[d]])
    /\ UNCHANGED <<last, notice, outbox, userVars, serviceVars, faultVars>>

\* What Sender.Send may report of a request the provider took or not: a reply is
\* believed, a lost or unreadable one is uncertain.
Reported(taken, answer) ==
    /\ answer = "accepted" => taken
    /\ answer = "failed" => ~taken

\* Deliverer.Send, outside the store's lock.
Send(w) ==
    /\ worker[w].pc = "claimed"
    /\ \E taken \in BOOLEAN, answer \in Answers :
         /\ Reported(taken, answer)
         /\ provider' = [provider EXCEPT ![worker[w].delivery] =
                             [offers |-> @.offers + 1, taken |-> @.taken \/ taken]]
         /\ worker' = [worker EXCEPT ![w].pc = "answered", ![w].answer = answer]
    /\ UNCHANGED <<queueVars, userVars, process, faultVars>>

\* FinishPushDelivery, whose error the worker ignores: when the save fails the
\* delivery stays "sending". A delivery that left the outbox is not written.
Finish(w) ==
    LET d == worker[w].delivery
        current == d \in outbox /\ status[d] = "sending"
    IN /\ worker[w].pc = "answered"
       /\ \/ /\ current
             /\ Settle({d}, [status EXCEPT ![d] = worker[w].answer])
             /\ UNCHANGED failedSaves
          \/ /\ ~current
             /\ UNCHANGED <<status, reminder, failedSaves>>
          \/ /\ current
             /\ failedSaves < MaxFailedSaves
             /\ failedSaves' = failedSaves + 1
             /\ UNCHANGED <<status, reminder>>
       /\ worker' = [worker EXCEPT ![w] = IF process = "stopping" THEN EndedWorker ELSE IdleWorker]
       /\ UNCHANGED <<last, notice, outbox, userVars, process, provider, restarts>>

(***************************************************************************)
(* Time, and the life of the process.                                      *)
(***************************************************************************)

\* A reminder's moment comes, then its window closes.
WindowMoves(r) ==
    /\ reminder[r].status \in OpenReminder
    /\ reminder[r].window # "late"
    /\ reminder' = [reminder EXCEPT ![r].window = IF @ = "early" THEN "due" ELSE "late"]
    /\ UNCHANGED <<last, notice, outbox, status, userVars, serviceVars, faultVars>>

\* An event's moment is never before its reminders' (RemindAt = TargetAt - lead).
EventPasses(e) ==
    /\ e \notin passed
    /\ \A r \in Reminders : reminder[r].event = e /\ reminder[r].status \in OpenReminder
                            => reminder[r].window # "early"
    /\ passed' = passed \union {e}
    /\ UNCHANGED <<queueVars, settings, access, deleted, serviceVars, faultVars>>

WorkersDone == \A w \in Workers : worker[w].pc \in {"idle", "ended"}

\* Dispatcher.Stop, until its WaitGroup is done (Exit).
Stop ==
    /\ process = "up"
    /\ restarts < MaxRestarts
    /\ restarts' = restarts + 1
    /\ process' = "stopping"
    /\ UNCHANGED <<queueVars, userVars, worker, provider, failedSaves>>

Exit ==
    /\ process = "stopping"
    /\ WorkersDone
    /\ process' = "down"
    /\ worker' = [w \in Workers |-> EndedWorker]
    /\ UNCHANGED <<queueVars, userVars, provider, faultVars>>

Crash ==
    /\ process # "down"
    /\ restarts < MaxRestarts
    /\ restarts' = restarts + 1
    /\ process' = "down"
    /\ worker' = [w \in Workers |-> EndedWorker]
    /\ UNCHANGED <<queueVars, userVars, provider, failedSaves>>

\* Mutants of recovery: it repeats what was interrupted, calls it failed, forgets
\* to say what it is, or does nothing.
RecoveredAsPending(d) == IF d \in outbox /\ status[d] = "sending" THEN "pending" ELSE status[d]
RecoveredAsFailed(d) == IF d \in outbox /\ status[d] = "sending" THEN "failed" ELSE status[d]

NotRecovered(d) == status[d]

\* RecoverPushDeliveries: an interrupted delivery is uncertain, never repeated.
Recovered(d) == IF d \in outbox /\ status[d] = "sending" THEN "unknown" ELSE status[d]

\* Dispatcher.Start.
Start ==
    /\ process = "down"
    /\ process' = "up"
    /\ worker' = [w \in Workers |-> IdleWorker]
    /\ Settle({d \in outbox : status[d] = "sending"}, [d \in Deliveries |-> Recovered(d)])
    /\ UNCHANGED <<last, notice, outbox, userVars, provider, faultVars>>

UserStep ==
    \/ \E c \in TestedChannels : RecordTest(c)
    \/ \E e \in Events : AddReminder(e) \/ DeleteEvent(e)
    \/ \E r \in Reminders : CancelReminder(r)
    \/ \E u \in Users : \/ Enqueue(u) \/ ClearHistory(u) \/ ChangeSettings(u)
                        \/ ChangeAccess(u) \/ RemoveAccount(u) \/ RemoveUser(u)

Work(w) == Claim(w) \/ SkipStale(w) \/ Send(w) \/ Finish(w)

Time == (\E r \in Reminders : WindowMoves(r)) \/ (\E e \in Events : EventPasses(e))

Next ==
    \/ UserStep
    \/ \E w \in Workers : Work(w)
    \/ QueueDue
    \/ Time
    \/ Stop \/ Exit \/ Crash \/ Start

Spec == Init /\ [][Next]_vars

\* The Go scheduler runs every goroutine, a request to a provider is bounded by its
\* timeout (push.go:58), the calendar is looked at every 30 s, the service is
\* restarted by its supervisor, and time passes. Users owe nothing.
FairSpec ==
    /\ Spec
    /\ \A w \in Workers : WF_vars(Work(w))
    /\ WF_vars(QueueDue)
    /\ \A r \in Reminders : WF_vars(WindowMoves(r))
    /\ WF_vars(Exit) /\ WF_vars(Start)

(***************************************************************************)
(* Properties.                                                             *)
(***************************************************************************)

\* Every variable has its type.
TypeOK ==
    /\ last \in 0..MaxNotices
    /\ notice \in [Notices -> NoticeRecord]
    /\ outbox \subseteq Deliveries
    /\ status \in [Deliveries -> DeliveryStates]
    /\ reminder \in [Reminders -> ReminderRecord]
    /\ settings \in [Users -> SettingsRecord]
    /\ access \in [Users -> {"open", "closed", "noaccount", "gone"}]
    /\ passed \subseteq Events /\ deleted \subseteq Events
    /\ worker \in [Workers -> WorkerRecord]
    /\ process \in {"up", "stopping", "down"}
    /\ provider \in [Deliveries -> [offers: Nat, taken: BOOLEAN]]
    /\ failedSaves \in 0..MaxFailedSaves
    /\ restarts \in 0..MaxRestarts

\* A delivery is handed to its provider at most once, whatever is lost: a crash, a
\* save, an answer (dispatcher.go:20, push.go:35).
SentOnce == \A d \in Deliveries : provider[d].offers <= 1

\* What the history says of a delivery is true: accepted was taken, failed was not,
\* skipped and pending were never offered; only "unknown" leaves it open.
HonestStatus ==
    \A d \in Deliveries :
        /\ status[d] = "accepted" => provider[d].taken
        /\ status[d] = "failed" => ~provider[d].taken
        /\ status[d] \in {"none", "pending", "skipped"} => provider[d].offers = 0

Holds(w, d) == worker[w].pc \in {"claimed", "answered"} /\ worker[w].delivery = d

\* Two workers never hold one delivery, and while one holds it nobody else settles,
\* cancels or repeats it (push_outbox.go:126).
OneWorkerPerDelivery ==
    \A w \in Workers, d \in Deliveries :
        Holds(w, d) => /\ status[d] = "sending"
                       /\ \A v \in Workers : Holds(v, d) => v = w

\* No delivery is left "sending" with nobody sending it, except one per answer whose
\* save failed (dispatcher.go:113 ignores the error).
SendingIsHeld ==
    process # "down" =>
        Cardinality({d \in outbox : status[d] = "sending" /\ ~ \E w \in Workers : Holds(w, d)})
            <= failedSaves

Outcomes(r, states) == Cardinality({d \in Deliveries : ReminderOf(d) = r /\ status[d] \in states})

\* The tally of a reminder counts each of its deliveries once, in the right column, and
\* it waits exactly as long as an outcome is possible: a processed reminder counts them
\* all, and a queued one has a delivery in the outbox still to be settled, which trimming
\* and clearing have spared (calendar_reminders.go:164-189, push_outbox.go:84-98).
TallyRight ==
    \A r \in Reminders : reminder[r].status \in {"queued", "processed"} =>
        /\ reminder[r].accepted = Outcomes(r, {"accepted"})
        /\ reminder[r].uncertain = Outcomes(r, {"unknown"})
        /\ reminder[r].failed = Outcomes(r, {"failed", "skipped"})
        /\ IF reminder[r].status = "queued" THEN \E d \in Active : ReminderOf(d) = r
                                           ELSE Outcomes(r, ActiveStates) = 0

\* Two deliveries the outbox remembers never tell one channel of the same moment, through
\* whatever sequence of cancelling, clearing and adding reminders
\* (calendar_reminders.go:78, 97-104, 118-128).
NoticedOnce ==
    \A d, e \in outbox :
        /\ status[d] \in Submitted /\ status[e] \in Submitted
        /\ ReminderOf(d) \in Reminders /\ ReminderOf(e) \in Reminders
        /\ d[2] = e[2]
        /\ reminder[ReminderOf(d)].event = reminder[ReminderOf(e)].event
        => d = e

Promise == INSTANCE PushPromise WITH
    verdict <- status,
    offered <- {d \in Deliveries : provider[d].offers > 0},
    taken <- {d \in Deliveries : provider[d].taken}

\* Workers, trimming, reminders, stops and crashes together keep the promise made for a
\* single delivery (dispatcher.go:20-21, README "结果不确定的通知不重发").
ImplementsPromise == Promise!Spec

\* The outbox never holds more than it may, whether by notices or by tests
\* (push_outbox.go:74, 84-98).
OutboxBounded == Cardinality(outbox) <= Capacity

\* What is queued is settled, across stops and crashes.
DeliveriesSettle ==
    \A d \in Deliveries : (d \in outbox /\ status[d] = "pending") ~> d \notin Active

\* Every reminder comes to an end: processed, expired, skipped, cancelled or removed.
RemindersDecided ==
    \A r \in Reminders : reminder[r].status \in OpenReminder ~> reminder[r].status \notin OpenReminder
===============================================================================
