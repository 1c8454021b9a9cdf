------------------------------ MODULE Gateways ------------------------------
(***************************************************************************)
(* The monitors that keep bound bots connected: QQMonitor                  *)
(* (internal/notify/qq_gateway.go, store/qq_connection.go) and             *)
(* WeixinMonitor (internal/notify/weixin.go), together with the dialogs and *)
(* the settings of PushBindings.                                           *)
(*                                                                         *)
(* Each monitor passes over the settings every three seconds, the QQ one    *)
(* sooner when it is woken, and has one goroutine a channel. A pass reads the *)
(* settings first and acts on what it read afterwards. A goroutine asks the *)
(* provider without a lock and reports to the store in steps of its own, for *)
(* the channel and credentials it was started with.                        *)
(*                                                                         *)
(* Tokens, sequence numbers, heartbeats and backoff are left out: a session *)
(* is online or it has failed.                                             *)
(***************************************************************************)
EXTENDS PushBindings

CONSTANTS
    Workers,        \* goroutines that exist at once
    MaxWorkers,     \* connections of the QQ monitor; 200 in the code
    MaxFailedSaves  \* bound on saves that fail

ASSUME GatewaysAssumption == None \notin Workers /\ {MaxWorkers, MaxFailedSaves} \subseteq Nat

VARIABLES
    worker,
    monitor,        \* workers of both monitors: channel -> goroutine
    snapshot,       \* monitor -> the settings a pass has read, or {}
    failedSaves

gatewayVars == <<worker, monitor, snapshot, failedSaves>>

vars == <<bindingVars, gatewayVars>>

Monitors == {"qq", "weixin"}

\* What a goroutine was started for, and where it stands.
Worker == [channel : Channels \union {None}, owner : Users \union {None}, bot : Bots \union {None},
           secret : Secrets \union {None}, live : BOOLEAN,
           step : {"done", "start", "dialing", "online", "lost", "pausing", "closing",
                   "polling", "answered"},
           answer : States]

NoWorker == [channel |-> None, owner |-> None, bot |-> None, secret |-> None, live |-> FALSE,
             step |-> "done", answer |-> ""]

GatewaysInit ==
    /\ BindingsInit
    /\ worker = [w \in Workers |-> NoWorker]
    /\ monitor = [c \in Channels |-> None]
    /\ snapshot = [m \in Monitors |-> {}]
    /\ failedSaves = 0

-----------------------------------------------------------------------------
MonitorOf(bot) == IF bot \in QQBots THEN "qq" ELSE "weixin"

\* Channels a monitor connects. A QQ bot is kept online even when notifications
\* are off, a Weixin bot is not, nor one whose login has expired.
WantedAs(m, record, active) ==
    /\ record.bot # None /\ MonitorOf(record.bot) = m
    /\ record.owner # None /\ active
    /\ record.secret # None
    /\ m = "weixin" => record.enabled /\ record.state # "expired"

Wants(m, c) == WantedAs(m, channel[c], channel[c].owner # None /\ member[channel[c].owner] = "active")

\* A worker is for these credentials.
For(w, bot, secret) == worker[w].bot = bot /\ worker[w].secret = secret

\* The channel as a worker was started for it is still there.
Matches(w) ==
    LET c == worker[w].channel
    IN  /\ channel[c].owner = worker[w].owner
        /\ For(w, channel[c].bot, channel[c].secret)
        /\ member[worker[w].owner] = "active"
        /\ ~IsQQ(c) => channel[c].enabled

Ended(w) == worker[w].step = "done"

Free == {w \in Workers : Ended(w) /\ \A c \in Channels : monitor[c] # w}

\* UpdateQQConnection and UpdateWeixinSession: whether the state is stored.
\* A QQ state that is as it was is not saved again; Weixin has a cursor to save.
Stores(w, state) ==
    /\ Matches(w)
    /\ channel' = [channel EXCEPT ![worker[w].channel].state = state]
    /\ UNCHANGED failedSaves

StoreFails(w, state) ==
    /\ \/ ~Matches(w) /\ UNCHANGED failedSaves
       \/ /\ Matches(w) /\ IsQQ(worker[w].channel) => channel[worker[w].channel].state # state
          /\ failedSaves < MaxFailedSaves /\ failedSaves' = failedSaves + 1
    /\ UNCHANGED channel

-----------------------------------------------------------------------------
(* The passes. *)

\* PrivatePushConfigs copies the settings of active users.
PassReads(m) ==
    /\ m \notin stopped /\ snapshot[m] = {}
    /\ snapshot' = [snapshot EXCEPT ![m] = {<<None, NoChannel>>} \union
                       {<<c, channel[c]>> : c \in {i \in Channels : Wants(m, i)}}]
    /\ UNCHANGED <<bindingVars, worker, monitor, failedSaves>>

WantedBy(m) == {pair[1] : pair \in snapshot[m]} \ {None}

Read(m, c) == (CHOOSE pair \in snapshot[m] : pair[1] = c)[2]

Mine(m) == {c \in Channels : monitor[c] # None /\ MonitorOf(worker[monitor[c]].bot) = m}

Started(m, c) ==
    LET record == Read(m, c)
    IN  [channel |-> c, owner |-> record.owner, bot |-> record.bot, secret |-> record.secret,
         live |-> TRUE, step |-> IF m = "qq" THEN "start" ELSE "polling", answer |-> ""]

\* A worker whose channel has other credentials now, in what the pass has read.
Outdated(m, c) ==
    /\ c \in Mine(m) \intersect WantedBy(m)
    /\ ~For(monitor[c], Read(m, c).bot, Read(m, c).secret)

\* Starts workers for the channels of `starting`, one each, and cancels others.
Launch(m, starting, cancelled, forgotten) ==
    \E pick \in [starting -> Free] :
        /\ \A c, other \in starting : c # other => pick[c] # pick[other]
        /\ worker' = [w \in Workers |->
                         IF \E c \in starting : pick[c] = w
                           THEN Started(m, CHOOSE c \in starting : pick[c] = w)
                         ELSE IF \E c \in cancelled : monitor[c] = w
                           THEN [worker[w] EXCEPT !.live = FALSE]
                         ELSE worker[w]]
        /\ monitor' = [c \in Channels |-> IF c \in starting THEN pick[c]
                                          ELSE IF c \in forgotten THEN None
                                          ELSE monitor[c]]

\* Mutant: a cancelled worker is replaced at once.
CanReplaceCancelled(c) == monitor[c] = None \/ Ended(monitor[c]) \/ ~worker[monitor[c]].live

\* Mutant: what has ended stays in the map.
CanReplaceNew(c) == monitor[c] = None

\* A QQ worker is replaced when it has ended, even when it was cancelled before.
CanReplace(c) == monitor[c] = None \/ Ended(monitor[c])

\* QQMonitor.reconcile, after reading. A channel beyond the limit shows an error;
\* which ones those are depends on the order of a map.
QQPass ==
    LET wanted == WantedBy("qq")
        replaceable == {c \in wanted : CanReplace(c)}
        kept == Mine("qq") \ replaceable
        gone == Mine("qq") \ wanted
    IN  /\ "qq" \notin stopped /\ snapshot["qq"] # {}
        /\ \E starting \in SUBSET replaceable :
              /\ Cardinality(kept \union starting) <= MaxWorkers
              /\ \A c \in replaceable \ starting :
                    Cardinality((Mine("qq") \ {c}) \union starting) >= MaxWorkers
              /\ Launch("qq", starting, gone \union {c \in kept : Outdated("qq", c)},
                        (replaceable \ starting) \union {c \in gone : Ended(monitor[c])})
              /\ channel' = [c \in Channels |->
                                IF c \in replaceable \ starting /\ Wants("qq", c)
                                     /\ Read("qq", c).secret = channel[c].secret
                                     /\ Read("qq", c).bot = channel[c].bot
                                  THEN [channel[c] EXCEPT !.state = "error"] ELSE channel[c]]
        /\ snapshot' = [snapshot EXCEPT !["qq"] = {}]
        /\ UNCHANGED <<member, revision, dialog, session, revoking, stopped, revoked, acts, failedSaves>>

\* WeixinMonitor.reconcile: a worker with other credentials is replaced at once,
\* one with the same credentials stays, whether or not it has ended.
WeixinPass ==
    LET wanted == WantedBy("weixin")
        outdated == {c \in wanted : Outdated("weixin", c)}
        gone == Mine("weixin") \ wanted
    IN  /\ "weixin" \notin stopped /\ snapshot["weixin"] # {}
        /\ Launch("weixin", outdated \union (wanted \ Mine("weixin")), gone \union outdated, gone)
        /\ snapshot' = [snapshot EXCEPT !["weixin"] = {}]
        /\ UNCHANGED <<bindingVars, failedSaves>>

-----------------------------------------------------------------------------
(* The goroutine of a QQ channel. *)

Goes(w, step) == worker' = [worker EXCEPT ![w].step = step]

AllButStore == UNCHANGED <<member, revision, dialog, session, revoking, stopped, revoked, acts, monitor, snapshot>>

Ends(w) == Goes(w, "done")

\* Connecting, unless cancelled; a channel that is gone ends the goroutine.
QQConnects(w) ==
    /\ worker[w].step = "start"
    /\ IF ~worker[w].live THEN Goes(w, "closing") /\ UNCHANGED <<channel, failedSaves>>
       ELSE \/ Stores(w, "connecting") /\ Goes(w, "dialing")
            \/ StoreFails(w, "connecting") /\ Ends(w)
    /\ AllButStore

\* The gateway says READY or RESUMED.
QQReady(w) ==
    /\ worker[w].step = "dialing"
    /\ \/ Stores(w, "ready") /\ Goes(w, "online")
       \/ StoreFails(w, "ready") /\ Goes(w, "lost")
    /\ AllButStore

QQLost(w) ==
    /\ worker[w].step \in {"dialing", "online"}
    /\ Goes(w, "lost")
    /\ UNCHANGED <<channel, failedSaves>> /\ AllButStore

QQReconnects(w) ==
    /\ worker[w].step = "lost"
    /\ IF ~worker[w].live THEN Goes(w, "closing") /\ UNCHANGED <<channel, failedSaves>>
       ELSE \/ Stores(w, "reconnecting") /\ Goes(w, "pausing")
            \/ StoreFails(w, "reconnecting") /\ Ends(w)
    /\ AllButStore

QQPauses(w) ==
    /\ worker[w].step = "pausing"
    /\ Goes(w, IF worker[w].live THEN "start" ELSE "closing")
    /\ UNCHANGED <<channel, failedSaves>> /\ AllButStore

QQCloses(w) ==
    /\ worker[w].step = "closing"
    /\ Stores(w, "disconnected") \/ StoreFails(w, "disconnected")
    /\ Ends(w) /\ AllButStore

-----------------------------------------------------------------------------
(* The goroutine of a Weixin channel. *)

WeixinAnswered(w, state) ==
    /\ worker[w].step = "polling"
    /\ worker' = [worker EXCEPT ![w].step = IF worker[w].live THEN "answered" ELSE "done",
                                ![w].answer = IF worker[w].live THEN state ELSE ""]
    /\ UNCHANGED <<channel, failedSaves>> /\ AllButStore

\* What was answered is stored; a login that expired ends the goroutine, and so
\* does a store that refuses.
WeixinStores(w) ==
    LET state == worker[w].answer
        then(step) == worker' = [worker EXCEPT ![w].step = step, ![w].answer = ""]
    IN  /\ worker[w].step = "answered"
        /\ \/ Stores(w, state) /\ then(IF state = "expired" THEN "done" ELSE "polling")
           \/ StoreFails(w, state) /\ then("done")
        /\ AllButStore

-----------------------------------------------------------------------------
\* CancelUser, in cancelUserWork, and Stop wait for the lock a pass holds.
GatewayRevoked(u) ==
    IF revoking[u] # <<>> /\ Head(revoking[u]) = "gateway"
      THEN snapshot["qq"] = {} /\ worker' = [w \in Workers |->
                         IF \E c \in Mine("qq") : monitor[c] = w /\ worker[w].owner = u
                           THEN [worker[w] EXCEPT !.live = FALSE] ELSE worker[w]]
      ELSE UNCHANGED worker

\* A monitor is stopped after the dialogs, in Server.Stop's order; the goroutines
\* before are waited for.
StopMonitor(m) ==
    /\ m \notin stopped /\ snapshot[m] = {}
    /\ "bindings" \in stopped /\ \A d \in Dialogs : dialog[d].step \notin {"asking", "pairing", "failed", "returning"}
    /\ m = "weixin" => "qq" \in stopped /\ \A c \in Mine("qq") : Ended(monitor[c])
    /\ stopped' = stopped \union {m}
    /\ worker' = [w \in Workers |-> IF MonitorOf(worker[w].bot) = m
                                      THEN [worker[w] EXCEPT !.live = FALSE] ELSE worker[w]]
    /\ UNCHANGED <<member, revision, channel, dialog, session, revoking, revoked, acts,
                   monitor, snapshot, failedSaves>>

WorkerGoesOn(w) ==
    \/ QQConnects(w) \/ QQReady(w) \/ QQLost(w) \/ QQReconnects(w) \/ QQPauses(w) \/ QQCloses(w)
    \/ \E state \in {"ready", "reconnecting", "expired"} : WeixinAnswered(w, state)
    \/ WeixinStores(w)

Passes == (\E m \in Monitors : PassReads(m)) \/ QQPass \/ WeixinPass

Next ==
    \/ Passes
    \/ \E w \in Workers : WorkerGoesOn(w)
    \/ \E m \in Monitors : StopMonitor(m)
    \/ /\ Begins \/ \E d \in Dialogs : DialogGoesOn(d)
       /\ UNCHANGED <<acts, worker, monitor, snapshot, failedSaves>>
    \/ \E u \in Users : /\ Revoked(u) /\ GatewayRevoked(u)
                        /\ UNCHANGED <<acts, monitor, snapshot, failedSaves>>
    \/ /\ BindingActs /\ acts < MaxActs /\ acts' = acts + 1
       /\ UNCHANGED <<worker, monitor, snapshot, failedSaves>>

Spec == GatewaysInit /\ [][Next]_vars

\* The monitors' loops and their goroutines get on, and so do handlers: every
\* request and pause has a timeout. Which answer comes is left open.
Fairness ==
    /\ \A m \in Monitors : WF_vars(PassReads(m))
    /\ WF_vars(QQPass) /\ WF_vars(WeixinPass)
    /\ \A w \in Workers : WF_vars(WorkerGoesOn(w))

FairSpec == Spec /\ Fairness

-----------------------------------------------------------------------------
(* Properties. *)

TypeOK ==
    /\ BindingsTypeOK
    /\ worker \in [Workers -> Worker]
    /\ monitor \in [Channels -> Workers \union {None}]
    /\ failedSaves \in Nat

\* While a gateway session that nobody has cancelled is online with a channel's
\* credentials, the channel does not show that it is disconnected: no other
\* goroutine reports late, as one cancelled before a quick re-enabling could.
OnlineShows ==
    \A w \in Workers :
        worker[w].step = "online" /\ worker[w].live /\ Matches(w)
            => channel[worker[w].channel].state \notin {"disconnected", "reconnecting", "error"}

\* The monitor has a goroutine for the channel that runs with its credentials.
Served(m, c) ==
    \E w \in Workers : monitor[c] = w /\ ~Ended(w) /\ worker[w].live /\ For(w, channel[c].bot, channel[c].secret)

\* A QQ channel that should be online is served in the end, by a goroutine that
\* uses its present credentials, whatever edits, cancellations and failing saves
\* came before; or it shows that the site is full.
QQServed ==
    \A c \in Channels : Wants("qq", c) ~>
        ~Wants("qq", c) \/ Served("qq", c) \/ channel[c].state = "error" \/ "qq" \in stopped

\* The same of Weixin, whose messages promise that it reconnects by itself
\* (internal/notify/weixin.go:273). It does not hold: WeixinPass leaves a worker
\* that has ended in the map, for a save that failed or a channel that was
\* disabled for a moment.
WeixinServed ==
    \A c \in Channels : Wants("weixin", c) ~>
        ~Wants("weixin", c) \/ Served("weixin", c) \/ "weixin" \in stopped
=============================================================================
