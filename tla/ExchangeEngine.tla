---------------------------- MODULE ExchangeEngine ----------------------------
(***************************************************************************)
(* The exchange engine (internal/shop/engine.go), its retry loop           *)
(* (internal/shop/validation.go) and the plan records it shares with the   *)
(* HTTP handlers through the store (internal/store/exchange.go).           *)
(*                                                                         *)
(* A plan is executed by one goroutine that prepares the order, waits for  *)
(* the sale, queues at a per-account gate, persists the attempt number,    *)
(* sends the request and records the outcome. Between any two of its steps *)
(* the user may edit, delete or cancel, access may be revoked, the server  *)
(* may stop gracefully, and the process may crash and restart.             *)
(*                                                                         *)
(* Time is abstract: every reading of the server clock is an arbitrary     *)
(* answer, so all orders of the sale's opening, its deadline, corrections  *)
(* of the clock estimate and the goroutines' own steps are covered.        *)
(***************************************************************************)
EXTENDS Naturals

CONSTANTS
    Plans,          \* plan identifiers; randomID never reuses one
    Accounts,
    Goods,
    AccountOf,      \* plan -> account (AccountID)
    GoodsOf,        \* plan -> goods (GoodsID)
    NoPlan,         \* an unoccupied account gate
    RetryWindowOn,  \* RetryWindow() > 0, i.e. retry_seconds is set
    MaxAttempts,    \* maxExchangeAttempts (600 in the code)
    EditedPlans,    \* bound on the plans whose edit dialogs are explored
    MaxRevision,    \* bound on claims and edits of one plan
    MaxFailedSaves, \* bound on saves that fail
    MaxCrashes      \* bound on crashes

ASSUME ExchangeAssumption ==
    /\ AccountOf \in [Plans -> Accounts]
    /\ GoodsOf \in [Plans -> Goods]
    /\ NoPlan \notin Plans
    /\ RetryWindowOn \in BOOLEAN
    /\ MaxAttempts \in Nat \ {0}
    /\ EditedPlans \subseteq Plans
    /\ MaxRevision \in Nat \ {0}
    /\ MaxFailedSaves \in Nat
    /\ MaxCrashes \in Nat

VARIABLES
    plan,     \* the store's plan records, as committed to the state file
    draft,    \* the revision an open edit dialog read (0: no dialog)
    run,      \* the engine's goroutine for each plan
    gate,     \* account -> the plan whose request holds the account's gate
    access,   \* account -> allowed(): enabled, permitted, same credentials
    process,  \* "up", "stopping" (Engine.Stop called) or "down"
    market,   \* the upstream shop's view of each plan's requests
    failedSaves, crashes   \* faults injected so far

storeVars == <<plan, failedSaves>>
vars == <<plan, draft, run, gate, access, process, market, failedSaves, crashes>>

Final == {"success", "failed", "unknown", "cancelled", "missed"}
PlanStates == {"absent", "pending", "running", "deleted"} \union Final
Phases == {"", "preparing", "waiting", "exchanging"}

\* Where a goroutine stands, and how its context ended.
Steps == {"idle", "prepare", "device", "phase", "wait", "loop", "queue", "gated",
          "record", "send", "inflight", "rejected", "delay", "finish"}
Contexts == {"live", "cancelled", "timeout", "stopped"}

PlanRecord == [state: PlanStates, phase: Phases, attempt: Nat, key: Nat, rev: Nat,
               auto: BOOLEAN, enabled: BOOLEAN]
RunRecord == [pc: Steps, ctx: Contexts, scheduled: BOOLEAN, attempt: Nat, key: Nat,
              outcome: Final]
\* request: "none", "open" (sent, undecided), "rejected" or "committed";
\* sends and bought count requests sent and exchanges made over the plan's life.
MarketRecord == [request: {"none", "open", "rejected", "committed"},
                 sends: Nat, bought: Nat]

NewPlan == [state |-> "absent", phase |-> "", attempt |-> 0, key |-> 0, rev |-> 0,
            auto |-> FALSE, enabled |-> FALSE]
IdleRun == [pc |-> "idle", ctx |-> "live", scheduled |-> FALSE, attempt |-> 0,
            key |-> 0, outcome |-> "failed"]

Init ==
    /\ plan = [p \in Plans |-> NewPlan]
    /\ draft = [p \in Plans |-> 0]
    /\ run = [p \in Plans |-> IdleRun]
    /\ gate = [a \in Accounts |-> NoPlan]
    /\ access = [a \in Accounts |-> TRUE]
    /\ process = "up"
    /\ market = [p \in Plans |-> [request |-> "none", sends |-> 0, bought |-> 0]]
    /\ failedSaves = 0
    /\ crashes = 0

(***************************************************************************)
(* The store.                                                              *)
(***************************************************************************)

\* saveLocked: either record r of plan p reaches the state file, or the save
\* fails and the in-memory copy is rolled back to the committed one.
SaveOutcomes == IF failedSaves < MaxFailedSaves THEN BOOLEAN ELSE {TRUE}
Save(p, r, ok) ==
    /\ plan' = IF ok THEN [plan EXCEPT ![p] = r] ELSE plan
    /\ failedSaves' = IF ok THEN failedSaves ELSE failedSaves + 1

\* exchangeResult accepts a write only from the run that claimed the plan.
ResultAccepted(p, key, state, attempt) ==
    /\ plan[p].state = "running"
    /\ plan[p].key = key
    /\ attempt >= plan[p].attempt
    /\ state = "pending" => /\ plan[p].auto
                            /\ attempt = 0
                            /\ plan[p].attempt = 0
                            /\ plan[p].phase \in {"preparing", "waiting"}

Result(p, state, attempt) ==
    [plan[p] EXCEPT !.state = state,
                    !.phase = IF state # "running" THEN ""
                              ELSE IF attempt > 0 THEN "exchanging" ELSE @,
                    !.attempt = attempt]

\* Mutants of recovery: one forgets what was sent, one closes what is uncertain,
\* one overlooks immediate runs.
RecoveredBlindly(r) ==
    [r EXCEPT !.state = IF r.state = "running" /\ r.auto THEN "pending" ELSE r.state]
RecoveredAsFailed(r) ==
    [r EXCEPT !.state = IF r.state = "running" THEN "failed" ELSE r.state]
RecoveredIfAuto(r) ==
    [r EXCEPT !.state = IF r.state = "running" /\ r.auto THEN "unknown" ELSE r.state]

\* recoverExchangePlans: what a restart makes of a record found on disk.
Recovered(r) ==
    [r EXCEPT !.state = IF r.state # "running" THEN r.state
                        ELSE IF /\ r.attempt = 0
                                /\ r.phase \in {"preparing", "waiting"}
                                /\ r.auto
                             THEN "pending" ELSE "unknown",
              !.phase = ""]

(***************************************************************************)
(* The goroutine's view of the world.                                      *)
(***************************************************************************)
Busy(p) == run[p].pc # "idle"
\* Mutant: contexts whose end is not noticed.
DoneOnlyByStop(p) == run[p].ctx = "stopped"
Done(p) == run[p].ctx # "live"
Allowed(p) == access[AccountOf[p]]

\* What the server clock may answer: before the opening, inside the window or
\* past the deadline. An immediate run has no opening, and a deadline only when
\* retries are configured.
Readings(p) ==
    CASE run[p].scheduled -> {"early", "open", "over"}
      [] ~run[p].scheduled /\ RetryWindowOn -> {"open", "over"}
      [] OTHER -> {"open"}

Goto(p, step) == run' = [run EXCEPT ![p].pc = step]
End(p, outcome) == run' = [run EXCEPT ![p].pc = "finish", ![p].outcome = outcome]

\* finishExpired: the last rejection if there was one, else nothing was sent.
EndExpired(p) == End(p, IF run[p].attempt > 0 THEN "failed" ELSE "missed")

\* Mutant: a gate that admits two plans.
GateNotMine(p) == gate[AccountOf[p]] # p

GateFree(p) == gate[AccountOf[p]] = NoPlan

Release(p) == gate' = [gate EXCEPT ![AccountOf[p]] = NoPlan]

(***************************************************************************)
(* Handlers.                                                               *)
(***************************************************************************)
CreatePlan(p) ==
    /\ process # "down"
    /\ plan[p].state = "absent"
    /\ Allowed(p)
    /\ \E auto, enabled \in BOOLEAN, ok \in SaveOutcomes :
          Save(p, [NewPlan EXCEPT !.state = "pending", !.rev = 1,
                                  !.auto = auto, !.enabled = enabled], ok)
    /\ UNCHANGED <<draft, run, gate, access, process, market, crashes>>

ReadPlan(p) ==
    /\ process # "down"
    /\ p \in EditedPlans
    /\ plan[p].state = "pending"
    /\ draft' = [draft EXCEPT ![p] = plan[p].rev]
    /\ UNCHANGED <<plan, run, gate, access, process, market, failedSaves, crashes>>

EditAccepted(p) ==
    /\ plan[p].state = "pending"
    /\ plan[p].rev = draft[p]
    /\ Allowed(p)

\* The dialog closes whether the edit was accepted or not.
UpdatePlan(p) ==
    /\ process # "down"
    /\ draft[p] > 0
    /\ draft' = [draft EXCEPT ![p] = 0]
    /\ IF EditAccepted(p)
       THEN /\ plan[p].rev < MaxRevision
            /\ \E auto, enabled \in BOOLEAN, ok \in SaveOutcomes :
                  Save(p, [plan[p] EXCEPT !.rev = @ + 1, !.auto = auto,
                                          !.enabled = enabled], ok)
       ELSE UNCHANGED storeVars
    /\ UNCHANGED <<run, gate, access, process, market, crashes>>

DeletePlan(p) ==
    /\ process # "down"
    /\ plan[p].state \notin {"absent", "deleted", "running"}
    /\ \E ok \in SaveOutcomes : Save(p, [plan[p] EXCEPT !.state = "deleted"], ok)
    /\ UNCHANGED <<draft, run, gate, access, process, market, crashes>>

\* A permission, a status or the credentials change; the handler that changes
\* them cancels the account's runs afterwards, which is CancelRun.
ChangeAccess(a) ==
    /\ process # "down"
    /\ access' = [access EXCEPT ![a] = ~@]
    /\ UNCHANGED <<plan, draft, run, gate, process, market, failedSaves, crashes>>

CancelRun(p) ==
    /\ Busy(p)
    /\ ~Done(p)
    /\ run' = [run EXCEPT ![p].ctx = "cancelled"]
    /\ UNCHANGED <<plan, draft, gate, access, process, market, failedSaves, crashes>>

(***************************************************************************)
(* Claiming a plan: Engine.Run and Store.ClaimExchangePlanAt.              *)
(***************************************************************************)
Claimable(p) ==
    /\ process = "up"
    /\ plan[p].state = "pending"
    /\ plan[p].enabled
    /\ Allowed(p)

\* Mutant: a duplicate counts only once it sends requests.
DuplicateSending(p) ==
    \E q \in Plans : /\ plan[q].phase = "exchanging"
                     /\ AccountOf[q] = AccountOf[p]
                     /\ GoodsOf[q] = GoodsOf[p]

DuplicateRunning(p) ==
    \E q \in Plans : /\ plan[q].state = "running"
                     /\ AccountOf[q] = AccountOf[p]
                     /\ GoodsOf[q] = GoodsOf[p]

Claim(p, scheduled) ==
    /\ Claimable(p)
    /\ ~DuplicateRunning(p)
    /\ scheduled => plan[p].auto
    /\ plan[p].rev < MaxRevision
    /\ \E ok \in SaveOutcomes :
          /\ Save(p, [plan[p] EXCEPT !.state = "running", !.phase = "preparing",
                                     !.attempt = 0, !.key = plan[p].rev + 1,
                                     !.rev = plan[p].rev + 1], ok)
          /\ run' = IF ok
                    THEN [run EXCEPT ![p] = [IdleRun EXCEPT
                            !.pc = "prepare", !.scheduled = scheduled,
                            !.key = plan[p].rev + 1]]
                    ELSE run
    /\ UNCHANGED <<draft, gate, access, process, market, crashes>>

\* A scheduled claim after the dispatch window closes the plan instead.
ClaimMissed(p) ==
    /\ Claimable(p)
    /\ plan[p].auto
    /\ \E ok \in SaveOutcomes : Save(p, [plan[p] EXCEPT !.state = "missed"], ok)
    /\ UNCHANGED <<draft, run, gate, access, process, market, crashes>>

(***************************************************************************)
(* One execution: Engine.execute.                                          *)
(***************************************************************************)
AtStep(p, step) == run[p].pc = step

PrepareOk(p) ==
    /\ AtStep(p, "prepare")
    /\ ~Done(p)
    /\ Allowed(p)
    /\ Goto(p, "device")
    /\ UNCHANGED <<plan, draft, gate, access, process, market, failedSaves, crashes>>

PrepareFails(p) ==
    /\ AtStep(p, "prepare")
    /\ End(p, IF Done(p) THEN "cancelled" ELSE "failed")
    /\ UNCHANGED <<plan, draft, gate, access, process, market, failedSaves, crashes>>

\* SetAccountDeviceFP touches the account only; a failed save ends the run.
SaveDevice(p) ==
    /\ AtStep(p, "device")
    /\ \E ok \in SaveOutcomes :
          /\ failedSaves' = IF ok THEN failedSaves ELSE failedSaves + 1
          /\ IF ok THEN Goto(p, IF run[p].scheduled THEN "phase" ELSE "loop")
                   ELSE End(p, "failed")
    /\ UNCHANGED <<plan, draft, gate, access, process, market, crashes>>

\* ExchangePhase: the record says that the run now only waits for the sale.
SavePhase(p) ==
    /\ AtStep(p, "phase")
    /\ IF /\ plan[p].state = "running"
          /\ plan[p].key = run[p].key
          /\ plan[p].attempt = 0
       THEN \E ok \in SaveOutcomes :
               /\ Save(p, [plan[p] EXCEPT !.phase = "waiting"], ok)
               /\ IF ok THEN Goto(p, "wait") ELSE End(p, "cancelled")
       ELSE End(p, "cancelled") /\ UNCHANGED storeVars
    /\ UNCHANGED <<draft, gate, access, process, market, crashes>>

\* serverClock.wait returns when the sale opens, or with an error.
WaitForSale(p) ==
    /\ AtStep(p, "wait")
    /\ IF Done(p) \/ ~Allowed(p) THEN End(p, "cancelled") ELSE Goto(p, "loop")
    /\ UNCHANGED <<plan, draft, gate, access, process, market, failedSaves, crashes>>

(***************************************************************************)
(* The retry loop: ExchangeWithRetry.                                      *)
(***************************************************************************)
LoopTop(p) ==
    /\ AtStep(p, "loop")
    /\ IF Done(p) THEN End(p, "cancelled")
       ELSE \/ "over" \in Readings(p) /\ EndExpired(p)
            \/ Goto(p, "queue")
    /\ UNCHANGED <<plan, draft, gate, access, process, market, failedSaves, crashes>>

AcquireGate(p) ==
    /\ AtStep(p, "queue")
    /\ ~Done(p)
    /\ GateFree(p)
    /\ gate' = [gate EXCEPT ![AccountOf[p]] = p]
    /\ Goto(p, "gated")
    /\ UNCHANGED <<plan, draft, access, process, market, failedSaves, crashes>>

\* The queue's own deadline passed: look at the window again, or give up when
\* no retry window is configured. A cancelled context ends the run.
LeaveQueue(p) ==
    /\ AtStep(p, "queue")
    /\ IF RetryWindowOn /\ ~Done(p)
       THEN Goto(p, "loop") \/ EndExpired(p)
       ELSE End(p, "cancelled")
    /\ UNCHANGED <<plan, draft, gate, access, process, market, failedSaves, crashes>>

\* Everything checked before queueing is checked again under the gate.
CheckUnderGate(p) ==
    /\ AtStep(p, "gated")
    /\ IF Done(p) THEN End(p, "cancelled") /\ Release(p)
       ELSE \E reading \in Readings(p) :
              CASE reading = "over" -> EndExpired(p) /\ Release(p)
                [] reading = "early" -> Goto(p, "loop") /\ Release(p)
                [] reading = "open" -> Goto(p, "record") /\ UNCHANGED gate
    /\ UNCHANGED <<plan, draft, access, process, market, failedSaves, crashes>>

\* progress: the attempt number is on disk before the request leaves.
RecordAttempt(p) ==
    /\ AtStep(p, "record")
    /\ LET n == run[p].attempt + 1 IN
       IF Done(p) \/ ~Allowed(p)
       THEN /\ End(p, IF Done(p) THEN "cancelled" ELSE "failed")
            /\ Release(p)
            /\ UNCHANGED storeVars
       ELSE IF ResultAccepted(p, run[p].key, "running", n)
       THEN \E ok \in SaveOutcomes :
               /\ Save(p, Result(p, "running", n), ok)
               /\ IF ok THEN /\ run' = [run EXCEPT ![p].pc = "send", ![p].attempt = n]
                             /\ UNCHANGED gate
                        ELSE End(p, "failed") /\ Release(p)
       ELSE End(p, "failed") /\ Release(p) /\ UNCHANGED storeVars
    /\ UNCHANGED <<draft, access, process, market, crashes>>

\* permissionTransport refuses a request after a revocation or a cancel; the
\* loop cannot tell that from a lost reply and calls the result unknown.
SendRequest(p) ==
    /\ AtStep(p, "send")
    /\ IF Done(p) \/ ~Allowed(p)
       THEN End(p, "unknown") /\ Release(p) /\ UNCHANGED market
       ELSE /\ Goto(p, "inflight")
            /\ market' = [market EXCEPT ![p].request = "open", ![p].sends = @ + 1]
            /\ UNCHANGED gate
    /\ UNCHANGED <<plan, draft, access, process, failedSaves, crashes>>

ReplySuccess(p) ==
    /\ AtStep(p, "inflight")
    /\ market[p].request = "committed"
    /\ End(p, "success")
    /\ Release(p)
    /\ UNCHANGED <<plan, draft, access, process, market, failedSaves, crashes>>

\* A valid refusal: stop, or go on when it is retryable, retries are configured
\* and neither the attempt cap nor the deadline has been reached.
ReplyRejected(p) ==
    /\ AtStep(p, "inflight")
    /\ market[p].request = "rejected"
    /\ \/ End(p, "failed")
       \/ RetryWindowOn /\ run[p].attempt < MaxAttempts /\ Goto(p, "rejected")
    /\ Release(p)
    /\ market' = [market EXCEPT ![p].request = "none"]
    /\ UNCHANGED <<plan, draft, access, process, failedSaves, crashes>>

\* Mutant: a lost reply is taken for a refusal.
ReplyLostAsFailure(p) ==
    /\ AtStep(p, "inflight")
    /\ End(p, "failed")
    /\ Release(p)
    /\ UNCHANGED <<plan, draft, access, process, market, failedSaves, crashes>>

\* Timeout, cancel, transport error or unreadable reply.
ReplyLost(p) ==
    /\ AtStep(p, "inflight")
    /\ End(p, "unknown")
    /\ Release(p)
    /\ UNCHANGED <<plan, draft, access, process, market, failedSaves, crashes>>

\* progress again, now with the refusal and after the gate was released.
RecordRejection(p) ==
    /\ AtStep(p, "rejected")
    /\ IF Done(p) \/ ~Allowed(p)
       THEN /\ End(p, IF Done(p) THEN "cancelled" ELSE "failed")
            /\ UNCHANGED storeVars
       ELSE IF ResultAccepted(p, run[p].key, "running", run[p].attempt)
       THEN \E ok \in SaveOutcomes :
               /\ Save(p, Result(p, "running", run[p].attempt), ok)
               /\ IF ok THEN Goto(p, "delay") ELSE End(p, "failed")
       ELSE End(p, "failed") /\ UNCHANGED storeVars
    /\ UNCHANGED <<draft, gate, access, process, market, crashes>>

RetryDelay(p) ==
    /\ AtStep(p, "delay")
    /\ IF Done(p) THEN End(p, "cancelled") ELSE Goto(p, "loop")
    /\ UNCHANGED <<plan, draft, gate, access, process, market, failedSaves, crashes>>

\* The deferred block of execute: a scheduled run interrupted by Engine.Stop
\* before its first request goes back to pending; anything else is final. A
\* failed save is only logged and leaves the record running.
\* Mutant: a stop reopens the plan even after a request.
FinalStateReopened(p) ==
    IF run[p].ctx = "stopped" /\ run[p].scheduled THEN "pending" ELSE run[p].outcome

FinalState(p) ==
    IF run[p].ctx = "stopped" /\ run[p].attempt = 0 /\ run[p].scheduled
    THEN "pending" ELSE run[p].outcome

Finish(p) ==
    /\ AtStep(p, "finish")
    /\ run' = [run EXCEPT ![p] = IdleRun]
    /\ IF ResultAccepted(p, run[p].key, FinalState(p), run[p].attempt)
       THEN \E ok \in SaveOutcomes :
               Save(p, Result(p, FinalState(p), run[p].attempt), ok)
       ELSE UNCHANGED storeVars
    /\ UNCHANGED <<draft, gate, access, process, market, crashes>>

\* The seven-minute context of an execution.
RunTimeout(p) ==
    /\ Busy(p)
    /\ ~Done(p)
    /\ run' = [run EXCEPT ![p].ctx = "timeout"]
    /\ UNCHANGED <<plan, draft, gate, access, process, market, failedSaves, crashes>>

(***************************************************************************)
(* The upstream shop decides on a request it received, now or later, even  *)
(* when the client has stopped waiting for the reply or has crashed.       *)
(***************************************************************************)
ShopDecides(p) ==
    /\ market[p].request = "open"
    /\ \/ market' = [market EXCEPT ![p].request = "committed", ![p].bought = @ + 1]
       \/ market' = [market EXCEPT ![p].request = "rejected"]
    /\ UNCHANGED <<plan, draft, run, gate, access, process, failedSaves, crashes>>

(***************************************************************************)
(* The process.                                                            *)
(***************************************************************************)
Stop ==
    /\ process = "up"
    /\ process' = "stopping"
    /\ run' = [p \in Plans |-> IF Busy(p) /\ ~Done(p)
                               THEN [run[p] EXCEPT !.ctx = "stopped"] ELSE run[p]]
    /\ UNCHANGED <<plan, draft, gate, access, market, failedSaves, crashes>>

\* Stop waits for every goroutine; then main returns.
Exit ==
    /\ process = "stopping"
    /\ \A p \in Plans : ~Busy(p)
    /\ process' = "down"
    /\ UNCHANGED <<plan, draft, run, gate, access, market, failedSaves, crashes>>

Crash ==
    /\ process # "down"
    /\ crashes < MaxCrashes
    /\ crashes' = crashes + 1
    /\ process' = "down"
    /\ run' = [p \in Plans |-> IdleRun]
    /\ gate' = [a \in Accounts |-> NoPlan]
    /\ UNCHANGED <<plan, draft, access, market, failedSaves>>

\* load: recovery is saved before the store is handed out, so a start whose
\* save fails is no start at all.
Start ==
    /\ process = "down"
    /\ process' = "up"
    /\ plan' = [p \in Plans |-> Recovered(plan[p])]
    /\ UNCHANGED <<draft, run, gate, access, market, failedSaves, crashes>>

Handler(p) ==
    \/ CreatePlan(p) \/ ReadPlan(p) \/ UpdatePlan(p) \/ DeletePlan(p)
    \/ CancelRun(p) \/ Claim(p, FALSE)

Dispatch(p) == Claim(p, TRUE) \/ ClaimMissed(p)

Execute(p) ==
    \/ PrepareOk(p) \/ PrepareFails(p) \/ SaveDevice(p) \/ SavePhase(p)
    \/ WaitForSale(p) \/ LoopTop(p) \/ AcquireGate(p) \/ LeaveQueue(p)
    \/ CheckUnderGate(p) \/ RecordAttempt(p) \/ SendRequest(p)
    \/ ReplySuccess(p) \/ ReplyRejected(p) \/ ReplyLost(p)
    \/ RecordRejection(p) \/ RetryDelay(p) \/ Finish(p)

Next ==
    \/ \E p \in Plans : \/ Handler(p) \/ Dispatch(p) \/ Execute(p)
                        \/ RunTimeout(p) \/ ShopDecides(p)
    \/ \E a \in Accounts : ChangeAccess(a)
    \/ Stop \/ Exit \/ Crash \/ Start

Spec == Init /\ [][Next]_vars

(***************************************************************************)
(* Correctness.                                                            *)
(***************************************************************************)
TypeOK ==
    /\ plan \in [Plans -> PlanRecord]
    /\ draft \in [Plans -> Nat]
    /\ run \in [Plans -> RunRecord]
    /\ gate \in [Accounts -> Plans \union {NoPlan}]
    /\ access \in [Accounts -> BOOLEAN]
    /\ process \in {"up", "stopping", "down"}
    /\ market \in [Plans -> MarketRecord]
    /\ failedSaves \in Nat
    /\ crashes \in Nat

\* The shop may have executed, or may still execute, this plan's last request.
Exposed(p) == market[p].request \in {"open", "committed"}

\* However runs are interrupted, retried or restarted, one plan buys at most
\* once (ClaimExchangePlan's "A plan runs once").
AtMostOnce == \A p \in Plans : market[p].bought <= 1

\* A request that bought, or may still buy, is never filed as pending, failed,
\* cancelled or missed, the states that tell the user that nothing was bought.
NoHiddenPurchase ==
    \A p \in Plans : Exposed(p) =>
        plan[p].state \in {"running", "success", "unknown", "deleted"}

\* The attempt number on disk never understates the requests sent, not even
\* after a failed save or a crash, so recovery can tell "nothing was sent".
AttemptsRecorded ==
    \A p \in Plans : market[p].sends <= plan[p].attempt

\* No two requests of one account are under way at once (requestGate).
OneRequestPerAccount ==
    \A p, q \in Plans :
        /\ AtStep(p, "inflight")
        /\ AtStep(q, "inflight")
        /\ AccountOf[p] = AccountOf[q]
        => p = q

\* A gate is held exactly while its holder is between acquiring it and the
\* reply: no path leaks it and none releases it early.
GateHeldByRequester ==
    \A p \in Plans :
        gate[AccountOf[p]] = p <=> run[p].pc \in {"gated", "record", "send", "inflight"}

\* Two executions never pursue the same goods for the same account.
OneRunPerGoods ==
    \A p, q \in Plans :
        /\ Busy(p)
        /\ Busy(q)
        /\ AccountOf[p] = AccountOf[q]
        /\ GoodsOf[p] = GoodsOf[q]
        => p = q

\* While a goroutine executes a plan nobody else moves the plan's record, so
\* its writes are never refused: what it sent is what the record says.
ExecutionOwnsPlan ==
    \A p \in Plans : Busy(p) =>
        /\ plan[p].state = "running"
        /\ plan[p].key = run[p].key
        /\ plan[p].attempt = run[p].attempt
        /\ AtStep(p, "finish") =>
              ResultAccepted(p, run[p].key, FinalState(p), run[p].attempt)

\* An edit lands only on the revision its author read, and never on a plan that
\* a goroutine is executing.
EditsAreCurrent ==
    [][\A p \in Plans :
          /\ plan[p].state # "absent"
          /\ <<plan[p].auto, plan[p].enabled>> # <<plan'[p].auto, plan'[p].enabled>>
          => ~Busy(p) /\ draft[p] = plan[p].rev]_vars

(***************************************************************************)
(* The detailed plan implements the abstract order.                        *)
(***************************************************************************)
Order == INSTANCE ExchangeOrder WITH
            status <- [p \in Plans |-> plan[p].state],
            exposed <- {p \in Plans : Exposed(p)},
            bought <- {p \in Plans : market[p].bought > 0}

\* Retries, the gate, failed saves, stops and crashes are invisible to the
\* plan's owner: every step is a step of the abstract order or none.
ImplementsOrder == Order!OrderSpec

(***************************************************************************)
(* Progress. Goroutines run, contexts expire, and a stopped server exits   *)
(* and is started again; users, faults and the shop owe nothing.           *)
(***************************************************************************)
Fairness ==
    /\ \A p \in Plans : WF_vars(Execute(p)) /\ WF_vars(RunTimeout(p))
    /\ WF_vars(Exit)
    /\ WF_vars(Start)

FairSpec == Spec /\ Fairness

\* No execution hangs, whatever the gate, the shop and the clock do.
RunsEnd == \A p \in Plans : Busy(p) ~> ~Busy(p)

\* A plan reported as running does not stay so: its own run settles it or, after
\* a crash, the next start does. (A failed final save leaves the record running
\* until that start, so this is checked where saves succeed.)
RunningSettles == \A p \in Plans : plan[p].state = "running" ~> plan[p].state # "running"
===============================================================================
