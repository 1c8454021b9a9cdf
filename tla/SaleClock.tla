----------------------------- MODULE SaleClock -----------------------------
(***************************************************************************)
(* The estimate of the shop's clock (internal/shop/clock.go) and the plans *)
(* that wait for a sale by it (engine.go run, validation.go                *)
(* ExchangeWithRetry up to the first request).                             *)
(*                                                                         *)
(* Time is in nanoseconds on the local clock, which the shop's clock is     *)
(* ahead of by `skew`. The shop tells whole seconds only. Plans share one   *)
(* request to the shop and its cooldown. Samples a day off, cached or       *)
(* contradictory are failures.                                             *)
(***************************************************************************)
EXTENDS Integers, FiniteSets

CONSTANTS
    Plans,
    NoPlan,
    Ms, Second,     \* nanoseconds in a millisecond, and in a second
    Cooldown,       \* between samples; a minute
    Timeout,        \* of a sample; 5 seconds
    Stale,          \* age a sample may reach when newer ones fail; 10 minutes
    Lead,           \* before the sale, the clock is asked again; 10 seconds
    Window,         \* after the sale, a plan gives up
    Sale,           \* time of the sale on the shop's clock
    Skews,          \* how far the shop may be ahead
    MaxTime         \* bound on time

ASSUME SaleClockAssumption ==
    /\ NoPlan \notin Plans
    /\ {Ms, Second, Cooldown, Timeout, Stale, Lead, Window, Sale, MaxTime} \subseteq Nat
    /\ Ms > 0 /\ Second > 0 /\ Skews \subseteq Int
    /\ (Second \div 2) % Ms = 0   \* half a second is a whole number of milliseconds

VARIABLES
    now, skew,
    status,     \* serverClock.status; offset and uncertainty in milliseconds
    attempted,  \* when the shop was asked last
    inflight,   \* the request under way
    plan        \* where each plan stands

clockVars == <<now, skew, status, attempted, inflight, plan>>

Steps == {"first", "asked", "prepared", "near", "askedAgain", "waiting", "queued", "sending", "sent", "missed"}

NoStatus == [offset |-> 0, uncertainty |-> 0, synced |-> FALSE, at |-> 0]

NoSample == [by |-> NoPlan, before |-> 0, stamp |-> -1]

ClockInit ==
    /\ now = 0
    /\ skew \in Skews
    /\ status = NoStatus
    /\ attempted = -Cooldown
    /\ inflight = NoSample
    /\ plan = [p \in Plans |-> "first"]

-----------------------------------------------------------------------------
ShopNow == now + skew

\* Duration.Milliseconds cuts towards zero.
Milliseconds(d) == IF d >= 0 THEN d \div Ms ELSE -((-d) \div Ms)

Estimate == now + status.offset * Ms

EarliestNow == now + (status.offset - status.uncertainty) * Ms

Moves(p, step) == plan' = [plan EXCEPT ![p] = step]

\* Where a plan goes on when sync has returned, whatever it returned.
After(step) == IF step = "asked" THEN "prepared" ELSE "waiting"

\* sync: joins the request under way, spares one too soon, or begins one.
Syncs(p) ==
    LET asked == IF plan[p] = "first" THEN "asked" ELSE "askedAgain"
    IN  /\ plan[p] \in {"first", "near"}
        /\ \/ /\ inflight # NoSample
              /\ Moves(p, asked) /\ UNCHANGED <<attempted, inflight>>
           \/ /\ inflight = NoSample /\ now - attempted < Cooldown
              /\ Moves(p, After(asked)) /\ UNCHANGED <<attempted, inflight>>
           \/ /\ inflight = NoSample /\ now - attempted >= Cooldown
              /\ attempted' = now
              /\ inflight' = [by |-> p, before |-> now, stamp |-> -1]
              /\ Moves(p, asked)
        /\ UNCHANGED <<now, skew, status>>

\* The shop answers with the second it is in.
ShopStamps ==
    /\ inflight # NoSample /\ inflight.stamp = -1 /\ ShopNow >= 0
    /\ inflight' = [inflight EXCEPT !.stamp = (ShopNow \div Second) * Second]
    /\ UNCHANGED <<now, skew, status, attempted, plan>>

\* The middle of that second, half the round trip later than it was sent.
Sampled ==
    LET rtt == now - inflight.before
    IN  [offset |-> Milliseconds(inflight.stamp + Second \div 2 - (inflight.before + rtt \div 2)),
         uncertainty |-> Milliseconds(Second \div 2) + Milliseconds(rtt) \div 2,
         synced |-> TRUE, at |-> now]

\* Everyone who waits for the request goes on.
Returns == plan' = [p \in Plans |-> IF plan[p] \in {"asked", "askedAgain"} THEN After(plan[p]) ELSE plan[p]]

SyncSucceeds ==
    /\ inflight.stamp # -1
    /\ status' = Sampled
    /\ inflight' = NoSample
    /\ Returns
    /\ UNCHANGED <<now, skew, attempted>>

SyncFails ==
    /\ inflight # NoSample
    /\ status' = IF ~status.synced \/ now - status.at > Stale THEN NoStatus ELSE status
    /\ inflight' = NoSample
    /\ Returns
    /\ UNCHANGED <<now, skew, attempted>>

-----------------------------------------------------------------------------
\* wait, until shortly before the sale and until the sale.
WaitsUntilNear(p) ==
    /\ plan[p] = "prepared" /\ EarliestNow >= Sale - Lead
    /\ Moves(p, "near")
    /\ UNCHANGED <<now, skew, status, attempted, inflight>>

WaitsUntilSale(p) ==
    /\ plan[p] = "waiting" /\ EarliestNow >= Sale
    /\ Moves(p, "queued")
    /\ UNCHANGED <<now, skew, status, attempted, inflight>>

\* Mutant: the clock is not looked at again behind the gate.
StillOpenQueued(p) == plan[p] = "queued"

\* A concurrent update may have moved the estimate backwards.
StillOpen(p) == EarliestNow >= Sale

\* The gate opens to one plan; it sends, or waits again.
GateOpens(p) ==
    /\ plan[p] = "queued"
    /\ \A other \in Plans : plan[other] # "sending"
    /\ Moves(p, IF StillOpen(p) THEN "sending" ELSE "waiting")
    /\ UNCHANGED <<now, skew, status, attempted, inflight>>

RequestEnds(p) ==
    /\ plan[p] = "sending"
    /\ Moves(p, "sent")
    /\ UNCHANGED <<now, skew, status, attempted, inflight>>

Expires(p) ==
    /\ plan[p] \in {"waiting", "queued"} /\ Estimate >= Sale + Window
    /\ Moves(p, "missed")
    /\ UNCHANGED <<now, skew, status, attempted, inflight>>

Tick ==
    /\ now < MaxTime
    /\ inflight # NoSample => now - inflight.before < Timeout
    /\ now' = now + 1
    /\ UNCHANGED <<skew, status, attempted, inflight, plan>>

ClockNext ==
    \/ Tick \/ ShopStamps \/ SyncSucceeds \/ SyncFails
    \/ \E p \in Plans : \/ Syncs(p) \/ WaitsUntilNear(p) \/ WaitsUntilSale(p)
                        \/ GateOpens(p) \/ RequestEnds(p) \/ Expires(p)

ClockSpec == ClockInit /\ [][ClockNext]_clockVars

-----------------------------------------------------------------------------
(* Properties. *)

ClockTypeOK ==
    /\ now \in Nat /\ skew \in Int
    /\ status \in [offset : Int, uncertainty : Nat, synced : BOOLEAN, at : Nat]
    /\ attempted \in Int
    /\ inflight \in [by : Plans \union {NoPlan}, before : Nat, stamp : Int]
    /\ plan \in [Plans -> Steps]

\* With a clock that has been set by the shop's, no request is sent before the
\* sale has begun there, whatever the round trips were, whoever set the clock
\* while the plan waited, and although the shop tells seconds only: not by more
\* than the milliseconds that cutting off costs, which are less than two.
SaleNotEarly ==
    [][\A p \in Plans : plan[p] # "sending" /\ plan'[p] = "sending" /\ status.synced
          => ShopNow > Sale - 2 * Ms]_clockVars
=============================================================================
