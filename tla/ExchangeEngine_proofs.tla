------------------------- MODULE ExchangeEngine_proofs -------------------------
(***************************************************************************)
(* Proofs about ExchangeEngine, for any set of plans and accounts, any     *)
(* attempt cap and any number of edits, failed saves and crashes.          *)
(***************************************************************************)
EXTENDS ExchangeEngine, TLAPS

-------------------------------------------------------------------------------
(* Type correctness. The sets of strings stay folded: the provers only need  *)
(* to know which strings belong to them.                                     *)

LEMMA Strings ==
    /\ \A s \in {"idle", "prepare", "device", "phase", "wait", "loop", "queue", "gated",
                 "record", "send", "inflight", "rejected", "delay", "finish"} : s \in Steps
    /\ \A c \in {"live", "cancelled", "timeout", "stopped"} : c \in Contexts
    /\ \A s \in Final : s \in PlanStates
    /\ \A s \in {"absent", "pending", "running", "deleted"} : s \in PlanStates
    /\ \A f \in {"", "preparing", "waiting", "exchanging"} : f \in Phases
    /\ \A s \in {"success", "failed", "unknown", "cancelled", "missed"} : s \in Final
BY DEF Steps, Contexts, PlanStates, Phases, Final

LEMMA Defaults == NewPlan \in PlanRecord /\ IdleRun \in RunRecord
BY Strings DEF NewPlan, IdleRun, PlanRecord, RunRecord

LEMMA InitTypeOK == Init => TypeOK
<1> SUFFICES ASSUME Init PROVE TypeOK
  OBVIOUS
<1>1. market \in [Plans -> MarketRecord]
  BY DEF Init, MarketRecord
<1> QED
  BY <1>1, Defaults DEF Init, TypeOK

\* What the helpers of the actions do to the types.
LEMMA GotoType ==
    ASSUME TypeOK, NEW p \in Plans, NEW s \in Steps, Goto(p, s)
    PROVE  run' \in [Plans -> RunRecord]
BY DEF TypeOK, Goto, RunRecord

LEMMA EndType ==
    ASSUME TypeOK, NEW p \in Plans, NEW o \in Final, End(p, o)
    PROVE  run' \in [Plans -> RunRecord]
BY ZenonT(60), Strings DEF TypeOK, End, RunRecord

LEMMA EndExpiredType ==
    ASSUME TypeOK, NEW p \in Plans, EndExpired(p)
    PROVE  run' \in [Plans -> RunRecord]
BY EndType, Strings DEF EndExpired

LEMMA ReleaseType ==
    ASSUME TypeOK, NEW p \in Plans, Release(p)
    PROVE  gate' \in [Accounts -> Plans \union {NoPlan}]
BY ExchangeAssumption DEF TypeOK, Release, ExchangeAssumption

LEMMA SaveType ==
    ASSUME TypeOK, NEW p \in Plans, NEW r \in PlanRecord, NEW ok \in SaveOutcomes,
           Save(p, r, ok)
    PROVE  plan' \in [Plans -> PlanRecord] /\ failedSaves' \in Nat
BY DEF TypeOK, Save, SaveOutcomes

LEMMA ResultType ==
    ASSUME TypeOK, NEW p \in Plans, NEW s \in PlanStates, NEW n \in Nat
    PROVE  Result(p, s, n) \in PlanRecord
BY Strings DEF TypeOK, Result, PlanRecord

LEMMA RecoveredType ==
    ASSUME NEW r \in PlanRecord
    PROVE  Recovered(r) \in PlanRecord
BY Strings DEF Recovered, PlanRecord

LEMMA HandlerType ==
    ASSUME TypeOK, NEW p \in Plans, Handler(p) \/ Dispatch(p)
    PROVE  TypeOK'
<1>1. CASE CreatePlan(p)
  <2>1. PICK auto \in BOOLEAN, enabled \in BOOLEAN, ok \in SaveOutcomes :
            Save(p, [NewPlan EXCEPT !.state = "pending", !.rev = 1,
                                    !.auto = auto, !.enabled = enabled], ok)
    BY <1>1 DEF CreatePlan
  <2>2. [NewPlan EXCEPT !.state = "pending", !.rev = 1,
                        !.auto = auto, !.enabled = enabled] \in PlanRecord
    BY Strings DEF NewPlan, PlanRecord
  <2> QED
    BY <1>1, <2>1, <2>2, SaveType DEF TypeOK, CreatePlan
<1>2. CASE ReadPlan(p)
  BY <1>2 DEF TypeOK, ReadPlan, PlanRecord
<1>3. CASE UpdatePlan(p)
  <2>1. CASE EditAccepted(p)
    <3>1. PICK auto \in BOOLEAN, enabled \in BOOLEAN, ok \in SaveOutcomes :
              Save(p, [plan[p] EXCEPT !.rev = @ + 1, !.auto = auto,
                                      !.enabled = enabled], ok)
      BY <1>3, <2>1 DEF UpdatePlan
    <3>2. plan[p] \in PlanRecord /\ plan[p].rev + 1 \in Nat
      BY DEF TypeOK, PlanRecord
    <3>3. [plan[p] EXCEPT !.rev = plan[p].rev + 1, !.auto = auto, !.enabled = enabled]
              \in PlanRecord
      BY <3>2 DEF PlanRecord
    <3>4. plan' \in [Plans -> PlanRecord] /\ failedSaves' \in Nat
      BY <3>1, <3>3, SaveType
    <3> QED
      BY <1>3, <3>4 DEF TypeOK, UpdatePlan
  <2>2. CASE ~EditAccepted(p)
    BY <1>3, <2>2 DEF TypeOK, UpdatePlan, storeVars
  <2> QED
    BY <2>1, <2>2
<1>4. CASE DeletePlan(p)
  <2>1. [plan[p] EXCEPT !.state = "deleted"] \in PlanRecord
    BY Strings DEF TypeOK, PlanRecord
  <2> QED
    BY <1>4, <2>1, SaveType DEF TypeOK, DeletePlan
<1>5. CASE CancelRun(p)
  BY <1>5, Strings DEF TypeOK, CancelRun, RunRecord
<1>6. ASSUME NEW scheduled \in BOOLEAN, Claim(p, scheduled)
      PROVE  TypeOK'
  <2> DEFINE rev == plan[p].rev + 1
             claimed == [plan[p] EXCEPT !.state = "running", !.phase = "preparing",
                                        !.attempt = 0, !.key = rev, !.rev = rev]
             started == [IdleRun EXCEPT !.pc = "prepare", !.scheduled = scheduled,
                                        !.key = rev]
  <2>1. rev \in Nat
    BY DEF TypeOK, PlanRecord
  <2>2. claimed \in PlanRecord
    BY ZenonT(60), <2>1, Strings DEF TypeOK, PlanRecord
  <2>3. started \in RunRecord
    BY <2>1, Strings DEF IdleRun, RunRecord
  <2>4. PICK ok \in SaveOutcomes :
            /\ Save(p, claimed, ok)
            /\ run' = IF ok THEN [run EXCEPT ![p] = started] ELSE run
    BY <1>6 DEF Claim
  <2>5. run' \in [Plans -> RunRecord]
    BY <2>3, <2>4 DEF TypeOK
  <2>6. plan' \in [Plans -> PlanRecord] /\ failedSaves' \in Nat
    BY <2>2, <2>4, SaveType
  <2> QED
    BY <1>6, <2>5, <2>6 DEF TypeOK, Claim
<1>7. CASE ClaimMissed(p)
  <2>1. [plan[p] EXCEPT !.state = "missed"] \in PlanRecord
    BY Strings DEF TypeOK, PlanRecord
  <2> QED
    BY <1>7, <2>1, SaveType DEF TypeOK, ClaimMissed
<1> QED
  BY <1>1, <1>2, <1>3, <1>4, <1>5, <1>6, <1>7 DEF Handler, Dispatch

LEMMA ExecuteType ==
    ASSUME TypeOK, NEW p \in Plans, Execute(p)
    PROVE  TypeOK'
<1>1. CASE PrepareOk(p)
  BY <1>1, GotoType, Strings DEF TypeOK, PrepareOk
<1>2. CASE PrepareFails(p)
  BY <1>2, EndType, Strings DEF TypeOK, PrepareFails
<1>3. CASE SaveDevice(p)
  <2>1. PICK ok \in SaveOutcomes :
            /\ failedSaves' = IF ok THEN failedSaves ELSE failedSaves + 1
            /\ IF ok THEN Goto(p, IF run[p].scheduled THEN "phase" ELSE "loop")
                     ELSE End(p, "failed")
    BY <1>3 DEF SaveDevice
  <2>2. run' \in [Plans -> RunRecord]
    BY <2>1, GotoType, EndType, Strings
  <2>3. failedSaves' \in Nat
    BY <2>1 DEF TypeOK
  <2> QED
    BY <1>3, <2>2, <2>3 DEF TypeOK, SaveDevice
<1>4. CASE SavePhase(p)
  <2>1. [plan[p] EXCEPT !.phase = "waiting"] \in PlanRecord
    BY Strings DEF TypeOK, PlanRecord
  <2>2. run' \in [Plans -> RunRecord]
    BY <1>4, GotoType, EndType, Strings DEF SavePhase
  <2>3. plan' \in [Plans -> PlanRecord] /\ failedSaves' \in Nat
    BY <1>4, <2>1, SaveType DEF TypeOK, SavePhase, storeVars
  <2> QED
    BY <1>4, <2>2, <2>3 DEF TypeOK, SavePhase
<1>5. CASE WaitForSale(p)
  BY <1>5, GotoType, EndType, Strings DEF TypeOK, WaitForSale
<1>6. CASE LoopTop(p)
  BY <1>6, GotoType, EndType, EndExpiredType, Strings DEF TypeOK, LoopTop
<1>7. CASE AcquireGate(p)
  <2>1. gate' \in [Accounts -> Plans \union {NoPlan}]
    BY <1>7, ExchangeAssumption DEF TypeOK, AcquireGate, ExchangeAssumption
  <2> QED
    BY <1>7, <2>1, GotoType, Strings DEF TypeOK, AcquireGate
<1>8. CASE LeaveQueue(p)
  BY <1>8, GotoType, EndType, EndExpiredType, Strings DEF TypeOK, LeaveQueue
<1>9. CASE CheckUnderGate(p)
  <2>1. run' \in [Plans -> RunRecord]
    BY <1>9, GotoType, EndType, EndExpiredType, Strings DEF CheckUnderGate, Readings
  <2>2. gate' \in [Accounts -> Plans \union {NoPlan}]
    BY <1>9, ReleaseType DEF TypeOK, CheckUnderGate, Readings
  <2> QED
    BY <1>9, <2>1, <2>2 DEF TypeOK, CheckUnderGate
<1>10. CASE RecordAttempt(p)
  <2> DEFINE n == run[p].attempt + 1
  <2>1. n \in Nat
    BY DEF TypeOK, RunRecord
  <2> HIDE DEF n
  <2>2. Result(p, "running", n) \in PlanRecord
    BY <2>1, ResultType, Strings
  <2>3. ASSUME run' = [run EXCEPT ![p].pc = "send", ![p].attempt = n]
        PROVE  run' \in [Plans -> RunRecord]
    <3>1. [run[p] EXCEPT !.pc = "send", !.attempt = n] \in RunRecord
      BY <2>1, Strings DEF TypeOK, RunRecord
    <3>2. run' = [run EXCEPT ![p] = [run[p] EXCEPT !.pc = "send", !.attempt = n]]
      BY <2>3 DEF TypeOK, RunRecord
    <3> QED
      BY <3>1, <3>2 DEF TypeOK
  <2>4. run' \in [Plans -> RunRecord]
    BY <1>10, <2>3, EndType, Strings DEF RecordAttempt, n
  <2>5. gate' \in [Accounts -> Plans \union {NoPlan}]
    BY <1>10, ReleaseType DEF TypeOK, RecordAttempt
  <2>6. plan' \in [Plans -> PlanRecord] /\ failedSaves' \in Nat
    BY <1>10, <2>2, SaveType DEF TypeOK, RecordAttempt, storeVars, n
  <2> QED
    BY <1>10, <2>4, <2>5, <2>6 DEF TypeOK, RecordAttempt
<1>11. CASE SendRequest(p)
  <2>1. run' \in [Plans -> RunRecord]
    BY <1>11, GotoType, EndType, Strings DEF SendRequest
  <2>2. gate' \in [Accounts -> Plans \union {NoPlan}]
    BY <1>11, ReleaseType DEF TypeOK, SendRequest
  <2>3. market' \in [Plans -> MarketRecord]
    BY <1>11 DEF TypeOK, SendRequest, MarketRecord
  <2> QED
    BY <1>11, <2>1, <2>2, <2>3 DEF TypeOK, SendRequest
<1>12. CASE ReplySuccess(p)
  BY <1>12, EndType, ReleaseType, Strings DEF TypeOK, ReplySuccess
<1>13. CASE ReplyRejected(p)
  <2>1. market' \in [Plans -> MarketRecord]
    BY <1>13 DEF TypeOK, ReplyRejected, MarketRecord
  <2>2. run' \in [Plans -> RunRecord]
    BY <1>13, GotoType, EndType, Strings DEF ReplyRejected
  <2> QED
    BY <1>13, <2>1, <2>2, ReleaseType DEF TypeOK, ReplyRejected
<1>14. CASE ReplyLost(p)
  BY <1>14, EndType, ReleaseType, Strings DEF TypeOK, ReplyLost
<1>15. CASE RecordRejection(p)
  <2>1. Result(p, "running", run[p].attempt) \in PlanRecord
    BY ResultType, Strings DEF TypeOK, RunRecord
  <2>2. run' \in [Plans -> RunRecord]
    BY <1>15, GotoType, EndType, Strings DEF RecordRejection
  <2>3. plan' \in [Plans -> PlanRecord] /\ failedSaves' \in Nat
    BY <1>15, <2>1, SaveType DEF TypeOK, RecordRejection, storeVars
  <2> QED
    BY <1>15, <2>2, <2>3 DEF TypeOK, RecordRejection
<1>16. CASE RetryDelay(p)
  BY <1>16, GotoType, EndType, Strings DEF TypeOK, RetryDelay
<1>17. CASE Finish(p)
  <2>1. FinalState(p) \in PlanStates /\ run[p].attempt \in Nat
    BY Strings DEF TypeOK, FinalState, RunRecord
  <2>2. plan' \in [Plans -> PlanRecord] /\ failedSaves' \in Nat
    BY <1>17, <2>1, ResultType, SaveType DEF TypeOK, Finish, storeVars
  <2> QED
    BY <1>17, <2>2, Defaults DEF TypeOK, Finish
<1> QED
  BY <1>1, <1>2, <1>3, <1>4, <1>5, <1>6, <1>7, <1>8, <1>9, <1>10, <1>11, <1>12,
     <1>13, <1>14, <1>15, <1>16, <1>17 DEF Execute

LEMMA StepType == TypeOK /\ [Next]_vars => TypeOK'
<1> SUFFICES ASSUME TypeOK, [Next]_vars PROVE TypeOK'
  OBVIOUS
<1>1. ASSUME NEW p \in Plans, Handler(p) \/ Dispatch(p)
      PROVE  TypeOK'
  BY <1>1, HandlerType
<1>2. ASSUME NEW p \in Plans, Execute(p)
      PROVE  TypeOK'
  BY <1>2, ExecuteType
<1>3. ASSUME NEW p \in Plans, RunTimeout(p)
      PROVE  TypeOK'
  BY <1>3, Strings DEF TypeOK, RunTimeout, RunRecord
<1>4. ASSUME NEW p \in Plans, ShopDecides(p)
      PROVE  TypeOK'
  BY <1>4 DEF TypeOK, ShopDecides, MarketRecord
<1>5. ASSUME NEW a \in Accounts, ChangeAccess(a)
      PROVE  TypeOK'
  BY <1>5 DEF TypeOK, ChangeAccess
<1>6. CASE Stop
  <2>1. run' \in [Plans -> RunRecord]
    BY <1>6, Strings DEF TypeOK, Stop, RunRecord
  <2> QED
    BY <1>6, <2>1 DEF TypeOK, Stop
<1>7. CASE Exit
  BY <1>7 DEF TypeOK, Exit
<1>8. CASE Crash
  BY <1>8, Defaults DEF TypeOK, Crash
<1>9. CASE Start
  BY <1>9, RecoveredType DEF TypeOK, Start
<1>10. CASE UNCHANGED vars
  BY <1>10 DEF TypeOK, vars
<1> QED
  BY <1>1, <1>2, <1>3, <1>4, <1>5, <1>6, <1>7, <1>8, <1>9, <1>10 DEF Next

\* Every variable keeps its type, whatever the constants.
THEOREM TypeCorrect == Spec => []TypeOK
BY InitTypeOK, StepType, PTL DEF Spec

-------------------------------------------------------------------------------
(* The inductive invariant. It relates the goroutine of a plan to the plan's *)
(* record and both to what the shop may have received.                       *)

\* Nobody else moves the record of a plan that is being executed.
OwnsRecord(p) == Busy(p) =>
    /\ process # "down"
    /\ plan[p].state = "running"
    /\ plan[p].key = run[p].key
    /\ plan[p].attempt = run[p].attempt
    /\ run[p].scheduled => plan[p].auto
    /\ run[p].attempt = 0 => plan[p].phase \in {"preparing", "waiting"}

\* Before the first request leaves, the attempt number is not 0 any more.
AttemptBeforeRequest(p) ==
    /\ market[p].sends <= plan[p].attempt
    /\ plan[p].state \in {"absent", "pending"} => plan[p].attempt = 0
    /\ run[p].pc \in {"send", "inflight", "rejected", "delay"} => run[p].attempt > 0

\* Whether the shop may have the plan's request, given the step and the record.
RequestFollowsRecord(p) ==
    /\ market[p].bought = IF market[p].request = "committed" THEN 1 ELSE 0
    /\ market[p].sends = 0 => market[p].request = "none"
    /\ run[p].pc \notin {"idle", "inflight", "finish"} => market[p].request = "none"
    /\ run[p].pc = "finish" /\ run[p].outcome \in {"failed", "cancelled", "missed"}
          => market[p].request = "none"
    /\ run[p].pc = "finish" /\ run[p].outcome = "success"
          => market[p].request = "committed"
    /\ plan[p].state \in {"absent", "pending", "failed", "cancelled", "missed"}
          => market[p].request = "none"
    /\ plan[p].state = "success" => market[p].request = "committed"

PlanInv(p) == OwnsRecord(p) /\ AttemptBeforeRequest(p) /\ RequestFollowsRecord(p)
PlansInv == \A p \in Plans : PlanInv(p)

\* What a step of a goroutine that only ends or moves on preserves.
LEMMA EndKeeps ==
    ASSUME TypeOK, PlansInv, NEW p \in Plans, Busy(p),
           NEW o \in {"failed", "cancelled", "missed"}, End(p, o),
           market[p].request = "none", UNCHANGED <<plan, process, market>>
    PROVE  PlanInv(p)'
BY DEF TypeOK, PlansInv, PlanInv, PlanRecord, RunRecord, MarketRecord, Busy, End,
       OwnsRecord, AttemptBeforeRequest, RequestFollowsRecord

LEMMA GotoKeeps ==
    ASSUME TypeOK, PlansInv, NEW p \in Plans, Busy(p),
           NEW s \in Steps \ {"idle", "finish"}, Goto(p, s),
           s \in {"send", "inflight", "rejected", "delay"} => run[p].attempt > 0,
           market[p].request = "none", UNCHANGED <<plan, process, market>>
    PROVE  PlanInv(p)'
BY DEF TypeOK, PlansInv, PlanInv, PlanRecord, RunRecord, MarketRecord, Busy, Goto,
       OwnsRecord, AttemptBeforeRequest, RequestFollowsRecord

LEMMA UpdateKeeps ==
    ASSUME TypeOK, PlansInv, NEW p \in Plans, UpdatePlan(p)
    PROVE  PlanInv(p)'
<1> USE DEF TypeOK, PlansInv, PlanInv, PlanRecord, RunRecord, MarketRecord, Busy,
            OwnsRecord, AttemptBeforeRequest, RequestFollowsRecord
<1>1. CASE UNCHANGED plan
  BY <1>1 DEF UpdatePlan
<1>2. CASE plan' # plan
  <2>1. PICK auto \in BOOLEAN, enabled \in BOOLEAN :
            plan' = [plan EXCEPT ![p] = [plan[p] EXCEPT !.rev = @ + 1, !.auto = auto,
                                                        !.enabled = enabled]]
    BY <1>2 DEF UpdatePlan, Save, storeVars
  <2>2. plan[p].state = "pending"
    BY <1>2 DEF UpdatePlan, EditAccepted, storeVars
  <2>3. /\ plan'[p].state = plan[p].state
        /\ plan'[p].attempt = plan[p].attempt
    BY <2>1
  <2>4. run[p].pc = "idle"
    BY <2>2
  <2> QED
    BY <2>2, <2>3, <2>4 DEF UpdatePlan
<1> QED
  BY <1>1, <1>2

LEMMA SavePhaseKeeps ==
    ASSUME TypeOK, PlansInv, NEW p \in Plans, SavePhase(p)
    PROVE  PlanInv(p)'
<1>1. Busy(p) /\ market[p].request = "none" /\ UNCHANGED <<market, process>>
  BY DEF SavePhase, AtStep, Busy, PlansInv, PlanInv, RequestFollowsRecord
<1>2. CASE UNCHANGED plan
  <2>1. End(p, "cancelled") \/ Goto(p, "wait")
    BY DEF SavePhase
  <2> QED
    BY <1>1, <1>2, <2>1, EndKeeps, GotoKeeps, Strings
<1>3. CASE plan' # plan
  <2>1. /\ plan' = [plan EXCEPT ![p].phase = "waiting"]
        /\ plan[p].attempt = 0
        /\ Goto(p, "wait")
    BY <1>3 DEF SavePhase, Save, storeVars, TypeOK
  <2> QED
    BY <1>1, <2>1 DEF Goto, TypeOK, PlansInv, PlanInv, PlanRecord, RunRecord,
       MarketRecord, Busy, OwnsRecord, AttemptBeforeRequest, RequestFollowsRecord
<1> QED
  BY <1>2, <1>3

LEMMA CheckKeeps ==
    ASSUME TypeOK, PlansInv, NEW p \in Plans, CheckUnderGate(p)
    PROVE  PlanInv(p)'
<1>1. /\ Busy(p)
      /\ market[p].request = "none"
      /\ UNCHANGED <<plan, market, process>>
  BY DEF CheckUnderGate, AtStep, Busy, PlansInv, PlanInv, RequestFollowsRecord
<1>2. \/ \E o \in {"failed", "cancelled", "missed"} : End(p, o)
      \/ \E s \in {"loop", "record"} : Goto(p, s)
  BY DEF CheckUnderGate, EndExpired, Readings
<1> QED
  BY <1>1, <1>2, EndKeeps, GotoKeeps, Strings

LEMMA SendKeeps ==
    ASSUME TypeOK, PlansInv, NEW p \in Plans, SendRequest(p)
    PROVE  PlanInv(p)'
<1> USE DEF TypeOK, PlansInv, PlanInv, PlanRecord, RunRecord, MarketRecord, Busy, AtStep,
            OwnsRecord, AttemptBeforeRequest, RequestFollowsRecord
<1>1. CASE End(p, "unknown") /\ UNCHANGED market
  BY <1>1 DEF SendRequest, End
<1>2. CASE /\ Goto(p, "inflight")
           /\ market' = [market EXCEPT ![p].request = "open", ![p].sends = @ + 1]
  <2>1. /\ market'[p].request = "open"
        /\ market'[p].sends = market[p].sends + 1
        /\ market'[p].bought = market[p].bought
    BY <1>2
  <2> QED
    BY <1>2, <2>1 DEF SendRequest, Goto
<1> QED
  BY <1>1, <1>2 DEF SendRequest

LEMMA RejectedKeeps ==
    ASSUME TypeOK, PlansInv, NEW p \in Plans, ReplyRejected(p)
    PROVE  PlanInv(p)'
<1> USE DEF TypeOK, PlansInv, PlanInv, PlanRecord, RunRecord, MarketRecord, Busy, AtStep,
            OwnsRecord, AttemptBeforeRequest, RequestFollowsRecord
<1>1. /\ market'[p].request = "none"
      /\ market'[p].sends = market[p].sends
      /\ market'[p].bought = market[p].bought
      /\ market[p].bought = 0
      /\ UNCHANGED <<plan, process>>
  BY DEF ReplyRejected
<1>2. CASE End(p, "failed")
  BY <1>1, <1>2 DEF ReplyRejected, End
<1>3. CASE Goto(p, "rejected")
  BY <1>1, <1>3 DEF ReplyRejected, Goto
<1> QED
  BY <1>2, <1>3 DEF ReplyRejected

LEMMA RecordRejectionKeeps ==
    ASSUME TypeOK, PlansInv, NEW p \in Plans, RecordRejection(p)
    PROVE  PlanInv(p)'
<1>1. /\ Busy(p)
      /\ market[p].request = "none"
      /\ run[p].attempt > 0
      /\ UNCHANGED <<market, process>>
  BY DEF RecordRejection, AtStep, Busy, PlansInv, PlanInv, RequestFollowsRecord,
         AttemptBeforeRequest
<1>2. CASE UNCHANGED plan
  <2>1. \/ \E o \in {"failed", "cancelled"} : End(p, o)
        \/ Goto(p, "delay")
    BY DEF RecordRejection
  <2> QED
    BY <1>1, <1>2, <2>1, EndKeeps, GotoKeeps, Strings
<1>3. CASE plan' # plan
  <2>1. /\ plan' = [plan EXCEPT ![p] = Result(p, "running", run[p].attempt)]
        /\ Goto(p, "delay")
    BY <1>3 DEF RecordRejection, Save, storeVars
  <2>2. /\ plan'[p].state = "running"
        /\ plan'[p].attempt = run[p].attempt
        /\ plan'[p].key = plan[p].key
        /\ plan'[p].auto = plan[p].auto
    BY <2>1 DEF Result, TypeOK, PlanRecord
  <2> QED
    BY <1>1, <2>1, <2>2 DEF Goto, TypeOK, PlansInv, PlanInv, PlanRecord, RunRecord,
       MarketRecord, Busy, OwnsRecord, AttemptBeforeRequest, RequestFollowsRecord
<1> QED
  BY <1>2, <1>3

LEMMA FinishKeeps ==
    ASSUME TypeOK, PlansInv, NEW p \in Plans, Finish(p)
    PROVE  PlanInv(p)'
<1> USE DEF TypeOK, PlansInv, PlanInv, PlanRecord, RunRecord, MarketRecord, Busy, AtStep,
            OwnsRecord, AttemptBeforeRequest, RequestFollowsRecord
<1>1. run'[p].pc = "idle" /\ UNCHANGED <<market, process>>
  BY DEF Finish, IdleRun
<1>2. CASE UNCHANGED plan
  BY <1>1, <1>2 DEF Finish
<1>3. CASE plan' # plan
  <2>1. /\ plan' = [plan EXCEPT ![p] = Result(p, FinalState(p), run[p].attempt)]
        /\ ResultAccepted(p, run[p].key, FinalState(p), run[p].attempt)
    BY <1>3 DEF Finish, Save, storeVars
  <2>2. plan'[p].state = FinalState(p) /\ plan'[p].attempt = plan[p].attempt
    BY <2>1 DEF Result, Finish
  <2>3. CASE FinalState(p) = run[p].outcome
    <3>1. plan'[p].state \in Final /\ run[p].pc = "finish"
      BY <2>2, <2>3 DEF Finish
    <3>2. plan'[p].state \in {"failed", "cancelled", "missed"}
              => market[p].request = "none"
      BY <2>2, <2>3, <3>1
    <3>3. plan'[p].state = "success" => market[p].request = "committed"
      BY <2>2, <2>3, <3>1
    <3>4. plan'[p].state \notin {"absent", "pending"}
      BY <3>1 DEF Final
    <3> QED
      BY <1>1, <2>2, <3>2, <3>3, <3>4
  <2>4. CASE FinalState(p) = "pending"
    <3>1. plan[p].attempt = 0
      BY <2>1, <2>4 DEF ResultAccepted
    <3>2. market[p].sends = 0 /\ market[p].request = "none"
      BY <3>1
    <3> QED
      BY <1>1, <2>2, <2>4, <3>1, <3>2
  <2> QED
    BY <2>3, <2>4 DEF FinalState
<1> QED
  BY <1>2, <1>3

LEMMA HandlerKeeps ==
    ASSUME TypeOK, PlansInv, NEW p \in Plans, Handler(p) \/ Dispatch(p)
    PROVE  PlanInv(p)'
<1> USE DEF TypeOK, PlansInv, PlanInv, PlanRecord, RunRecord, MarketRecord, AtStep, Busy,
            OwnsRecord, AttemptBeforeRequest, RequestFollowsRecord, Goto, End, EndExpired,
            Save, storeVars, Done, ResultAccepted, Result
<1>1. CASE CreatePlan(p)
  BY <1>1 DEF CreatePlan, NewPlan
<1>2. CASE ReadPlan(p)
  BY <1>2 DEF ReadPlan
<1>3. CASE UpdatePlan(p)
  BY <1>3, UpdateKeeps
<1>4. CASE DeletePlan(p)
  BY <1>4 DEF DeletePlan
<1>5. CASE CancelRun(p)
  BY <1>5 DEF CancelRun
<1>6. ASSUME NEW scheduled \in BOOLEAN, Claim(p, scheduled)
      PROVE  PlanInv(p)'
  BY <1>6 DEF Claim, Claimable, IdleRun
<1>7. CASE ClaimMissed(p)
  BY <1>7 DEF ClaimMissed, Claimable
<1> QED
  BY <1>1, <1>2, <1>3, <1>4, <1>5, <1>6, <1>7 DEF Handler, Dispatch

LEMMA ExecuteKeeps ==
    ASSUME TypeOK, PlansInv, NEW p \in Plans, Execute(p)
    PROVE  PlanInv(p)'
<1> USE DEF TypeOK, PlansInv, PlanInv, PlanRecord, RunRecord, MarketRecord, AtStep, Busy,
            OwnsRecord, AttemptBeforeRequest, RequestFollowsRecord, Goto, End, EndExpired,
            Save, storeVars, Done, ResultAccepted, Result
<1>1. CASE PrepareOk(p)
  BY <1>1 DEF PrepareOk
<1>2. CASE PrepareFails(p)
  BY <1>2 DEF PrepareFails
<1>3. CASE SaveDevice(p)
  BY <1>3 DEF SaveDevice
<1>4. CASE SavePhase(p)
  BY <1>4, SavePhaseKeeps
<1>5. CASE WaitForSale(p)
  BY <1>5 DEF WaitForSale
<1>6. CASE LoopTop(p)
  BY <1>6 DEF LoopTop
<1>7. CASE AcquireGate(p)
  BY <1>7 DEF AcquireGate
<1>8. CASE LeaveQueue(p)
  BY SMTT(60), <1>8 DEF LeaveQueue
<1>9. CASE CheckUnderGate(p)
  BY <1>9, CheckKeeps
<1>10. CASE RecordAttempt(p)
  BY <1>10 DEF RecordAttempt
<1>11. CASE SendRequest(p)
  BY <1>11, SendKeeps
<1>12. CASE ReplySuccess(p)
  BY <1>12 DEF ReplySuccess
<1>13. CASE ReplyRejected(p)
  BY <1>13, RejectedKeeps
<1>14. CASE ReplyLost(p)
  BY <1>14 DEF ReplyLost
<1>15. CASE RecordRejection(p)
  BY <1>15, RecordRejectionKeeps
<1>16. CASE RetryDelay(p)
  BY <1>16 DEF RetryDelay
<1>17. CASE Finish(p)
  BY <1>17, FinishKeeps
<1> QED
  BY <1>1, <1>2, <1>3, <1>4, <1>5, <1>6, <1>7, <1>8, <1>9, <1>10, <1>11,
     <1>12, <1>13, <1>14, <1>15, <1>16, <1>17 DEF Execute

\* A step about one plan leaves every other plan alone.
LEMMA Elsewhere ==
    ASSUME TypeOK, NEW p \in Plans, NEW q \in Plans, q # p,
           Handler(p) \/ Dispatch(p) \/ Execute(p) \/ RunTimeout(p) \/ ShopDecides(p)
    PROVE  /\ plan'[q] = plan[q]
           /\ run'[q] = run[q]
           /\ market'[q] = market[q]
           /\ process' = process
<1> USE DEF TypeOK, Goto, End, EndExpired, Save, storeVars
<1>1. CASE Handler(p) \/ Dispatch(p)
  BY <1>1 DEF Handler, Dispatch, CreatePlan, ReadPlan, UpdatePlan, DeletePlan, CancelRun,
     Claim, ClaimMissed
<1>2. CASE Execute(p)
  <2>1. /\ plan'[q] = plan[q]
        /\ market'[q] = market[q]
        /\ process' = process
    BY <1>2 DEF Execute, PrepareOk, PrepareFails, SaveDevice, SavePhase, WaitForSale,
       LoopTop, AcquireGate, LeaveQueue, CheckUnderGate, RecordAttempt, SendRequest,
       ReplySuccess, ReplyRejected, ReplyLost, RecordRejection, RetryDelay, Finish
  <2>2. run'[q] = run[q]
    BY <1>2 DEF Execute, PrepareOk, PrepareFails, SaveDevice, SavePhase, WaitForSale,
       LoopTop, AcquireGate, LeaveQueue, CheckUnderGate, Readings, RecordAttempt,
       SendRequest, ReplySuccess, ReplyRejected, ReplyLost, RecordRejection, RetryDelay,
       Finish
  <2> QED
    BY <2>1, <2>2
<1>3. CASE RunTimeout(p)
  BY <1>3 DEF RunTimeout
<1>4. CASE ShopDecides(p)
  BY <1>4 DEF ShopDecides
<1> QED
  BY <1>1, <1>2, <1>3, <1>4

LEMMA Untouched ==
    ASSUME PlansInv, NEW q \in Plans, plan'[q] = plan[q], run'[q] = run[q],
           market'[q] = market[q], process' = process
    PROVE  PlanInv(q)'
BY DEF PlansInv, PlanInv, OwnsRecord, AttemptBeforeRequest, RequestFollowsRecord, Busy

LEMMA InitPlansInv == Init => PlansInv
<1> SUFFICES ASSUME Init, NEW p \in Plans PROVE PlanInv(p)
  BY DEF PlansInv
<1>1. /\ plan[p].state = "absent"
      /\ plan[p].attempt = 0
      /\ run[p].pc = "idle"
      /\ market[p] = [request |-> "none", sends |-> 0, bought |-> 0]
  BY DEF Init, NewPlan, IdleRun
<1> QED
  BY <1>1 DEF PlanInv, OwnsRecord, AttemptBeforeRequest, RequestFollowsRecord, Busy

LEMMA StepPlansInv == TypeOK /\ PlansInv /\ [Next]_vars => PlansInv'
<1> SUFFICES ASSUME TypeOK, PlansInv, [Next]_vars, NEW q \in Plans
             PROVE  PlanInv(q)'
  BY DEF PlansInv
<1>1. ASSUME NEW p \in Plans, Handler(p) \/ Dispatch(p)
      PROVE  PlanInv(q)'
  BY <1>1, HandlerKeeps, Elsewhere, Untouched
<1>2. ASSUME NEW p \in Plans, Execute(p)
      PROVE  PlanInv(q)'
  BY <1>2, ExecuteKeeps, Elsewhere, Untouched
<1>3. ASSUME NEW p \in Plans, RunTimeout(p)
      PROVE  PlanInv(q)'
  <2>1. CASE q = p
    BY <1>3, <2>1 DEF RunTimeout, TypeOK, RunRecord, PlansInv, PlanInv, OwnsRecord,
       AttemptBeforeRequest, RequestFollowsRecord, Busy
  <2> QED
    BY <1>3, <2>1, Elsewhere, Untouched
<1>4. ASSUME NEW p \in Plans, ShopDecides(p)
      PROVE  PlanInv(q)'
  <2>1. CASE q = p
    BY <1>4, <2>1 DEF ShopDecides, TypeOK, MarketRecord, PlansInv, PlanInv, OwnsRecord,
       AttemptBeforeRequest, RequestFollowsRecord, Busy
  <2> QED
    BY <1>4, <2>1, Elsewhere, Untouched
<1>5. ASSUME NEW a \in Accounts, ChangeAccess(a)
      PROVE  PlanInv(q)'
  BY <1>5, Untouched DEF ChangeAccess
<1>6. CASE Stop
  <2>1. /\ run'[q].pc = run[q].pc
        /\ run'[q].key = run[q].key
        /\ run'[q].attempt = run[q].attempt
        /\ run'[q].scheduled = run[q].scheduled
        /\ run'[q].outcome = run[q].outcome
    BY <1>6 DEF Stop, TypeOK, RunRecord
  <2> QED
    BY <1>6, <2>1 DEF Stop, PlansInv, PlanInv, OwnsRecord, AttemptBeforeRequest,
       RequestFollowsRecord, Busy
<1>7. CASE Exit
  BY <1>7 DEF Exit, PlansInv, PlanInv, OwnsRecord, AttemptBeforeRequest,
     RequestFollowsRecord, Busy
<1>8. CASE Crash
  <2>1. run'[q] = IdleRun /\ UNCHANGED <<plan, market>>
    BY <1>8 DEF Crash
  <2> QED
    BY <2>1 DEF IdleRun, PlansInv, PlanInv, OwnsRecord, AttemptBeforeRequest,
       RequestFollowsRecord, Busy
<1>9. CASE Start
  <2>1. run[q].pc = "idle" /\ UNCHANGED <<run, market>>
    BY <1>9 DEF Start, PlansInv, PlanInv, OwnsRecord, Busy
  <2>2. plan'[q] = Recovered(plan[q])
    BY <1>9 DEF Start
  <2>3. /\ plan'[q].attempt = plan[q].attempt
        /\ \/ plan'[q].state = plan[q].state
           \/ plan'[q].state = "unknown"
           \/ plan'[q].state = "pending" /\ plan[q].attempt = 0
    BY <2>2 DEF Recovered, TypeOK, PlanRecord
  <2>4. plan[q].attempt = 0 => market[q].sends = 0
    BY DEF PlansInv, PlanInv, AttemptBeforeRequest, TypeOK, MarketRecord
  <2> QED
    BY <2>1, <2>3, <2>4 DEF PlansInv, PlanInv, OwnsRecord, AttemptBeforeRequest,
       RequestFollowsRecord, Busy
<1>10. CASE UNCHANGED vars
  BY <1>10, Untouched DEF vars
<1> QED
  BY <1>1, <1>2, <1>3, <1>4, <1>5, <1>6, <1>7, <1>8, <1>9, <1>10 DEF Next

-------------------------------------------------------------------------------
(* The account gates.                                                        *)

Holding == {"gated", "record", "send", "inflight"}

\* A step that changes no gate and takes nobody into or out of the gated section.
LEMMA GateUntouched ==
    ASSUME GateHeldByRequester, gate' = gate,
           \A q \in Plans : run'[q].pc \in Holding <=> run[q].pc \in Holding
    PROVE  GateHeldByRequester'
BY DEF GateHeldByRequester, Holding

\* A holder that leaves the gated section and gives its gate back.
LEMMA GateReleased ==
    ASSUME TypeOK, GateHeldByRequester, NEW p \in Plans, run[p].pc \in Holding, Release(p),
           run'[p].pc \notin Holding, \A q \in Plans : q # p => run'[q] = run[q]
    PROVE  GateHeldByRequester'
BY ExchangeAssumption DEF TypeOK, GateHeldByRequester, Holding, Release, ExchangeAssumption

LEMMA GateTaken ==
    ASSUME TypeOK, GateHeldByRequester, NEW p \in Plans, AcquireGate(p)
    PROVE  GateHeldByRequester'
<1>1. AccountOf \in [Plans -> Accounts] /\ NoPlan \notin Plans
  BY ExchangeAssumption DEF ExchangeAssumption
<1>2. /\ gate[AccountOf[p]] = NoPlan
      /\ gate' = [gate EXCEPT ![AccountOf[p]] = p]
      /\ run'[p].pc = "gated"
      /\ \A q \in Plans : q # p => run'[q] = run[q]
  BY DEF TypeOK, RunRecord, AcquireGate, GateFree, Goto
<1> SUFFICES ASSUME NEW q \in Plans
             PROVE  (gate[AccountOf[q]] = q <=> run[q].pc \in Holding)'
  BY DEF GateHeldByRequester, Holding
<1>3. CASE q = p
  BY <1>1, <1>2, <1>3 DEF TypeOK, Holding
<1>4. CASE q # p /\ AccountOf[q] = AccountOf[p]
  BY <1>1, <1>2, <1>4 DEF TypeOK, GateHeldByRequester, Holding
<1>5. CASE q # p /\ AccountOf[q] # AccountOf[p]
  BY <1>1, <1>2, <1>5 DEF TypeOK, GateHeldByRequester, Holding
<1> QED
  BY <1>3, <1>4, <1>5

\* The steps of an execution by what they do to its gate.
LEMMA ExecuteGate ==
    ASSUME TypeOK, NEW p \in Plans, Execute(p)
    PROVE  \/ AcquireGate(p)
           \/ run[p].pc \in Holding /\ Release(p) /\ run'[p].pc \notin Holding
           \/ gate' = gate /\ (run'[p].pc \in Holding <=> run[p].pc \in Holding)
<1> USE DEF TypeOK, RunRecord, Goto, End, EndExpired, AtStep, Holding
<1>1. CASE PrepareOk(p) \/ PrepareFails(p) \/ SaveDevice(p) \/ SavePhase(p)
  BY <1>1 DEF PrepareOk, PrepareFails, SaveDevice, SavePhase
<1>2. CASE WaitForSale(p) \/ LoopTop(p) \/ LeaveQueue(p)
  BY <1>2 DEF WaitForSale, LoopTop, LeaveQueue
<1>3. CASE CheckUnderGate(p)
  <2>1. \/ Release(p) /\ \E o \in {"failed", "missed", "cancelled"} : End(p, o)
        \/ Release(p) /\ Goto(p, "loop")
        \/ gate' = gate /\ Goto(p, "record")
    BY <1>3 DEF CheckUnderGate, Readings
  <2> QED
    BY <1>3, <2>1 DEF CheckUnderGate
<1>4. CASE RecordAttempt(p)
  <2>1. CASE /\ run' = [run EXCEPT ![p].pc = "send", ![p].attempt = run[p].attempt + 1]
             /\ UNCHANGED gate
    BY <1>4, <2>1 DEF RecordAttempt
  <2>2. CASE \E o \in {"failed", "cancelled"} : End(p, o) /\ Release(p)
    BY <1>4, <2>2 DEF RecordAttempt
  <2> QED
    BY <1>4, <2>1, <2>2 DEF RecordAttempt
<1>5. CASE SendRequest(p)
  BY <1>5 DEF SendRequest
<1>6. CASE ReplySuccess(p) \/ ReplyRejected(p) \/ ReplyLost(p)
  BY <1>6 DEF ReplySuccess, ReplyRejected, ReplyLost
<1>7. CASE RecordRejection(p) \/ RetryDelay(p)
  BY <1>7 DEF RecordRejection, RetryDelay
<1>8. CASE Finish(p)
  BY <1>8 DEF Finish, IdleRun
<1> QED
  BY <1>1, <1>2, <1>3, <1>4, <1>5, <1>6, <1>7, <1>8 DEF Execute

LEMMA StepGate ==
    TypeOK /\ PlansInv /\ GateHeldByRequester /\ [Next]_vars => GateHeldByRequester'
<1> SUFFICES ASSUME TypeOK, PlansInv, GateHeldByRequester, [Next]_vars
             PROVE  GateHeldByRequester'
  OBVIOUS
<1>1. ASSUME NEW p \in Plans, Handler(p) \/ Dispatch(p)
      PROVE  GateHeldByRequester'
  <2>1. ASSUME NEW scheduled \in BOOLEAN, Claim(p, scheduled)
        PROVE  GateHeldByRequester'
    <3>1. run[p].pc = "idle"
      BY <2>1 DEF Claim, Claimable, PlansInv, PlanInv, OwnsRecord, Busy
    <3>2. run'[p].pc \in {"idle", "prepare"} /\ gate' = gate
      BY <2>1, <3>1 DEF Claim, IdleRun, TypeOK, RunRecord
    <3> QED
      BY <2>1, <3>1, <3>2, Elsewhere, GateUntouched DEF Handler, Dispatch, Holding
  <2>2. CASE CancelRun(p)
    BY <2>2, GateUntouched DEF CancelRun, TypeOK, RunRecord
  <2> QED
    BY <1>1, <2>1, <2>2, GateUntouched DEF Handler, Dispatch, CreatePlan, ReadPlan,
       UpdatePlan, DeletePlan, ClaimMissed
<1>2. ASSUME NEW p \in Plans, Execute(p)
      PROVE  GateHeldByRequester'
  <2>1. \A q \in Plans : q # p => run'[q] = run[q]
    BY <1>2, Elsewhere
  <2> QED
    BY <1>2, <2>1, ExecuteGate, GateUntouched, GateReleased, GateTaken
<1>3. ASSUME NEW p \in Plans, RunTimeout(p)
      PROVE  GateHeldByRequester'
  BY <1>3, GateUntouched DEF RunTimeout, TypeOK, RunRecord
<1>4. ASSUME NEW p \in Plans, ShopDecides(p)
      PROVE  GateHeldByRequester'
  BY <1>4, GateUntouched DEF ShopDecides
<1>5. ASSUME NEW a \in Accounts, ChangeAccess(a)
      PROVE  GateHeldByRequester'
  BY <1>5, GateUntouched DEF ChangeAccess
<1>6. CASE Stop
  <2>1. \A q \in Plans : run'[q].pc = run[q].pc
    BY <1>6 DEF Stop, TypeOK, RunRecord
  <2> QED
    BY <1>6, <2>1, GateUntouched DEF Stop
<1>7. CASE Exit \/ Start \/ UNCHANGED vars
  BY <1>7, GateUntouched DEF Exit, Start, vars
<1>8. CASE Crash
  BY <1>8, ExchangeAssumption DEF Crash, IdleRun, GateHeldByRequester, ExchangeAssumption
<1> QED
  BY <1>1, <1>2, <1>3, <1>4, <1>5, <1>6, <1>7, <1>8 DEF Next

LEMMA InitGate == Init => GateHeldByRequester
<1> SUFFICES ASSUME Init, NEW p \in Plans
             PROVE  gate[AccountOf[p]] # p /\ run[p].pc = "idle"
  BY DEF GateHeldByRequester
<1> QED
  BY ExchangeAssumption DEF Init, IdleRun, ExchangeAssumption

\* Only a plan nobody pursues is claimed.
LEMMA StepOneRunPerGoods ==
    TypeOK /\ PlansInv /\ OneRunPerGoods /\ [Next]_vars => OneRunPerGoods'
<1> SUFFICES ASSUME TypeOK, PlansInv, OneRunPerGoods, [Next]_vars
             PROVE  OneRunPerGoods'
  OBVIOUS
<1>1. ASSUME \A q \in Plans : Busy(q)' => Busy(q)
      PROVE  OneRunPerGoods'
  BY <1>1 DEF OneRunPerGoods, Busy
<1>2. ASSUME NEW p \in Plans, NEW scheduled \in BOOLEAN, Claim(p, scheduled)
      PROVE  OneRunPerGoods'
  <2>1. \A q \in Plans : q # p => (Busy(q)' <=> Busy(q))
    BY <1>2, Elsewhere DEF Handler, Dispatch, Busy
  <2>2. ASSUME NEW q \in Plans, Busy(q), AccountOf[q] = AccountOf[p], GoodsOf[q] = GoodsOf[p]
        PROVE  FALSE
    BY <1>2, <2>2 DEF Claim, DuplicateRunning, PlansInv, PlanInv, OwnsRecord
  <2> QED
    BY <2>1, <2>2 DEF OneRunPerGoods
<1>3. ASSUME NEW p \in Plans, Handler(p) \/ Dispatch(p)
      PROVE  OneRunPerGoods'
  BY <1>1, <1>2, <1>3 DEF Handler, Dispatch, CreatePlan, ReadPlan, UpdatePlan, DeletePlan,
     CancelRun, ClaimMissed, Busy, TypeOK, RunRecord
<1>4. ASSUME NEW p \in Plans, Execute(p)
      PROVE  OneRunPerGoods'
  <2>1. Busy(p)
    BY <1>4 DEF Execute, PrepareOk, PrepareFails, SaveDevice, SavePhase, WaitForSale,
       LoopTop, AcquireGate, LeaveQueue, CheckUnderGate, RecordAttempt, SendRequest,
       ReplySuccess, ReplyRejected, ReplyLost, RecordRejection, RetryDelay, Finish,
       AtStep, Busy
  <2> QED
    BY <1>1, <1>4, <2>1, Elsewhere DEF Busy
<1>5. ASSUME NEW p \in Plans, RunTimeout(p) \/ ShopDecides(p)
      PROVE  OneRunPerGoods'
  BY <1>1, <1>5 DEF RunTimeout, ShopDecides, Busy, TypeOK, RunRecord
<1>6. ASSUME NEW a \in Accounts, ChangeAccess(a)
      PROVE  OneRunPerGoods'
  BY <1>1, <1>6 DEF ChangeAccess, Busy
<1>7. CASE Stop
  BY <1>1, <1>7 DEF Stop, Busy, TypeOK, RunRecord
<1>8. CASE Exit \/ Crash \/ Start \/ UNCHANGED vars
  BY <1>1, <1>8 DEF Exit, Crash, Start, vars, Busy, IdleRun
<1> QED
  BY <1>3, <1>4, <1>5, <1>6, <1>7, <1>8 DEF Next

-------------------------------------------------------------------------------
(* The theorems.                                                             *)

IInv == TypeOK /\ PlansInv /\ GateHeldByRequester /\ OneRunPerGoods

LEMMA InitIInv == Init => IInv
<1>1. Init => OneRunPerGoods
  BY DEF Init, IdleRun, OneRunPerGoods, Busy
<1> QED
  BY <1>1, InitTypeOK, InitPlansInv, InitGate DEF IInv

LEMMA StepIInv == IInv /\ [Next]_vars => IInv'
BY StepType, StepPlansInv, StepGate, StepOneRunPerGoods DEF IInv

\* The inductive invariant holds throughout.
THEOREM Inductive == Spec => []IInv
BY InitIInv, StepIInv, PTL DEF Spec

\* A plan buys at most once, across retries, cancels, failed saves and crashes.
THEOREM BuysAtMostOnce == Spec => []AtMostOnce
<1>1. IInv => AtMostOnce
  <2> SUFFICES ASSUME IInv, NEW p \in Plans PROVE market[p].bought <= 1
    BY DEF AtMostOnce
  <2>1. market[p].bought = 0 \/ market[p].bought = 1
    BY DEF IInv, PlansInv, PlanInv, RequestFollowsRecord
  <2> QED
    BY <2>1
<1> QED
  BY <1>1, Inductive, PTL

\* A request that bought, or may still buy, is never filed as "nothing bought".
THEOREM PurchasesShow == Spec => []NoHiddenPurchase
<1>1. IInv => NoHiddenPurchase
  <2> SUFFICES ASSUME IInv, NEW p \in Plans, Exposed(p)
               PROVE  plan[p].state \in {"running", "success", "unknown", "deleted"}
    BY DEF NoHiddenPurchase
  <2>1. plan[p].state \notin {"absent", "pending", "failed", "cancelled", "missed"}
    BY DEF IInv, PlansInv, PlanInv, RequestFollowsRecord, Exposed
  <2>2. plan[p].state \in PlanStates
    BY DEF IInv, TypeOK, PlanRecord
  <2> QED
    BY <2>1, <2>2 DEF PlanStates, Final
<1> QED
  BY <1>1, Inductive, PTL

\* The attempt number on disk never understates the requests sent.
THEOREM AttemptsAreRecorded == Spec => []AttemptsRecorded
<1>1. IInv => AttemptsRecorded
  BY DEF IInv, AttemptsRecorded, PlansInv, PlanInv, AttemptBeforeRequest
<1> QED
  BY <1>1, Inductive, PTL

\* The gate serialises the requests of one account.
THEOREM RequestsAreSerial == Spec => []OneRequestPerAccount
<1>1. IInv => OneRequestPerAccount
  BY DEF IInv, OneRequestPerAccount, GateHeldByRequester, AtStep
<1> QED
  BY <1>1, Inductive, PTL

\* Two executions never pursue the same goods for the same account.
THEOREM RunsAreDistinct == Spec => []OneRunPerGoods
BY Inductive, PTL DEF IInv

\* What a goroutine writes about its plan is never refused.
THEOREM WritesAreAccepted == Spec => []ExecutionOwnsPlan
<1>1. IInv => ExecutionOwnsPlan
  <2> SUFFICES ASSUME IInv, NEW p \in Plans, Busy(p)
               PROVE  /\ plan[p].state = "running"
                      /\ plan[p].key = run[p].key
                      /\ plan[p].attempt = run[p].attempt
                      /\ ResultAccepted(p, run[p].key, FinalState(p), run[p].attempt)
    BY DEF ExecutionOwnsPlan
  <2>1. OwnsRecord(p) /\ run[p].attempt \in Nat /\ run[p].outcome \in Final
    BY DEF IInv, TypeOK, RunRecord, PlansInv, PlanInv
  <2>2. FinalState(p) = "pending" => run[p].attempt = 0 /\ run[p].scheduled
    BY <2>1 DEF FinalState, Final
  <2> QED
    BY <2>1, <2>2 DEF OwnsRecord, ResultAccepted
<1> QED
  BY <1>1, Inductive, PTL

\* What one step makes of one plan's record, seen from outside: nothing, an edit or
\* a change of state.
LEMMA RecordSteps ==
    ASSUME IInv, [Next]_vars, NEW q \in Plans
    PROVE  /\ plan[q].state \in Final => plan'[q].state \in {plan[q].state, "deleted"}
           /\ \/ plan[q].state = "absent"
              \/ plan'[q].auto = plan[q].auto /\ plan'[q].enabled = plan[q].enabled
              \/ ~Busy(q) /\ draft[q] = plan[q].rev
<1> USE DEF IInv, TypeOK, PlanRecord
<1>1. CASE plan'[q] = plan[q]
  BY <1>1
<1>2. ASSUME NEW p \in Plans, Handler(p) \/ Dispatch(p), plan'[q] # plan[q]
      PROVE  p = q
  BY <1>2, Elsewhere
<1>3. CASE Handler(q) \/ Dispatch(q)
  <2>1. CASE CreatePlan(q)
    BY <2>1, Strings DEF CreatePlan, Final
  <2>2. CASE UpdatePlan(q)
    <3>1. plan'[q] # plan[q] => EditAccepted(q)
      BY <2>2 DEF UpdatePlan, storeVars
    <3>2. EditAccepted(q) => plan[q].state = "pending" /\ ~Busy(q) /\ draft[q] = plan[q].rev
      BY DEF EditAccepted, PlansInv, PlanInv, OwnsRecord
    <3> QED
      BY <1>1, <3>1, <3>2 DEF Final
  <2>3. CASE DeletePlan(q)
    BY <2>3 DEF DeletePlan, Save
  <2>4. ASSUME NEW scheduled \in BOOLEAN, Claim(q, scheduled)
        PROVE  /\ plan[q].state \notin Final
               /\ plan'[q].auto = plan[q].auto
               /\ plan'[q].enabled = plan[q].enabled
    <3>1. plan[q].state = "pending"
      BY <2>4 DEF Claim, Claimable
    <3>2. \E r \in {plan[q].rev + 1} :
             \/ plan' = plan
             \/ plan' = [plan EXCEPT ![q] = [plan[q] EXCEPT !.state = "running",
                            !.phase = "preparing", !.attempt = 0, !.key = r, !.rev = r]]
      BY <2>4 DEF Claim, Save
    <3> QED
      BY <3>1, <3>2 DEF Final
  <2>5. CASE ClaimMissed(q)
    BY <2>5 DEF ClaimMissed, Claimable, Save, Final
  <2> QED
    BY <1>3, <2>1, <2>2, <2>3, <2>4, <2>5 DEF Handler, Dispatch, ReadPlan, CancelRun
<1>4. ASSUME NEW p \in Plans, Execute(p), plan'[q] # plan[q]
      PROVE  /\ plan[q].state \notin Final
             /\ plan'[q].auto = plan[q].auto
             /\ plan'[q].enabled = plan[q].enabled
  <2>1. p = q
    BY <1>4, Elsewhere
  <2>2. SavePhase(q) \/ RecordAttempt(q) \/ RecordRejection(q) \/ Finish(q)
    BY <1>4, <2>1 DEF Execute, PrepareOk, PrepareFails, SaveDevice, WaitForSale, LoopTop,
       AcquireGate, LeaveQueue, CheckUnderGate, SendRequest, ReplySuccess, ReplyRejected,
       ReplyLost, RetryDelay
  <2>3. plan[q].state = "running"
    BY <2>2 DEF SavePhase, RecordAttempt, RecordRejection, Finish, AtStep, PlansInv, PlanInv,
       OwnsRecord, Busy
  <2>4. \/ plan' = [plan EXCEPT ![q].phase = "waiting"]
        \/ \E s \in PlanStates, n \in Nat : plan' = [plan EXCEPT ![q] = Result(q, s, n)]
    <3>1. /\ FinalState(q) \in PlanStates
          /\ run[q].attempt \in Nat
          /\ run[q].attempt + 1 \in Nat
      <4>1. run[q].attempt \in Nat /\ run[q].outcome \in Final
        BY DEF RunRecord
      <4>2. FinalState(q) \in PlanStates
        BY <4>1, Strings DEF FinalState
      <4> QED
        BY <4>1, <4>2
    <3>2. CASE SavePhase(q)
      BY <1>4, <2>1, <3>2 DEF SavePhase, Save, storeVars
    <3>3. CASE RecordAttempt(q)
      <4>1. plan' = [plan EXCEPT ![q] = Result(q, "running", run[q].attempt + 1)]
        BY <1>4, <2>1, <3>3 DEF RecordAttempt, Save, storeVars
      <4> QED
        BY <3>1, <4>1, Strings
    <3>4. CASE RecordRejection(q)
      <4>1. plan' = [plan EXCEPT ![q] = Result(q, "running", run[q].attempt)]
        BY <1>4, <2>1, <3>4 DEF RecordRejection, Save, storeVars
      <4> QED
        BY <3>1, <4>1, Strings
    <3>5. CASE Finish(q)
      BY <1>4, <2>1, <3>1, <3>5, Strings DEF Finish, Save, storeVars
    <3> QED
      BY <2>2, <3>2, <3>3, <3>4, <3>5
  <2> QED
    BY ZenonT(60), <2>3, <2>4 DEF Result, Final
<1>5. CASE Start
  BY <1>5 DEF Start, Recovered, Final
<1> QED
  BY <1>1, <1>2, <1>3, <1>4, <1>5 DEF Next, RunTimeout, ShopDecides, ChangeAccess, Stop, Exit,
     Crash, vars

\* An edit lands only on the revision its author read, and on no executing plan.
THEOREM EditsStayCurrent == Spec => EditsAreCurrent
<1>1. IInv /\ [Next]_vars =>
          [\A p \in Plans :
              /\ plan[p].state # "absent"
              /\ <<plan[p].auto, plan[p].enabled>> # <<plan'[p].auto, plan'[p].enabled>>
              => ~Busy(p) /\ draft[p] = plan[p].rev]_vars
  BY RecordSteps
<1> QED
  BY <1>1, Inductive, PTL DEF Spec, EditsAreCurrent

-------------------------------------------------------------------------------
(* The refinement: every step is a step of the abstract order or none.       *)

OrderVars == <<[p \in Plans |-> plan[p].state], {p \in Plans : Exposed(p)},
               {p \in Plans : market[p].bought > 0}>>

\* A step that leaves every state and the market alone is none of the order's.
LEMMA Stutters ==
    ASSUME \A q \in Plans : plan'[q].state = plan[q].state, market' = market
    PROVE  UNCHANGED OrderVars
BY DEF OrderVars, Exposed

\* A step that only changes one plan's state is a Move of the order.
LEMMA Moves ==
    ASSUME NEW p \in Plans, market' = market,
           \A q \in Plans : q # p => plan'[q].state = plan[q].state
    PROVE  Order!Move(p, {plan[p].state}, plan'[p].state)
BY DEF Order!Move, Exposed

LEMMA MoveFrom ==
    ASSUME NEW p \in Plans, NEW from, NEW to, plan[p].state \in from, plan'[p].state = to,
           Order!Move(p, {plan[p].state}, plan'[p].state)
    PROVE  Order!Move(p, from, to)
BY DEF Order!Move

LEMMA InitOrder == Init => Order!OrderInit
<1> SUFFICES ASSUME Init PROVE Order!OrderInit
  OBVIOUS
<1>1. \A p \in Plans : plan[p].state = "absent"
  BY DEF Init, NewPlan
<1>2. \A p \in Plans : market[p].request = "none" /\ market[p].bought = 0
  BY DEF Init
<1> QED
  BY <1>1, <1>2 DEF Order!OrderInit, Exposed

\* The moves of one plan's state that its owner can see.
LEMMA VisibleMoves ==
    ASSUME IInv, NEW p \in Plans, market' = market,
           \A q \in Plans : q # p => plan'[q].state = plan[q].state,
           \/ plan[p].state = "absent" /\ plan'[p].state = "pending"
           \/ plan[p].state = "pending" /\ plan'[p].state \in {"running", "missed"}
           \/ plan[p].state \in Final \union {"pending"} /\ plan'[p].state = "deleted"
           \/ /\ plan[p].state = "running"
              /\ \/ plan'[p].state = "unknown"
                 \/ plan'[p].state = "success" /\ market[p].request = "committed"
                 \/ /\ plan'[p].state \in {"pending", "failed", "cancelled", "missed"}
                    /\ market[p].request = "none"
    PROVE  Order!OrderNext
<1>1. Order!Move(p, {plan[p].state}, plan'[p].state)
  BY Moves
<1>2. market[p].request = "none" => ~Exposed(p) /\ ~(market[p].bought > 0)
  BY DEF IInv, PlansInv, PlanInv, RequestFollowsRecord, Exposed
<1>3. market[p].request = "committed" => market[p].bought > 0
  BY DEF IInv, PlansInv, PlanInv, RequestFollowsRecord
<1>4. plan[p].state = "pending" => market[p].request = "none"
  BY DEF IInv, PlansInv, PlanInv, RequestFollowsRecord
<1>5. CASE plan[p].state = "absent"
  <2>1. Order!Place(p)
    BY <1>1, <1>5, MoveFrom DEF Order!Place, Final
  <2> QED
    BY <2>1 DEF Order!OrderNext
<1>6. CASE plan[p].state = "pending" /\ plan'[p].state = "running"
  <2>1. Order!Begin(p)
    BY <1>1, <1>6, MoveFrom DEF Order!Begin
  <2> QED
    BY <2>1 DEF Order!OrderNext
<1>7. CASE plan'[p].state = "deleted"
  <2>1. Order!Delete(p)
    BY <1>1, <1>7, MoveFrom DEF Order!Delete, Order!Closed, Final
  <2> QED
    BY <2>1 DEF Order!OrderNext
<1>8. CASE plan[p].state = "running" /\ plan'[p].state = "pending"
  <2>1. Order!Resume(p)
    <3>1. Order!Move(p, {"running"}, "pending")
      BY <1>1, <1>8, MoveFrom
    <3>2. market[p].request = "none"
      BY <1>8 DEF Final
    <3> QED
      BY <1>2, <3>1, <3>2 DEF Order!Resume
  <2> QED
    BY <2>1 DEF Order!OrderNext
<1>9. CASE plan[p].state = "running" /\ plan'[p].state = "unknown"
  <2>1. Order!ReportUnknown(p)
    BY <1>1, <1>9, MoveFrom DEF Order!ReportUnknown
  <2> QED
    BY <2>1 DEF Order!OrderNext
<1>10. CASE plan[p].state = "running" /\ plan'[p].state = "success"
  <2>1. Order!ReportSuccess(p)
    <3>1. Order!Move(p, {"running"}, "success")
      BY <1>1, <1>10, MoveFrom
    <3>2. market[p].request = "committed"
      BY <1>10 DEF Final
    <3> QED
      BY <1>3, <3>1, <3>2 DEF Order!ReportSuccess
  <2> QED
    BY <2>1 DEF Order!OrderNext
<1>11. CASE /\ plan[p].state \in {"pending", "running"}
            /\ plan'[p].state \in {"failed", "cancelled", "missed"}
  <2>1. market[p].request = "none"
    BY <1>4, <1>11
  <2>2. PICK verdict \in {"failed", "cancelled", "missed"} : plan'[p].state = verdict
    BY <1>11
  <2>3. Order!Move(p, {"pending", "running"}, verdict)
    BY <1>1, <1>11, <2>2, MoveFrom
  <2>4. Order!ReportClosed(p, verdict)
    BY <1>2, <2>1, <2>3 DEF Order!ReportClosed
  <2> QED
    BY <2>4 DEF Order!OrderNext, Order!Closed
<1> QED
  BY <1>5, <1>6, <1>7, <1>8, <1>9, <1>10, <1>11 DEF Final

LEMMA HandlerOrder ==
    ASSUME IInv, NEW p \in Plans, Handler(p) \/ Dispatch(p)
    PROVE  Order!OrderNext \/ UNCHANGED OrderVars
<1>1. market' = market /\ \A q \in Plans : q # p => plan'[q].state = plan[q].state
  <2>1. market' = market
    BY DEF Handler, Dispatch, CreatePlan, ReadPlan, UpdatePlan, DeletePlan, CancelRun, Claim,
       ClaimMissed
  <2> QED
    BY <2>1, Elsewhere DEF IInv
<1>2. CASE plan'[p].state = plan[p].state
  BY <1>1, <1>2, Stutters
<1>3. CASE plan'[p].state # plan[p].state
  <2> USE DEF IInv, TypeOK, PlanRecord
  <2>1. CASE CreatePlan(p)
    <3>1. plan[p].state = "absent" /\ plan'[p].state = "pending"
      BY <1>3, <2>1 DEF CreatePlan, Save
    <3> QED
      BY <1>1, <3>1, VisibleMoves
  <2>2. ASSUME NEW scheduled \in BOOLEAN, Claim(p, scheduled)
        PROVE  plan[p].state = "pending" /\ plan'[p].state = "running"
    BY <1>3, <2>2 DEF Claim, Claimable, Save
  <2>3. CASE ClaimMissed(p)
    <3>1. plan[p].state = "pending" /\ plan'[p].state = "missed"
      BY <1>3, <2>3 DEF ClaimMissed, Claimable, Save
    <3> QED
      BY <1>1, <3>1, VisibleMoves
  <2>4. CASE DeletePlan(p)
    <3>1. plan[p].state \in Final \union {"pending"} /\ plan'[p].state = "deleted"
      BY <1>3, <2>4 DEF DeletePlan, Save, PlanStates
    <3> QED
      BY <1>1, <3>1, VisibleMoves
  <2>5. CASE UpdatePlan(p)
    BY <1>3, <2>5 DEF UpdatePlan, Save, storeVars
  <2> QED
    BY <1>1, <1>3, <2>1, <2>2, <2>3, <2>4, <2>5, VisibleMoves
       DEF Handler, Dispatch, ReadPlan, CancelRun
<1> QED
  BY <1>2, <1>3

LEMMA SendOrder ==
    ASSUME IInv, NEW p \in Plans, SendRequest(p)
    PROVE  Order!OrderNext \/ UNCHANGED OrderVars
<1>1. plan' = plan
  BY DEF SendRequest
<1>2. CASE market' = market
  BY <1>1, <1>2, Stutters
<1>3. CASE market' = [market EXCEPT ![p].request = "open", ![p].sends = @ + 1]
  <2>1. plan[p].state = "running" /\ market[p].request = "none"
    BY DEF SendRequest, AtStep, IInv, PlansInv, PlanInv, OwnsRecord, RequestFollowsRecord,
       Busy
  <2>2. /\ market'[p].request = "open"
        /\ market'[p].bought = market[p].bought
        /\ \A q \in Plans : q # p => market'[q] = market[q]
    BY <1>3 DEF IInv, TypeOK, MarketRecord
  <2>3. {q \in Plans : Exposed(q)}' = {q \in Plans : Exposed(q)} \union {p}
    BY <2>2 DEF Exposed
  <2>4. {q \in Plans : market'[q].bought > 0} = {q \in Plans : market[q].bought > 0}
    BY <2>2
  <2>5. Order!Expose(p)
    BY <1>1, <2>1, <2>3, <2>4 DEF Order!Expose, Exposed
  <2> QED
    BY <2>5 DEF Order!OrderNext
<1> QED
  BY <1>2, <1>3 DEF SendRequest

LEMMA RejectedOrder ==
    ASSUME IInv, NEW p \in Plans, ReplyRejected(p)
    PROVE  UNCHANGED OrderVars
<1>1. plan' = plan /\ market[p].request = "rejected"
  BY DEF ReplyRejected
<1>2. /\ market'[p].request = "none"
      /\ market'[p].bought = market[p].bought
      /\ \A q \in Plans : q # p => market'[q] = market[q]
  BY DEF ReplyRejected, IInv, TypeOK, MarketRecord
<1>3. {q \in Plans : Exposed(q)}' = {q \in Plans : Exposed(q)}
  BY <1>1, <1>2 DEF Exposed
<1>4. {q \in Plans : market'[q].bought > 0} = {q \in Plans : market[q].bought > 0}
  BY <1>2
<1> QED
  BY <1>1, <1>3, <1>4 DEF OrderVars

LEMMA ShopOrder ==
    ASSUME IInv, NEW p \in Plans, ShopDecides(p)
    PROVE  Order!OrderNext
<1>1. plan' = plan /\ market[p].request = "open"
  BY DEF ShopDecides
<1>2. market[p].bought = 0
  BY <1>1 DEF IInv, PlansInv, PlanInv, RequestFollowsRecord
<1>3. /\ Exposed(p)
      /\ ~(market[p].bought > 0)
  BY <1>1, <1>2 DEF Exposed
<1>4. CASE market' = [market EXCEPT ![p].request = "committed", ![p].bought = @ + 1]
  <2>1. /\ market'[p].request = "committed"
        /\ market'[p].bought = 1
        /\ \A q \in Plans : q # p => market'[q] = market[q]
    BY <1>2, <1>4 DEF IInv, TypeOK, MarketRecord
  <2>2. {q \in Plans : Exposed(q)}' = {q \in Plans : Exposed(q)}
    BY <1>3, <2>1 DEF Exposed
  <2>3. {q \in Plans : market'[q].bought > 0} = {q \in Plans : market[q].bought > 0} \union {p}
    BY <2>1
  <2>4. Order!Buy(p)
    BY <1>1, <1>3, <2>2, <2>3 DEF Order!Buy
  <2> QED
    BY <2>4 DEF Order!OrderNext
<1>5. CASE market' = [market EXCEPT ![p].request = "rejected"]
  <2>1. /\ market'[p].request = "rejected"
        /\ market'[p].bought = market[p].bought
        /\ \A q \in Plans : q # p => market'[q] = market[q]
    BY <1>5 DEF IInv, TypeOK, MarketRecord
  <2>2. {q \in Plans : Exposed(q)}' = {q \in Plans : Exposed(q)} \ {p}
    BY <2>1 DEF Exposed
  <2>3. {q \in Plans : market'[q].bought > 0} = {q \in Plans : market[q].bought > 0}
    BY <2>1
  <2>4. Order!Refuse(p)
    BY <1>1, <1>3, <2>2, <2>3 DEF Order!Refuse
  <2> QED
    BY <2>4 DEF Order!OrderNext
<1> QED
  BY <1>4, <1>5 DEF ShopDecides

LEMMA FinishOrder ==
    ASSUME IInv, NEW p \in Plans, Finish(p)
    PROVE  Order!OrderNext \/ UNCHANGED OrderVars
<1>1. market' = market
  BY DEF Finish
<1>2. \A q \in Plans : q # p => plan'[q].state = plan[q].state
  BY Elsewhere DEF Execute, IInv
<1>3. CASE plan' = plan
  BY <1>1, <1>3, Stutters
<1>4. CASE plan' # plan
  <2>1. /\ plan' = [plan EXCEPT ![p] = Result(p, FinalState(p), run[p].attempt)]
        /\ ResultAccepted(p, run[p].key, FinalState(p), run[p].attempt)
    BY <1>4 DEF Finish, Save, storeVars
  <2>2. plan[p].state = "running" /\ plan'[p].state = FinalState(p)
    BY <2>1 DEF Result, ResultAccepted, IInv, TypeOK, PlanRecord
  <2>3. run[p].outcome \in Final /\ run[p].pc = "finish"
    BY DEF Finish, AtStep, IInv, TypeOK, RunRecord
  <2>4. RequestFollowsRecord(p) /\ AttemptBeforeRequest(p) /\ market[p].sends \in Nat
    BY DEF IInv, PlansInv, PlanInv, TypeOK, MarketRecord
  <2>5. CASE FinalState(p) = "pending"
    <3>1. plan[p].attempt = 0
      BY <2>1, <2>5 DEF ResultAccepted
    <3>2. market[p].request = "none"
      BY <2>4, <3>1 DEF RequestFollowsRecord, AttemptBeforeRequest
    <3> QED
      BY <1>1, <1>2, <2>2, <2>5, <3>2, VisibleMoves
  <2>6. CASE FinalState(p) = run[p].outcome
    <3>1. \/ run[p].outcome = "unknown"
          \/ run[p].outcome = "success" /\ market[p].request = "committed"
          \/ /\ run[p].outcome \in {"failed", "cancelled", "missed"}
             /\ market[p].request = "none"
      BY <2>3, <2>4 DEF Final, RequestFollowsRecord
    <3> QED
      BY <1>1, <1>2, <2>2, <2>6, <3>1, VisibleMoves
  <2> QED
    BY <2>5, <2>6 DEF FinalState
<1> QED
  BY <1>3, <1>4

LEMMA ExecuteOrder ==
    ASSUME IInv, NEW p \in Plans, Execute(p)
    PROVE  Order!OrderNext \/ UNCHANGED OrderVars
<1>1. ASSUME plan' = plan, market' = market
      PROVE  UNCHANGED OrderVars
  BY <1>1, Stutters
<1>2. CASE SavePhase(p) \/ RecordAttempt(p) \/ RecordRejection(p)
  <2>1. market' = market
    BY <1>2 DEF SavePhase, RecordAttempt, RecordRejection
  <2>2. plan[p].state = "running"
    BY <1>2 DEF SavePhase, RecordAttempt, RecordRejection, AtStep, IInv, PlansInv, PlanInv,
       OwnsRecord, Busy
  <2>3. plan'[p].state = "running"
    <3>1. \/ plan' = plan
          \/ plan' = [plan EXCEPT ![p].phase = "waiting"]
          \/ plan' = [plan EXCEPT ![p] = Result(p, "running", run[p].attempt + 1)]
          \/ plan' = [plan EXCEPT ![p] = Result(p, "running", run[p].attempt)]
      BY <1>2 DEF SavePhase, RecordAttempt, RecordRejection, Save, storeVars
    <3> QED
      BY <2>2, <3>1 DEF Result, IInv, TypeOK, PlanRecord
  <2>4. \A q \in Plans : q # p => plan'[q].state = plan[q].state
    BY Elsewhere DEF IInv
  <2> QED
    BY <2>1, <2>2, <2>3, <2>4, Stutters
<1> QED
  BY <1>1, <1>2, SendOrder, RejectedOrder, FinishOrder DEF Execute, PrepareOk, PrepareFails,
     SaveDevice, WaitForSale, LoopTop, AcquireGate, LeaveQueue, CheckUnderGate, ReplySuccess,
     ReplyLost, RetryDelay

LEMMA StartOrder ==
    ASSUME IInv, Start
    PROVE  Order!OrderNext
<1>1. market' = market /\ \A p \in Plans : plan'[p] = Recovered(plan[p])
  BY DEF Start
<1>2. ASSUME NEW p \in Plans
      PROVE  /\ plan'[p].state \in PlanStates
             /\ \/ plan'[p].state = plan[p].state
                \/ plan[p].state = "running" /\ plan'[p].state = "unknown"
                \/ /\ plan[p].state = "running"
                   /\ plan'[p].state = "pending"
                   /\ ~Exposed(p) /\ ~(market[p].bought > 0)
  <2>1. plan[p].attempt = 0 => market[p].request = "none" /\ market[p].bought = 0
    BY DEF IInv, PlansInv, PlanInv, AttemptBeforeRequest, RequestFollowsRecord, TypeOK,
       MarketRecord
  <2>2. plan[p] \in PlanRecord
    BY DEF IInv, TypeOK
  <2>3. plan'[p].state = Recovered(plan[p]).state
    BY <1>1
  <2>4. \/ plan'[p].state = plan[p].state
        \/ plan[p].state = "running" /\ plan'[p].state = "unknown"
        \/ /\ plan[p].state = "running"
           /\ plan'[p].state = "pending"
           /\ plan[p].attempt = 0
    BY <2>2, <2>3 DEF Recovered, PlanRecord
  <2>5. plan'[p].state \in PlanStates
    BY <2>2, <2>4, Strings DEF PlanRecord
  <2>6. plan[p].attempt = 0 => ~Exposed(p) /\ ~(market[p].bought > 0)
    BY <2>1 DEF Exposed
  <2> QED
    BY <2>4, <2>5, <2>6
<1>3. Order!Settle
  BY <1>1, <1>2 DEF Order!Settle, PlanStates, Final, Exposed
<1> QED
  BY <1>3 DEF Order!OrderNext

LEMMA StepOrder == IInv /\ [Next]_vars => Order!OrderNext \/ UNCHANGED OrderVars
<1> SUFFICES ASSUME IInv, [Next]_vars
             PROVE  Order!OrderNext \/ UNCHANGED OrderVars
  OBVIOUS
<1>1. CASE plan' = plan /\ market' = market
  BY <1>1, Stutters
<1> QED
  BY <1>1, HandlerOrder, ExecuteOrder, ShopOrder, StartOrder DEF Next, RunTimeout,
     ChangeAccess, Stop, Exit, Crash, vars

\* Retries, gates, failed saves, stops and crashes are invisible to the plan's owner.
THEOREM Refinement == Spec => ImplementsOrder
<1>1. IInv /\ [Next]_vars => [Order!OrderNext]_(Order!orderVars)
  BY StepOrder DEF OrderVars, Order!orderVars
<1> QED
  BY <1>1, InitOrder, Inductive, PTL DEF Spec, ImplementsOrder, Order!OrderSpec

===============================================================================
