------------------------ MODULE AutomaticRuns_proofs ------------------------
(***************************************************************************)
(* Proofs about AutomaticRuns, for any accounts, zones, schedules, times   *)
(* and bounds.                                                             *)
(*                                                                         *)
(* At most one run a day rests on three facts: who claims holds Runner.mu  *)
(* (Exclusive), so the time it read is not behind the account's mark       *)
(* (ClaimsAreFresh), and the mark is the latest of the claims granted for  *)
(* the binding (MarkIsLatest). Dates never go back, so a claim refused for *)
(* the latest one's date cannot be granted for an earlier one's.           *)
(*                                                                         *)
(* That own times are served follows the accounts nothing disturbed from   *)
(* the beginning of a minute to its end (CalmInv).                         *)
(***************************************************************************)
EXTENDS AutomaticRuns, SequenceTheorems, TLAPS

Claims(c) == job[c].pc \in {"look", "claim"}

Exclusive == \A c \in Callers : Claims(c) => mu = c

ClaimsAreFresh ==
    \A c \in Callers : job[c].pc = "claim" =>
        /\ job[c].cur \in Accounts
        /\ job[c].at \in 1 .. now
        /\ account[job[c].cur].last <= job[c].at

MarkIsLatest ==
    \A a \in Accounts :
        /\ account[a].last <= now
        /\ \A i \in 1 .. Len(grants[a]) :
              /\ grants[a][i].at \in 1 .. now
              /\ grants[a][i].binding <= account[a].binding
              /\ grants[a][i].binding = account[a].binding =>
                    grants[a][i].at <= account[a].last

StoppedIsQuiet == RunnerStopped => \A c \in Callers : ~Claims(c)

\* A request that reloads has a schedule to reload.
PutReads == \A h \in Puts : put[h].pc = "read" => put[h].schedule \in SiteSchedules

WillSee ==
    loop.pc \in {"plan", "sleep", "wait"} /\ loop.schedule # sched.schedule
        => sched.wake \/ \E h \in Puts : put[h].pc = "signal"

IInv == TypeOK /\ Exclusive /\ ClaimsAreFresh /\ MarkIsLatest /\ StoppedIsQuiet
        /\ PutReads /\ WillSee

-----------------------------------------------------------------------------
(* Types. *)

LEMMA Bounds ==
  /\ MaxTime \in Nat \ {0} /\ 1 \in Times /\ Beyond \in Nat
  /\ "site" \in Callers /\ "personal" \in Callers
BY AutomaticAssumption DEF Times, Beyond, Callers

LEMMA PlansAreTimes ==
  ASSUME NEW s \in SiteSchedules, NEW t \in Times
  PROVE  NextScheduledRuns(s, t) \subseteq Nat
<1>1. s.jitter \in Nat
  BY AutomaticAssumption
<1>2. NextTimes(s, t) \subseteq Nat
  BY Bounds DEF NextTimes, Times
<1> QED
  BY <1>1, <1>2 DEF NextScheduledRuns

LEMMA CalledIsJob ==
  ASSUME NEW todo \in SUBSET Accounts
  PROVE  Called(todo) \in JobRecord /\ Called(todo).pc = "enter"
BY DEF Called, NoJob, JobRecord

LEMMA NoJobIsJob == NoJob \in JobRecord /\ NoJob.pc = "idle"
BY DEF NoJob, JobRecord

LEMMA FreshJobs ==
  NewJobs \in [Callers -> JobRecord] /\ \A c \in Callers : NewJobs[c].pc = "idle"
BY NoJobIsJob DEF NewJobs

\* Records stay records when a field is set.
LEMMA JobMoves ==
  ASSUME NEW r \in JobRecord, NEW pc \in {"idle", "enter", "look", "claim"},
         NEW todo \in SUBSET Accounts
  PROVE  [r EXCEPT !.pc = pc] \in JobRecord /\ [r EXCEPT !.todo = todo] \in JobRecord
BY DEF JobRecord

LEMMA LoopMoves ==
  ASSUME NEW r \in LoopRecord, NEW next \in Nat,
         NEW pc \in {"start", "read", "sleep", "plan", "wait", "batch", "ended"}
  PROVE  /\ [r EXCEPT !.pc = pc] \in LoopRecord
         /\ [r EXCEPT !.pc = pc, !.next = next] \in LoopRecord
BY DEF LoopRecord

LEMMA SchedMoves ==
  ASSUME NEW r \in [schedule : SiteSchedules, next : Nat, wake : BOOLEAN], NEW next \in Nat,
         NEW wake \in BOOLEAN
  PROVE  /\ [r EXCEPT !.next = next] \in [schedule : SiteSchedules, next : Nat, wake : BOOLEAN]
         /\ [r EXCEPT !.wake = wake] \in [schedule : SiteSchedules, next : Nat, wake : BOOLEAN]
OBVIOUS

LEMMA TickMoves ==
  ASSUME NEW r \in TickRecord, NEW pc \in {"idle", "scan", "call", "ended"},
         NEW todo \in SUBSET Accounts, NEW due \in SUBSET Accounts
  PROVE  /\ [r EXCEPT !.pc = pc] \in TickRecord
         /\ [r EXCEPT !.todo = todo] \in TickRecord
         /\ [r EXCEPT !.todo = todo, !.due = due] \in TickRecord
         /\ [r EXCEPT !.pc = pc, !.todo = todo, !.due = due] \in TickRecord
BY DEF TickRecord

LEMMA AccountMoves ==
  ASSUME NEW r \in AccountRecord, NEW own \in OwnTimes \union {Nothing},
         NEW automatic \in BOOLEAN, NEW n \in Nat
  PROVE  /\ [r EXCEPT !.own = own, !.automatic = automatic, !.rev = n] \in AccountRecord
         /\ [r EXCEPT !.last = 0, !.binding = n] \in AccountRecord
BY DEF AccountRecord

LEMMA FreshTypes ==
  /\ NoRuns \in [Accounts -> Callers \union {"user", Nothing}]
  /\ NoPuts \in [Puts -> [pc : {"idle", "saved", "read", "signal"},
                          schedule : SiteSchedules \union {Nothing}]]
  /\ FreshTick \in TickRecord
BY DEF NoRuns, NoPuts, FreshTick, TickRecord

LEMMA FreshLoop ==
  ASSUME site.schedule \in SiteSchedules
  PROVE  /\ NewLoop \in LoopRecord /\ NewLoop.pc = "start"
         /\ NewSched \in [schedule : SiteSchedules, next : Nat, wake : BOOLEAN]
BY DEF NewLoop, NewSched, LoopRecord

LEMMA TypeInit == Init => TypeOK
<1> SUFFICES ASSUME Init PROVE TypeOK
  OBVIOUS
<1>1. site \in [enabled : BOOLEAN, schedule : SiteSchedules]
  BY DEF Init
<1>2. account \in [Accounts -> AccountRecord]
  <2>1. PICK own \in [Accounts -> OwnTimes \union {Nothing}] :
          account = [a \in Accounts |-> [open |-> TRUE, automatic |-> TRUE, own |-> own[a],
                                         rev |-> 1, last |-> 0, binding |-> 0]]
    BY DEF Init
  <2> QED
    BY <2>1 DEF AccountRecord
<1>3. loop \in LoopRecord /\ sched \in [schedule : SiteSchedules, next : Nat, wake : BOOLEAN]
  <2>1. site.schedule \in SiteSchedules
    BY <1>1
  <2>2. loop = NewLoop /\ sched = NewSched
    BY DEF Init
  <2> QED
    BY <2>1, <2>2, FreshLoop
<1>4. /\ tick \in TickRecord /\ job \in [Callers -> JobRecord]
      /\ reserved \in [Accounts -> Callers \union {"user", Nothing}]
      /\ put \in [Puts -> [pc : {"idle", "saved", "read", "signal"},
                           schedule : SiteSchedules \union {Nothing}]]
      /\ mu \in Callers \union {Nothing}
  BY FreshTypes, FreshJobs DEF Init
<1>5. grants \in [Accounts -> Seq([at : Nat, binding : Nat])]
  BY DEF Init
<1>6. /\ now \in Times /\ process \in {"up", "ticker", "runner", "loop", "down"}
      /\ {edits, failedSaves, restarts} \subseteq Nat /\ calm \subseteq Accounts
  BY Bounds DEF Init
<1> QED
  BY <1>1, <1>2, <1>3, <1>4, <1>5, <1>6 DEF TypeOK

\* The types of what a claim or an edit changes, and of the rest.
StoreTypes ==
    /\ site \in [enabled : BOOLEAN, schedule : SiteSchedules]
    /\ account \in [Accounts -> AccountRecord]
    /\ grants \in [Accounts -> Seq([at : Nat, binding : Nat])]
    /\ edits \in Nat /\ failedSaves \in Nat /\ calm \subseteq Accounts
LoopTypes ==
    /\ sched \in [schedule : SiteSchedules, next : Nat, wake : BOOLEAN]
    /\ loop \in LoopRecord
CallTypes ==
    /\ tick \in TickRecord
    /\ job \in [Callers -> JobRecord]
    /\ mu \in Callers \union {Nothing}
    /\ reserved \in [Accounts -> Callers \union {"user", Nothing}]
ProcessTypes ==
    /\ now \in Times
    /\ put \in [Puts -> [pc : {"idle", "saved", "read", "signal"},
                         schedule : SiteSchedules \union {Nothing}]]
    /\ process \in {"up", "ticker", "runner", "loop", "down"}
    /\ restarts \in Nat

LEMMA TypeParts == TypeOK <=> StoreTypes /\ LoopTypes /\ CallTypes /\ ProcessTypes
BY DEF TypeOK, StoreTypes, LoopTypes, CallTypes, ProcessTypes

LEMMA TypeJob ==
  ASSUME TypeOK, NEW c \in Callers, job[c].pc = "claim" => job[c].cur \in Accounts, Job(c)
  PROVE  TypeOK'
<1>1. StoreTypes /\ LoopTypes /\ CallTypes /\ ProcessTypes
  BY TypeParts
<1>2. LoopTypes' /\ ProcessTypes' /\ tick' \in TickRecord
  BY <1>1 DEF Job, Begin, Look, Claim, ClaimRefused, Reserve, store, LoopTypes, CallTypes, ProcessTypes
<1>3. job[c] \in JobRecord /\ job \in [Callers -> JobRecord]
  BY <1>1 DEF CallTypes
<1>4. ASSUME Begin(c) PROVE StoreTypes' /\ CallTypes'
  <2>1. StoreTypes'
    BY <1>1, <1>4 DEF Begin, store, StoreTypes
  <2>2. job' \in [Callers -> JobRecord]
    <3>1. [job[c] EXCEPT !.pc = "look"] \in JobRecord
      BY <1>3, JobMoves
    <3>2. \/ job' = [job EXCEPT ![c] = NoJob]
          \/ job' = [job EXCEPT ![c] = [job[c] EXCEPT !.pc = "look"]]
      BY <1>4 DEF Begin
    <3> QED
      BY <1>3, <3>1, <3>2, NoJobIsJob
  <2> QED
    <3>1. mu' \in Callers \union {Nothing}
      <4>1. mu' = mu \/ mu' = c
        BY <1>4 DEF Begin
      <4> QED
        BY <1>1, <4>1 DEF CallTypes
    <3>2. reserved' = reserved
      BY <1>4 DEF Begin
    <3> QED
      BY <1>1, <1>2, <2>1, <2>2, <3>1, <3>2 DEF CallTypes
<1>5. ASSUME NEW a \in Accounts, Look(c, a) PROVE StoreTypes' /\ CallTypes'
  <2>1. StoreTypes'
    BY <1>1, <1>5 DEF Look, store, StoreTypes
  <2>2. now \in Nat /\ account[a].rev \in Nat
    BY <1>1 DEF ProcessTypes, StoreTypes, AccountRecord, Times
  <2>3. job' \in [Callers -> JobRecord]
    BY <1>3, <1>5, <2>2 DEF Look, JobRecord
  <2> QED
    BY <1>1, <1>2, <1>5, <2>1, <2>3 DEF Look, store, CallTypes
<1>6. ASSUME Claim(c) PROVE StoreTypes' /\ CallTypes'
  <2> DEFINE a == job[c].cur
  <2>1. job[c].at \in Nat /\ a \in Accounts
    BY <1>3, <1>6 DEF JobRecord, Claim
  <2>2. account' \in [Accounts -> AccountRecord]
    BY ZenonT(60), <1>1, <1>6, <2>1 DEF Claim, StoreTypes, AccountRecord
  <2>3. grants' \in [Accounts -> Seq([at : Nat, binding : Nat])]
    <3>1. account[a].binding \in Nat
      BY <1>1, <2>1 DEF StoreTypes, AccountRecord
    <3>2. Append(grants[a], [at |-> job[c].at, binding |-> account[a].binding])
            \in Seq([at : Nat, binding : Nat])
      BY <1>1, <2>1, <3>1 DEF StoreTypes
    <3> QED
      BY <1>1, <1>6, <3>2 DEF Claim, StoreTypes
  <2>4. job' \in [Callers -> JobRecord]
    BY <1>3, <1>6, <2>1 DEF Claim, JobRecord
  <2>5. StoreTypes'
    BY <1>1, <1>6, <2>2, <2>3 DEF Claim, StoreTypes
  <2> QED
    <3>1. reserved' = reserved /\ mu' = mu
      BY <1>6 DEF Claim
    <3> QED
      BY <1>1, <1>2, <2>4, <2>5, <3>1 DEF CallTypes
<1>7. ASSUME ClaimRefused(c) PROVE StoreTypes' /\ CallTypes'
  <2>1. StoreTypes'
    BY <1>1, <1>7 DEF ClaimRefused, StoreTypes
  <2>2. job' \in [Callers -> JobRecord]
    BY <1>3, <1>7 DEF ClaimRefused, JobRecord
  <2> QED
    BY <1>1, <1>2, <1>7, <2>1, <2>2 DEF ClaimRefused, CallTypes
<1>8. ASSUME Reserve(c) PROVE StoreTypes' /\ CallTypes'
  <2>1. StoreTypes'
    BY <1>1, <1>8 DEF Reserve, store, StoreTypes
  <2>2. job' \in [Callers -> JobRecord]
    BY <1>3, <1>8, NoJobIsJob DEF Reserve
  <2>3. reserved' \in [Accounts -> Callers \union {"user", Nothing}]
    BY <1>1, <1>8 DEF Reserve, CallTypes
  <2> QED
    BY <1>1, <1>2, <1>8, <2>1, <2>2, <2>3 DEF Reserve, CallTypes
<1>9. StoreTypes' /\ CallTypes'
  BY <1>4, <1>5, <1>6, <1>7, <1>8 DEF Job
<1> QED
  BY <1>2, <1>9 DEF TypeOK, StoreTypes, LoopTypes, CallTypes, ProcessTypes

LEMMA TypeLoop ==
  ASSUME TypeOK, Loop
  PROVE  TypeOK'
<1>1. StoreTypes /\ LoopTypes /\ CallTypes /\ ProcessTypes
  BY TypeParts
<1>2. StoreTypes' /\ ProcessTypes' /\ tick' = tick /\ mu' = mu /\ reserved' = reserved
  BY <1>1 DEF Loop, LoopStart, LoopReads, LoopPlans, LoopWakes, LoopRunEnds, BesideLoop,
              store, StoreTypes, ProcessTypes
<1>3. ASSUME RunOnce PROVE LoopTypes' /\ job' \in [Callers -> JobRecord]
  <2>1. {a \in Accounts : account[a].own = Nothing} \in SUBSET Accounts
    OBVIOUS
  <2>2. job' \in [Callers -> JobRecord]
    BY <1>1, <1>3, <2>1, CalledIsJob DEF RunOnce, CallTypes
  <2>3. loop' \in LoopRecord
    BY <1>1, <1>3, LoopMoves DEF RunOnce, LoopTypes
  <2>4. sched' \in [schedule : SiteSchedules, next : Nat, wake : BOOLEAN]
    BY <1>1, <1>3, SchedMoves DEF RunOnce, LoopTypes
  <2> QED
    BY <2>2, <2>3, <2>4 DEF LoopTypes
<1>4. ASSUME LoopStart PROVE LoopTypes' /\ job' \in [Callers -> JobRecord]
  <2>1. CASE RunOnce
    BY <1>3, <2>1
  <2>2. CASE loop' = [loop EXCEPT !.pc = "read"] /\ UNCHANGED <<sched, job>>
    BY <1>1, <2>2 DEF LoopTypes, LoopRecord, CallTypes
  <2> QED
    BY <1>4, <2>1, <2>2 DEF LoopStart
<1>5. ASSUME LoopReads PROVE LoopTypes' /\ job' \in [Callers -> JobRecord]
  <2>1. CASE RunOnce
    BY <1>3, <2>1
  <2>2. CASE ~RunOnce
    <3>1. PICK pc \in {"sleep", "plan", "wait"} :
             loop' = [pc |-> pc, schedule |-> sched.schedule,
                      next |-> IF pc = "wait" THEN sched.next ELSE 0]
      BY <1>5, <2>2 DEF LoopReads
    <3>2. sched.schedule \in SiteSchedules /\ sched.next \in Nat
      BY <1>1 DEF LoopTypes
    <3>3. loop' \in LoopRecord
      BY <3>1, <3>2 DEF LoopRecord
    <3>4. job' = job /\ (sched' = sched \/ sched' = [sched EXCEPT !.next = 0])
      BY <1>5, <2>2 DEF LoopReads
    <3>5. sched' \in [schedule : SiteSchedules, next : Nat, wake : BOOLEAN]
      BY <1>1, <3>4, SchedMoves DEF LoopTypes
    <3> QED
      BY <1>1, <3>3, <3>4, <3>5 DEF LoopTypes, CallTypes
  <2> QED
    BY <2>1, <2>2
<1>6. ASSUME LoopPlans PROVE LoopTypes' /\ job' \in [Callers -> JobRecord]
  <2>1. loop.schedule \in SiteSchedules /\ now \in Times
    BY <1>1 DEF LoopTypes, LoopRecord, ProcessTypes
  <2>2. PICK t \in NextScheduledRuns(loop.schedule, now) :
          /\ sched' = [sched EXCEPT !.next = t]
          /\ loop' = [loop EXCEPT !.pc = "wait", !.next = t]
    BY <1>6 DEF LoopPlans
  <2>3. t \in Nat
    BY <2>1, <2>2, PlansAreTimes
  <2> QED
    BY <1>1, <1>6, <2>2, <2>3 DEF LoopPlans, LoopTypes, LoopRecord, CallTypes
<1>7. ASSUME LoopWakes \/ LoopRunEnds PROVE LoopTypes' /\ job' \in [Callers -> JobRecord]
  <2>1. job' = job
    BY <1>7 DEF LoopWakes, LoopRunEnds
  <2>2. \/ \E pc \in {"ended", "read"} : loop' = [loop EXCEPT !.pc = pc]
        \/ loop' = [loop EXCEPT !.pc = "read", !.next = 0]
    BY <1>7 DEF LoopWakes, LoopRunEnds
  <2>3. loop' \in LoopRecord
    BY ZenonT(60), <1>1, <2>2, LoopMoves DEF LoopTypes
  <2>4. \/ sched' = sched \/ sched' = [sched EXCEPT !.next = 0]
        \/ sched' = [sched EXCEPT !.wake = FALSE]
    BY <1>7 DEF LoopWakes, LoopRunEnds
  <2>5. sched' \in [schedule : SiteSchedules, next : Nat, wake : BOOLEAN]
    BY <1>1, <2>4, SchedMoves DEF LoopTypes
  <2> QED
    BY <1>1, <2>1, <2>3, <2>5 DEF LoopTypes, CallTypes
<1>8. LoopTypes' /\ job' \in [Callers -> JobRecord]
  BY <1>4, <1>5, <1>6, <1>7 DEF Loop
<1>9. CallTypes'
  BY <1>1, <1>2, <1>8 DEF CallTypes
<1> QED
  BY <1>2, <1>8, <1>9 DEF TypeOK, StoreTypes, LoopTypes, CallTypes, ProcessTypes

LEMMA TypeTick ==
  ASSUME TypeOK, Tick
  PROVE  TypeOK'
<1>1. StoreTypes /\ LoopTypes /\ CallTypes /\ ProcessTypes
  BY TypeParts
<1>2. StoreTypes' /\ ProcessTypes' /\ LoopTypes' /\ mu' = mu /\ reserved' = reserved
  BY <1>1 DEF Tick, TickBegins, TickLooks, TickReturns, BesideTick,
              store, StoreTypes, ProcessTypes, LoopTypes
<1>3. tick \in TickRecord /\ now \in Nat
  BY <1>1 DEF CallTypes, ProcessTypes, Times
<1>4. ASSUME NEW due \in SUBSET Accounts, TickOver(due) PROVE tick' \in TickRecord
  BY <1>3, <1>4 DEF TickOver, TickRecord
<1>5. ASSUME TickBegins PROVE tick' \in TickRecord /\ job' = job
  BY <1>3, <1>5 DEF TickBegins, TickRecord
<1>6. ASSUME NEW a \in Accounts, TickLooks(a)
      PROVE  tick' \in TickRecord /\ job' \in [Callers -> JobRecord]
  <2>1. CASE TickOver(tick.due \union {a}) /\ UNCHANGED job
    <3>1. tick.due \union {a} \in SUBSET Accounts
      BY <1>3 DEF TickRecord
    <3> QED
      BY <1>1, <1>4, <2>1, <3>1 DEF CallTypes
  <2>2. CASE ~(TickOver(tick.due \union {a}) /\ UNCHANGED job)
    <3>1. tick' \in TickRecord
      <4>1. /\ tick.todo \ {a} \in SUBSET Accounts
            /\ tick.due \union {a} \in SUBSET Accounts
        BY <1>3 DEF TickRecord
      <4>2. \/ tick' = [tick EXCEPT !.todo = tick.todo \ {a}]
            \/ tick' = [tick EXCEPT !.todo = tick.todo \ {a}, !.due = tick.due \union {a}]
            \/ tick' = [tick EXCEPT !.pc = "call", !.todo = tick.todo \ {a},
                                    !.due = tick.due \union {a}]
        BY <1>6, <2>2 DEF TickLooks
      <4>3. [tick EXCEPT !.todo = tick.todo \ {a}] \in TickRecord
        BY <1>3, <4>1, TickMoves
      <4>4. [tick EXCEPT !.todo = tick.todo \ {a}, !.due = tick.due \union {a}] \in TickRecord
        BY <1>3, <4>1, TickMoves
      <4>5. [tick EXCEPT !.pc = "call", !.todo = tick.todo \ {a}, !.due = tick.due \union {a}]
              \in TickRecord
        BY <1>3, <4>1, TickMoves
      <4> QED
        BY <4>2, <4>3, <4>4, <4>5
    <3>2. {a} \in SUBSET Accounts /\ Called({a}) \in JobRecord
      BY CalledIsJob
    <3>3. job' \in [Callers -> JobRecord]
      BY <1>1, <1>6, <2>2, <3>2 DEF TickLooks, CallTypes
    <3> QED
      BY <3>1, <3>3
  <2> QED
    BY <2>1, <2>2
<1>7. ASSUME TickReturns PROVE tick' \in TickRecord /\ job' = job
  <2>1. tick.due \in SUBSET Accounts
    BY <1>3 DEF TickRecord
  <2> QED
    BY <1>3, <1>4, <1>7, <2>1 DEF TickReturns, TickRecord
<1>8. CallTypes'
  BY <1>1, <1>2, <1>5, <1>6, <1>7 DEF Tick, CallTypes
<1> QED
  BY <1>2, <1>8 DEF TypeOK, StoreTypes, LoopTypes, CallTypes, ProcessTypes
LEMMA TypeUser ==
  ASSUME TypeOK, NEW a \in Accounts,
         EditTasks(a) \/ SetOpen(a) \/ Rebind(a) \/ ManualRun(a) \/ RunEnds(a)
  PROVE  TypeOK'
<1>1. StoreTypes /\ LoopTypes /\ CallTypes /\ ProcessTypes
  BY TypeParts
<1>2. LoopTypes' /\ ProcessTypes' /\ tick' = tick /\ job' = job /\ mu' = mu
  BY <1>1 DEF EditTasks, SetOpen, Rebind, ManualRun, RunEnds, goroutines, LoopTypes, ProcessTypes
<1>3. account[a] \in AccountRecord /\ account \in [Accounts -> AccountRecord]
  BY <1>1 DEF StoreTypes
<1>9. account[a].rev + 1 \in Nat /\ account[a].binding + 1 \in Nat
  BY <1>3 DEF AccountRecord
<1>4. account' \in [Accounts -> AccountRecord]
  <2>1. CASE EditTasks(a)
    <3>1. PICK own \in OwnTimes \union {Nothing}, automatic \in BOOLEAN :
            account' = [account EXCEPT ![a] = [account[a] EXCEPT !.own = own,
                              !.automatic = automatic, !.rev = account[a].rev + 1]]
      BY <2>1 DEF EditTasks
    <3>2. [account[a] EXCEPT !.own = own, !.automatic = automatic, !.rev = account[a].rev + 1]
            \in AccountRecord
      BY <1>3, <1>9, AccountMoves
    <3> QED
      BY <1>3, <3>1, <3>2
  <2>2. CASE SetOpen(a)
    BY <1>3, <2>2 DEF SetOpen, AccountRecord
  <2>3. CASE Rebind(a)
    <3>1. [account[a] EXCEPT !.last = 0, !.binding = account[a].binding + 1] \in AccountRecord
      BY <1>3, <1>9, AccountMoves
    <3> QED
      BY <1>3, <2>3, <3>1 DEF Rebind
  <2>4. CASE ManualRun(a) \/ RunEnds(a)
    BY <1>3, <2>4 DEF ManualRun, RunEnds, store
  <2> QED
    BY <2>1, <2>2, <2>3, <2>4
<1>5. /\ site' = site /\ grants' = grants /\ failedSaves' = failedSaves
      /\ edits' \in {edits, edits + 1} /\ calm' \in {calm, calm \ {a}}
  BY DEF EditTasks, SetOpen, Rebind, ManualRun, RunEnds, MayEdit, store
<1>6. StoreTypes'
  BY <1>1, <1>4, <1>5 DEF StoreTypes
<1>7. reserved' \in {reserved, [reserved EXCEPT ![a] = "user"], [reserved EXCEPT ![a] = Nothing]}
  BY DEF EditTasks, SetOpen, Rebind, ManualRun, RunEnds
<1>8. CallTypes'
  BY <1>1, <1>2, <1>7 DEF CallTypes
<1> QED
  BY <1>2, <1>6, <1>8 DEF TypeOK, StoreTypes, LoopTypes, CallTypes, ProcessTypes

LEMMA TypePut ==
  ASSUME TypeOK, NEW h \in Puts, Configure(h) \/ Put(h),
         put[h].pc = "read" => put[h].schedule \in SiteSchedules
  PROVE  TypeOK'
<1> DEFINE PutRecord == [pc : {"idle", "saved", "read", "signal"},
                         schedule : SiteSchedules \union {Nothing}]
<1>1. StoreTypes /\ LoopTypes /\ CallTypes /\ ProcessTypes
  BY TypeParts
<1>2. CallTypes' /\ now' = now /\ process' = process /\ restarts' = restarts
  BY <1>1 DEF Configure, Put, ReadBack, Reload, Signal, goroutines, CallTypes
<1>3. put[h] \in PutRecord /\ put \in [Puts -> PutRecord] /\ site.schedule \in SiteSchedules
  BY <1>1 DEF ProcessTypes, StoreTypes
<1>4. StoreTypes'
  <2>1. site' \in [enabled : BOOLEAN, schedule : SiteSchedules]
    BY <1>1 DEF Configure, Put, ReadBack, Reload, Signal, store, StoreTypes
  <2>2. account' = account /\ grants' = grants /\ failedSaves' = failedSaves
        /\ edits' \in {edits, edits + 1} /\ calm' \in {calm, {}}
    BY DEF Configure, Put, ReadBack, Reload, Signal, store, MayEdit
  <2> QED
    BY <1>1, <2>1, <2>2 DEF StoreTypes
<1>5. put' \in [Puts -> PutRecord]
  <2>1. CASE Configure(h)
    BY <1>3, <2>1 DEF Configure
  <2>2. CASE ReadBack(h)
    BY <1>3, <2>2 DEF ReadBack, ScheduleOfStore
  <2>3. CASE Reload(h)
    BY <1>3, <2>3 DEF Reload
  <2>4. CASE Signal(h)
    BY <1>3, <2>4 DEF Signal
  <2> QED
    BY <2>1, <2>2, <2>3, <2>4 DEF Put
<1>6. LoopTypes'
  <2>1. CASE Reload(h)
    <3>1. sched' = [sched EXCEPT !.schedule = put[h].schedule, !.next = 0] /\ loop' = loop
      BY <2>1 DEF Reload
    <3>2. put[h].schedule \in SiteSchedules
      BY <2>1 DEF Reload
    <3> QED
      BY <1>1, <3>1, <3>2 DEF LoopTypes
  <2>2. CASE Signal(h)
    BY <1>1, <2>2 DEF Signal, Woken, LoopTypes
  <2>3. CASE Configure(h) \/ ReadBack(h)
    BY <1>1, <2>3 DEF Configure, ReadBack, goroutines, LoopTypes
  <2> QED
    BY <2>1, <2>2, <2>3 DEF Put
<1>7. ProcessTypes'
  BY <1>1, <1>2, <1>5 DEF ProcessTypes
<1> QED
  BY <1>2, <1>4, <1>6, <1>7 DEF TypeOK, StoreTypes, LoopTypes, CallTypes, ProcessTypes
LEMMA TypeProcess ==
  ASSUME TypeOK, Minute \/ Stop \/ Stopping \/ Crash \/ Start
  PROVE  TypeOK'
<1>1. StoreTypes /\ LoopTypes /\ CallTypes /\ ProcessTypes
  BY TypeParts
<1>2. StoreTypes'
  <2>1. calm' \subseteq Accounts
    BY <1>1 DEF Minute, Stop, Stopping, StopRunner, StopLoop, Exit, Enter, Crash, Start, StoreTypes
  <2>2. UNCHANGED store
    BY DEF Minute, Stop, Stopping, StopRunner, StopLoop, Exit, Enter, Crash, Start
  <2> QED
    BY <1>1, <2>1, <2>2 DEF store, StoreTypes
<1>3. now' \in Times
  BY <1>1, AutomaticAssumption DEF Minute, Stop, Stopping, StopRunner, StopLoop, Exit, Enter,
     Crash, Start, ProcessTypes, Times
<1>4. process' \in {"up", "ticker", "runner", "loop", "down"} /\ restarts' \in Nat
  BY <1>1 DEF Minute, Stop, Stopping, StopRunner, StopLoop, Exit, Enter, Crash, Start, ProcessTypes
<1>5. CASE Fresh
  <2>1. site.schedule \in SiteSchedules
    BY <1>1 DEF StoreTypes
  <2>2. LoopTypes'
    BY <1>5, <2>1, FreshLoop DEF Fresh, LoopTypes
  <2>3. CallTypes' /\ ProcessTypes'
    BY <1>3, <1>4, <1>5, FreshTypes, FreshJobs DEF Fresh, CallTypes, ProcessTypes
  <2> QED
    BY <1>2, <2>2, <2>3 DEF TypeOK, StoreTypes, LoopTypes, CallTypes, ProcessTypes
<1>6. CASE UNCHANGED <<goroutines, reserved, put>>
  <2>1. LoopTypes' /\ CallTypes' /\ ProcessTypes'
    BY <1>1, <1>3, <1>4, <1>6 DEF goroutines, LoopTypes, CallTypes, ProcessTypes
  <2> QED
    BY <1>2, <2>1 DEF TypeOK, StoreTypes, LoopTypes, CallTypes, ProcessTypes
<1> QED
  BY <1>5, <1>6 DEF Minute, Stop, Stopping, StopRunner, StopLoop, Exit, Enter, Crash, Start

LEMMA TypeStep ==
  ASSUME TypeOK, ClaimsAreFresh, PutReads, [Next]_vars
  PROVE  TypeOK'
<1>1. CASE Loop \/ Tick
  BY <1>1, TypeLoop, TypeTick
<1>2. ASSUME NEW c \in Callers, Job(c) PROVE TypeOK'
  BY <1>2, TypeJob DEF ClaimsAreFresh
<1>3. ASSUME NEW a \in Accounts,
             EditTasks(a) \/ SetOpen(a) \/ Rebind(a) \/ ManualRun(a) \/ RunEnds(a)
      PROVE  TypeOK'
  BY <1>3, TypeUser
<1>4. ASSUME NEW h \in Puts, Configure(h) \/ Put(h) PROVE TypeOK'
  BY <1>4, TypePut DEF PutReads
<1>5. CASE Minute \/ Stop \/ Stopping \/ Crash \/ Start
  BY <1>5, TypeProcess
<1>6. CASE UNCHANGED vars
  BY <1>6 DEF vars, TypeOK
<1> QED
  BY <1>1, <1>2, <1>3, <1>4, <1>5, <1>6 DEF Next
-----------------------------------------------------------------------------
(* Who claims. *)

\* The steps of the others.
Elsewhere ==
    \/ Loop \/ Tick
    \/ \E a \in Accounts : EditTasks(a) \/ SetOpen(a) \/ Rebind(a) \/ ManualRun(a) \/ RunEnds(a)
    \/ \E h \in Puts : Configure(h) \/ Put(h)
    \/ Minute \/ Stop \/ Stopping \/ Crash \/ Start

LEMMA Steps == Next => Elsewhere \/ \E c \in Callers : Job(c)
BY DEF Next, Elsewhere

\* What they do to calls of begin.
LEMMA ElsewhereJobs ==
  ASSUME Elsewhere
  PROVE  \/ job' = job /\ mu' = mu
         \/ \E c \in Callers, todo \in SUBSET Accounts :
               job' = [job EXCEPT ![c] = Called(todo)] /\ mu' = mu
         \/ job' = NewJobs
<1>1. CASE Loop
  <2>1. \/ job' = job
        \/ job' = [job EXCEPT !["site"] = Called({a \in Accounts : account[a].own = Nothing})]
    BY <1>1 DEF Loop, LoopStart, LoopReads, LoopPlans, LoopWakes, LoopRunEnds, RunOnce
  <2>2. mu' = mu
    BY <1>1 DEF Loop, LoopStart, LoopReads, LoopPlans, LoopWakes, LoopRunEnds, BesideLoop
  <2>3. {a \in Accounts : account[a].own = Nothing} \in SUBSET Accounts
    OBVIOUS
  <2> QED
    BY <2>1, <2>2, <2>3, Bounds
<1>2. CASE Tick
  <2>1. job' = job \/ \E a \in Accounts : job' = [job EXCEPT !["personal"] = Called({a})]
    BY <1>2 DEF Tick, TickBegins, TickLooks, TickReturns
  <2>2. mu' = mu
    BY <1>2 DEF Tick, TickBegins, TickLooks, TickReturns, BesideTick
  <2>3. \A a \in Accounts : {a} \in SUBSET Accounts
    OBVIOUS
  <2> QED
    BY <2>1, <2>2, <2>3, Bounds
<1>3. ASSUME NEW a \in Accounts,
             EditTasks(a) \/ SetOpen(a) \/ Rebind(a) \/ ManualRun(a) \/ RunEnds(a)
      PROVE  job' = job /\ mu' = mu
  BY <1>3 DEF EditTasks, SetOpen, Rebind, ManualRun, RunEnds, goroutines
<1>4. ASSUME NEW h \in Puts, Configure(h) \/ Put(h) PROVE job' = job /\ mu' = mu
  BY <1>4 DEF Configure, Put, ReadBack, Reload, Signal, goroutines
<1>5. CASE Minute \/ Stop \/ Stopping \/ Crash \/ Start
  BY <1>5 DEF Minute, Stop, Stopping, StopRunner, StopLoop, Exit, Enter, Crash, Start, Fresh,
     goroutines
<1> QED
  BY <1>1, <1>2, <1>3, <1>4, <1>5 DEF Elsewhere

LEMMA ElsewhereClaims ==
  ASSUME TypeOK, Elsewhere
  PROVE  /\ \A c \in Callers : Claims(c)' => job'[c] = job[c]
         /\ mu' = mu \/ \A c \in Callers : ~Claims(c)'
<1>1. job \in [Callers -> JobRecord]
  BY DEF TypeOK
<1>2. \/ job' = job /\ mu' = mu
      \/ \E c \in Callers, todo \in SUBSET Accounts :
            job' = [job EXCEPT ![c] = Called(todo)] /\ mu' = mu
      \/ job' = NewJobs
  BY ElsewhereJobs
<1>3. CASE job' = job /\ mu' = mu
  BY <1>3
<1>4. ASSUME NEW d \in Callers, NEW todo \in SUBSET Accounts,
             job' = [job EXCEPT ![d] = Called(todo)], mu' = mu
      PROVE  \A c \in Callers : Claims(c)' => job'[c] = job[c]
  <2>1. Called(todo).pc = "enter"
    BY CalledIsJob
  <2> QED
    BY <1>1, <1>4, <2>1 DEF Claims
<1>5. CASE job' = NewJobs
  BY <1>5, FreshJobs DEF Claims
<1> QED
  BY <1>2, <1>3, <1>4, <1>5

LEMMA JobClaims ==
  ASSUME TypeOK, Exclusive, NEW c \in Callers, Job(c)
  PROVE  /\ \A d \in Callers \ {c} : job'[d] = job[d]
         /\ Claims(c)' => mu' = c
         /\ ~Begin(c) => mu = c
         /\ \A d \in Callers \ {c} : ~Claims(d)
<1>1. job \in [Callers -> JobRecord] /\ Nothing \notin Callers
  BY AutomaticAssumption DEF TypeOK, Callers
<1>2. \E r : job' = [job EXCEPT ![c] = r]
  BY DEF Job, Begin, Look, Claim, ClaimRefused, Reserve
<1>3. CASE Begin(c)
  <2>1. mu = Nothing
    BY <1>3 DEF Begin
  <2>2. \A d \in Callers : ~Claims(d)
    BY <1>1, <2>1 DEF Exclusive
  <2>3. Claims(c)' => mu' = c
    BY <1>1, <1>3, NoJobIsJob DEF Begin, Claims
  <2> QED
    BY <1>1, <1>2, <1>3, <2>2, <2>3
<1>4. CASE ~Begin(c)
  <2>1. Claims(c)
    BY <1>4 DEF Job, Look, Claim, ClaimRefused, Reserve, Claims
  <2>2. mu = c /\ \A d \in Callers \ {c} : ~Claims(d)
    BY <2>1 DEF Exclusive
  <2>3. Claims(c)' => mu' = mu
    BY <1>1, <1>4, NoJobIsJob DEF Job, Look, Claim, ClaimRefused, Reserve, Claims
  <2> QED
    BY <1>1, <1>2, <1>4, <2>2, <2>3
<1> QED
  BY <1>3, <1>4

LEMMA ExclusiveStep ==
  ASSUME TypeOK, Exclusive, [Next]_vars
  PROVE  Exclusive'
<1>1. CASE Elsewhere
  BY <1>1, ElsewhereClaims DEF Exclusive, Claims
<1>2. ASSUME NEW c \in Callers, Job(c) PROVE Exclusive'
  <2>1. /\ \A d \in Callers \ {c} : job'[d] = job[d] /\ ~Claims(d)
        /\ Claims(c)' => mu' = c
    BY <1>2, JobClaims
  <2>2. \A d \in Callers \ {c} : ~Claims(d)'
    BY <2>1 DEF Claims
  <2> QED
    BY <2>1, <2>2 DEF Exclusive
<1>3. CASE UNCHANGED vars
  BY <1>3 DEF vars, Exclusive, Claims
<1> QED
  BY <1>1, <1>2, <1>3, Steps

LEMMA QuietStep ==
  ASSUME TypeOK, Exclusive, StoppedIsQuiet, [Next]_vars
  PROVE  StoppedIsQuiet'
<1>0. Nothing \notin Callers
  BY AutomaticAssumption DEF Callers
<1>1. CASE Elsewhere
  <2>1. \A c \in Callers : Claims(c)' => Claims(c)
    BY <1>1, ElsewhereClaims DEF Claims
  <2>2. CASE RunnerStopped
    BY <2>1, <2>2 DEF StoppedIsQuiet
  <2>3. CASE ~RunnerStopped /\ RunnerStopped'
    <3>1. process' # process /\ process' # "up" /\ process' # "ticker"
      BY <2>3 DEF RunnerStopped, TypeOK
    <3>2. CASE Crash
      BY <3>2, FreshJobs DEF Crash, Fresh, StoppedIsQuiet, Claims
    <3>3. CASE StopRunner
      <4>1. \A c \in Callers : ~Claims(c)
        BY <1>0, <3>3 DEF StopRunner, Exclusive
      <4> QED
        BY <2>1, <4>1 DEF StoppedIsQuiet
    <3>4. ~Loop /\ ~Tick /\ ~Minute
      BY <3>1 DEF Loop, LoopStart, LoopReads, LoopPlans, LoopWakes, LoopRunEnds, BesideLoop,
         Tick, TickBegins, TickLooks, TickReturns, BesideTick, Minute
    <3>5. \A a \in Accounts : ~(EditTasks(a) \/ SetOpen(a) \/ Rebind(a) \/ ManualRun(a) \/ RunEnds(a))
      BY <3>1 DEF EditTasks, SetOpen, Rebind, ManualRun, RunEnds
    <3>6. \A h \in Puts : ~(Configure(h) \/ Put(h))
      BY <3>1 DEF Configure, Put, ReadBack, Reload, Signal
    <3>7. ~Stop /\ ~Start /\ ~StopLoop /\ ~Exit
      BY <2>3, <3>1 DEF Stop, Start, StopLoop, Exit, Enter, RunnerStopped
    <3> QED
      BY <1>1, <3>2, <3>3, <3>4, <3>5, <3>6, <3>7 DEF Elsewhere, Stopping
  <2> QED
    BY <2>2, <2>3 DEF StoppedIsQuiet
<1>2. ASSUME NEW c \in Callers, Job(c) PROVE StoppedIsQuiet'
  <2>1. process' = process
    BY <1>2 DEF Job, Begin, Look, Claim, ClaimRefused, Reserve
  <2>2. CASE RunnerStopped
    <3>1. \A d \in Callers : ~Claims(d)
      BY <2>2 DEF StoppedIsQuiet
    <3>2. Begin(c)
      BY <1>2, <3>1 DEF Job, Look, Claim, ClaimRefused, Reserve, Claims
    <3>3. job' = [job EXCEPT ![c] = NoJob]
      BY <2>2, <3>2 DEF Begin, Refused
    <3>4. \A d \in Callers : ~Claims(d)'
      BY <3>1, <3>3, NoJobIsJob DEF Claims, TypeOK
    <3> QED
      BY <3>4 DEF StoppedIsQuiet
  <2> QED
    BY <2>1, <2>2 DEF StoppedIsQuiet, RunnerStopped
<1>3. CASE UNCHANGED vars
  BY <1>3 DEF vars, StoppedIsQuiet, RunnerStopped, Claims
<1> QED
  BY <1>1, <1>2, <1>3, Steps
-----------------------------------------------------------------------------
(* Marks and grants. *)

LEMMA Marks ==
  ASSUME TypeOK
  PROVE  /\ now \in Nat
         /\ \A a \in Accounts : account[a].last \in Nat /\ account[a].binding \in Nat
         /\ \A a \in Accounts : \A i \in 1 .. Len(grants[a]) :
               grants[a][i].at \in Nat /\ grants[a][i].binding \in Nat
<1>1. \A a \in Accounts : account[a] \in AccountRecord
  BY DEF TypeOK
<1>2. \A a \in Accounts : grants[a] \in Seq([at : Nat, binding : Nat])
  BY DEF TypeOK
<1>3. \A a \in Accounts : \A i \in 1 .. Len(grants[a]) : grants[a][i] \in [at : Nat, binding : Nat]
  <2> SUFFICES ASSUME NEW a \in Accounts, NEW i \in 1 .. Len(grants[a])
               PROVE  grants[a][i] \in [at : Nat, binding : Nat]
    OBVIOUS
  <2>1. grants[a] \in Seq([at : Nat, binding : Nat])
    BY <1>2
  <2> QED
    BY <2>1, ElementOfSeq
<1> QED
  BY <1>1, <1>3 DEF AccountRecord, TypeOK, Times

LEMMA ElsewhereMarks ==
  ASSUME TypeOK, Elsewhere
  PROVE  /\ grants' = grants /\ now <= now'
         /\ \A a \in Accounts :
               \/ account'[a].last = account[a].last /\ account'[a].binding = account[a].binding
               \/ account'[a].last = 0 /\ account'[a].binding = account[a].binding + 1
<1>1. account \in [Accounts -> AccountRecord] /\ now \in Nat
  BY DEF TypeOK, Times
<1>2. CASE UNCHANGED <<now, account, grants>>
  BY <1>1, <1>2
<1>3. CASE Minute
  BY <1>1, <1>3 DEF Minute, store
<1>4. ASSUME NEW b \in Accounts, EditTasks(b) \/ SetOpen(b)
      PROVE  /\ grants' = grants /\ now' = now
             /\ \A a \in Accounts : account'[a].last = account[a].last
                                   /\ account'[a].binding = account[a].binding
  <2>1. account[b] \in AccountRecord
    BY <1>1
  <2>2. \E r : /\ account' = [account EXCEPT ![b] = r]
               /\ r.last = account[b].last /\ r.binding = account[b].binding
    <3>1. CASE EditTasks(b)
      <4>1. PICK own \in OwnTimes \union {Nothing}, automatic \in BOOLEAN :
              account' = [account EXCEPT ![b] = [account[b] EXCEPT !.own = own,
                                !.automatic = automatic, !.rev = account[b].rev + 1]]
        BY <3>1 DEF EditTasks
      <4> QED
        BY <2>1, <4>1 DEF AccountRecord
    <3>2. CASE SetOpen(b)
      BY ZenonT(60), <2>1, <3>2 DEF SetOpen, AccountRecord
    <3> QED
      BY <1>4, <3>1, <3>2
  <2> QED
    BY <1>1, <1>4, <2>2 DEF EditTasks, SetOpen
<1>5. ASSUME NEW b \in Accounts, Rebind(b)
      PROVE  /\ grants' = grants /\ now' = now
             /\ \A a \in Accounts \ {b} : account'[a] = account[a]
             /\ account'[b].last = 0 /\ account'[b].binding = account[b].binding + 1
  <2>1. account[b] \in AccountRecord
    BY <1>1
  <2> QED
    BY <1>1, <1>5, <2>1 DEF Rebind, AccountRecord
<1>6. \/ UNCHANGED <<now, account, grants>> \/ Minute
      \/ \E b \in Accounts : EditTasks(b) \/ SetOpen(b) \/ Rebind(b)
  <2>1. CASE Loop
    BY <2>1 DEF Loop, LoopStart, LoopReads, LoopPlans, LoopWakes, LoopRunEnds, BesideLoop, store
  <2>2. CASE Tick
    BY <2>2 DEF Tick, TickBegins, TickLooks, TickReturns, BesideTick, store
  <2>3. ASSUME NEW a \in Accounts, ManualRun(a) \/ RunEnds(a)
        PROVE  UNCHANGED <<now, account, grants>>
    BY <2>3 DEF ManualRun, RunEnds, store
  <2>4. ASSUME NEW h \in Puts, Configure(h) \/ Put(h) PROVE UNCHANGED <<now, account, grants>>
    BY <2>4 DEF Configure, Put, ReadBack, Reload, Signal, store
  <2>5. CASE Stop \/ Stopping \/ Crash \/ Start
    BY <2>5 DEF Stop, Stopping, StopRunner, StopLoop, Exit, Enter, Crash, Start, store
  <2> QED
    BY <2>1, <2>2, <2>3, <2>4, <2>5 DEF Elsewhere
<1>7. ASSUME NEW b \in Accounts, Rebind(b)
      PROVE  \A a \in Accounts :
               \/ account'[a].last = account[a].last /\ account'[a].binding = account[a].binding
               \/ account'[a].last = 0 /\ account'[a].binding = account[a].binding + 1
  BY <1>5, <1>7
<1> QED
  BY <1>1, <1>2, <1>3, <1>4, <1>5, <1>6, <1>7

\* A claim is the only step of a job that marks an account.
LEMMA JobMarks ==
  ASSUME TypeOK, NEW c \in Callers, Job(c)
  PROVE  now' = now /\ (~Claim(c) => grants' = grants /\ account' = account)
BY DEF Job, Begin, Look, Claim, ClaimRefused, Reserve, store

LEMMA ClaimMarks ==
  ASSUME TypeOK, NEW c \in Callers, Claim(c), job[c].cur \in Accounts
  PROVE  /\ \A a \in Accounts \ {job[c].cur} : account'[a] = account[a] /\ grants'[a] = grants[a]
         /\ account'[job[c].cur].last = job[c].at
         /\ account'[job[c].cur].binding = account[job[c].cur].binding
         /\ grants'[job[c].cur] = Append(grants[job[c].cur],
               [at |-> job[c].at, binding |-> account[job[c].cur].binding])
         /\ now' = now /\ job'[c].pc = "look"
<1>1. account \in [Accounts -> AccountRecord] /\ account[job[c].cur] \in AccountRecord
  BY DEF TypeOK
<1>2. grants \in [Accounts -> Seq([at : Nat, binding : Nat])]
  BY DEF TypeOK
<1>3. job \in [Callers -> JobRecord] /\ job[c] \in JobRecord
  BY DEF TypeOK
<1>4. job'[c].pc = "look"
  BY <1>3 DEF Claim, JobRecord
<1> QED
  BY <1>1, <1>2, <1>4 DEF Claim, AccountRecord

LEMMA MarkStep ==
  ASSUME TypeOK, ClaimsAreFresh, MarkIsLatest, [Next]_vars
  PROVE  MarkIsLatest'
<1>0. /\ now \in Nat
      /\ \A a \in Accounts : account[a].last \in Nat /\ account[a].binding \in Nat
  BY Marks
<1>1. CASE Elsewhere
  <2>1. grants' = grants /\ now <= now' /\ now' \in Nat
    <3>1. now' \in {now, now + 1}
      BY <1>1 DEF Elsewhere, Loop, LoopStart, LoopReads, LoopPlans, LoopWakes, LoopRunEnds, BesideLoop,
         Tick, TickBegins, TickLooks, TickReturns, BesideTick, EditTasks, SetOpen, Rebind, ManualRun,
         RunEnds, Configure, Put, ReadBack, Reload, Signal, Minute, Stop, Stopping, StopRunner,
         StopLoop, Exit, Enter, Crash, Start
    <3> QED
      BY <1>0, <1>1, <3>1, ElsewhereMarks
  <2> SUFFICES ASSUME NEW a \in Accounts
               PROVE  /\ account'[a].last <= now'
                      /\ \A i \in 1 .. Len(grants[a]) :
                            /\ grants[a][i].at \in 1 .. now'
                            /\ grants[a][i].binding <= account'[a].binding
                            /\ grants[a][i].binding = account'[a].binding =>
                                  grants[a][i].at <= account'[a].last
    BY <2>1 DEF MarkIsLatest
  <2>2. \/ account'[a].last = account[a].last /\ account'[a].binding = account[a].binding
        \/ account'[a].last = 0 /\ account'[a].binding = account[a].binding + 1
    BY <1>1, ElsewhereMarks
  <2>3. \A i \in 1 .. Len(grants[a]) : grants[a][i].at \in Nat /\ grants[a][i].binding \in Nat
    BY Marks
  <2>4. /\ account[a].last <= now
        /\ \A i \in 1 .. Len(grants[a]) :
              /\ grants[a][i].at \in 1 .. now
              /\ grants[a][i].binding <= account[a].binding
              /\ grants[a][i].binding = account[a].binding =>
                    grants[a][i].at <= account[a].last
    BY DEF MarkIsLatest
  <2> QED
    BY <1>0, <2>1, <2>2, <2>3, <2>4
<1>2. ASSUME NEW c \in Callers, Job(c), ~Claim(c) PROVE MarkIsLatest'
  BY <1>2, JobMarks DEF MarkIsLatest
<1>3. ASSUME NEW c \in Callers, Claim(c) PROVE MarkIsLatest'
  <2> DEFINE b == job[c].cur
  <2>1. b \in Accounts /\ job[c].at \in 1 .. now /\ account[b].last <= job[c].at
    BY <1>3 DEF Claim, ClaimsAreFresh
  <2>2. now' = now
    BY <1>3, <2>1, ClaimMarks
  <2>3. ASSUME NEW a \in Accounts \ {b}
        PROVE  /\ account'[a].last <= now
               /\ \A i \in 1 .. Len(grants'[a]) :
                     /\ grants'[a][i].at \in 1 .. now
                     /\ grants'[a][i].binding <= account'[a].binding
                     /\ grants'[a][i].binding = account'[a].binding =>
                           grants'[a][i].at <= account'[a].last
    BY <1>3, <2>1, <2>3, ClaimMarks DEF MarkIsLatest
  <2>4. /\ account'[b].last <= now
        /\ \A i \in 1 .. Len(grants'[b]) :
              /\ grants'[b][i].at \in 1 .. now
              /\ grants'[b][i].binding <= account'[b].binding
              /\ grants'[b][i].binding = account'[b].binding =>
                    grants'[b][i].at <= account'[b].last
    <3>1. /\ account'[b].last = job[c].at /\ account'[b].binding = account[b].binding
          /\ grants'[b] = Append(grants[b], [at |-> job[c].at, binding |-> account[b].binding])
      BY <1>3, <2>1, ClaimMarks
    <3>2. grants[b] \in Seq([at : Nat, binding : Nat])
      BY <2>1 DEF TypeOK
    <3>3. \A i \in 1 .. Len(grants'[b]) :
            \/ i \in 1 .. Len(grants[b]) /\ grants'[b][i] = grants[b][i]
            \/ grants'[b][i] = [at |-> job[c].at, binding |-> account[b].binding]
      BY <3>1, <3>2
    <3>4. \A i \in 1 .. Len(grants[b]) :
            /\ grants[b][i].at \in 1 .. now
            /\ grants[b][i].binding <= account[b].binding
            /\ grants[b][i].binding = account[b].binding => grants[b][i].at <= account[b].last
      BY <2>1 DEF MarkIsLatest
    <3>5. job[c].at \in Nat /\ account[b].last \in Nat /\ account[b].binding \in Nat
      BY <1>0, <2>1
    <3>6. ASSUME NEW i \in 1 .. Len(grants[b]), grants[b][i].at <= account[b].last
          PROVE  grants[b][i].at <= job[c].at
      <4>1. grants[b][i].at \in Nat
        BY <3>4
      <4> QED
        BY <2>1, <3>5, <3>6, <4>1
    <3>7. account'[b].last <= now
      BY <2>1, <3>1
    <3> SUFFICES ASSUME NEW i \in 1 .. Len(grants'[b])
                 PROVE  /\ grants'[b][i].at \in 1 .. now
                        /\ grants'[b][i].binding <= account'[b].binding
                        /\ grants'[b][i].binding = account'[b].binding =>
                              grants'[b][i].at <= account'[b].last
      BY <3>7
    <3>8. CASE i \in 1 .. Len(grants[b]) /\ grants'[b][i] = grants[b][i]
      <4>1. /\ grants[b][i].at \in 1 .. now
            /\ grants[b][i].binding <= account[b].binding
            /\ grants[b][i].binding = account[b].binding =>
                  grants[b][i].at <= account[b].last
        BY <3>4, <3>8
      <4>2. grants[b][i].at <= account[b].last => grants[b][i].at <= job[c].at
        BY <3>6, <3>8
      <4> QED
        BY <3>1, <3>8, <4>1, <4>2
    <3>9. CASE grants'[b][i] = [at |-> job[c].at, binding |-> account[b].binding]
      <4>1. grants'[b][i].at = job[c].at /\ grants'[b][i].binding = account[b].binding
        BY <3>9
      <4>2. account[b].binding <= account[b].binding /\ job[c].at <= job[c].at
        BY <3>5
      <4> QED
        BY <2>1, <3>1, <4>1, <4>2
    <3> QED
      BY <3>3, <3>8, <3>9
  <2> QED
    BY <2>2, <2>3, <2>4 DEF MarkIsLatest
<1>4. CASE UNCHANGED vars
  BY <1>4 DEF vars, MarkIsLatest
<1> QED
  BY <1>1, <1>2, <1>3, <1>4, Steps
LEMMA LookIsFresh ==
  ASSUME TypeOK, MarkIsLatest, NEW c \in Callers, NEW b \in Accounts, Look(c, b),
         job'[c].pc = "claim"
  PROVE  job'[c].cur = b /\ job'[c].at = now /\ account[b].last <= now /\ now \in 1 .. now
<1>1. job \in [Callers -> JobRecord] /\ job[c] \in JobRecord /\ job[c].pc = "look"
  BY DEF TypeOK, Look
<1>2. \/ job' = [job EXCEPT ![c] = [job[c] EXCEPT !.pc = "claim", !.todo = job[c].todo \ {b},
                                              !.cur = b, !.rev = account[b].rev, !.at = now]]
      \/ job' = [job EXCEPT ![c] = [job[c] EXCEPT !.todo = job[c].todo \ {b}]]
  BY DEF Look
<1>3. CASE job' = [job EXCEPT ![c] = [job[c] EXCEPT !.todo = job[c].todo \ {b}]]
  <2>1. job'[c].pc = "look"
    BY <1>1, <1>3 DEF JobRecord
  <2> QED
    BY <2>1
<1>4. CASE job' = [job EXCEPT ![c] = [job[c] EXCEPT !.pc = "claim", !.todo = job[c].todo \ {b},
                                              !.cur = b, !.rev = account[b].rev, !.at = now]]
  <2>1. job'[c].cur = b /\ job'[c].at = now
    BY <1>1, <1>4 DEF JobRecord
  <2>2. now \in 1 .. now
    BY DEF TypeOK, Times
  <2> QED
    BY <2>1, <2>2 DEF MarkIsLatest
<1> QED
  BY <1>2, <1>3, <1>4

LEMMA FreshStep ==
  ASSUME TypeOK, Exclusive, ClaimsAreFresh, MarkIsLatest, [Next]_vars
  PROVE  ClaimsAreFresh'
<1>0. now \in Nat /\ \A a \in Accounts : account[a].last \in Nat
  BY Marks
<1>1. CASE Elsewhere
  <2>1. now' \in {now, now + 1}
    BY <1>1 DEF Elsewhere, Loop, LoopStart, LoopReads, LoopPlans, LoopWakes, LoopRunEnds, BesideLoop,
       Tick, TickBegins, TickLooks, TickReturns, BesideTick, EditTasks, SetOpen, Rebind, ManualRun,
       RunEnds, Configure, Put, ReadBack, Reload, Signal, Minute, Stop, Stopping, StopRunner,
       StopLoop, Exit, Enter, Crash, Start
  <2> SUFFICES ASSUME NEW c \in Callers, job'[c].pc = "claim"
               PROVE  /\ job'[c].cur \in Accounts /\ job'[c].at \in 1 .. now'
                      /\ account'[job'[c].cur].last <= job'[c].at
    BY DEF ClaimsAreFresh
  <2>2. job'[c] = job[c]
    BY <1>1, ElsewhereClaims DEF Claims
  <2>3. job[c].cur \in Accounts /\ job[c].at \in 1 .. now /\ account[job[c].cur].last <= job[c].at
    BY <2>2 DEF ClaimsAreFresh
  <2>4. account'[job[c].cur].last \in {account[job[c].cur].last, 0}
    BY <1>1, <2>3, ElsewhereMarks
  <2> QED
    BY <1>0, <2>1, <2>2, <2>3, <2>4
<1>2. ASSUME NEW c \in Callers, Job(c) PROVE ClaimsAreFresh'
  <2>1. \A d \in Callers \ {c} : job'[d].pc # "claim"
    BY <1>2, JobClaims DEF Claims
  <2> SUFFICES ASSUME job'[c].pc = "claim"
               PROVE  /\ job'[c].cur \in Accounts /\ job'[c].at \in 1 .. now'
                      /\ account'[job'[c].cur].last <= job'[c].at
    BY <2>1 DEF ClaimsAreFresh
  <2>2. job \in [Callers -> JobRecord] /\ job[c] \in JobRecord
    BY DEF TypeOK
  <2>3. PICK b \in Accounts : Look(c, b)
    <3>1. ~Begin(c)
      <4>1. \A r \in {NoJob, [job[c] EXCEPT !.pc = "look"]} : r.pc # "claim"
        BY <2>2, NoJobIsJob DEF JobRecord
      <4> QED
        BY <2>2, <4>1 DEF Begin
    <3>2. ~Claim(c)
      BY <2>2 DEF Claim, JobRecord
    <3>3. ~ClaimRefused(c)
      BY <2>2 DEF ClaimRefused, JobRecord
    <3>4. ~Reserve(c)
      BY <2>2, NoJobIsJob DEF Reserve
    <3> QED
      BY <1>2, <3>1, <3>2, <3>3, <3>4 DEF Job
  <2>4. now' = now /\ account' = account
    BY <2>3 DEF Look, store
  <2> QED
    BY <2>3, <2>4, LookIsFresh
<1>3. CASE UNCHANGED vars
  BY <1>3 DEF vars, ClaimsAreFresh
<1> QED
  BY <1>1, <1>2, <1>3, Steps

-----------------------------------------------------------------------------
(* Requests and the loop. *)

LEMMA PutStep ==
  ASSUME TypeOK, PutReads, [Next]_vars
  PROVE  PutReads'
<1>1. put \in [Puts -> [pc : {"idle", "saved", "read", "signal"},
                         schedule : SiteSchedules \union {Nothing}]]
      /\ site.schedule \in SiteSchedules
  BY DEF TypeOK
<1>2. ASSUME NEW h \in Puts, Configure(h) \/ Put(h) PROVE PutReads'
  BY <1>1, <1>2 DEF Configure, Put, ReadBack, Reload, Signal, ScheduleOfStore, PutReads
<1>3. CASE put' = put
  BY <1>3 DEF PutReads
<1>4. CASE put' = NoPuts
  BY <1>4 DEF NoPuts, PutReads
<1>5. put' = put \/ put' = NoPuts \/ \E h \in Puts : Configure(h) \/ Put(h)
  BY DEF Next, vars, Loop, LoopStart, LoopReads, LoopPlans, LoopWakes, LoopRunEnds, BesideLoop,
     Tick, TickBegins, TickLooks, TickReturns, BesideTick, EditTasks, SetOpen, Rebind, ManualRun,
     RunEnds, Minute, Stop, Stopping, StopRunner, StopLoop, Exit, Enter, Crash, Start, Fresh,
     Job, Begin, Look, Claim, ClaimRefused, Reserve
<1> QED
  BY <1>2, <1>3, <1>4, <1>5

LEMMA SeeLoop ==
  ASSUME TypeOK, WillSee, Loop
  PROVE  WillSee'
<1>1. loop \in LoopRecord /\ sched \in [schedule : SiteSchedules, next : Nat, wake : BOOLEAN]
  BY DEF TypeOK
<1>2. put' = put /\ sched'.schedule = sched.schedule
  BY <1>1 DEF Loop, LoopStart, LoopReads, LoopPlans, LoopWakes, LoopRunEnds, RunOnce, BesideLoop
<1>3. CASE LoopPlans
  <2>1. loop.pc = "plan" /\ loop'.schedule = loop.schedule /\ sched'.wake = sched.wake
    BY <1>1, <1>3 DEF LoopPlans, LoopRecord
  <2> QED
    BY <1>2, <2>1 DEF WillSee
<1>4. CASE LoopReads
  <2>1. loop'.schedule = sched.schedule \/ loop'.pc \in {"read", "batch"}
    BY <1>1, <1>4 DEF LoopReads, RunOnce, LoopRecord
  <2> QED
    BY <1>2, <2>1 DEF WillSee
<1>5. CASE LoopStart \/ LoopWakes \/ LoopRunEnds
  <2>1. loop'.pc \in {"read", "batch", "ended"}
    BY <1>1, <1>5 DEF LoopStart, LoopWakes, LoopRunEnds, RunOnce, LoopRecord
  <2> QED
    BY <2>1 DEF WillSee
<1> QED
  BY <1>3, <1>4, <1>5 DEF Loop

LEMMA SeePut ==
  ASSUME TypeOK, WillSee, NEW h \in Puts, Configure(h) \/ Put(h)
  PROVE  WillSee'
<1>1. /\ put \in [Puts -> [pc : {"idle", "saved", "read", "signal"},
                           schedule : SiteSchedules \union {Nothing}]]
      /\ sched \in [schedule : SiteSchedules, next : Nat, wake : BOOLEAN]
  BY DEF TypeOK
<1>2. loop' = loop
  BY DEF Configure, Put, ReadBack, Reload, Signal, goroutines
<1>3. CASE Signal(h)
  BY <1>1, <1>2, <1>3 DEF Signal, Woken, WillSee
<1>4. CASE Reload(h)
  BY <1>1, <1>4 DEF Reload, WillSee
<1>5. CASE Configure(h) \/ ReadBack(h)
  <2>1. sched' = sched /\ put[h].pc # "signal"
    BY <1>5 DEF Configure, ReadBack, goroutines
  <2>2. \A g \in Puts \ {h} : put'[g] = put[g]
    BY <1>1, <1>5 DEF Configure, ReadBack
  <2> QED
    BY <1>2, <2>1, <2>2 DEF WillSee
<1> QED
  BY <1>3, <1>4, <1>5 DEF Put

LEMMA SeeStep ==
  ASSUME TypeOK, WillSee, [Next]_vars
  PROVE  WillSee'
<1>1. CASE Loop
  BY <1>1, SeeLoop
<1>2. ASSUME NEW h \in Puts, Configure(h) \/ Put(h) PROVE WillSee'
  BY <1>2, SeePut
<1>3. CASE UNCHANGED <<sched, loop, put>>
  BY <1>3 DEF WillSee
<1>4. CASE Fresh
  <2>1. loop'.pc = "start"
    BY <1>4 DEF Fresh, NewLoop
  <2> QED
    BY <2>1 DEF WillSee
<1>5. \/ Loop \/ \E h \in Puts : Configure(h) \/ Put(h)
      \/ UNCHANGED <<sched, loop, put>> \/ Fresh
  BY DEF Next, vars, Tick, TickBegins, TickLooks, TickReturns, BesideTick, goroutines,
     EditTasks, SetOpen, Rebind, ManualRun, RunEnds, Minute, Stop, Stopping, StopRunner,
     StopLoop, Exit, Enter, Crash, Start, Job, Begin, Look, Claim, ClaimRefused, Reserve
<1> QED
  BY <1>1, <1>2, <1>3, <1>4, <1>5
-----------------------------------------------------------------------------
(* The theorems. *)

LEMMA InitIInv == Init => IInv
<1> SUFFICES ASSUME Init PROVE IInv
  OBVIOUS
<1>1. TypeOK
  BY TypeInit
<1>2. Exclusive /\ ClaimsAreFresh /\ StoppedIsQuiet
  BY FreshJobs DEF Init, Exclusive, ClaimsAreFresh, StoppedIsQuiet, Claims
<1>3. MarkIsLatest
  <2>1. \A a \in Accounts : grants[a] = <<>>
    BY DEF Init
  <2>2. \A a \in Accounts : account[a].last = 0
    <3>1. PICK own \in [Accounts -> OwnTimes \union {Nothing}] :
            account = [a \in Accounts |-> [open |-> TRUE, automatic |-> TRUE, own |-> own[a],
                                           rev |-> 1, last |-> 0, binding |-> 0]]
      BY DEF Init
    <3> QED
      BY <3>1
  <2>3. now = 1
    BY DEF Init
  <2>4. ASSUME NEW a \in Accounts, NEW i \in 1 .. Len(grants[a]) PROVE FALSE
    <3>1. Len(grants[a]) = 0
      BY <2>1
    <3> QED
      BY <3>1
  <2>5. \A a \in Accounts : account[a].last <= now
    <3>1. 0 <= 1
      OBVIOUS
    <3> QED
      BY <2>2, <2>3, <3>1, Zenon
  <2> SUFFICES ASSUME NEW a \in Accounts
               PROVE  /\ account[a].last <= now
                      /\ \A i \in 1 .. Len(grants[a]) :
                            /\ grants[a][i].at \in 1 .. now
                            /\ grants[a][i].binding <= account[a].binding
                            /\ grants[a][i].binding = account[a].binding =>
                                  grants[a][i].at <= account[a].last
    BY DEF MarkIsLatest
  <2>6. \A i : i \notin 1 .. Len(grants[a])
    BY <2>4
  <2> QED
    BY <2>5, <2>6, Zenon
<1>4. PutReads /\ WillSee
  BY DEF Init, NoPuts, NewLoop, PutReads, WillSee
<1> QED
  BY <1>1, <1>2, <1>3, <1>4 DEF IInv

LEMMA NextIInv == IInv /\ [Next]_vars => IInv'
BY TypeStep, ExclusiveStep, FreshStep, MarkStep, QuietStep, PutStep, SeeStep DEF IInv

\* The inductive invariant holds in every reachable state.
THEOREM Invariance == Spec => []IInv
BY InitIInv, NextIInv, PTL DEF Spec

\* The state always has its type; above all, a reload never leaves the scheduler without
\* a schedule.
THEOREM TypeCorrect == Spec => []TypeOK
<1>1. IInv => TypeOK
  BY DEF IInv
<1> QED
  BY <1>1, Invariance, PTL

\* A loop that sleeps or waits on an outdated schedule has a signal coming, whatever
\* Reload's two halves, the loop's plan and its wake-ups are interleaved with.
THEOREM WakeupsArrive == Spec => []NoLostWakeup
<1>1. IInv => NoLostWakeup
  BY DEF IInv, WillSee, NoLostWakeup
<1> QED
  BY <1>1, Invariance, PTL

LEMMA GrantIsClaim ==
  ASSUME TypeOK, [Next]_vars, grants' # grants
  PROVE  \E c \in Callers : Claim(c)
<1>1. CASE Elsewhere
  BY <1>1, ElsewhereMarks
<1>2. ASSUME NEW c \in Callers, Job(c), ~Claim(c) PROVE FALSE
  BY <1>2, JobMarks
<1> QED
  BY <1>1, <1>2, Steps DEF vars

LEMMA QuietClaims ==
  ASSUME IInv, [Next]_vars, RunnerStopped
  PROVE  grants' = grants
<1> SUFFICES ASSUME grants' # grants PROVE FALSE
  OBVIOUS
<1>1. PICK c \in Callers : Claim(c)
  BY GrantIsClaim DEF IInv
<1> QED
  BY <1>1 DEF IInv, StoppedIsQuiet, Claims, Claim

\* From the moment Runner.Stop has set its mark under Runner.mu, no account's day is
\* marked as served.
THEOREM StopIsQuiet == Spec => QuietAfterStop
<1>1. IInv /\ [Next]_vars => [RunnerStopped => grants' = grants]_vars
  BY QuietClaims DEF vars
<1> QED
  BY <1>1, Invariance, PTL DEF Spec, QuietAfterStop

LEMMA ClaimIsFirst ==
  ASSUME IInv, [Next]_vars, NEW a \in Accounts, grants'[a] # grants[a],
         NEW i \in 1 .. Len(grants[a]), grants[a][i].binding = account[a].binding
  PROVE  ~Repeats(a, i)
<1>1. PICK c \in Callers : Claim(c)
  BY GrantIsClaim DEF IInv
<1>2. job[c].cur \in Accounts /\ job[c].at \in 1 .. now /\ account[job[c].cur].last <= job[c].at
  BY <1>1 DEF IInv, ClaimsAreFresh, Claim
<1>3. job[c].cur = a
  BY <1>1, <1>2, ClaimMarks DEF IInv
<1>4. /\ now \in Times /\ account[a].last \in Nat /\ grants[a][i].at \in Nat
  BY Marks DEF IInv, TypeOK
<1>5. grants[a][i].at \in 1 .. now /\ grants[a][i].at <= account[a].last
  BY DEF IInv, MarkIsLatest
<1>6. account[a].last <= now
  BY DEF IInv, MarkIsLatest
<1>7. /\ grants[a][i].at \in Times /\ account[a].last \in Times /\ job[c].at \in Times
      /\ account[a].last # 0
  BY <1>2, <1>4, <1>5, <1>6, Bounds DEF Times
<1>8. Latest(a).at = job[c].at
  <2>1. grants'[a] = Append(grants[a], [at |-> job[c].at, binding |-> account[a].binding])
    BY <1>1, <1>2, <1>3, ClaimMarks DEF IInv
  <2>2. grants[a] \in Seq([at : Nat, binding : Nat])
    BY DEF IInv, TypeOK
  <2> QED
    BY <2>1, <2>2 DEF Latest
<1>9. Zone(a) \in Zones
  <2>1. account[a] \in AccountRecord /\ site.schedule \in SiteSchedules
    BY DEF IInv, TypeOK
  <2>2. account[a].own # Nothing => account[a].own \in OwnTimes
    BY <2>1 DEF AccountRecord
  <2> QED
    BY <2>1, <2>2, AutomaticAssumption DEF Zone
<1> DEFINE D(t) == Date[Zone(a)][t]
<1>10. D(account[a].last) # D(job[c].at)
  BY <1>1, <1>3, <1>7 DEF Claim, Claimable, AutomaticDoneToday, SameDay
<1>11. /\ D(grants[a][i].at) <= D(account[a].last)
       /\ D(account[a].last) <= D(job[c].at)
  <2>1. \A s, t \in Times : s <= t => D(s) <= D(t)
    BY <1>9, AutomaticAssumption
  <2>2. grants[a][i].at <= account[a].last /\ account[a].last <= job[c].at
    BY <1>2, <1>3, <1>5
  <2> QED
    BY <1>7, <2>1, <2>2
<1>12. D(grants[a][i].at) \in Nat /\ D(account[a].last) \in Nat /\ D(job[c].at) \in Nat
  <2>1. Date \in [Zones -> [Times -> Nat]]
    BY AutomaticAssumption
  <2>2. Date[Zone(a)] \in [Times -> Nat]
    BY <1>9, <2>1
  <2> QED
    BY <1>7, <2>2
<1>13. D(grants[a][i].at) # D(job[c].at)
  BY <1>10, <1>11, <1>12
<1> QED
  BY <1>8, <1>13 DEF Repeats

\* An account of one binding is claimed at most once on each of its local days, by
\* whichever scheduler, at whatever time, through crashes, failed saves and edits.
THEOREM OncePerDay == Spec => OnceADay
<1>1. IInv /\ [Next]_vars =>
        [\A a \in Accounts : grants'[a] # grants[a] =>
            \A i \in 1 .. Len(grants[a]) :
                grants[a][i].binding = account[a].binding => ~Repeats(a, i)]_vars
  BY ClaimIsFirst
<1> QED
  BY <1>1, Invariance, PTL DEF Spec, OnceADay
-----------------------------------------------------------------------------
(* The users' own times. *)

\* An account that should run at this minute, and one that has run on this day.
Due(a) ==
    account[a].open /\ account[a].automatic /\ site.enabled /\ OwnTimeIsNow(a, now)

Done(a) == AutomaticDoneToday(a, now)

\* The ticker's call of begin has yet to decide on the account.
Working(a) ==
    \/ a \in job["personal"].todo
    \/ job["personal"].pc = "claim" /\ job["personal"].cur = a

\* The ticker, looking at this minute, has not passed the account over.
Attended(a) ==
    Due(a) /\ ~Done(a) =>
        /\ tick.at = now => \/ tick.pc \in {"scan", "call"} /\ a \in tick.todo
                            \/ tick.pc = "call" /\ Working(a)
        /\ tick.attempted.at = now => a \notin tick.attempted.who

\* Who is claimed or reserved in a calm minute has run; a claim knows the account
\* as it is.
Credited(a) ==
    /\ reserved[a] # Nothing => Done(a)
    /\ \A c \in Callers : /\ a \in job[c].got => Done(a)
                          /\ job[c].pc = "claim" /\ job[c].cur = a => job[c].rev = account[a].rev

TickBehind == tick.at <= now /\ tick.attempted.at <= now

CallsAreClean ==
    \A c \in Callers : /\ job[c].pc = "idle" => job[c].todo = {}
                       /\ ~Claims(c) => job[c].got = {}

\* In a minute that is calm for somebody the service is up and nobody claims with
\* a time of before.
MinuteIsWhole ==
    calm # {} => /\ process = "up"
                 /\ \A c \in Callers : job[c].pc = "claim" => job[c].at = now

CalmInv ==
    /\ TickBehind /\ CallsAreClean /\ MinuteIsWhole
    /\ \A a \in calm : Attended(a) /\ Credited(a)

LEMMA InitCalm == Init => CalmInv
<1> SUFFICES ASSUME Init PROVE CalmInv
  OBVIOUS
<1>1. tick.at = 0 /\ tick.attempted.at = 0 /\ now = 1 /\ calm = {}
  BY DEF Init, FreshTick
<1>2. \A c \in Callers : job[c].pc = "idle" /\ job[c].todo = {} /\ job[c].got = {}
  BY DEF Init, NewJobs, NoJob
<1>3. TickBehind
  BY <1>1 DEF TickBehind
<1> QED
  BY <1>1, <1>2, <1>3 DEF CalmInv, CallsAreClean, MinuteIsWhole

\* What the ticker does to its own record.
LEMMA TickTurns ==
  ASSUME TypeOK, Tick
  PROVE  \/ /\ tick.pc = "idle" /\ job' = job /\ tick'.at = now /\ tick'.attempted = tick.attempted
            /\ site.enabled => tick'.pc = "scan" /\ tick'.todo = Accounts
         \/ /\ tick.pc = "scan" /\ tick'.at = tick.at
            /\ \E a \in tick.todo :
                  \/ /\ ~CustomRunDue(a, tick.at) \/ Attempted(a)
                     /\ job' = job /\ tick'.pc = "scan" /\ tick'.todo = tick.todo \ {a}
                     /\ tick'.attempted = tick.attempted
                  \/ process # "up" /\ tick'.attempted.at = tick.at
                  \/ /\ job' = [job EXCEPT !["personal"] = Called({a})]
                     /\ tick'.pc = "call" /\ tick'.todo = tick.todo \ {a}
                     /\ tick'.attempted = tick.attempted
         \/ /\ tick.pc = "call" /\ job["personal"].pc = "idle" /\ job' = job
            /\ tick'.pc = "scan" /\ tick'.todo = tick.todo /\ tick'.at = tick.at
            /\ tick'.attempted = tick.attempted
         \/ /\ tick.pc = "scan" /\ tick.todo = {} /\ job' = job
            /\ tick'.at = tick.at /\ tick'.attempted.at = tick.at
         \/ process # "up" /\ tick'.at = tick.at /\ tick'.attempted = tick.attempted
<1>1. tick \in TickRecord
  BY DEF TypeOK
<1>2. ASSUME NEW due, TickOver(due)
      PROVE  tick'.at = tick.at /\ tick'.attempted.at = tick.at
  <2>1. PICK attempted : attempted = [at |-> tick.at, who |-> due]
    OBVIOUS
  <2>2. tick' = [tick EXCEPT !.pc = "idle", !.todo = {}, !.due = {}, !.attempted = attempted]
    BY <1>2, <2>1 DEF TickOver
  <2>3. tick'.at = tick.at /\ tick'.attempted = attempted
    BY <1>1, <2>2 DEF TickRecord
  <2> QED
    BY <2>1, <2>3
<1>3. CASE TickBegins
  BY <1>1, <1>3 DEF TickBegins, TickRecord
<1>4. ASSUME NEW a \in Accounts, TickLooks(a)
      PROVE  /\ tick.pc = "scan" /\ tick'.at = tick.at /\ a \in tick.todo
             /\ \/ /\ ~CustomRunDue(a, tick.at) \/ Attempted(a)
                   /\ job' = job /\ tick'.pc = "scan" /\ tick'.todo = tick.todo \ {a}
                   /\ tick'.attempted = tick.attempted
                \/ process # "up" /\ tick'.attempted.at = tick.at
                \/ /\ job' = [job EXCEPT !["personal"] = Called({a})]
                   /\ tick'.pc = "call" /\ tick'.todo = tick.todo \ {a}
                   /\ tick'.attempted = tick.attempted
  <2>1. tick.pc = "scan" /\ a \in tick.todo
    BY <1>4 DEF TickLooks
  <2>2. CASE ~CustomRunDue(a, tick.at)
    <3>1. tick' = [tick EXCEPT !.todo = @ \ {a}] /\ job' = job
      BY <1>4, <2>2 DEF TickLooks
    <3> QED
      BY <1>1, <2>1, <2>2, <3>1 DEF TickRecord
  <2>3. CASE CustomRunDue(a, tick.at) /\ Attempted(a)
    <3>1. tick' = [tick EXCEPT !.todo = @ \ {a}, !.due = @ \union {a}] /\ job' = job
      BY <1>4, <2>3 DEF TickLooks
    <3> QED
      BY <1>1, <2>1, <2>3, <3>1 DEF TickRecord
  <2>4. CASE CustomRunDue(a, tick.at) /\ ~Attempted(a) /\ process # "up"
    <3>1. TickOver(tick.due \union {a})
      BY <1>4, <2>4 DEF TickLooks
    <3> QED
      BY <1>2, <2>1, <2>4, <3>1
  <2>5. CASE CustomRunDue(a, tick.at) /\ ~Attempted(a) /\ process = "up"
    <3>1. /\ tick' = [tick EXCEPT !.pc = "call", !.todo = @ \ {a}, !.due = @ \union {a}]
          /\ job' = [job EXCEPT !["personal"] = Called({a})]
      BY <1>4, <2>5 DEF TickLooks
    <3> QED
      BY <1>1, <2>1, <3>1 DEF TickRecord
  <2> QED
    BY <2>2, <2>3, <2>4, <2>5
<1>5. CASE TickReturns
  <2>1. CASE tick.pc = "call" /\ job["personal"].pc = "idle" /\ tick' = [tick EXCEPT !.pc = "scan"]
    BY <1>1, <1>5, <2>1 DEF TickReturns, TickRecord
  <2>2. CASE tick.pc = "scan" /\ tick.todo = {} /\ TickOver(tick.due)
    BY <1>2, <1>5, <2>2 DEF TickReturns
  <2>3. CASE tick.pc = "idle" /\ process # "up" /\ tick' = [tick EXCEPT !.pc = "ended"]
    BY <1>1, <2>3 DEF TickRecord
  <2> QED
    BY <1>5, <2>1, <2>2, <2>3 DEF TickReturns
<1> QED
  BY <1>3, <1>4, <1>5 DEF Tick

\* The ticker never looks at a minute to come.
LEMMA BehindStep ==
  ASSUME TypeOK, TickBehind, [Next]_vars
  PROVE  TickBehind'
<1>1. /\ now \in Nat /\ tick \in TickRecord
      /\ tick.at \in Nat /\ tick.attempted.at \in Nat
  BY Marks DEF TypeOK, TickRecord
<1>2. CASE Tick
  <2>1. now' = now
    BY <1>2 DEF Tick, TickBegins, TickLooks, TickReturns, BesideTick
  <2>2. /\ tick'.at \in {tick.at, now}
        /\ tick'.attempted.at \in {tick.at, tick.attempted.at}
    BY <1>1, <1>2, <2>1, TickTurns
  <2> QED
    BY <1>1, <2>1, <2>2 DEF TickBehind
<1>3. CASE Fresh /\ now' = now
  <2>1. tick'.at = 0 /\ tick'.attempted.at = 0
    BY <1>3 DEF Fresh, FreshTick
  <2> QED
    BY <1>1, <1>3, <2>1 DEF TickBehind
<1>4. CASE UNCHANGED tick /\ now' \in {now, now + 1}
  BY <1>1, <1>4 DEF TickBehind
<1>5. Tick \/ (Fresh /\ now' = now) \/ (UNCHANGED tick /\ now' \in {now, now + 1})
  BY DEF Next, vars, Loop, LoopStart, LoopReads, LoopPlans, LoopWakes, LoopRunEnds, BesideLoop,
     Configure, Put, ReadBack, Reload, Signal, goroutines, store,
     EditTasks, SetOpen, Rebind, ManualRun, RunEnds, Minute, Stop, Stopping, StopRunner,
     StopLoop, Exit, Enter, Crash, Start, Job, Begin, Look, Claim, ClaimRefused, Reserve
<1> QED
  BY <1>2, <1>3, <1>4, <1>5

\* What a call of begin does to its own record.
LEMMA JobTurns ==
  ASSUME TypeOK, NEW c \in Callers, Job(c)
  PROVE  \/ /\ Begin(c) /\ job[c].pc = "enter"
            /\ \/ Refused /\ job'[c] = NoJob
               \/ /\ job'[c].pc = "look" /\ job'[c].todo = job[c].todo /\ job'[c].got = job[c].got
         \/ \E a \in Accounts :
               /\ Look(c, a) /\ job[c].pc = "look"
               /\ job'[c].todo = job[c].todo \ {a} /\ job'[c].got = job[c].got
               /\ IF account[a].open /\ account[a].automatic /\ reserved[a] = Nothing
                  THEN /\ job'[c].pc = "claim" /\ job'[c].cur = a
                       /\ job'[c].rev = account[a].rev /\ job'[c].at = now
                  ELSE job'[c].pc = "look"
         \/ /\ Claim(c) /\ job'[c].pc = "look" /\ job'[c].todo = job[c].todo
            /\ job'[c].got = job[c].got \union {job[c].cur}
         \/ /\ ClaimRefused(c) /\ job'[c].pc = "look" /\ job'[c].todo = job[c].todo
            /\ job'[c].got = job[c].got
         \/ /\ Reserve(c) /\ job[c].pc = "look" /\ job[c].todo = {} /\ job'[c] = NoJob
<1>1. job \in [Callers -> JobRecord] /\ job[c] \in JobRecord
  BY DEF TypeOK
<1>2. CASE Begin(c)
  BY <1>1, <1>2 DEF Begin, JobRecord
<1>3. ASSUME NEW a \in Accounts, Look(c, a)
      PROVE  /\ job[c].pc = "look"
             /\ job'[c].todo = job[c].todo \ {a} /\ job'[c].got = job[c].got
             /\ IF account[a].open /\ account[a].automatic /\ reserved[a] = Nothing
                THEN /\ job'[c].pc = "claim" /\ job'[c].cur = a
                     /\ job'[c].rev = account[a].rev /\ job'[c].at = now
                ELSE job'[c].pc = "look"
  BY <1>1, <1>3 DEF Look, JobRecord
<1>4. CASE Claim(c)
  BY <1>1, <1>4 DEF Claim, JobRecord
<1>5. CASE ClaimRefused(c)
  BY <1>1, <1>5 DEF ClaimRefused, JobRecord
<1>6. CASE Reserve(c)
  BY <1>1, <1>6 DEF Reserve, JobRecord
<1> QED
  BY <1>2, <1>3, <1>4, <1>5, <1>6 DEF Job

LEMMA EmptyJob ==
  NoJob.pc = "idle" /\ NoJob.todo = {} /\ NoJob.got = {}
BY DEF NoJob

LEMMA CleanStep ==
  ASSUME TypeOK, Exclusive, CallsAreClean, [Next]_vars
  PROVE  CallsAreClean'
<1>1. job \in [Callers -> JobRecord]
  BY DEF TypeOK
<1>2. CASE Elsewhere
  <2>1. CASE job' = job
    BY <2>1 DEF CallsAreClean, Claims
  <2>2. ASSUME NEW d \in Callers, NEW todo \in SUBSET Accounts, job' = [job EXCEPT ![d] = Called(todo)]
        PROVE  CallsAreClean'
    <3>1. Called(todo).pc = "enter" /\ Called(todo).got = {}
      BY DEF Called, NoJob
    <3> QED
      BY <1>1, <2>2, <3>1 DEF CallsAreClean, Claims
  <2>3. CASE job' = NewJobs
    BY <2>3, EmptyJob DEF CallsAreClean, NewJobs
  <2> QED
    BY <1>2, <2>1, <2>2, <2>3, ElsewhereJobs
<1>3. ASSUME NEW c \in Callers, Job(c) PROVE CallsAreClean'
  <2>1. \A d \in Callers \ {c} : job'[d] = job[d]
    BY <1>3, JobClaims
  <2>2. /\ job'[c].pc = "idle" => job'[c].todo = {}
        /\ ~Claims(c)' => job'[c].got = {}
    BY <1>3, JobTurns, EmptyJob DEF Claims
  <2> QED
    BY <2>1, <2>2 DEF CallsAreClean, Claims
<1>4. CASE UNCHANGED vars
  BY <1>4 DEF vars, CallsAreClean, Claims
<1> QED
  BY <1>2, <1>3, <1>4, Steps

\* Within a minute the accounts that stay calm are among those that were.
LEMMA CalmShrinks ==
  ASSUME MinuteIsWhole, calm' # {}, [Next]_vars
  PROVE  Minute \/ (calm' \subseteq calm /\ now' = now /\ process' = process /\ process = "up")
<1>1. CASE Minute
  BY <1>1
<1>2. CASE Stop \/ Stopping \/ Crash
  BY <1>2 DEF Stop, Stopping, StopRunner, StopLoop, Exit, Enter, Crash
<1>3. CASE Start
  BY <1>3 DEF Start, MinuteIsWhole
<1>4. CASE calm' \subseteq calm /\ now' = now /\ process' = process
  BY <1>4 DEF MinuteIsWhole
<1>5. \/ Minute \/ Stop \/ Stopping \/ Crash \/ Start
      \/ calm' \subseteq calm /\ now' = now /\ process' = process
  BY DEF Next, vars, Loop, LoopStart, LoopReads, LoopPlans, LoopWakes, LoopRunEnds, BesideLoop,
     Tick, TickBegins, TickLooks, TickReturns, BesideTick,
     Configure, Put, ReadBack, Reload, Signal, goroutines, store,
     EditTasks, SetOpen, Rebind, ManualRun, RunEnds,
     Job, Begin, Look, Claim, ClaimRefused, Reserve
<1> QED
  BY <1>1, <1>2, <1>3, <1>4, <1>5

\* Nobody claims when a minute begins for calm accounts.
LEMMA MinuteBegins ==
  ASSUME TypeOK, Exclusive, Minute, calm' # {}
  PROVE  /\ process = "up" /\ \A c \in Callers : ~Claims(c)
         /\ \A a \in calm' : reserved[a] = Nothing
         /\ UNCHANGED <<tick, job, account, reserved, process>> /\ now' = now + 1
<1>1. process = "up" /\ mu = Nothing
  BY DEF Minute
<1>2. Nothing \notin Callers
  BY AutomaticAssumption DEF Callers
<1> QED
  BY <1>1, <1>2 DEF Exclusive, Minute, store, goroutines

LEMMA WholeStep ==
  ASSUME TypeOK, Exclusive, MinuteIsWhole, [Next]_vars
  PROVE  MinuteIsWhole'
<1> SUFFICES ASSUME calm' # {}
             PROVE  /\ process' = "up"
                    /\ \A c \in Callers : job'[c].pc = "claim" => job'[c].at = now'
  BY DEF MinuteIsWhole
<1>1. CASE Minute
  BY <1>1, MinuteBegins DEF Claims
<1>2. CASE ~Minute
  <2>1. calm # {} /\ now' = now /\ process' = "up"
    BY <1>2, CalmShrinks
  <2>2. ASSUME NEW c \in Callers, job'[c].pc = "claim" PROVE job'[c].at = now
    <3>1. CASE job'[c] = job[c]
      BY <2>1, <2>2, <3>1 DEF MinuteIsWhole
    <3>2. CASE Elsewhere
      BY <2>2, <3>1, <3>2, ElsewhereClaims DEF Claims
    <3>3. ASSUME NEW d \in Callers, Job(d) PROVE job'[c].at = now
      <4>1. CASE c = d
        BY <2>2, <3>3, <4>1, JobTurns, EmptyJob
      <4>2. CASE c # d
        BY <3>1, <3>3, <4>2, JobClaims
      <4> QED
        BY <4>1, <4>2
    <3> QED
      BY <3>1, <3>2, <3>3, Steps DEF vars
  <2> QED
    BY <2>1, <2>2
<1> QED
  BY <1>1, <1>2

\* What is due or done at this minute depends on the account and the site only.
LEMMA SameMinute ==
  ASSUME NEW a, now' = now, site' = site, account'[a] = account[a]
  PROVE  (Due(a)' <=> Due(a)) /\ (Done(a)' <=> Done(a))
BY DEF Due, Done, OwnTimeIsNow, AutomaticDoneToday, Zone, SameDay

\* A step that leaves the account, the ticker and its call alone.
Leaves(a) ==
    /\ UNCHANGED <<now, site, tick>> /\ account'[a] = account[a]
    /\ reserved'[a] \in {reserved[a], Nothing}
    /\ job'["personal"] = job["personal"]
    /\ \A c \in Callers : job'[c] = job[c] \/ (job'[c].got = {} /\ job'[c].pc = "enter")

LEMMA LeftAlone ==
  ASSUME NEW a, Attended(a), Credited(a), Leaves(a)
  PROVE  Attended(a)' /\ Credited(a)'
<1>1. (Due(a)' <=> Due(a)) /\ (Done(a)' <=> Done(a))
  BY SameMinute DEF Leaves
<1>2. Attended(a)'
  BY <1>1 DEF Leaves, Attended, Working
<1>3. Credited(a)'
  BY <1>1 DEF Leaves, Credited
<1> QED
  BY <1>2, <1>3

\* Whoever edits an account, or the site, disturbs it.
LEMMA OthersLeave ==
  ASSUME TypeOK, NEW a \in calm', Next, ~Minute, ~Tick, \A c \in Callers : ~Job(c), process = "up"
  PROVE  Leaves(a)
<1>1. /\ job \in [Callers -> JobRecord] /\ account \in [Accounts -> AccountRecord]
      /\ reserved \in [Accounts -> Callers \union {"user", Nothing}] /\ "site" # "personal"
  BY DEF TypeOK
<1>2. CASE Loop
  <2>1. /\ UNCHANGED <<now, site, tick, account, reserved>>
        /\ \/ job' = job
           \/ job' = [job EXCEPT !["site"] = Called({b \in Accounts : account[b].own = Nothing})]
    BY <1>2 DEF Loop, LoopStart, LoopReads, LoopPlans, LoopWakes, LoopRunEnds, RunOnce, BesideLoop, store
  <2>2. CASE job' = job
    BY <2>1, <2>2 DEF Leaves
  <2>3. CASE job' = [job EXCEPT !["site"] = Called({b \in Accounts : account[b].own = Nothing})]
    <3>1. PICK called : called = Called({b \in Accounts : account[b].own = Nothing})
      OBVIOUS
    <3>2. called.got = {} /\ called.pc = "enter"
      BY <3>1 DEF Called, NoJob
    <3>3. job' = [job EXCEPT !["site"] = called]
      BY <2>3, <3>1
    <3> QED
      BY <1>1, <2>1, <3>2, <3>3 DEF Leaves
  <2> QED
    BY <2>1, <2>2, <2>3
<1>3. ASSUME NEW b \in Accounts, EditTasks(b) \/ SetOpen(b) \/ Rebind(b) \/ ManualRun(b)
      PROVE  Leaves(a)
  <2>1. a # b /\ UNCHANGED <<now, site, tick, job>>
    BY <1>3 DEF EditTasks, SetOpen, Rebind, ManualRun, goroutines, store
  <2>2. a \in Accounts
    BY <1>3 DEF EditTasks, SetOpen, Rebind, ManualRun, TypeOK
  <2>3. \/ account' = account /\ \E r : reserved' = [reserved EXCEPT ![b] = r]
        \/ reserved' = reserved /\ \E r : account' = [account EXCEPT ![b] = r]
    <3>1. CASE EditTasks(b)
      BY <3>1 DEF EditTasks
    <3>2. CASE SetOpen(b)
      BY <3>2 DEF SetOpen
    <3>3. CASE Rebind(b)
      BY <3>3 DEF Rebind
    <3>4. CASE ManualRun(b)
      BY <3>4 DEF ManualRun, store
    <3> QED
      BY <1>3, <3>1, <3>2, <3>3, <3>4
  <2>4. account'[a] = account[a] /\ reserved'[a] = reserved[a]
    BY <1>1, <2>1, <2>2, <2>3
  <2> QED
    BY <2>1, <2>4 DEF Leaves
<1>4. ASSUME NEW b \in Accounts, RunEnds(b) PROVE Leaves(a)
  BY <1>1, <1>4 DEF RunEnds, Leaves, goroutines, store
<1>5. ASSUME NEW h \in Puts, Configure(h) \/ Put(h) PROVE Leaves(a)
  BY <1>5 DEF Configure, Put, ReadBack, Reload, Signal, Leaves, goroutines, store
<1>6. CASE Stop \/ Stopping \/ Crash \/ Start
  BY <1>6 DEF Stop, Stopping, StopRunner, StopLoop, Exit, Enter, Crash, Start
<1> QED
  BY <1>2, <1>3, <1>4, <1>5, <1>6 DEF Next

\* The ticker passes nobody over.
LEMMA TickAttends ==
  ASSUME TypeOK, CallsAreClean, process = "up", Tick, NEW a \in Accounts, Attended(a), Credited(a)
  PROVE  Attended(a)' /\ Credited(a)'
<1>1. UNCHANGED <<now, site, account, reserved>>
  BY DEF Tick, TickBegins, TickLooks, TickReturns, BesideTick, store
<1>2. (Due(a)' <=> Due(a)) /\ (Done(a)' <=> Done(a))
  BY <1>1, SameMinute
<1>3. job \in [Callers -> JobRecord] /\ "personal" \in Callers
  BY Bounds DEF TypeOK
<1>4. Credited(a)'
  <2>1. CASE job' = job
    BY <1>1, <1>2, <2>1 DEF Credited
  <2>2. ASSUME NEW b, job' = [job EXCEPT !["personal"] = Called({b})] PROVE Credited(a)'
    <3>1. Called({b}).got = {} /\ Called({b}).pc = "enter"
      BY DEF Called, NoJob
    <3> QED
      BY <1>1, <1>2, <1>3, <2>2, <3>1 DEF Credited
  <2>3. job' = job \/ \E b : job' = [job EXCEPT !["personal"] = Called({b})]
    BY DEF Tick, TickBegins, TickLooks, TickReturns
  <2> QED
    BY <2>1, <2>2, <2>3
<1>5. ASSUME Due(a), ~Done(a)
      PROVE  /\ tick'.at = now => \/ tick'.pc \in {"scan", "call"} /\ a \in tick'.todo
                                  \/ tick'.pc = "call" /\ Working(a)'
             /\ tick'.attempted.at = now => a \notin tick'.attempted.who
  <2>1. /\ tick.at = now => \/ tick.pc \in {"scan", "call"} /\ a \in tick.todo
                            \/ tick.pc = "call" /\ Working(a)
        /\ tick.attempted.at = now => a \notin tick.attempted.who
    BY <1>5 DEF Attended
  <2>2. site.enabled
    BY <1>5 DEF Due
  <2>3. CASE /\ tick.pc = "idle" /\ tick'.at = now /\ tick'.attempted = tick.attempted
             /\ tick'.pc = "scan" /\ tick'.todo = Accounts
    BY <2>1, <2>3
  <2>4. CASE tick.pc = "scan" /\ tick'.at = tick.at
    <3>1. ASSUME NEW b \in tick.todo, ~CustomRunDue(b, tick.at) \/ Attempted(b),
                 tick'.pc = "scan", tick'.todo = tick.todo \ {b}, tick'.attempted = tick.attempted, tick.at = now
          PROVE  a # b
      BY <1>5, <2>1, <3>1 DEF CustomRunDue, Attempted, Due, Done
    <3>2. ASSUME NEW b \in tick.todo, job' = [job EXCEPT !["personal"] = Called({b})]
          PROVE  a = b => Working(a)'
      <4>1. Called({b}).todo = {b}
        BY DEF Called, NoJob
      <4> QED
        BY <1>3, <3>2, <4>1 DEF Working
    <3> QED
      BY <2>1, <2>4, <3>1, <3>2, TickTurns
  <2>5. CASE /\ tick.pc = "call" /\ job["personal"].pc = "idle"
             /\ tick'.pc = "scan" /\ tick'.todo = tick.todo /\ tick'.at = tick.at
             /\ tick'.attempted = tick.attempted
    <3>1. ~Working(a)
      BY <1>3, <2>5 DEF CallsAreClean, Working
    <3> QED
      BY <2>1, <2>5, <3>1
  <2> QED
    BY <2>1, <2>2, <2>3, <2>4, <2>5, TickTurns
<1>6. Attended(a)'
  BY <1>1, <1>2, <1>5 DEF Attended
<1> QED
  BY <1>4, <1>6

\* A claim of this minute makes the account done for the day.
LEMMA ClaimIsDone ==
  ASSUME TypeOK, ClaimsAreFresh, NEW c \in Callers, Claim(c), job[c].at = now
  PROVE  \E b \in Accounts :
           /\ b = job[c].cur /\ Done(b)'
           /\ \A a \in Accounts \ {b} : account'[a] = account[a]
           /\ account'[b].rev = account[b].rev
           /\ UNCHANGED <<now, site, tick, reserved>>
<1>1. PICK b \in Accounts : b = job[c].cur
  BY DEF ClaimsAreFresh, Claim
<1>2. account \in [Accounts -> AccountRecord] /\ account[b] \in AccountRecord /\ now # 0
  BY DEF TypeOK, Times
<1>3. UNCHANGED <<now, site, tick, reserved>> /\ account' = [account EXCEPT ![b].last = now]
  BY <1>1 DEF Claim
<1>4. account'[b].last = now /\ account'[b].rev = account[b].rev
  BY <1>2, <1>3 DEF AccountRecord
<1>5. Done(b)'
  BY <1>2, <1>3, <1>4 DEF Done, AutomaticDoneToday, SameDay
<1> QED
  BY <1>1, <1>2, <1>3, <1>4, <1>5

\* A call of begin passes nobody over whom the ticker called it for.
LEMMA JobAttends ==
  ASSUME TypeOK, Exclusive, ClaimsAreFresh, CallsAreClean, MinuteIsWhole, NEW c \in Callers, Job(c),
         NEW a \in Accounts, a \in calm, a \in calm', process = "up", Attended(a), Credited(a)
  PROVE  Attended(a)' /\ Credited(a)'
<1>1. UNCHANGED <<now, site, tick>>
  BY DEF Job, Begin, Look, Claim, ClaimRefused, Reserve, store
<1>2. \A d \in Callers \ {c} : job'[d] = job[d]
  BY JobClaims
<1>3. "personal" \in Callers /\ Nothing \notin Accounts
  BY Bounds, AutomaticAssumption
<1>4. job \in [Callers -> JobRecord] /\ job[c] \in JobRecord
  BY DEF TypeOK
<1>5. ASSUME Done(a)', \A d \in Callers : job'[d].pc = "claim" /\ job'[d].cur = a => job'[d].rev = account'[a].rev
      PROVE  Attended(a)' /\ Credited(a)'
  BY <1>5 DEF Attended, Credited
<1>6. CASE Begin(c)
  <2>1. UNCHANGED <<account, reserved>> /\ ~RunnerStopped
    BY <1>6 DEF Begin, store, RunnerStopped
  <2>2. (Due(a)' <=> Due(a)) /\ (Done(a)' <=> Done(a))
    BY <1>1, <2>1, SameMinute
  <2>3. /\ job[c].got = {} /\ job[c].pc = "enter"
        /\ \/ Refused /\ job'[c] = NoJob
           \/ job'[c].pc = "look" /\ job'[c].todo = job[c].todo /\ job'[c].got = job[c].got
    BY <1>6, JobTurns DEF CallsAreClean, Claims, Begin, Look, Claim, ClaimRefused, Reserve
  <2>4. Credited(a)'
    BY <1>2, <2>1, <2>2, <2>3, EmptyJob DEF Credited
  <2>5. CASE Refused
    <3>1. ~Due(a)
      BY <2>1, <2>5 DEF Refused, Due
    <3> QED
      BY <2>2, <2>4, <3>1 DEF Attended
  <2>6. CASE ~Refused
    <3>1. Working(a)' <=> Working(a)
      BY <1>2, <1>3, <2>3, <2>6 DEF Working
    <3> QED
      BY <1>1, <2>2, <2>4, <3>1 DEF Attended
  <2> QED
    BY <2>5, <2>6
<1>7. ASSUME NEW b \in Accounts, Look(c, b) PROVE Attended(a)' /\ Credited(a)'
  <2>1. UNCHANGED <<account, reserved>>
    BY <1>7 DEF Look, store
  <2>2. (Due(a)' <=> Due(a)) /\ (Done(a)' <=> Done(a))
    BY <1>1, <2>1, SameMinute
  <2>3. job[c].pc = "look"
    BY <1>7 DEF Look
  <2>4. /\ job'[c].todo = job[c].todo \ {b} /\ job'[c].got = job[c].got
        /\ IF account[b].open /\ account[b].automatic /\ reserved[b] = Nothing
           THEN job'[c].pc = "claim" /\ job'[c].cur = b /\ job'[c].rev = account[b].rev
           ELSE job'[c].pc = "look"
    BY <1>4, <1>7, <2>3 DEF Look, JobRecord
  <2>5. Credited(a)'
    BY <1>2, <2>1, <2>2, <2>4 DEF Credited
  <2>6. Due(a) /\ ~Done(a) /\ Working(a) => Working(a)'
    <3>1. Due(a) /\ ~Done(a) => account[a].open /\ account[a].automatic /\ reserved[a] = Nothing
      BY DEF Due, Credited
    <3> QED
      BY <1>2, <1>3, <2>3, <2>4, <3>1 DEF Working
  <2>7. Attended(a)'
    BY <1>1, <2>2, <2>6 DEF Attended
  <2> QED
    BY <2>5, <2>7
<1>8. CASE Claim(c)
  <2>1. job[c].pc = "claim" /\ job[c].at = now
    BY <1>8 DEF Claim, MinuteIsWhole
  <2>2. PICK b \in Accounts :
           /\ b = job[c].cur /\ Done(b)'
           /\ \A i \in Accounts \ {b} : account'[i] = account[i]
           /\ account'[b].rev = account[b].rev
           /\ UNCHANGED <<now, site, tick, reserved>>
    BY <1>8, <2>1, ClaimIsDone
  <2>3. job'[c].pc = "look" /\ job'[c].todo = job[c].todo /\ job'[c].got = job[c].got \union {b}
    BY <1>4, <1>8, <2>2 DEF Claim, JobRecord
  <2>4. CASE a = b
    BY <1>2, <1>5, <2>2, <2>3, <2>4 DEF Credited
  <2>5. CASE a # b
    <3>1. account'[a] = account[a]
      BY <2>2, <2>5
    <3>2. (Due(a)' <=> Due(a)) /\ (Done(a)' <=> Done(a))
      BY <1>1, <3>1, SameMinute
    <3>3. Working(a)' <=> Working(a)
      BY <1>2, <1>3, <2>1, <2>2, <2>3, <2>5 DEF Working
    <3>4. Credited(a)'
      BY <1>2, <2>2, <2>3, <2>5, <3>1, <3>2 DEF Credited
    <3> QED
      BY <1>1, <3>2, <3>3, <3>4 DEF Attended
  <2> QED
    BY <2>4, <2>5
<1>9. CASE ClaimRefused(c)
  <2>1. UNCHANGED <<account, reserved>> /\ job[c].pc = "claim"
    BY <1>9 DEF ClaimRefused
  <2>2. (Due(a)' <=> Due(a)) /\ (Done(a)' <=> Done(a))
    BY <1>1, <2>1, SameMinute
  <2>3. job'[c].pc = "look" /\ job'[c].todo = job[c].todo /\ job'[c].got = job[c].got
    BY <1>4, <1>9 DEF ClaimRefused, JobRecord
  <2>4. Credited(a)'
    BY <1>2, <2>1, <2>2, <2>3 DEF Credited
  <2>5. CASE a = job[c].cur
    <3>1. ~Claimable(a, job[c].rev, job[c].at)
      BY <1>9, <2>5 DEF ClaimRefused
    <3>2. job[c].rev = account[a].rev /\ job[c].at = now
      BY <2>1, <2>5 DEF Credited, MinuteIsWhole
    <3>3. ~Due(a) \/ Done(a)
      BY <3>1, <3>2 DEF Claimable, Due, Done
    <3> QED
      BY <2>2, <2>4, <3>3 DEF Attended
  <2>6. CASE a # job[c].cur
    <3>1. Working(a)' <=> Working(a)
      BY <1>2, <1>3, <2>1, <2>3, <2>6 DEF Working
    <3> QED
      BY <1>1, <2>2, <2>4, <3>1 DEF Attended
  <2> QED
    BY <2>5, <2>6
<1>10. CASE Reserve(c)
  <2>1. /\ UNCHANGED account /\ job[c].pc = "look" /\ job[c].todo = {}
        /\ reserved' = [i \in Accounts |-> IF i \in job[c].got THEN c ELSE reserved[i]]
    BY <1>10 DEF Reserve, store
  <2>2. (Due(a)' <=> Due(a)) /\ (Done(a)' <=> Done(a))
    BY <1>1, <2>1, SameMinute
  <2>3. job'[c] = NoJob
    BY <1>10, <2>1, JobTurns DEF Begin, Look, Claim, ClaimRefused, Reserve, Claims
  <2>4. reserved'[a] # Nothing => Done(a)
    BY <2>1 DEF Credited
  <2>5. Credited(a)'
    BY <1>2, <2>1, <2>2, <2>3, <2>4, EmptyJob DEF Credited
  <2>6. Working(a) => Working(a)'
    BY <1>2, <1>3, <2>1 DEF Working
  <2> QED
    BY <1>1, <2>2, <2>5, <2>6 DEF Attended
<1> QED
  BY <1>6, <1>7, <1>8, <1>9, <1>10 DEF Job

LEMMA CalmStep ==
  ASSUME IInv, CalmInv, [Next]_vars
  PROVE  CalmInv'
<1>1. TypeOK /\ Exclusive /\ ClaimsAreFresh /\ TypeOK'
  BY NextIInv DEF IInv
<1>2. TickBehind' /\ CallsAreClean' /\ MinuteIsWhole'
  BY <1>1, BehindStep, CleanStep, WholeStep DEF CalmInv
<1>3. ASSUME NEW a \in calm' PROVE Attended(a)' /\ Credited(a)'
  <2>1. a \in Accounts
    BY <1>1, <1>3 DEF TypeOK
  <2>2. CASE Minute
    <3>1. /\ \A c \in Callers : ~Claims(c)
          /\ reserved[a] = Nothing
          /\ UNCHANGED <<tick, job, account, reserved>> /\ now' = now + 1
      BY <1>1, <1>3, <2>2, MinuteBegins
    <3>2. now \in Nat /\ tick.at \in Nat /\ tick.attempted.at \in Nat
      BY <1>1, Marks DEF TypeOK, TickRecord
    <3>3. tick.at # now' /\ tick.attempted.at # now'
      BY <3>1, <3>2 DEF CalmInv, TickBehind
    <3>4. \A c \in Callers : job[c].got = {} /\ job[c].pc # "claim"
      BY <3>1 DEF CalmInv, CallsAreClean, Claims
    <3> QED
      BY <3>1, <3>3, <3>4 DEF Attended, Credited
  <2>3. CASE ~Minute
    <3>1. a \in calm /\ process = "up"
      BY <1>3, <2>3, CalmShrinks DEF CalmInv
    <3>2. Attended(a) /\ Credited(a)
      BY <3>1 DEF CalmInv
    <3>3. CASE Tick
      BY <1>1, <2>1, <3>1, <3>2, <3>3, TickAttends DEF CalmInv
    <3>4. ASSUME NEW c \in Callers, Job(c) PROVE Attended(a)' /\ Credited(a)'
      BY <1>1, <1>3, <2>1, <3>1, <3>2, <3>4, JobAttends DEF CalmInv
    <3>5. CASE UNCHANGED vars
      <4>1. Leaves(a)
        BY <3>5 DEF vars, Leaves
      <4> QED
        BY <3>2, <4>1, LeftAlone
    <3>6. CASE Next /\ ~Tick /\ \A c \in Callers : ~Job(c)
      <4>1. Leaves(a)
        BY <1>1, <1>3, <2>3, <3>1, <3>6, OthersLeave
      <4> QED
        BY <3>2, <4>1, LeftAlone
    <3> QED
      BY <3>3, <3>4, <3>5, <3>6
  <2> QED
    BY <2>2, <2>3
<1> QED
  BY <1>2, <1>3 DEF CalmInv

\* A user's own time is never passed over: an account that is due, and that nobody
\* ran, edited or stopped in this minute, has had its run of the day when the
\* ticker has looked (Personal.tick and Runner.begin).
THEOREM OwnTimesAreServed == Spec => OwnTimeIsServed
<1>1. CalmInv => \A a \in calm : tick.pc = "idle" /\ tick.at = now /\ Due(a) => Done(a)
  BY DEF CalmInv, Attended
<1>2. CalmInv => \A a \in calm :
                   /\ now' # now
                   /\ tick.pc = "idle" /\ tick.at = now
                   /\ account[a].open /\ account[a].automatic /\ site.enabled
                   /\ OwnTimeIsNow(a, now)
                   => AutomaticDoneToday(a, now)
  BY <1>1 DEF Due, Done
<1>3. IInv /\ CalmInv /\ [Next]_vars => CalmInv'
  BY CalmStep
<1> QED
  BY <1>2, <1>3, InitCalm, Invariance, PTL DEF Spec, OwnTimeIsServed
=============================================================================
