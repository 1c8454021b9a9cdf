--------------------------- MODULE TaskRunner_proofs ---------------------------
(***************************************************************************)
(* Proofs about TaskRunner: reservations, stale runs, late requests and    *)
(* renewed cookies, for any accounts, batches and bounds.                  *)
(***************************************************************************)
EXTENDS TaskRunner, TLAPS

-----------------------------------------------------------------------------
(* The inductive invariant. *)

\* What a batch has yet to turn to, and the account it is at, is reserved for it;
\* whatever is reserved for it it chose, and it has not ended.
Reserved ==
    /\ \A b \in Batches : batch[b].pc \in Held => batch[b].cur \in batch[b].todo
    /\ \A b \in Batches : \A a \in batch[b].todo : Active(b) => reserved[a] = b
    /\ \A a \in Accounts : reserved[a] # None =>
         Active(reserved[a]) /\ a \in batch[reserved[a]].chosen

\* The goroutine has read the configuration and has yet to write its record.
Configured(b) == batch[b].pc \in Working \union {"context"}
\* Its context is cancelled or will be.
Doomed(b) == Stopped(b, batch[b].cur) \/ revoking[batch[b].cur] > 0

Stale ==
    \A b \in Batches :
        Configured(b) /\ account[batch[b].cur].work # batch[b].work => Doomed(b)

\* Credentials only move on, so a snapshot that differs never fits again.
Behind(seen, now) ==
    \/ seen.login < now.login
    \/ seen.login = now.login /\ seen.cookie.no =< now.cookie.no
Credentials ==
    /\ \A a \in Accounts : account[a].cookie.of = account[a].login
    /\ \A b \in Batches : batch[b].seen.cookie.of = batch[b].seen.login
    /\ \A b \in Batches : batch[b].pc \in Held => Behind(batch[b].seen, account[batch[b].cur])

Late ==
    \A b \in Batches :
        /\ Configured(b) /\ late[b] > 0 =>
             \/ Doomed(b)
             \/ ~Runnable(batch[b].cur)
             \/ ~SameLogin(batch[b].cur, batch[b].seen)
        /\ batch[b].pc = "asked" /\ late[b] > 0 => Doomed(b)
        /\ batch[b].pc \in Working /\ late[b] > 1 => Doomed(b)
        /\ batch[b].pc \in {"idle", "next", "config", "context", "ending", "ended"} => late[b] = 0

Over == process # "up" => \A b \in Batches : Active(b) => batch[b].over
Down == process = "down" => \A b \in Batches : ~Active(b)

IInv == TypeOK /\ Reserved /\ Stale /\ Credentials /\ Late /\ Over /\ Down

-----------------------------------------------------------------------------
(* What each step of a batch does to its record. *)

\* The other batches are untouched, and of b's record what no step but the first
\* and the last changes.
Keeps(b) ==
    /\ batch' \in [Batches -> BatchRecord]
    /\ \A c \in Batches \ {b} : batch'[c] = batch[c]
    /\ batch'[b].over = batch[b].over
    /\ batch'[b].chosen = batch[b].chosen
SameAccount(b) ==
    /\ batch'[b].cur = batch[b].cur /\ batch'[b].seen = batch[b].seen
    /\ batch'[b].work = batch[b].work /\ batch'[b].todo = batch[b].todo

\* b goes on with the account it is at.
GoesOn(b, place) == Keeps(b) /\ SameAccount(b) /\ batch'[b].pc = place

LEMMA Records ==
  ASSUME TypeOK, NEW b \in Batches
  PROVE  /\ batch \in [Batches -> BatchRecord] /\ batch[b] \in BatchRecord
         /\ batch[b].pc \in Places /\ batch[b].todo \subseteq Accounts
         /\ batch[b].chosen \subseteq Accounts
         /\ batch[b].cur \in Accounts \union {None} /\ batch[b].left \in Nat
         /\ batch[b].seen \in AccountRecord /\ batch[b].over \in BOOLEAN
         /\ batch[b].work \in Works
BY DEF TypeOK, BatchRecord

\* A batch is at an account while it holds one.
LEMMA Held_Cur ==
  ASSUME TypeOK, Reserved, NEW b \in Batches, batch[b].pc \in Held
  PROVE  /\ batch[b].cur \in batch[b].todo /\ batch[b].cur \in Accounts
         /\ account[batch[b].cur] \in AccountRecord
         /\ reserved[batch[b].cur] = b
         /\ revoking[batch[b].cur] \in Nat
<1>1. batch[b].cur \in batch[b].todo /\ batch[b].todo \subseteq Accounts
  BY Records DEF Reserved
<1>2. Active(b)
  BY DEF Active, Held, Working
<1> QED BY <1>1, <1>2 DEF Reserved, TypeOK

LEMMA GoesFacts ==
  ASSUME TypeOK, NEW b \in Batches, NEW place \in Places, batch' = Goes(b, place)
  PROVE  GoesOn(b, place)
<1>1. batch \in [Batches -> BatchRecord] /\ batch[b] \in BatchRecord
  BY Records
<1>2. batch' = [batch EXCEPT ![b].pc = place]
  BY DEF Goes
<1> QED BY <1>1, <1>2 DEF GoesOn, Keeps, SameAccount, BatchRecord

LEMMA AloneFacts ==
  ASSUME NEW place \in Places, NEW chosen \in SUBSET Accounts, NEW todo \in SUBSET Accounts,
         NEW over \in BOOLEAN, NEW on \in BOOLEAN
  PROVE  Alone(place, chosen, todo, over, on) \in BatchRecord
<1>1. NewAccount \in AccountRecord
  BY RunnerAssumption DEF NewAccount, AccountRecord
<1> QED BY <1>1, RunnerAssumption DEF Alone, BatchRecord

LEMMA BetweenFacts ==
  ASSUME TypeOK, NEW b \in Batches, NEW place \in Places,
         batch' = [batch EXCEPT ![b] = Between(b, place)]
  PROVE  /\ Keeps(b) /\ batch'[b].pc = place
         /\ batch'[b].todo = batch[b].todo \ {batch[b].cur}
         /\ batch'[b].seen = NewAccount
<1> DEFINE r == batch[b]
<1>1. batch \in [Batches -> BatchRecord] /\ r \in BatchRecord
  BY Records
<1>2. NewAccount \in AccountRecord
  BY RunnerAssumption DEF NewAccount, AccountRecord
<1>3. Between(b, place) = Alone(place, r.chosen, r.todo \ {r.cur}, r.over, TRUE)
  BY DEF Between
<1>4. Between(b, place) \in BatchRecord
  <2>1. r.chosen \in SUBSET Accounts /\ r.todo \ {r.cur} \in SUBSET Accounts /\ r.over \in BOOLEAN
    BY Records
  <2> QED BY <1>3, <2>1, AloneFacts
<1> QED BY <1>1, <1>3, <1>4 DEF Keeps, Alone

LEMMA TakeFacts ==
  ASSUME TypeOK, NEW b \in Batches, TakeAccount(b)
  PROVE  /\ Keeps(b) /\ batch[b].pc = "next"
         /\ \/ /\ batch'[b].pc = "config" /\ batch'[b].todo = batch[b].todo
               /\ batch'[b].cur \in batch[b].todo
               /\ batch'[b].seen = account[batch'[b].cur]
               /\ Runnable(batch'[b].cur)
            \/ /\ batch'[b].pc = "next" /\ batch'[b].todo \subseteq batch[b].todo
               /\ batch'[b].seen = batch[b].seen
<1>1. PICK a \in batch[b].todo :
        batch' = IF Runnable(a)
                 THEN [batch EXCEPT ![b].pc = "config", ![b].cur = a, ![b].seen = account[a]]
                 ELSE [batch EXCEPT ![b].todo = @ \ {a}]
  BY DEF TakeAccount
<1>2. /\ batch \in [Batches -> BatchRecord] /\ batch[b] \in BatchRecord
      /\ a \in Accounts /\ account[a] \in AccountRecord
  BY Records DEF TypeOK
<1>3. "config" \in Places /\ batch[b].pc = "next"
  BY DEF TakeAccount, Places, Held
<1>4. CASE Runnable(a)
  <2>1. batch' = [batch EXCEPT ![b].pc = "config", ![b].cur = a, ![b].seen = account[a]]
    BY <1>1, <1>4
  <2> HIDE DEF Runnable
  <2> QED BY <2>1, <1>2, <1>3, <1>4 DEF Keeps, BatchRecord
<1>5. CASE ~Runnable(a)
  <2>1. batch' = [batch EXCEPT ![b].todo = @ \ {a}]
    BY <1>1, <1>5
  <2> QED BY <2>1, <1>2, <1>3 DEF Keeps, BatchRecord
<1> QED BY <1>4, <1>5

LEMMA ReadFacts ==
  ASSUME TypeOK, Reserved, NEW b \in Batches, ReadConfig(b)
  PROVE  /\ Keeps(b) /\ batch[b].pc = "config"
         /\ \/ /\ batch'[b].pc = "context" /\ batch'[b].todo = batch[b].todo
               /\ batch'[b].cur = batch[b].cur /\ batch'[b].seen = batch[b].seen
               /\ batch'[b].work = account[batch[b].cur].work
               /\ Runnable(batch[b].cur)
            \/ /\ batch'[b].pc = "next"
               /\ batch'[b].todo = batch[b].todo \ {batch[b].cur}
               /\ batch'[b].seen = NewAccount
<1> DEFINE a == batch[b].cur
<1>1. /\ batch \in [Batches -> BatchRecord] /\ batch[b] \in BatchRecord
      /\ batch[b].pc = "config"
  BY Records DEF ReadConfig
<1>2. "context" \in Places /\ "next" \in Places
  BY DEF Places, Held
<1>3. \/ batch' = NextAccount(b)
      \/ /\ batch' = [batch EXCEPT ![b].pc = "context", ![b].work = account[a].work,
                                   ![b].on = site, ![b].left = MaxRequests]
         /\ Runnable(a)
  BY DEF ReadConfig
<1>4. a \in Accounts /\ account[a].work \in Works /\ site \in BOOLEAN /\ MaxRequests \in Nat
  <2>1. batch[b].pc \in Held
    BY <1>1 DEF Held
  <2>2. account[a] \in AccountRecord /\ a \in Accounts
    BY <2>1, Held_Cur
  <2> QED BY <2>2, RunnerAssumption DEF AccountRecord, TypeOK
<1>5. CASE batch' = NextAccount(b)
  BY <1>1, <1>2, <1>5, BetweenFacts DEF NextAccount
<1>6. CASE batch' = [batch EXCEPT ![b].pc = "context", ![b].work = account[a].work,
                                  ![b].on = site, ![b].left = MaxRequests] /\ Runnable(a)
  <2> HIDE DEF Runnable
  <2> QED BY <1>1, <1>2, <1>4, <1>6 DEF Keeps, BatchRecord
<1> QED BY <1>3, <1>5, <1>6

\* The steps in which the batch goes on with the account it is at, and nothing
\* else happens but to its context and its count of late requests.
Moves(b) ==
    \/ FindContext(b) \/ SkipRenewal(b) \/ Ask(b) \/ AskRefused(b) \/ SiteRefuses(b)
    \/ Send(b) \/ Answer(b) \/ LoseRenewal(b) \/ FinishTasks(b) \/ Record(b)

LEMMA MoveFacts ==
  ASSUME TypeOK, NEW b \in Batches, Moves(b)
  PROVE  /\ Keeps(b) /\ SameAccount(b)
         /\ batch[b].pc \in Held
         /\ batch'[b].pc \in Working \union {"record", "release", "ending"}
         /\ batch'[b].pc = "ending" => batch[b].pc = "context"
         /\ batch'[b].pc = "asked" => Ask(b)
         /\ batch'[b].pc \in Working \union {"context"} => Configured(b)
<1> USE DEF Held, Working, Configured
<1>1. /\ batch \in [Batches -> BatchRecord] /\ batch[b] \in BatchRecord /\ batch[b].left \in Nat
  BY Records
<1>2. \A p \in Held \union {"ending"} : p \in Places
  BY DEF Places
<1>3. CASE FindContext(b)
  <2>1. PICK p \in {"release", "ending", "renew"} : batch' = Goes(b, p)
    BY <1>3 DEF FindContext
  <2>2. p \in Places
    BY <1>2
  <2>3. GoesOn(b, p)
    BY <2>1, <2>2, GoesFacts
  <2> QED BY <1>3, <2>3 DEF FindContext, GoesOn
<1>4. CASE SkipRenewal(b)
  <2>1. GoesOn(b, "tasks")
    BY <1>2, <1>4, GoesFacts DEF SkipRenewal
  <2> QED BY <1>4, <2>1 DEF SkipRenewal, GoesOn
<1>5. CASE Send(b)
  <2>1. GoesOn(b, "sent")
    BY <1>2, <1>5, GoesFacts DEF Send
  <2> QED BY <1>5, <2>1 DEF Send, GoesOn
<1>6. CASE FinishTasks(b)
  <2>1. GoesOn(b, "record")
    BY <1>2, <1>6, GoesFacts DEF FinishTasks
  <2> QED BY <1>6, <2>1 DEF FinishTasks, GoesOn
<1>7. CASE Record(b)
  <2>1. GoesOn(b, "release")
    BY <1>2, <1>7, GoesFacts DEF Record
  <2> QED BY <1>7, <2>1 DEF Record, GoesOn
<1>8. CASE SiteRefuses(b)
  <2>1. batch[b].pc = "asked" /\ batch' = [batch EXCEPT ![b].pc = "tasks", ![b].renewing = FALSE]
    BY <1>8 DEF SiteRefuses
  <2>2. "tasks" \in Places
    BY <1>2
  <2> QED BY <2>1, <2>2, <1>1 DEF Keeps, SameAccount, BatchRecord
<1>9. CASE LoseRenewal(b)
  <2>1. batch[b].pc = "storing" /\ batch' = [batch EXCEPT ![b].pc = "release", ![b].renewing = FALSE]
    BY <1>9 DEF LoseRenewal
  <2>2. "release" \in Places
    BY <1>2
  <2> QED BY <2>1, <2>2, <1>1 DEF Keeps, SameAccount, BatchRecord
<1>10. CASE Answer(b)
  <2>1. batch[b].pc = "sent"
    BY <1>10 DEF Answer
  <2>2. CASE batch' = [batch EXCEPT ![b].pc = "tasks", ![b].renewing = FALSE]
    <3>1. "tasks" \in Places
      BY <1>2
    <3> QED BY <2>1, <2>2, <3>1, <1>1 DEF Keeps, SameAccount, BatchRecord
  <2>3. CASE batch' = Goes(b, "storing")
    <3>1. GoesOn(b, "storing")
      BY <1>2, <2>3, GoesFacts
    <3> QED BY <2>1, <3>1 DEF GoesOn
  <2> QED BY <1>10, <2>2, <2>3 DEF Answer
<1>11. Spent(b) \in Nat \/ ~WantsRequest(b)
  BY <1>1 DEF Spent, WantsRequest
<1>12. CASE Ask(b)
  <2>1. /\ WantsRequest(b)
        /\ batch' = [batch EXCEPT ![b].pc = "asked", ![b].left = Spent(b),
                                  ![b].renewing = batch[b].pc = "renew"]
    BY <1>12 DEF Ask
  <2>2. PICK flag \in BOOLEAN : flag = (batch[b].pc = "renew")
    OBVIOUS
  <2>3. batch' = [batch EXCEPT ![b].pc = "asked", ![b].left = Spent(b), ![b].renewing = flag]
    BY <2>1, <2>2, Zenon
  <2>4. "asked" \in Places /\ Spent(b) \in Nat
    BY <1>2, <1>11, <2>1
  <2>5. batch[b].pc \in {"renew", "tasks"}
    BY <2>1 DEF WantsRequest
  <2> HIDE DEF Held, Working
  <2>6. Keeps(b) /\ SameAccount(b) /\ batch'[b].pc = "asked"
    BY <1>1, <2>3, <2>4 DEF Keeps, SameAccount, BatchRecord
  <2> QED BY <1>12, <2>5, <2>6 DEF Held, Working
<1>13. CASE AskRefused(b)
  <2>1. /\ WantsRequest(b)
        /\ batch' = [batch EXCEPT ![b].pc = "tasks", ![b].left = Spent(b)]
    BY <1>13 DEF AskRefused
  <2>2. "tasks" \in Places /\ Spent(b) \in Nat
    BY <1>2, <1>11, <2>1
  <2>3. batch[b].pc \in {"renew", "tasks"}
    BY <2>1 DEF WantsRequest
  <2>4. Keeps(b) /\ SameAccount(b) /\ batch'[b].pc = "tasks"
    BY <1>1, <2>1, <2>2 DEF Keeps, SameAccount, BatchRecord
  <2> QED BY <2>3, <2>4
<1> QED
  BY <1>3, <1>4, <1>5, <1>6, <1>7, <1>8, <1>9, <1>10, <1>12, <1>13 DEF Moves

LEMMA ContextTypes ==
  ASSUME TypeOK, NEW as \in SUBSET Accounts
  PROVE  /\ Contexts(as) \subseteq Batches \X Accounts
         /\ \A a \in as : \A b \in Batches : reserved[a] = b => <<b, a>> \in Contexts(as)
<1>1. ASSUME NEW s \in Contexts(as)
      PROVE  s \in Batches \X Accounts
  <2>1. PICK a \in {x \in as : reserved[x] # None} : s = <<reserved[a], a>>
    BY DEF Contexts
  <2>2. a \in Accounts /\ reserved[a] \in Batches
    BY <2>1 DEF TypeOK
  <2> QED BY <2>1, <2>2
<1>2. ASSUME NEW a \in as, NEW b \in Batches, reserved[a] = b
      PROVE  <<b, a>> \in Contexts(as)
  <2>1. a \in {x \in as : reserved[x] # None}
    BY <1>2, RunnerAssumption
  <2> QED BY <1>2, <2>1, Zenon DEF Contexts
<1> QED BY <1>1, <1>2

LEMMA MoveRest ==
  ASSUME TypeOK, Reserved, NEW b \in Batches, Moves(b)
  PROVE  /\ TypeOK'
         /\ UNCHANGED <<account, site, reserved, revoking, sweeping, leaving, process, changes>>
         /\ stopped \subseteq stopped'
         /\ \A c \in Batches \ {b} : late'[c] = late[c]
<1>1. /\ UNCHANGED <<account, site, reserved, revoking, sweeping, leaving, process, changes>>
      /\ \/ UNCHANGED stopped
         \/ stopped' = stopped \union Contexts({batch[b].cur})
      /\ \/ UNCHANGED late
         \/ late' = [late EXCEPT ![b] = @ + 1]
      /\ \/ UNCHANGED failedSaves
         \/ failedSaves < MaxFailedSaves /\ failedSaves' = failedSaves + 1
  <2> USE DEF store, handlers
  <2>1. CASE FindContext(b)  BY <2>1 DEF FindContext
  <2>2. CASE SkipRenewal(b)  BY <2>2 DEF SkipRenewal
  <2>3. CASE Ask(b)  BY <2>3 DEF Ask
  <2>4. CASE AskRefused(b)  BY <2>4 DEF AskRefused
  <2>5. CASE SiteRefuses(b)  BY <2>5 DEF SiteRefuses
  <2>6. CASE Send(b)  BY <2>6 DEF Send
  <2>7. CASE Answer(b)  BY <2>7 DEF Answer
  <2>8. CASE LoseRenewal(b)  BY <2>8 DEF LoseRenewal
  <2>9. CASE FinishTasks(b)  BY <2>9 DEF FinishTasks
  <2>10. CASE Record(b)  BY <2>10 DEF Record
  <2> QED
    BY <2>1, <2>2, <2>3, <2>4, <2>5, <2>6, <2>7, <2>8, <2>9, <2>10 DEF Moves
<1>2. batch' \in [Batches -> BatchRecord] /\ batch[b].pc \in Held
  BY MoveFacts DEF Keeps
<1>3. batch[b].cur \in Accounts
  BY <1>2, Held_Cur
<1>4. stopped' \subseteq Batches \X Accounts
  BY <1>1, <1>3, ContextTypes DEF TypeOK
<1>5. late' \in [Batches -> Nat] /\ \A c \in Batches \ {b} : late'[c] = late[c]
  BY <1>1 DEF TypeOK
<1>6. failedSaves' \in 0 .. MaxFailedSaves
  BY <1>1, RunnerAssumption DEF TypeOK
<1> QED BY <1>1, <1>2, <1>4, <1>5, <1>6 DEF TypeOK

LEMMA StoreFacts ==
  ASSUME TypeOK, Reserved, NEW b \in Batches, StoreRenewal(b)
  PROVE  /\ Keeps(b) /\ batch[b].pc = "storing" /\ batch'[b].pc = "tasks"
         /\ batch'[b].cur = batch[b].cur /\ batch'[b].todo = batch[b].todo
         /\ batch'[b].work = batch[b].work
         /\ batch'[b].seen = WithCookie(b) /\ WithCookie(b) \in AccountRecord
         /\ account' = [account EXCEPT ![batch[b].cur] = WithCookie(b)]
         /\ TypeOK'
<1> DEFINE a == batch[b].cur
<1>1. /\ batch[b].pc = "storing"
      /\ account' = [account EXCEPT ![a] = WithCookie(b)]
      /\ batch' = [batch EXCEPT ![b].pc = "tasks", ![b].renewing = FALSE,
                                ![b].seen = WithCookie(b)]
      /\ UNCHANGED <<site, reserved, stopped, handlers, process, failedSaves, late>>
  BY DEF StoreRenewal
<1>2. a \in Accounts /\ account[a] \in AccountRecord
  BY <1>1, Held_Cur DEF Held, Working
<1>3. batch[b].seen \in AccountRecord /\ batch \in [Batches -> BatchRecord] /\ batch[b] \in BatchRecord
  BY Records
<1>4. WithCookie(b) \in AccountRecord
  BY <1>2, <1>3 DEF WithCookie, AccountRecord
<1>5. "tasks" \in Places
  BY DEF Places, Held, Working
<1>6. /\ Keeps(b) /\ batch'[b].pc = "tasks"
      /\ batch'[b].cur = batch[b].cur /\ batch'[b].todo = batch[b].todo
      /\ batch'[b].work = batch[b].work /\ batch'[b].seen = WithCookie(b)
  BY <1>1, <1>3, <1>4, <1>5 DEF Keeps, BatchRecord
<1>7. account' \in [Accounts -> AccountRecord]
  BY <1>1, <1>2, <1>4 DEF TypeOK
<1>8. TypeOK'
  BY <1>1, <1>6, <1>7 DEF TypeOK, Keeps, handlers
<1> QED BY <1>1, <1>4, <1>6, <1>8

\* The steps that leave an account, or the loop.
Leaves(b) == TakeAccount(b) \/ ReadConfig(b) \/ LeaveLoop(b) \/ RecordFails(b) \/ Release(b)

LEMMA LeaveFacts ==
  ASSUME TypeOK, Reserved, NEW b \in Batches, Leaves(b)
  PROVE  /\ Keeps(b) /\ TypeOK'
         /\ batch[b].pc \in Held \union {"next"}
         /\ UNCHANGED <<account, site, revoking, sweeping, leaving, process, changes>>
         /\ \A c \in Batches \ {b} : late'[c] = late[c]
         /\ \A c \in Batches \ {b} : \A a \in Accounts : <<c, a>> \in stopped => <<c, a>> \in stopped'
<1> USE DEF store, handlers, Held, Working
<1>0. \A c \in Batches \ {b} : \A a \in Accounts : <<c, a>> # <<b, batch[b].cur>>
  OBVIOUS
<1>1. CASE TakeAccount(b)
  <2>1. Keeps(b) /\ batch[b].pc = "next"
    BY <1>1, TakeFacts
  <2>2. UNCHANGED <<store, reserved, stopped, handlers, process, failedSaves, late>>
    BY <1>1 DEF TakeAccount
  <2>3. TypeOK'
    BY <2>1, <2>2 DEF Keeps, TypeOK
  <2> QED BY <2>1, <2>2, <2>3
<1>2. CASE ReadConfig(b)
  <2>1. Keeps(b) /\ batch[b].pc = "config"
    BY <1>2, ReadFacts
  <2>2. UNCHANGED <<store, reserved, stopped, handlers, process, failedSaves, late>>
    BY <1>2 DEF ReadConfig
  <2>3. TypeOK'
    BY <2>1, <2>2 DEF Keeps, TypeOK
  <2> QED BY <2>1, <2>2, <2>3
<1>3. CASE LeaveLoop(b)
  <2>1. GoesOn(b, "ending") /\ batch[b].pc = "next"
    BY <1>3, GoesFacts DEF LeaveLoop, Places
  <2>2. UNCHANGED <<store, reserved, stopped, handlers, process, failedSaves, late>>
    BY <1>3 DEF LeaveLoop
  <2>3. TypeOK'
    BY <2>1, <2>2 DEF GoesOn, Keeps, TypeOK
  <2> QED BY <2>1, <2>2, <2>3 DEF GoesOn
<1>4. CASE RecordFails(b)
  <2>1. /\ batch[b].pc = "record"
        /\ batch' = [batch EXCEPT ![b] = Between(b, "ending")]
        /\ late' = [late EXCEPT ![b] = 0]
        /\ UNCHANGED <<store, reserved, stopped, handlers, process>>
        /\ \/ UNCHANGED failedSaves
           \/ failedSaves < MaxFailedSaves /\ failedSaves' = failedSaves + 1
    BY <1>4 DEF RecordFails
  <2>2. Keeps(b)
    BY <2>1, BetweenFacts DEF Places
  <2>3. failedSaves' \in 0 .. MaxFailedSaves /\ late' \in [Batches -> Nat]
        /\ \A c \in Batches \ {b} : late'[c] = late[c]
    BY <2>1, RunnerAssumption DEF TypeOK
  <2>4. TypeOK'
    BY <2>1, <2>2, <2>3 DEF Keeps, TypeOK
  <2> QED BY <2>1, <2>2, <2>3, <2>4
<1>5. CASE Release(b)
  <2>1. /\ batch[b].pc = "release"
        /\ batch' = [batch EXCEPT ![b] = Between(b, "next")]
        /\ late' = [late EXCEPT ![b] = 0]
        /\ reserved' = Without(b, {batch[b].cur})
        /\ stopped' = stopped \ {<<b, batch[b].cur>>}
        /\ UNCHANGED <<store, handlers, process, failedSaves>>
    BY <1>5 DEF Release, NextAccount
  <2>2. Keeps(b)
    BY <2>1, BetweenFacts DEF Places
  <2>3. late' \in [Batches -> Nat] /\ \A c \in Batches \ {b} : late'[c] = late[c]
    BY <2>1 DEF TypeOK
  <2>4. reserved' \in [Accounts -> Batches \union {None}]
    BY <2>1 DEF TypeOK, Without
  <2>5. TypeOK'
    BY <2>1, <2>2, <2>3, <2>4 DEF Keeps, TypeOK
  <2> QED BY <1>0, <2>1, <2>2, <2>3, <2>5
<1> QED BY <1>1, <1>2, <1>3, <1>4, <1>5 DEF Leaves

LEMMA EndFacts ==
  ASSUME TypeOK, NEW b \in Batches, End(b)
  PROVE  /\ TypeOK'
         /\ batch' \in [Batches -> BatchRecord]
         /\ \A c \in Batches \ {b} : batch'[c] = batch[c] /\ late'[c] = late[c]
         /\ batch'[b].pc = "ended" /\ batch[b].pc = "ending"
         /\ batch'[b].seen = NewAccount
         /\ \A c \in Batches \ {b} : \A a \in Accounts : <<c, a>> \in stopped => <<c, a>> \in stopped'
         /\ reserved' = Without(b, batch[b].chosen)
         /\ UNCHANGED <<account, site, revoking, sweeping, leaving, process, changes, late>>
<1>1. /\ batch[b].pc = "ending"
      /\ reserved' = Without(b, batch[b].chosen)
      /\ stopped' = {s \in stopped : s[1] # b}
      /\ batch' = [batch EXCEPT ![b] = Alone("ended", {}, batch[b].todo, batch[b].over, batch[b].on)]
      /\ UNCHANGED <<store, handlers, process, failedSaves, late>>
  BY DEF End
<1>2. /\ batch \in [Batches -> BatchRecord] /\ batch[b].todo \in SUBSET Accounts
      /\ batch[b].over \in BOOLEAN /\ batch[b].on \in BOOLEAN
  BY Records DEF BatchRecord
<1>3. Alone("ended", {}, batch[b].todo, batch[b].over, batch[b].on) \in BatchRecord
  BY <1>2, AloneFacts DEF Places
<1>4. /\ batch' \in [Batches -> BatchRecord] /\ batch'[b].pc = "ended"
      /\ batch'[b].seen = NewAccount
      /\ \A c \in Batches \ {b} : batch'[c] = batch[c]
  BY <1>1, <1>2, <1>3 DEF Alone
<1>5. \A c \in Batches \ {b} : \A a \in Accounts : <<c, a>> \in stopped => <<c, a>> \in stopped'
  BY <1>1
<1>6. reserved' \in [Accounts -> Batches \union {None}]
  BY <1>1 DEF TypeOK, Without
<1>7. TypeOK'
  BY <1>1, <1>4, <1>6 DEF TypeOK, store, handlers
<1> QED BY <1>1, <1>4, <1>5, <1>7 DEF store, handlers

LEMMA BeginFacts ==
  ASSUME TypeOK, NEW b \in Batches, Begin(b)
  PROVE  /\ TypeOK'
         /\ UNCHANGED <<account, site, stopped, revoking, sweeping, leaving, process, changes, late>>
         /\ batch[b].pc = "idle" /\ process = "up"
         /\ batch' \in [Batches -> BatchRecord]
         /\ \A c \in Batches \ {b} : batch'[c] = batch[c]
         /\ batch'[b].pc = "next" /\ batch'[b].todo = batch'[b].chosen
         /\ batch'[b].seen = NewAccount
         /\ reserved' = [a \in Accounts |-> IF a \in batch'[b].chosen THEN b ELSE reserved[a]]
         /\ \A a \in batch'[b].chosen : a \in Accounts /\ reserved[a] = None
<1>1. PICK wanted \in SUBSET Accounts : \E chosen \in Choices(b, wanted) \ {{}} :
        /\ batch' = [batch EXCEPT ![b] = Alone("next", chosen, chosen, FALSE, TRUE)]
        /\ reserved' = [a \in Accounts |-> IF a \in chosen THEN b ELSE reserved[a]]
  BY DEF Begin
<1>2. PICK chosen \in Choices(b, wanted) :
        /\ batch' = [batch EXCEPT ![b] = Alone("next", chosen, chosen, FALSE, TRUE)]
        /\ reserved' = [a \in Accounts |-> IF a \in chosen THEN b ELSE reserved[a]]
  BY <1>1
<1>3. chosen \in SUBSET Accounts /\ \A a \in chosen : reserved[a] = None
  <2>1. Suitable(b, wanted) \subseteq Accounts
    BY DEF Suitable
  <2>2. CASE b \in Automatic
    BY <2>1, <2>2 DEF Choices, Free
  <2>3. CASE b \notin Automatic
    BY <2>1, <2>3 DEF Choices, Free
  <2> QED BY <2>2, <2>3
<1>4. Alone("next", chosen, chosen, FALSE, TRUE) \in BatchRecord
  BY <1>3, AloneFacts DEF Places
<1>5. /\ batch' \in [Batches -> BatchRecord]
      /\ \A c \in Batches \ {b} : batch'[c] = batch[c]
      /\ batch'[b].pc = "next" /\ batch'[b].todo = chosen /\ batch'[b].chosen = chosen
      /\ batch'[b].seen = NewAccount
  BY <1>2, <1>4 DEF TypeOK, Alone
<1>6. reserved' \in [Accounts -> Batches \union {None}]
  BY <1>2 DEF TypeOK
<1>7. UNCHANGED <<store, stopped, handlers, process, failedSaves, late>>
      /\ batch[b].pc = "idle" /\ process = "up"
  BY DEF Begin, MayBegin
<1>8. TypeOK'
  BY <1>5, <1>6, <1>7 DEF TypeOK, store, handlers
<1> QED BY <1>2, <1>3, <1>5, <1>7, <1>8 DEF store, handlers

-----------------------------------------------------------------------------
(* What the handlers do. *)

\* Nothing a handler changes about an account escapes the run it concerns.
Answered(x) ==
    /\ \/ revoking'[x] >= revoking[x]
       \/ \A b \in Batches : reserved[x] = b => <<b, x>> \in stopped'
    /\ account'[x].work # account[x].work => revoking'[x] > 0
    /\ account'[x].state = "open" => \/ account[x].state = "open"
                                     \/ \A b \in Batches : batch[b].cur = x => late'[b] = 0
    /\ account[x].cookie.of = account[x].login => account'[x].cookie.of = account'[x].login
    /\ account[x].login =< account'[x].login
    /\ account[x].login = account'[x].login => account[x].cookie.no =< account'[x].cookie.no

LEMMA AccountTypes ==
  ASSUME TypeOK, NEW a \in Accounts
  PROVE  /\ account \in [Accounts -> AccountRecord] /\ account[a] \in AccountRecord
         /\ account[a].login \in Nat /\ account[a].cookie \in [of : Nat, no : Nat]
         /\ account[a].cookie.of \in Nat /\ account[a].cookie.no \in Nat
         /\ account[a].work \in Works /\ account[a].auto \in BOOLEAN
         /\ account[a].state \in {"open", "closed", "gone"}
         /\ revoking \in [Accounts -> Nat] /\ revoking[a] \in Nat
BY DEF TypeOK, AccountRecord

\* What every handler leaves alone, and its types.
Handled(a) ==
    /\ UNCHANGED <<site, reserved, batch, process, failedSaves>>
    /\ \A b \in Batches : late'[b] = late[b] \/ late'[b] = 0
    /\ stopped \subseteq stopped'
    /\ \A x \in Accounts : Answered(x)
    /\ TypeOK'

LEMMA CountedFacts ==
  ASSUME TypeOK, NEW a \in Accounts, NEW due \in BOOLEAN, WillRevoke(a, due)
  PROVE  /\ revoking' \in [Accounts -> Nat]
         /\ \A x \in Accounts : revoking'[x] >= revoking[x]
         /\ due => revoking'[a] > 0
<1>1. revoking \in [Accounts -> Nat] /\ \A x \in Accounts : revoking[x] \in Nat
  BY DEF TypeOK
<1>2. CASE due
  <2>1. revoking' = [revoking EXCEPT ![a] = @ + 1]
    BY <1>2 DEF WillRevoke
  <2> QED BY <1>1, <2>1
<1>3. CASE ~due
  <2>1. revoking' = revoking
    BY <1>3 DEF WillRevoke
  <2> QED BY <1>1, <1>3, <2>1
<1> QED BY <1>2, <1>3

LEMMA Unmoved ==
  ASSUME NEW x \in Accounts, account'[x] = account[x], revoking'[x] >= revoking[x],
         account[x].login \in Nat, account[x].cookie.no \in Nat
  PROVE  Answered(x)
BY DEF Answered

LEMMA HandlerFacts ==
  ASSUME TypeOK, NEW a \in Accounts, Handler(a)
  PROVE  Handled(a)
<1> USE DEF store, handlers
<1>0. /\ account \in [Accounts -> AccountRecord] /\ account[a] \in AccountRecord
      /\ account[a].login \in Nat /\ account[a].cookie \in [of : Nat, no : Nat]
      /\ account[a].cookie.of \in Nat /\ account[a].cookie.no \in Nat
      /\ account[a].work \in Works /\ account[a].auto \in BOOLEAN
      /\ account[a].state \in {"open", "closed", "gone"}
      /\ revoking \in [Accounts -> Nat] /\ revoking[a] \in Nat
  BY AccountTypes
<1>00. \A x \in Accounts : account[x].login \in Nat /\ account[x].cookie.no \in Nat
                            /\ revoking[x] \in Nat
  BY AccountTypes
<1>a. Contexts({a}) \subseteq Batches \X Accounts
      /\ \A b \in Batches : reserved[a] = b => <<b, a>> \in Contexts({a})
  BY ContextTypes
<1>c. Change => changes' \in 0 .. MaxChanges
  BY RunnerAssumption DEF Change, TypeOK
<1>1. CASE UserCancel(a)
  <2>1. /\ stopped' = stopped \union Contexts({a})
        /\ UNCHANGED <<store, reserved, batch, handlers, process, failedSaves, late>>
    BY <1>1 DEF UserCancel
  <2>2. \A x \in Accounts : Answered(x)
    BY <2>1, <1>00 DEF Answered
  <2>3. TypeOK'
    BY <2>1, <1>a DEF TypeOK
  <2> QED BY <2>1, <2>2, <2>3 DEF Handled
<1>2. CASE Revoke(a)
  <2>1. /\ revoking[a] > 0
        /\ revoking' = [revoking EXCEPT ![a] = @ - 1]
        /\ stopped' = stopped \union Contexts({a})
        /\ UNCHANGED <<store, reserved, batch, sweeping, leaving, changes, process,
                       failedSaves, late>>
    BY <1>2 DEF Revoke
  <2>2. ASSUME NEW x \in Accounts  PROVE Answered(x)
    <3>1. account' = account /\ account[x].login \in Nat /\ account[x].cookie.no \in Nat
      BY <2>1, <1>00
    <3>2. CASE x = a
      <4>1. \A b \in Batches : reserved[x] = b => <<b, x>> \in stopped'
        BY <2>1, <1>a, <3>2
      <4> QED BY <4>1, <3>1 DEF Answered
    <3>3. CASE x # a
      BY <2>1, <3>1, <3>3, <1>00, Unmoved
    <3> QED BY <3>2, <3>3
  <2>3. revoking' \in [Accounts -> Nat]
    BY <2>1, <1>0
  <2>4. TypeOK'
    BY <2>1, <2>3, <1>a DEF TypeOK
  <2> QED BY <2>1, <2>2, <2>4 DEF Handled
<1>3. CASE EditTasks(a)
  <2>1. PICK w \in Works, auto \in BOOLEAN :
          /\ account' = [account EXCEPT ![a].work = w, ![a].auto = auto]
          /\ WillRevoke(a, w # account[a].work)
    BY <1>3 DEF EditTasks
  <2>2. /\ UNCHANGED <<site, reserved, batch, stopped, sweeping, leaving, process,
                       failedSaves, late>>
        /\ Change
    BY <1>3 DEF EditTasks
  <2>3. PICK due \in BOOLEAN : due = (w # account[a].work)
    OBVIOUS
  <2>4. WillRevoke(a, due)
    BY <2>1, <2>3, Zenon
  <2>5. /\ revoking' \in [Accounts -> Nat] /\ \A x \in Accounts : revoking'[x] >= revoking[x]
        /\ due => revoking'[a] > 0
    BY <2>4, CountedFacts
  <2>6. account' \in [Accounts -> AccountRecord]
    BY <2>1, <1>0 DEF AccountRecord
  <2>7. ASSUME NEW x \in Accounts  PROVE Answered(x)
    <3>1. CASE x = a
      <4>1. /\ account'[x].work = w /\ account'[x].state = account[x].state
            /\ account'[x].cookie = account[x].cookie /\ account'[x].login = account[x].login
        BY <2>1, <1>0, <3>1 DEF AccountRecord
      <4>2. revoking'[x] >= revoking[x] /\ (due => revoking'[x] > 0)
        BY <2>5, <3>1
      <4>3. w # account[x].work => due
        BY <2>3, <3>1, Zenon
      <4>4. w # account[x].work => revoking'[x] > 0
        BY <4>2, <4>3
      <4> QED BY <4>1, <4>2, <4>4, <1>00 DEF Answered
    <3>2. CASE x # a
      BY <2>1, <2>5, <3>2, <1>0, <1>00, Unmoved
    <3> QED BY <3>1, <3>2
  <2>8. TypeOK'
    BY <2>2, <2>5, <2>6, <1>c DEF TypeOK
  <2> QED BY <2>2, <2>7, <2>8 DEF Handled
<1>4. CASE OpenOrClose(a)
  <2>1. PICK due \in BOOLEAN : WillRevoke(a, due)
    BY <1>4 DEF OpenOrClose
  <2>2. /\ account' = [account EXCEPT ![a].state = IF @ = "open" THEN "closed" ELSE "open"]
        /\ late' = [b \in Batches |-> IF batch[b].cur = a /\ ~Runnable(a) THEN 0 ELSE late[b]]
        /\ UNCHANGED <<site, reserved, batch, stopped, sweeping, leaving, process, failedSaves>>
        /\ Change
    BY <1>4 DEF OpenOrClose
  <2>3. revoking' \in [Accounts -> Nat] /\ \A x \in Accounts : revoking'[x] >= revoking[x]
    BY <2>1, CountedFacts
  <2>4. PICK st \in {"open", "closed"} : /\ st = (IF account[a].state = "open" THEN "closed" ELSE "open")
                                         /\ account' = [account EXCEPT ![a].state = st]
    BY <2>2
  <2>5. account' \in [Accounts -> AccountRecord]
    BY <2>4, <1>0 DEF AccountRecord
  <2>6. ASSUME NEW x \in Accounts  PROVE Answered(x)
    <3>1. CASE x = a
      <4>1. /\ account'[x].work = account[x].work /\ account'[x].state = st
            /\ account'[x].cookie = account[x].cookie /\ account'[x].login = account[x].login
        BY <2>4, <1>0, <3>1 DEF AccountRecord
      <4>2. account[x].state = "open" \/ \A b \in Batches : batch[b].cur = x => late'[b] = 0
        BY <2>2, <3>1 DEF Runnable
      <4> QED BY <2>3, <4>1, <4>2, <1>00 DEF Answered
    <3>2. CASE x # a
      BY <2>4, <2>3, <3>2, <1>0, <1>00, Unmoved
    <3> QED BY <3>1, <3>2
  <2>7. late' \in [Batches -> Nat] /\ \A b \in Batches : late'[b] = late[b] \/ late'[b] = 0
    BY <2>2 DEF TypeOK
  <2>8. TypeOK'
    BY <2>2, <2>3, <2>5, <2>7, <1>c DEF TypeOK
  <2> QED BY <2>2, <2>6, <2>7, <2>8 DEF Handled
<1>5. CASE Rebind(a)
  <2>1. PICK due \in BOOLEAN : WillRevoke(a, due)
    BY <1>5 DEF Rebind
  <2>2. /\ account' = [account EXCEPT ![a].login = @ + 1,
                                      ![a].cookie = [of |-> account[a].login + 1, no |-> 0]]
        /\ UNCHANGED <<site, reserved, batch, stopped, sweeping, leaving, process,
                       failedSaves, late>>
        /\ Change
    BY <1>5 DEF Rebind
  <2>3. revoking' \in [Accounts -> Nat] /\ \A x \in Accounts : revoking'[x] >= revoking[x]
    BY <2>1, CountedFacts
  <2>4. PICK n \in Nat : n = account[a].login + 1
    BY <1>0
  <2>5. account' = [account EXCEPT ![a].login = n, ![a].cookie = [of |-> n, no |-> 0]]
    BY <2>2, <2>4
  <2>6. account' \in [Accounts -> AccountRecord]
    BY <2>5, <1>0 DEF AccountRecord
  <2>7. ASSUME NEW x \in Accounts  PROVE Answered(x)
    <3>1. CASE x = a
      <4>1. /\ account'[x].work = account[x].work /\ account'[x].state = account[x].state
            /\ account'[x].cookie.of = n /\ account'[x].login = n
        BY <2>5, <1>0, <3>1 DEF AccountRecord
      <4>2. account[x].login < n
        BY <2>4, <1>0, <3>1
      <4> QED BY <2>3, <4>1, <4>2, <1>00 DEF Answered
    <3>2. CASE x # a
      BY <2>5, <2>3, <3>2, <1>0, <1>00, Unmoved
    <3> QED BY <3>1, <3>2
  <2>8. TypeOK'
    BY <2>2, <2>3, <2>6, <1>c DEF TypeOK
  <2> QED BY <2>2, <2>7, <2>8 DEF Handled
<1>6. CASE CheckRenews(a)
  <2>1. /\ account' = [account EXCEPT ![a].cookie.no = @ + 1]
        /\ UNCHANGED <<site, reserved, batch, stopped, revoking, sweeping, leaving,
                       process, failedSaves, late>>
        /\ Change
    BY <1>6 DEF CheckRenews
  <2>2. PICK n \in Nat : n = account[a].cookie.no + 1
    BY <1>0
  <2>3. account' = [account EXCEPT ![a].cookie.no = n]
    BY <2>1, <2>2
  <2>4. account' \in [Accounts -> AccountRecord]
    BY <2>3, <1>0 DEF AccountRecord
  <2>5. ASSUME NEW x \in Accounts  PROVE Answered(x)
    <3>1. CASE x = a
      <4>1. /\ account'[x].work = account[x].work /\ account'[x].state = account[x].state
            /\ account'[x].cookie.of = account[x].cookie.of /\ account'[x].cookie.no = n
            /\ account'[x].login = account[x].login
        BY <2>3, <1>0, <3>1 DEF AccountRecord
      <4>2. account[x].cookie.no < n
        BY <2>2, <1>0, <3>1
      <4> QED BY <2>1, <4>1, <4>2, <1>00 DEF Answered
    <3>2. CASE x # a
      BY <2>3, <2>1, <3>2, <1>0, <1>00, Unmoved
    <3> QED BY <3>1, <3>2
  <2>6. TypeOK'
    BY <2>1, <2>4, <1>c DEF TypeOK
  <2> QED BY <2>1, <2>5, <2>6 DEF Handled
<1>7. CASE StartDelete(a)
  <2>1. /\ leaving' = leaving \union {a} /\ Change
        /\ stopped' = stopped \union Contexts({a})
        /\ UNCHANGED <<store, reserved, batch, revoking, sweeping, process, failedSaves, late>>
    BY <1>7 DEF StartDelete
  <2>2. \A x \in Accounts : Answered(x)
    BY <2>1, <1>00 DEF Answered
  <2>3. TypeOK'
    BY <2>1, <1>a, <1>c DEF TypeOK
  <2> QED BY <2>1, <2>2, <2>3 DEF Handled
<1>8. CASE Delete(a)
  <2>1. /\ leaving' = leaving \ {a}
        /\ UNCHANGED <<site, reserved, batch, stopped, revoking, sweeping, changes,
                       process, failedSaves, late>>
        /\ account' = [account EXCEPT ![a].state = "gone"] \/ UNCHANGED account
    BY <1>8 DEF Delete
  <2>2. account' \in [Accounts -> AccountRecord]
    BY <2>1, <1>0 DEF AccountRecord
  <2>3. ASSUME NEW x \in Accounts  PROVE Answered(x)
    <3>1. CASE account'[x] = account[x]
      BY <2>1, <3>1, <1>00, Unmoved
    <3>2. CASE account'[x] # account[x]
      <4>1. x = a /\ account' = [account EXCEPT ![a].state = "gone"]
        BY <2>1, <3>2, <1>0
      <4>2. /\ account'[x].work = account[x].work /\ account'[x].state = "gone"
            /\ account'[x].cookie = account[x].cookie /\ account'[x].login = account[x].login
        BY <4>1, <1>0 DEF AccountRecord
      <4> QED BY <2>1, <4>2, <1>00 DEF Answered
    <3> QED BY <3>1, <3>2
  <2>4. TypeOK'
    BY <2>1, <2>2 DEF TypeOK
  <2> QED BY <2>1, <2>3, <2>4 DEF Handled
<1> QED
  BY <1>1, <1>2, <1>3, <1>4, <1>5, <1>6, <1>7, <1>8 DEF Handler

\* What races with the batches: handlers, the clock, the administrator, Stop.
Environment ==
    /\ TypeOK'
    /\ UNCHANGED reserved
    /\ \A b \in Batches : late'[b] = late[b] \/ late'[b] = 0
    /\ stopped \subseteq stopped'
    /\ \A x \in Accounts : Answered(x)
    /\ \A b \in Batches :
         /\ batch'[b].pc = batch[b].pc /\ batch'[b].cur = batch[b].cur
         /\ batch'[b].seen = batch[b].seen /\ batch'[b].work = batch[b].work
         /\ batch'[b].todo = batch[b].todo /\ batch'[b].chosen = batch[b].chosen
         /\ batch[b].over => batch'[b].over

Outside ==
    \/ \E a \in Accounts : Handler(a)
    \/ \E b \in Batches : Expire(b)
    \/ SwitchSite \/ Sweep \/ Stop \/ Exit

LEMMA OutsideFacts ==
  ASSUME TypeOK, Outside
  PROVE  Environment
<1> USE DEF store, handlers
<1>00. \A x \in Accounts : account[x].login \in Nat /\ account[x].cookie.no \in Nat
                            /\ revoking[x] \in Nat
  BY AccountTypes
<1>0. batch \in [Batches -> BatchRecord]
  BY DEF TypeOK
<1>c. Change => changes' \in 0 .. MaxChanges
  BY RunnerAssumption DEF Change, TypeOK
<1>1. CASE \E a \in Accounts : Handler(a)
  BY <1>1, HandlerFacts DEF Handled, Environment
<1>2. CASE \E b \in Batches : Expire(b)
  <2>1. PICK b \in Batches : Expire(b)
    BY <1>2
  <2>2. /\ batch' = [batch EXCEPT ![b].over = TRUE]
        /\ UNCHANGED <<store, reserved, stopped, handlers, process, failedSaves, late>>
    BY <2>1 DEF Expire
  <2>3. batch[b] \in BatchRecord
    BY <1>0
  <2>4. /\ batch' \in [Batches -> BatchRecord]
        /\ \A c \in Batches :
             /\ batch'[c].pc = batch[c].pc /\ batch'[c].cur = batch[c].cur
             /\ batch'[c].seen = batch[c].seen /\ batch'[c].work = batch[c].work
             /\ batch'[c].todo = batch[c].todo /\ batch'[c].chosen = batch[c].chosen
             /\ batch[c].over => batch'[c].over
    BY <1>0, <2>2, <2>3 DEF BatchRecord
  <2>5. \A x \in Accounts : Answered(x)
    BY <2>2, <1>00, Unmoved
  <2>6. TypeOK'
    BY <2>2, <2>4 DEF TypeOK
  <2> QED BY <2>2, <2>4, <2>5, <2>6 DEF Environment
<1>3. CASE SwitchSite
  <2>1. /\ site' = ~site /\ sweeping' = (sweeping \/ site) /\ Change
        /\ UNCHANGED <<account, reserved, batch, stopped, revoking, leaving, process,
                       failedSaves, late>>
    BY <1>3 DEF SwitchSite
  <2>2. \A x \in Accounts : Answered(x)
    BY <2>1, <1>00, Unmoved
  <2>3. TypeOK'
    BY <2>1, <1>c DEF TypeOK
  <2> QED BY <2>1, <2>2, <2>3 DEF Environment
<1>4. CASE Sweep
  <2>1. /\ sweeping' = FALSE
        /\ UNCHANGED <<store, reserved, batch, stopped, leaving, changes, process,
                       failedSaves, late>>
    BY <1>4 DEF Sweep
  <2>2. revoking' \in [Accounts -> Nat] /\ \A x \in Accounts : revoking'[x] >= revoking[x]
    <3>1. revoking \in [Accounts -> Nat]
      BY DEF TypeOK
    <3>2. CASE site
      BY <3>1, <3>2, <1>4, <1>00 DEF Sweep
    <3>3. CASE ~site
      <4>1. revoking' = [x \in Accounts |-> IF Existing(x) THEN revoking[x] + 1 ELSE revoking[x]]
        BY <3>3, <1>4 DEF Sweep
      <4> HIDE DEF Existing
      <4> QED BY <4>1, <3>1, <1>00
    <3> QED BY <3>2, <3>3
  <2>3. \A x \in Accounts : Answered(x)
    BY <2>1, <2>2, <1>00, Unmoved
  <2>4. TypeOK'
    BY <2>1, <2>2 DEF TypeOK
  <2> QED BY <2>1, <2>3, <2>4 DEF Environment
<1>5. CASE Stop
  <2>1. /\ process' = "stopping"
        /\ stopped' = stopped \union Contexts(Accounts)
        /\ batch' = [b \in Batches |-> [batch[b] EXCEPT !.over = @ \/ Active(b)]]
        /\ UNCHANGED <<store, reserved, handlers, failedSaves, late>>
    BY <1>5 DEF Stop
  <2>2. ASSUME NEW c \in Batches
        PROVE  /\ batch'[c] \in BatchRecord
               /\ batch'[c].pc = batch[c].pc /\ batch'[c].cur = batch[c].cur
               /\ batch'[c].seen = batch[c].seen /\ batch'[c].work = batch[c].work
               /\ batch'[c].todo = batch[c].todo /\ batch'[c].chosen = batch[c].chosen
               /\ batch[c].over => batch'[c].over
    <3>1. PICK flag \in BOOLEAN : flag = (batch[c].over \/ Active(c))
      BY Zenon
    <3>2. batch'[c] = [batch[c] EXCEPT !.over = flag]
      BY <2>1, <3>1, Zenon
    <3>3. batch[c] \in BatchRecord
      BY <1>0
    <3>4. batch[c].over => flag
      BY <3>1
    <3> QED BY <3>2, <3>3, <3>4 DEF BatchRecord
  <2>3. batch' \in [Batches -> BatchRecord]
    BY <2>1, <2>2, Zenon
  <2>4. stopped' \subseteq Batches \X Accounts
    BY <2>1, ContextTypes DEF TypeOK
  <2>5. \A x \in Accounts : Answered(x)
    BY <2>1, <1>00, Unmoved
  <2>6. TypeOK'
    BY <2>1, <2>3, <2>4 DEF TypeOK
  <2> QED BY <2>1, <2>2, <2>5, <2>6 DEF Environment
<1>6. CASE Exit
  <2>1. process' = "down"
        /\ UNCHANGED <<store, reserved, batch, stopped, handlers, failedSaves, late>>
    BY <1>6 DEF Exit
  <2>2. \A x \in Accounts : Answered(x)
    BY <2>1, <1>00, Unmoved
  <2>3. TypeOK'
    BY <2>1 DEF TypeOK
  <2> QED BY <2>1, <2>2, <2>3 DEF Environment
<1> QED BY <1>1, <1>2, <1>3, <1>4, <1>5, <1>6 DEF Outside

LEMMA Split ==
  ASSUME Next
  PROVE  \/ \E b \in Batches : Begin(b) \/ Moves(b) \/ StoreRenewal(b) \/ Leaves(b) \/ End(b)
         \/ Outside
BY DEF Next, Step, Moves, Leaves, Outside

-----------------------------------------------------------------------------
(* Reservations. *)

LEMMA ReservedInit == Init => Reserved
BY DEF Init, Reserved, IdleBatch, Alone, Held, Working, Active

LEMMA ReservedOutside ==
  ASSUME TypeOK, Reserved, Environment
  PROVE  Reserved'
<1>1. \A b \in Batches : Active(b)' <=> Active(b)
  BY DEF Environment, Active
<1>2. reserved' = reserved /\ reserved \in [Accounts -> Batches \union {None}]
  BY DEF Environment, TypeOK
<1>3. \A b \in Batches : batch'[b].pc \in Held => batch'[b].cur \in batch'[b].todo
  BY DEF Environment, Reserved
<1>4. \A b \in Batches : \A a \in batch'[b].todo : Active(b)' => reserved'[a] = b
  BY <1>1, <1>2 DEF Environment, Reserved
<1>5. \A a \in Accounts : reserved'[a] # None =>
         Active(reserved[a])' /\ a \in batch'[reserved[a]].chosen
  BY <1>1, <1>2 DEF Environment, Reserved
<1> QED BY <1>2, <1>3, <1>4, <1>5 DEF Reserved

\* A step of b that reserves and releases nothing.
LEMMA ReservedKept ==
  ASSUME TypeOK, Reserved, NEW b \in Batches, Keeps(b), reserved' = reserved,
         Active(b), Active(b)', batch'[b].todo \subseteq batch[b].todo,
         batch'[b].pc \in Held => batch'[b].cur \in batch'[b].todo
  PROVE  Reserved'
<1>1. \A c \in Batches : batch'[c].pc \in Held => batch'[c].cur \in batch'[c].todo
  BY DEF Keeps, Reserved
<1>2. \A c \in Batches : (Active(c) <=> Active(c)') /\ batch'[c].todo \subseteq batch[c].todo
  BY DEF Keeps, Active
<1>3. \A c \in Batches : \A a \in batch'[c].todo : Active(c)' => reserved'[a] = c
  BY <1>2 DEF Reserved
<1>4. ASSUME NEW a \in Accounts, reserved'[a] # None
      PROVE  batch'[reserved'[a]].pc \notin {"idle", "ended"} /\ a \in batch'[reserved'[a]].chosen
  <2>1. reserved[a] \in Batches
    BY <1>4 DEF TypeOK
  <2>2. Active(reserved[a]) /\ a \in batch[reserved[a]].chosen
    BY <1>4 DEF Reserved
  <2> QED BY <2>1, <2>2 DEF Keeps, Active
<1> QED BY <1>1, <1>3, <1>4 DEF Reserved, Active

LEMMA ReservedStep ==
  ASSUME TypeOK, Reserved, NEW b \in Batches,
         Begin(b) \/ Moves(b) \/ StoreRenewal(b) \/ Leaves(b) \/ End(b)
  PROVE  Reserved'
<1> USE RunnerAssumption DEF Active
<1>0. reserved \in [Accounts -> Batches \union {None}]
  BY DEF TypeOK
<1>h. \A p \in Held \union {"next", "ending"} : p \notin {"idle", "ended"}
  BY DEF Held, Working
<1>1. CASE Begin(b)
  <2>1. /\ batch[b].pc = "idle"
        /\ \A c \in Batches \ {b} : batch'[c] = batch[c]
        /\ batch'[b].pc = "next" /\ batch'[b].todo = batch'[b].chosen
        /\ reserved' = [a \in Accounts |-> IF a \in batch'[b].chosen THEN b ELSE reserved[a]]
        /\ \A a \in batch'[b].chosen : a \in Accounts /\ reserved[a] = None
    BY <1>1, BeginFacts
  <2>2. \A c \in Batches : batch'[c].pc \in Held => batch'[c].cur \in batch'[c].todo
    BY <2>1 DEF Reserved, Held, Working
  <2>3. ASSUME NEW c \in Batches, NEW a \in batch'[c].todo, batch'[c].pc \notin {"idle", "ended"}
        PROVE  reserved'[a] = c
    <3>1. CASE c = b
      BY <2>1, <2>3, <3>1
    <3>2. CASE c # b
      <4>1. reserved[a] = c /\ a \in Accounts
        BY <2>1, <2>3, <3>2, Records DEF Reserved
      <4> QED BY <2>1, <4>1
    <3> QED BY <3>1, <3>2
  <2>4. ASSUME NEW a \in Accounts, reserved'[a] # None
        PROVE  batch'[reserved'[a]].pc \notin {"idle", "ended"} /\ a \in batch'[reserved'[a]].chosen
    <3>1. CASE a \in batch'[b].chosen
      <4>1. reserved'[a] = b
        BY <2>1, <3>1
      <4> QED BY <2>1, <3>1, <4>1
    <3>2. CASE a \notin batch'[b].chosen
      <4>1. reserved'[a] = reserved[a] /\ reserved[a] \in Batches
        BY <1>0, <2>1, <2>4, <3>2
      <4>2. batch[reserved[a]].pc \notin {"idle", "ended"} /\ a \in batch[reserved[a]].chosen
        BY <2>4, <4>1 DEF Reserved
      <4>3. reserved[a] # b
        BY <2>1, <4>2
      <4> QED BY <2>1, <4>1, <4>2, <4>3
    <3> QED BY <3>1, <3>2
  <2> QED BY <2>2, <2>3, <2>4 DEF Reserved
<1>2. CASE Moves(b)
  <2>1. /\ Keeps(b) /\ SameAccount(b) /\ reserved' = reserved
        /\ batch[b].pc \in Held /\ batch'[b].pc \in Held \union {"ending"}
    BY <1>2, MoveFacts, MoveRest DEF Held
  <2>2. batch[b].cur \in batch[b].todo
    BY <2>1, Held_Cur
  <2>3. batch'[b].todo = batch[b].todo /\ batch'[b].cur = batch[b].cur
    BY <2>1 DEF SameAccount
  <2>4. batch[b].pc \notin {"idle", "ended"} /\ batch'[b].pc \notin {"idle", "ended"}
    BY <2>1, <1>h
  <2> QED BY <2>1, <2>2, <2>3, <2>4, ReservedKept
<1>3. CASE StoreRenewal(b)
  <2>1. /\ Keeps(b) /\ batch[b].pc = "storing" /\ batch'[b].pc = "tasks"
        /\ batch'[b].cur = batch[b].cur /\ batch'[b].todo = batch[b].todo
    BY <1>3, StoreFacts
  <2>2. reserved' = reserved
    BY <1>3 DEF StoreRenewal
  <2>3. batch[b].cur \in batch[b].todo
    BY <2>1, Held_Cur DEF Held, Working
  <2> QED BY <2>1, <2>2, <2>3, ReservedKept
<1>4. CASE TakeAccount(b)
  <2>1. /\ Keeps(b) /\ batch[b].pc = "next"
        /\ \/ /\ batch'[b].pc = "config" /\ batch'[b].todo = batch[b].todo
              /\ batch'[b].cur \in batch[b].todo
           \/ batch'[b].pc = "next" /\ batch'[b].todo \subseteq batch[b].todo
    BY <1>4, TakeFacts
  <2>2. reserved' = reserved
    BY <1>4 DEF TakeAccount
  <2>3. batch'[b].pc \in Held => batch'[b].cur \in batch'[b].todo
    BY <2>1 DEF Held, Working
  <2> QED BY <2>1, <2>2, <2>3, ReservedKept
<1>5. CASE ReadConfig(b)
  <2>1. /\ Keeps(b) /\ batch[b].pc = "config"
        /\ \/ /\ batch'[b].pc = "context" /\ batch'[b].todo = batch[b].todo
              /\ batch'[b].cur = batch[b].cur
           \/ batch'[b].pc = "next" /\ batch'[b].todo \subseteq batch[b].todo
    BY <1>5, ReadFacts
  <2>2. reserved' = reserved
    BY <1>5 DEF ReadConfig
  <2>3. batch[b].cur \in batch[b].todo
    BY <2>1, Held_Cur DEF Held
  <2>4. batch'[b].pc \in Held => batch'[b].cur \in batch'[b].todo
    BY <2>1, <2>3 DEF Held, Working
  <2> QED BY <2>1, <2>2, <2>4, ReservedKept
<1>6. CASE LeaveLoop(b)
  <2>1. GoesOn(b, "ending") /\ batch[b].pc = "next" /\ reserved' = reserved
    BY <1>6, GoesFacts DEF LeaveLoop, Places
  <2>2. Keeps(b) /\ batch'[b].pc = "ending" /\ batch'[b].todo = batch[b].todo
    BY <2>1 DEF GoesOn, SameAccount
  <2> QED BY <2>1, <2>2, ReservedKept DEF Held, Working
<1>7. CASE RecordFails(b)
  <2>1. batch[b].pc = "record" /\ batch' = [batch EXCEPT ![b] = Between(b, "ending")]
        /\ reserved' = reserved
    BY <1>7 DEF RecordFails
  <2>2. /\ Keeps(b) /\ batch'[b].pc = "ending"
        /\ batch'[b].todo = batch[b].todo \ {batch[b].cur}
    BY <2>1, BetweenFacts DEF Places
  <2> QED BY <2>1, <2>2, ReservedKept DEF Held, Working
<1>8. CASE Release(b)
  <2>1. /\ batch[b].pc = "release" /\ batch' = [batch EXCEPT ![b] = Between(b, "next")]
        /\ reserved' = Without(b, {batch[b].cur})
    BY <1>8 DEF Release, NextAccount
  <2>2. /\ Keeps(b) /\ batch'[b].pc = "next"
        /\ batch'[b].todo = batch[b].todo \ {batch[b].cur}
    BY <2>1, BetweenFacts DEF Places
  <2>3. batch[b].cur \in Accounts /\ reserved[batch[b].cur] = b
    BY <2>1, Held_Cur DEF Held
  <2>4. reserved' = [a \in Accounts |-> IF a = batch[b].cur THEN None ELSE reserved[a]]
    BY <2>1, <2>3 DEF Without, OwnedBy
  <2>5. \A c \in Batches : batch'[c].pc \in Held => batch'[c].cur \in batch'[c].todo
    BY <2>2 DEF Keeps, Reserved, Held, Working
  <2>6. ASSUME NEW c \in Batches, NEW a \in batch'[c].todo, batch'[c].pc \notin {"idle", "ended"}
        PROVE  reserved'[a] = c
    <3>1. a \in batch[c].todo /\ a \in Accounts /\ batch[c].pc \notin {"idle", "ended"}
      BY <2>1, <2>2, <2>6, Records DEF Keeps
    <3>2. reserved[a] = c
      BY <3>1 DEF Reserved
    <3>3. a # batch[b].cur
      <4>1. CASE c = b
        BY <2>2, <2>6, <4>1
      <4>2. CASE c # b
        BY <2>3, <3>2, <4>2
      <4> QED BY <4>1, <4>2
    <3> QED BY <2>4, <3>1, <3>2, <3>3
  <2>7. ASSUME NEW a \in Accounts, reserved'[a] # None
        PROVE  batch'[reserved'[a]].pc \notin {"idle", "ended"} /\ a \in batch'[reserved'[a]].chosen
    <3>1. reserved'[a] = reserved[a] /\ reserved[a] \in Batches
      BY <1>0, <2>4, <2>7
    <3>2. batch[reserved[a]].pc \notin {"idle", "ended"} /\ a \in batch[reserved[a]].chosen
      BY <2>7, <3>1 DEF Reserved
    <3> QED BY <2>2, <3>1, <3>2 DEF Keeps
  <2> QED BY <2>5, <2>6, <2>7 DEF Reserved
<1>9. CASE End(b)
  <2>1. /\ \A c \in Batches \ {b} : batch'[c] = batch[c]
        /\ batch'[b].pc = "ended" /\ batch[b].pc = "ending"
        /\ reserved' = Without(b, batch[b].chosen)
    BY <1>9, EndFacts
  <2>2. \A a \in Accounts : reserved[a] = b => a \in batch[b].chosen
    BY DEF Reserved
  <2>3. reserved' = [a \in Accounts |-> IF reserved[a] = b THEN None ELSE reserved[a]]
    BY <2>1, <2>2 DEF Without, OwnedBy
  <2>4. \A c \in Batches : batch'[c].pc \in Held => batch'[c].cur \in batch'[c].todo
    BY <2>1 DEF Reserved, Held, Working
  <2>5. ASSUME NEW c \in Batches, NEW a \in batch'[c].todo, batch'[c].pc \notin {"idle", "ended"}
        PROVE  reserved'[a] = c
    <3>1. c # b
      BY <2>1, <2>5
    <3>2. reserved[a] = c /\ a \in Accounts
      BY <2>1, <2>5, <3>1, Records DEF Reserved
    <3> QED BY <2>3, <3>1, <3>2
  <2>6. ASSUME NEW a \in Accounts, reserved'[a] # None
        PROVE  batch'[reserved'[a]].pc \notin {"idle", "ended"} /\ a \in batch'[reserved'[a]].chosen
    <3>1. reserved'[a] = reserved[a] /\ reserved[a] \in Batches /\ reserved[a] # b
      BY <1>0, <2>3, <2>6
    <3>2. batch[reserved[a]].pc \notin {"idle", "ended"} /\ a \in batch[reserved[a]].chosen
      BY <2>6, <3>1 DEF Reserved
    <3> QED BY <2>1, <3>1, <3>2
  <2> QED BY <2>4, <2>5, <2>6 DEF Reserved
<1> QED BY <1>1, <1>2, <1>3, <1>4, <1>5, <1>6, <1>7, <1>8, <1>9 DEF Leaves

-----------------------------------------------------------------------------
(* What a step of one batch leaves alone. *)

StepOf(b) == Begin(b) \/ Moves(b) \/ StoreRenewal(b) \/ Leaves(b) \/ End(b)

LEMMA StepFrame ==
  ASSUME TypeOK, Reserved, NEW b \in Batches, StepOf(b)
  PROVE  /\ TypeOK'
         /\ revoking' = revoking /\ process' = process
         /\ \A c \in Batches \ {b} :
              /\ batch'[c] = batch[c] /\ late'[c] = late[c]
              /\ \A a \in Accounts : <<c, a>> \in stopped => <<c, a>> \in stopped'
         /\ \A x \in Accounts :
              /\ account'[x].work = account[x].work /\ account'[x].state = account[x].state
              /\ account'[x].login = account[x].login
         /\ StoreRenewal(b) \/ account' = account
<1>1. CASE Begin(b)
  BY <1>1, BeginFacts
<1>2. CASE Moves(b)
  BY <1>2, MoveRest, MoveFacts DEF Keeps
<1>3. CASE Leaves(b)
  BY <1>3, LeaveFacts DEF Keeps
<1>4. CASE End(b)
  BY <1>4, EndFacts
<1>5. CASE StoreRenewal(b)
  <2>1. /\ Keeps(b) /\ TypeOK' /\ batch[b].pc = "storing"
        /\ account' = [account EXCEPT ![batch[b].cur] = WithCookie(b)]
    BY <1>5, StoreFacts
  <2>2. UNCHANGED <<reserved, stopped, revoking, process, late>>
    BY <1>5 DEF StoreRenewal, handlers
  <2>3. batch[b].cur \in Accounts /\ account[batch[b].cur] \in AccountRecord
    BY <2>1, Held_Cur DEF Held, Working
  <2>4. /\ WithCookie(b).work = account[batch[b].cur].work
        /\ WithCookie(b).state = account[batch[b].cur].state
        /\ WithCookie(b).login = account[batch[b].cur].login
    BY <2>3 DEF WithCookie, AccountRecord
  <2>5. \A x \in Accounts :
          /\ account'[x].work = account[x].work /\ account'[x].state = account[x].state
          /\ account'[x].login = account[x].login
    BY <2>1, <2>3, <2>4 DEF TypeOK
  <2> QED BY <1>5, <2>1, <2>2, <2>5 DEF Keeps
<1> QED BY <1>1, <1>2, <1>3, <1>4, <1>5 DEF StepOf

LEMMA DoomOutside ==
  ASSUME TypeOK, Reserved, Environment, NEW b \in Batches, batch[b].pc \in Held, Doomed(b)
  PROVE  Doomed(b)'
<1> DEFINE a == batch[b].cur
<1>1. /\ a \in Accounts /\ reserved[a] = b /\ batch'[b].cur = a
      /\ batch[b].over => batch'[b].over
      /\ stopped \subseteq stopped' /\ revoking[a] \in Nat
  BY Held_Cur DEF Environment
<1>2. CASE Stopped(b, a)
  BY <1>1, <1>2 DEF Doomed, Stopped
<1>3. CASE revoking[a] > 0
  <2>1. revoking'[a] >= revoking[a] \/ <<b, a>> \in stopped'
    BY <1>1 DEF Environment, Answered
  <2>2. revoking'[a] \in Nat
    BY <1>1 DEF Environment, TypeOK
  <2> QED BY <1>1, <1>3, <2>1, <2>2 DEF Doomed, Stopped
<1> QED BY <1>2, <1>3 DEF Doomed

LEMMA DoomOthers ==
  ASSUME TypeOK, Reserved, NEW b \in Batches, StepOf(b), NEW c \in Batches \ {b},
         batch[c].pc \in Held, Doomed(c)
  PROVE  Doomed(c)'
<1>1. /\ revoking' = revoking /\ batch'[c] = batch[c]
      /\ \A a \in Accounts : <<c, a>> \in stopped => <<c, a>> \in stopped'
  BY StepFrame
<1>2. batch[c].cur \in Accounts
  BY Held_Cur
<1> QED BY <1>1, <1>2 DEF Doomed, Stopped

LEMMA DoomOwn ==
  ASSUME TypeOK, Reserved, NEW b \in Batches, Moves(b) \/ StoreRenewal(b), Doomed(b)
  PROVE  Doomed(b)'
<1>1. CASE Moves(b)
  BY <1>1, MoveFacts, MoveRest DEF Keeps, SameAccount, Doomed, Stopped
<1>2. CASE StoreRenewal(b)
  <2>1. Keeps(b) /\ batch'[b].cur = batch[b].cur
    BY <1>2, StoreFacts
  <2>2. UNCHANGED <<stopped, revoking>>
    BY <1>2 DEF StoreRenewal, handlers
  <2> QED BY <2>1, <2>2 DEF Keeps, Doomed, Stopped
<1> QED BY <1>1, <1>2

LEMMA ConfiguredHeld ==
  ASSUME NEW b \in Batches, Configured(b)
  PROVE  batch[b].pc \in Held
BY DEF Configured, Held

-----------------------------------------------------------------------------
(* Stale runs. *)

LEMMA StaleOutside ==
  ASSUME TypeOK, Reserved, Stale, Environment
  PROVE  Stale'
<1>1. ASSUME NEW b \in Batches, Configured(b)', account'[batch'[b].cur].work # batch'[b].work
      PROVE  Doomed(b)'
  <2> DEFINE a == batch[b].cur
  <2>1. batch'[b].pc = batch[b].pc /\ batch'[b].cur = a /\ batch'[b].work = batch[b].work
    BY DEF Environment
  <2>2. Configured(b) /\ batch[b].pc \in Held
    BY <1>1, <2>1, ConfiguredHeld DEF Configured
  <2>3. a \in Accounts /\ Answered(a)
    BY <2>2, Held_Cur DEF Environment
  <2>4. CASE revoking'[a] > 0
    BY <2>1, <2>4 DEF Doomed
  <2>5. CASE ~(revoking'[a] > 0)
    <3>1. account[a].work # batch[b].work
      BY <1>1, <2>1, <2>3, <2>5 DEF Answered
    <3>2. Doomed(b)
      BY <2>2, <3>1 DEF Stale
    <3> QED BY <2>2, <3>2, DoomOutside
  <2> QED BY <2>4, <2>5
<1> QED BY <1>1 DEF Stale

LEMMA StaleStep ==
  ASSUME TypeOK, Reserved, Stale, NEW b \in Batches, StepOf(b)
  PROVE  Stale'
<1>1. ASSUME NEW c \in Batches, Configured(c)', account'[batch'[c].cur].work # batch'[c].work
      PROVE  Doomed(c)'
  <2>1. CASE c # b
    <3>1. batch'[c] = batch[c]
      BY <2>1, StepFrame
    <3>2. Configured(c) /\ batch[c].pc \in Held
      BY <1>1, <3>1, ConfiguredHeld DEF Configured
    <3>3. batch[c].cur \in Accounts
      BY <3>2, Held_Cur
    <3>4. account[batch[c].cur].work # batch[c].work
      BY <1>1, <3>1, <3>3, StepFrame
    <3>5. Doomed(c)
      BY <3>2, <3>4 DEF Stale
    <3> QED BY <2>1, <3>2, <3>5, DoomOthers
  <2>2. CASE c = b
    <3>0. batch'[b].pc \in Working \union {"context"}
      BY <1>1, <2>2 DEF Configured
    <3>1. CASE Moves(b) \/ StoreRenewal(b)
      <4>1. /\ Configured(b) /\ batch'[b].cur = batch[b].cur /\ batch'[b].work = batch[b].work
        BY <3>0, <3>1, MoveFacts, StoreFacts DEF SameAccount, Configured, Working
      <4>2. batch[b].cur \in Accounts
        BY <4>1, ConfiguredHeld, Held_Cur
      <4>3. account[batch[b].cur].work # batch[b].work
        BY <1>1, <2>2, <4>1, <4>2, StepFrame
      <4>4. Doomed(b)
        BY <4>1, <4>3 DEF Stale
      <4> QED BY <2>2, <3>1, <4>4, DoomOwn
    <3>2. CASE ReadConfig(b)
      <4>1. /\ batch'[b].work = account[batch[b].cur].work /\ batch'[b].cur = batch[b].cur
            /\ Runnable(batch[b].cur)
        BY <3>0, <3>2, ReadFacts DEF Working
      <4>2. account' = account
        BY <3>2 DEF ReadConfig, store
      <4> QED BY <1>1, <2>2, <4>1, <4>2 DEF Runnable
    <3>3. CASE TakeAccount(b)
      BY <3>0, <3>3, TakeFacts DEF Working
    <3>4. CASE LeaveLoop(b)
      <4>1. batch'[b].pc = "ending"
        BY <3>4, GoesFacts DEF LeaveLoop, Places, GoesOn
      <4> QED BY <3>0, <4>1 DEF Working
    <3>5. CASE RecordFails(b)
      <4>1. batch'[b].pc = "ending"
        BY <3>5, BetweenFacts DEF RecordFails, Places
      <4> QED BY <3>0, <4>1 DEF Working
    <3>6. CASE Release(b)
      <4>1. batch'[b].pc = "next"
        BY <3>6, BetweenFacts DEF Release, NextAccount, Places
      <4> QED BY <3>0, <4>1 DEF Working
    <3>7. CASE Begin(b)
      BY <3>0, <3>7, BeginFacts DEF Working
    <3>8. CASE End(b)
      BY <3>0, <3>8, EndFacts DEF Working
    <3> QED BY <3>1, <3>2, <3>3, <3>4, <3>5, <3>6, <3>7, <3>8 DEF StepOf, Leaves
  <2> QED BY <2>1, <2>2
<1> QED BY <1>1 DEF Stale

-----------------------------------------------------------------------------
(* Credentials. *)

\* What may happen to the credentials of an account.
MovesOn(x) ==
    /\ account[x].login =< account'[x].login
    /\ account[x].login = account'[x].login => account[x].cookie.no =< account'[x].cookie.no

LEMMA BehindStays ==
  ASSUME TypeOK, TypeOK', NEW x \in Accounts, NEW seen \in AccountRecord,
         MovesOn(x), Behind(seen, account[x])
  PROVE  Behind(seen, account'[x])
<1>1. /\ account[x].login \in Nat /\ account[x].cookie.no \in Nat
      /\ account'[x].login \in Nat /\ account'[x].cookie.no \in Nat
      /\ seen.login \in Nat /\ seen.cookie.no \in Nat
  BY DEF TypeOK, AccountRecord
<1> QED BY <1>1 DEF Behind, MovesOn

\* Credentials that differ from a snapshot never come to agree with it again.
LEMMA DifferenceStays ==
  ASSUME TypeOK, TypeOK', NEW x \in Accounts, NEW seen \in AccountRecord,
         MovesOn(x), Behind(seen, account[x]),
         account[x].cookie.of = account[x].login, seen.cookie.of = seen.login,
         SameLogin(x, seen)'
  PROVE  SameLogin(x, seen)
<1>1. /\ account[x].login \in Nat /\ account[x].cookie \in [of : Nat, no : Nat]
      /\ account'[x].login \in Nat /\ account'[x].cookie \in [of : Nat, no : Nat]
      /\ seen.login \in Nat /\ seen.cookie \in [of : Nat, no : Nat]
  BY DEF TypeOK, AccountRecord
<1>2. account'[x].login = seen.login /\ account'[x].cookie = seen.cookie
  BY DEF SameLogin
<1>3. /\ account[x].cookie.no \in Nat /\ seen.cookie.no \in Nat
      /\ account'[x].cookie.no = seen.cookie.no
  BY <1>1, <1>2
<1>4. account[x].login = seen.login /\ account[x].cookie.no = seen.cookie.no
  BY <1>1, <1>2, <1>3 DEF Behind, MovesOn
<1>5. account[x].cookie.of = seen.cookie.of
  BY <1>4
<1>6. account[x].cookie = seen.cookie
  BY <1>1, <1>4, <1>5
<1> QED BY <1>4, <1>6 DEF SameLogin

LEMMA MovesOnStep ==
  ASSUME TypeOK, Reserved, Credentials, NEW b \in Batches, StepOf(b), NEW x \in Accounts
  PROVE  MovesOn(x) /\ account'[x].cookie.of = account'[x].login
<1>0. account[x].cookie.of = account[x].login /\ account[x].login \in Nat /\ account[x].cookie.no \in Nat
  BY AccountTypes DEF Credentials
<1>1. CASE account' = account
  BY <1>0, <1>1 DEF MovesOn
<1>2. CASE StoreRenewal(b)
  <2>1. /\ account' = [account EXCEPT ![batch[b].cur] = WithCookie(b)]
        /\ batch[b].pc = "storing" /\ StillTheSame(b)
    BY <1>2 DEF StoreRenewal
  <2>2. batch[b].cur \in Accounts /\ account[batch[b].cur] \in AccountRecord
    BY <2>1, Held_Cur DEF Held, Working
  <2>3. CASE x = batch[b].cur
    <3>1. account'[x] = WithCookie(b)
      BY <2>1, <2>3 DEF TypeOK
    <3>2. /\ WithCookie(b).login = account[x].login
          /\ WithCookie(b).cookie = [of |-> batch[b].seen.login, no |-> account[x].cookie.no + 1]
      BY <2>2, <2>3 DEF WithCookie, AccountRecord
    <3>3. batch[b].seen.login = account[x].login
      BY <2>1, <2>3 DEF StillTheSame, SameLogin
    <3> QED BY <1>0, <3>1, <3>2, <3>3 DEF MovesOn
  <2>4. CASE x # batch[b].cur
    BY <1>0, <2>1, <2>4 DEF MovesOn, TypeOK
  <2> QED BY <2>3, <2>4
<1> QED BY <1>1, <1>2, StepFrame

LEMMA CredentialsOutside ==
  ASSUME TypeOK, Reserved, Credentials, Environment
  PROVE  Credentials'
<1>1. \A x \in Accounts : MovesOn(x) /\ account'[x].cookie.of = account'[x].login
  BY DEF Environment, Answered, Credentials, MovesOn
<1>2. ASSUME NEW b \in Batches
      PROVE  /\ batch'[b].seen.cookie.of = batch'[b].seen.login
             /\ batch'[b].pc \in Held => Behind(batch'[b].seen, account'[batch'[b].cur])
  <2>1. batch'[b].seen = batch[b].seen /\ batch'[b].pc = batch[b].pc /\ batch'[b].cur = batch[b].cur
    BY DEF Environment
  <2>2. CASE batch[b].pc \in Held
    <3>1. batch[b].cur \in Accounts /\ batch[b].seen \in AccountRecord
      BY <2>2, Held_Cur, Records
    <3>2. Behind(batch[b].seen, account[batch[b].cur]) /\ TypeOK'
      BY <2>2 DEF Credentials, Environment
    <3> QED BY <1>1, <2>1, <3>1, <3>2, BehindStays DEF Credentials
  <2>3. CASE batch[b].pc \notin Held
    BY <2>1, <2>3 DEF Credentials
  <2> QED BY <2>2, <2>3
<1> QED BY <1>1, <1>2 DEF Credentials

LEMMA CredentialsStep ==
  ASSUME TypeOK, Reserved, Credentials, NEW b \in Batches, StepOf(b)
  PROVE  Credentials'
<1>1. \A x \in Accounts : MovesOn(x) /\ account'[x].cookie.of = account'[x].login
  BY MovesOnStep
<1>2. TypeOK'
  BY StepFrame
<1>n. NewAccount.cookie.of = NewAccount.login
  BY DEF NewAccount
<1>3. ASSUME NEW c \in Batches, batch'[c].seen = batch[c].seen,
             batch'[c].pc \in Held => batch[c].pc \in Held /\ batch'[c].cur = batch[c].cur
      PROVE  /\ batch'[c].seen.cookie.of = batch'[c].seen.login
             /\ batch'[c].pc \in Held => Behind(batch'[c].seen, account'[batch'[c].cur])
  <2>1. CASE batch'[c].pc \in Held
    <3>1. batch[c].cur \in Accounts /\ batch[c].seen \in AccountRecord
      BY <1>3, <2>1, Held_Cur, Records
    <3>2. Behind(batch[c].seen, account[batch[c].cur])
      BY <1>3, <2>1 DEF Credentials
    <3> QED BY <1>1, <1>2, <1>3, <2>1, <3>1, <3>2, BehindStays DEF Credentials
  <2>2. CASE batch'[c].pc \notin Held
    BY <1>3, <2>2 DEF Credentials
  <2> QED BY <2>1, <2>2
<1>4. ASSUME NEW c \in Batches
      PROVE  /\ batch'[c].seen.cookie.of = batch'[c].seen.login
             /\ batch'[c].pc \in Held => Behind(batch'[c].seen, account'[batch'[c].cur])
  <2>1. CASE c # b
    BY <1>3, <2>1, StepFrame
  <2>2. CASE c = b /\ Moves(b)
    BY <1>3, <2>2, MoveFacts DEF SameAccount
  <2>3. CASE c = b /\ StoreRenewal(b)
    <3>1. /\ batch'[b].seen = account'[batch'[b].cur] /\ batch'[b].cur \in Accounts
      <4>1. /\ batch'[b].seen = WithCookie(b) /\ batch'[b].cur = batch[b].cur
            /\ account' = [account EXCEPT ![batch[b].cur] = WithCookie(b)]
            /\ batch[b].pc = "storing"
        BY <2>3, StoreFacts
      <4>2. batch[b].cur \in Accounts
        BY <4>1, Held_Cur DEF Held, Working
      <4> QED BY <4>1, <4>2 DEF TypeOK
    <3>2. account'[batch'[b].cur].cookie.no \in Nat
      BY <1>2, <3>1 DEF TypeOK, AccountRecord
    <3> QED BY <1>1, <2>3, <3>1, <3>2 DEF Behind
  <2>4. CASE c = b /\ TakeAccount(b)
    <3>1. CASE batch'[b].pc = "next" /\ batch'[b].seen = batch[b].seen
      BY <1>3, <2>4, <3>1 DEF Held, Working
    <3>2. CASE /\ batch'[b].pc = "config" /\ batch'[b].cur \in batch[b].todo
               /\ batch'[b].seen = account[batch'[b].cur]
      <4>1. batch'[b].cur \in Accounts /\ account' = account
        BY <2>4, <3>2, Records DEF TakeAccount, store
      <4>2. account[batch'[b].cur].cookie.no \in Nat
        BY <4>1 DEF TypeOK, AccountRecord
      <4> QED BY <1>1, <2>4, <3>2, <4>1, <4>2 DEF Behind
    <3> QED BY <2>4, <3>1, <3>2, TakeFacts
  <2>5. CASE c = b /\ ReadConfig(b)
    <3>1. CASE batch'[b].pc = "next" /\ batch'[b].seen = NewAccount
      BY <1>n, <2>5, <3>1 DEF Held, Working
    <3>2. CASE batch'[b].cur = batch[b].cur /\ batch'[b].seen = batch[b].seen
      <4>1. batch[b].pc \in Held
        BY <2>5 DEF ReadConfig, Held
      <4> QED BY <1>3, <2>5, <3>2, <4>1
    <3> QED BY <2>5, <3>1, <3>2, ReadFacts
  <2>6. CASE c = b /\ LeaveLoop(b)
    <3>1. GoesOn(b, "ending")
      BY <2>6, GoesFacts DEF LeaveLoop, Places
    <3> QED BY <1>3, <2>6, <3>1 DEF GoesOn, SameAccount, Held, Working
  <2>7. CASE c = b /\ (RecordFails(b) \/ Release(b))
    <3>1. PICK place \in {"next", "ending"} : batch' = [batch EXCEPT ![b] = Between(b, place)]
      BY <2>7 DEF RecordFails, Release, NextAccount
    <3>2. batch'[b].pc = place /\ batch'[b].seen = NewAccount
      BY <3>1, BetweenFacts DEF Places
    <3> QED BY <1>n, <2>7, <3>2 DEF Held, Working
  <2>8. CASE c = b /\ Begin(b)
    <3>1. batch'[b].pc = "next" /\ batch'[b].seen = NewAccount
      BY <2>8, BeginFacts
    <3> QED BY <1>n, <2>8, <3>1 DEF Held, Working
  <2>9. CASE c = b /\ End(b)
    <3>1. batch'[b].pc = "ended" /\ batch'[b].seen = NewAccount
      BY <2>9, EndFacts
    <3> QED BY <1>n, <2>9, <3>1 DEF Held, Working
  <2> QED BY <2>1, <2>2, <2>3, <2>4, <2>5, <2>6, <2>7, <2>8, <2>9 DEF StepOf, Leaves
<1> QED BY <1>1, <1>4 DEF Credentials

-----------------------------------------------------------------------------
(* Late requests. *)

\* What Late says of one batch.
LateOf(b) ==
    /\ Configured(b) /\ late[b] > 0 =>
         \/ Doomed(b)
         \/ ~Runnable(batch[b].cur)
         \/ ~SameLogin(batch[b].cur, batch[b].seen)
    /\ batch[b].pc = "asked" /\ late[b] > 0 => Doomed(b)
    /\ batch[b].pc \in Working /\ late[b] > 1 => Doomed(b)
    /\ batch[b].pc \in {"idle", "next", "config", "context", "ending", "ended"} => late[b] = 0

LEMMA LateIs == Late <=> \A b \in Batches : LateOf(b)
BY DEF Late, LateOf

\* A step that leaves b where it is, as far as late requests go.
LEMMA LateKept ==
  ASSUME TypeOK, TypeOK', Reserved, Credentials, NEW b \in Batches, LateOf(b),
         batch'[b].pc = batch[b].pc, batch'[b].cur = batch[b].cur, batch'[b].seen = batch[b].seen,
         late'[b] = late[b] \/ late'[b] = 0,
         batch[b].pc \in Held /\ Doomed(b) => Doomed(b)',
         \A x \in Accounts :
            /\ MovesOn(x)
            /\ account'[x].state = "open" =>
                 account[x].state = "open" \/ (batch[b].cur = x => late'[b] = 0)
  PROVE  LateOf(b)'
<1>1. batch[b].pc \in Working => batch[b].pc \in Held
  BY DEF Held
<1>2. batch[b].pc = "asked" => batch[b].pc \in Held
  BY DEF Held, Working
<1>n. late'[b] > 0 => late'[b] = late[b]
  OBVIOUS
<1>3. ASSUME Configured(b)', late'[b] > 0
      PROVE  \/ Doomed(b)'
             \/ ~Runnable(batch[b].cur)'
             \/ ~SameLogin(batch[b].cur, batch[b].seen)'
  <2>1. Configured(b) /\ batch[b].pc \in Held
    BY <1>3, ConfiguredHeld DEF Configured
  <2>2. /\ batch[b].cur \in Accounts /\ batch[b].seen \in AccountRecord
        /\ Behind(batch[b].seen, account[batch[b].cur])
        /\ account[batch[b].cur].cookie.of = account[batch[b].cur].login
        /\ batch[b].seen.cookie.of = batch[b].seen.login
    BY <2>1, Held_Cur, Records DEF Credentials
  <2>3. \/ Doomed(b)
        \/ ~Runnable(batch[b].cur)
        \/ ~SameLogin(batch[b].cur, batch[b].seen)
    BY <1>n, <1>3, <2>1 DEF LateOf
  <2>4. CASE Doomed(b)
    BY <2>1, <2>4
  <2>5. CASE ~Runnable(batch[b].cur)
    BY <1>3, <2>2, <2>5 DEF Runnable
  <2>6. CASE ~SameLogin(batch[b].cur, batch[b].seen)
    BY <2>2, <2>6, DifferenceStays DEF SameLogin
  <2> QED BY <2>3, <2>4, <2>5, <2>6
<1> QED BY <1>n, <1>1, <1>2, <1>3 DEF LateOf, SameLogin, Runnable

LEMMA LateOutside ==
  ASSUME TypeOK, Reserved, Credentials, Late, Environment
  PROVE  Late'
<1>1. ASSUME NEW b \in Batches
      PROVE  LateOf(b)'
  <2>1. /\ TypeOK' /\ LateOf(b) /\ (late'[b] = late[b] \/ late'[b] = 0)
        /\ batch'[b].pc = batch[b].pc /\ batch'[b].cur = batch[b].cur
        /\ batch'[b].seen = batch[b].seen
    BY LateIs DEF Environment
  <2>2. \A x \in Accounts :
          /\ MovesOn(x)
          /\ account'[x].state = "open" =>
               account[x].state = "open" \/ (batch[b].cur = x => late'[b] = 0)
    BY DEF Environment, Answered, MovesOn
  <2>3. batch[b].pc \in Held /\ Doomed(b) => Doomed(b)'
    BY DoomOutside
  <2> QED BY <2>1, <2>2, <2>3, LateKept
<1> QED BY <1>1 DEF Late, LateOf

\* Only a request that goes out counts.
LEMMA MoveLate ==
  ASSUME NEW b \in Batches, Moves(b)
  PROVE  late' = late \/ Send(b)
<1>1. CASE FindContext(b)  BY <1>1 DEF FindContext
<1>2. CASE SkipRenewal(b)  BY <1>2 DEF SkipRenewal
<1>3. CASE Ask(b)  BY <1>3 DEF Ask
<1>4. CASE AskRefused(b)  BY <1>4 DEF AskRefused
<1>5. CASE SiteRefuses(b)  BY <1>5 DEF SiteRefuses
<1>6. CASE Answer(b)  BY <1>6 DEF Answer
<1>7. CASE LoseRenewal(b)  BY <1>7 DEF LoseRenewal
<1>8. CASE FinishTasks(b)  BY <1>8 DEF FinishTasks
<1>9. CASE Record(b)  BY <1>9 DEF Record
<1> QED
  BY <1>1, <1>2, <1>3, <1>4, <1>5, <1>6, <1>7, <1>8, <1>9 DEF Moves

LEMMA LateMove ==
  ASSUME TypeOK, Reserved, Late, NEW b \in Batches, Moves(b), late' = late
  PROVE  LateOf(b)'
<1>1. /\ batch'[b].cur = batch[b].cur /\ batch'[b].seen = batch[b].seen
      /\ batch'[b].pc \in Working \union {"record", "release", "ending"}
      /\ batch'[b].pc = "ending" => batch[b].pc = "context"
      /\ batch'[b].pc = "asked" => Ask(b)
      /\ batch'[b].pc \in Working \union {"context"} => Configured(b)
      /\ account' = account
  BY MoveFacts, MoveRest DEF SameAccount
<1>2. LateOf(b)
  BY LateIs
<1>3. Doomed(b) => Doomed(b)'
  BY DoomOwn
<1>4. ASSUME Configured(b)', late'[b] > 0
      PROVE  \/ Doomed(b)'
             \/ ~Runnable(batch[b].cur)'
             \/ ~SameLogin(batch[b].cur, batch[b].seen)'
  BY <1>1, <1>2, <1>3, <1>4 DEF Configured, LateOf, SameLogin, Runnable
<1>5. ASSUME batch'[b].pc = "asked", late'[b] > 0
      PROVE  Doomed(b)'
  <2>1. Ask(b) /\ Configured(b)
    BY <1>1, <1>5 DEF Working
  <2>2. Runnable(batch[b].cur) /\ SameLogin(batch[b].cur, batch[b].seen)
    BY <2>1 DEF Ask, Agrees
  <2> QED BY <1>2, <1>3, <1>5, <2>1, <2>2 DEF LateOf
<1>6. ASSUME batch'[b].pc \in Working, late'[b] > 1
      PROVE  Doomed(b)'
  <2>1. Configured(b)
    BY <1>1, <1>6
  <2>2. batch[b].pc # "context"
    BY <1>2, <1>6 DEF LateOf
  <2> QED BY <1>2, <1>3, <1>6, <2>1, <2>2 DEF LateOf, Configured
<1>7. batch'[b].pc \in {"idle", "next", "config", "context", "ending", "ended"} => late'[b] = 0
  BY <1>1, <1>2 DEF LateOf, Working
<1> QED BY <1>4, <1>5, <1>6, <1>7 DEF LateOf

\* The one request that may go out against the owner's will: from then on the run
\* is cancelled, about to be, or can never be allowed a request again.
LEMMA LateSend ==
  ASSUME TypeOK, Reserved, Stale, Late, NEW b \in Batches, Send(b)
  PROVE  LateOf(b)'
<1>0. Moves(b)
  BY DEF Moves
<1>1. /\ batch'[b].cur = batch[b].cur /\ batch'[b].seen = batch[b].seen
      /\ batch[b].pc = "asked" /\ batch'[b].pc = "sent" /\ account' = account
  <2>1. batch[b].pc = "asked" /\ GoesOn(b, "sent")
    BY GoesFacts DEF Send, Places, Held, Working
  <2> QED BY <1>0, <2>1, MoveRest DEF GoesOn, SameAccount
<1>2. LateOf(b) /\ late[b] \in Nat /\ (Doomed(b) => Doomed(b)') /\ Configured(b)
  BY <1>0, <1>1, LateIs, DoomOwn DEF TypeOK, Configured, Working
<1>3. batch[b].cur \in Accounts /\ account[batch[b].cur] \in AccountRecord
  BY <1>2, ConfiguredHeld, Held_Cur
<1>4. late'[b] > 1 => late[b] > 0
  BY <1>2 DEF Send, TypeOK
<1>5. ASSUME late'[b] > 0
      PROVE  \/ Doomed(b)'
             \/ ~Runnable(batch[b].cur)'
             \/ ~SameLogin(batch[b].cur, batch[b].seen)'
  <2>1. CASE Authority(b)
    <3>1. late' = late
      BY <2>1 DEF Send
    <3> QED BY <1>1, <1>2, <1>5, <3>1 DEF LateOf, Runnable
  <2>2. CASE ~Authority(b)
    <3>1. \/ ~Runnable(batch[b].cur)
          \/ ~SameLogin(batch[b].cur, batch[b].seen)
          \/ account[batch[b].cur].work # batch[b].work
      BY <2>2 DEF Authority
    <3>2. CASE account[batch[b].cur].work # batch[b].work
      BY <1>2, <3>2 DEF Stale
    <3>3. CASE ~Runnable(batch[b].cur)
      BY <1>1, <3>3 DEF Runnable
    <3>4. CASE ~SameLogin(batch[b].cur, batch[b].seen)
      BY <1>1, <3>4 DEF SameLogin
    <3> QED BY <3>1, <3>2, <3>3, <3>4
  <2> QED BY <2>1, <2>2
<1>6. late'[b] > 1 => Doomed(b)'
  BY <1>1, <1>2, <1>4 DEF LateOf
<1> QED BY <1>1, <1>5, <1>6 DEF LateOf, Working

LEMMA LateRenewal ==
  ASSUME TypeOK, Reserved, Late, NEW b \in Batches, StoreRenewal(b)
  PROVE  LateOf(b)'
<1>1. /\ batch[b].pc = "storing" /\ batch'[b].pc = "tasks" /\ late' = late
      /\ StillTheSame(b) /\ (Doomed(b) => Doomed(b)')
  BY StoreFacts, DoomOwn DEF StoreRenewal
<1>2. LateOf(b) /\ Configured(b) /\ late[b] \in Nat
  BY <1>1, LateIs DEF Configured, Working, TypeOK
<1>3. late[b] > 0 => Doomed(b)
  BY <1>1, <1>2 DEF LateOf, StillTheSame
<1> QED BY <1>1, <1>2, <1>3 DEF LateOf

\* Between accounts nothing is counted.
LEMMA LateElsewhere ==
  ASSUME TypeOK, Reserved, Late, NEW b \in Batches, Begin(b) \/ Leaves(b) \/ End(b)
  PROVE  LateOf(b)'
<1> DEFINE Elsewhere == {"idle", "next", "config", "context", "ending", "ended"}
<1>0. LateOf(b) /\ late \in [Batches -> Nat]
  BY LateIs DEF TypeOK
<1>1. batch'[b].pc \in Elsewhere /\ late'[b] = 0
  <2>1. CASE Begin(b)
    BY <1>0, <2>1, BeginFacts DEF LateOf
  <2>2. CASE End(b)
    BY <1>0, <2>2, EndFacts DEF LateOf
  <2>3. CASE TakeAccount(b)
    BY <1>0, <2>3, TakeFacts DEF LateOf, TakeAccount
  <2>4. CASE ReadConfig(b)
    BY <1>0, <2>4, ReadFacts DEF LateOf, ReadConfig
  <2>5. CASE LeaveLoop(b)
    <3>1. GoesOn(b, "ending") /\ batch[b].pc = "next" /\ late' = late
      BY <2>5, GoesFacts DEF LeaveLoop, Places
    <3> QED BY <1>0, <3>1 DEF LateOf, GoesOn
  <2>6. CASE RecordFails(b) \/ Release(b)
    <3>1. PICK place \in {"next", "ending"} : batch' = [batch EXCEPT ![b] = Between(b, place)]
      BY <2>6 DEF RecordFails, Release, NextAccount
    <3>2. batch'[b].pc = place
      BY <3>1, BetweenFacts DEF Places
    <3>3. late' = [late EXCEPT ![b] = 0]
      BY <2>6 DEF RecordFails, Release
    <3> QED BY <1>0, <3>1, <3>2, <3>3
  <2> QED BY <2>1, <2>2, <2>3, <2>4, <2>5, <2>6 DEF Leaves
<1>2. batch'[b].pc \notin Working /\ batch'[b].pc # "asked"
  BY <1>1 DEF Working
<1> QED BY <1>1, <1>2 DEF LateOf

LEMMA LateStep ==
  ASSUME TypeOK, Reserved, Stale, Credentials, Late, NEW b \in Batches, StepOf(b)
  PROVE  Late'
<1>1. ASSUME NEW c \in Batches \ {b}
      PROVE  LateOf(c)'
  <2>1. TypeOK' /\ batch'[c] = batch[c] /\ late'[c] = late[c] /\ LateOf(c)
    BY StepFrame, LateIs
  <2>2. \A x \in Accounts :
          /\ MovesOn(x)
          /\ account'[x].state = "open" =>
               account[x].state = "open" \/ (batch[c].cur = x => late'[c] = 0)
    BY MovesOnStep, StepFrame
  <2>3. batch[c].pc \in Held /\ Doomed(c) => Doomed(c)'
    BY DoomOthers
  <2> QED BY <2>1, <2>2, <2>3, LateKept
<1>2. LateOf(b)'
  BY MoveLate, LateMove, LateSend, LateRenewal, LateElsewhere DEF StepOf
<1> QED BY <1>1, <1>2 DEF Late, LateOf

-----------------------------------------------------------------------------
(* Stopping. *)

LEMMA ProcessOutside ==
  ASSUME Outside
  PROVE  process' = process \/ Stop \/ Exit
<1>1. CASE \E a \in Accounts : Handler(a)
  BY <1>1 DEF Handler, UserCancel, Revoke, EditTasks, OpenOrClose, Rebind, CheckRenews,
              StartDelete, Delete
<1> QED BY <1>1 DEF Outside, Expire, SwitchSite, Sweep

LEMMA StoppingOutside ==
  ASSUME TypeOK, Over, Down, Outside
  PROVE  Over' /\ Down'
<1>1. \A b \in Batches : batch'[b].pc = batch[b].pc /\ (batch[b].over => batch'[b].over)
  BY OutsideFacts DEF Environment
<1>2. CASE process' = process
  BY <1>1, <1>2 DEF Over, Down, Active
<1>3. CASE Stop
  <2>1. process' = "stopping" /\ batch \in [Batches -> BatchRecord]
        /\ batch' = [b \in Batches |-> [batch[b] EXCEPT !.over = @ \/ Active(b)]]
    BY <1>3 DEF Stop, TypeOK
  <2>2. ASSUME NEW b \in Batches, Active(b)
        PROVE  batch'[b].over
    <3>1. batch'[b] = [batch[b] EXCEPT !.over = TRUE]
      BY <2>1, <2>2, Zenon
    <3> QED BY <2>1, <3>1 DEF BatchRecord
  <2> QED BY <1>1, <2>1, <2>2 DEF Over, Down, Active
<1>4. CASE Exit
  BY <1>4 DEF Exit, Over, Down, Active
<1> QED BY <1>2, <1>3, <1>4, ProcessOutside

LEMMA StoppingStep ==
  ASSUME TypeOK, Reserved, Over, Down, NEW b \in Batches, StepOf(b)
  PROVE  Over' /\ Down'
<1>1. process' = process /\ \A c \in Batches \ {b} : batch'[c] = batch[c]
  BY StepFrame
<1>2. CASE Begin(b)
  BY <1>1, <1>2, BeginFacts DEF Over, Down
<1>3. CASE End(b)
  <2>1. batch'[b].pc = "ended" /\ batch[b].pc = "ending"
    BY <1>3, EndFacts
  <2> QED BY <1>1, <2>1 DEF Over, Down, Active
<1>4. CASE Moves(b) \/ StoreRenewal(b) \/ Leaves(b)
  <2>1. Active(b) /\ batch'[b].over = batch[b].over
    BY <1>4, MoveFacts, StoreFacts, LeaveFacts DEF Keeps, Active, Held, Working
  <2> QED BY <1>1, <2>1 DEF Over, Down, Active
<1> QED BY <1>2, <1>3, <1>4 DEF StepOf

-----------------------------------------------------------------------------
(* The invariant, and what follows from it. *)

LEMMA InitInv == Init => IInv
<1> SUFFICES ASSUME Init
             PROVE  IInv
  OBVIOUS
<1>1. \A b \in Batches : batch[b] = IdleBatch /\ late[b] = 0
  BY DEF Init
<1>2. IdleBatch \in BatchRecord
  BY AloneFacts DEF IdleBatch, Places
<1>3. NewAccount \in AccountRecord
  BY RunnerAssumption DEF NewAccount, AccountRecord
<1>4. TypeOK
  <2>1. MaxChanges \in Nat /\ MaxFailedSaves \in Nat
    BY RunnerAssumption
  <2>2. account \in [Accounts -> AccountRecord] /\ batch \in [Batches -> BatchRecord]
    BY <1>2, <1>3 DEF Init
  <2>3. /\ reserved \in [Accounts -> Batches \union {None}] /\ stopped \subseteq Batches \X Accounts
        /\ revoking \in [Accounts -> Nat] /\ late \in [Batches -> Nat]
    BY DEF Init
  <2>4. /\ site \in BOOLEAN /\ sweeping \in BOOLEAN /\ leaving \subseteq Accounts
        /\ process \in {"up", "stopping", "down"}
    BY DEF Init
  <2>5. changes \in 0 .. MaxChanges /\ failedSaves \in 0 .. MaxFailedSaves
    BY <2>1 DEF Init
  <2> QED BY <2>2, <2>3, <2>4, <2>5 DEF TypeOK
<1>5. IdleBatch.pc = "idle" /\ IdleBatch.seen.cookie.of = IdleBatch.seen.login
  BY DEF IdleBatch, Alone, NewAccount
<1>6. Stale /\ Late
  BY <1>1, <1>5 DEF Stale, Late, Configured, Working
<1>7. Credentials
  BY <1>1, <1>5 DEF Init, Credentials, NewAccount, Held, Working
<1>8. Over /\ Down
  BY DEF Init, Over, Down
<1> QED BY <1>4, <1>6, <1>7, <1>8, ReservedInit DEF IInv

LEMMA StepInv == IInv /\ [Next]_vars => IInv'
<1> SUFFICES ASSUME IInv, [Next]_vars
             PROVE  IInv'
  OBVIOUS
<1>0. TypeOK /\ Reserved /\ Stale /\ Credentials /\ Late /\ Over /\ Down
  BY DEF IInv
<1>1. CASE UNCHANGED vars
  BY <1>0, <1>1
     DEF vars, IInv, TypeOK, Reserved, Stale, Credentials, Late, Over, Down, Configured, Doomed,
         Stopped, Active, Behind, SameLogin, Runnable
<1>2. CASE Outside
  <2>1. Environment
    BY <1>0, <1>2, OutsideFacts
  <2> QED
    BY <1>0, <1>2, <2>1, ReservedOutside, StaleOutside, CredentialsOutside, LateOutside,
       StoppingOutside DEF Environment, IInv
<1>3. ASSUME NEW b \in Batches, StepOf(b)
      PROVE  IInv'
  <2>1. Reserved'
    BY <1>0, <1>3, ReservedStep DEF StepOf
  <2>2. TypeOK' /\ Stale' /\ Credentials'
    BY <1>0, <1>3, StepFrame, StaleStep, CredentialsStep
  <2>3. Late' /\ Over' /\ Down'
    BY <1>0, <1>3, LateStep, StoppingStep
  <2> QED BY <2>1, <2>2, <2>3 DEF IInv
<1> QED BY <1>1, <1>2, <1>3, Split DEF StepOf

LEMMA Inductive == Spec => []IInv
BY InitInv, StepInv, PTL DEF Spec

\* Every state is well typed: what the account, batch and handler records hold.
THEOREM TypeCorrect == Spec => []TypeOK
BY Inductive, PTL DEF IInv

\* begin, releaseAccount and end (runner.go) keep any number of batches off each
\* other's accounts: no account is worked on by two goroutines at once.
THEOREM OneBatchAtATime == Spec => []OneBatchPerAccount
<1>1. IInv => OneBatchPerAccount
  <2> SUFFICES ASSUME IInv, NEW a \in Accounts, NEW b \in Batches, NEW c \in Batches,
                      Handles(b, a), Handles(c, a)
               PROVE  b = c
    BY DEF OneBatchPerAccount
  <2> QED BY Held_Cur DEF IInv, Handles
<1> QED BY <1>1, Inductive, PTL

\* A batch's contexts stay registered for what it has yet to do, and none outlives
\* its batch.
THEOREM ReservationsAreHeld == Spec => []ReservationsHeld
<1>1. IInv => ReservationsHeld
  <2> SUFFICES ASSUME IInv
               PROVE  ReservationsHeld
    OBVIOUS
  <2>1. ASSUME NEW b \in Batches, NEW a \in Accounts, Handles(b, a)
        PROVE  reserved[a] = b
    BY <2>1, Held_Cur DEF IInv, Handles
  <2>2. ASSUME NEW b \in Batches, NEW a \in Accounts, Active(b), a \in batch[b].todo
        PROVE  reserved[a] = b
    BY <2>2 DEF IInv, Reserved
  <2>3. \A a \in Accounts : reserved[a] # None => Active(reserved[a])
    BY DEF IInv, Reserved
  <2> QED BY <2>1, <2>2, <2>3 DEF ReservationsHeld
<1> QED BY <1>1, Inductive, PTL

\* Whatever settings change while a run is under way, the run is cancelled or about
\* to be.
THEOREM StaleRunsStop == Spec => []StaleIsStopped
<1>1. IInv => StaleIsStopped
  BY DEF IInv, Stale, StaleIsStopped, Configured, Doomed
<1> QED BY <1>1, Inductive, PTL

\* allowed() lets at most one request out after the owner's change, until the
\* change's own cancel.
THEOREM LateRequestsAreFew == Spec => []LateByOne
<1>1. IInv => LateByOne
  BY DEF IInv, Late, LateByOne, Doomed
<1> QED BY <1>1, Inductive, PTL

\* RenewAccountCookie and the account check never leave the cookie of one login
\* with the credentials of another.
THEOREM CookiesAreOwn == Spec => []CookieIsOwn
<1>1. IInv => CookieIsOwn
  BY DEF IInv, Credentials, CookieIsOwn
<1> QED BY <1>1, Inductive, PTL

\* Runner.Stop is final.
THEOREM StopIsHonoured == Spec => []StopIsFinal
<1>1. IInv => StopIsFinal
  BY DEF IInv, Over, Down, StopIsFinal
<1> QED BY <1>1, Inductive, PTL
=============================================================================
