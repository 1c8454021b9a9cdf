--------------------------- MODULE PushOutbox_proofs ---------------------------
(***************************************************************************)
(* Proofs about PushOutbox, for any users, channels, events and workers,   *)
(* any capacity, and any number of notices, restarts and failed saves.     *)
(***************************************************************************)
EXTENDS PushOutbox, FiniteSetTheorems, TLAPS

-------------------------------------------------------------------------------
(* Types. The sets of strings stay folded; Strings says what belongs to them. *)

LEMMA Strings ==
    /\ ActiveStates \subseteq DeliveryStates
    /\ SettledStates \subseteq DeliveryStates
    /\ Answers \subseteq SettledStates
    /\ "none" \in DeliveryStates /\ "pending" \in DeliveryStates /\ "sending" \in DeliveryStates
    /\ "skipped" \in DeliveryStates /\ "unknown" \in DeliveryStates
    /\ {"accepted", "failed", "unknown"} = Answers
    /\ OpenReminder \subseteq ReminderStates
    /\ \A s \in {"absent", "pending", "queued", "processed", "expired", "skipped", "cancelled",
                 "removed"} : s \in ReminderStates
BY DEF DeliveryStates, ActiveStates, SettledStates, Answers, ReminderStates, OpenReminder

LEMMA Finite ==
    /\ IsFiniteSet(Deliveries)
    /\ IsFiniteSet(Reminders)
    /\ \A S \in SUBSET Deliveries : IsFiniteSet(S) /\ Cardinality(S) \in Nat
    /\ \A S \in SUBSET Reminders : IsFiniteSet(S) /\ Cardinality(S) \in Nat
<1>1. IsFiniteSet(Notices) /\ IsFiniteSet(Reminders)
  BY OutboxAssumption, FS_Interval DEF OutboxAssumption, Notices, Reminders
<1>2. IsFiniteSet(Deliveries)
  BY <1>1, OutboxAssumption, FS_Product DEF OutboxAssumption, Deliveries
<1> QED
  BY <1>1, <1>2, FS_Subset, FS_CardinalityType

LEMMA Fillers == NoDelivery \in Deliveries /\ NoEvent \in Events
                 /\ IdleWorker \in WorkerRecord /\ EndedWorker \in WorkerRecord
<1>1. Deliveries # {} /\ Events # {}
  <2>1. PICK c \in Channels : TRUE
    BY OutboxAssumption DEF OutboxAssumption
  <2>2. 1 \in Notices
    BY OutboxAssumption DEF OutboxAssumption, Notices
  <2>3. <<1, c>> \in Deliveries
    BY <2>1, <2>2 DEF Deliveries
  <2> QED
    BY <2>3, OutboxAssumption DEF OutboxAssumption
<1>2. NoDelivery \in Deliveries /\ NoEvent \in Events
  BY <1>1 DEF NoDelivery, NoEvent
<1> QED
  BY <1>2, Strings DEF IdleWorker, EndedWorker, WorkerRecord

LEMMA InitTypeOK == Init => TypeOK
<1> SUFFICES ASSUME Init PROVE TypeOK
  OBVIOUS
<1>1. notice \in [Notices -> NoticeRecord]
  BY DEF Init, NoticeRecord
<1>2. reminder \in [Reminders -> ReminderRecord]
  BY Fillers, Strings DEF Init, ReminderRecord
<1>3. settings \in [Users -> SettingsRecord]
  BY DEF Init, SettingsRecord
<1>4. last \in 0..MaxNotices /\ failedSaves \in 0..MaxFailedSaves /\ restarts \in 0..MaxRestarts
  BY OutboxAssumption DEF Init, OutboxAssumption
<1> QED
  BY <1>1, <1>2, <1>3, <1>4, Fillers, Strings DEF Init, TypeOK

\* What the helpers of the actions do to the types.
LEMMA AppendType ==
    ASSUME TypeOK, NEW s \in DeliveryStates, NEW new \in SUBSET Deliveries, Append(new, s)
    PROVE  /\ status' \in [Deliveries -> DeliveryStates]
           /\ outbox' \subseteq Deliveries
           /\ outbox' \subseteq outbox \union new
           /\ \A d \in Deliveries : status'[d] = IF d \in new THEN s ELSE status[d]
<1>1. status' = [d \in Deliveries |-> IF d \in new THEN s ELSE status[d]]
  BY DEF Append
<1>2. outbox' \subseteq outbox \union new
  BY DEF Append
<1> QED
  BY <1>1, <1>2 DEF TypeOK

LEMMA TalliedType ==
    ASSUME TypeOK, NEW r \in Reminders, NEW settled \in SUBSET Deliveries, NEW st
    PROVE  Tallied(r, settled, st) \in ReminderRecord
<1> DEFINE n(os) == CountOf(r, settled, st, os)
<1>1. \A os : n(os) \in Nat
  <2> TAKE os
  <2> DEFINE S == {d \in settled : ReminderOf(d) = r /\ st[d] \in os}
  <2>1. S \in SUBSET Deliveries
    OBVIOUS
  <2>2. Cardinality(S) \in Nat
    BY <2>1, Finite
  <2> QED
    BY <2>2 DEF CountOf
<1>2. reminder[r] \in ReminderRecord
  BY DEF TypeOK
<1> HIDE DEF n
<1>3. /\ reminder[r].accepted + n({"accepted"}) \in Nat
      /\ reminder[r].failed + n({"failed", "skipped"}) \in Nat
      /\ reminder[r].uncertain + n({"unknown"}) \in Nat
  BY <1>1, <1>2 DEF ReminderRecord
<1>4. PICK s \in {"queued", "processed"} : s =
          IF \E d \in outbox : ReminderOf(d) = r /\ st[d] \in ActiveStates
          THEN "queued" ELSE "processed"
  OBVIOUS
<1>5. Tallied(r, settled, st) =
        [reminder[r] EXCEPT !.accepted = @ + n({"accepted"}),
                            !.failed = @ + n({"failed", "skipped"}),
                            !.uncertain = @ + n({"unknown"}), !.status = s]
  BY <1>4 DEF Tallied, n
<1> QED
  BY <1>2, <1>3, <1>4, <1>5, Strings DEF ReminderRecord

LEMMA SettleType ==
    ASSUME TypeOK, NEW settled \in SUBSET Deliveries, NEW st \in [Deliveries -> DeliveryStates],
           Settle(settled, st)
    PROVE  /\ status' = st
           /\ reminder' \in [Reminders -> ReminderRecord]
<1>1. \A r \in Reminders : Tallied(r, settled, st) \in ReminderRecord
  BY TalliedType
<1> QED
  BY <1>1 DEF Settle, TypeOK

LEMMA NextNotice ==
    ASSUME TypeOK, last < MaxNotices
    PROVE  /\ last + 1 \in Notices
           /\ last + 1 \in 0..MaxNotices
           /\ \A c \in Channels : <<last + 1, c>> \in Deliveries
BY OutboxAssumption DEF OutboxAssumption, TypeOK, Notices, Deliveries

LEMMA FillType ==
    ASSUME NEW kind \in {"none", "task", "calendar", "test"}, NEW rev \in Nat,
           NEW r \in {0} \union Reminders
    PROVE  Fill(kind, rev, r) \in NoticeRecord
BY DEF Fill, NoticeRecord

LEMMA EnqueueType ==
    ASSUME TypeOK, NEW u \in Users, Enqueue(u)
    PROVE  TypeOK'
<1>1. PICK new : new = {last + 1} \X settings[u].channels
  OBVIOUS
<1>2. settings[u] \in SettingsRecord
  BY DEF TypeOK
<1>3. new \in SUBSET Deliveries
  BY <1>1, <1>2, NextNotice DEF Enqueue, SettingsRecord, Deliveries
<1>4. Append(new, "pending")
  BY <1>1 DEF Enqueue
<1>5. /\ status' \in [Deliveries -> DeliveryStates]
      /\ outbox' \subseteq Deliveries
  BY <1>3, <1>4, AppendType, Strings
<1>6. Fill("task", settings[u].rev, 0) \in NoticeRecord
  BY <1>2, FillType DEF SettingsRecord
<1>7. notice' \in [Notices -> NoticeRecord] /\ last' \in 0..MaxNotices
  BY <1>6, NextNotice DEF Enqueue, TypeOK
<1> QED
  BY <1>5, <1>7 DEF Enqueue, TypeOK, userVars, serviceVars, faultVars

LEMMA RecordTestType ==
    ASSUME TypeOK, NEW c \in Channels, RecordTest(c)
    PROVE  TypeOK'
<1>1. PICK answer \in Answers, taken \in BOOLEAN :
        /\ provider' = [provider EXCEPT ![<<last + 1, c>>] = [offers |-> 1, taken |-> taken]]
        /\ Append({<<last + 1, c>>}, answer)
  BY DEF RecordTest
<1>2. PICK new \in SUBSET Deliveries : new = {<<last + 1, c>>}
  BY NextNotice DEF RecordTest
<1>3. /\ status' \in [Deliveries -> DeliveryStates]
      /\ outbox' \subseteq Deliveries
  BY <1>1, <1>2, AppendType, Strings
<1>4. provider' \in [Deliveries -> [offers: Nat, taken: BOOLEAN]]
  BY <1>1 DEF TypeOK
<1>5. Fill("test", 0, 0) \in NoticeRecord
  BY FillType
<1>6. notice' \in [Notices -> NoticeRecord] /\ last' \in 0..MaxNotices
  BY <1>5, NextNotice DEF RecordTest, TypeOK
<1> QED
  BY <1>3, <1>4, <1>6 DEF RecordTest, TypeOK, userVars, faultVars

\* What a round of the calendar goroutine does to the outbox, in one place.
LEMMA QueueDueEffect ==
    ASSUME TypeOK, QueueDue
    PROVE  \E new \in SUBSET Deliveries :
             /\ Append(new, "pending")
             /\ \A d \in new : d[1] > last /\ d[1] <= last'
             /\ last' \in 0..MaxNotices /\ last' >= last
             /\ notice' \in [Notices -> NoticeRecord]
             /\ \A n \in Notices : n <= last => notice'[n] = notice[n]
             /\ reminder' \in [Reminders -> ReminderRecord]
<1>1. PICK queued \in SUBSET Wanting :
        /\ last' = last + Cardinality(queued)
        /\ last' <= MaxNotices
        /\ \E slot \in [queued -> (last + 1)..last'] : Announce(queued, slot)
        /\ reminder' = [r \in Reminders |->
              [reminder[r] EXCEPT !.status = IF r \in Late THEN "expired"
                                             ELSE IF r \in Refused THEN "skipped"
                                             ELSE IF r \in queued THEN "queued" ELSE @]]
  BY DEF QueueDue
<1>2. queued \subseteq Reminders
  BY DEF Wanting, Round, Due
<1>3. PICK slot \in [queued -> (last + 1)..last'] : Announce(queued, slot)
  BY <1>1
<1>4. PICK new \in SUBSET Deliveries :
        new = {d \in Deliveries : \E r \in queued : d[1] = slot[r] /\ d[2] \in ChannelsFor(r)}
  OBVIOUS
<1>5. PICK k \in Nat : k = Cardinality(queued)
  BY <1>2, Finite
<1>6. last \in Nat /\ MaxNotices \in Nat
  BY OutboxAssumption DEF TypeOK, OutboxAssumption
<1>7. \A r \in queued : slot[r] \in (last + 1)..(last + k)
  BY <1>1, <1>3, <1>5
<1>8. \A d \in new : d[1] > last /\ d[1] <= last'
  BY <1>1, <1>4, <1>5, <1>6, <1>7
<1>9. last' \in 0..MaxNotices /\ last' >= last
  BY <1>1, <1>5, <1>6
<1>10. \A r \in queued : Fill("calendar", settings[UserOfReminder(r)].rev, r) \in NoticeRecord
  <2> TAKE r \in queued
  <2>1. reminder[r] \in ReminderRecord /\ r \in Reminders
    BY <1>2 DEF TypeOK
  <2>2. UserOfReminder(r) \in Users
    BY <2>1, OutboxAssumption DEF UserOfReminder, ReminderRecord, OutboxAssumption
  <2>3. settings[UserOfReminder(r)].rev \in Nat
    BY <2>2 DEF TypeOK, SettingsRecord
  <2> QED
    BY <2>1, <2>3, FillType
<1>11. notice' \in [Notices -> NoticeRecord]
  <2>1. \A n \in Notices : (\E r \in queued : slot[r] = n) =>
           (CHOOSE r \in queued : slot[r] = n) \in queued
    OBVIOUS
  <2> QED
    BY <1>3, <1>10, <2>1 DEF TypeOK, Announce
<1>12. \A n \in Notices : n <= last => notice'[n] = notice[n]
  BY <1>3, <1>6, <1>7 DEF Notices, Announce
<1>13. reminder' \in [Reminders -> ReminderRecord]
  <2>1. \A r \in Reminders : reminder[r] \in ReminderRecord
    BY DEF TypeOK
  <2> QED
    BY <1>1, <2>1, Strings DEF ReminderRecord
<1>14. Append(new, "pending")
  BY <1>3, <1>4 DEF Announce
<1> QED
  BY <1>8, <1>9, <1>11, <1>12, <1>13, <1>14

LEMMA QueueDueType ==
    ASSUME TypeOK, QueueDue
    PROVE  TypeOK'
<1>1. PICK new \in SUBSET Deliveries :
        /\ Append(new, "pending")
        /\ last' \in 0..MaxNotices
        /\ notice' \in [Notices -> NoticeRecord]
        /\ reminder' \in [Reminders -> ReminderRecord]
  BY QueueDueEffect
<1>2. /\ status' \in [Deliveries -> DeliveryStates]
      /\ outbox' \subseteq Deliveries
  BY <1>1, AppendType, Strings
<1>3. UNCHANGED <<userVars, serviceVars, faultVars>>
  BY DEF QueueDue
<1> QED
  BY <1>1, <1>2, <1>3 DEF TypeOK, userVars, serviceVars, faultVars

LEMMA ReminderStepType ==
    ASSUME TypeOK,
           \/ \E e \in Events : AddReminder(e) \/ DeleteEvent(e) \/ EventPasses(e)
           \/ \E r \in Reminders : CancelReminder(r) \/ WindowMoves(r)
           \/ \E u \in Users : ClearHistory(u)
    PROVE  TypeOK'
<1>1. ASSUME NEW e \in Events, AddReminder(e) PROVE TypeOK'
  <2>1. reminder' \in [Reminders -> ReminderRecord]
    BY <1>1, Strings DEF AddReminder, TypeOK, ReminderRecord
  <2> QED
    BY <1>1, <2>1 DEF AddReminder, TypeOK, userVars, serviceVars, faultVars
<1>2. ASSUME NEW e \in Events, DeleteEvent(e) PROVE TypeOK'
  <2>1. reminder' \in [Reminders -> ReminderRecord]
    BY <1>2, Strings DEF DeleteEvent, TypeOK, ReminderRecord
  <2>2. deleted' \subseteq Events
    BY <1>2 DEF DeleteEvent, TypeOK
  <2> QED
    BY <1>2, <2>1, <2>2 DEF DeleteEvent, TypeOK, serviceVars, faultVars
<1>3. ASSUME NEW r \in Reminders, CancelReminder(r) PROVE TypeOK'
  <2>1. reminder' \in [Reminders -> ReminderRecord]
    BY SMTT(60), <1>3, Strings DEF CancelReminder, TypeOK, ReminderRecord
  <2>2. status' \in [Deliveries -> DeliveryStates]
    BY <1>3, Strings DEF CancelReminder, TypeOK
  <2> QED
    BY <1>3, <2>1, <2>2 DEF CancelReminder, TypeOK, userVars, serviceVars, faultVars
<1>4. ASSUME NEW u \in Users, ClearHistory(u) PROVE TypeOK'
  <2>1. reminder' \in [Reminders -> ReminderRecord]
    BY <1>4, Strings DEF ClearHistory, TypeOK, ReminderRecord
  <2> QED
    BY <1>4, <2>1 DEF ClearHistory, TypeOK, userVars, serviceVars, faultVars
<1>5. ASSUME NEW r \in Reminders, WindowMoves(r) PROVE TypeOK'
  <2>1. reminder' \in [Reminders -> ReminderRecord]
    BY <1>5, Strings DEF WindowMoves, TypeOK, ReminderRecord
  <2> QED
    BY <1>5, <2>1 DEF WindowMoves, TypeOK, userVars, serviceVars, faultVars
<1>6. ASSUME NEW e \in Events, EventPasses(e) PROVE TypeOK'
  BY <1>6 DEF EventPasses, TypeOK, queueVars, serviceVars, faultVars
<1> QED
  BY <1>1, <1>2, <1>3, <1>4, <1>5, <1>6

LEMMA RemindersWithoutType ==
    ASSUME TypeOK, NEW u \in Users
    PROVE  RemindersWithout(u) \in [Reminders -> ReminderRecord]
BY Strings DEF RemindersWithout, TypeOK, ReminderRecord

LEMMA UserStepType ==
    ASSUME TypeOK, NEW u \in Users,
           ChangeSettings(u) \/ ChangeAccess(u) \/ RemoveAccount(u) \/ RemoveUser(u)
    PROVE  TypeOK'
<1>1. CASE ChangeSettings(u)
  <2>1. PICK on \in SUBSET Kinds, channels \in SUBSET {c \in Channels : OwnerOf[c] = u} :
          settings' = [settings EXCEPT ![u] =
                          [rev |-> @.rev + 1, on |-> on, channels |-> channels]]
    BY <1>1 DEF ChangeSettings
  <2>2. [rev |-> settings[u].rev + 1, on |-> on, channels |-> channels] \in SettingsRecord
    BY DEF TypeOK, SettingsRecord
  <2>3. settings' \in [Users -> SettingsRecord]
    BY <2>1, <2>2 DEF TypeOK
  <2> QED
    BY <1>1, <2>3 DEF ChangeSettings, TypeOK, queueVars, serviceVars, faultVars
<1>2. CASE ChangeAccess(u)
  BY <1>2 DEF ChangeAccess, TypeOK, queueVars, serviceVars, faultVars
<1>3. CASE RemoveAccount(u)
  BY <1>3, RemindersWithoutType DEF RemoveAccount, TypeOK, serviceVars, faultVars
<1>4. CASE RemoveUser(u)
  <2>1. outbox' \subseteq Deliveries
    BY <1>4 DEF RemoveUser, TypeOK
  <2> QED
    BY <1>4, <2>1, RemindersWithoutType DEF RemoveUser, TypeOK, serviceVars, faultVars
<1> QED
  BY <1>1, <1>2, <1>3, <1>4

\* What a claim does, with the set it skips made a constant.
LEMMA ClaimEffect ==
    ASSUME TypeOK, NEW w \in Workers, Claim(w)
    PROVE  \E d \in Pending, skipped \in SUBSET Pending :
             /\ d \notin skipped
             /\ Settle(skipped, Marked(d, skipped))
             /\ worker' = [worker EXCEPT ![w].pc = "claimed", ![w].delivery = d]
             /\ Marked(d, skipped) \in [Deliveries -> DeliveryStates]
             /\ \A e \in Deliveries :
                   Marked(d, skipped)[e] = IF e = d THEN "sending"
                                           ELSE IF e \in skipped THEN "skipped" ELSE status[e]
<1>1. PICK d \in Pending \ Stale :
        /\ LET skipped == {e \in Stale : e[1] < d[1]} IN Settle(skipped, Marked(d, skipped))
        /\ worker' = [worker EXCEPT ![w].pc = "claimed", ![w].delivery = d]
  BY DEF Claim
<1>2. PICK skipped \in SUBSET Stale : skipped = {e \in Stale : e[1] < d[1]}
  OBVIOUS
<1>3. skipped \in SUBSET Pending /\ d \notin skipped
  BY <1>2 DEF Stale
<1>4. /\ Marked(d, skipped) \in [Deliveries -> DeliveryStates]
      /\ \A e \in Deliveries :
            Marked(d, skipped)[e] = IF e = d THEN "sending"
                                    ELSE IF e \in skipped THEN "skipped" ELSE status[e]
  BY Strings DEF Marked, TypeOK
<1> QED
  BY ZenonT(60), <1>1, <1>2, <1>3, <1>4

LEMMA PendingTyped == TypeOK => Pending \subseteq Deliveries /\ Stale \subseteq Pending
BY DEF TypeOK, Pending, Stale

LEMMA WorkType ==
    ASSUME TypeOK, NEW w \in Workers, Work(w)
    PROVE  TypeOK'
<1>1. CASE Claim(w)
  <2>1. PICK d \in Pending, skipped \in SUBSET Pending :
           /\ Settle(skipped, Marked(d, skipped))
           /\ worker' = [worker EXCEPT ![w].pc = "claimed", ![w].delivery = d]
           /\ Marked(d, skipped) \in [Deliveries -> DeliveryStates]
    BY <1>1, ClaimEffect
  <2>2. PICK st \in [Deliveries -> DeliveryStates] : st = Marked(d, skipped)
    BY <2>1
  <2>3. skipped \in SUBSET Deliveries /\ d \in Deliveries
    BY PendingTyped
  <2>4. status' \in [Deliveries -> DeliveryStates] /\ reminder' \in [Reminders -> ReminderRecord]
    BY <2>1, <2>2, <2>3, SettleType
  <2>5. worker' \in [Workers -> WorkerRecord]
    BY ZenonT(60), <2>1, <2>3 DEF TypeOK, WorkerRecord
  <2> QED
    BY <1>1, <2>4, <2>5 DEF Claim, TypeOK, userVars, faultVars
<1>2. CASE SkipStale(w)
  <2>1. PICK st : st = [d \in Deliveries |-> IF d \in Stale THEN "skipped" ELSE status[d]]
    OBVIOUS
  <2>2. st \in [Deliveries -> DeliveryStates]
    BY <2>1, Strings DEF TypeOK
  <2>3. PICK gone \in SUBSET Deliveries : gone = Stale
    BY PendingTyped
  <2>4. Settle(gone, st)
    BY <1>2, <2>1, <2>3 DEF SkipStale
  <2>5. status' \in [Deliveries -> DeliveryStates] /\ reminder' \in [Reminders -> ReminderRecord]
    BY <2>2, <2>4, SettleType
  <2> QED
    BY <1>2, <2>5 DEF SkipStale, TypeOK, userVars, serviceVars, faultVars
<1>3. CASE Send(w)
  <2>1. PICK taken \in BOOLEAN, answer \in Answers :
          /\ provider' = [provider EXCEPT ![worker[w].delivery] =
                             [offers |-> @.offers + 1, taken |-> @.taken \/ taken]]
          /\ worker' = [worker EXCEPT ![w].pc = "answered", ![w].answer = answer]
    BY <1>3 DEF Send
  <2>2. worker[w].delivery \in Deliveries
    BY DEF TypeOK, WorkerRecord
  <2>3. PICK t \in BOOLEAN : t = (provider[worker[w].delivery].taken \/ taken)
    OBVIOUS
  <2>4. provider[worker[w].delivery].offers + 1 \in Nat
    BY <2>2 DEF TypeOK
  <2>5. provider' = [provider EXCEPT ![worker[w].delivery] =
                       [offers |-> provider[worker[w].delivery].offers + 1, taken |-> t]]
    BY <2>1, <2>3
  <2>6. provider' \in [Deliveries -> [offers: Nat, taken: BOOLEAN]]
    BY <2>2, <2>4, <2>5 DEF TypeOK
  <2>7. worker' \in [Workers -> WorkerRecord]
    BY ZenonT(60), <2>1 DEF TypeOK, WorkerRecord
  <2> QED
    BY <1>3, <2>6, <2>7 DEF Send, TypeOK, queueVars, userVars, faultVars
<1>4. CASE Finish(w)
  <2>1. worker' \in [Workers -> WorkerRecord]
    BY <1>4, Fillers DEF Finish, TypeOK
  <2>2. worker[w].delivery \in Deliveries /\ worker[w].answer \in DeliveryStates
    BY Strings DEF TypeOK, WorkerRecord
  <2>3. PICK st \in [Deliveries -> DeliveryStates] :
           st = [status EXCEPT ![worker[w].delivery] = worker[w].answer]
    BY <2>2 DEF TypeOK
  <2>4. PICK done \in SUBSET Deliveries : done = {worker[w].delivery}
    BY <2>2
  <2>5. \/ Settle(done, st) /\ UNCHANGED failedSaves
        \/ UNCHANGED <<status, reminder, failedSaves>>
        \/ failedSaves < MaxFailedSaves /\ failedSaves' = failedSaves + 1
           /\ UNCHANGED <<status, reminder>>
    BY <1>4, <2>3, <2>4 DEF Finish
  <2>6. /\ status' \in [Deliveries -> DeliveryStates]
        /\ reminder' \in [Reminders -> ReminderRecord]
    BY <2>5, SettleType DEF TypeOK
  <2>7. failedSaves' \in 0..MaxFailedSaves
    BY <2>5, OutboxAssumption DEF TypeOK, OutboxAssumption
  <2> QED
    BY <1>4, <2>1, <2>6, <2>7 DEF Finish, TypeOK, userVars
<1> QED
  BY <1>1, <1>2, <1>3, <1>4 DEF Work

LEMMA ProcessType ==
    ASSUME TypeOK, Stop \/ Exit \/ Crash \/ Start
    PROVE  TypeOK'
<1>1. CASE Stop
  BY <1>1, OutboxAssumption DEF Stop, TypeOK, OutboxAssumption, queueVars, userVars
<1>2. CASE Exit
  BY <1>2, Fillers DEF Exit, TypeOK, queueVars, userVars, faultVars
<1>3. CASE Crash
  BY <1>3, OutboxAssumption, Fillers DEF Crash, TypeOK, OutboxAssumption, queueVars, userVars
<1>4. CASE Start
  <2>1. PICK st : st = [d \in Deliveries |-> Recovered(d)]
    OBVIOUS
  <2>2. st \in [Deliveries -> DeliveryStates]
    BY <2>1, Strings DEF Recovered, TypeOK
  <2>3. PICK open \in SUBSET Deliveries : open = {d \in outbox : status[d] = "sending"}
    BY DEF TypeOK
  <2>4. Settle(open, st)
    BY <1>4, <2>1, <2>3 DEF Start
  <2>5. status' \in [Deliveries -> DeliveryStates] /\ reminder' \in [Reminders -> ReminderRecord]
    BY <2>2, <2>4, SettleType
  <2> QED
    BY <1>4, <2>5, Fillers DEF Start, TypeOK, userVars, faultVars
<1> QED
  BY <1>1, <1>2, <1>3, <1>4

LEMMA NextTypeOK == TypeOK /\ [Next]_vars => TypeOK'
<1> SUFFICES ASSUME TypeOK, [Next]_vars PROVE TypeOK'
  OBVIOUS
<1>1. CASE UNCHANGED vars
  BY <1>1 DEF TypeOK, vars, queueVars, userVars, serviceVars, faultVars
<1>2. CASE UserStep
  <2>1. ASSUME NEW c \in TestedChannels, RecordTest(c) PROVE TypeOK'
    BY <2>1, RecordTestType, OutboxAssumption DEF OutboxAssumption
  <2>2. ASSUME NEW e \in Events, AddReminder(e) \/ DeleteEvent(e) PROVE TypeOK'
    BY <2>2, ReminderStepType
  <2>3. ASSUME NEW r \in Reminders, CancelReminder(r) PROVE TypeOK'
    BY <2>3, ReminderStepType
  <2>4. ASSUME NEW u \in Users, Enqueue(u) PROVE TypeOK'
    BY <2>4, EnqueueType
  <2>5. ASSUME NEW u \in Users, ClearHistory(u) PROVE TypeOK'
    BY <2>5, ReminderStepType
  <2>6. ASSUME NEW u \in Users,
               ChangeSettings(u) \/ ChangeAccess(u) \/ RemoveAccount(u) \/ RemoveUser(u)
        PROVE TypeOK'
    BY <2>6, UserStepType
  <2> QED
    BY <1>2, <2>1, <2>2, <2>3, <2>4, <2>5, <2>6 DEF UserStep
<1>3. CASE \E w \in Workers : Work(w)
  BY <1>3, WorkType
<1>4. CASE QueueDue
  BY <1>4, QueueDueType
<1>5. CASE Time
  BY <1>5, ReminderStepType DEF Time
<1>6. CASE Stop \/ Exit \/ Crash \/ Start
  BY <1>6, ProcessType
<1> QED
  BY <1>1, <1>2, <1>3, <1>4, <1>5, <1>6 DEF Next

\* Every variable of the outbox keeps its type.
THEOREM TypeCorrect == Spec => []TypeOK
<1> QED
  BY InitTypeOK, NextTypeOK, PTL DEF Spec

-------------------------------------------------------------------------------
(* The life of a delivery. A number above last has no history yet; a worker  *)
(* that claimed a delivery has not offered it, one that has an answer has    *)
(* one the provider's state agrees with.                                     *)

Fresh ==
    \A d \in Deliveries : d[1] > last =>
        status[d] = "none" /\ provider[d].offers = 0 /\ ~provider[d].taken

TakenWasOffered == \A d \in Deliveries : provider[d].taken => provider[d].offers > 0

WorkerKnows ==
    \A w \in Workers :
        /\ worker[w].pc = "claimed" => provider[worker[w].delivery].offers = 0
        /\ worker[w].pc = "answered" =>
             Reported(provider[worker[w].delivery].taken, worker[w].answer)

DeliveryInv ==
    /\ Fresh
    /\ TakenWasOffered
    /\ SentOnce
    /\ HonestStatus
    /\ OneWorkerPerDelivery
    /\ WorkerKnows

LEMMA InitDeliveryInv == Init => DeliveryInv
<1> SUFFICES ASSUME Init PROVE DeliveryInv
  OBVIOUS
<1>1. /\ \A d \in Deliveries : status[d] = "none" /\ provider[d].offers = 0 /\ ~provider[d].taken
      /\ \A w \in Workers : worker[w].pc = "idle"
  BY DEF Init, IdleWorker
<1>2. Fresh /\ TakenWasOffered /\ SentOnce /\ HonestStatus
  BY <1>1 DEF Fresh, TakenWasOffered, SentOnce, HonestStatus
<1>3. OneWorkerPerDelivery /\ WorkerKnows
  BY <1>1 DEF OneWorkerPerDelivery, Holds, WorkerKnows
<1> QED
  BY <1>2, <1>3 DEF DeliveryInv

\* Steps that leave workers and providers alone and only queue or skip deliveries.
Quiet ==
    /\ UNCHANGED <<worker, provider>>
    /\ last \in Nat /\ last' \in Nat /\ last' >= last
    /\ \A d \in Deliveries :
         \/ status'[d] = status[d]
         \/ status[d] = "none" /\ status'[d] = "pending" /\ d[1] > last /\ d[1] <= last'
         \/ status[d] = "pending" /\ status'[d] = "skipped"

LEMMA DeliveryNumber == \A d \in Deliveries : d[1] \in Nat /\ d[1] \in Notices /\ d[2] \in Channels
BY OutboxAssumption DEF Deliveries, Notices, OutboxAssumption

LEMMA QuietKeeps ==
    ASSUME TypeOK, DeliveryInv, Quiet
    PROVE  DeliveryInv'
<1>1. Fresh'
  BY DeliveryNumber DEF Quiet, DeliveryInv, Fresh
<1>2. HonestStatus'
  BY DEF Quiet, DeliveryInv, HonestStatus
<1>3. OneWorkerPerDelivery'
  BY DEF Quiet, DeliveryInv, OneWorkerPerDelivery, Holds
<1>4. TakenWasOffered' /\ SentOnce' /\ WorkerKnows'
  BY DEF Quiet, DeliveryInv, TakenWasOffered, SentOnce, WorkerKnows
<1> QED
  BY <1>1, <1>2, <1>3, <1>4 DEF DeliveryInv

LEMMA AppendIsQuiet ==
    ASSUME TypeOK, TypeOK', DeliveryInv, NEW new \in SUBSET Deliveries, Append(new, "pending"),
           last' >= last, \A d \in new : d[1] > last /\ d[1] <= last',
           UNCHANGED <<worker, provider>>
    PROVE  Quiet
<1>1. \A d \in Deliveries : status'[d] = IF d \in new THEN "pending" ELSE status[d]
  BY AppendType, Strings
<1>2. \A d \in new : status[d] = "none"
  BY DEF DeliveryInv, Fresh
<1> QED
  BY <1>1, <1>2, OutboxAssumption DEF Quiet, TypeOK, OutboxAssumption

LEMMA EnqueueQuiet ==
    ASSUME TypeOK, TypeOK', DeliveryInv, NEW u \in Users, Enqueue(u)
    PROVE  Quiet
<1>1. settings[u] \in SettingsRecord
  BY DEF TypeOK
<1>2. PICK new \in SUBSET Deliveries : new = {last + 1} \X settings[u].channels
  BY <1>1, NextNotice DEF Enqueue, SettingsRecord, Deliveries
<1>3. last \in Nat /\ last' = last + 1
  BY OutboxAssumption DEF Enqueue, TypeOK, OutboxAssumption
<1>4. \A d \in new : d[1] = last + 1
  BY <1>2
<1>5. \A d \in new : d[1] > last /\ d[1] <= last'
  BY <1>3, <1>4
<1>6. Append(new, "pending") /\ last' >= last /\ UNCHANGED <<worker, provider>>
  BY <1>2, <1>3 DEF Enqueue, serviceVars
<1> QED
  BY <1>5, <1>6, AppendIsQuiet

LEMMA QueueDueQuiet ==
    ASSUME TypeOK, TypeOK', DeliveryInv, QueueDue
    PROVE  Quiet
<1>1. PICK new \in SUBSET Deliveries :
        /\ Append(new, "pending")
        /\ \A d \in new : d[1] > last /\ d[1] <= last'
        /\ last' >= last
  BY QueueDueEffect
<1>2. UNCHANGED <<worker, provider>>
  BY DEF QueueDue, serviceVars
<1> QED
  BY <1>1, <1>2, AppendIsQuiet

LEMMA SkipsAreQuiet ==
    ASSUME TypeOK, DeliveryInv,
           \/ \E r \in Reminders : CancelReminder(r)
           \/ \E w \in Workers : SkipStale(w)
    PROVE  Quiet
<1>1. ASSUME NEW r \in Reminders, CancelReminder(r) PROVE Quiet
  BY <1>1, OutboxAssumption
     DEF CancelReminder, Quiet, TypeOK, OutboxAssumption, Pending, serviceVars
<1>2. ASSUME NEW w \in Workers, SkipStale(w) PROVE Quiet
  BY <1>2, OutboxAssumption
     DEF SkipStale, Settle, Stale, Quiet, TypeOK, OutboxAssumption, Pending, serviceVars
<1> QED
  BY <1>1, <1>2

LEMMA OthersAreQuiet ==
    ASSUME TypeOK,
           \/ UNCHANGED vars
           \/ Stop
           \/ \E r \in Reminders : WindowMoves(r)
           \/ \E e \in Events : AddReminder(e) \/ DeleteEvent(e) \/ EventPasses(e)
           \/ \E u \in Users : ClearHistory(u) \/ ChangeSettings(u) \/ ChangeAccess(u)
                               \/ RemoveAccount(u) \/ RemoveUser(u)
    PROVE  Quiet
<1>1. UNCHANGED <<last, status, worker, provider>>
  BY DEF vars, queueVars, serviceVars, Stop, WindowMoves, AddReminder, DeleteEvent, EventPasses,
         ClearHistory, ChangeSettings, ChangeAccess, RemoveAccount, RemoveUser
<1> QED
  BY <1>1, OutboxAssumption DEF Quiet, TypeOK, OutboxAssumption

LEMMA RecordTestKeeps ==
    ASSUME TypeOK, DeliveryInv, NEW c \in Channels, RecordTest(c)
    PROVE  DeliveryInv'
<1>1. PICK answer \in Answers, taken \in BOOLEAN :
        /\ answer = "accepted" => taken
        /\ answer = "failed" => ~taken
        /\ provider' = [provider EXCEPT ![<<last + 1, c>>] = [offers |-> 1, taken |-> taken]]
        /\ Append({<<last + 1, c>>}, answer)
  BY DEF RecordTest
<1>2. PICK t \in Deliveries : t = <<last + 1, c>>
  BY NextNotice DEF RecordTest
<1>3. PICK new \in SUBSET Deliveries : new = {t}
  OBVIOUS
<1>4. \A d \in Deliveries : status'[d] = IF d = t THEN answer ELSE status[d]
  BY <1>1, <1>2, <1>3, AppendType, Strings
<1>5. \A d \in Deliveries : provider'[d] = IF d = t THEN [offers |-> 1, taken |-> taken]
                                           ELSE provider[d]
  BY <1>1, <1>2 DEF TypeOK
<1>6. last \in Nat /\ last' = last + 1 /\ t[1] = last + 1
  BY <1>2, OutboxAssumption DEF RecordTest, TypeOK, OutboxAssumption
<1>7. status[t] = "none" /\ provider[t].offers = 0 /\ ~provider[t].taken
  BY <1>6 DEF DeliveryInv, Fresh
<1>8. UNCHANGED worker /\ \A w \in Workers : ~Holds(w, t)
  BY <1>7 DEF RecordTest, DeliveryInv, OneWorkerPerDelivery
<1>9. Fresh'
  BY <1>4, <1>5, <1>6, DeliveryNumber DEF DeliveryInv, Fresh
<1>10. HonestStatus'
  BY <1>1, <1>4, <1>5 DEF DeliveryInv, HonestStatus, Answers
<1>11. TakenWasOffered' /\ SentOnce'
  BY <1>5 DEF DeliveryInv, TakenWasOffered, SentOnce
<1>12. OneWorkerPerDelivery'
  BY <1>4, <1>8 DEF DeliveryInv, OneWorkerPerDelivery, Holds
<1>13. WorkerKnows'
  <2> SUFFICES ASSUME NEW w \in Workers
      PROVE  /\ worker[w].pc = "claimed" => provider'[worker[w].delivery].offers = 0
             /\ worker[w].pc = "answered" =>
                  Reported(provider'[worker[w].delivery].taken, worker[w].answer)
    BY <1>8 DEF WorkerKnows
  <2>1. worker[w].delivery \in Deliveries
    BY DEF TypeOK, WorkerRecord
  <2>2. worker[w].pc \in {"claimed", "answered"} => worker[w].delivery # t
    BY <1>8 DEF Holds
  <2> QED
    BY <1>5, <2>1, <2>2 DEF DeliveryInv, WorkerKnows
<1> QED
  BY <1>9, <1>10, <1>11, <1>12, <1>13 DEF DeliveryInv

LEMMA ClaimKeeps ==
    ASSUME TypeOK, DeliveryInv, NEW w \in Workers, Claim(w)
    PROVE  DeliveryInv'
<1>1. PICK d \in Pending, skipped \in SUBSET Pending :
        /\ d \notin skipped
        /\ Settle(skipped, Marked(d, skipped))
        /\ worker' = [worker EXCEPT ![w].pc = "claimed", ![w].delivery = d]
        /\ \A e \in Deliveries : Marked(d, skipped)[e] = IF e = d THEN "sending"
                                    ELSE IF e \in skipped THEN "skipped" ELSE status[e]
  BY ClaimEffect
<1>2. d \in Deliveries /\ skipped \subseteq Deliveries /\ status[d] = "pending"
      /\ \A e \in skipped : status[e] = "pending"
  BY PendingTyped DEF Pending
<1>3. \A e \in Deliveries : status'[e] = IF e = d THEN "sending"
                               ELSE IF e \in skipped THEN "skipped" ELSE status[e]
  BY <1>1 DEF Settle
<1>4. UNCHANGED <<provider, last>>
  BY DEF Claim
<1>5. \A v \in Workers : /\ worker'[v].pc = IF v = w THEN "claimed" ELSE worker[v].pc
                         /\ worker'[v].delivery = IF v = w THEN d ELSE worker[v].delivery
                         /\ worker'[v].answer = worker[v].answer
  BY <1>1 DEF TypeOK, WorkerRecord
<1>6. worker[w].pc = "idle" /\ \A v \in Workers : ~Holds(v, d)
  BY <1>2 DEF Claim, DeliveryInv, OneWorkerPerDelivery
<1>7. provider[d].offers = 0
  BY <1>2 DEF DeliveryInv, HonestStatus
<1>8. Fresh'
  BY <1>2, <1>3, <1>4 DEF DeliveryInv, Fresh
<1>9. HonestStatus'
  BY <1>2, <1>3, <1>4 DEF DeliveryInv, HonestStatus
<1>10. TakenWasOffered' /\ SentOnce'
  BY <1>4 DEF DeliveryInv, TakenWasOffered, SentOnce
<1>11. OneWorkerPerDelivery'
  <2> SUFFICES ASSUME NEW v \in Workers, NEW e \in Deliveries, Holds(v, e)'
      PROVE  status'[e] = "sending" /\ \A x \in Workers : Holds(x, e)' => x = v
    BY DEF OneWorkerPerDelivery
  <2>1. CASE e = d
    BY <2>1, <1>3, <1>5, <1>6 DEF Holds
  <2>2. CASE e # d
    <3>1. v # w /\ Holds(v, e) /\ \A x \in Workers : Holds(x, e)' => Holds(x, e)
      BY <2>2, <1>5 DEF Holds
    <3>2. status[e] = "sending" /\ \A x \in Workers : Holds(x, e) => x = v
      BY <3>1 DEF DeliveryInv, OneWorkerPerDelivery
    <3> QED
      BY <2>2, <3>1, <3>2, <1>2, <1>3
  <2> QED
    BY <2>1, <2>2
<1>12. WorkerKnows'
  BY <1>4, <1>5, <1>7 DEF DeliveryInv, WorkerKnows
<1> QED
  BY <1>8, <1>9, <1>10, <1>11, <1>12 DEF DeliveryInv

\* What a send does, with the provider's choice made a constant.
LEMMA SendEffect ==
    ASSUME TypeOK, DeliveryInv, NEW w \in Workers, Send(w)
    PROVE  \E d \in Deliveries, taken \in BOOLEAN, answer \in Answers :
             /\ d = worker[w].delivery
             /\ Holds(w, d) /\ status[d] = "sending"
             /\ provider[d].offers = 0 /\ ~provider[d].taken
             /\ Reported(taken, answer)
             /\ \A e \in Deliveries :
                  /\ provider'[e].offers = IF e = d THEN 1 ELSE provider[e].offers
                  /\ provider'[e].taken = IF e = d THEN taken ELSE provider[e].taken
             /\ \A v \in Workers :
                  /\ worker'[v].pc = IF v = w THEN "answered" ELSE worker[v].pc
                  /\ worker'[v].delivery = worker[v].delivery
                  /\ worker'[v].answer = IF v = w THEN answer ELSE worker[v].answer
<1>1. PICK taken \in BOOLEAN, answer \in Answers :
        /\ Reported(taken, answer)
        /\ provider' = [provider EXCEPT ![worker[w].delivery] =
                           [offers |-> @.offers + 1, taken |-> @.taken \/ taken]]
        /\ worker' = [worker EXCEPT ![w].pc = "answered", ![w].answer = answer]
  BY DEF Send
<1>2. PICK d \in Deliveries : d = worker[w].delivery
  BY DEF TypeOK, WorkerRecord
<1>3. Holds(w, d) /\ worker[w].pc = "claimed"
  BY <1>2 DEF Send, Holds
<1>4. status[d] = "sending" /\ provider[d].offers = 0
  BY <1>2, <1>3 DEF DeliveryInv, OneWorkerPerDelivery, WorkerKnows
<1>5. ~provider[d].taken
  BY <1>4 DEF DeliveryInv, TakenWasOffered
<1>6. PICK t \in BOOLEAN : t = (provider[d].taken \/ taken)
  OBVIOUS
<1>7. t = taken
  BY <1>5, <1>6
<1>8. provider' = [provider EXCEPT ![d] = [offers |-> provider[d].offers + 1, taken |-> t]]
  BY <1>1, <1>2, <1>6
<1>9. \A e \in Deliveries : provider'[e] = IF e = d THEN [offers |-> 1, taken |-> taken]
                                           ELSE provider[e]
  BY <1>4, <1>7, <1>8 DEF TypeOK
<1>10. \A e \in Deliveries :
          /\ provider'[e].offers = IF e = d THEN 1 ELSE provider[e].offers
          /\ provider'[e].taken = IF e = d THEN taken ELSE provider[e].taken
  <2>1. provider'[d] = [offers |-> 1, taken |-> taken]
    BY <1>9
  <2>2. provider'[d].offers = 1
    BY <2>1
  <2>3. provider'[d].taken = taken
    <3>1. PICK rec : rec = [offers |-> 1, taken |-> taken]
      OBVIOUS
    <3>2. rec.taken = taken
      BY <3>1, Zenon
    <3> QED
      BY <2>1, <3>1, <3>2, Zenon
  <2>4. \A e \in Deliveries : e # d => provider'[e] = provider[e]
    BY <1>9
  <2> TAKE e \in Deliveries
  <2>5. CASE e = d
    BY <2>2, <2>3, <2>5, Zenon
  <2>6. CASE e # d
    BY <2>4, <2>6, Zenon
  <2> QED
    BY <2>5, <2>6
<1>11. \A v \in Workers :
          /\ worker'[v].pc = IF v = w THEN "answered" ELSE worker[v].pc
          /\ worker'[v].delivery = worker[v].delivery
          /\ worker'[v].answer = IF v = w THEN answer ELSE worker[v].answer
  BY <1>1 DEF TypeOK, WorkerRecord
<1> QED
  BY ZenonT(60), <1>1, <1>2, <1>3, <1>4, <1>5, <1>10, <1>11

LEMMA SendKeeps ==
    ASSUME TypeOK, DeliveryInv, NEW w \in Workers, Send(w)
    PROVE  DeliveryInv'
<1>1. PICK d \in Deliveries, taken \in BOOLEAN, answer \in Answers :
         /\ d = worker[w].delivery
         /\ Holds(w, d) /\ status[d] = "sending"
         /\ provider[d].offers = 0 /\ ~provider[d].taken
         /\ Reported(taken, answer)
         /\ \A e \in Deliveries :
              /\ provider'[e].offers = IF e = d THEN 1 ELSE provider[e].offers
              /\ provider'[e].taken = IF e = d THEN taken ELSE provider[e].taken
         /\ \A v \in Workers :
              /\ worker'[v].pc = IF v = w THEN "answered" ELSE worker[v].pc
              /\ worker'[v].delivery = worker[v].delivery
              /\ worker'[v].answer = IF v = w THEN answer ELSE worker[v].answer
  BY SendEffect
<1>2. UNCHANGED <<status, last>>
  BY DEF Send, queueVars
<1>3. Fresh'
  BY <1>1, <1>2 DEF DeliveryInv, Fresh
<1>4. HonestStatus'
  BY <1>1, <1>2 DEF DeliveryInv, HonestStatus
<1>5. TakenWasOffered' /\ SentOnce'
  BY <1>1 DEF DeliveryInv, TakenWasOffered, SentOnce
<1>6. OneWorkerPerDelivery'
  BY <1>1, <1>2 DEF DeliveryInv, OneWorkerPerDelivery, Holds
<1>7. WorkerKnows'
  <2> SUFFICES ASSUME NEW v \in Workers
      PROVE  /\ worker'[v].pc = "claimed" => provider'[worker'[v].delivery].offers = 0
             /\ worker'[v].pc = "answered" =>
                  Reported(provider'[worker'[v].delivery].taken, worker'[v].answer)
    BY DEF WorkerKnows
  <2>1. CASE v = w
    BY <2>1, <1>1 DEF Reported
  <2>2. CASE v # w
    <3>1. worker[v].delivery \in Deliveries
      BY DEF TypeOK, WorkerRecord
    <3>2. worker[v].pc \in {"claimed", "answered"} => worker[v].delivery # d
      BY <2>2, <1>1 DEF DeliveryInv, OneWorkerPerDelivery, Holds
    <3> QED
      BY <2>2, <3>1, <3>2, <1>1 DEF DeliveryInv, WorkerKnows, Reported
  <2> QED
    BY <2>1, <2>2
<1> QED
  BY <1>3, <1>4, <1>5, <1>6, <1>7 DEF DeliveryInv

\* What a finish leaves: at most the worker's own delivery changes, and to its answer.
LEMMA FinishEffect ==
    ASSUME TypeOK, DeliveryInv, NEW w \in Workers, Finish(w)
    PROVE  \E d \in Deliveries :
             /\ d = worker[w].delivery
             /\ Holds(w, d) /\ status[d] = "sending"
             /\ Reported(provider[d].taken, worker[w].answer)
             /\ status' = status \/ status' = [status EXCEPT ![d] = worker[w].answer]
             /\ \A v \in Workers : v # w => worker'[v] = worker[v]
             /\ worker'[w].pc \in {"idle", "ended"}
             /\ UNCHANGED <<provider, last>>
<1>1. PICK d \in Deliveries : d = worker[w].delivery
  BY DEF TypeOK, WorkerRecord
<1>2. Holds(w, d)
  BY <1>1 DEF Finish, Holds
<1>3. status[d] = "sending" /\ Reported(provider[d].taken, worker[w].answer)
  BY <1>1, <1>2 DEF Finish, DeliveryInv, OneWorkerPerDelivery, WorkerKnows
<1>4. status' = status \/ status' = [status EXCEPT ![d] = worker[w].answer]
  BY <1>1 DEF Finish, Settle
<1>5. /\ \A v \in Workers : v # w => worker'[v] = worker[v]
      /\ worker'[w].pc \in {"idle", "ended"}
  BY DEF Finish, TypeOK, IdleWorker, EndedWorker
<1> QED
  BY <1>1, <1>2, <1>3, <1>4, <1>5 DEF Finish

LEMMA FinishKeeps ==
    ASSUME TypeOK, DeliveryInv, NEW w \in Workers, Finish(w)
    PROVE  DeliveryInv'
<1>1. PICK d \in Deliveries :
         /\ d = worker[w].delivery
         /\ Holds(w, d) /\ status[d] = "sending"
         /\ Reported(provider[d].taken, worker[w].answer)
         /\ status' = status \/ status' = [status EXCEPT ![d] = worker[w].answer]
         /\ \A v \in Workers : v # w => worker'[v] = worker[v]
         /\ worker'[w].pc \in {"idle", "ended"}
         /\ UNCHANGED <<provider, last>>
  BY FinishEffect
<1>2. \A e \in Deliveries : e # d => status'[e] = status[e]
  BY <1>1 DEF TypeOK
<1>3. PICK answer \in Answers : answer = worker[w].answer
  BY DEF TypeOK, WorkerRecord
<1>4. status'[d] \in {"sending", answer}
  BY <1>1, <1>3 DEF TypeOK
<1>5. Fresh'
  BY <1>1, <1>2 DEF DeliveryInv, Fresh
<1>6. HonestStatus'
  <2>1. \A e \in Deliveries : e # d =>
          /\ status'[e] = "accepted" => provider'[e].taken
          /\ status'[e] = "failed" => ~provider'[e].taken
          /\ status'[e] \in {"none", "pending", "skipped"} => provider'[e].offers = 0
    BY <1>1, <1>2 DEF DeliveryInv, HonestStatus
  <2>2. /\ status'[d] = "accepted" => provider'[d].taken
        /\ status'[d] = "failed" => ~provider'[d].taken
        /\ status'[d] \notin {"none", "pending", "skipped"}
    BY <1>1, <1>3, <1>4 DEF Reported, Answers
  <2> QED
    BY <2>1, <2>2 DEF HonestStatus
<1>7. TakenWasOffered' /\ SentOnce'
  BY <1>1 DEF DeliveryInv, TakenWasOffered, SentOnce
<1>8. OneWorkerPerDelivery'
  <2> SUFFICES ASSUME NEW v \in Workers, NEW e \in Deliveries, Holds(v, e)'
      PROVE  status'[e] = "sending" /\ \A x \in Workers : Holds(x, e)' => x = v
    BY DEF OneWorkerPerDelivery
  <2>1. v # w /\ Holds(v, e) /\ \A x \in Workers : Holds(x, e)' => Holds(x, e)
    BY <1>1 DEF Holds
  <2>2. e # d
    BY <1>1, <2>1 DEF DeliveryInv, OneWorkerPerDelivery
  <2> QED
    BY <1>2, <2>1, <2>2 DEF DeliveryInv, OneWorkerPerDelivery
<1>9. WorkerKnows'
  BY <1>1 DEF DeliveryInv, WorkerKnows
<1> QED
  BY <1>5, <1>6, <1>7, <1>8, <1>9 DEF DeliveryInv

LEMMA ProcessKeeps ==
    ASSUME TypeOK, DeliveryInv, Exit \/ Crash \/ Start
    PROVE  DeliveryInv'
<1>1. /\ UNCHANGED <<provider, last>>
      /\ \A w \in Workers : worker'[w].pc \in {"idle", "ended"}
  BY DEF Exit, Crash, Start, IdleWorker, EndedWorker, queueVars
<1>2. \A d \in Deliveries : \/ status'[d] = status[d]
                            \/ status[d] = "sending" /\ status'[d] = "unknown"
  BY DEF Exit, Crash, Start, Settle, Recovered, queueVars
<1>3. Fresh'
  BY <1>1, <1>2 DEF DeliveryInv, Fresh
<1>4. HonestStatus'
  BY <1>1, <1>2 DEF DeliveryInv, HonestStatus
<1>5. TakenWasOffered' /\ SentOnce'
  BY <1>1 DEF DeliveryInv, TakenWasOffered, SentOnce
<1>6. OneWorkerPerDelivery' /\ WorkerKnows'
  BY <1>1 DEF OneWorkerPerDelivery, Holds, WorkerKnows
<1> QED
  BY <1>3, <1>4, <1>5, <1>6 DEF DeliveryInv

\* The steps that queue and skip, whoever takes them.
LEMMA QuietSteps ==
    ASSUME TypeOK, TypeOK', DeliveryInv, [Next]_vars
    PROVE  \/ Quiet
           \/ \E c \in Channels : RecordTest(c)
           \/ \E w \in Workers : Claim(w) \/ Send(w) \/ Finish(w)
           \/ Exit \/ Crash \/ Start
<1>1. CASE UserStep
  <2>1. ASSUME NEW u \in Users, Enqueue(u) PROVE Quiet
    BY <2>1, EnqueueQuiet
  <2> QED
    BY <1>1, <2>1, SkipsAreQuiet, OthersAreQuiet, OutboxAssumption DEF UserStep, OutboxAssumption
<1>2. CASE \E w \in Workers : Work(w)
  BY <1>2, SkipsAreQuiet DEF Work
<1>3. CASE QueueDue
  BY <1>3, QueueDueQuiet
<1>4. CASE Time \/ Stop \/ UNCHANGED vars
  BY <1>4, OthersAreQuiet DEF Time
<1> QED
  BY <1>1, <1>2, <1>3, <1>4 DEF Next

LEMMA NextDeliveryInv ==
    ASSUME TypeOK, TypeOK', DeliveryInv, [Next]_vars
    PROVE  DeliveryInv'
BY QuietSteps, QuietKeeps, RecordTestKeeps, ClaimKeeps, SendKeeps, FinishKeeps, ProcessKeeps

\* The invariant behind every statement about single deliveries.
THEOREM DeliveriesInductive == Spec => [](TypeOK /\ DeliveryInv)
<1>1. Init => TypeOK /\ DeliveryInv
  BY InitTypeOK, InitDeliveryInv
<1>2. TypeOK /\ DeliveryInv /\ [Next]_vars => (TypeOK /\ DeliveryInv)'
  BY NextTypeOK, NextDeliveryInv
<1> QED
  BY <1>1, <1>2, PTL DEF Spec

\* No delivery is handed to its provider twice.
THEOREM OffersAreSingle == Spec => []SentOnce
<1>1. DeliveryInv => SentOnce
  BY DEF DeliveryInv
<1> QED
  BY <1>1, DeliveriesInductive, PTL

\* The history says of a delivery only what is true of it.
THEOREM HistoryIsHonest == Spec => []HonestStatus
<1>1. DeliveryInv => HonestStatus
  BY DEF DeliveryInv
<1> QED
  BY <1>1, DeliveriesInductive, PTL

\* A delivery being sent belongs to one worker and to nobody else.
THEOREM WorkersAreApart == Spec => []OneWorkerPerDelivery
<1>1. DeliveryInv => OneWorkerPerDelivery
  BY DEF DeliveryInv
<1> QED
  BY <1>1, DeliveriesInductive, PTL

-------------------------------------------------------------------------------
(* Refinement: what the promise's variables are here.                         *)

Offered == {d \in Deliveries : provider[d].offers > 0}
Taken == {d \in Deliveries : provider[d].taken}

LEMMA VerdictsAreStates == Promise!Verdicts = DeliveryStates
BY DEF Promise!Verdicts, DeliveryStates, ActiveStates, SettledStates, Answers

\* A step that leaves the providers alone and moves each status as Follows allows.
LEMMA RecordRefines ==
    ASSUME TypeOK', UNCHANGED provider,
           \A d \in Deliveries : status'[d] = status[d] \/ Promise!Follows(d, status'[d])
    PROVE  Promise!Record
<1>1. status' \in [Deliveries -> Promise!Verdicts]
  BY VerdictsAreStates DEF TypeOK
<1> QED
  BY <1>1 DEF Promise!Record

LEMMA QuietRefines ==
    ASSUME TypeOK', Quiet
    PROVE  Promise!Record
<1>1. \A d \in Deliveries : status'[d] = status[d] \/ Promise!Follows(d, status'[d])
  BY DEF Quiet, Promise!Follows
<1> QED
  BY <1>1, RecordRefines DEF Quiet

LEMMA ClaimRefines ==
    ASSUME TypeOK, TypeOK', NEW w \in Workers, Claim(w)
    PROVE  Promise!Record
<1>1. PICK d \in Pending, skipped \in SUBSET Pending :
        /\ d \notin skipped
        /\ Settle(skipped, Marked(d, skipped))
        /\ worker' = [worker EXCEPT ![w].pc = "claimed", ![w].delivery = d]
        /\ \A e \in Deliveries : Marked(d, skipped)[e] = IF e = d THEN "sending"
                                    ELSE IF e \in skipped THEN "skipped" ELSE status[e]
  BY ClaimEffect
<1>2. \A e \in Deliveries : status'[e] = IF e = d THEN "sending"
                               ELSE IF e \in skipped THEN "skipped" ELSE status[e]
  BY <1>1 DEF Settle
<1>3. status[d] = "pending" /\ \A e \in skipped : status[e] = "pending"
  BY DEF Pending
<1>4. \A e \in Deliveries : status'[e] = status[e] \/ Promise!Follows(e, status'[e])
  BY <1>2, <1>3 DEF Promise!Follows
<1> QED
  BY <1>4, RecordRefines DEF Claim

LEMMA FinishRefines ==
    ASSUME TypeOK, TypeOK', DeliveryInv, NEW w \in Workers, Finish(w)
    PROVE  Promise!Record
<1>1. PICK d \in Deliveries :
         /\ d = worker[w].delivery
         /\ status[d] = "sending"
         /\ Reported(provider[d].taken, worker[w].answer)
         /\ status' = status \/ status' = [status EXCEPT ![d] = worker[w].answer]
         /\ UNCHANGED provider
  BY FinishEffect
<1>2. PICK answer \in Answers : answer = worker[w].answer
  BY DEF TypeOK, WorkerRecord
<1>3. Promise!Follows(d, answer)
  BY <1>1, <1>2 DEF Promise!Follows, Reported, Answers
<1>4. \A e \in Deliveries : status'[e] = status[e] \/ Promise!Follows(e, status'[e])
  BY <1>1, <1>2, <1>3 DEF TypeOK
<1> QED
  BY <1>1, <1>4, RecordRefines

LEMMA ProcessRefines ==
    ASSUME TypeOK', Exit \/ Crash \/ Start
    PROVE  Promise!Record
<1>1. UNCHANGED provider
  BY DEF Exit, Crash, Start
<1>2. \A d \in Deliveries : \/ status'[d] = status[d]
                            \/ status[d] = "sending" /\ status'[d] = "unknown"
  BY DEF Exit, Crash, Start, Settle, Recovered, queueVars
<1>3. \A d \in Deliveries : status'[d] = status[d] \/ Promise!Follows(d, status'[d])
  BY <1>2 DEF Promise!Follows
<1> QED
  BY <1>1, <1>3, RecordRefines

LEMMA SendRefines ==
    ASSUME TypeOK, DeliveryInv, NEW w \in Workers, Send(w)
    PROVE  \E d \in Deliveries : Promise!Offer(d)
<1>1. PICK d \in Deliveries, taken \in BOOLEAN :
         /\ status[d] = "sending"
         /\ provider[d].offers = 0 /\ ~provider[d].taken
         /\ \A e \in Deliveries :
              /\ provider'[e].offers = IF e = d THEN 1 ELSE provider[e].offers
              /\ provider'[e].taken = IF e = d THEN taken ELSE provider[e].taken
  BY SendEffect
<1>2. d \notin Offered /\ Offered' = Offered \union {d}
  BY <1>1 DEF Offered
<1>3. Taken' \in {Taken, Taken \union {d}}
  <2>1. CASE taken
    <3>1. Taken' = Taken \union {d}
      BY <1>1, <2>1 DEF Taken
    <3> QED
      BY <3>1
  <2>2. CASE ~taken
    <3>1. Taken' = Taken
      BY <1>1, <2>2 DEF Taken
    <3> QED
      BY <3>1
  <2> QED
    BY <2>1, <2>2
<1>4. UNCHANGED status
  BY DEF Send, queueVars
<1> QED
  BY <1>1, <1>2, <1>3, <1>4 DEF Promise!Offer, Offered, Taken

\* What the filing of a test does, with answer and acceptance made constants.
LEMMA TestEffect ==
    ASSUME TypeOK, DeliveryInv, NEW c \in Channels, RecordTest(c)
    PROVE  \E t \in Deliveries, answer \in Answers, taken \in BOOLEAN :
             /\ Reported(taken, answer)
             /\ status[t] = "none" /\ ~provider[t].taken
             /\ status' = [status EXCEPT ![t] = answer]
             /\ provider' = [provider EXCEPT ![t] = [offers |-> 1, taken |-> taken]]
<1>1. PICK answer \in Answers, taken \in BOOLEAN :
        /\ Reported(taken, answer)
        /\ provider' = [provider EXCEPT ![<<last + 1, c>>] = [offers |-> 1, taken |-> taken]]
        /\ Append({<<last + 1, c>>}, answer)
  BY DEF RecordTest, Reported
<1>2. PICK t \in Deliveries : t = <<last + 1, c>>
  BY NextNotice DEF RecordTest
<1>3. t[1] > last
  BY <1>2, OutboxAssumption DEF TypeOK, OutboxAssumption
<1>4. status[t] = "none" /\ ~provider[t].taken
  BY <1>3 DEF DeliveryInv, Fresh
<1>5. status' = [d \in Deliveries |-> IF d \in {t} THEN answer ELSE status[d]]
  BY <1>1, <1>2 DEF Append
<1>6. status' = [status EXCEPT ![t] = answer]
  BY <1>5 DEF TypeOK
<1> QED
  BY <1>1, <1>2, <1>4, <1>6

LEMMA TestRefines ==
    ASSUME TypeOK, DeliveryInv, NEW c \in Channels, RecordTest(c)
    PROVE  \E d \in Deliveries : Promise!Test(d)
<1>1. PICK t \in Deliveries, answer \in Answers, taken \in BOOLEAN :
        /\ Reported(taken, answer)
        /\ status[t] = "none" /\ ~provider[t].taken
        /\ status' = [status EXCEPT ![t] = answer]
        /\ provider' = [provider EXCEPT ![t] = [offers |-> 1, taken |-> taken]]
  BY TestEffect
<1>2. \A e \in Deliveries : provider'[e] = IF e = t THEN [offers |-> 1, taken |-> taken]
                                           ELSE provider[e]
  BY <1>1 DEF TypeOK
<1>3. Offered' = Offered \union {t}
  BY <1>2 DEF Offered
<1>4. CASE taken
  <2>1. Taken' = Taken \union {t}
    BY <1>2, <1>4 DEF Taken
  <2>2. answer \in {"accepted", "unknown"}
    BY <1>1, <1>4 DEF Reported, Answers
  <2> QED
    BY <1>1, <1>3, <2>1, <2>2 DEF Promise!Test, Offered, Taken
<1>5. CASE ~taken
  <2>1. Taken' = Taken
    BY <1>1, <1>2, <1>5 DEF Taken
  <2>2. answer \in {"failed", "unknown"}
    BY <1>1, <1>5 DEF Reported, Answers
  <2> QED
    BY <1>1, <1>3, <2>1, <2>2 DEF Promise!Test, Offered, Taken
<1> QED
  BY <1>4, <1>5

\* Everything the outbox does keeps the promise made for single deliveries.
THEOREM Refinement == Spec => ImplementsPromise
<1>1. Init => Promise!Init
  BY DEF Init, Promise!Init
<1>2. TypeOK /\ DeliveryInv /\ TypeOK' /\ [Next]_vars => [Promise!Next]_(Promise!vars)
  <2> SUFFICES ASSUME TypeOK, DeliveryInv, TypeOK', [Next]_vars PROVE Promise!Next
    OBVIOUS
  <2>1. CASE Quiet
    BY <2>1, QuietRefines DEF Promise!Next
  <2>2. CASE \E c \in Channels : RecordTest(c)
    BY <2>2, TestRefines DEF Promise!Next
  <2>3. CASE \E w \in Workers : Claim(w) \/ Send(w) \/ Finish(w)
    BY <2>3, ClaimRefines, SendRefines, FinishRefines DEF Promise!Next
  <2>4. CASE Exit \/ Crash \/ Start
    BY <2>4, ProcessRefines DEF Promise!Next
  <2> QED
    BY <2>1, <2>2, <2>3, <2>4, QuietSteps
<1> QED
  BY <1>1, <1>2, DeliveriesInductive, PTL DEF Spec, ImplementsPromise, Promise!Spec

-------------------------------------------------------------------------------
(* The size of the outbox.                                                    *)

\* Whatever is appended, trimming restores the bound.
LEMMA AppendBounded ==
    ASSUME TypeOK, NEW s, NEW new \in SUBSET Deliveries, Append(new, s)
    PROVE  Cardinality(outbox') <= Capacity
<1>1. PICK out \in SUBSET Deliveries : out = outbox \union new
  BY DEF TypeOK
<1>2. PICK dropped \in SUBSET out : /\ Trimmed(out, status', dropped)
                                    /\ outbox' = out \ dropped
  BY <1>1 DEF Append, Trimmed
<1>3. IsFiniteSet(out) /\ Cardinality(out) \in Nat /\ Cardinality(dropped) \in Nat
  BY Finite
<1>4. Cardinality(outbox') = Cardinality(out) - Cardinality(out \intersect dropped)
  BY <1>2, <1>3, Finite, FS_Difference
<1>5. out \intersect dropped = dropped
  OBVIOUS
<1>6. Cardinality(dropped) = IF Cardinality(out) > Capacity
                             THEN Cardinality(out) - Capacity ELSE 0
  BY <1>2 DEF Trimmed
<1>7. Capacity \in Nat
  BY OutboxAssumption DEF OutboxAssumption
<1>8. PICK n \in Nat, m \in Nat : n = Cardinality(out) /\ m = Cardinality(dropped)
  BY <1>3
<1>9. m = (IF n > Capacity THEN n - Capacity ELSE 0) /\ Cardinality(outbox') = n - m
  BY <1>4, <1>5, <1>6, <1>8
<1> QED
  BY <1>7, <1>8, <1>9

\* Every other step leaves the outbox alone or takes deliveries out of it.
LEMMA OutboxShrinks ==
    ASSUME TypeOK, [Next]_vars
    PROVE  \/ outbox' \subseteq outbox
           \/ \E new \in SUBSET Deliveries, s \in {"pending"} \union Answers : Append(new, s)
<1>1. ASSUME NEW u \in Users, Enqueue(u)
      PROVE  \E new \in SUBSET Deliveries, s \in {"pending"} \union Answers : Append(new, s)
  <2>1. settings[u] \in SettingsRecord
    BY DEF TypeOK
  <2>2. PICK new \in SUBSET Deliveries : new = {last + 1} \X settings[u].channels
    BY <1>1, <2>1, NextNotice DEF Enqueue, SettingsRecord, Deliveries
  <2> QED
    BY <1>1, <2>2, Strings DEF Enqueue
<1>2. ASSUME NEW c \in TestedChannels, RecordTest(c)
      PROVE  \E new \in SUBSET Deliveries, s \in {"pending"} \union Answers : Append(new, s)
  <2>1. PICK answer \in Answers : Append({<<last + 1, c>>}, answer)
    BY <1>2 DEF RecordTest
  <2>2. PICK new \in SUBSET Deliveries : new = {<<last + 1, c>>}
    BY <1>2, NextNotice, OutboxAssumption DEF RecordTest, OutboxAssumption
  <2> QED
    BY <2>1, <2>2, Strings
<1>3. CASE QueueDue
  BY <1>3, QueueDueEffect, Strings
<1>4. CASE UserStep
  <2>1. ASSUME NEW u \in Users, RemoveUser(u) PROVE outbox' \subseteq outbox
    BY <2>1 DEF RemoveUser
  <2>2. ASSUME \/ \E e \in Events : AddReminder(e) \/ DeleteEvent(e)
               \/ \E r \in Reminders : CancelReminder(r)
               \/ \E u \in Users : ClearHistory(u) \/ ChangeSettings(u) \/ ChangeAccess(u)
                                   \/ RemoveAccount(u)
        PROVE outbox' = outbox
    BY <2>2 DEF AddReminder, DeleteEvent, CancelReminder, ClearHistory, ChangeSettings,
                ChangeAccess, RemoveAccount, queueVars
  <2> QED
    BY <1>1, <1>2, <1>4, <2>1, <2>2 DEF UserStep
<1>5. CASE (\E w \in Workers : Work(w)) \/ Time \/ Stop \/ Exit \/ Crash \/ Start \/ UNCHANGED vars
  <2>1. ASSUME NEW w \in Workers, Work(w) PROVE outbox' = outbox
    BY <2>1 DEF Work, Claim, SkipStale, Send, Finish, queueVars
  <2>2. CASE Time \/ Stop \/ Exit \/ Crash \/ Start \/ UNCHANGED vars
    BY <2>2 DEF Time, WindowMoves, EventPasses, Stop, Exit, Crash, Start, vars, queueVars
  <2> QED
    BY <1>5, <2>1, <2>2
<1> QED
  BY <1>3, <1>4, <1>5 DEF Next

\* The outbox never outgrows its capacity.
THEOREM OutboxStaysBounded == Spec => []OutboxBounded
<1>1. Init => OutboxBounded
  BY FS_EmptySet, OutboxAssumption DEF Init, OutboxBounded, OutboxAssumption
<1>2. TypeOK /\ OutboxBounded /\ [Next]_vars => OutboxBounded'
  <2> SUFFICES ASSUME TypeOK, OutboxBounded, [Next]_vars PROVE Cardinality(outbox') <= Capacity
    BY DEF OutboxBounded
  <2>1. CASE outbox' \subseteq outbox
    <3>1. PICK n \in Nat, m \in Nat : n = Cardinality(outbox') /\ m = Cardinality(outbox)
      BY <2>1, Finite DEF TypeOK
    <3>2. n <= m
      BY <2>1, <3>1, Finite, FS_Subset DEF TypeOK
    <3>3. m <= Capacity /\ Capacity \in Nat
      BY <3>1, OutboxAssumption DEF OutboxBounded, OutboxAssumption
    <3> QED
      BY <3>1, <3>2, <3>3
  <2>2. CASE \E new \in SUBSET Deliveries, s \in {"pending"} \union Answers : Append(new, s)
    BY <2>2, AppendBounded
  <2> QED
    BY <2>1, <2>2, OutboxShrinks
<1> QED
  BY <1>1, <1>2, TypeCorrect, PTL DEF Spec

-------------------------------------------------------------------------------
(* Who sends.                                                                 *)

\* The deliveries being sent by nobody.
Orphans == {d \in outbox : status[d] = "sending" /\ ~ \E w \in Workers : Holds(w, d)}

\* Only a finish counts a failed save, and only a start brings the process up.
LEMMA OnlyFinishFails ==
    ASSUME [Next]_vars
    PROVE  /\ failedSaves' = failedSaves \/ \E w \in Workers : Finish(w)
           /\ process = "down" => process' = "down" \/ Start
<1>1. CASE UNCHANGED vars
  BY <1>1 DEF vars, serviceVars, faultVars
<1>2. CASE UserStep
  BY <1>2 DEF UserStep, RecordTest, AddReminder, DeleteEvent, CancelReminder, Enqueue, ClearHistory,
              ChangeSettings, ChangeAccess, RemoveAccount, RemoveUser, serviceVars, faultVars
<1>3. ASSUME NEW w \in Workers, Work(w)
      PROVE  (failedSaves' = failedSaves \/ Finish(w)) /\ process' = process
  BY <1>3 DEF Work, Claim, SkipStale, Send, Finish, serviceVars, faultVars
<1>4. CASE QueueDue \/ Time
  BY <1>4 DEF QueueDue, Time, WindowMoves, EventPasses, serviceVars, faultVars
<1>5. CASE Stop \/ Exit \/ Crash \/ Start
  BY <1>5 DEF Stop, Exit, Crash, Start, faultVars
<1> QED
  BY <1>1, <1>2, <1>3, <1>4, <1>5 DEF Next

\* What is appended is not being sent.
LEMMA SendingWasThere ==
    ASSUME TypeOK, [Next]_vars, NEW d \in outbox', status'[d] = "sending"
    PROVE  d \in outbox
<1>1. CASE outbox' \subseteq outbox
  BY <1>1
<1>2. ASSUME NEW new \in SUBSET Deliveries, NEW s \in {"pending"} \union Answers, Append(new, s)
      PROVE  d \in outbox
  <2>1. s \in DeliveryStates /\ s # "sending"
    BY Strings DEF Answers
  <2>2. d \in outbox \union new /\ (d \in new => status'[d] = s)
    BY <1>2, <2>1, AppendType
  <2> QED
    BY <2>1, <2>2
<1> QED
  BY <1>1, <1>2, OutboxShrinks

\* A delivery that is being sent by nobody after a step was so before it, or is the
\* one whose answer could not be saved.
LEMMA OrphanSteps ==
    ASSUME TypeOK, TypeOK', DeliveryInv, [Next]_vars, process # "down", process' # "down"
    PROVE  \/ Orphans' \subseteq Orphans /\ failedSaves' = failedSaves
           \/ failedSaves' = failedSaves + 1 /\ \E d : Orphans' \subseteq Orphans \union {d}
<1> DEFINE Lost(d) == status[d] = "sending" /\ \A w \in Workers : ~Holds(w, d)
<1>1. /\ outbox' \subseteq Deliveries
      /\ \A d : d \in Orphans <=> d \in outbox /\ Lost(d)
      /\ \A d : d \in Orphans' <=> d \in outbox' /\ Lost(d)'
  BY DEF Orphans, TypeOK
<1>2. ASSUME NEW w \in Workers, Finish(w)
      PROVE  \/ Orphans' \subseteq Orphans /\ failedSaves' = failedSaves
             \/ failedSaves' = failedSaves + 1 /\ \E d : Orphans' \subseteq Orphans \union {d}
  <2>1. PICK d \in Deliveries :
           /\ d = worker[w].delivery /\ Holds(w, d)
           /\ status' = status \/ status' = [status EXCEPT ![d] = worker[w].answer]
           /\ \A v \in Workers : v # w => worker'[v] = worker[v]
    BY <1>2, FinishEffect
  <2>2. \A e \in Deliveries \ {d} : Lost(e)' => Lost(e)
    BY <2>1 DEF Holds, TypeOK
  <2>3. Orphans' \subseteq Orphans \union {d}
    BY <1>1, <2>2, SendingWasThere
  <2>4. CASE d \notin Orphans'
    <3>1. failedSaves' = failedSaves \/ failedSaves' = failedSaves + 1
      BY <1>2 DEF Finish
    <3> QED
      BY <2>3, <2>4, <3>1
  <2>5. CASE d \in Orphans'
    <3>1. d \in outbox /\ status[d] = "sending" /\ status'[d] = "sending"
      <4>1. d \in outbox' /\ status'[d] = "sending"
        BY <2>5 DEF Orphans
      <4>2. outbox' = outbox /\ status[d] = "sending"
        BY <1>2, <2>1 DEF Finish, DeliveryInv, OneWorkerPerDelivery
      <4> QED
        BY <4>1, <4>2
    <3>2. worker[w].answer # "sending"
      BY DEF TypeOK, WorkerRecord, Answers
    <3>3. status' = status
      BY <2>1, <3>1, <3>2 DEF TypeOK
    <3>4. failedSaves' = failedSaves + 1
      <4>1. ~Settle({d}, [status EXCEPT ![d] = worker[w].answer])
        BY <3>1, <3>2, <3>3 DEF Settle, TypeOK
      <4> QED
        BY <1>2, <2>1, <3>1, <4>1 DEF Finish
    <3> QED
      BY <2>3, <3>4
  <2> QED
    BY <2>4, <2>5
<1>3. CASE ~ \E w \in Workers : Finish(w)
  <2>1. \A d \in Deliveries : Lost(d)' => Lost(d)
    <3>1. CASE Quiet
      BY <3>1 DEF Quiet, Holds
    <3>2. ASSUME NEW c \in Channels, RecordTest(c) PROVE \A d \in Deliveries : Lost(d)' => Lost(d)
      <4>1. PICK answer \in Answers : Append({<<last + 1, c>>}, answer)
        BY <3>2 DEF RecordTest
      <4>2. PICK new \in SUBSET Deliveries : new = {<<last + 1, c>>}
        BY <3>2, NextNotice DEF RecordTest
      <4>3. \A d \in Deliveries : status'[d] = IF d \in new THEN answer ELSE status[d]
        BY <4>1, <4>2, AppendType, Strings
      <4>4. answer # "sending" /\ UNCHANGED worker
        BY <3>2 DEF Answers, RecordTest
      <4> QED
        BY <4>3, <4>4 DEF Holds
    <3>3. ASSUME NEW w \in Workers, Claim(w) PROVE \A d \in Deliveries : Lost(d)' => Lost(d)
      <4>1. PICK d \in Pending, skipped \in SUBSET Pending :
              /\ Settle(skipped, Marked(d, skipped))
              /\ worker' = [worker EXCEPT ![w].pc = "claimed", ![w].delivery = d]
              /\ \A e \in Deliveries : Marked(d, skipped)[e] = IF e = d THEN "sending"
                                          ELSE IF e \in skipped THEN "skipped" ELSE status[e]
        BY <3>3, ClaimEffect
      <4>2. \A e \in Deliveries : status'[e] = IF e = d THEN "sending"
                                     ELSE IF e \in skipped THEN "skipped" ELSE status[e]
        BY <4>1 DEF Settle
      <4>3. Holds(w, d)' /\ worker[w].pc = "idle"
        BY <3>3, <4>1 DEF Claim, Holds, TypeOK, WorkerRecord
      <4>4. \A v \in Workers : v # w => worker'[v] = worker[v]
        BY <4>1 DEF TypeOK
      <4> QED
        BY <4>2, <4>3, <4>4 DEF Holds
    <3>4. ASSUME NEW w \in Workers, Send(w) PROVE \A d \in Deliveries : Lost(d)' => Lost(d)
      <4>1. /\ UNCHANGED status
            /\ \A v \in Workers : /\ worker'[v].delivery = worker[v].delivery
                                  /\ worker'[v].pc = IF v = w THEN "answered" ELSE worker[v].pc
        BY <3>4 DEF Send, queueVars, TypeOK, WorkerRecord
      <4> QED
        BY <4>1 DEF Holds
    <3>5. ~Exit /\ ~Crash /\ ~Start
      BY DEF Exit, Crash, Start
    <3> QED
      BY <1>3, <3>1, <3>2, <3>3, <3>4, <3>5, QuietSteps
  <2>2. Orphans' \subseteq Orphans
    BY <1>1, <2>1, SendingWasThere
  <2> QED
    BY <1>3, <2>2, OnlyFinishFails
<1> QED
  BY <1>2, <1>3

\* A delivery is left "sending" by nobody only for each answer whose save failed, and
\* only until the next start.
THEOREM NobodySendsForLong == Spec => []SendingIsHeld
<1> DEFINE Bounded == process # "down" => Cardinality(Orphans) <= failedSaves
<1>1. SendingIsHeld <=> Bounded
  BY DEF SendingIsHeld, Orphans
<1>2. Init => Bounded
  <2> SUFFICES ASSUME Init PROVE Cardinality(Orphans) <= failedSaves
    OBVIOUS
  <2>1. Orphans = {} /\ failedSaves = 0
    BY DEF Init, Orphans
  <2> QED
    BY <2>1, FS_EmptySet
<1>3. TypeOK /\ DeliveryInv /\ Bounded /\ [Next]_vars => Bounded'
  <2> SUFFICES ASSUME TypeOK, DeliveryInv, Bounded, [Next]_vars, process' # "down"
               PROVE  Cardinality(Orphans') <= failedSaves'
    OBVIOUS
  <2>1. TypeOK'
    BY NextTypeOK
  <2>2. failedSaves \in Nat /\ failedSaves' \in Nat
    BY <2>1, OutboxAssumption DEF TypeOK, OutboxAssumption
  <2>3. CASE process = "down"
    <3>1. Start
      BY <2>3, OnlyFinishFails
    <3>2. Orphans' = {}
      BY <3>1, <2>1 DEF Start, Settle, Recovered, Orphans, TypeOK
    <3> QED
      BY <2>2, <3>2, FS_EmptySet
  <2>4. CASE process # "down"
    <3>1. PICK S \in SUBSET Deliveries, T \in SUBSET Deliveries : S = Orphans /\ T = Orphans'
      BY <2>1 DEF Orphans, TypeOK
    <3>2. PICK n \in Nat, m \in Nat : n = Cardinality(S) /\ m = Cardinality(T)
      BY Finite
    <3>3. n <= failedSaves
      BY <2>4, <3>1, <3>2
    <3>4. CASE T \subseteq S /\ failedSaves' = failedSaves
      <4>1. m <= n
        BY <3>2, <3>4, Finite, FS_Subset
      <4> QED
        BY <2>2, <3>1, <3>2, <3>3, <3>4, <4>1
    <3>5. ASSUME NEW d, T \subseteq S \union {d}, failedSaves' = failedSaves + 1
          PROVE  Cardinality(Orphans') <= failedSaves'
      <4>1. IsFiniteSet(S) /\ IsFiniteSet(S \union {d}) /\ Cardinality(S \union {d}) \in {n, n + 1}
        BY <3>2, Finite, FS_AddElement
      <4>2. m <= Cardinality(S \union {d})
        BY <3>2, <3>5, <4>1, FS_Subset
      <4>3. m <= n + 1
        BY <4>1, <4>2
      <4> QED
        BY <2>2, <3>1, <3>2, <3>3, <3>5, <4>3
    <3> QED
      BY <2>1, <2>4, <3>1, <3>4, <3>5, OrphanSteps
  <2> QED
    BY <2>3, <2>4
<1> QED
  BY <1>1, <1>2, <1>3, DeliveriesInductive, PTL DEF Spec

-------------------------------------------------------------------------------
(* Reminders and what their deliveries came to.                               *)

\* A reminder that is not queued yet has no notice and no tally.
Untouched ==
    \A r \in Reminders : reminder[r].status \in {"absent", "pending"} =>
        /\ \A n \in Notices : notice[n].reminder # r
        /\ reminder[r].accepted = 0 /\ reminder[r].failed = 0 /\ reminder[r].uncertain = 0

\* Users switch on their own channels, and are told of their own events.
ChannelsOwned == \A u \in Users : \A c \in settings[u].channels : OwnerOf[c] = u

OwnersTold ==
    \A d \in Deliveries : status[d] # "none" /\ ReminderOf(d) \in Reminders =>
        UserOfDelivery(d) = UserOfReminder(ReminderOf(d))

\* What a queued reminder waits for is in the outbox.
AwaitedKept ==
    \A d \in Deliveries :
        /\ status[d] \in ActiveStates
        /\ ReminderOf(d) \in Reminders
        /\ reminder[ReminderOf(d)].status = "queued"
        => d \in outbox

\* TallyRight, of one reminder.
Right(r) ==
    reminder[r].status \in {"queued", "processed"} =>
        /\ reminder[r].accepted = Outcomes(r, {"accepted"})
        /\ reminder[r].uncertain = Outcomes(r, {"unknown"})
        /\ reminder[r].failed = Outcomes(r, {"failed", "skipped"})
        /\ IF reminder[r].status = "queued" THEN \E d \in Active : ReminderOf(d) = r
                                           ELSE Outcomes(r, ActiveStates) = 0

TallyInv == Untouched /\ ChannelsOwned /\ OwnersTold /\ AwaitedKept /\ TallyRight

LEMMA TallyIsRight == TallyRight <=> \A r \in Reminders : Right(r)
BY DEF TallyRight, Right

LEMMA InitTallyInv == Init => TallyInv
<1> SUFFICES ASSUME Init PROVE TallyInv
  OBVIOUS
<1>1. \A r \in Reminders : /\ reminder[r].status = "absent" /\ reminder[r].accepted = 0
                           /\ reminder[r].failed = 0 /\ reminder[r].uncertain = 0
  BY DEF Init
<1>2. \A n \in Notices : notice[n].reminder = 0
  BY DEF Init
<1>3. 0 \notin Reminders
  BY DEF Reminders
<1>4. Untouched
  BY <1>1, <1>2, <1>3 DEF Untouched
<1>5. ChannelsOwned /\ OwnersTold /\ AwaitedKept
  BY DEF Init, ChannelsOwned, OwnersTold, AwaitedKept, ActiveStates
<1>6. TallyRight
  BY <1>1 DEF TallyRight
<1> QED
  BY <1>4, <1>5, <1>6 DEF TallyInv

\* Deliveries that have an outcome, as a set to be counted.
LEMMA NoOutcome ==
    ASSUME NEW r, NEW states
    PROVE  Outcomes(r, states) = 0 <=> \A d \in Deliveries : ReminderOf(d) = r => status[d] \notin states
<1>1. PICK S \in SUBSET Deliveries : S = {d \in Deliveries : ReminderOf(d) = r /\ status[d] \in states}
  OBVIOUS
<1>2. IsFiniteSet(S) /\ Outcomes(r, states) = Cardinality(S)
  BY <1>1, Finite DEF Outcomes
<1>3. Cardinality(S) = 0 <=> S = {}
  BY <1>2, FS_EmptySet
<1> QED
  BY <1>1, <1>2, <1>3

\* A reminder is right as long as its record, its deliveries and the outbox agree.
LEMMA RightKept ==
    ASSUME TypeOK, NEW r \in Reminders, Right(r),
           reminder'[r].status \in {"queued", "processed"} =>
             /\ reminder'[r].status = reminder[r].status
             /\ reminder'[r].accepted = reminder[r].accepted
             /\ reminder'[r].failed = reminder[r].failed
             /\ reminder'[r].uncertain = reminder[r].uncertain
             /\ \A d \in Deliveries :
                  /\ (ReminderOf(d)' = r /\ status'[d] # "none") <=> (ReminderOf(d) = r /\ status[d] # "none")
                  /\ ReminderOf(d) = r /\ status[d] # "none" => status'[d] = status[d]
                  /\ ReminderOf(d) = r /\ d \in Active => d \in outbox'
    PROVE  Right(r)'
<1> SUFFICES ASSUME reminder'[r].status \in {"queued", "processed"}
             PROVE  /\ reminder'[r].accepted = Outcomes(r, {"accepted"})'
                    /\ reminder'[r].uncertain = Outcomes(r, {"unknown"})'
                    /\ reminder'[r].failed = Outcomes(r, {"failed", "skipped"})'
                    /\ IF reminder'[r].status = "queued" THEN \E d \in Active' : ReminderOf(d)' = r
                                                        ELSE Outcomes(r, ActiveStates)' = 0
  BY DEF Right
<1>1. \A states : "none" \notin states => Outcomes(r, states)' = Outcomes(r, states)
  <2> TAKE states
  <2> HAVE "none" \notin states
  <2>1. {d \in Deliveries : ReminderOf(d)' = r /\ status'[d] \in states}
           = {d \in Deliveries : ReminderOf(d) = r /\ status[d] \in states}
    OBVIOUS
  <2> QED
    BY <2>1 DEF Outcomes
<1>2. /\ Outcomes(r, {"accepted"})' = Outcomes(r, {"accepted"})
      /\ Outcomes(r, {"unknown"})' = Outcomes(r, {"unknown"})
      /\ Outcomes(r, {"failed", "skipped"})' = Outcomes(r, {"failed", "skipped"})
      /\ Outcomes(r, ActiveStates)' = Outcomes(r, ActiveStates)
  BY <1>1 DEF ActiveStates
<1>3. ASSUME NEW d \in Active, ReminderOf(d) = r PROVE d \in Active' /\ ReminderOf(d)' = r
  <2>1. d \in Deliveries /\ status[d] \in ActiveStates /\ status[d] # "none"
    BY <1>3 DEF Active, ActiveStates, TypeOK
  <2> QED
    BY <1>3, <2>1 DEF Active
<1> QED
  BY <1>2, <1>3 DEF Right

\* What settling adds to a column is what is settled with that outcome.
LEMMA SettleCounts ==
    ASSUME TypeOK, NEW r, NEW settled \in SUBSET Deliveries, NEW st, NEW states,
           states \subseteq SettledStates, UNCHANGED notice, status' = st,
           \A d \in settled : status[d] \in ActiveStates,
           \A d \in Deliveries \ settled :
               st[d] = status[d] \/ (status[d] \in ActiveStates /\ st[d] \in ActiveStates)
    PROVE  Outcomes(r, states)' = Outcomes(r, states) + CountOf(r, settled, st, states)
<1>1. PICK before, after, added \in SUBSET Deliveries :
        /\ before = {d \in Deliveries : ReminderOf(d) = r /\ status[d] \in states}
        /\ after = {d \in Deliveries : ReminderOf(d) = r /\ st[d] \in states}
        /\ added = {d \in settled : ReminderOf(d) = r /\ st[d] \in states}
  OBVIOUS
<1>2. ActiveStates \intersect states = {}
  BY DEF ActiveStates, SettledStates, Answers
<1>3. after = before \union added
  BY <1>1, <1>2
<1>4. before \intersect added = {}
  BY <1>1, <1>2
<1>5. /\ IsFiniteSet(before) /\ IsFiniteSet(added)
      /\ Cardinality(before) \in Nat /\ Cardinality(added) \in Nat
  BY Finite
<1>6. Cardinality(after) = Cardinality(before) + Cardinality(added) - Cardinality({})
  BY <1>3, <1>4, <1>5, FS_Union
<1>7. Cardinality(after) = Cardinality(before) + Cardinality(added)
  BY <1>5, <1>6, FS_EmptySet
<1>8. Outcomes(r, states) = Cardinality(before) /\ CountOf(r, settled, st, states) = Cardinality(added)
  BY <1>1 DEF Outcomes, CountOf
<1>9. Outcomes(r, states)' = Cardinality(after)
  BY <1>1 DEF Outcomes, ReminderOf
<1> QED
  BY <1>7, <1>8, <1>9

\* What Tallied makes of a reminder.
LEMMA TalliedFields ==
    ASSUME TypeOK, NEW r \in Reminders, NEW settled, NEW st
    PROVE  LET t == Tallied(r, settled, st) IN
           /\ t.event = reminder[r].event
           /\ t.accepted = reminder[r].accepted + CountOf(r, settled, st, {"accepted"})
           /\ t.failed = reminder[r].failed + CountOf(r, settled, st, {"failed", "skipped"})
           /\ t.uncertain = reminder[r].uncertain + CountOf(r, settled, st, {"unknown"})
           /\ t.status = IF \E d \in outbox : ReminderOf(d) = r /\ st[d] \in ActiveStates
                         THEN "queued" ELSE "processed"
<1> DEFINE waits == \E d \in outbox : ReminderOf(d) = r /\ st[d] \in ActiveStates
           n(os) == CountOf(r, settled, st, os)
<1>1. reminder[r] \in ReminderRecord
  BY DEF TypeOK
<1>2. Tallied(r, settled, st) =
        [reminder[r] EXCEPT !.accepted = @ + n({"accepted"}),
                            !.failed = @ + n({"failed", "skipped"}),
                            !.uncertain = @ + n({"unknown"}),
                            !.status = IF waits THEN "queued" ELSE "processed"]
  BY DEF Tallied
<1> HIDE DEF n, waits
<1>3. LET t == Tallied(r, settled, st) IN
      /\ t.event = reminder[r].event
      /\ t.accepted = reminder[r].accepted + n({"accepted"})
      /\ t.failed = reminder[r].failed + n({"failed", "skipped"})
      /\ t.uncertain = reminder[r].uncertain + n({"unknown"})
      /\ t.status = IF waits THEN "queued" ELSE "processed"
  BY <1>1, <1>2 DEF ReminderRecord
<1> QED
  BY <1>3 DEF n, waits

\* The deliveries of the outbox that are settled together, with the others left as
\* active as they were: each reminder is told.
LEMMA SettleKeeps ==
    ASSUME TypeOK, TallyInv, NEW settled \in SUBSET Active, NEW st,
           Settle(settled, st), UNCHANGED <<notice, outbox, settings>>,
           \A d \in settled : st[d] \in SettledStates,
           \A d \in Deliveries \ settled :
               st[d] = status[d] \/ (status[d] \in ActiveStates /\ st[d] \in ActiveStates)
    PROVE  TallyInv'
<1>1. /\ settled \in SUBSET Deliveries /\ \A d \in settled : status[d] \in ActiveStates /\ d \in outbox
      /\ status' = st /\ ActiveStates \intersect SettledStates = {} /\ "none" \notin ActiveStates
  BY DEF Active, TypeOK, Settle, ActiveStates, SettledStates, Answers
<1> DEFINE told(r) == reminder[r].status = "queued" /\ \E d \in settled : ReminderOf(d) = r
<1>2. \A r \in Reminders : reminder'[r] = IF told(r) THEN Tallied(r, settled, st) ELSE reminder[r]
  BY DEF Settle
<1>3. \A r \in Reminders : told(r) =>
        /\ reminder'[r].event = reminder[r].event
        /\ reminder'[r].accepted = reminder[r].accepted + CountOf(r, settled, st, {"accepted"})
        /\ reminder'[r].failed = reminder[r].failed + CountOf(r, settled, st, {"failed", "skipped"})
        /\ reminder'[r].uncertain = reminder[r].uncertain + CountOf(r, settled, st, {"unknown"})
        /\ reminder'[r].status = IF \E d \in outbox : ReminderOf(d) = r /\ st[d] \in ActiveStates
                                 THEN "queued" ELSE "processed"
  BY <1>2, TalliedFields
<1>4. Untouched'
  <2> SUFFICES ASSUME NEW r \in Reminders, reminder'[r].status \in {"absent", "pending"}
               PROVE  /\ \A n \in Notices : notice'[n].reminder # r
                      /\ reminder'[r].accepted = 0 /\ reminder'[r].failed = 0
                      /\ reminder'[r].uncertain = 0
    BY DEF Untouched
  <2>1. reminder'[r] = reminder[r]
    BY <1>2, <1>3
  <2> QED
    BY <2>1 DEF TallyInv, Untouched
<1>5. ChannelsOwned'
  BY DEF TallyInv, ChannelsOwned
<1>6. OwnersTold'
  <2>1. \A d \in Deliveries : status'[d] # "none" => status[d] # "none"
    BY <1>1
  <2>2. \A r \in Reminders : reminder'[r].event = reminder[r].event
    BY <1>2, <1>3
  <2>3. \A d \in Deliveries : ReminderOf(d)' = ReminderOf(d)
    BY DEF ReminderOf
  <2> QED
    BY <2>1, <2>2, <2>3 DEF TallyInv, OwnersTold, UserOfReminder, UserOfDelivery
<1>7. \A d \in Deliveries : status'[d] \in ActiveStates => status[d] \in ActiveStates /\ d \notin settled
  BY <1>1
<1>8. AwaitedKept'
  <2>1. \A r \in Reminders : reminder'[r].status = "queued" => reminder[r].status = "queued"
    BY <1>2
  <2> QED
    BY <1>7, <2>1 DEF TallyInv, AwaitedKept, ReminderOf
<1>9. ASSUME NEW r \in Reminders PROVE Right(r)'
  <2>1. Right(r)
    BY TallyIsRight DEF TallyInv
  <2>2. CASE told(r)
    <3>1. /\ reminder[r].accepted = Outcomes(r, {"accepted"})
          /\ reminder[r].uncertain = Outcomes(r, {"unknown"})
          /\ reminder[r].failed = Outcomes(r, {"failed", "skipped"})
      BY <2>1, <2>2 DEF Right
    <3>2. /\ Outcomes(r, {"accepted"})' = Outcomes(r, {"accepted"}) + CountOf(r, settled, st, {"accepted"})
          /\ Outcomes(r, {"unknown"})' = Outcomes(r, {"unknown"}) + CountOf(r, settled, st, {"unknown"})
          /\ Outcomes(r, {"failed", "skipped"})'
                = Outcomes(r, {"failed", "skipped"}) + CountOf(r, settled, st, {"failed", "skipped"})
      <4>1. /\ {"accepted"} \subseteq SettledStates /\ {"unknown"} \subseteq SettledStates
            /\ {"failed", "skipped"} \subseteq SettledStates
        BY DEF SettledStates, Answers
      <4> QED
        BY <1>1, <4>1, SettleCounts
    <3>3. reminder'[r].status = "queued" => \E d \in Active' : ReminderOf(d)' = r
      BY <1>1, <1>3, <2>2 DEF Active, ReminderOf
    <3>4. reminder'[r].status # "queued" => Outcomes(r, ActiveStates)' = 0
      <4> SUFFICES ASSUME reminder'[r].status # "queued" PROVE Outcomes(r, ActiveStates)' = 0
        OBVIOUS
      <4>1. \A d \in outbox : ReminderOf(d) = r => st[d] \notin ActiveStates
        BY <1>3, <2>2
      <4>2. \A d \in Deliveries : ReminderOf(d) = r /\ status[d] \in ActiveStates => d \in outbox
        BY <2>2 DEF TallyInv, AwaitedKept
      <4>3. \A d \in Deliveries : ReminderOf(d) = r => st[d] \notin ActiveStates
        BY <1>1, <1>7, <4>1, <4>2
      <4>4. {d \in Deliveries : ReminderOf(d)' = r /\ status'[d] \in ActiveStates} = {}
        BY <1>1, <4>3 DEF ReminderOf
      <4> QED
        BY <4>4, FS_EmptySet DEF Outcomes
    <3> QED
      BY <1>3, <2>2, <3>1, <3>2, <3>3, <3>4 DEF Right
  <2>3. CASE ~told(r)
    <3>1. reminder'[r] = reminder[r]
      BY <1>2, <2>3
    <3>2. ASSUME reminder[r].status \in {"queued", "processed"}
          PROVE  \A d \in settled : ReminderOf(d) # r
      <4>1. CASE reminder[r].status = "queued"
        BY <2>3, <4>1
      <4>2. CASE reminder[r].status = "processed"
        <5>1. Outcomes(r, ActiveStates) = 0
          BY <2>1, <4>2 DEF Right
        <5>2. \A d \in Deliveries : ReminderOf(d) = r => status[d] \notin ActiveStates
          BY <5>1, NoOutcome
        <5> QED
          BY <1>1, <5>2
      <4> QED
        BY <3>2, <4>1, <4>2
    <3>3. ASSUME reminder[r].status \in {"queued", "processed"}
          PROVE  \A states : states = ActiveStates \/ states \subseteq SettledStates =>
                    Outcomes(r, states)' = Outcomes(r, states)
      <4> TAKE states
      <4> HAVE states = ActiveStates \/ states \subseteq SettledStates
      <4>1. \A d \in Deliveries : ReminderOf(d) = r => (st[d] \in states <=> status[d] \in states)
        BY <1>1, <3>2, <3>3
      <4>2. {d \in Deliveries : ReminderOf(d)' = r /\ status'[d] \in states}
               = {d \in Deliveries : ReminderOf(d) = r /\ status[d] \in states}
        BY <1>1, <4>1 DEF ReminderOf
      <4> QED
        BY <4>2 DEF Outcomes
    <3>4. ASSUME NEW d \in Active, ReminderOf(d) = r, reminder[r].status = "queued"
          PROVE  d \in Active' /\ ReminderOf(d)' = r
      BY <1>1, <3>2, <3>4 DEF Active, TypeOK, ReminderOf
    <3>5. /\ {"accepted"} \subseteq SettledStates /\ {"unknown"} \subseteq SettledStates
          /\ {"failed", "skipped"} \subseteq SettledStates
      BY DEF SettledStates, Answers
    <3>6. ASSUME reminder[r].status \in {"queued", "processed"}
          PROVE  /\ Outcomes(r, {"accepted"})' = Outcomes(r, {"accepted"})
                 /\ Outcomes(r, {"unknown"})' = Outcomes(r, {"unknown"})
                 /\ Outcomes(r, {"failed", "skipped"})' = Outcomes(r, {"failed", "skipped"})
                 /\ Outcomes(r, ActiveStates)' = Outcomes(r, ActiveStates)
      BY <3>3, <3>5, <3>6
    <3> QED
      BY <2>1, <3>1, <3>4, <3>6 DEF Right
  <2> QED
    BY <2>2, <2>3
<1> QED
  BY <1>4, <1>5, <1>6, <1>8, <1>9, TallyIsRight DEF TallyInv, TallyRight, Right

\* Steps that settle and queue nothing: reminders are left alone, retire, or are still
\* to be queued; deliveries come without a reminder, or leave with theirs.
LEMMA TallyKept ==
    ASSUME TypeOK, TallyInv,
           \A u \in Users : \A c \in settings'[u].channels : OwnerOf[c] = u,
           \A r \in Reminders : reminder'[r].status \in {"absent", "pending"} =>
             /\ reminder[r].status \in {"absent", "pending"}
             /\ reminder'[r].accepted = reminder[r].accepted
             /\ reminder'[r].failed = reminder[r].failed
             /\ reminder'[r].uncertain = reminder[r].uncertain,
           \A r \in Reminders : reminder'[r].status \in {"queued", "processed"} =>
             /\ reminder'[r].status = reminder[r].status
             /\ reminder'[r].accepted = reminder[r].accepted
             /\ reminder'[r].failed = reminder[r].failed
             /\ reminder'[r].uncertain = reminder[r].uncertain,
           \A r \in Reminders :
             reminder'[r].event = reminder[r].event \/ reminder[r].status = "absent",
           \A n \in Notices : notice'[n].reminder \in {notice[n].reminder, 0},
           \A d \in Deliveries : notice'[d[1]].reminder # notice[d[1]].reminder => status[d] = "none",
           \A d \in Deliveries : ReminderOf(d)' \in Reminders =>
             \/ status'[d] = status[d]
             \/ /\ status[d] # "none" /\ status'[d] \notin ActiveStates \union {"none"}
                /\ reminder'[ReminderOf(d)].status \notin {"queued", "processed"},
           \A d \in outbox : d \in Active /\ ReminderOf(d) \in Reminders
                              /\ reminder'[ReminderOf(d)].status = "queued" => d \in outbox'
    PROVE  TallyInv'
<1>0. 0 \notin Reminders
  BY DEF Reminders
<1>1. \A d \in Deliveries : d[1] \in Notices
  BY DEF Deliveries
<1>2. \A d \in Deliveries : ReminderOf(d)' \in Reminders => ReminderOf(d)' = ReminderOf(d)
  BY <1>0, <1>1 DEF ReminderOf
<1>3. Untouched'
  <2> SUFFICES ASSUME NEW r \in Reminders, reminder'[r].status \in {"absent", "pending"}
               PROVE  /\ \A n \in Notices : notice'[n].reminder # r
                      /\ reminder'[r].accepted = 0 /\ reminder'[r].failed = 0
                      /\ reminder'[r].uncertain = 0
    BY DEF Untouched
  <2>1. /\ \A n \in Notices : notice[n].reminder # r
        /\ reminder[r].accepted = 0 /\ reminder[r].failed = 0 /\ reminder[r].uncertain = 0
    BY DEF TallyInv, Untouched
  <2> QED
    BY <1>0, <2>1
<1>4. ChannelsOwned'
  BY DEF ChannelsOwned
<1>5. OwnersTold'
  <2> SUFFICES ASSUME NEW d \in Deliveries, status'[d] # "none", ReminderOf(d)' \in Reminders
               PROVE  OwnerOf[d[2]] = OwnerOf[reminder'[ReminderOf(d)'].event]
    BY DEF OwnersTold, UserOfDelivery, UserOfReminder
  <2>1. ReminderOf(d)' = ReminderOf(d) /\ ReminderOf(d) \in Reminders /\ status[d] # "none"
    BY <1>2
  <2>2. reminder[ReminderOf(d)].status # "absent"
    BY <1>1, <2>1 DEF TallyInv, Untouched, ReminderOf
  <2>3. reminder'[ReminderOf(d)].event = reminder[ReminderOf(d)].event
    BY <2>1, <2>2
  <2> QED
    BY <2>1, <2>3 DEF TallyInv, OwnersTold, UserOfDelivery, UserOfReminder
<1>6. AwaitedKept'
  <2> SUFFICES ASSUME NEW d \in Deliveries, status'[d] \in ActiveStates, ReminderOf(d)' \in Reminders,
                      reminder'[ReminderOf(d)'].status = "queued"
               PROVE  d \in outbox'
    BY DEF AwaitedKept
  <2>1. ReminderOf(d)' = ReminderOf(d) /\ status[d] \in ActiveStates
    BY <1>2
  <2>2. d \in outbox
    BY <2>1 DEF TallyInv, AwaitedKept
  <2> QED
    BY <2>1, <2>2 DEF Active
<1>7. ASSUME NEW r \in Reminders PROVE Right(r)'
  <2>1. Right(r)
    BY TallyIsRight DEF TallyInv
  <2>2. ASSUME reminder'[r].status \in {"queued", "processed"}, NEW d \in Deliveries
        PROVE  /\ (ReminderOf(d)' = r /\ status'[d] # "none") <=> (ReminderOf(d) = r /\ status[d] # "none")
               /\ ReminderOf(d) = r /\ status[d] # "none" => status'[d] = status[d]
               /\ ReminderOf(d) = r /\ d \in Active => d \in outbox'
    <3>1. ASSUME ReminderOf(d)' = r, status'[d] # "none"
          PROVE  ReminderOf(d) = r /\ status[d] # "none"
      BY <1>2, <3>1
    <3>2. ASSUME ReminderOf(d) = r, status[d] # "none"
          PROVE  ReminderOf(d)' = r /\ status'[d] = status[d]
      <4>1. ReminderOf(d)' = r
        BY <3>2 DEF ReminderOf
      <4> QED
        BY <2>2, <3>2, <4>1
    <3>3. ASSUME ReminderOf(d) = r, d \in Active
          PROVE  d \in outbox'
      <4>1. d \in outbox /\ status[d] \in ActiveStates /\ status[d] # "none"
        BY <3>3 DEF Active, ActiveStates
      <4>2. reminder[r].status = "queued"
        <5>1. CASE reminder[r].status = "processed"
          <6>1. Outcomes(r, ActiveStates) = 0
            BY <2>1, <5>1 DEF Right
          <6> QED
            BY <3>3, <4>1, <6>1, NoOutcome
        <5> QED
          BY <2>2, <5>1
      <4> QED
        BY <2>2, <3>3, <4>1, <4>2
    <3> QED
      BY <3>1, <3>2, <3>3
  <2> QED
    BY <2>1, <2>2, RightKept
<1> QED
  BY <1>3, <1>4, <1>5, <1>6, <1>7, TallyIsRight DEF TallyInv, TallyRight, Right

\* Trimming spares what is active.
LEMMA AppendKeepsActive ==
    ASSUME TypeOK, NEW s, NEW new \in SUBSET Deliveries, Append(new, s),
           NEW d \in outbox \union new, status'[d] \in ActiveStates
    PROVE  d \in outbox'
<1>1. PICK dropped \in SUBSET (outbox \union new) :
        /\ Trimmed(outbox \union new, status', dropped)
        /\ outbox' = (outbox \union new) \ dropped
  BY DEF Append
<1>2. dropped \subseteq {e \in outbox \union new : status'[e] \notin ActiveStates}
  BY <1>1 DEF Trimmed
<1> QED
  BY <1>1, <1>2

\* Steps that leave reminders alone: one is queued at most, without a reminder.
LEMMA NoticeTally ==
    ASSUME TypeOK, DeliveryInv, TallyInv, NEW s \in DeliveryStates, NEW new \in SUBSET Deliveries,
           Append(new, s), \A d \in new : d[1] = last + 1,
           NEW entry, notice' = [notice EXCEPT ![last + 1] = entry], entry.reminder = 0,
           UNCHANGED <<reminder, settings>>
    PROVE  TallyInv'
<1>1. \A d \in Deliveries : status'[d] = IF d \in new THEN s ELSE status[d]
  BY AppendType
<1>2. last \in Nat /\ \A d \in Deliveries : d[1] \in Notices
  BY OutboxAssumption DEF TypeOK, OutboxAssumption, Deliveries
<1>3. \A d \in Deliveries : d[1] = last + 1 => status[d] = "none"
  BY <1>2 DEF DeliveryInv, Fresh
<1>4. \A n \in Notices : notice'[n].reminder = IF n = last + 1 THEN 0 ELSE notice[n].reminder
  BY DEF TypeOK
<1>5. \A n \in Notices : notice'[n].reminder \in {notice[n].reminder, 0}
  BY <1>4
<1>6. \A d \in Deliveries : notice'[d[1]].reminder # notice[d[1]].reminder => status[d] = "none"
  BY <1>2, <1>3, <1>4
<1>7. 0 \notin Reminders
  BY DEF Reminders
<1>8. \A d \in Deliveries : ReminderOf(d)' \in Reminders => status'[d] = status[d]
  BY <1>1, <1>2, <1>4, <1>7 DEF ReminderOf
<1>9. \A d \in outbox : d \in Active /\ ReminderOf(d) \in Reminders
                         /\ reminder'[ReminderOf(d)].status = "queued" => d \in outbox'
  <2> SUFFICES ASSUME NEW d \in outbox, d \in Active, ReminderOf(d) \in Reminders PROVE d \in outbox'
    OBVIOUS
  <2>1. d \in Deliveries /\ status[d] \in ActiveStates /\ status[d] # "none"
    BY DEF Active, ActiveStates, TypeOK
  <2>2. ReminderOf(d)' = ReminderOf(d)
    BY <1>6, <2>1 DEF ReminderOf
  <2>3. status'[d] \in ActiveStates
    BY <1>8, <2>1, <2>2
  <2> QED
    BY <2>3, AppendKeepsActive
<1>10. \A u \in Users : \A c \in settings'[u].channels : OwnerOf[c] = u
  BY DEF TallyInv, ChannelsOwned
<1> QED
  BY <1>5, <1>6, <1>8, <1>9, <1>10, TallyKept

LEMMA ProducersTally ==
    ASSUME TypeOK, DeliveryInv, TallyInv,
           (\E u \in Users : Enqueue(u)) \/ (\E c \in Channels : RecordTest(c))
    PROVE  TallyInv'
<1>1. ASSUME NEW u \in Users, Enqueue(u) PROVE TallyInv'
  <2>1. settings[u] \in SettingsRecord
    BY DEF TypeOK
  <2>2. PICK new \in SUBSET Deliveries : new = {last + 1} \X settings[u].channels
    BY <1>1, <2>1, NextNotice DEF Enqueue, SettingsRecord, Deliveries
  <2>3. Append(new, "pending") /\ \A d \in new : d[1] = last + 1
    BY <1>1, <2>2 DEF Enqueue
  <2>4. PICK entry : entry = Fill("task", settings[u].rev, 0)
    OBVIOUS
  <2>5. notice' = [notice EXCEPT ![last + 1] = entry] /\ entry.reminder = 0
    BY <1>1, <2>4 DEF Enqueue, Fill
  <2> QED
    BY <1>1, <2>3, <2>5, Strings, NoticeTally DEF Enqueue, userVars
<1>2. ASSUME NEW c \in Channels, RecordTest(c) PROVE TallyInv'
  <2>1. PICK answer \in Answers : Append({<<last + 1, c>>}, answer)
    BY <1>2 DEF RecordTest
  <2>2. PICK new \in SUBSET Deliveries : new = {<<last + 1, c>>}
    BY <1>2, NextNotice DEF RecordTest
  <2>3. Append(new, answer) /\ (\A d \in new : d[1] = last + 1) /\ answer \in DeliveryStates
    BY <2>1, <2>2, Strings
  <2>4. PICK entry : entry = Fill("test", 0, 0)
    OBVIOUS
  <2>5. notice' = [notice EXCEPT ![last + 1] = entry] /\ entry.reminder = 0
    BY <1>2, <2>4 DEF RecordTest, Fill
  <2> QED
    BY <1>2, <2>3, <2>5, NoticeTally DEF RecordTest, userVars
<1> QED
  BY <1>1, <1>2

\* Steps by which at most reminders retire or wait on, and deliveries leave with theirs.
LEMMA RemindersRetire ==
    ASSUME TypeOK, TallyInv, UNCHANGED <<notice, status>>,
           \A u \in Users : \A c \in settings'[u].channels : OwnerOf[c] = u,
           \A r \in Reminders :
             \/ /\ reminder'[r].status = reminder[r].status \/ reminder'[r].status \notin {"absent", "pending", "queued", "processed"}
                /\ reminder'[r].event = reminder[r].event
             \/ reminder[r].status = "absent" /\ reminder'[r].status = "pending",
           \A r \in Reminders :
             /\ reminder'[r].accepted = reminder[r].accepted
             /\ reminder'[r].failed = reminder[r].failed
             /\ reminder'[r].uncertain = reminder[r].uncertain,
           \A d \in Active : ReminderOf(d) \in Reminders
                              /\ reminder'[ReminderOf(d)].status = "queued" => d \in outbox'
    PROVE  TallyInv'
<1>1. \A r \in Reminders : reminder'[r].status \in {"absent", "pending"} =>
        /\ reminder[r].status \in {"absent", "pending"}
        /\ reminder'[r].accepted = reminder[r].accepted
        /\ reminder'[r].failed = reminder[r].failed
        /\ reminder'[r].uncertain = reminder[r].uncertain
  OBVIOUS
<1>2. \A r \in Reminders : reminder'[r].status \in {"queued", "processed"} =>
        /\ reminder'[r].status = reminder[r].status
        /\ reminder'[r].accepted = reminder[r].accepted
        /\ reminder'[r].failed = reminder[r].failed
        /\ reminder'[r].uncertain = reminder[r].uncertain
  OBVIOUS
<1> QED
  BY <1>1, <1>2, TallyKept DEF Active

LEMMA RetiringTally ==
    ASSUME TypeOK, TallyInv,
           \/ \E e \in Events : AddReminder(e) \/ DeleteEvent(e) \/ EventPasses(e)
           \/ \E r \in Reminders : WindowMoves(r)
           \/ \E u \in Users : ClearHistory(u) \/ ChangeSettings(u) \/ ChangeAccess(u)
                               \/ RemoveAccount(u) \/ RemoveUser(u)
    PROVE  TallyInv'
<1>1. \A r \in Reminders : reminder[r] \in ReminderRecord
  BY DEF TypeOK
<1>2. /\ \A u \in Users : \A c \in settings[u].channels : OwnerOf[c] = u
      /\ \A d \in Active : d \in outbox
  BY DEF TallyInv, ChannelsOwned, Active
<1>3. ASSUME NEW e \in Events, AddReminder(e) PROVE TallyInv'
  <2>1. PICK r \in Reminders : /\ reminder[r].status = "absent"
                               /\ reminder' = [reminder EXCEPT ![r].event = e, ![r].status = "pending"]
    BY <1>3 DEF AddReminder
  <2>2. /\ reminder'[r].status = "pending" /\ reminder'[r].accepted = reminder[r].accepted
        /\ reminder'[r].failed = reminder[r].failed /\ reminder'[r].uncertain = reminder[r].uncertain
        /\ \A q \in Reminders \ {r} : reminder'[q] = reminder[q]
    BY <1>1, <2>1 DEF TypeOK, ReminderRecord
  <2>3. UNCHANGED <<notice, status, outbox, settings>>
    BY <1>3 DEF AddReminder, userVars
  <2> QED
    BY <1>2, <2>1, <2>2, <2>3, RemindersRetire
<1>4. ASSUME NEW e \in Events, DeleteEvent(e) PROVE TallyInv'
  <2>1. \A r \in Reminders : reminder'[r] \in {reminder[r], [reminder[r] EXCEPT !.status = "cancelled"]}
    BY <1>4 DEF DeleteEvent
  <2>2. UNCHANGED <<notice, status, outbox, settings>>
    BY <1>4 DEF DeleteEvent
  <2> QED
    BY <1>1, <1>2, <2>1, <2>2, RemindersRetire DEF ReminderRecord
<1>5. ASSUME NEW r \in Reminders, WindowMoves(r) PROVE TallyInv'
  <2>1. PICK window : reminder' = [reminder EXCEPT ![r].window = window]
    BY <1>5 DEF WindowMoves
  <2>2. \A q \in Reminders :
          /\ reminder'[q].status = reminder[q].status /\ reminder'[q].event = reminder[q].event
          /\ reminder'[q].accepted = reminder[q].accepted /\ reminder'[q].failed = reminder[q].failed
          /\ reminder'[q].uncertain = reminder[q].uncertain
    BY <1>1, <2>1 DEF TypeOK, ReminderRecord
  <2>3. UNCHANGED <<notice, status, outbox, settings>>
    BY <1>5 DEF WindowMoves, userVars
  <2> QED
    BY <1>2, <2>2, <2>3, RemindersRetire
<1>6. ASSUME NEW u \in Users, ClearHistory(u) PROVE TallyInv'
  <2>1. \A r \in Reminders : reminder'[r] \in {reminder[r], [reminder[r] EXCEPT !.status = "removed"]}
    BY <1>6 DEF ClearHistory
  <2>2. UNCHANGED <<notice, status, outbox, settings>>
    BY <1>6 DEF ClearHistory, userVars
  <2> QED
    BY <1>1, <1>2, <2>1, <2>2, RemindersRetire DEF ReminderRecord
<1>7. ASSUME NEW u \in Users, RemoveAccount(u) PROVE TallyInv'
  <2>1. \A r \in Reminders : reminder'[r] \in {reminder[r], [reminder[r] EXCEPT !.status = "removed"]}
    BY <1>7 DEF RemoveAccount, RemindersWithout
  <2>2. UNCHANGED <<notice, status, outbox, settings>>
    BY <1>7 DEF RemoveAccount
  <2> QED
    BY <1>1, <1>2, <2>1, <2>2, RemindersRetire DEF ReminderRecord
<1>8. ASSUME NEW u \in Users, RemoveUser(u) PROVE TallyInv'
  <2>1. \A r \in Reminders :
          reminder'[r] = IF UserOfReminder(r) = u /\ Stored(r)
                         THEN [reminder[r] EXCEPT !.status = "removed"] ELSE reminder[r]
    BY <1>8 DEF RemoveUser, RemindersWithout
  <2>2. \A r \in Reminders : reminder'[r] \in {reminder[r], [reminder[r] EXCEPT !.status = "removed"]}
    BY <2>1
  <2>3. UNCHANGED <<notice, status, settings>>
    BY <1>8 DEF RemoveUser
  <2>4. ASSUME NEW d \in Active, ReminderOf(d) \in Reminders, reminder'[ReminderOf(d)].status = "queued"
        PROVE  d \in outbox'
    <3>1. PICK r \in Reminders : r = ReminderOf(d)
      BY <2>4
    <3>2. reminder'[r] = reminder[r] /\ reminder[r].status = "queued"
      BY <1>1, <2>2, <2>4, <3>1 DEF ReminderRecord
    <3>3. UserOfReminder(r) # u
      <4>1. CASE UserOfReminder(r) = u /\ Stored(r)
        <5>1. reminder'[r].status = "removed"
          BY <1>1, <2>1, <4>1 DEF ReminderRecord
        <5> QED
          BY <3>2, <5>1
      <4>2. Stored(r)
        BY <3>2 DEF Stored
      <4> QED
        BY <4>1, <4>2
    <3>4. d \in Deliveries /\ d \in outbox /\ status[d] # "none"
      BY DEF Active, ActiveStates, TypeOK
    <3>5. UserOfDelivery(d) # u
      BY <3>1, <3>3, <3>4 DEF TallyInv, OwnersTold
    <3> QED
      BY <1>8, <3>4, <3>5 DEF RemoveUser
  <2> QED
    BY <1>1, <1>2, <2>2, <2>3, <2>4, RemindersRetire DEF ReminderRecord
<1>9. ASSUME NEW u \in Users, ChangeSettings(u) PROVE TallyInv'
  <2>1. PICK on \in SUBSET Kinds, channels \in SUBSET {c \in Channels : OwnerOf[c] = u} :
          settings' = [settings EXCEPT ![u] = [rev |-> @.rev + 1, on |-> on, channels |-> channels]]
    BY <1>9 DEF ChangeSettings
  <2>2. \A v \in Users : settings'[v].channels = IF v = u THEN channels ELSE settings[v].channels
    BY <2>1 DEF TypeOK
  <2>3. \A v \in Users : \A c \in settings'[v].channels : OwnerOf[c] = v
    BY <1>2, <2>2
  <2>4. UNCHANGED <<notice, status, outbox, reminder>>
    BY <1>9 DEF ChangeSettings, queueVars
  <2> QED
    BY <1>2, <2>3, <2>4, RemindersRetire
<1>10. CASE (\E e \in Events : EventPasses(e)) \/ (\E u \in Users : ChangeAccess(u))
  <2>1. UNCHANGED <<notice, status, outbox, reminder, settings>>
    BY <1>10 DEF EventPasses, ChangeAccess, queueVars
  <2> QED
    BY <1>2, <2>1, RemindersRetire
<1> QED
  BY <1>3, <1>4, <1>5, <1>6, <1>7, <1>8, <1>9, <1>10

LEMMA CancelTally ==
    ASSUME TypeOK, TallyInv, NEW r \in Reminders, CancelReminder(r)
    PROVE  TallyInv'
<1>1. /\ reminder' = [reminder EXCEPT ![r].status = "cancelled"]
      /\ \A d \in Deliveries : status'[d] = IF d \in Pending /\ ReminderOf(d) = r THEN "skipped" ELSE status[d]
      /\ UNCHANGED <<notice, outbox, settings>>
      /\ Stored(r)
  BY DEF CancelReminder, userVars
<1>2. /\ reminder'[r].status = "cancelled" /\ reminder'[r].event = reminder[r].event
      /\ \A q \in Reminders \ {r} : reminder'[q] = reminder[q]
      /\ reminder[r].status # "absent"
  BY <1>1 DEF TypeOK, ReminderRecord, Stored
<1>3. \A d \in Deliveries : ReminderOf(d)' = ReminderOf(d)
  BY <1>1 DEF ReminderOf
<1>4. \A d \in Deliveries : ReminderOf(d)' \in Reminders =>
        \/ status'[d] = status[d]
        \/ /\ status[d] # "none" /\ status'[d] \notin ActiveStates \union {"none"}
           /\ reminder'[ReminderOf(d)].status \notin {"queued", "processed"}
  BY <1>1, <1>2 DEF Pending, ActiveStates
<1>5. \A u \in Users : \A c \in settings'[u].channels : OwnerOf[c] = u
  BY <1>1 DEF TallyInv, ChannelsOwned
<1>6. /\ \A n \in Notices : notice'[n].reminder \in {notice[n].reminder, 0}
      /\ \A d \in Deliveries : notice'[d[1]].reminder # notice[d[1]].reminder => status[d] = "none"
      /\ outbox' = outbox
  BY <1>1
<1> QED
  BY <1>2, <1>4, <1>5, <1>6, TallyKept

LEMMA DispatcherTally ==
    ASSUME TypeOK, DeliveryInv, TallyInv, (\E w \in Workers : Work(w)) \/ Start
    PROVE  TallyInv'
<1>1. Pending \subseteq Active /\ Stale \subseteq Active /\ Active \subseteq Deliveries
  BY DEF Pending, Stale, Active, ActiveStates, TypeOK
<1>2. "skipped" \in SettledStates /\ "unknown" \in SettledStates /\ Answers \subseteq SettledStates
  BY DEF SettledStates, Answers
<1>3. ASSUME NEW w \in Workers, Claim(w) PROVE TallyInv'
  <2>1. PICK d \in Pending, skipped \in SUBSET Pending :
           /\ d \notin skipped
           /\ Settle(skipped, Marked(d, skipped))
           /\ worker' = [worker EXCEPT ![w].pc = "claimed", ![w].delivery = d]
           /\ \A e \in Deliveries :
                 Marked(d, skipped)[e] = IF e = d THEN "sending"
                                         ELSE IF e \in skipped THEN "skipped" ELSE status[e]
    BY <1>3, ClaimEffect
  <2>2. PICK st : st = Marked(d, skipped)
    OBVIOUS
  <2>3. PICK settled \in SUBSET Active : settled = skipped
    BY <1>1
  <2>4. /\ \A e \in settled : st[e] \in SettledStates
        /\ \A e \in Deliveries \ settled :
             st[e] = status[e] \/ (status[e] \in ActiveStates /\ st[e] \in ActiveStates)
    BY <1>1, <1>2, <2>1, <2>2, <2>3 DEF Pending, ActiveStates
  <2>5. Settle(settled, st) /\ UNCHANGED <<notice, outbox, settings>>
    BY <1>3, <2>1, <2>2, <2>3 DEF Claim, userVars
  <2> QED
    BY <2>4, <2>5, SettleKeeps
<1>4. ASSUME NEW w \in Workers, SkipStale(w) PROVE TallyInv'
  <2>1. PICK st : st = [d \in Deliveries |-> IF d \in Stale THEN "skipped" ELSE status[d]]
    OBVIOUS
  <2>2. PICK settled \in SUBSET Active : settled = Stale
    BY <1>1
  <2>3. /\ \A e \in settled : st[e] \in SettledStates
        /\ \A e \in Deliveries \ settled :
             st[e] = status[e] \/ (status[e] \in ActiveStates /\ st[e] \in ActiveStates)
    BY <1>1, <1>2, <2>1, <2>2
  <2>4. Settle(settled, st) /\ UNCHANGED <<notice, outbox, settings>>
    BY <1>4, <2>1, <2>2 DEF SkipStale, userVars
  <2> QED
    BY <2>3, <2>4, SettleKeeps
<1>5. ASSUME UNCHANGED <<notice, outbox, settings, status, reminder>> PROVE TallyInv'
  BY <1>5, RemindersRetire DEF TallyInv, ChannelsOwned, Active
<1>6. ASSUME NEW w \in Workers, Send(w) PROVE TallyInv'
  BY <1>5, <1>6 DEF Send, queueVars, userVars
<1>7. ASSUME NEW w \in Workers, Finish(w) PROVE TallyInv'
  <2>1. PICK d \in Deliveries : d = worker[w].delivery
    BY DEF TypeOK, WorkerRecord
  <2>2. UNCHANGED <<notice, outbox, settings>>
    BY <1>7 DEF Finish, userVars
  <2>3. CASE UNCHANGED <<status, reminder>>
    BY <1>5, <2>2, <2>3
  <2>4. CASE /\ d \in outbox /\ status[d] = "sending"
             /\ Settle({d}, [status EXCEPT ![d] = worker[w].answer])
    <3>1. PICK st : st = [status EXCEPT ![d] = worker[w].answer]
      OBVIOUS
    <3>2. PICK settled \in SUBSET Active : settled = {d}
      BY <2>4 DEF Active, ActiveStates
    <3>3. worker[w].answer \in SettledStates
      BY <1>2 DEF TypeOK, WorkerRecord
    <3>4. /\ \A e \in settled : st[e] \in SettledStates
          /\ \A e \in Deliveries \ settled :
               st[e] = status[e] \/ (status[e] \in ActiveStates /\ st[e] \in ActiveStates)
      BY <3>1, <3>2, <3>3 DEF TypeOK
    <3>5. Settle(settled, st)
      BY <2>4, <3>1, <3>2
    <3> QED
      BY <2>2, <3>4, <3>5, SettleKeeps
  <2> QED
    BY <1>7, <2>1, <2>3, <2>4 DEF Finish
<1>8. ASSUME Start PROVE TallyInv'
  <2>1. PICK st : st = [d \in Deliveries |-> Recovered(d)]
    OBVIOUS
  <2>2. PICK settled \in SUBSET Active : settled = {d \in outbox : status[d] = "sending"}
    BY DEF Active, ActiveStates
  <2>3. /\ \A e \in settled : st[e] \in SettledStates
        /\ \A e \in Deliveries \ settled :
             st[e] = status[e] \/ (status[e] \in ActiveStates /\ st[e] \in ActiveStates)
    BY <1>1, <1>2, <2>1, <2>2 DEF Recovered
  <2>4. Settle(settled, st) /\ UNCHANGED <<notice, outbox, settings>>
    BY <1>8, <2>1, <2>2 DEF Start, userVars
  <2> QED
    BY <2>3, <2>4, SettleKeeps
<1> QED
  BY <1>3, <1>4, <1>6, <1>7, <1>8 DEF Work

\* What a round of the calendar goroutine tells, and what it leaves of the others:
\* the reminders it queues, their deliveries, and the numbers of their notices.
Tells(queued, new, slot) ==
    /\ Append(new, "pending")
    /\ \A q, r \in queued : slot[q] = slot[r] => q = r
    /\ \A r \in queued :
         /\ reminder[r].status = "pending" /\ reminder'[r].status = "queued"
         /\ slot[r] > last /\ notice'[slot[r]].reminder = r
         /\ ChannelsFor(r) # {} /\ ChannelsFor(r) \subseteq Channels
    /\ \A n \in Notices : (\E r \in queued : n = slot[r]) \/ notice'[n] = notice[n]
    /\ \A d \in Deliveries : d \in new <=> \E r \in queued : d[1] = slot[r] /\ d[2] \in ChannelsFor(r)
    /\ \A r \in Reminders \ queued :
         \/ reminder'[r].status = reminder[r].status
         \/ reminder[r].status = "pending" /\ reminder'[r].status \in {"expired", "skipped"}
    /\ \A r \in Reminders :
         /\ reminder'[r].event = reminder[r].event
         /\ reminder'[r].accepted = reminder[r].accepted
         /\ reminder'[r].failed = reminder[r].failed
         /\ reminder'[r].uncertain = reminder[r].uncertain

LEMMA QueueDueTells ==
    ASSUME TypeOK, QueueDue
    PROVE  \E queued \in SUBSET Reminders, new \in SUBSET Deliveries :
             \E slot \in [queued -> Notices] : Tells(queued, new, slot)
<1>1. PICK queued \in SUBSET Wanting :
        /\ last' = last + Cardinality(queued)
        /\ last' <= MaxNotices
        /\ \E slot \in [queued -> (last + 1)..last'] :
              /\ \A q, r \in queued : q < r => slot[q] < slot[r]
              /\ Announce(queued, slot)
        /\ reminder' = [r \in Reminders |->
              [reminder[r] EXCEPT !.status = IF r \in Late THEN "expired"
                                             ELSE IF r \in Refused THEN "skipped"
                                             ELSE IF r \in queued THEN "queued" ELSE @]]
  BY DEF QueueDue
<1>2. queued \in SUBSET Reminders
  BY DEF Wanting, Round, Due
<1>3. PICK slot \in [queued -> (last + 1)..last'] :
        /\ \A q, r \in queued : q < r => slot[q] < slot[r]
        /\ Announce(queued, slot)
  BY <1>1
<1>4. PICK new \in SUBSET Deliveries :
        new = {d \in Deliveries : \E r \in queued : d[1] = slot[r] /\ d[2] \in ChannelsFor(r)}
  OBVIOUS
<1>5. PICK k \in Nat : k = Cardinality(queued)
  BY <1>2, Finite
<1>6. last \in Nat /\ MaxNotices \in Nat /\ last' = last + k /\ last + k <= MaxNotices
  BY <1>1, <1>5, OutboxAssumption DEF TypeOK, OutboxAssumption
<1>7. \A r \in queued : slot[r] \in Notices /\ slot[r] > last
  <2>1. \A r \in queued : slot[r] \in (last + 1)..(last + k)
    BY <1>3, <1>6
  <2> QED
    BY <1>6, <2>1 DEF Notices
<1>8. slot \in [queued -> Notices]
  BY <1>3, <1>7
<1>9. \A q, r \in queued : slot[q] = slot[r] => q = r
  <2> TAKE q, r \in queued
  <2>1. q \in Nat /\ r \in Nat /\ slot[q] \in Nat /\ slot[r] \in Nat
    BY <1>2, <1>7, OutboxAssumption DEF Reminders, Notices, OutboxAssumption
  <2>2. (q < r => slot[q] < slot[r]) /\ (r < q => slot[r] < slot[q])
    BY <1>3
  <2> QED
    BY <2>1, <2>2
<1>10. \A r \in queued : r \in Round /\ r \notin Late /\ r \notin Refused
  BY DEF Wanting
<1>11. \A r \in Round : reminder[r].status = "pending"
  BY DEF Round, Due
<1>12. \A r \in queued : ChannelsFor(r) # {} /\ ChannelsFor(r) \subseteq Channels
  <2> TAKE r \in queued
  <2>1. Eligible(UserOfReminder(r), "calendar")
    BY <1>10 DEF Refused
  <2>2. UserOfReminder(r) \in Users
    BY <1>2, OutboxAssumption DEF UserOfReminder, TypeOK, ReminderRecord, OutboxAssumption
  <2> QED
    BY <2>1, <2>2 DEF Eligible, ChannelsFor, TypeOK, SettingsRecord
<1>13. \A r \in queued : notice'[slot[r]].reminder = r
  <2> TAKE r \in queued
  <2>1. (CHOOSE q \in queued : slot[q] = slot[r]) = r
    BY <1>9
  <2>2. notice'[slot[r]] = Fill("calendar", settings[UserOfReminder(r)].rev, r)
    BY <1>3, <1>7, <2>1 DEF Announce
  <2> QED
    BY <2>2 DEF Fill
<1>14. \A n \in Notices : (\E r \in queued : n = slot[r]) \/ notice'[n] = notice[n]
  BY <1>3 DEF Announce
<1>15. Append(new, "pending")
  BY <1>3, <1>4 DEF Announce
<1>16. \A r \in Reminders : reminder[r] \in ReminderRecord
  BY DEF TypeOK
<1>17. \A r \in Reminders :
         /\ reminder'[r].event = reminder[r].event
         /\ reminder'[r].accepted = reminder[r].accepted
         /\ reminder'[r].failed = reminder[r].failed
         /\ reminder'[r].uncertain = reminder[r].uncertain
         /\ reminder'[r].status = IF r \in Late THEN "expired" ELSE IF r \in Refused THEN "skipped"
                                  ELSE IF r \in queued THEN "queued" ELSE reminder[r].status
  BY <1>1, <1>16 DEF ReminderRecord
<1>18. \A r \in Reminders \ queued :
         \/ reminder'[r].status = reminder[r].status
         \/ reminder[r].status = "pending" /\ reminder'[r].status \in {"expired", "skipped"}
  BY <1>11, <1>17 DEF Late, Refused
<1>19. \A r \in queued : reminder[r].status = "pending" /\ reminder'[r].status = "queued"
  BY <1>2, <1>10, <1>11, <1>17
<1>20. \A d \in Deliveries : d \in new <=> \E r \in queued : d[1] = slot[r] /\ d[2] \in ChannelsFor(r)
  BY <1>4
<1>21. \A r \in queued :
         /\ reminder[r].status = "pending" /\ reminder'[r].status = "queued"
         /\ slot[r] > last /\ notice'[slot[r]].reminder = r
         /\ ChannelsFor(r) # {} /\ ChannelsFor(r) \subseteq Channels
  BY <1>7, <1>12, <1>13, <1>19
<1>22. \A r \in Reminders :
         /\ reminder'[r].event = reminder[r].event
         /\ reminder'[r].accepted = reminder[r].accepted
         /\ reminder'[r].failed = reminder[r].failed
         /\ reminder'[r].uncertain = reminder[r].uncertain
  BY <1>17
<1>23. Tells(queued, new, slot)
  BY <1>9, <1>14, <1>15, <1>18, <1>20, <1>21, <1>22 DEF Tells
<1> QED
  BY <1>2, <1>8, <1>23

\* Whose delivery is whose after such a round: a new notice belongs to the reminder it
\* was queued for, which had none before.
LEMMA TellsWhom ==
    ASSUME TypeOK, DeliveryInv, Untouched, NEW queued \in SUBSET Reminders,
           NEW new \in SUBSET Deliveries, NEW slot \in [queued -> Notices],
           Tells(queued, new, slot), NEW d \in Deliveries
    PROVE  /\ d \in new => \E r \in queued : d[1] = slot[r]
           /\ \A r \in queued : ReminderOf(d)' = r <=> d[1] = slot[r]
           /\ (\A r \in queued : d[1] # slot[r]) => ReminderOf(d)' = ReminderOf(d) /\ status'[d] = status[d]
           /\ (\E r \in queued : d[1] = slot[r]) =>
                status[d] = "none" /\ status'[d] = IF d \in new THEN "pending" ELSE "none"
<1>1. d[1] \in Notices
  BY DEF Deliveries
<1>2. /\ \A r \in queued : slot[r] > last /\ slot[r] \in Notices /\ notice'[slot[r]].reminder = r
      /\ \A r \in queued : reminder[r].status = "pending"
      /\ \A n \in Notices : (\E r \in queued : n = slot[r]) \/ notice'[n] = notice[n]
      /\ d \in new <=> \E r \in queued : d[1] = slot[r] /\ d[2] \in ChannelsFor(r)
  BY DEF Tells
<1>3. status'[d] = IF d \in new THEN "pending" ELSE status[d]
  BY AppendType, Strings DEF Tells
<1>4. (\E r \in queued : d[1] = slot[r]) => status[d] = "none"
  BY <1>2 DEF DeliveryInv, Fresh
<1>5. \A r \in queued : notice[d[1]].reminder # r
  BY <1>1, <1>2 DEF Untouched
<1>6. \A r \in queued : ReminderOf(d)' = r <=> d[1] = slot[r]
  BY <1>1, <1>2, <1>5 DEF ReminderOf
<1>7. (\A r \in queued : d[1] # slot[r]) => ReminderOf(d)' = ReminderOf(d) /\ status'[d] = status[d]
  BY <1>1, <1>2, <1>3 DEF ReminderOf
<1> QED
  BY <1>2, <1>3, <1>4, <1>6, <1>7

LEMMA QueueDueTally ==
    ASSUME TypeOK, DeliveryInv, TallyInv, QueueDue
    PROVE  TallyInv'
<1>1. PICK queued \in SUBSET Reminders, new \in SUBSET Deliveries :
        \E slot \in [queued -> Notices] : Tells(queued, new, slot)
  BY QueueDueTells
<1>2. PICK slot \in [queued -> Notices] : Tells(queued, new, slot)
  BY <1>1
<1>3. Untouched
  BY DEF TallyInv
<1> DEFINE fresh(d) == \E r \in queued : d[1] = slot[r]
<1>4. \A d \in Deliveries :
        /\ d \in new => fresh(d)
        /\ \A r \in queued : ReminderOf(d)' = r <=> d[1] = slot[r]
        /\ ~fresh(d) => ReminderOf(d)' = ReminderOf(d) /\ status'[d] = status[d]
        /\ fresh(d) => status[d] = "none" /\ status'[d] = IF d \in new THEN "pending" ELSE "none"
  BY <1>2, <1>3, TellsWhom
<1> HIDE DEF fresh
<1>5. /\ \A r \in queued : reminder[r].status = "pending" /\ reminder'[r].status = "queued"
      /\ \A r \in Reminders \ queued :
           \/ reminder'[r].status = reminder[r].status
           \/ reminder[r].status = "pending" /\ reminder'[r].status \in {"expired", "skipped"}
      /\ \A r \in Reminders :
           /\ reminder'[r].event = reminder[r].event
           /\ reminder'[r].accepted = reminder[r].accepted
           /\ reminder'[r].failed = reminder[r].failed
           /\ reminder'[r].uncertain = reminder[r].uncertain
  BY <1>2 DEF Tells
<1>6. UNCHANGED settings
  BY DEF QueueDue, userVars
<1>7. ChannelsOwned'
  BY <1>6 DEF TallyInv, ChannelsOwned
<1>8. Untouched'
  <2> SUFFICES ASSUME NEW r \in Reminders, reminder'[r].status \in {"absent", "pending"}
               PROVE  /\ \A n \in Notices : notice'[n].reminder # r
                      /\ reminder'[r].accepted = 0 /\ reminder'[r].failed = 0
                      /\ reminder'[r].uncertain = 0
    BY DEF Untouched
  <2>1. r \notin queued /\ reminder[r].status \in {"absent", "pending"}
    BY <1>5
  <2>2. \A n \in Notices : notice[n].reminder # r
    BY <1>3, <2>1 DEF Untouched
  <2>3. \A n \in Notices : (\E q \in queued : notice'[n].reminder = q) \/ notice'[n] = notice[n]
    BY <1>2 DEF Tells
  <2> QED
    BY <1>3, <1>5, <2>1, <2>2, <2>3 DEF Untouched
<1>9. OwnersTold'
  <2> SUFFICES ASSUME NEW d \in Deliveries, status'[d] # "none", ReminderOf(d)' \in Reminders
               PROVE  OwnerOf[d[2]] = OwnerOf[reminder'[ReminderOf(d)'].event]
    BY DEF OwnersTold, UserOfDelivery, UserOfReminder
  <2>1. CASE fresh(d)
    <3>1. d \in new
      BY <1>4, <2>1
    <3>2. PICK r \in queued : d[1] = slot[r] /\ d[2] \in ChannelsFor(r)
      BY <1>2, <3>1 DEF Tells
    <3>3. UserOfReminder(r) \in Users
      BY OutboxAssumption DEF UserOfReminder, TypeOK, ReminderRecord, OutboxAssumption
    <3>4. OwnerOf[d[2]] = UserOfReminder(r)
      BY <3>2, <3>3 DEF ChannelsFor, TallyInv, ChannelsOwned
    <3>5. ReminderOf(d)' = r
      BY <1>4, <3>2
    <3> QED
      BY <1>5, <3>4, <3>5 DEF UserOfReminder
  <2>2. CASE ~fresh(d)
    <3>1. ReminderOf(d)' = ReminderOf(d) /\ status[d] # "none"
      BY <1>4, <2>2
    <3> QED
      BY <1>5, <3>1 DEF TallyInv, OwnersTold, UserOfDelivery, UserOfReminder
  <2> QED
    BY <2>1, <2>2
<1>10. \A d \in outbox \union new : status'[d] \in ActiveStates => d \in outbox'
  BY <1>2, AppendKeepsActive DEF Tells
<1>11. AwaitedKept'
  <2> SUFFICES ASSUME NEW d \in Deliveries, status'[d] \in ActiveStates, ReminderOf(d)' \in Reminders,
                      reminder'[ReminderOf(d)'].status = "queued"
               PROVE  d \in outbox'
    BY DEF AwaitedKept
  <2>1. CASE fresh(d)
    BY <1>4, <1>10, <2>1 DEF ActiveStates
  <2>2. CASE ~fresh(d)
    <3>1. PICK r \in Reminders : r = ReminderOf(d)'
      OBVIOUS
    <3>2. r = ReminderOf(d) /\ status[d] \in ActiveStates
      BY <1>4, <2>2, <3>1
    <3>3. r \notin queued
      BY <1>4, <2>2, <3>1 DEF fresh
    <3>4. reminder[r].status = "queued"
      BY <1>5, <3>1, <3>3
    <3>5. d \in outbox
      BY <3>2, <3>4 DEF TallyInv, AwaitedKept
    <3> QED
      BY <1>10, <3>5
  <2> QED
    BY <2>1, <2>2
<1>12. ASSUME NEW r \in Reminders PROVE Right(r)'
  <2>1. CASE r \in queued
    <3>1. /\ reminder'[r].status = "queued"
          /\ reminder'[r].accepted = 0 /\ reminder'[r].failed = 0 /\ reminder'[r].uncertain = 0
      BY <1>3, <1>5, <2>1 DEF Untouched
    <3>2. \A d \in Deliveries : ReminderOf(d)' = r => status'[d] \in {"pending", "none"}
      BY <1>4, <2>1 DEF fresh
    <3>3. \A states : "pending" \notin states /\ "none" \notin states => Outcomes(r, states)' = 0
      <4> TAKE states
      <4> HAVE "pending" \notin states /\ "none" \notin states
      <4>1. {d \in Deliveries : ReminderOf(d)' = r /\ status'[d] \in states} = {}
        BY <3>2
      <4> QED
        BY <4>1, FS_EmptySet DEF Outcomes
    <3>4. /\ Outcomes(r, {"accepted"})' = 0
          /\ Outcomes(r, {"unknown"})' = 0
          /\ Outcomes(r, {"failed", "skipped"})' = 0
      BY <3>3
    <3>5. \E d \in Active' : ReminderOf(d)' = r
      <4>1. PICK c \in Channels : c \in ChannelsFor(r)
        BY <1>2, <2>1 DEF Tells
      <4>2. PICK d \in Deliveries : d = <<slot[r], c>>
        BY <2>1 DEF Deliveries
      <4>3. d \in new /\ d[1] = slot[r]
        BY <1>2, <2>1, <4>1, <4>2 DEF Tells
      <4>4. status'[d] = "pending" /\ ReminderOf(d)' = r
        BY <1>4, <2>1, <4>3
      <4>5. d \in outbox'
        BY <1>10, <4>3, <4>4 DEF ActiveStates
      <4> QED
        BY <4>4, <4>5 DEF Active, ActiveStates
    <3> QED
      BY <3>1, <3>4, <3>5 DEF Right
  <2>2. CASE r \notin queued
    <3>1. Right(r)
      BY TallyIsRight DEF TallyInv
    <3>2. ASSUME NEW d \in Deliveries, reminder'[r].status \in {"queued", "processed"}
          PROVE  /\ (ReminderOf(d)' = r /\ status'[d] # "none") <=> (ReminderOf(d) = r /\ status[d] # "none")
                 /\ ReminderOf(d) = r /\ status[d] # "none" => status'[d] = status[d]
                 /\ ReminderOf(d) = r /\ d \in Active => d \in outbox'
      <4>1. fresh(d) => status[d] = "none" /\ ReminderOf(d)' # r
        <5>1. fresh(d) => \E q \in queued : ReminderOf(d)' = q
          BY <1>4 DEF fresh
        <5> QED
          BY <1>4, <2>2, <5>1
      <4>2. ~fresh(d) => ReminderOf(d)' = ReminderOf(d) /\ status'[d] = status[d]
        BY <1>4
      <4>3. d \in Active => d \in outbox /\ status[d] \in ActiveStates /\ status[d] # "none"
        BY DEF Active, ActiveStates
      <4>4. d \in Active => d \in outbox'
        BY <1>10, <4>1, <4>2, <4>3
      <4> QED
        BY <4>1, <4>2, <4>4
    <3> QED
      BY <1>5, <2>2, <3>1, <3>2, RightKept
  <2> QED
    BY <2>1, <2>2
<1> QED
  BY <1>7, <1>8, <1>9, <1>11, <1>12, TallyIsRight DEF TallyInv, TallyRight, Right

LEMMA NextTally ==
    ASSUME TypeOK, DeliveryInv, TallyInv, [Next]_vars
    PROVE  TallyInv'
<1>1. CASE UserStep
  <2>1. ASSUME NEW c \in TestedChannels, RecordTest(c) PROVE TallyInv'
    BY <2>1, ProducersTally, OutboxAssumption DEF OutboxAssumption
  <2>2. ASSUME NEW r \in Reminders, CancelReminder(r) PROVE TallyInv'
    BY <2>2, CancelTally
  <2>3. ASSUME NEW u \in Users, Enqueue(u) PROVE TallyInv'
    BY <2>3, ProducersTally
  <2> QED
    BY <1>1, <2>1, <2>2, <2>3, RetiringTally DEF UserStep
<1>2. CASE (\E w \in Workers : Work(w)) \/ Start
  BY <1>2, DispatcherTally
<1>3. CASE QueueDue
  BY <1>3, QueueDueTally
<1>4. CASE Time
  BY <1>4, RetiringTally DEF Time
<1>5. CASE Stop \/ Exit \/ Crash \/ UNCHANGED vars
  <2>1. UNCHANGED <<notice, outbox, settings, status, reminder>>
    BY <1>5 DEF Stop, Exit, Crash, vars, queueVars, userVars
  <2> QED
    BY <2>1, RemindersRetire DEF TallyInv, ChannelsOwned, Active
<1> QED
  BY <1>1, <1>2, <1>3, <1>4, <1>5 DEF Next

\* Behind the tallies: what a reminder waits for stays in the outbox, and its deliveries
\* go to its own user, so that they leave together.
THEOREM TalliesInductive == Spec => [](TypeOK /\ DeliveryInv /\ TallyInv)
<1>1. Init => TallyInv
  BY InitTallyInv
<1>2. TypeOK /\ DeliveryInv /\ TallyInv /\ [Next]_vars => TallyInv'
  BY NextTally
<1> QED
  BY <1>1, <1>2, DeliveriesInductive, PTL DEF Spec

\* A reminder counts each of its deliveries once, in the right column, and waits
\* exactly as long as an outcome is possible.
THEOREM TalliesStayRight == Spec => []TallyRight
<1>1. TallyInv => TallyRight
  BY DEF TallyInv
<1> QED
  BY <1>1, TalliesInductive, PTL

-------------------------------------------------------------------------------
(* A moment is told of once.                                                  *)

\* A delivery that may still be made, or may have been.
Live(d) == d \in outbox /\ status[d] \in Submitted \union {"pending"}

\* Nobody can ask to be reminded of the event any more.
Over(e) == e \in passed \union deleted \/ access[OwnerOf[e]] \in {"noaccount", "gone"}

\* A reminder gives up its live deliveries before it ends, unless its event is over.
LiveWaits ==
    \A d \in Deliveries : Live(d) /\ ReminderOf(d) \in Reminders =>
        \/ reminder[ReminderOf(d)].status \in {"queued", "processed"}
        \/ Over(reminder[ReminderOf(d)].event)

Speaks(r) ==
    \/ reminder[r].status \in OpenReminder \union {"processed"}
    \/ \E d \in Deliveries : Live(d) /\ ReminderOf(d) = r

OneSpeaks ==
    \A q, r \in Reminders :
        Speaks(q) /\ Speaks(r) /\ reminder[q].event = reminder[r].event => q = r

OneNotice ==
    \A m, n \in Notices :
        notice[m].reminder \in Reminders /\ notice[m].reminder = notice[n].reminder => m = n

OnceInv == LiveWaits /\ OneSpeaks /\ OneNotice

LEMMA OnceIsOnce ==
    ASSUME TypeOK, OnceInv
    PROVE  NoticedOnce
<1> SUFFICES ASSUME NEW d \in outbox, NEW e \in outbox, status[d] \in Submitted, status[e] \in Submitted,
                    ReminderOf(d) \in Reminders, ReminderOf(e) \in Reminders, d[2] = e[2],
                    reminder[ReminderOf(d)].event = reminder[ReminderOf(e)].event
             PROVE  d = e
  BY DEF NoticedOnce
<1>1. d \in Deliveries /\ e \in Deliveries /\ Live(d) /\ Live(e)
  BY DEF TypeOK, Live
<1>2. Speaks(ReminderOf(d)) /\ Speaks(ReminderOf(e))
  BY <1>1 DEF Speaks
<1>3. ReminderOf(d) = ReminderOf(e)
  BY <1>2 DEF OnceInv, OneSpeaks
<1>4. d[1] = e[1]
  BY <1>1, <1>3 DEF OnceInv, OneNotice, ReminderOf, Deliveries
<1> QED
  BY <1>1, <1>4 DEF Deliveries

LEMMA InitOnce == Init => OnceInv
<1> SUFFICES ASSUME Init PROVE OnceInv
  OBVIOUS
<1>1. outbox = {} /\ \A r \in Reminders : reminder[r].status = "absent"
  BY DEF Init
<1>2. \A n \in Notices : notice[n].reminder = 0
  BY DEF Init
<1>3. 0 \notin Reminders
  BY DEF Reminders
<1> QED
  BY <1>1, <1>2, <1>3 DEF OnceInv, LiveWaits, OneSpeaks, OneNotice, Speaks, Live, OpenReminder

\* What is over stays over.
LEMMA OverStays ==
    ASSUME TypeOK, [Next]_vars, NEW e \in Events, Over(e)
    PROVE  Over(e)'
<1>1. OwnerOf[e] \in Users
  BY OutboxAssumption DEF OutboxAssumption
<1>2. passed \subseteq passed' /\ deleted \subseteq deleted'
  <2>1. CASE UserStep
    BY <2>1 DEF UserStep, RecordTest, AddReminder, DeleteEvent, CancelReminder, Enqueue, ClearHistory,
                ChangeSettings, ChangeAccess, RemoveAccount, RemoveUser, userVars
  <2>2. ASSUME NEW w \in Workers, Work(w) PROVE UNCHANGED <<passed, deleted>>
    BY <2>2 DEF Work, Claim, SkipStale, Send, Finish, userVars
  <2>3. CASE QueueDue \/ Time \/ Stop \/ Exit \/ Crash \/ Start \/ UNCHANGED vars
    BY <2>3 DEF QueueDue, Time, WindowMoves, EventPasses, Stop, Exit, Crash, Start, vars, userVars
  <2> QED
    BY <2>1, <2>2, <2>3 DEF Next
<1>3. \A u \in Users : access[u] \in {"noaccount", "gone"} => access'[u] \in {"noaccount", "gone"}
  <2>1. ASSUME NEW v \in Users, ChangeAccess(v) \/ RemoveAccount(v) \/ RemoveUser(v)
        PROVE  \A u \in Users : access[u] \in {"noaccount", "gone"} => access'[u] \in {"noaccount", "gone"}
    BY <2>1 DEF ChangeAccess, RemoveAccount, RemoveUser, TypeOK
  <2>2. CASE /\ UserStep
             /\ ~ \E u \in Users : ChangeAccess(u) \/ RemoveAccount(u) \/ RemoveUser(u)
    BY <2>2 DEF UserStep, RecordTest, AddReminder, DeleteEvent, CancelReminder, Enqueue, ClearHistory,
                ChangeSettings, userVars
  <2>3. ASSUME NEW w \in Workers, Work(w) PROVE UNCHANGED access
    BY <2>3 DEF Work, Claim, SkipStale, Send, Finish, userVars
  <2>4. CASE QueueDue \/ Time \/ Stop \/ Exit \/ Crash \/ Start \/ UNCHANGED vars
    BY <2>4 DEF QueueDue, Time, WindowMoves, EventPasses, Stop, Exit, Crash, Start, vars, userVars
  <2> QED
    BY <2>1, <2>2, <2>3, <2>4 DEF Next
<1> QED
  BY <1>1, <1>2, <1>3 DEF Over

\* Steps by which no reminder begins to speak, and none falls silent with live
\* deliveries unless its event is over.
LEMMA OnceKept ==
    ASSUME TypeOK, OnceInv, [Next]_vars,
           \A d \in Deliveries : Live(d)' /\ ReminderOf(d)' \in Reminders =>
             Live(d) /\ ReminderOf(d)' = ReminderOf(d),
           \A r \in Reminders :
             /\ reminder'[r].event = reminder[r].event
             /\ reminder'[r].status \in OpenReminder \union {"processed"} =>
                  reminder[r].status \in OpenReminder \union {"processed"},
           \A r \in Reminders :
             \/ reminder[r].status \in {"queued", "processed"} => reminder'[r].status \in {"queued", "processed"}
             \/ Over(reminder[r].event)'
             \/ \A d \in Deliveries : Live(d)' => ReminderOf(d)' # r,
           \A n \in Notices : notice'[n].reminder \in Reminders => notice'[n].reminder = notice[n].reminder
    PROVE  OnceInv'
<1>1. LiveWaits'
  <2> SUFFICES ASSUME NEW d \in Deliveries, Live(d)', ReminderOf(d)' \in Reminders
               PROVE  \/ reminder'[ReminderOf(d)'].status \in {"queued", "processed"}
                      \/ Over(reminder[ReminderOf(d)].event)'
    BY DEF LiveWaits
  <2>1. PICK r \in Reminders : r = ReminderOf(d)'
    OBVIOUS
  <2>2. Live(d) /\ ReminderOf(d) = r
    BY <2>1
  <2>3. reminder[r].status \in {"queued", "processed"} \/ Over(reminder[r].event)
    BY <2>2 DEF OnceInv, LiveWaits
  <2>4. PICK e \in Events : e = reminder[r].event /\ e = reminder'[r].event
    BY DEF TypeOK, ReminderRecord
  <2>5. Over(e) => Over(e)'
    BY OverStays
  <2>6. Over(reminder[r].event) => Over(e)
    BY <2>4
  <2>7. Over(reminder[r].event)' => Over(e)'
    BY <2>4 DEF Over
  <2>8. Over(e)' => Over(reminder[ReminderOf(d)].event)'
    BY <2>1, <2>4 DEF Over
  <2> QED
    BY <2>1, <2>3, <2>5, <2>6, <2>7, <2>8
<1>2. \A r \in Reminders : Speaks(r)' => Speaks(r)
  BY DEF Speaks
<1>3. OneSpeaks'
  BY <1>2 DEF OnceInv, OneSpeaks
<1>4. OneNotice'
  BY DEF OnceInv, OneNotice
<1> QED
  BY <1>1, <1>3, <1>4 DEF OnceInv

\* A notice that no reminder asked for begins or ends nothing.
LEMMA NoticeOnce ==
    ASSUME TypeOK, OnceInv, [Next]_vars, NEW s, NEW new \in SUBSET Deliveries,
           Append(new, s), \A d \in new : d[1] = last + 1,
           NEW entry, notice' = [notice EXCEPT ![last + 1] = entry], entry.reminder = 0,
           UNCHANGED reminder
    PROVE  OnceInv'
<1>1. /\ \A d \in Deliveries : status'[d] = IF d \in new THEN s ELSE status[d]
      /\ outbox' \subseteq outbox \union new
  BY DEF Append
<1>2. \A n \in Notices : notice'[n].reminder = IF n = last + 1 THEN 0 ELSE notice[n].reminder
  BY DEF TypeOK
<1>3. 0 \notin Reminders
  BY DEF Reminders
<1>4. ASSUME NEW d \in Deliveries, Live(d)', ReminderOf(d)' \in Reminders
      PROVE  Live(d) /\ ReminderOf(d)' = ReminderOf(d)
  <2>1. d[1] \in Notices /\ d[1] # last + 1
    BY <1>2, <1>3, <1>4 DEF ReminderOf, Deliveries
  <2>2. d \notin new
    BY <2>1
  <2> QED
    BY <1>1, <1>2, <1>4, <2>1, <2>2 DEF Live, ReminderOf
<1>5. \A n \in Notices : notice'[n].reminder \in Reminders => notice'[n].reminder = notice[n].reminder
  BY <1>2, <1>3
<1> QED
  BY <1>4, <1>5, OnceKept

LEMMA ProducersOnce ==
    ASSUME TypeOK, OnceInv, [Next]_vars,
           (\E u \in Users : Enqueue(u)) \/ (\E c \in Channels : RecordTest(c))
    PROVE  OnceInv'
<1>1. ASSUME NEW u \in Users, Enqueue(u) PROVE OnceInv'
  <2>1. settings[u] \in SettingsRecord
    BY DEF TypeOK
  <2>2. PICK new \in SUBSET Deliveries : new = {last + 1} \X settings[u].channels
    BY <1>1, <2>1, NextNotice DEF Enqueue, SettingsRecord, Deliveries
  <2>3. Append(new, "pending") /\ \A d \in new : d[1] = last + 1
    BY <1>1, <2>2 DEF Enqueue
  <2>4. PICK entry : entry = Fill("task", settings[u].rev, 0)
    OBVIOUS
  <2>5. notice' = [notice EXCEPT ![last + 1] = entry] /\ entry.reminder = 0 /\ UNCHANGED reminder
    BY <1>1, <2>4 DEF Enqueue, Fill
  <2> QED
    BY <2>3, <2>5, NoticeOnce
<1>2. ASSUME NEW c \in Channels, RecordTest(c) PROVE OnceInv'
  <2>1. PICK answer \in Answers : Append({<<last + 1, c>>}, answer)
    BY <1>2 DEF RecordTest
  <2>2. PICK new \in SUBSET Deliveries : new = {<<last + 1, c>>}
    BY <1>2, NextNotice DEF RecordTest
  <2>3. Append(new, answer) /\ (\A d \in new : d[1] = last + 1)
    BY <2>1, <2>2
  <2>4. PICK entry : entry = Fill("test", 0, 0)
    OBVIOUS
  <2>5. notice' = [notice EXCEPT ![last + 1] = entry] /\ entry.reminder = 0 /\ UNCHANGED reminder
    BY <1>2, <2>4 DEF RecordTest, Fill
  <2> QED
    BY <2>3, <2>5, NoticeOnce
<1> QED
  BY <1>1, <1>2

\* Settling takes life, and a reminder told of it still waits or is processed.
LEMMA SettleOnce ==
    ASSUME TypeOK, OnceInv, [Next]_vars, NEW settled \in SUBSET Active, NEW st,
           Settle(settled, st), UNCHANGED <<notice, outbox>>,
           \A d \in Deliveries \ settled :
               st[d] = status[d] \/ (status[d] \in ActiveStates /\ st[d] \in ActiveStates)
    PROVE  OnceInv'
<1> DEFINE told(r) == reminder[r].status = "queued" /\ \E d \in settled : ReminderOf(d) = r
<1>1. status' = st /\ \A r \in Reminders : reminder'[r] = IF told(r) THEN Tallied(r, settled, st) ELSE reminder[r]
  BY DEF Settle
<1>2. \A r \in Reminders : told(r) =>
        /\ reminder'[r].event = reminder[r].event
        /\ reminder'[r].status \in {"queued", "processed"}
  BY <1>1, TalliedFields
<1>3. ASSUME NEW d \in Deliveries, Live(d)' PROVE Live(d)
  <2>1. CASE d \in settled
    BY <1>3, <2>1 DEF Live, Active, ActiveStates, Submitted
  <2>2. CASE d \notin settled
    BY <1>1, <1>3, <2>2 DEF Live, ActiveStates, Submitted
  <2> QED
    BY <2>1, <2>2
<1>4. \A d \in Deliveries : ReminderOf(d)' = ReminderOf(d)
  BY DEF ReminderOf
<1>5. \A r \in Reminders :
        /\ reminder'[r].event = reminder[r].event
        /\ reminder'[r].status \in OpenReminder \union {"processed"} =>
             reminder[r].status \in OpenReminder \union {"processed"}
        /\ reminder[r].status \in {"queued", "processed"} => reminder'[r].status \in {"queued", "processed"}
  BY <1>1, <1>2 DEF OpenReminder
<1> QED
  BY <1>3, <1>4, <1>5, OnceKept

LEMMA DispatcherOnce ==
    ASSUME TypeOK, OnceInv, [Next]_vars, (\E w \in Workers : Work(w)) \/ Start
    PROVE  OnceInv'
<1>1. Pending \subseteq Active /\ Stale \subseteq Active /\ Active \subseteq Deliveries
  BY DEF Pending, Stale, Active, ActiveStates, TypeOK
<1>2. ASSUME NEW w \in Workers, Claim(w) PROVE OnceInv'
  <2>1. PICK d \in Pending, skipped \in SUBSET Pending :
           /\ d \notin skipped
           /\ Settle(skipped, Marked(d, skipped))
           /\ worker' = [worker EXCEPT ![w].pc = "claimed", ![w].delivery = d]
           /\ \A e \in Deliveries :
                 Marked(d, skipped)[e] = IF e = d THEN "sending"
                                         ELSE IF e \in skipped THEN "skipped" ELSE status[e]
    BY <1>2, ClaimEffect
  <2>2. PICK st : st = Marked(d, skipped)
    OBVIOUS
  <2>3. PICK settled \in SUBSET Active : settled = skipped
    BY <1>1
  <2>4. \A e \in Deliveries \ settled :
           st[e] = status[e] \/ (status[e] \in ActiveStates /\ st[e] \in ActiveStates)
    BY <1>1, <2>1, <2>2, <2>3 DEF Pending, ActiveStates
  <2>5. Settle(settled, st) /\ UNCHANGED <<notice, outbox>>
    BY <1>2, <2>1, <2>2, <2>3 DEF Claim
  <2> QED
    BY <2>4, <2>5, SettleOnce
<1>3. ASSUME NEW w \in Workers, SkipStale(w) PROVE OnceInv'
  <2>1. PICK st : st = [d \in Deliveries |-> IF d \in Stale THEN "skipped" ELSE status[d]]
    OBVIOUS
  <2>2. PICK settled \in SUBSET Active : settled = Stale
    BY <1>1
  <2>3. \A e \in Deliveries \ settled : st[e] = status[e]
    BY <2>1, <2>2
  <2>4. Settle(settled, st) /\ UNCHANGED <<notice, outbox>>
    BY <1>3, <2>1, <2>2 DEF SkipStale
  <2> QED
    BY <2>3, <2>4, SettleOnce
<1>4. ASSUME UNCHANGED <<notice, outbox, status, reminder>> PROVE OnceInv'
  BY <1>4, OnceKept DEF Live, ReminderOf
<1>5. ASSUME NEW w \in Workers, Send(w) PROVE OnceInv'
  BY <1>4, <1>5 DEF Send, queueVars
<1>6. ASSUME NEW w \in Workers, Finish(w) PROVE OnceInv'
  <2>1. PICK d \in Deliveries : d = worker[w].delivery
    BY DEF TypeOK, WorkerRecord
  <2>2. UNCHANGED <<notice, outbox>>
    BY <1>6 DEF Finish
  <2>3. CASE UNCHANGED <<status, reminder>>
    BY <1>4, <2>2, <2>3
  <2>4. CASE /\ d \in outbox /\ status[d] = "sending"
             /\ Settle({d}, [status EXCEPT ![d] = worker[w].answer])
    <3>1. PICK st : st = [status EXCEPT ![d] = worker[w].answer]
      OBVIOUS
    <3>2. PICK settled \in SUBSET Active : settled = {d}
      BY <2>4 DEF Active, ActiveStates
    <3>3. \A e \in Deliveries \ settled : st[e] = status[e]
      BY <3>1, <3>2 DEF TypeOK
    <3>4. Settle(settled, st)
      BY <2>4, <3>1, <3>2
    <3> QED
      BY <2>2, <3>3, <3>4, SettleOnce
  <2> QED
    BY <1>6, <2>1, <2>3, <2>4 DEF Finish
<1>7. ASSUME Start PROVE OnceInv'
  <2>1. PICK st : st = [d \in Deliveries |-> Recovered(d)]
    OBVIOUS
  <2>2. PICK settled \in SUBSET Active : settled = {d \in outbox : status[d] = "sending"}
    BY DEF Active, ActiveStates
  <2>3. \A e \in Deliveries \ settled : st[e] = status[e]
    BY <2>1, <2>2 DEF Recovered
  <2>4. Settle(settled, st) /\ UNCHANGED <<notice, outbox>>
    BY <1>7, <2>1, <2>2 DEF Start
  <2> QED
    BY <2>3, <2>4, SettleOnce
<1> QED
  BY <1>2, <1>3, <1>5, <1>6, <1>7 DEF Work

\* Steps that settle nothing: a reminder ends with its event, or with nothing live.
LEMMA EndingOnce ==
    ASSUME TypeOK, OnceInv, [Next]_vars, UNCHANGED <<notice, status>>, outbox' \subseteq outbox,
           \A r \in Reminders :
             /\ reminder'[r].event = reminder[r].event
             /\ reminder'[r].status \in OpenReminder \union {"processed"} =>
                  reminder[r].status \in OpenReminder \union {"processed"},
           \A r \in Reminders :
             \/ reminder[r].status \in {"queued", "processed"} => reminder'[r].status \in {"queued", "processed"}
             \/ \E e \in Events : e = reminder[r].event /\ Over(e)'
    PROVE  OnceInv'
<1>1. \A d \in Deliveries : Live(d)' => Live(d)
  BY DEF Live
<1>2. \A d \in Deliveries : ReminderOf(d)' = ReminderOf(d)
  BY DEF ReminderOf
<1>3. ASSUME NEW r \in Reminders, NEW e \in Events, e = reminder[r].event, Over(e)'
      PROVE  Over(reminder[r].event)'
  BY <1>3 DEF Over
<1>4. \A r \in Reminders :
        \/ reminder[r].status \in {"queued", "processed"} => reminder'[r].status \in {"queued", "processed"}
        \/ Over(reminder[r].event)'
  BY <1>3
<1> QED
  BY <1>1, <1>2, <1>4, OnceKept

LEMMA EndingSteps ==
    ASSUME TypeOK, OnceInv, [Next]_vars,
           \/ \E e \in Events : DeleteEvent(e) \/ EventPasses(e)
           \/ \E r \in Reminders : WindowMoves(r)
           \/ \E u \in Users : ClearHistory(u) \/ ChangeSettings(u) \/ ChangeAccess(u)
                               \/ RemoveAccount(u) \/ RemoveUser(u)
           \/ Stop \/ Exit \/ Crash \/ UNCHANGED vars
    PROVE  OnceInv'
<1>1. \A r \in Reminders : reminder[r] \in ReminderRecord /\ reminder[r].event \in Events
  BY DEF TypeOK, ReminderRecord
<1>2. ASSUME NEW e \in Events, DeleteEvent(e) PROVE OnceInv'
  <2>1. \A r \in Reminders :
          reminder'[r] = IF reminder[r].event = e /\ reminder[r].status \in OpenReminder
                         THEN [reminder[r] EXCEPT !.status = "cancelled"] ELSE reminder[r]
    BY <1>2 DEF DeleteEvent
  <2>2. Over(e)'
    BY <1>2 DEF DeleteEvent, Over
  <2>3. UNCHANGED <<notice, status, outbox>>
    BY <1>2 DEF DeleteEvent
  <2>4. \A r \in Reminders : reminder'[r] = reminder[r] \/
          (reminder[r].event = e /\ reminder'[r].event = e /\ reminder'[r].status = "cancelled")
    BY <1>1, <2>1 DEF ReminderRecord
  <2> QED
    BY <2>2, <2>3, <2>4, EndingOnce DEF OpenReminder
<1>3. ASSUME NEW u \in Users, ClearHistory(u) PROVE OnceInv'
  <2>1. \A r \in Reminders :
          reminder'[r] = IF UserOfReminder(r) = u /\ Forgettable(r)
                         THEN [reminder[r] EXCEPT !.status = "removed"] ELSE reminder[r]
    BY <1>3 DEF ClearHistory
  <2>2. UNCHANGED <<notice, status, outbox, userVars>>
    BY <1>3 DEF ClearHistory
  <2>3. \A r \in Reminders :
          \/ reminder'[r] = reminder[r]
          \/ /\ reminder'[r].event = reminder[r].event /\ reminder'[r].status = "removed"
             /\ \/ reminder[r].status \notin {"queued", "processed"}
                \/ reminder[r].event \in passed
    BY <1>1, <2>1 DEF ReminderRecord, Forgettable
  <2>4. \A e \in Events : e \in passed => Over(e)'
    BY <2>2 DEF Over, userVars
  <2> QED
    BY <1>1, <2>2, <2>3, <2>4, EndingOnce DEF OpenReminder
<1>4. ASSUME NEW u \in Users, RemoveAccount(u) \/ RemoveUser(u) PROVE OnceInv'
  <2>1. \A r \in Reminders :
          reminder'[r] = IF UserOfReminder(r) = u /\ Stored(r)
                         THEN [reminder[r] EXCEPT !.status = "removed"] ELSE reminder[r]
    BY <1>4 DEF RemoveAccount, RemoveUser, RemindersWithout
  <2>2. UNCHANGED <<notice, status>> /\ outbox' \subseteq outbox
    BY <1>4 DEF RemoveAccount, RemoveUser
  <2>3. \A r \in Reminders :
          \/ reminder'[r] = reminder[r]
          \/ /\ reminder'[r].event = reminder[r].event /\ reminder'[r].status = "removed"
             /\ OwnerOf[reminder[r].event] = u
    BY <1>1, <2>1 DEF ReminderRecord, UserOfReminder
  <2>4. access'[u] \in {"noaccount", "gone"}
    BY <1>4 DEF RemoveAccount, RemoveUser, TypeOK
  <2>5. \A e \in Events : OwnerOf[e] = u => Over(e)'
    BY <2>4 DEF Over
  <2> QED
    BY <1>1, <2>2, <2>3, <2>5, EndingOnce DEF OpenReminder
<1>5. ASSUME NEW r \in Reminders, WindowMoves(r) PROVE OnceInv'
  <2>1. PICK window : reminder' = [reminder EXCEPT ![r].window = window]
    BY <1>5 DEF WindowMoves
  <2>2. \A q \in Reminders : reminder'[q].status = reminder[q].status /\ reminder'[q].event = reminder[q].event
    BY <1>1, <2>1 DEF TypeOK, ReminderRecord
  <2>3. UNCHANGED <<notice, status, outbox>>
    BY <1>5 DEF WindowMoves
  <2> QED
    BY <2>2, <2>3, EndingOnce
<1>6. CASE \/ \E e \in Events : EventPasses(e)
           \/ \E u \in Users : ChangeSettings(u) \/ ChangeAccess(u)
           \/ Stop \/ Exit \/ Crash \/ UNCHANGED vars
  <2>1. UNCHANGED <<notice, status, outbox, reminder>>
    BY <1>6 DEF EventPasses, ChangeSettings, ChangeAccess, Stop, Exit, Crash, vars, queueVars
  <2> QED
    BY <2>1, EndingOnce
<1> QED
  BY <1>2, <1>3, <1>4, <1>5, <1>6

\* What cancelling leaves of a reminder's deliveries is settled and was not submitted.
LEMMA CancelOnce ==
    ASSUME TypeOK, OnceInv, [Next]_vars, NEW r \in Reminders, CancelReminder(r)
    PROVE  OnceInv'
<1>1. /\ reminder' = [reminder EXCEPT ![r].status = "cancelled"]
      /\ \A d \in Deliveries : status'[d] = IF d \in Pending /\ ReminderOf(d) = r THEN "skipped" ELSE status[d]
      /\ ~ \E d \in outbox : ReminderOf(d) = r /\ status[d] \in Submitted
      /\ UNCHANGED <<notice, outbox>>
  BY DEF CancelReminder
<1>2. /\ reminder'[r].status = "cancelled" /\ reminder'[r].event = reminder[r].event
      /\ \A q \in Reminders \ {r} : reminder'[q] = reminder[q]
  BY <1>1 DEF TypeOK, ReminderRecord
<1>3. \A d \in Deliveries : ReminderOf(d)' = ReminderOf(d)
  BY <1>1 DEF ReminderOf
<1>4. \A d \in Deliveries : Live(d)' => Live(d) /\ ReminderOf(d) # r
  BY <1>1 DEF Live, Pending, Submitted
<1>5. /\ \A q \in Reminders :
           /\ reminder'[q].event = reminder[q].event
           /\ reminder'[q].status \in OpenReminder \union {"processed"} =>
                reminder[q].status \in OpenReminder \union {"processed"}
      /\ \A q \in Reminders \ {r} : reminder'[q].status = reminder[q].status
  BY <1>2 DEF OpenReminder
<1>6. \A n \in Notices : notice'[n].reminder = notice[n].reminder
  BY <1>1
<1> QED
  BY <1>3, <1>4, <1>5, <1>6, OnceKept

\* A new reminder is told of nobody yet, and nobody else speaks of its event: those that
\* do not wait have nothing live, for the event is not over.
LEMMA AddOnce ==
    ASSUME TypeOK, Untouched, OnceInv, [Next]_vars, NEW e \in Events, AddReminder(e)
    PROVE  OnceInv'
<1>1. PICK r \in Reminders : /\ reminder[r].status = "absent"
                             /\ reminder' = [reminder EXCEPT ![r].event = e, ![r].status = "pending"]
  BY DEF AddReminder
<1>2. /\ reminder'[r].status = "pending" /\ reminder'[r].event = e
      /\ \A q \in Reminders \ {r} : reminder'[q] = reminder[q]
  BY <1>1 DEF TypeOK, ReminderRecord
<1>3. UNCHANGED <<notice, outbox, status, userVars>>
  BY DEF AddReminder
<1>4. \A d \in Deliveries : ReminderOf(d)' = ReminderOf(d) /\ ReminderOf(d) # r /\ Live(d)' = Live(d)
  BY <1>1, <1>3 DEF Untouched, ReminderOf, Deliveries, Live
<1>5. ~Over(e)
  BY DEF AddReminder, Over
<1>6. ASSUME NEW q \in Reminders, Speaks(q), reminder[q].event = e PROVE FALSE
  <2>1. reminder[q].status \notin OpenReminder \union {"processed"}
    BY <1>6 DEF AddReminder
  <2>2. PICK d \in Deliveries : Live(d) /\ ReminderOf(d) = q
    BY <1>6, <2>1 DEF Speaks
  <2>3. reminder[q].status \in {"queued", "processed"} \/ Over(reminder[q].event)
    BY <2>2 DEF OnceInv, LiveWaits
  <2> QED
    BY <1>5, <1>6, <2>1, <2>3 DEF OpenReminder
<1>7. LiveWaits'
  <2> SUFFICES ASSUME NEW d \in Deliveries, Live(d)', ReminderOf(d)' \in Reminders
               PROVE  \/ reminder'[ReminderOf(d)'].status \in {"queued", "processed"}
                      \/ Over(reminder[ReminderOf(d)].event)'
    BY DEF LiveWaits
  <2>1. PICK q \in Reminders : q = ReminderOf(d)' /\ q = ReminderOf(d) /\ q # r /\ Live(d)
    BY <1>4
  <2>2. reminder[q].status \in {"queued", "processed"} \/ Over(reminder[q].event)
    BY <2>1 DEF OnceInv, LiveWaits
  <2>3. reminder'[q] = reminder[q]
    BY <1>2, <2>1
  <2>4. Over(reminder[q].event) => Over(reminder[ReminderOf(d)].event)'
    BY <1>3, <2>1, <2>3 DEF Over, userVars
  <2> QED
    BY <2>1, <2>2, <2>3, <2>4
<1>8. \A q \in Reminders \ {r} : Speaks(q)' => Speaks(q) /\ reminder'[q].event = reminder[q].event
  BY <1>2, <1>4 DEF Speaks
<1>9. OneSpeaks'
  <2> SUFFICES ASSUME NEW p \in Reminders, NEW q \in Reminders, Speaks(p)', Speaks(q)',
                      reminder'[p].event = reminder'[q].event
               PROVE  p = q
    BY DEF OneSpeaks
  <2>1. CASE p # r /\ q # r
    BY <1>8, <2>1 DEF OnceInv, OneSpeaks
  <2>2. CASE p = r /\ q # r
    BY <1>2, <1>6, <1>8, <2>2
  <2>3. CASE q = r /\ p # r
    BY <1>2, <1>6, <1>8, <2>3
  <2> QED
    BY <2>1, <2>2, <2>3
<1>10. OneNotice'
  BY <1>3 DEF OnceInv, OneNotice
<1> QED
  BY <1>7, <1>9, <1>10 DEF OnceInv

\* A round of the calendar goroutine gives life only to reminders it has made wait, a
\* notice of its own to each.
LEMMA QueueDueOnce ==
    ASSUME TypeOK, DeliveryInv, Untouched, OnceInv, QueueDue
    PROVE  OnceInv'
<1>1. PICK queued \in SUBSET Reminders, new \in SUBSET Deliveries :
        \E slot \in [queued -> Notices] : Tells(queued, new, slot)
  BY QueueDueTells
<1>2. PICK slot \in [queued -> Notices] : Tells(queued, new, slot)
  BY <1>1
<1> DEFINE fresh(d) == \E r \in queued : d[1] = slot[r]
<1>3. \A d \in Deliveries :
        /\ d \in new => fresh(d)
        /\ \A r \in queued : ReminderOf(d)' = r <=> d[1] = slot[r]
        /\ ~fresh(d) => ReminderOf(d)' = ReminderOf(d) /\ status'[d] = status[d]
  BY <1>2, TellsWhom
<1>4. \A d \in Deliveries : fresh(d) => ReminderOf(d)' \in queued
  BY <1>3
<1> HIDE DEF fresh
<1>5. /\ \A q, r \in queued : slot[q] = slot[r] => q = r
      /\ \A r \in queued : /\ reminder[r].status = "pending" /\ reminder'[r].status = "queued"
                            /\ notice'[slot[r]].reminder = r
      /\ \A n \in Notices : (\E r \in queued : n = slot[r]) \/ notice'[n] = notice[n]
      /\ \A r \in Reminders \ queued :
           \/ reminder'[r].status = reminder[r].status
           \/ reminder[r].status = "pending" /\ reminder'[r].status \in {"expired", "skipped"}
      /\ \A r \in Reminders : reminder'[r].event = reminder[r].event
  BY <1>2 DEF Tells
<1>6. outbox' \subseteq outbox \union new /\ UNCHANGED userVars
  BY <1>2 DEF Tells, Append, QueueDue
<1>7. \A d \in Deliveries : Live(d)' /\ ~fresh(d) => Live(d) /\ ReminderOf(d)' = ReminderOf(d)
  BY <1>3, <1>6 DEF Live
<1>8. LiveWaits'
  <2> SUFFICES ASSUME NEW d \in Deliveries, Live(d)', ReminderOf(d)' \in Reminders
               PROVE  \/ reminder'[ReminderOf(d)'].status \in {"queued", "processed"}
                      \/ Over(reminder[ReminderOf(d)].event)'
    BY DEF LiveWaits
  <2>1. CASE fresh(d)
    BY <1>4, <1>5, <2>1
  <2>2. CASE ~fresh(d)
    <3>1. PICK q \in Reminders : q = ReminderOf(d)' /\ q = ReminderOf(d) /\ Live(d)
      BY <1>7, <2>2
    <3>2. reminder[q].status \in {"queued", "processed"} \/ Over(reminder[q].event)
      BY <3>1 DEF OnceInv, LiveWaits
    <3>3. reminder[q].status \in {"queued", "processed"} => reminder'[q].status \in {"queued", "processed"}
      BY <1>5
    <3>4. Over(reminder[q].event) => Over(reminder[ReminderOf(d)].event)'
      BY <1>5, <1>6, <3>1 DEF Over, userVars
    <3> QED
      BY <3>1, <3>2, <3>3, <3>4
  <2> QED
    BY <2>1, <2>2
<1>9. ASSUME NEW r \in Reminders, Speaks(r)' PROVE Speaks(r)
  <2>1. CASE reminder'[r].status \in OpenReminder \union {"processed"}
    BY <1>5, <2>1 DEF Speaks, OpenReminder
  <2>2. ASSUME NEW d \in Deliveries, Live(d)', ReminderOf(d)' = r PROVE Speaks(r)
    <3>1. CASE fresh(d)
      BY <1>4, <1>5, <2>2, <3>1 DEF Speaks, OpenReminder
    <3>2. CASE ~fresh(d)
      BY <1>7, <2>2, <3>2 DEF Speaks
    <3> QED
      BY <3>1, <3>2
  <2> QED
    BY <1>9, <2>1, <2>2 DEF Speaks
<1>10. OneSpeaks'
  BY <1>5, <1>9 DEF OnceInv, OneSpeaks
<1>11. \A n \in Notices : \A r \in queued : notice'[n].reminder = r => n = slot[r]
  BY <1>5 DEF Untouched
<1>12. OneNotice'
  <2> SUFFICES ASSUME NEW m \in Notices, NEW n \in Notices, notice'[m].reminder \in Reminders,
                      notice'[m].reminder = notice'[n].reminder
               PROVE  m = n
    BY DEF OneNotice
  <2>1. CASE notice'[m].reminder \in queued
    BY <1>11, <2>1
  <2>2. CASE notice'[m].reminder \notin queued
    <3>1. notice'[m] = notice[m] /\ notice'[n] = notice[n]
      BY <1>5, <2>2
    <3> QED
      BY <3>1 DEF OnceInv, OneNotice
  <2> QED
    BY <2>1, <2>2
<1> QED
  BY <1>8, <1>10, <1>12 DEF OnceInv

LEMMA NextOnce ==
    ASSUME TypeOK, DeliveryInv, TallyInv, OnceInv, [Next]_vars
    PROVE  OnceInv'
<1>1. Untouched
  BY DEF TallyInv
<1>2. CASE UserStep
  <2>1. ASSUME NEW c \in TestedChannels, RecordTest(c) PROVE OnceInv'
    BY <2>1, ProducersOnce, OutboxAssumption DEF OutboxAssumption
  <2>2. ASSUME NEW e \in Events, AddReminder(e) PROVE OnceInv'
    BY <1>1, <2>2, AddOnce
  <2>3. ASSUME NEW r \in Reminders, CancelReminder(r) PROVE OnceInv'
    BY <2>3, CancelOnce
  <2>4. ASSUME NEW u \in Users, Enqueue(u) PROVE OnceInv'
    BY <2>4, ProducersOnce
  <2> QED
    BY <1>2, <2>1, <2>2, <2>3, <2>4, EndingSteps DEF UserStep
<1>3. CASE (\E w \in Workers : Work(w)) \/ Start
  BY <1>3, DispatcherOnce
<1>4. CASE QueueDue
  BY <1>1, <1>4, QueueDueOnce
<1>5. CASE Time \/ Stop \/ Exit \/ Crash \/ UNCHANGED vars
  BY <1>5, EndingSteps DEF Time
<1> QED
  BY <1>2, <1>3, <1>4, <1>5 DEF Next

\* No channel is told twice of one moment, as far as the outbox remembers.
THEOREM MomentsToldOnce == Spec => []NoticedOnce
<1>1. Init => OnceInv
  BY InitOnce
<1>2. TypeOK /\ DeliveryInv /\ TallyInv /\ OnceInv /\ [Next]_vars => OnceInv'
  BY NextOnce
<1>3. TypeOK /\ OnceInv => NoticedOnce
  BY OnceIsOnce
<1> QED
  BY <1>1, <1>2, <1>3, TalliesInductive, PTL DEF Spec
===============================================================================
