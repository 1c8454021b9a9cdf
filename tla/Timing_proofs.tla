----------------------------- MODULE Timing_proofs -----------------------------
(***************************************************************************)
(* Proofs about the components that work by the clock: GameRecords, for    *)
(* any number of handlers and any pauses, and SaleClock, for any plans,    *)
(* round trips and skew. The two share no variable.                        *)
(***************************************************************************)
EXTENDS GameRecords, SaleClock, TLAPS

-------------------------------------------------------------------------------
(* GameRecords: what ties handlers, the account's entry and time together.    *)

\* Only the handler that holds the account pauses or loads.
OneHolds == \A r \in Readers : Step(r) \in {"pausing", "loading"} => entry.busy = r

\* A handler whose epoch is the entry's works with the entry's credentials, for
\* every other identity came with another epoch.
EpochsTell ==
    \A r \in Readers : Step(r) \in {"pausing", "loading"} =>
        /\ read[r].epoch <= entry.epoch
        /\ read[r].epoch = entry.epoch => entry.identity = read[r].as

\* The entry remembers the last request and the last refusal, also when it is
\* cleared; who pauses came after both.
PausesKept ==
    /\ lastEnd <= time
    /\ lastEnd > 0 => entry.next >= lastEnd + Interval
    /\ entry.blocked >= refused
    /\ \A r \in Readers : Step(r) = "pausing" => refused <= time

RecordsInv == RecordsTypeOK /\ RecordsHonest /\ OneHolds /\ EpochsTell /\ PausesKept

LEMMA RecordsInit0 == RecordsInit => RecordsInv
<1> SUFFICES ASSUME RecordsInit PROVE RecordsInv
  OBVIOUS
<1>1. NoEntry \in Entry /\ NoRead \in Read
  BY DEF NoEntry, Entry, NoRead, Read, NoSnapshot, Snapshot, Maybe, Keys
<1>2. RecordsTypeOK
  BY <1>1 DEF RecordsInit, RecordsTypeOK
<1>3. RecordsHonest
  BY DEF RecordsInit, RecordsHonest, NoEntry, NoSnapshot, NoRead
<1>4. OneHolds /\ EpochsTell /\ PausesKept
  BY RecordsAssumption DEF RecordsInit, OneHolds, EpochsTell, PausesKept, NoEntry, NoRead, Step,
                           RecordsAssumption
<1> QED
  BY <1>2, <1>3, <1>4 DEF RecordsInv

\* Cancelling the request under way changes nothing else of a handler.
LEMMA InterruptedKeeps ==
    ASSUME RecordsTypeOK, NEW r \in Readers
    PROVE  /\ Interrupted(entry)[r] \in Read
           /\ Interrupted(entry)[r].step = read[r].step
           /\ Interrupted(entry)[r].as = read[r].as
           /\ Interrupted(entry)[r].epoch = read[r].epoch
           /\ Interrupted(entry)[r].old = read[r].old
           /\ Interrupted(entry)[r].roles = read[r].roles
           /\ Interrupted(entry)[r].note = read[r].note
<1>1. read[r] \in Read
  BY DEF RecordsTypeOK
<1> QED
  BY <1>1 DEF Interrupted, Read

\* What the invariant says of one handler that a step leaves alone, or only
\* interrupts, while the entry goes from one state to another.
Kept(r) ==
    /\ read'[r] \in Read
    /\ read'[r].step = read[r].step
    /\ read'[r].as = read[r].as
    /\ read'[r].epoch = read[r].epoch
    /\ read'[r].old = read[r].old
    /\ read'[r].roles = read[r].roles
    /\ read'[r].note = read[r].note

\* A handler that neither pauses nor loads holds nothing.
Free(r) ==
    /\ read'[r] \in Read
    /\ read'[r].step \notin {"pausing", "loading"}
    /\ {read'[r].old, read'[r].roles, read'[r].note} \subseteq {Nothing, read'[r].as}

LEMMA GetsFree ==
    ASSUME NEW record \in Read, NEW of \in {Nothing, record.as},
           {record.old, record.roles, record.note} \subseteq {Nothing, record.as}
    PROVE  /\ Gets(record, of) \in Read
           /\ Gets(record, of).step \in {"asking", "answering"}
           /\ Gets(record, of).as = record.as
           /\ {Gets(record, of).old, Gets(record, of).roles, Gets(record, of).note}
                 \subseteq {Nothing, record.as}
<1>1. CASE record.key = "roles"
  BY <1>1 DEF Gets, Read, Maybe, Keys
<1>2. CASE record.key # "roles"
  BY <1>2 DEF Gets, Read, Maybe, Keys
<1> QED
  BY <1>1, <1>2

\* A step that frees one handler, or none, and does not touch the entry.
LEMMA FreesOne ==
    ASSUME RecordsInv, RecordsTypeOK', UNCHANGED <<entry, lastEnd, refused>>, time' >= time,
           \A r \in Readers : Kept(r) \/ Free(r)
    PROVE  RecordsInv'
<1>1. RecordsHonest'
  BY DEF RecordsInv, RecordsHonest, Kept, Free
<1>2. OneHolds' /\ EpochsTell'
  BY DEF RecordsInv, OneHolds, EpochsTell, Kept, Free, Step
<1>3. PausesKept'
  <2>1. time \in Nat /\ time' \in Nat /\ lastEnd \in Nat /\ refused \in Nat
    BY DEF RecordsTypeOK, RecordsInv
  <2> QED
    BY <2>1 DEF RecordsInv, PausesKept, Kept, Free, Step
<1> QED
  BY <1>1, <1>2, <1>3 DEF RecordsInv

\* What the entry's cache holds is the entry's, whatever is cleared.
LEMMA ClearedKeeps ==
    ASSUME RecordsTypeOK
    PROVE  /\ Cleared(entry) \in Entry
           /\ Cleared(entry).epoch = entry.epoch + 1
           /\ Cleared(entry).identity = entry.identity
           /\ Cleared(entry).busy = entry.busy
           /\ Cleared(entry).next = entry.next
           /\ Cleared(entry).blocked = entry.blocked
           /\ \A k \in Keys : Cleared(entry).cache[k].of = Nothing
<1>1. PICK empty : empty = [k \in Keys |-> NoSnapshot]
  OBVIOUS
<1>2. empty \in [Keys -> Snapshot] /\ \A k \in Keys : empty[k].of = Nothing
  BY <1>1 DEF NoSnapshot, Snapshot, Maybe
<1>3. PICK e : e = Cleared(entry)
  OBVIOUS
<1>4. e = [entry EXCEPT !.epoch = entry.epoch + 1, !.cache = empty]
  BY <1>1, <1>3 DEF Cleared
<1>5. entry \in Entry
  BY DEF RecordsTypeOK
<1>6. e.epoch = entry.epoch + 1 /\ e.cache = empty
  BY <1>4, <1>5 DEF Entry
<1>7. /\ e.identity = entry.identity /\ e.busy = entry.busy
      /\ e.next = entry.next /\ e.blocked = entry.blocked
  BY <1>4, <1>5 DEF Entry
<1>8. e \in Entry
  <2>1. PICK caches : caches = [Keys -> Snapshot]
    OBVIOUS
  <2>2. Entry = [identity : Maybe(Credentials), epoch : Nat, busy : Maybe(Readers), next : Nat,
                 blocked : Nat, cache : caches]
    BY <2>1 DEF Entry
  <2>3. entry.epoch + 1 \in Nat
    BY <1>5 DEF Entry
  <2> QED
    BY <1>2, <1>4, <1>5, <2>1, <2>2, <2>3
<1> QED
  BY <1>2, <1>3, <1>6, <1>7, <1>8

\* A step that clears the entry, or changes its cache within what is its own, while
\* handlers are at most interrupted.
LEMMA ClearsEntry ==
    ASSUME RecordsInv, RecordsTypeOK', UNCHANGED <<lastEnd, refused, time>>,
           entry'.epoch = entry.epoch \/ entry'.epoch = entry.epoch + 1,
           \A k \in Keys : entry'.cache[k].of = Nothing,
           entry'.identity = entry.identity, entry'.busy = entry.busy,
           entry'.next = entry.next, entry'.blocked = entry.blocked,
           \A r \in Readers : Kept(r)
    PROVE  RecordsInv'
<1>1. RecordsHonest'
  BY DEF RecordsInv, RecordsHonest, Kept
<1>2. OneHolds'
  BY DEF RecordsInv, OneHolds, Kept, Step
<1>3. EpochsTell'
  <2> SUFFICES ASSUME NEW r \in Readers, read'[r].step \in {"pausing", "loading"}
               PROVE  /\ read'[r].epoch <= entry'.epoch
                      /\ read'[r].epoch = entry'.epoch => entry'.identity = read'[r].as
    BY DEF EpochsTell, Step
  <2>1. read[r].epoch \in Nat /\ entry.epoch \in Nat
    BY DEF RecordsInv, RecordsTypeOK, Read, Entry
  <2> QED
    BY <2>1 DEF RecordsInv, EpochsTell, Kept, Step
<1>4. PausesKept'
  BY DEF RecordsInv, PausesKept, Kept, Step
<1> QED
  BY <1>1, <1>2, <1>3, <1>4 DEF RecordsInv

\* The holder ends its request: the account is freed for the next one.
LEMMA EndsRequest ==
    ASSUME RecordsInv, RecordsTypeOK', NEW r \in Readers, Step(r) \in {"pausing", "loading"},
           UNCHANGED time,
           entry'.identity = entry.identity, entry'.epoch = entry.epoch,
           entry'.next = time + Interval,
           \A k \in Keys : entry'.cache[k].of \in {Nothing, entry.identity},
           lastEnd' \in {lastEnd, time}, entry'.blocked >= refused',
           Free(r), \A q \in Readers \ {r} : read'[q] = read[q]
    PROVE  RecordsInv'
<1>1. RecordsHonest'
  BY DEF RecordsInv, RecordsHonest, Free
<1>2. \A q \in Readers : read'[q].step \notin {"pausing", "loading"}
  BY DEF RecordsInv, OneHolds, Free, Step
<1>3. OneHolds' /\ EpochsTell'
  BY <1>2 DEF OneHolds, EpochsTell, Step
<1>4. PausesKept'
  <2>1. time \in Nat /\ lastEnd \in Nat /\ Interval \in Nat
    BY RecordsAssumption DEF RecordsInv, RecordsTypeOK, RecordsAssumption
  <2>2. lastEnd <= time
    BY DEF RecordsInv, PausesKept
  <2>3. lastEnd' <= time' /\ lastEnd' + Interval <= time + Interval
    <3>1. CASE lastEnd' = lastEnd
      BY <2>1, <2>2, <3>1
    <3>2. CASE lastEnd' = time
      BY <2>1, <3>2
    <3> QED
      BY <3>1, <3>2
  <2> QED
    BY <1>2, <2>1, <2>3 DEF PausesKept, Step
<1> QED
  BY <1>1, <1>3, <1>4 DEF RecordsInv

LEMMA HandlerAlone ==
    ASSUME RecordsInv, NEW r \in Readers, Takes(r) \/ Answered(r) \/ Rests(r)
    PROVE  RecordsInv'
<1>1. read[r] \in Read /\ credentials \in Credentials /\ time \in Nat
  BY DEF RecordsInv, RecordsTypeOK
<1>2. {read[r].old, read[r].roles, read[r].note} \subseteq {Nothing, read[r].as}
  BY DEF RecordsInv, RecordsHonest
<1>3. Free(r) /\ \A q \in Readers \ {r} : read'[q] = read[q]
  <2>1. CASE Takes(r)
    BY <2>1, <1>1 DEF Takes, Free, NoRead, Read, Maybe, Keys, RecordsInv, RecordsTypeOK
  <2>2. CASE Answered(r)
    BY <2>2, <1>1, <1>2 DEF Answered, Free, Read, RecordsInv, RecordsTypeOK
  <2>3. CASE Rests(r)
    BY <2>3, <1>1 DEF Rests, Free, NoRead, Read, Maybe, Keys, RecordsInv, RecordsTypeOK
  <2> QED
    BY <2>1, <2>2, <2>3
<1>4. UNCHANGED <<credentials, runnable, invalidating, entry, others, time, serving, edits,
                  lastEnd, refused>>
  BY DEF Takes, Answered, Rests
<1>5. read' \in [Readers -> Read]
  <2>1. read \in [Readers -> Read]
    BY DEF RecordsInv, RecordsTypeOK
  <2>2. DOMAIN read' = Readers /\ read' = [q \in Readers |-> read'[q]]
    BY <2>1 DEF Takes, Answered, Rests
  <2> QED
    BY <1>3, <2>1, <2>2 DEF Free
<1>6. RecordsTypeOK'
  BY <1>4, <1>5 DEF RecordsInv, RecordsTypeOK
<1>7. \A q \in Readers : Kept(q) \/ Free(q)
  BY <1>3, <1>5 DEF Kept
<1> QED
  BY <1>1, <1>4, <1>6, <1>7, FreesOne

LEMMA WorldMoves ==
    ASSUME RecordsInv, Edit \/ OtherAccounts \/ RecordTick
    PROVE  RecordsInv'
<1>1. /\ UNCHANGED <<entry, read, serving, lastEnd, refused>>
      /\ time' \in Nat /\ time' >= time /\ edits' \in Nat
  BY DEF Edit, OtherAccounts, RecordTick, RecordsInv, RecordsTypeOK
<1>2. /\ credentials' \in Credentials /\ runnable' \in BOOLEAN
      /\ invalidating' \in Nat /\ others' \in Nat
  <2>1. CASE Edit
    <3>1. runnable' \in BOOLEAN
      BY <2>1 DEF Edit, RecordsInv, RecordsTypeOK
    <3>2. credentials' \in Credentials /\ invalidating' \in {invalidating, invalidating + 1}
      BY <2>1 DEF Edit, RecordsInv, RecordsTypeOK
    <3>3. invalidating \in Nat /\ others \in Nat /\ others' = others
      BY <2>1 DEF Edit, RecordsInv, RecordsTypeOK
    <3> QED
      BY <3>1, <3>2, <3>3
  <2>2. CASE OtherAccounts
    <3>1. others' \in Nat
      BY <2>2 DEF OtherAccounts
    <3> QED
      BY <2>2, <3>1 DEF OtherAccounts, RecordsInv, RecordsTypeOK
  <2>3. CASE RecordTick
    BY <2>3 DEF RecordTick, RecordsInv, RecordsTypeOK
  <2> QED
    BY <2>1, <2>2, <2>3
<1>3. RecordsTypeOK'
  BY <1>1, <1>2 DEF RecordsInv, RecordsTypeOK
<1>4. \A q \in Readers : Kept(q)
  BY <1>1 DEF Kept, RecordsInv, RecordsTypeOK
<1> QED
  BY <1>1, <1>3, <1>4, FreesOne

\* Handlers that are at most interrupted.
LEMMA InterruptedType ==
    ASSUME RecordsTypeOK, read' = Interrupted(entry)
    PROVE  read' \in [Readers -> Read] /\ \A q \in Readers : Kept(q)
<1>1. \A q \in Readers : Kept(q)
  BY InterruptedKeeps DEF Kept
<1>2. read' = [q \in Readers |-> read'[q]]
  BY DEF Interrupted
<1> QED
  BY <1>1, <1>2 DEF Kept

LEMMA InvalidateStep ==
    ASSUME RecordsInv, Invalidate
    PROVE  RecordsInv'
<1>1. RecordsTypeOK
  BY DEF RecordsInv
<1>2. entry' = Cleared(entry) /\ read' = Interrupted(entry)
  BY DEF Invalidate, Invalidated
<1>3. invalidating' \in Nat
  BY <1>1 DEF Invalidate, RecordsTypeOK
<1>4. UNCHANGED <<credentials, runnable, others, time, serving, edits, lastEnd, refused>>
  BY DEF Invalidate
<1>5. entry' \in Entry
  BY <1>1, <1>2, ClearedKeeps
<1>6. RecordsTypeOK'
  BY <1>1, <1>2, <1>3, <1>4, <1>5, InterruptedType DEF RecordsTypeOK
<1> QED
  BY <1>1, <1>2, <1>4, <1>6, ClearedKeeps, InterruptedType, ClearsEntry

LEMMA StopStep ==
    ASSUME RecordsInv, Stop
    PROVE  RecordsInv'
<1>1. RecordsTypeOK
  BY DEF RecordsInv
<1>2. PICK empty : empty = [k \in Keys |-> NoSnapshot]
  OBVIOUS
<1>3. empty \in [Keys -> Snapshot] /\ \A k \in Keys : empty[k].of = Nothing
  BY <1>2 DEF NoSnapshot, Snapshot, Maybe
<1>4. entry' = [entry EXCEPT !.cache = empty] /\ read' = Interrupted(entry)
  BY <1>2 DEF Stop, NoEntry
<1>5. PICK caches : caches = [Keys -> Snapshot]
  OBVIOUS
<1>6. Entry = [identity : Maybe(Credentials), epoch : Nat, busy : Maybe(Readers), next : Nat,
               blocked : Nat, cache : caches]
  BY <1>5 DEF Entry
<1>7. /\ entry' \in Entry /\ entry'.cache = empty
      /\ entry'.identity = entry.identity /\ entry'.epoch = entry.epoch
      /\ entry'.busy = entry.busy /\ entry'.next = entry.next /\ entry'.blocked = entry.blocked
  BY <1>1, <1>3, <1>4, <1>5, <1>6 DEF RecordsTypeOK
<1>8. UNCHANGED <<credentials, runnable, invalidating, others, time, edits, lastEnd, refused>>
      /\ serving' \in BOOLEAN
  BY DEF Stop
<1>9. RecordsTypeOK'
  BY <1>1, <1>4, <1>7, <1>8, InterruptedType DEF RecordsTypeOK
<1> QED
  BY <1>1, <1>3, <1>4, <1>7, <1>8, <1>9, InterruptedType, ClearsEntry

\* One handler changes, within its type.
LEMMA OneReadType ==
    ASSUME RecordsTypeOK, NEW r \in Readers, NEW record \in Read,
           read' = [read EXCEPT ![r] = record]
    PROVE  /\ read' \in [Readers -> Read] /\ read'[r] = record
           /\ \A q \in Readers \ {r} : read'[q] = read[q]
BY DEF RecordsTypeOK

LEMMA LoadsStep ==
    ASSUME RecordsInv, NEW r \in Readers, Loads(r)
    PROVE  RecordsInv'
<1>1. RecordsTypeOK /\ read[r] \in Read
  BY DEF RecordsInv, RecordsTypeOK
<1>2. PICK record : record = [read[r] EXCEPT !.step = "loading"]
  OBVIOUS
<1>3. record \in Read /\ record.step = "loading"
  BY <1>1, <1>2 DEF Read
<1>4. /\ record.as = read[r].as /\ record.epoch = read[r].epoch
      /\ record.old = read[r].old /\ record.roles = read[r].roles /\ record.note = read[r].note
  BY <1>1, <1>2 DEF Read
<1>5. read' = [read EXCEPT ![r] = record] /\ Step(r) = "pausing"
  BY <1>2 DEF Loads
<1>6. UNCHANGED <<credentials, runnable, invalidating, entry, others, time, serving, edits,
                  lastEnd, refused>>
  BY DEF Loads
<1>7. /\ read' \in [Readers -> Read] /\ read'[r] = record
      /\ \A q \in Readers \ {r} : read'[q] = read[q]
  BY <1>1, <1>3, <1>5, OneReadType
<1>8. RecordsTypeOK'
  BY <1>1, <1>6, <1>7 DEF RecordsTypeOK
<1>9. RecordsHonest'
  BY <1>4, <1>6, <1>7 DEF RecordsInv, RecordsHonest
<1>10. OneHolds' /\ EpochsTell'
  BY <1>4, <1>5, <1>6, <1>7 DEF RecordsInv, OneHolds, EpochsTell, Step
<1>11. PausesKept'
  BY <1>3, <1>6, <1>7 DEF RecordsInv, PausesKept, Step
<1> QED
  BY <1>8, <1>9, <1>10, <1>11 DEF RecordsInv

LEMMA FreedIs ==
    ASSUME RecordsTypeOK
    PROVE  /\ Freed \in Entry /\ Freed.next = time + Interval
           /\ Freed.identity = entry.identity /\ Freed.epoch = entry.epoch
           /\ Freed.blocked = entry.blocked /\ Freed.cache = entry.cache
<1>1. entry \in Entry /\ time + Interval \in Nat
  BY RecordsAssumption DEF RecordsTypeOK, RecordsAssumption
<1>2. PICK caches : caches = [Keys -> Snapshot]
  OBVIOUS
<1>3. Entry = [identity : Maybe(Credentials), epoch : Nat, busy : Maybe(Readers), next : Nat,
               blocked : Nat, cache : caches]
  BY <1>2 DEF Entry
<1>4. PICK e : e = Freed
  OBVIOUS
<1>5. e = [entry EXCEPT !.busy = Nothing, !.next = time + Interval]
  BY <1>4 DEF Freed
<1>6. Nothing \in Maybe(Readers)
  BY DEF Maybe
<1>7. /\ e \in Entry /\ e.next = time + Interval
      /\ e.identity = entry.identity /\ e.epoch = entry.epoch
      /\ e.blocked = entry.blocked /\ e.cache = entry.cache
  BY <1>1, <1>3, <1>5, <1>6
<1> QED
  BY <1>4, <1>7

\* The handler's record after the request, whatever becomes of it.
Served(r, record) ==
    /\ record \in Read
    /\ record.step \notin {"pausing", "loading"}
    /\ {record.old, record.roles, record.note} \subseteq {Nothing, record.as}

LEMMA RestServed == ASSUME NEW r PROVE Served(r, NoRead)
BY DEF Served, NoRead, Read, Maybe, Keys

LEMMA GetsServed ==
    ASSUME RecordsInv, NEW r \in Readers, NEW of \in {Nothing, read[r].as}
    PROVE  Served(r, Gets(read[r], of))
<1>1. read[r] \in Read /\ {read[r].old, read[r].roles, read[r].note} \subseteq {Nothing, read[r].as}
  BY DEF RecordsInv, RecordsTypeOK, RecordsHonest
<1>2. /\ Gets(read[r], of) \in Read
      /\ Gets(read[r], of).step \in {"asking", "answering"}
      /\ Gets(read[r], of).as = read[r].as
      /\ {Gets(read[r], of).old, Gets(read[r], of).roles, Gets(read[r], of).note}
            \subseteq {Nothing, read[r].as}
  BY <1>1, GetsFree
<1> QED
  BY <1>2 DEF Served

\* The second half of a read, in all its outcomes.
LEMMA RequestEnded ==
    ASSUME RecordsInv, NEW r \in Readers, Step(r) \in {"pausing", "loading"},
           NEW record, Served(r, record), read' = [read EXCEPT ![r] = record],
           entry' \in Entry, entry'.identity = entry.identity, entry'.epoch = entry.epoch,
           entry'.next = time + Interval, refused' \in Nat, entry'.blocked >= refused',
           \A k \in Keys : entry'.cache[k].of \in {Nothing, entry.identity},
           lastEnd' \in {lastEnd, time},
           UNCHANGED <<credentials, runnable, invalidating, others, time, serving, edits>>
    PROVE  RecordsInv'
<1>1. RecordsTypeOK
  BY DEF RecordsInv
<1>2. /\ read' \in [Readers -> Read] /\ read'[r] = record
      /\ \A q \in Readers \ {r} : read'[q] = read[q]
  BY <1>1, OneReadType DEF Served
<1>3. RecordsTypeOK'
  BY <1>1, <1>2 DEF RecordsTypeOK
<1>4. Free(r)
  BY <1>2 DEF Free, Served
<1> QED
  BY <1>2, <1>3, <1>4, EndsRequest

LEMMA LeavesStep ==
    ASSUME RecordsInv, NEW r \in Readers, Leaves(r)
    PROVE  RecordsInv'
<1>1. RecordsTypeOK /\ refused \in Nat
  BY DEF RecordsInv, RecordsTypeOK
<1>2. /\ entry' = Freed /\ read' = [read EXCEPT ![r] = NoRead] /\ lastEnd' \in {lastEnd, time}
      /\ UNCHANGED <<credentials, runnable, invalidating, others, time, serving, edits, refused>>
      /\ Step(r) \in {"pausing", "loading"}
  BY DEF Leaves
<1>3. entry.blocked >= refused /\ \A k \in Keys : entry.cache[k].of \in {Nothing, entry.identity}
  BY DEF RecordsInv, PausesKept, RecordsHonest
<1> QED
  BY <1>1, <1>2, <1>3, FreedIs, RestServed, RequestEnded

LEMMA StoresStep ==
    ASSUME RecordsInv, NEW r \in Readers, Stores(r)
    PROVE  RecordsInv'
<1>1. /\ RecordsTypeOK /\ refused \in Nat /\ time \in Nat /\ entry.epoch \in Nat
      /\ read[r] \in Read
  BY DEF RecordsInv, RecordsTypeOK, Entry
<1>2. /\ Step(r) \in {"pausing", "loading"} /\ lastEnd' = time
      /\ UNCHANGED <<credentials, runnable, invalidating, others, time, serving, edits, refused>>
  BY DEF Stores
<1>3. entry.blocked >= refused /\ \A k \in Keys : entry.cache[k].of \in {Nothing, entry.identity}
  BY DEF RecordsInv, PausesKept, RecordsHonest
<1>4. CASE StillWanted(r) /\ read[r].live
  <2>1. PICK e : e = Freed
    OBVIOUS
  <2>2. /\ e \in Entry /\ e.next = time + Interval /\ e.identity = entry.identity
        /\ e.epoch = entry.epoch /\ e.blocked = entry.blocked /\ e.cache = entry.cache
    BY <1>1, <2>1, FreedIs
  <2>3. PICK snapshot : snapshot = [of |-> read[r].as, at |-> time]
    OBVIOUS
  <2>4. snapshot \in Snapshot /\ snapshot.of = entry.identity /\ read[r].key \in Keys
    BY <1>1, <1>2, <1>4, <2>3 DEF Snapshot, Read, StillWanted, RecordsInv, EpochsTell
  <2>5. PICK kept : kept = [e.cache EXCEPT ![read[r].key] = snapshot]
    OBVIOUS
  <2>6. e.cache \in [Keys -> Snapshot]
    BY <2>2 DEF Entry
  <2>7. kept \in [Keys -> Snapshot] /\ \A k \in Keys : kept[k] \in {e.cache[k], snapshot}
    BY <2>4, <2>5, <2>6
  <2>8. entry' = [e EXCEPT !.cache = kept]
    BY <1>4, <2>1, <2>3, <2>5 DEF Stores
  <2>9. PICK caches : caches = [Keys -> Snapshot]
    OBVIOUS
  <2>10. Entry = [identity : Maybe(Credentials), epoch : Nat, busy : Maybe(Readers), next : Nat,
                  blocked : Nat, cache : caches]
    BY <2>9 DEF Entry
  <2>11. /\ entry' \in Entry /\ entry'.cache = kept /\ entry'.next = time + Interval
         /\ entry'.identity = entry.identity /\ entry'.epoch = entry.epoch
         /\ entry'.blocked = entry.blocked
    BY <2>2, <2>7, <2>8, <2>9, <2>10
  <2>12. \A k \in Keys : entry'.cache[k].of \in {Nothing, entry.identity}
    BY <1>3, <2>2, <2>4, <2>7, <2>11
  <2>13. read' = [read EXCEPT ![r] = Gets(read[r], read[r].as)]
    BY <1>4 DEF Stores
  <2>14. Served(r, Gets(read[r], read[r].as))
    BY GetsServed
  <2> QED
    BY <1>1, <1>2, <1>3, <2>11, <2>12, <2>13, <2>14, RequestEnded
<1>5. CASE ~(StillWanted(r) /\ read[r].live)
  <2>1. entry' = Freed /\ read' = [read EXCEPT ![r] = NoRead]
    BY <1>5 DEF Stores
  <2> QED
    BY <1>1, <1>2, <1>3, <2>1, FreedIs, RestServed, RequestEnded
<1> QED
  BY <1>4, <1>5

LEMMA LoadFailsStep ==
    ASSUME RecordsInv, NEW r \in Readers, LoadFails(r)
    PROVE  RecordsInv'
<1>1. RecordsTypeOK /\ refused \in Nat /\ time + Block \in Nat /\ read[r].old \in {Nothing, read[r].as}
  BY RecordsAssumption DEF RecordsInv, RecordsTypeOK, RecordsHonest, RecordsAssumption
<1>2. /\ Step(r) \in {"pausing", "loading"} /\ lastEnd' = time
      /\ UNCHANGED <<credentials, runnable, invalidating, others, time, serving, edits>>
  BY DEF LoadFails
<1>3. entry.blocked >= refused /\ \A k \in Keys : entry.cache[k].of \in {Nothing, entry.identity}
  BY DEF RecordsInv, PausesKept, RecordsHonest
<1>4. CASE StillWanted(r)
  <2>1. PICK e : e = Freed
    OBVIOUS
  <2>2. /\ e \in Entry /\ e.next = time + Interval /\ e.identity = entry.identity
        /\ e.epoch = entry.epoch /\ e.cache = entry.cache
    BY <1>1, <2>1, FreedIs
  <2>3. /\ entry' = [e EXCEPT !.blocked = time + Block] /\ refused' = time + Block
        /\ read' = [read EXCEPT ![r] = Gets(read[r], read[r].old)]
    BY <1>4, <2>1 DEF LoadFails
  <2>4. PICK caches : caches = [Keys -> Snapshot]
    OBVIOUS
  <2>5. Entry = [identity : Maybe(Credentials), epoch : Nat, busy : Maybe(Readers), next : Nat,
                 blocked : Nat, cache : caches]
    BY <2>4 DEF Entry
  <2>6. /\ entry' \in Entry /\ entry'.cache = entry.cache /\ entry'.next = time + Interval
        /\ entry'.identity = entry.identity /\ entry'.epoch = entry.epoch
        /\ entry'.blocked = time + Block
    BY <1>1, <2>2, <2>3, <2>5
  <2>7. entry'.blocked >= refused' /\ refused' \in Nat
    BY <1>1, <2>3, <2>6
  <2>8. Served(r, Gets(read[r], read[r].old))
    BY <1>1, GetsServed
  <2> QED
    BY <1>2, <1>3, <2>3, <2>6, <2>7, <2>8, RequestEnded
<1>5. CASE ~StillWanted(r)
  <2>1. entry' = Freed /\ read' = [read EXCEPT ![r] = NoRead] /\ UNCHANGED refused
    BY <1>5 DEF LoadFails
  <2> QED
    BY <1>1, <1>2, <1>3, <2>1, FreedIs, RestServed, RequestEnded
<1> QED
  BY <1>4, <1>5

\* The entry a handler finds is that of its own credentials: the one there is, or
\* that one cleared, with another epoch.
EntryFor(r) ==
    IF entry.identity = read[r].as THEN entry
    ELSE [Cleared(entry) EXCEPT !.identity = read[r].as]

ReadsWith(r) == IF entry.identity = read[r].as THEN read ELSE Interrupted(entry)

LEMMA EntryFound ==
    ASSUME RecordsInv, NEW r \in Readers
    PROVE  /\ EntryFor(r) \in Entry
           /\ EntryFor(r).identity = read[r].as
           /\ EntryFor(r).busy = entry.busy
           /\ EntryFor(r).next = entry.next /\ EntryFor(r).blocked = entry.blocked
           /\ EntryFor(r).epoch >= entry.epoch
           /\ EntryFor(r).epoch = entry.epoch => EntryFor(r).identity = entry.identity
           /\ \A k \in Keys : EntryFor(r).cache[k].of \in {Nothing, read[r].as}
<1>1. RecordsTypeOK /\ entry \in Entry /\ entry.epoch \in Nat /\ read[r].as \in Maybe(Credentials)
  BY DEF RecordsInv, RecordsTypeOK, Entry, Read
<1>2. CASE entry.identity = read[r].as
  BY <1>1, <1>2 DEF EntryFor, RecordsInv, RecordsHonest
<1>3. CASE entry.identity # read[r].as
  <2>1. PICK c : c = Cleared(entry)
    OBVIOUS
  <2>2. /\ c \in Entry /\ c.epoch = entry.epoch + 1 /\ c.identity = entry.identity
        /\ c.busy = entry.busy /\ c.next = entry.next /\ c.blocked = entry.blocked
        /\ \A k \in Keys : c.cache[k].of = Nothing
    BY <1>1, <2>1, ClearedKeeps
  <2>3. PICK e : e = EntryFor(r)
    OBVIOUS
  <2>4. e = [c EXCEPT !.identity = read[r].as]
    BY <1>3, <2>1, <2>3 DEF EntryFor
  <2>5. PICK caches : caches = [Keys -> Snapshot]
    OBVIOUS
  <2>6. Entry = [identity : Maybe(Credentials), epoch : Nat, busy : Maybe(Readers), next : Nat,
                 blocked : Nat, cache : caches]
    BY <2>5 DEF Entry
  <2>7. /\ e \in Entry /\ e.identity = read[r].as /\ e.epoch = c.epoch /\ e.cache = c.cache
        /\ e.busy = c.busy /\ e.next = c.next /\ e.blocked = c.blocked
    BY <1>1, <2>2, <2>4, <2>6
  <2> QED
    BY <1>1, <2>2, <2>3, <2>7
<1> QED
  BY <1>2, <1>3

LEMMA ReadsFound ==
    ASSUME RecordsInv, NEW r \in Readers
    PROVE  /\ ReadsWith(r) \in [Readers -> Read]
           /\ \A q \in Readers :
                /\ ReadsWith(r)[q].step = read[q].step
                /\ ReadsWith(r)[q].as = read[q].as
                /\ ReadsWith(r)[q].epoch = read[q].epoch
                /\ ReadsWith(r)[q].old = read[q].old
                /\ ReadsWith(r)[q].roles = read[q].roles
                /\ ReadsWith(r)[q].note = read[q].note
<1>1. RecordsTypeOK
  BY DEF RecordsInv
<1>2. Interrupted(entry) \in [Readers -> Read]
  <2>1. Interrupted(entry) = [q \in Readers |-> Interrupted(entry)[q]]
    BY DEF Interrupted
  <2> QED
    BY <1>1, <2>1, InterruptedKeeps
<1> QED
  BY <1>1, <1>2, InterruptedKeeps DEF ReadsWith, RecordsTypeOK

LEMMA EntersStep ==
    ASSUME RecordsInv, NEW r \in Readers, Enters(r)
    PROVE  RecordsInv'
<1>1. RecordsTypeOK /\ read[r] \in Read
  BY DEF RecordsInv, RecordsTypeOK
<1>2. /\ UNCHANGED <<credentials, runnable, invalidating, others, time, serving, edits,
                     lastEnd, refused>>
      /\ Step(r) = "asking"
  BY DEF Enters
<1>3. PICK e, with : e = EntryFor(r) /\ with = ReadsWith(r)
  OBVIOUS
<1>4. /\ e \in Entry /\ e.identity = read[r].as /\ e.busy = entry.busy
      /\ e.next = entry.next /\ e.blocked = entry.blocked
      /\ e.epoch >= entry.epoch /\ (e.epoch = entry.epoch => e.identity = entry.identity)
      /\ \A k \in Keys : e.cache[k].of \in {Nothing, read[r].as}
  BY <1>3, EntryFound
<1>5. /\ with \in [Readers -> Read]
      /\ \A q \in Readers : /\ with[q].step = read[q].step /\ with[q].as = read[q].as
                            /\ with[q].epoch = read[q].epoch /\ with[q].old = read[q].old
                            /\ with[q].roles = read[q].roles /\ with[q].note = read[q].note
  BY <1>3, ReadsFound
<1>6. PICK of : of = e.cache[read[r].key].of
  OBVIOUS
<1>7. of \in {Nothing, read[r].as}
  BY <1>1, <1>4, <1>6 DEF Read
<1>8. \/ read' = [read EXCEPT ![r] = NoRead] /\ entry' = entry
      \/ read' = [with EXCEPT ![r] = Gets(read[r], of)] /\ entry' = e
      \/ /\ entry' = [e EXCEPT !.busy = r] /\ e.busy = Nothing /\ ~(e.blocked > time)
         /\ read' = [with EXCEPT ![r] = [read[r] EXCEPT !.step = "pausing", !.live = TRUE,
                                                        !.epoch = e.epoch, !.old = of]]
  BY <1>3, <1>6 DEF Enters, EntryFor, ReadsWith
<1>9. CASE read' = [read EXCEPT ![r] = NoRead] /\ entry' = entry
  <2>1. Served(r, NoRead)
    BY RestServed
  <2>2. /\ read' \in [Readers -> Read] /\ read'[r] = NoRead
        /\ \A q \in Readers \ {r} : read'[q] = read[q]
    BY <1>1, <1>9, <2>1, OneReadType DEF Served
  <2>3. \A q \in Readers : Kept(q) \/ Free(q)
    BY <2>1, <2>2 DEF Kept, Free, Served
  <2>4. RecordsTypeOK'
    BY <1>1, <1>2, <1>9, <2>2 DEF RecordsTypeOK
  <2>5. time' >= time
    BY <1>1, <1>2 DEF RecordsTypeOK
  <2> QED
    BY <1>2, <1>9, <2>3, <2>4, <2>5, FreesOne
<1>10. ASSUME NEW record \in Read, read' = [with EXCEPT ![r] = record], record.as = read[r].as,
              entry' \in Entry, entry'.identity = e.identity, entry'.epoch = e.epoch,
              entry'.next = e.next, entry'.blocked = e.blocked, entry'.cache = e.cache,
              {record.old, record.roles, record.note} \subseteq {Nothing, record.as},
              \/ Served(r, record) /\ entry'.busy = e.busy
              \/ /\ record.step = "pausing" /\ record.epoch = e.epoch
                 /\ e.busy = Nothing /\ entry'.busy = r /\ ~(e.blocked > time)
       PROVE  RecordsInv'
  <2>1. /\ read' \in [Readers -> Read] /\ read'[r] = record
        /\ \A q \in Readers \ {r} : read'[q] = with[q]
    BY <1>5, <1>10
  <2>2. RecordsTypeOK'
    BY <1>1, <1>2, <1>10, <2>1 DEF RecordsTypeOK
  <2>3. RecordsHonest'
    <3>1. \A k \in Keys : entry'.cache[k].of \in {Nothing, entry'.identity}
      BY <1>4, <1>10
    <3>2. \A q \in Readers \ {r} : {read'[q].old, read'[q].roles, read'[q].note}
                                       \subseteq {Nothing, read'[q].as}
      BY <1>5, <2>1 DEF RecordsInv, RecordsHonest
    <3> QED
      BY <1>10, <2>1, <3>1, <3>2 DEF RecordsHonest
  <2>4. OneHolds'
    <3>1. e.busy = Nothing => \A q \in Readers : read[q].step \notin {"pausing", "loading"}
      BY <1>4, RecordsAssumption DEF RecordsInv, OneHolds, Step, RecordsAssumption
    <3> QED
      BY <1>4, <1>5, <1>10, <2>1, <3>1 DEF RecordsInv, OneHolds, Step, Served
  <2>5. EpochsTell'
    <3> SUFFICES ASSUME NEW q \in Readers, read'[q].step \in {"pausing", "loading"}
                 PROVE  /\ read'[q].epoch <= entry'.epoch
                        /\ read'[q].epoch = entry'.epoch => entry'.identity = read'[q].as
      BY DEF EpochsTell, Step
    <3>1. CASE q = r
      <4>1. record.epoch = e.epoch /\ e.epoch \in Nat
        BY <1>4, <1>10, <2>1, <3>1 DEF Served, Entry
      <4> QED
        BY <1>4, <1>10, <2>1, <3>1, <4>1
    <3>2. CASE q # r
      <4>1. /\ read'[q].epoch = read[q].epoch /\ read'[q].as = read[q].as
            /\ read[q].step \in {"pausing", "loading"}
        BY <1>5, <2>1, <3>2
      <4>2. read[q].epoch <= entry.epoch /\ (read[q].epoch = entry.epoch => entry.identity = read[q].as)
        BY <4>1 DEF RecordsInv, EpochsTell, Step
      <4>3. read[q].epoch \in Nat /\ entry.epoch \in Nat /\ e.epoch \in Nat
        BY <1>1, <1>4 DEF RecordsTypeOK, Read, Entry
      <4> QED
        BY <1>4, <1>10, <4>1, <4>2, <4>3
    <3> QED
      BY <3>1, <3>2
  <2>6. PausesKept'
    <3>1. lastEnd <= time /\ (lastEnd > 0 => entry.next >= lastEnd + Interval) /\ entry.blocked >= refused
      BY DEF RecordsInv, PausesKept
    <3>2. \A q \in Readers : read[q].step = "pausing" => refused <= time
      BY DEF RecordsInv, PausesKept, Step
    <3>3. time \in Nat /\ refused \in Nat /\ entry.blocked \in Nat
      BY <1>1 DEF RecordsTypeOK, Entry
    <3>4. ~(e.blocked > time) => refused <= time
      BY <1>4, <3>1, <3>3
    <3>5. \A q \in Readers : read'[q].step = "pausing" => refused <= time
      BY <1>5, <1>10, <2>1, <3>2, <3>4 DEF Served
    <3> QED
      BY <1>2, <1>4, <1>10, <3>1, <3>5 DEF PausesKept, Step
  <2> QED
    BY <2>2, <2>3, <2>4, <2>5, <2>6 DEF RecordsInv
<1>11. CASE read' = [with EXCEPT ![r] = Gets(read[r], of)] /\ entry' = e
  <2>1. PICK record : record = Gets(read[r], of)
    OBVIOUS
  <2>2. Served(r, record) /\ record.as = read[r].as
    <3>1. {read[r].old, read[r].roles, read[r].note} \subseteq {Nothing, read[r].as}
      BY DEF RecordsInv, RecordsHonest
    <3> QED
      BY <1>1, <1>7, <2>1, <3>1, GetsServed, GetsFree
  <2>3. record \in Read /\ {record.old, record.roles, record.note} \subseteq {Nothing, record.as}
    BY <2>2 DEF Served
  <2> QED
    BY <1>4, <1>10, <1>11, <2>1, <2>2, <2>3
<1>12. CASE /\ entry' = [e EXCEPT !.busy = r] /\ e.busy = Nothing /\ ~(e.blocked > time)
            /\ read' = [with EXCEPT ![r] = [read[r] EXCEPT !.step = "pausing", !.live = TRUE,
                                                           !.epoch = e.epoch, !.old = of]]
  <2>1. PICK record : record = [read[r] EXCEPT !.step = "pausing", !.live = TRUE,
                                               !.epoch = e.epoch, !.old = of]
    OBVIOUS
  <2>2. e.epoch \in Nat /\ of \in Maybe(Credentials)
    BY <1>1, <1>4, <1>7 DEF Entry, Read, Maybe
  <2>3. record \in Read
    BY <1>1, <2>1, <2>2 DEF Read
  <2>4. /\ record.as = read[r].as /\ record.step = "pausing" /\ record.epoch = e.epoch
        /\ record.old = of /\ record.roles = read[r].roles /\ record.note = read[r].note
    BY <1>1, <2>1 DEF Read
  <2>5. {record.old, record.roles, record.note} \subseteq {Nothing, record.as}
    BY <1>7, <2>4 DEF RecordsInv, RecordsHonest
  <2>6. PICK caches : caches = [Keys -> Snapshot]
    OBVIOUS
  <2>7. Entry = [identity : Maybe(Credentials), epoch : Nat, busy : Maybe(Readers), next : Nat,
                 blocked : Nat, cache : caches]
    BY <2>6 DEF Entry
  <2>8. /\ entry' \in Entry /\ entry'.identity = e.identity /\ entry'.epoch = e.epoch
        /\ entry'.next = e.next /\ entry'.blocked = e.blocked /\ entry'.cache = e.cache
        /\ entry'.busy = r
    BY <1>4, <1>12, <2>7 DEF Maybe
  <2> QED
    BY <1>10, <1>12, <2>1, <2>3, <2>4, <2>5, <2>8
<1> QED
  BY <1>8, <1>9, <1>11, <1>12

LEMMA RecordsNextInv ==
    ASSUME RecordsInv, [RecordsNext]_recordVars
    PROVE  RecordsInv'
<1>1. CASE UNCHANGED recordVars
  <2>1. RecordsTypeOK' /\ RecordsHonest'
    BY <1>1 DEF RecordsInv, recordVars, RecordsTypeOK, RecordsHonest
  <2>2. OneHolds' /\ EpochsTell' /\ PausesKept'
    BY <1>1 DEF RecordsInv, recordVars, OneHolds, EpochsTell, PausesKept, Step
  <2> QED
    BY <2>1, <2>2 DEF RecordsInv
<1>2. ASSUME NEW r \in Readers, Takes(r) \/ Answered(r) \/ Rests(r) PROVE RecordsInv'
  BY <1>2, HandlerAlone
<1>3. ASSUME NEW r \in Readers, Enters(r) PROVE RecordsInv'
  BY <1>3, EntersStep
<1>4. ASSUME NEW r \in Readers, Loads(r) PROVE RecordsInv'
  BY <1>4, LoadsStep
<1>5. ASSUME NEW r \in Readers, Stores(r) PROVE RecordsInv'
  BY <1>5, StoresStep
<1>6. ASSUME NEW r \in Readers, LoadFails(r) PROVE RecordsInv'
  BY <1>6, LoadFailsStep
<1>7. ASSUME NEW r \in Readers, Leaves(r) PROVE RecordsInv'
  BY <1>7, LeavesStep
<1>8. CASE Edit \/ OtherAccounts \/ RecordTick
  BY <1>8, WorldMoves
<1>9. CASE Invalidate
  BY <1>9, InvalidateStep
<1>10. CASE Stop
  BY <1>10, StopStep
<1> QED
  BY <1>1, <1>2, <1>3, <1>4, <1>5, <1>6, <1>7, <1>8, <1>9, <1>10 DEF RecordsNext

\* In every state RecordsInv holds: what ties handlers, the entry and time together
\* (OneHolds, EpochsTell, PausesKept) is what keeps the records honest.
THEOREM RecordsInductive == RecordsSpec => []RecordsInv
<1>1. RecordsInit => RecordsInv
  BY RecordsInit0
<1>2. RecordsInv /\ [RecordsNext]_recordVars => RecordsInv'
  BY RecordsNextInv
<1> QED
  BY <1>1, <1>2, PTL DEF RecordsSpec

\* Records are shown to those they belong to: the cache holds what was fetched with
\* the credentials it is kept for, and a handler only what was fetched with its own.
THEOREM RecordsStayHonest == RecordsSpec => []RecordsHonest
<1>1. RecordsInv => RecordsHonest
  BY DEF RecordsInv
<1> QED
  BY <1>1, RecordsInductive, PTL

-------------------------------------------------------------------------------
(* Action properties of GameRecords.                                          *)

\* Only its own step takes a handler to the provider, or to the end; what others
\* do interrupts it at most.
LEMMA OwnStep ==
    ASSUME RecordsInv, [RecordsNext]_recordVars, NEW r \in Readers
    PROVE  /\ Step(r) # "answered" /\ read'[r].step = "answered" => Answered(r)
           /\ Step(r) # "loading" /\ read'[r].step = "loading" => Loads(r)
<1> DEFINE Same == read'[r].step = Step(r)
           Past == read'[r].step \notin {"answered", "loading"}
<1>1. RecordsTypeOK /\ read \in [Readers -> Read]
  BY DEF RecordsInv, RecordsTypeOK
<1>2. CASE UNCHANGED recordVars
  BY <1>2 DEF recordVars, Step
<1>3. CASE Edit \/ OtherAccounts \/ RecordTick
  <2>1. UNCHANGED read
    BY <1>3 DEF Edit, OtherAccounts, RecordTick
  <2> QED
    BY <2>1 DEF Step
<1>4. CASE Invalidate \/ Stop
  <2>1. read' = Interrupted(entry)
    BY <1>4 DEF Invalidate, Stop
  <2> QED
    BY <1>1, <2>1, InterruptedKeeps DEF Step
<1>5. ASSUME NEW q \in Readers, q # r, \/ Takes(q) \/ Loads(q) \/ Stores(q) \/ LoadFails(q)
                                       \/ Leaves(q) \/ Answered(q) \/ Rests(q)
      PROVE  Same
  <2>1. read'[r] = read[r]
    BY <1>1, <1>5 DEF Takes, Loads, Stores, LoadFails, Leaves, Answered, Rests
  <2> QED
    BY <2>1 DEF Step
<1>6. ASSUME NEW q \in Readers, Enters(q) PROVE IF q = r THEN Past ELSE Same
  <2>1. PICK with : with = ReadsWith(q)
    OBVIOUS
  <2>2. with \in [Readers -> Read] /\ with[r].step = read[r].step
    BY <1>1, <2>1, ReadsFound
  <2>3. CASE q # r
    <3>1. read'[r] \in {read[r], with[r]}
      BY <1>1, <1>6, <2>1, <2>2, <2>3 DEF Enters, ReadsWith
    <3> QED
      BY <2>2, <2>3, <3>1 DEF Step
  <2>4. CASE q = r
    <3>1. PICK of : of = EntryFor(r).cache[read[r].key].of
      OBVIOUS
    <3>2. read[r] \in Read /\ {read[r].old, read[r].roles, read[r].note} \subseteq {Nothing, read[r].as}
      BY <1>1 DEF RecordsInv, RecordsHonest
    <3>3. of \in {Nothing, read[r].as}
      BY <1>1, <3>1, <3>2, EntryFound DEF Read
    <3>4. Gets(read[r], of).step \in {"asking", "answering"}
      BY <3>2, <3>3, GetsFree
    <3>5. \/ read' = [read EXCEPT ![r] = NoRead]
          \/ read' = [with EXCEPT ![r] = Gets(read[r], of)]
          \/ read' = [with EXCEPT ![r] = [read[r] EXCEPT !.step = "pausing", !.live = TRUE,
                                            !.epoch = EntryFor(r).epoch, !.old = of]]
      BY <1>6, <2>1, <2>4, <3>1 DEF Enters, EntryFor, ReadsWith
    <3>6. CASE read' = [read EXCEPT ![r] = NoRead]
      BY <1>1, <2>4, <3>6 DEF NoRead
    <3>7. CASE read' = [with EXCEPT ![r] = Gets(read[r], of)]
      BY <2>2, <2>4, <3>4, <3>7
    <3>8. CASE read' = [with EXCEPT ![r] = [read[r] EXCEPT !.step = "pausing", !.live = TRUE,
                                              !.epoch = EntryFor(r).epoch, !.old = of]]
      BY <2>2, <2>4, <3>2, <3>8 DEF Read
    <3> QED
      BY <3>5, <3>6, <3>7, <3>8
  <2> QED
    BY <2>3, <2>4
<1>7. CASE Takes(r) \/ Leaves(r) \/ Rests(r)
  <2>1. PICK record : record = IF Takes(r) THEN [NoRead EXCEPT !.step = "asking", !.as = credentials]
                               ELSE NoRead
    OBVIOUS
  <2>2. record.step \in {"asking", "idle"}
    BY <2>1 DEF NoRead
  <2>3. read' = [read EXCEPT ![r] = record]
    BY <1>7, <2>1 DEF Takes, Leaves, Rests
  <2>4. read'[r].step \in {"asking", "idle"}
    BY <1>1, <2>2, <2>3
  <2> QED
    BY <2>4
<1>8. CASE Stores(r) \/ LoadFails(r)
  <2>1. PICK of : of = IF Stores(r) THEN read[r].as ELSE read[r].old
    OBVIOUS
  <2>2. read[r] \in Read /\ of \in {Nothing, read[r].as}
        /\ {read[r].old, read[r].roles, read[r].note} \subseteq {Nothing, read[r].as}
    BY <1>1, <2>1 DEF RecordsInv, RecordsHonest
  <2>3. Gets(read[r], of).step \in {"asking", "answering"}
    BY <2>2, GetsFree
  <2>4. read' = [read EXCEPT ![r] = NoRead] \/ read' = [read EXCEPT ![r] = Gets(read[r], of)]
    BY <1>8, <2>1 DEF Stores, LoadFails
  <2>5. read'[r].step \in {"idle", "asking", "answering"}
    BY <1>1, <2>3, <2>4 DEF NoRead
  <2> QED
    BY <2>5
<1>9. CASE Loads(r)
  <2>1. read'[r].step = "loading"
    BY <1>1, <1>9 DEF Loads, Read
  <2> QED
    BY <1>9, <2>1
<1>10. CASE Answered(r)
  <2>1. read'[r].step \in {"answered", "idle"}
    BY <1>1, <1>10 DEF Answered, Read
  <2> QED
    BY <1>10, <2>1
<1> QED
  BY <1>2, <1>3, <1>4, <1>5, <1>6, <1>7, <1>8, <1>9, <1>10 DEF RecordsNext

\* A handler answers with what belongs to the login of that moment, of an account
\* that may be used: it looked again after the loads.
THEOREM AnswersStayCurrent == RecordsSpec => AnswersCurrent
<1>1. ASSUME RecordsInv, [RecordsNext]_recordVars, NEW r \in Readers,
             Step(r) = "answering", read'[r].step = "answered"
      PROVE  runnable /\ {read[r].roles, read[r].note} \subseteq {Nothing, credentials}
  <2>1. Answered(r)
    BY <1>1, OwnStep
  <2>2. read \in [Readers -> Read]
    BY <1>1 DEF RecordsInv, RecordsTypeOK
  <2>3. AnswersSame(r)
    BY <1>1, <2>1, <2>2 DEF Answered, Read
  <2> QED
    BY <1>1, <2>3 DEF AnswersSame, RecordsInv, RecordsHonest
<1>2. RecordsInv /\ [RecordsNext]_recordVars =>
        [\A r \in Readers : Step(r) = "answering" /\ read'[r].step = "answered" =>
            runnable /\ {read[r].roles, read[r].note} \subseteq {Nothing, credentials}]_recordVars
  BY <1>1
<1> QED
  BY <1>2, RecordsInductive, PTL DEF RecordsSpec, AnswersCurrent

\* One request of the account at a time, with a pause after the one before, and
\* none while a refusal blocks it - also when it got other credentials.
THEOREM RequestsOneAfterAnother == RecordsSpec => OneAfterAnother
<1>1. ASSUME RecordsInv, [RecordsNext]_recordVars, NEW r \in Readers,
             Step(r) = "pausing", read'[r].step = "loading"
      PROVE  /\ \A other \in Readers : Step(other) # "loading"
             /\ lastEnd > 0 => time >= lastEnd + Interval
             /\ time >= refused
  <2>1. Loads(r)
    BY <1>1, OwnStep
  <2>2. \A other \in Readers : Step(other) # "loading"
    BY <1>1 DEF RecordsInv, OneHolds
  <2>3. /\ time \in Nat /\ lastEnd \in Nat /\ refused \in Nat /\ Interval \in Nat
        /\ entry.next \in Nat
    BY <1>1, RecordsAssumption DEF RecordsInv, RecordsTypeOK, Entry, RecordsAssumption
  <2>4. time >= entry.next /\ (lastEnd > 0 => entry.next >= lastEnd + Interval)
    BY <1>1, <2>1 DEF Loads, RecordsInv, PausesKept
  <2>5. refused <= time
    BY <1>1 DEF RecordsInv, PausesKept
  <2> QED
    BY <2>2, <2>3, <2>4, <2>5
<1>2. RecordsInv /\ [RecordsNext]_recordVars =>
        [\A r \in Readers : Step(r) = "pausing" /\ read'[r].step = "loading" =>
            /\ \A other \in Readers : Step(other) # "loading"
            /\ lastEnd > 0 => time >= lastEnd + Interval
            /\ time >= refused]_recordVars
  BY <1>1
<1> QED
  BY <1>2, RecordsInductive, PTL DEF RecordsSpec, OneAfterAnother

-------------------------------------------------------------------------------
(* SaleClock: what the shop told is not ahead of its clock.                   *)

\* The stamp under way is of the past, and was asked for before.
StampsPast ==
    /\ inflight.before <= now
    /\ inflight.stamp # -1 => inflight.stamp <= ShopNow

\* A clock that has been set is early by the uncertainty, but for the two times
\* less than a millisecond is cut off.
SetEarly ==
    status.synced => (status.offset - status.uncertainty) * Ms < skew + 2 * Ms

ClockInv == ClockTypeOK /\ StampsPast /\ SetEarly

-------------------------------------------------------------------------------
(* Cutting to milliseconds.                                                   *)

LEMMA Cut ==
    ASSUME NEW d \in Nat, NEW m \in Nat, m > 0
    PROVE  d \div m \in Nat /\ (d \div m) * m <= d /\ d < (d \div m) * m + m
OBVIOUS

LEMMA CutDown ==
    ASSUME NEW d \in Int
    PROVE  /\ Milliseconds(d) \in Int
           /\ Milliseconds(d) * Ms < d + Ms
           /\ d >= 0 => Milliseconds(d) \in Nat /\ d < Milliseconds(d) * Ms + Ms
<1>1. Ms \in Nat /\ Ms > 0
  BY SaleClockAssumption DEF SaleClockAssumption
<1>2. CASE d >= 0
  <2>1. d \in Nat
    BY <1>2
  <2>2. PICK q : q = d \div Ms
    OBVIOUS
  <2>3. q \in Nat /\ q * Ms <= d /\ d < q * Ms + Ms
    BY <1>1, <2>1, <2>2, Cut
  <2>4. Milliseconds(d) = q
    BY <1>2, <2>2 DEF Milliseconds
  <2>5. PICK p : p = q * Ms
    OBVIOUS
  <2>6. p \in Int
    BY <1>1, <2>3, <2>5
  <2> QED
    BY <1>1, <2>1, <2>3, <2>4, <2>5, <2>6
<1>3. CASE d < 0
  <2>1. -d \in Nat
    BY <1>3
  <2>2. PICK q : q = (-d) \div Ms
    OBVIOUS
  <2>3. q \in Nat /\ q * Ms <= -d /\ -d < q * Ms + Ms
    BY <1>1, <2>1, <2>2, Cut
  <2>4. Milliseconds(d) = -q
    BY <1>3, <2>2 DEF Milliseconds
  <2>5. (-q) * Ms = -(q * Ms) /\ q * Ms \in Int
    BY <1>1, <2>3
  <2>6. -(q * Ms) < d + Ms
    BY <1>1, <2>3, <2>5
  <2> QED
    BY <1>1, <1>3, <2>3, <2>4, <2>5, <2>6
<1> QED
  BY <1>2, <1>3

\* What a sample makes of the shop's second is early by its uncertainty.
LEMMA SampleEarly ==
    ASSUME NEW sent \in Nat, NEW rtt \in Nat, NEW stamp \in Int, NEW ahead \in Int,
           stamp <= sent + rtt + ahead,
           NEW offset, offset = Milliseconds(stamp + Second \div 2 - (sent + rtt \div 2)),
           NEW uncertainty, uncertainty = Milliseconds(Second \div 2) + Milliseconds(rtt) \div 2
    PROVE  /\ offset \in Int /\ uncertainty \in Nat
           /\ (offset - uncertainty) * Ms < ahead + 2 * Ms
<1>1. Ms \in Nat /\ Ms > 0 /\ Second \in Nat /\ (Second \div 2) % Ms = 0
  BY SaleClockAssumption DEF SaleClockAssumption
<1>2. PICK half : half = Second \div 2
  OBVIOUS
<1>3. half \in Nat /\ half % Ms = 0
  BY <1>1, <1>2
<1>4. PICK h : h = Milliseconds(half)
  OBVIOUS
<1>5. h \in Nat /\ h * Ms = half
  <2>1. h = half \div Ms
    BY <1>3, <1>4 DEF Milliseconds
  <2> QED
    BY <1>1, <1>3, <2>1
<1>6. PICK q : q = Milliseconds(rtt)
  OBVIOUS
<1>7. q \in Nat /\ rtt < q * Ms + Ms
  BY <1>6, CutDown
<1>8. PICK t : t = q \div 2
  OBVIOUS
<1>9. t \in Nat /\ 2 * t >= q - 1
  BY <1>7, <1>8
<1>10. 2 * (t * Ms) >= q * Ms - Ms /\ t * Ms \in Nat /\ q * Ms \in Nat
  <2>1. (2 * t) * Ms >= (q - 1) * Ms
    BY <1>1, <1>7, <1>9
  <2>2. (2 * t) * Ms = 2 * (t * Ms) /\ (q - 1) * Ms = q * Ms - Ms
    BY <1>1, <1>7, <1>9
  <2>3. t * Ms \in Nat /\ q * Ms \in Nat
    BY <1>1, <1>7, <1>9
  <2> QED
    BY <2>1, <2>2, <2>3
<1>11. PICK d : d = stamp + half - (sent + rtt \div 2)
  OBVIOUS
<1>12. d \in Int
  BY <1>3, <1>11
<1>13. offset \in Int /\ offset * Ms < d + Ms
  BY <1>2, <1>11, <1>12, CutDown
<1>14. uncertainty = h + t /\ uncertainty \in Nat
  BY <1>2, <1>4, <1>5, <1>6, <1>8, <1>9
<1>15. (offset - uncertainty) * Ms = offset * Ms - half - t * Ms /\ offset * Ms \in Int
  <2>1. (offset - (h + t)) * Ms = offset * Ms - h * Ms - t * Ms /\ offset * Ms \in Int
    BY <1>1, <1>5, <1>9, <1>13
  <2> QED
    BY <1>5, <1>14, <2>1
<1>16. PICK o, u, k : o = offset * Ms /\ u = t * Ms /\ k = q * Ms
  OBVIOUS
<1>17. o \in Int /\ u \in Nat /\ k \in Nat
  BY <1>10, <1>15, <1>16
<1>18. o - half - u < ahead + 2 * Ms
  BY <1>1, <1>3, <1>7, <1>10, <1>11, <1>13, <1>16, <1>17
<1> QED
  BY <1>13, <1>14, <1>15, <1>16, <1>18

-------------------------------------------------------------------------------
LEMMA ClockInit0 == ClockInit => ClockInv
<1> SUFFICES ASSUME ClockInit PROVE ClockInv
  OBVIOUS
<1>1. ClockTypeOK
  <2>1. Cooldown \in Nat /\ skew \in Int
    BY SaleClockAssumption DEF ClockInit, SaleClockAssumption
  <2> QED
    BY <2>1 DEF ClockInit, ClockTypeOK, NoStatus, NoSample, Steps
<1>2. StampsPast /\ SetEarly
  BY DEF ClockInit, StampsPast, SetEarly, NoStatus, NoSample
<1> QED
  BY <1>1, <1>2 DEF ClockInv

\* A step of plans alone, or one by which time goes on.
LEMMA PlansMove ==
    ASSUME ClockInv, plan' \in [Plans -> Steps], UNCHANGED <<skew, status, inflight>>,
           attempted' \in Int, now' \in Nat, now' >= now
    PROVE  ClockInv'
<1>1. ClockTypeOK'
  BY DEF ClockInv, ClockTypeOK
<1>2. StampsPast'
  <2>1. now \in Nat /\ skew \in Int /\ inflight.before \in Nat /\ inflight.stamp \in Int
    BY DEF ClockInv, ClockTypeOK
  <2> QED
    BY <2>1 DEF ClockInv, StampsPast, ShopNow
<1>3. SetEarly'
  BY DEF ClockInv, SetEarly
<1> QED
  BY <1>1, <1>2, <1>3 DEF ClockInv

LEMMA SyncsStep ==
    ASSUME ClockInv, NEW p \in Plans, Syncs(p)
    PROVE  ClockInv'
<1>1. ClockTypeOK
  BY DEF ClockInv
<1>2. plan' \in [Plans -> Steps]
  BY <1>1 DEF Syncs, Moves, After, Steps, ClockTypeOK
<1>3. CASE UNCHANGED <<attempted, inflight>>
  BY <1>1, <1>2, <1>3, PlansMove DEF Syncs, ClockTypeOK
<1>4. CASE attempted' = now /\ inflight' = [by |-> p, before |-> now, stamp |-> -1]
  <2>1. UNCHANGED <<now, skew, status>>
    BY DEF Syncs
  <2>2. ClockTypeOK'
    BY <1>1, <1>2, <1>4, <2>1 DEF ClockTypeOK
  <2>3. StampsPast' /\ SetEarly'
    BY <1>1, <1>4, <2>1 DEF ClockInv, ClockTypeOK, StampsPast, SetEarly
  <2> QED
    BY <2>2, <2>3 DEF ClockInv
<1> QED
  BY <1>3, <1>4 DEF Syncs

LEMMA ShopStampsStep ==
    ASSUME ClockInv, ShopStamps
    PROVE  ClockInv'
<1>1. ClockTypeOK /\ UNCHANGED <<now, skew, status, attempted, plan>>
  BY DEF ClockInv, ShopStamps
<1>2. now \in Nat /\ skew \in Int /\ ShopNow \in Nat
  BY <1>1 DEF ClockTypeOK, ShopNow, ShopStamps
<1>3. PICK stamp : stamp = (ShopNow \div Second) * Second
  OBVIOUS
<1>4. stamp \in Int /\ stamp <= ShopNow
  <2>1. Second \in Nat /\ Second > 0
    BY SaleClockAssumption DEF SaleClockAssumption
  <2>2. (ShopNow \div Second) \in Nat /\ (ShopNow \div Second) * Second <= ShopNow
    BY <1>2, <2>1, Cut
  <2>3. PICK q : q = ShopNow \div Second
    OBVIOUS
  <2> QED
    BY <1>3, <2>1, <2>2, <2>3
<1>5. inflight' = [inflight EXCEPT !.stamp = stamp]
  BY <1>3 DEF ShopStamps
<1>6. /\ inflight' \in [by : Plans \union {NoPlan}, before : Nat, stamp : Int]
      /\ inflight'.before = inflight.before /\ inflight'.stamp = stamp
  BY <1>1, <1>4, <1>5 DEF ClockTypeOK
<1>7. ClockTypeOK'
  BY <1>1, <1>6 DEF ClockTypeOK
<1>8. ShopNow' = ShopNow
  BY <1>1 DEF ShopNow
<1>9. StampsPast' /\ SetEarly'
  BY <1>1, <1>4, <1>6, <1>8 DEF ClockInv, StampsPast, SetEarly
<1> QED
  BY <1>7, <1>9 DEF ClockInv

\* The end of a request, with a status that is early or none.
LEMMA SampleEnds ==
    ASSUME ClockInv, inflight' = NoSample, Returns, UNCHANGED <<now, skew, attempted>>,
           status' \in [offset : Int, uncertainty : Nat, synced : BOOLEAN, at : Nat], SetEarly'
    PROVE  ClockInv'
<1>1. ClockTypeOK
  BY DEF ClockInv
<1>2. plan' \in [Plans -> Steps]
  BY <1>1 DEF Returns, After, Steps, ClockTypeOK
<1>3. NoSample \in [by : Plans \union {NoPlan}, before : Nat, stamp : Int]
  BY DEF NoSample
<1>4. ClockTypeOK'
  BY <1>1, <1>2, <1>3 DEF ClockTypeOK
<1>5. StampsPast'
  BY <1>1 DEF StampsPast, NoSample, ClockTypeOK
<1> QED
  BY <1>4, <1>5 DEF ClockInv

LEMMA SyncSucceedsStep ==
    ASSUME ClockInv, SyncSucceeds
    PROVE  ClockInv'
<1>1. PICK rtt : rtt = now - inflight.before
  OBVIOUS
<1>2. /\ now \in Nat /\ skew \in Int /\ inflight.before \in Nat /\ inflight.stamp \in Int
      /\ rtt \in Nat /\ inflight.before + rtt = now
      /\ inflight.stamp <= inflight.before + rtt + skew
  <2>1. now \in Nat /\ skew \in Int /\ inflight.before \in Nat /\ inflight.stamp \in Int
    BY DEF ClockInv, ClockTypeOK
  <2>2. inflight.before <= now /\ inflight.stamp <= now + skew
    BY DEF ClockInv, StampsPast, SyncSucceeds, ShopNow
  <2> QED
    BY <1>1, <2>1, <2>2
<1>3. PICK offset, uncertainty :
         /\ offset = Milliseconds(inflight.stamp + Second \div 2 - (inflight.before + rtt \div 2))
         /\ uncertainty = Milliseconds(Second \div 2) + Milliseconds(rtt) \div 2
  OBVIOUS
<1>4. /\ offset \in Int /\ uncertainty \in Nat
      /\ (offset - uncertainty) * Ms < skew + 2 * Ms
  BY <1>2, <1>3, SampleEarly
<1>5. status' = [offset |-> offset, uncertainty |-> uncertainty, synced |-> TRUE, at |-> now]
  BY <1>1, <1>3 DEF SyncSucceeds, Sampled
<1>6. /\ status' \in [offset : Int, uncertainty : Nat, synced : BOOLEAN, at : Nat]
      /\ status'.offset = offset /\ status'.uncertainty = uncertainty
  BY <1>2, <1>4, <1>5
<1>7. UNCHANGED <<now, skew, attempted>> /\ inflight' = NoSample /\ Returns
  BY DEF SyncSucceeds
<1>8. SetEarly'
  BY <1>4, <1>6, <1>7 DEF SetEarly
<1> QED
  BY <1>6, <1>7, <1>8, SampleEnds

LEMMA SyncFailsStep ==
    ASSUME ClockInv, SyncFails
    PROVE  ClockInv'
<1>1. UNCHANGED <<now, skew, attempted>> /\ inflight' = NoSample /\ Returns
  BY DEF SyncFails
<1>2. status' \in {status, NoStatus}
  BY DEF SyncFails
<1>3. status' \in [offset : Int, uncertainty : Nat, synced : BOOLEAN, at : Nat]
  <2>1. status \in [offset : Int, uncertainty : Nat, synced : BOOLEAN, at : Nat]
    BY DEF ClockInv, ClockTypeOK
  <2>2. NoStatus \in [offset : Int, uncertainty : Nat, synced : BOOLEAN, at : Nat]
    BY DEF NoStatus
  <2> QED
    BY <1>2, <2>1, <2>2
<1>4. SetEarly'
  BY <1>1, <1>2 DEF ClockInv, SetEarly, NoStatus
<1> QED
  BY <1>1, <1>3, <1>4, SampleEnds

LEMMA ClockNextInv ==
    ASSUME ClockInv, [ClockNext]_clockVars
    PROVE  ClockInv'
<1>1. ClockTypeOK
  BY DEF ClockInv
<1>2. CASE UNCHANGED clockVars
  BY <1>1, <1>2, PlansMove DEF clockVars, ClockTypeOK
<1>3. CASE Tick
  BY <1>1, <1>3, PlansMove DEF Tick, ClockTypeOK
<1>4. CASE ShopStamps
  BY <1>4, ShopStampsStep
<1>5. CASE SyncSucceeds
  BY <1>5, SyncSucceedsStep
<1>6. CASE SyncFails
  BY <1>6, SyncFailsStep
<1>7. ASSUME NEW p \in Plans, Syncs(p) PROVE ClockInv'
  BY <1>7, SyncsStep
<1>8. ASSUME NEW p \in Plans, \/ WaitsUntilNear(p) \/ WaitsUntilSale(p) \/ GateOpens(p)
                              \/ RequestEnds(p) \/ Expires(p)
      PROVE  ClockInv'
  <2>1. plan' \in [Plans -> Steps]
    BY <1>1, <1>8 DEF WaitsUntilNear, WaitsUntilSale, GateOpens, RequestEnds, Expires, Moves, Steps,
                      ClockTypeOK
  <2>2. UNCHANGED <<now, skew, status, attempted, inflight>>
    BY <1>8 DEF WaitsUntilNear, WaitsUntilSale, GateOpens, RequestEnds, Expires
  <2> QED
    BY <1>1, <2>1, <2>2, PlansMove DEF ClockTypeOK
<1> QED
  BY <1>2, <1>3, <1>4, <1>5, <1>6, <1>7, <1>8 DEF ClockNext

\* In every state the clock, once set, is behind the shop's with its uncertainty
\* taken off, but for less than two milliseconds.
THEOREM ClockInductive == ClockSpec => []ClockInv
<1>1. ClockInit => ClockInv
  BY ClockInit0
<1>2. ClockInv /\ [ClockNext]_clockVars => ClockInv'
  BY ClockNextInv
<1> QED
  BY <1>1, <1>2, PTL DEF ClockSpec

\* Only the gate lets a plan send, by the clock of that moment.
LEMMA GateSends ==
    ASSUME ClockInv, [ClockNext]_clockVars, NEW p \in Plans,
           plan[p] # "sending", plan'[p] = "sending"
    PROVE  EarliestNow >= Sale
<1>1. plan \in [Plans -> Steps]
  BY DEF ClockInv, ClockTypeOK
<1>2. plan' # plan
  OBVIOUS
<1>3. CASE SyncSucceeds \/ SyncFails
  BY <1>1, <1>3 DEF SyncSucceeds, SyncFails, Returns, After
<1>4. ASSUME NEW q \in Plans, \/ Syncs(q) \/ WaitsUntilNear(q) \/ WaitsUntilSale(q)
                              \/ RequestEnds(q) \/ Expires(q)
      PROVE  FALSE
  BY <1>1, <1>4 DEF Syncs, WaitsUntilNear, WaitsUntilSale, RequestEnds, Expires, Moves, After
<1>5. ASSUME NEW q \in Plans, GateOpens(q) PROVE StillOpen(q)
  BY <1>1, <1>5 DEF GateOpens, Moves
<1> QED
  BY <1>2, <1>3, <1>4, <1>5 DEF ClockNext, clockVars, Tick, ShopStamps, StillOpen

\* With a clock that has been set, no request goes out before the sale has begun on
\* the shop's clock, but for less than two milliseconds.
THEOREM NoSaleEarly == ClockSpec => SaleNotEarly
<1>1. ASSUME ClockInv, [ClockNext]_clockVars, NEW p \in Plans,
             plan[p] # "sending", plan'[p] = "sending", status.synced
      PROVE  ShopNow > Sale - 2 * Ms
  <2>1. EarliestNow >= Sale
    BY <1>1, GateSends
  <2>2. PICK early : early = (status.offset - status.uncertainty) * Ms
    OBVIOUS
  <2>3. early < skew + 2 * Ms
    BY <1>1, <2>2 DEF ClockInv, SetEarly
  <2>4. /\ early \in Int /\ now \in Nat /\ skew \in Int /\ Ms \in Nat /\ Sale \in Nat
    BY <1>1, <2>2, SaleClockAssumption DEF ClockInv, ClockTypeOK, SaleClockAssumption
  <2>5. now + early >= Sale
    BY <2>1, <2>2 DEF EarliestNow
  <2> QED
    BY <2>3, <2>4, <2>5 DEF ShopNow
<1>2. ClockInv /\ [ClockNext]_clockVars =>
        [\A p \in Plans : plan[p] # "sending" /\ plan'[p] = "sending" /\ status.synced
            => ShopNow > Sale - 2 * Ms]_clockVars
  BY <1>1
<1> QED
  BY <1>2, ClockInductive, PTL DEF ClockSpec, SaleNotEarly
===============================================================================
