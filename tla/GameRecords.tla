---------------------------- MODULE GameRecords ----------------------------
(***************************************************************************)
(* Reading a user's records of a game (internal/gamerecord/service.go) from *)
(* the handlers (internal/api/game_record.go): first the roles, then the    *)
(* note or calendar of one of them, each from the account's cache or, one    *)
(* request at a time and with pauses in between, from the provider.         *)
(*                                                                         *)
(* A handler works with the account as it was when it began. Meanwhile the  *)
(* account may get other credentials, for which the cache is invalidated in *)
(* a step of its own - or not at all, when a login binds it anew.            *)
(*                                                                         *)
(* What was fetched stands for the credentials it was fetched with. Games,  *)
(* roles and several accounts are left out, but for the requests of other   *)
(* accounts that count for the limit.                                      *)
(***************************************************************************)
EXTENDS Naturals, FiniteSets

CONSTANTS
    Readers,        \* handlers at work
    Credentials,
    Nothing,        \* no credentials, no request, no data
    MaxActive,      \* requests to the provider; 8 in the code
    Interval,       \* between two requests of an account; 3 seconds
    Block,          \* after a refusal; 6 hours for a challenge
    Fresh,          \* what was fetched is used again for so long
    MaxEdits,
    MaxClock

ASSUME RecordsAssumption ==
    /\ Nothing \notin Readers \union Credentials
    /\ {MaxActive, Interval, Block, Fresh, MaxEdits, MaxClock} \subseteq Nat

Keys == {"roles", "note"}

VARIABLES
    credentials,    \* of the account
    runnable,       \* the account and its owner are enabled
    invalidating,   \* edits whose Invalidate is still to come
    entry,          \* Service.entries: what is kept for the account
    others,         \* requests of other accounts
    read,           \* what each handler has
    time,
    serving,        \* FALSE once the service was stopped
    edits,
    lastEnd, refused \* history: end of the last request, end of the last block

recordVars == <<credentials, runnable, invalidating, entry, others, read, time, serving, edits,
                lastEnd, refused>>

Maybe(S) == S \union {Nothing}

Snapshot == [of : Maybe(Credentials), at : Nat]

Entry == [identity : Maybe(Credentials), epoch : Nat, busy : Maybe(Readers), next : Nat,
          blocked : Nat, cache : [Keys -> Snapshot]]

\* `old` is the snapshot in the cache when the request began; `roles` and `note`
\* are what the answer will hold.
Read == [step : {"idle", "asking", "pausing", "loading", "answering", "answered"},
         key : Keys, as : Maybe(Credentials), epoch : Nat, live : BOOLEAN,
         old : Maybe(Credentials), roles : Maybe(Credentials), note : Maybe(Credentials)]

NoSnapshot == [of |-> Nothing, at |-> 0]

NoEntry == [identity |-> Nothing, epoch |-> 0, busy |-> Nothing, next |-> 0, blocked |-> 0,
            cache |-> [k \in Keys |-> NoSnapshot]]

NoRead == [step |-> "idle", key |-> "roles", as |-> Nothing, epoch |-> 0, live |-> FALSE,
           old |-> Nothing, roles |-> Nothing, note |-> Nothing]

RecordsInit ==
    /\ credentials \in Credentials
    /\ runnable = TRUE
    /\ invalidating = 0
    /\ entry = NoEntry
    /\ others \in 0 .. 1
    /\ read = [r \in Readers |-> NoRead]
    /\ time = 1 /\ serving = TRUE
    /\ edits = 0
    /\ lastEnd = 0 /\ refused = 0

-----------------------------------------------------------------------------
Step(r) == read[r].step

Active == others + Cardinality({r \in Readers : Step(r) \in {"pausing", "loading"}})

\* Mutant: what is kept outlives the credentials.
Outlived(e) == [e EXCEPT !.epoch = e.epoch + 1]

Cleared(e) == [e EXCEPT !.epoch = e.epoch + 1, !.cache = [k \in Keys |-> NoSnapshot]]

\* Cancels the request under way, if there is one.
Interrupted(e) == [r \in Readers |-> IF e.busy = r THEN [read[r] EXCEPT !.live = FALSE] ELSE read[r]]

\* A handler takes the account.
Takes(r) ==
    /\ Step(r) = "idle" /\ runnable
    /\ read' = [read EXCEPT ![r] = [NoRead EXCEPT !.step = "asking", !.as = credentials]]
    /\ UNCHANGED <<credentials, runnable, invalidating, entry, others, time, serving, edits, lastEnd, refused>>

\* Goes on with a snapshot: the roles lead to the note, the note is the answer.
Gets(record, of) ==
    IF record.key = "roles"
      THEN [record EXCEPT !.step = IF of = Nothing THEN "answering" ELSE "asking",
                          !.key = "note", !.roles = of]
      ELSE [record EXCEPT !.step = "answering", !.note = of]

\* The first half of read, up to the unlocking. Other credentials than before
\* clear what is kept.
Enters(r) ==
    LET e == IF entry.identity = read[r].as THEN entry
             ELSE [Cleared(entry) EXCEPT !.identity = read[r].as]
        with == IF entry.identity = read[r].as THEN read ELSE Interrupted(entry)
        kept == e.cache[read[r].key]
    IN  /\ Step(r) = "asking"
        /\ IF ~serving THEN read' = [read EXCEPT ![r] = NoRead] /\ UNCHANGED entry
           ELSE IF \/ e.blocked > time
                   \/ kept.of # Nothing /\ time < kept.at + Fresh
                   \/ e.busy # Nothing \/ Active >= MaxActive
             THEN read' = [with EXCEPT ![r] = Gets(read[r], kept.of)] /\ entry' = e
             ELSE /\ entry' = [e EXCEPT !.busy = r]
                  /\ read' = [with EXCEPT ![r] = [read[r] EXCEPT !.step = "pausing", !.live = TRUE,
                                                    !.epoch = e.epoch, !.old = kept.of]]
        /\ UNCHANGED <<credentials, runnable, invalidating, others, time, serving, edits, lastEnd, refused>>

\* The request goes out after the pause, unless it was cancelled.
Loads(r) ==
    /\ Step(r) = "pausing" /\ read[r].live /\ time >= entry.next
    /\ read' = [read EXCEPT ![r].step = "loading"]
    /\ UNCHANGED <<credentials, runnable, invalidating, entry, others, time, serving, edits, lastEnd, refused>>

\* Nothing has been invalidated since the request began.
StillWanted(r) == serving /\ entry.epoch = read[r].epoch

\* The second half: frees the account, and keeps what was fetched, for `of`.
Freed == [entry EXCEPT !.busy = Nothing, !.next = time + Interval]

Stores(r) ==
    /\ Step(r) = "loading"
    /\ IF StillWanted(r) /\ read[r].live
         THEN /\ entry' = [Freed EXCEPT !.cache[read[r].key] = [of |-> read[r].as, at |-> time]]
              /\ read' = [read EXCEPT ![r] = Gets(read[r], read[r].as)]
         ELSE entry' = Freed /\ read' = [read EXCEPT ![r] = NoRead]
    /\ lastEnd' = time
    /\ UNCHANGED <<credentials, runnable, invalidating, others, time, serving, edits, refused>>

\* The provider refuses, or the request times out: the account is blocked for a
\* while, and an old snapshot is better than none.
LoadFails(r) ==
    /\ Step(r) = "loading"
    /\ IF StillWanted(r)
         THEN /\ entry' = [Freed EXCEPT !.blocked = time + Block]
              /\ read' = [read EXCEPT ![r] = Gets(read[r], read[r].old)]
              /\ refused' = time + Block
         ELSE /\ entry' = Freed
              /\ read' = [read EXCEPT ![r] = NoRead]
              /\ UNCHANGED refused
    /\ lastEnd' = time
    /\ UNCHANGED <<credentials, runnable, invalidating, others, time, serving, edits>>

\* The browser leaves, or the pause is cancelled: the request ends without a trace.
Leaves(r) ==
    /\ Step(r) \in {"pausing", "loading"}
    /\ entry' = Freed
    /\ read' = [read EXCEPT ![r] = NoRead]
    /\ lastEnd' = IF Step(r) = "loading" THEN time ELSE lastEnd
    /\ UNCHANGED <<credentials, runnable, invalidating, others, time, serving, edits, refused>>

\* Mutant: the account is not looked at again.
AnswersAny(r) == Step(r) = "answering"

\* The handler's last look: the account is what it was.
AnswersSame(r) == runnable /\ credentials = read[r].as

Answered(r) ==
    /\ Step(r) = "answering"
    /\ read' = [read EXCEPT ![r].step = IF AnswersSame(r) THEN "answered" ELSE "idle"]
    /\ UNCHANGED <<credentials, runnable, invalidating, entry, others, time, serving, edits, lastEnd, refused>>

Rests(r) ==
    /\ Step(r) = "answered"
    /\ read' = [read EXCEPT ![r] = NoRead]
    /\ UNCHANGED <<credentials, runnable, invalidating, entry, others, time, serving, edits, lastEnd, refused>>

-----------------------------------------------------------------------------
\* An edit of the account, or of its owner's access, whose handler invalidates
\* afterwards; a login binds without that.
Edit ==
    /\ edits < MaxEdits /\ edits' = edits + 1
    /\ \/ /\ credentials' \in Credentials \ {credentials} /\ UNCHANGED runnable
          /\ invalidating' \in {invalidating, invalidating + 1}
       \/ /\ runnable' = ~runnable /\ UNCHANGED credentials
          /\ invalidating' = invalidating + 1
    /\ UNCHANGED <<entry, others, read, time, serving, lastEnd, refused>>

\* Mutant: what is kept for the account is dropped, with its pauses.
InvalidateAll == entry' = [NoEntry EXCEPT !.epoch = entry.epoch + 1]

\* Invalidate keeps the pauses.
Invalidated == entry' = Cleared(entry)

Invalidate ==
    /\ invalidating > 0 /\ invalidating' = invalidating - 1
    /\ Invalidated /\ read' = Interrupted(entry)
    /\ UNCHANGED <<credentials, runnable, others, time, serving, edits, lastEnd, refused>>

OtherAccounts ==
    /\ others' \in {others + 1, others - 1} /\ others' \in 0 .. 1
    /\ others' > others => serving /\ Active < MaxActive
    /\ UNCHANGED <<credentials, runnable, invalidating, entry, read, time, serving, edits, lastEnd, refused>>

Stop ==
    /\ serving /\ serving' = FALSE
    /\ read' = Interrupted(entry)
    /\ entry' = [entry EXCEPT !.cache = NoEntry.cache]
    /\ UNCHANGED <<credentials, runnable, invalidating, others, time, edits, lastEnd, refused>>

RecordTick ==
    /\ time < MaxClock /\ time' = time + 1
    /\ UNCHANGED <<credentials, runnable, invalidating, entry, others, read, serving, edits, lastEnd, refused>>

RecordsNext ==
    \/ \E r \in Readers : \/ Takes(r) \/ Enters(r) \/ Loads(r) \/ Stores(r) \/ LoadFails(r)
                           \/ Leaves(r) \/ Answered(r) \/ Rests(r)
    \/ Edit \/ Invalidate \/ OtherAccounts \/ Stop \/ RecordTick

RecordsSpec == RecordsInit /\ [][RecordsNext]_recordVars

-----------------------------------------------------------------------------
(* Properties. *)

RecordsTypeOK ==
    /\ credentials \in Credentials /\ runnable \in BOOLEAN /\ serving \in BOOLEAN
    /\ {invalidating, others, time, edits, lastEnd, refused} \subseteq Nat
    /\ entry \in Entry
    /\ read \in [Readers -> Read]

\* Records are shown to those they belong to: what the cache holds was fetched
\* with the credentials it is kept for, and an answer holds only what was fetched
\* with the credentials the account had when the handler looked last - however
\* requests, edits, logins and invalidations overlap.
RecordsHonest ==
    /\ \A k \in Keys : entry.cache[k].of \in {Nothing, entry.identity}
    /\ \A r \in Readers : {read[r].old, read[r].roles, read[r].note} \subseteq {Nothing, read[r].as}

\* What is shown is the login's of the moment of answering: however long the
\* loads took, a handler looks again and lets nothing out of an account that has
\* another login by then, or may not be used any more.
AnswersCurrent ==
    [][\A r \in Readers : Step(r) = "answering" /\ read'[r].step = "answered" =>
          runnable /\ {read[r].roles, read[r].note} \subseteq {Nothing, credentials}]_recordVars

\* As README.md:164 says: the requests of an account come one after another with
\* a pause, and other credentials do not lift a block.
OneAfterAnother ==
    [][\A r \in Readers : Step(r) = "pausing" /\ read'[r].step = "loading" =>
          /\ \A other \in Readers : Step(other) # "loading"
          /\ lastEnd > 0 => time >= lastEnd + Interval
          /\ time >= refused]_recordVars
=============================================================================
