------------------------------ MODULE PushPromise ------------------------------
(***************************************************************************)
(* What a user is promised of a notification, whatever happens to the      *)
(* server: it waits, it is begun once, it reaches the provider at most     *)
(* once, and the verdict in the history is final and true. "unknown" is a  *)
(* verdict; repeating the notification is not.                             *)
(***************************************************************************)
CONSTANT Deliveries

VARIABLES
    verdict,   \* what the history says of a delivery
    offered,   \* deliveries handed to their provider
    taken      \* deliveries the provider took

vars == <<verdict, offered, taken>>

Verdicts == {"none", "pending", "sending", "accepted", "failed", "unknown", "skipped"}

Init ==
    /\ verdict = [d \in Deliveries |-> "none"]
    /\ offered = {}
    /\ taken = {}

\* The next thing the history may say of d.
Follows(d, v) ==
    \/ verdict[d] = "none" /\ v = "pending"
    \/ verdict[d] = "pending" /\ v \in {"sending", "skipped"}
    \/ verdict[d] = "sending" /\ \/ v = "accepted" /\ d \in taken
                                 \/ v = "failed" /\ d \notin taken
                                 \/ v = "unknown"

\* The history moves on, for any number of deliveries at once.
Record ==
    /\ verdict' \in [Deliveries -> Verdicts]
    /\ \A d \in Deliveries : verdict'[d] = verdict[d] \/ Follows(d, verdict'[d])
    /\ UNCHANGED <<offered, taken>>

\* A delivery that was begun is handed over, for the first and only time.
Offer(d) ==
    /\ verdict[d] = "sending"
    /\ d \notin offered
    /\ offered' = offered \union {d}
    /\ taken' \in {taken, taken \union {d}}
    /\ UNCHANGED verdict

\* A test of a channel is handed over first and enters the history with its verdict.
Test(d) ==
    /\ verdict[d] = "none"
    /\ offered' = offered \union {d}
    /\ \/ taken' = taken /\ verdict' = [verdict EXCEPT ![d] = "failed"]
       \/ taken' = taken \union {d} /\ verdict' = [verdict EXCEPT ![d] = "accepted"]
       \/ taken' \in {taken, taken \union {d}} /\ verdict' = [verdict EXCEPT ![d] = "unknown"]

Next == Record \/ \E d \in Deliveries : Offer(d) \/ Test(d)

Spec == Init /\ [][Next]_vars
===============================================================================
