----------------------------- MODULE MCGateways -----------------------------
(* Small instances of Gateways for TLC. *)
EXTENDS Gateways, TLC

CONSTANTS u1, u2, c1, c2, q1, q2, x1, s1, s2, d1, d2, w1, w2

\* Nothing is bound; the identity c2 was given away before.
OneChannel == (c1 :> NoChannel) @@ (c2 :> [NoChannel EXCEPT !.used = TRUE])

\* Two QQ bots that have just been bound.
TwoBots ==
    LET bound(bot) == [owner |-> u1, used |-> TRUE, bot |-> bot, secret |-> s1,
                       enabled |-> TRUE, state |-> "connecting"]
    IN  (c1 :> bound(q1)) @@ (c2 :> bound(q2))

\* Either one channel with a dialog, or more bots than the site connects while
\* the dialogs are over.
MCInit ==
    /\ \/ channel = OneChannel /\ stopped = {}
       \/ channel = TwoBots /\ stopped = {"bindings"}
    /\ member = [u \in Users |-> "active"]
    /\ revision = [u \in Users |-> 1]
    /\ dialog = [d \in Dialogs |-> NewDialog]
    /\ session = [u \in Users |-> None]
    /\ revoking = [u \in Users |-> <<>>]
    /\ revoked = {}
    /\ acts = 0
    /\ worker = [w \in Workers |-> NoWorker]
    /\ monitor = [c \in Channels |-> None]
    /\ snapshot = [m \in Monitors |-> {}]
    /\ failedSaves = IF channel = TwoBots THEN MaxFailedSaves ELSE 0

MCFairSpec == MCInit /\ [][Next]_vars /\ Fairness
=============================================================================
