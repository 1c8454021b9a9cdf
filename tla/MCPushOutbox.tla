----------------------------- MODULE MCPushOutbox -----------------------------
(* Small instances of PushOutbox for TLC. *)
EXTENDS PushOutbox

CONSTANTS u1, u2, c1, c2, e1, e2, w1, w2

OneUser == {u1}
OneChannel == {c1}
TwoChannels == {c1, c2}
OneEvent == {e1}
NoChannels == {}
OneWorker == {w1}
TwoWorkers == {w1, w2}
CalendarOnly == {"calendar"}
AllKinds == {"task", "calendar"}
OwnedByOne == [x \in Channels \union Events |-> u1]
===============================================================================
