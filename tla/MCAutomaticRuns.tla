--------------------------- MODULE MCAutomaticRuns ---------------------------
(* Small instances of AutomaticRuns for TLC: days of two minutes, and two zones
   whose midnights are one minute apart. *)
EXTENDS AutomaticRuns

CONSTANTS a1, here, there, h1

TwoZones == {here, there}
Shift(z) == IF z = here THEN 0 ELSE 1
Dates == [z \in TwoZones |-> [t \in Times |-> (t + 1 + Shift(z)) \div 2]]
Clocks == [z \in TwoZones |-> [t \in Times |-> (t + 1 + Shift(z)) % 2]]

Off == [on |-> FALSE, at |-> 0, zone |-> here, jitter |-> 0, onStart |-> TRUE]
Late == [on |-> TRUE, at |-> 1, zone |-> there, jitter |-> 1, onStart |-> FALSE]
TwoSchedules == {Off, Late}
TwoTimes == {[at |-> 0, zone |-> here], [at |-> 0, zone |-> there]}
==============================================================================
