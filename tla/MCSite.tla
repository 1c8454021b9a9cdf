------------------------------- MODULE MCSite -------------------------------
(* Small instances of Members, GameRecords and SaleClock for TLC. They share   *)
(* nothing, so each behaviour is one of either, and the other ones rest.      *)
EXTENDS Members, GameRecords, SaleClock, TLC

CONSTANTS u1, u2, c1, one, two, k1, k2

MCSkews == -5 .. 5

VARIABLE about

MCInit ==
    /\ Init /\ RecordsInit /\ ClockInit
    /\ about \in {"members", "records", "clock"}
    /\ about # "clock" => skew = 0
    /\ about # "records" => others = 0 /\ credentials = k1

MCNext ==
    \/ about = "members" /\ Next /\ UNCHANGED <<recordVars, clockVars, about>>
    \/ about = "records" /\ RecordsNext /\ UNCHANGED <<vars, clockVars, about>>
    \/ about = "clock" /\ ClockNext /\ UNCHANGED <<vars, recordVars, about>>

MCSpec == MCInit /\ [][MCNext]_<<vars, recordVars, clockVars, about>>

\* Neither users nor requests, handlers and plans are told apart; the latter three,
\* which never meet, are the same two model values.
Symmetry == Permutations(Users) \union Permutations({one, two})
=============================================================================
