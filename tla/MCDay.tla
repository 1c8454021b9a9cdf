-------------------------------- MODULE MCDay --------------------------------
(* MCAutomaticRuns and a small instance of PushBindings for TLC. They share no *)
(* variable, so each behaviour is one of either, and the other one rests.      *)
EXTENDS MCAutomaticRuns, PushBindings

CONSTANTS u1, u2, c1, c2, q1, x1, s1, d1, d2

VARIABLE about

MCInit ==
    /\ Init /\ BindingsInit
    /\ about \in {"runs", "bindings"}
    /\ about = "bindings" => site.schedule = Off /\ account[a1].own = Nothing

MCNext ==
    \/ about = "runs" /\ Next /\ UNCHANGED <<bindingVars, about>>
    \/ about = "bindings" /\ BindingsNext /\ UNCHANGED <<vars, about>>

MCSpec == MCInit /\ [][MCNext]_<<vars, bindingVars, about>>
=============================================================================
