--------------------------- MODULE MCExchangeEngine ---------------------------
(* Small instances of ExchangeEngine for TLC. *)
EXTENDS ExchangeEngine

CONSTANTS p1, p2, a1, g1, g2

NoPlans == {}
OnePlan == {p1}
TwoPlans == {p1, p2}
OneAccount == {a1}
TwoGoods == {g1, g2}
SameAccount == [p \in Plans |-> a1]
DifferentGoods == [p \in Plans |-> IF p = p1 THEN g1 ELSE g2]
SameGoods == [p \in Plans |-> g1]

\* The edited plan is run again and retried; its competitor makes one attempt in one
\* run, so the exploration does not go beyond that.
CompetitorRunsOnce ==
    \A p \in Plans \ EditedPlans : plan[p].rev <= 2 /\ plan[p].attempt <= 1
===============================================================================
