------------------------------ MODULE MCDialogs ------------------------------
(* A small instance of Logins for TLC. *)
EXTENDS Logins, TLC

CONSTANTS u1, u2, a1, a2, x, y, main, d1, d2, p1

\* No definition tells users, uids or dialogs apart; AddLocked chooses among Ids.
Symmetry == Permutations({u1, u2}) \union Permutations({x, y}) \union Permutations({d1, d2})
=============================================================================
