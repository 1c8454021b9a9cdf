----------------------------- MODULE ExchangeOrder -----------------------------
(***************************************************************************)
(* What an exchange plan promises its owner, without goroutines, retries,  *)
(* gates, saves or restarts: an order is placed, executed at most once and *)
(* closed with a verdict, and the verdict never hides a purchase.          *)
(*                                                                         *)
(* The states are those of model.ExchangePlan; ExchangeEngine implements   *)
(* this specification.                                                     *)
(***************************************************************************)
EXTENDS Naturals

CONSTANT Plans

VARIABLES
    status,    \* what the owner sees
    exposed,   \* the plans whose request the shop has, or may have
    bought     \* the plans the shop executed

orderVars == <<status, exposed, bought>>

Closed == {"failed", "cancelled", "missed"}

OrderInit ==
    /\ status = [p \in Plans |-> "absent"]
    /\ exposed = {}
    /\ bought = {}

Move(p, from, to) ==
    /\ status[p] \in from
    /\ status' = [status EXCEPT ![p] = to]
    /\ UNCHANGED <<exposed, bought>>

Place(p) == Move(p, {"absent"}, "pending")
Begin(p) == Move(p, {"pending"}, "running")

\* Interrupted by a stop or a crash before anything reached the shop.
Resume(p) == p \notin exposed \union bought /\ Move(p, {"running"}, "pending")

Expose(p) ==
    /\ status[p] = "running"
    /\ p \notin exposed
    /\ exposed' = exposed \union {p}
    /\ UNCHANGED <<status, bought>>

Refuse(p) ==
    /\ p \in exposed
    /\ p \notin bought
    /\ exposed' = exposed \ {p}
    /\ UNCHANGED <<status, bought>>

Buy(p) ==
    /\ p \in exposed
    /\ p \notin bought
    /\ bought' = bought \union {p}
    /\ UNCHANGED <<status, exposed>>

ReportSuccess(p) == p \in bought /\ Move(p, {"running"}, "success")
ReportUnknown(p) == Move(p, {"running"}, "unknown")
ReportClosed(p, verdict) == p \notin exposed \union bought /\ Move(p, {"pending", "running"}, verdict)

Delete(p) == Move(p, {"pending", "success", "unknown"} \union Closed, "deleted")

\* A restart settles every order that was running at once.
Settle ==
    /\ status' \in [Plans -> {"absent", "pending", "running", "success", "unknown",
                              "failed", "cancelled", "missed", "deleted"}]
    /\ \A p \in Plans :
          \/ status'[p] = status[p]
          \/ status[p] = "running" /\ status'[p] = "unknown"
          \/ /\ status[p] = "running" /\ status'[p] = "pending"
             /\ p \notin exposed \union bought
    /\ UNCHANGED <<exposed, bought>>

OrderNext ==
    \/ \E p \in Plans :
          \/ Place(p) \/ Begin(p) \/ Resume(p) \/ Expose(p) \/ Refuse(p) \/ Buy(p)
          \/ ReportSuccess(p) \/ ReportUnknown(p) \/ Delete(p)
          \/ \E verdict \in Closed : ReportClosed(p, verdict)
    \/ Settle

OrderSpec == OrderInit /\ [][OrderNext]_orderVars

===============================================================================
