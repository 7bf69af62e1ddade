--------------------------- MODULE RefundPromise ---------------------------
(***************************************************************************)
(* What the refund agent promises, whatever nodes, tools and model calls   *)
(* it is built from: at most one refund, only on an order that is the      *)
(* customer's own and within policy in the world the case seeded, of the   *)
(* amount its type is worth at the price first read, approved when it is   *)
(* over the threshold, and a reply that tells exactly what the ledger has. *)
(***************************************************************************)
EXTENDS AgentRouting

CONSTANT Cases

VARIABLES
  case,     \* the case the customer brings
  ledger,   \* the refunds issued: the order, the type and the amount
  told,     \* what the customer was told was issued, None before the reply
  over      \* the run has ended

promiseVars == <<case, ledger, told, over>>

Payment == [order: OrderIds, type: RefundTypes, amount: Nat]

Init ==
  /\ case \in Cases
  /\ ledger = << >>
  /\ told = None
  /\ over = FALSE

(* A refund is due when the seeded world, not what the agent read of it, says so. *)
Entitled(c, o) ==
  /\ c.orders[o] # None /\ c.orders[o].mine
  /\ Eligibility(c.orders[o], RefundHistory(SeedWorld(c), c), REFUND_WINDOW_DAYS) = "within policy"

Due(c, p) ==
  /\ Entitled(c, p.order)
  /\ p.amount = RefundAmount(p.type, c.orders[p.order].price)
  /\ p.amount > APPROVAL_THRESHOLD => c.approval = "approve"

Grant ==
  /\ ~over /\ ledger = << >>
  /\ \E o \in OrderIds, t \in RefundTypes :
       /\ Entitled(case, o)
       /\ LET p == [order |-> o, type |-> t, amount |-> RefundAmount(t, case.orders[o].price)]
          IN Due(case, p) /\ ledger' = <<p>>
  /\ UNCHANGED <<case, told, over>>

Tell ==
  /\ ~over
  /\ told' = ledger
  /\ over' = TRUE
  /\ UNCHANGED <<case, ledger>>

(* A model failure ends the run without a reply. *)
Break ==
  /\ ~over
  /\ over' = TRUE
  /\ UNCHANGED <<case, ledger, told>>

Next == Grant \/ Tell \/ Break

Spec == Init /\ [][Next]_promiseVars /\ WF_promiseVars(Tell \/ Break)
=============================================================================
