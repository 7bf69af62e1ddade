---------------------------- MODULE RefundWorld ----------------------------
(***************************************************************************)
(* The world outside the agent's checkpoints: the per-run SQLite database, *)
(* the tool counters and the tool-call log (agent/tools.py, env/db.py).    *)
(* Every tool is a pure operator on a world record `w` and a case `c`, so  *)
(* that the agent, the paired runs and the forks share one definition.     *)
(*                                                                         *)
(* Money is whole cents.  Dates are ages in days, so `today` is age 0.     *)
(***************************************************************************)
EXTENDS Integers, Sequences, FiniteSets

CONSTANTS
  None,                 \* Python's None, and a state key that was never set
  OrderIds,             \* the order ids a customer message may name
  REFUND_WINDOW_DAYS,
  MAX_PRIOR_REFUNDS,
  HISTORY_WINDOW_DAYS,
  DOLLAR,               \* cents in a dollar (100); small in the model runs
  RoundsUp              \* the odd prices whose half rounds up to a cent

ToolNames == {"lookup_order", "get_refund_history", "check_eligibility", "issue_refund"}

OrderRow == [price: Nat, age: Nat \cup {None}, excluded: BOOLEAN, mine: BOOLEAN]

PriorRow == [age: Nat, mine: BOOLEAN]

RefundTypes == {"full", "partial", "store_credit"}

Reasons == {"undelivered", "excluded", "window", "limit", "within policy"}

RefundRow == [id: Nat, order: OrderIds, type: RefundTypes, amount: Nat]

ToolCall == [name: ToolNames, ok: BOOLEAN]

(* An eval case: the environment it seeds and the scripted approval. *)
Case == [orders: [OrderIds -> OrderRow \cup {None}], priors: Seq(PriorRow),
         faults: SUBSET ToolNames, reprice: Nat \cup {None},
         approval: {"approve", "reject", None}]

World == [orders: [OrderIds -> OrderRow \cup {None}], refunds: Seq(RefundRow),
          next_refund: Nat, lookups: Nat, log: Seq(ToolCall)]

ASSUME NoneAssumption ==
  /\ None \notin Nat /\ None \notin OrderIds /\ None \notin OrderRow
  /\ None \notin RefundTypes \cup Reasons \cup {"approve", "reject", "spent"}

ASSUME PolicyAssumption ==
  /\ REFUND_WINDOW_DAYS \in Nat /\ MAX_PRIOR_REFUNDS \in Nat
  /\ HISTORY_WINDOW_DAYS \in Nat /\ DOLLAR \in Nat \ {0}

-----------------------------------------------------------------------------
(* A fresh database and fresh counters. *)
SeedWorld(c) ==
  [orders |-> c.orders, refunds |-> << >>, next_refund |-> 1, lookups |-> 0, log |-> << >>]

Fails(c, tool) == tool \in c.faults

(* Tools._enter: the call is logged before it runs, so a failed attempt stays in the log. *)
Logged(w, c, tool) ==
  [w EXCEPT !.log = Append(@, [name |-> tool, ok |-> ~Fails(c, tool)])]

(* Mutant: the environment reprices on the first read already. *)
RepricedAtOnce(w, c, o) ==
  IF c.reprice # None /\ w.orders[o] # None
  THEN [w.orders EXCEPT ![o] = [@ EXCEPT !.price = c.reprice]]
  ELSE w.orders

(* A re-read that finds the order repriced: every lookup after the first one does. *)
Repriced(w, c, o) ==
  IF w.lookups > 0 /\ c.reprice # None /\ w.orders[o] # None
  THEN [w.orders EXCEPT ![o] = [@ EXCEPT !.price = c.reprice]]
  ELSE w.orders

(* The world after a call of lookup_order; a faulted call stops in _enter. *)
AfterLookup(w, c, o) ==
  IF Fails(c, "lookup_order") THEN Logged(w, c, "lookup_order")
  ELSE [Logged(w, c, "lookup_order") EXCEPT !.lookups = @ + 1, !.orders = Repriced(w, c, o)]

(* The row the SELECT of lookup_order returns from the world its call left behind. *)
SelectOrder(w, o, ownerFilter) ==
  IF w.orders[o] # None /\ (ownerFilter => w.orders[o].mine) THEN w.orders[o] ELSE None

(* The refunds of this customer in the history window: seeded ones, and the run's own. *)
RefundHistory(w, c) ==
  Cardinality({i \in DOMAIN c.priors : c.priors[i].mine /\ c.priors[i].age <= HISTORY_WINDOW_DAYS})
    + Len(w.refunds)

(* check_eligibility's verdict; the order is eligible when it is "within policy". *)
Eligibility(row, prior, window) ==
  IF row.age = None THEN "undelivered"
  ELSE IF row.excluded THEN "excluded"
  ELSE IF row.age > window THEN "window"
  ELSE IF prior >= MAX_PRIOR_REFUNDS THEN "limit"
  ELSE "within policy"

(* Mutant: the row is written before the call can fail. *)
AfterIssueEarly(w, c, o, type, amount) ==
  [Logged(w, c, "issue_refund") EXCEPT
     !.refunds = Append(@, [id |-> w.next_refund, order |-> o, type |-> type, amount |-> amount]),
     !.next_refund = @ + 1]

(* The world after a call of issue_refund, whose RF id is the counter's value before it. *)
AfterIssue(w, c, o, type, amount) ==
  IF Fails(c, "issue_refund") THEN Logged(w, c, "issue_refund")
  ELSE [Logged(w, c, "issue_refund") EXCEPT
          !.refunds = Append(@, [id |-> w.next_refund, order |-> o, type |-> type, amount |-> amount]),
          !.next_refund = @ + 1]

-----------------------------------------------------------------------------
(* round(price * 0.5, 2): which way an odd number of cents rounds depends on its double. *)
HalfOf(price) == (price \div 2) + (IF price % 2 = 1 /\ price \in RoundsUp THEN 1 ELSE 0)

RefundAmount(type, price) == IF type = "partial" THEN HalfOf(price) ELSE price

(* float(int(x)): the cents are cut off. *)
TruncatedAmount(type, price) ==
  DOLLAR * (IF type = "partial" THEN price \div (2 * DOLLAR) ELSE price \div DOLLAR)
=============================================================================
