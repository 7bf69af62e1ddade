------------------------- MODULE RefundWorldLemmas -------------------------
(***************************************************************************)
(* What the tools do to the world, as facts to cite: their results are of  *)
(* the declared types, reads never touch the ledger, and the first lookup  *)
(* of a run changes no order.                                              *)
(***************************************************************************)
EXTENDS RefundWorld, FiniteSetTheorems, TLAPS

(* A logged call changes the log and nothing else (Tools._enter). *)
LEMMA LoggedFacts ==
  ASSUME NEW w \in World, NEW c, NEW tool \in ToolNames
  PROVE  /\ Logged(w, c, tool) \in World
         /\ Logged(w, c, tool).orders = w.orders
         /\ Logged(w, c, tool).refunds = w.refunds
         /\ Logged(w, c, tool).lookups = w.lookups
         /\ Logged(w, c, tool).next_refund = w.next_refund
  <1>1. [name |-> tool, ok |-> ~Fails(c, tool)] \in ToolCall
    BY DEF ToolCall, Fails
  <1>2. Append(w.log, [name |-> tool, ok |-> ~Fails(c, tool)]) \in Seq(ToolCall)
    BY <1>1 DEF World
  <1> QED
    BY <1>2 DEF Logged, World

(* A lookup leaves the ledger alone, and the first lookup of a run leaves the orders alone too. *)
LEMMA LookupFacts ==
  ASSUME NEW w \in World, NEW c \in Case, NEW o \in OrderIds
  PROVE  /\ AfterLookup(w, c, o) \in World
         /\ AfterLookup(w, c, o).refunds = w.refunds
         /\ AfterLookup(w, c, o).next_refund = w.next_refund
         /\ w.lookups = 0 => AfterLookup(w, c, o).orders = w.orders
         /\ AfterLookup(w, c, o).lookups = 0 => w.lookups = 0
  <1> DEFINE l == Logged(w, c, "lookup_order")
  <1>1. /\ l \in World /\ l.refunds = w.refunds /\ l.orders = w.orders
        /\ l.lookups = w.lookups /\ l.next_refund = w.next_refund
    BY LoggedFacts DEF ToolNames
  <1>2. Repriced(w, c, o) \in [OrderIds -> OrderRow \cup {None}]
    <2>1. w.orders \in [OrderIds -> OrderRow \cup {None}]
      BY DEF World
    <2>2. ASSUME c.reprice # None, w.orders[o] # None
          PROVE  [w.orders[o] EXCEPT !.price = c.reprice] \in OrderRow
      BY <2>1, <2>2 DEF OrderRow, Case
    <2> QED
      BY <2>1, <2>2 DEF Repriced
  <1>3. w.lookups = 0 => Repriced(w, c, o) = w.orders
    BY DEF Repriced
  <1> HIDE DEF l
  <1>4. /\ w.lookups \in Nat /\ l.lookups + 1 \in Nat /\ l.lookups + 1 # 0
    BY <1>1 DEF World
  <1> QED
    BY <1>1, <1>2, <1>3, <1>4 DEF AfterLookup, l, World

(* The row a lookup returns is a row of the table, the customer's own when the filter is on. *)
LEMMA SelectFacts ==
  ASSUME NEW w \in World, NEW o \in OrderIds, NEW filter \in BOOLEAN
  PROVE  /\ SelectOrder(w, o, filter) \in OrderRow \cup {None}
         /\ SelectOrder(w, o, filter) # None => SelectOrder(w, o, filter) = w.orders[o]
         /\ SelectOrder(w, o, TRUE) # None => w.orders[o].mine
  BY DEF SelectOrder, World

(* The history is a count, and while the run has issued nothing it is the seeded one. *)
LEMMA HistoryFacts ==
  ASSUME NEW w \in World, NEW c \in Case
  PROVE  /\ RefundHistory(w, c) \in Nat
         /\ w.refunds = << >> => RefundHistory(w, c) = RefundHistory(SeedWorld(c), c)
  <1> DEFINE recent == {i \in DOMAIN c.priors :
                          c.priors[i].mine /\ c.priors[i].age <= HISTORY_WINDOW_DAYS}
  <1>1. IsFiniteSet(DOMAIN c.priors)
    <2>1. c.priors \in Seq(PriorRow)
      BY DEF Case
    <2>2. DOMAIN c.priors = 1..Len(c.priors) /\ Len(c.priors) \in Nat
      BY <2>1
    <2> QED
      BY <2>2, FS_Interval
  <1>2. Cardinality(recent) \in Nat
    BY <1>1, FS_Subset, FS_CardinalityType
  <1>3. Len(w.refunds) \in Nat
    BY DEF World
  <1>4. RefundHistory(w, c) = Cardinality(recent) + Len(w.refunds)
    BY DEF RefundHistory
  <1>5. RefundHistory(SeedWorld(c), c) = Cardinality(recent) + Len(<< >>)
    BY DEF RefundHistory, SeedWorld
  <1> HIDE DEF recent
  <1> QED
    BY <1>2, <1>3, <1>4, <1>5

(* The verdict is one of the five reasons. *)
LEMMA EligibilityType ==
  ASSUME NEW row, NEW prior, NEW window
  PROVE  Eligibility(row, prior, window) \in Reasons
  BY DEF Eligibility, Reasons

(* A successful write appends one row under the next id; a failed one only logs. *)
LEMMA IssueFacts ==
  ASSUME NEW w \in World, NEW c \in Case, NEW o \in OrderIds, NEW t \in RefundTypes, NEW a \in Nat
  PROVE  /\ AfterIssue(w, c, o, t, a) \in World
         /\ AfterIssue(w, c, o, t, a).orders = w.orders
         /\ AfterIssue(w, c, o, t, a).lookups = w.lookups
         /\ Fails(c, "issue_refund") => AfterIssue(w, c, o, t, a).refunds = w.refunds
         /\ ~Fails(c, "issue_refund") =>
              AfterIssue(w, c, o, t, a).refunds
                = Append(w.refunds, [id |-> w.next_refund, order |-> o, type |-> t, amount |-> a])
  <1> DEFINE l == Logged(w, c, "issue_refund")
             row == [id |-> w.next_refund, order |-> o, type |-> t, amount |-> a]
  <1>1. /\ l \in World /\ l.refunds = w.refunds /\ l.orders = w.orders
        /\ l.lookups = w.lookups /\ l.next_refund = w.next_refund
    BY LoggedFacts DEF ToolNames
  <1>2. row \in RefundRow
    BY DEF RefundRow, World
  <1>3. Append(w.refunds, row) \in Seq(RefundRow)
    BY <1>2 DEF World
  <1>4. l.next_refund + 1 \in Nat
    BY <1>1 DEF World
  <1> HIDE DEF l, row
  <1> QED
    BY <1>1, <1>3, <1>4 DEF AfterIssue, l, row, World

(* Amounts are whole, non-negative numbers of cents. *)
LEMMA AmountType ==
  ASSUME NEW type, NEW price \in Nat
  PROVE  RefundAmount(type, price) \in Nat /\ TruncatedAmount(type, price) \in Nat
  <1>1. HalfOf(price) \in Nat
    BY DEF HalfOf
  <1>2. price \div DOLLAR \in Nat /\ price \div (2 * DOLLAR) \in Nat
    BY PolicyAssumption
  <1> QED
    BY <1>1, <1>2, PolicyAssumption DEF RefundAmount, TruncatedAmount
=============================================================================
