---------------------------- MODULE MCAgentPair ----------------------------
(***************************************************************************)
(* Worlds for the paired runs: the cases of MCRefundAgent's kind, with two *)
(* tools failing at once, so that an early stop can hide a later error.    *)
(***************************************************************************)
EXTENDS PairAnalysis

Row(price, age, excluded, mine) == [price |-> price, age |-> age, excluded |-> excluded, mine |-> mine]

PairRows ==
  {Row(p, REFUND_WINDOW_DAYS, FALSE, TRUE) : p \in {4, 9}}
  \cup {Row(9, REFUND_WINDOW_DAYS + 1, FALSE, TRUE), Row(9, REFUND_WINDOW_DAYS, FALSE, FALSE)}

PairWorld(row, priors, faults, reprice, approval) ==
  [orders |-> [o \in OrderIds |-> IF o = "o1" THEN row ELSE None],
   priors |-> priors, faults |-> faults, reprice |-> reprice, approval |-> approval]

(* Without a fault, also a customer at the limit of refunds, whom only a late history lets through. *)
MCCases ==
  {PairWorld(row, << >>, faults, reprice, approval) :
     row \in PairRows, faults \in {f \in SUBSET ToolNames : Cardinality(f) <= 2},
     reprice \in {None, 6}, approval \in {None, "approve", "reject"}}
  \cup {PairWorld(row, [i \in 1..MAX_PRIOR_REFUNDS |-> [age |-> 0, mine |-> TRUE]], {}, None, None) :
           row \in PairRows}
=============================================================================
