--------------------------- MODULE MCRefundAgent ---------------------------
(***************************************************************************)
(* Small worlds for the agent: one order that may be at each side of every *)
(* rule of the policy, an id that names no order, and every single fault.  *)
(***************************************************************************)
EXTENDS RefundAgentProperties

(* Two prices: at the threshold with an even half, and over it with a half that rounds up to it. *)
Row(price, age, excluded, mine) == [price |-> price, age |-> age, excluded |-> excluded, mine |-> mine]

PolicyRows ==
  {Row(p, a, FALSE, TRUE) : p \in {4, 9}, a \in {REFUND_WINDOW_DAYS, REFUND_WINDOW_DAYS + 1}}
  \cup {Row(9, REFUND_WINDOW_DAYS, TRUE, TRUE), Row(9, None, FALSE, TRUE),
        Row(9, REFUND_WINDOW_DAYS, FALSE, FALSE)}

(* An old refund and another customer's never count; the third one reaches the limit. *)
Priors(recent) ==
  <<[age |-> HISTORY_WINDOW_DAYS + 1, mine |-> TRUE], [age |-> 0, mine |-> FALSE]>>
  \o [i \in 1..recent |-> [age |-> HISTORY_WINDOW_DAYS, mine |-> TRUE]]

MCCases ==
  {[orders |-> [o \in OrderIds |-> IF o = "o1" THEN row ELSE None],
    priors |-> Priors(recent), faults |-> faults, reprice |-> reprice, approval |-> approval] :
     row \in PolicyRows,
     recent \in {MAX_PRIOR_REFUNDS - 1, MAX_PRIOR_REFUNDS},
     faults \in {{}} \cup {{t} : t \in ToolNames},
     reprice \in {None, 6},
     approval \in {None, "approve"}}
=============================================================================
