---------------------------- MODULE MCForkGroup ----------------------------
(***************************************************************************)
(* Worlds for a fork group under a budget of seven supersteps, which a     *)
(* refund without an approval outgrows: an order whose refunds both need   *)
(* one, given; an order whose half price does not, nobody answering and    *)
(* the write failing; and an order that is too old, which E alone refunds. *)
(***************************************************************************)
EXTENDS Part2Report

Order(price, age) == [price |-> price, age |-> age, excluded |-> FALSE, mine |-> TRUE]

Due == REFUND_WINDOW_DAYS

Late == REFUND_WINDOW_DAYS + 1

Worlds ==
  {<<Order(12, Due), {}, "approve">>, <<Order(9, Due), {"issue_refund"}, None>>}
  \cup {<<Order(12, Late), faults, approval>> : faults \in {{}, {"issue_refund"}}, approval \in {"approve", None}}

MCCases ==
  {[orders |-> [o \in OrderIds |-> w[1]], priors |-> << >>, faults |-> w[2],
    reprice |-> None, approval |-> w[3]] : w \in Worlds}

MCChangeLists == {<<"baseline">>, <<"D", "E">>}
=============================================================================
