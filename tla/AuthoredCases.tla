--------------------------- MODULE AuthoredCases ---------------------------
(***************************************************************************)
(* What the case builder authors beside an environment: the acceptable end *)
(* states, the constraints and the reference trajectory                    *)
(* (evals/cases/build_cases.py).  A case is authored for the order its     *)
(* customer asks about and, when a refund is due, for a refund type.       *)
(***************************************************************************)
EXTENDS AgentRouting, Graders

REFUND_PATH == <<"lookup_order", "get_refund_history", "check_eligibility", "issue_refund">>

CHECKED_PATH == <<"lookup_order", "get_refund_history", "check_eligibility">>

(* Mutant: the history may be read at any time. *)
ORDERING_OF_LOOKUP == {<<"lookup_order", "check_eligibility">>, <<"check_eligibility", "issue_refund">>}

ORDERING == {<<"lookup_order", "check_eligibility">>, <<"get_refund_history", "check_eligibility">>,
             <<"check_eligibility", "issue_refund">>}

NoRefund == [refund_count |-> 0]

OneRefund(type, price) == [refund_count |-> 1, refund_type |-> type, amount |-> RefundAmount(type, price)]

(* What the builders have in common: how far the run has to come, and what it may do there. *)
StopsAtLookup(must, path) ==
  [end_states |-> {NoRefund}, reference |-> path, required |-> must,
   forbidden |-> {"check_eligibility", "issue_refund"}, ordering |-> {}, max_calls |-> << >>]

StopsAtCheck(path) ==
  [end_states |-> {NoRefund}, reference |-> path, required |-> {"lookup_order", "check_eligibility"},
   forbidden |-> {"issue_refund"}, ordering |-> ORDERING, max_calls |-> [lookup_order |-> 2]]

Issues(ends, issues) ==
  [end_states |-> ends, reference |-> REFUND_PATH,
   required |-> {"lookup_order", "check_eligibility", "issue_refund"}, forbidden |-> {},
   ordering |-> ORDERING, max_calls |-> [lookup_order |-> 2, issue_refund |-> issues]]

-----------------------------------------------------------------------------
NoIdCase == StopsAtLookup({}, << >>)

NotFoundCase == StopsAtLookup({"lookup_order"}, <<"lookup_order">>)

LookupFailureCase == NotFoundCase

IneligibleCase == StopsAtCheck(CHECKED_PATH)

ChangedOrderCase == StopsAtCheck(Append(CHECKED_PATH, "lookup_order"))

RefundFailureCase == Issues({NoRefund}, 2)

RefundCase(type, price, approval) ==
  IF RefundAmount(type, price) > APPROVAL_THRESHOLD /\ approval = "reject"
  THEN StopsAtCheck(CHECKED_PATH)
  ELSE Issues({OneRefund(type, price)}, 1)

MixedReasonCase(types, price) == Issues({OneRefund(t, price) : t \in types}, 1)

(* The gradings the builders can author for an environment and the order asked about.  Only        *)
(* refund_case takes an approval, and demands one above the threshold; the other builders' orders  *)
(* are cheaper than that wherever a refund could be tried.                                         *)
Authored(c, asked) ==
  LET row    == IF asked = None THEN None ELSE c.orders[asked]
      found  == row # None /\ row.mine
      due    == found /\ Eligibility(row, Len(c.priors), REFUND_WINDOW_DAYS) = "within policy"
      cheap  == found /\ row.price <= APPROVAL_THRESHOLD
      still  == c.approval = None
      calm   == c.faults = {} /\ c.reprice = None
  IN {g \in {NoIdCase}          : asked = None /\ calm /\ still}
     \cup {g \in {NotFoundCase}   : asked # None /\ ~found /\ calm /\ still}
     \cup {g \in {IneligibleCase} : found /\ ~due /\ calm /\ still}
     \cup {g \in {LookupFailureCase} : found /\ c.faults = {"lookup_order"} /\ c.reprice = None /\ still}
     \cup {g \in {RefundFailureCase} : due /\ cheap /\ c.faults = {"issue_refund"} /\ c.reprice = None /\ still}
     \cup {g \in {ChangedOrderCase}  : due /\ cheap /\ c.faults = {} /\ c.reprice # None /\ still}
     \cup (IF ~(due /\ calm) THEN {}
           ELSE {RefundCase(t, row.price, c.approval) :
                   t \in {u \in RefundTypes : RefundAmount(u, row.price) > APPROVAL_THRESHOLD => ~still}}
                \cup {MixedReasonCase(ts, row.price) :
                        ts \in {us \in SUBSET RefundTypes : us # {} /\ cheap /\ still}})
=============================================================================
