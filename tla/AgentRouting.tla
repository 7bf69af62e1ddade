---------------------------- MODULE AgentRouting ----------------------------
(***************************************************************************)
(* The agent's variants and its conditional edges (agent/graph.py,         *)
(* make_routers).  Routers are pure functions of the graph state apart     *)
(* from the fault markers some of them record, so a run and the fork       *)
(* harness' replay of a change's routers use the same operators.           *)
(***************************************************************************)
EXTENDS RefundWorld

CONSTANT APPROVAL_THRESHOLD

VALID_VARIANTS == {"baseline", "alt_history_early", "alt_recheck", "alt_verify"}
MUTANTS == {"A", "B", "C", "C1", "C2"}
CHANGES == {"D", "E"}
INDEPENDENT_MUTANTS == {"M1", "M2", "M3", "M4", "M5", "M6", "M7", "M8"}
INDEPENDENT_VALID == {"V1", "V2", "V3", "V4", "V5", "V6"}
ALL_VARIANTS ==
  VALID_VARIANTS \cup MUTANTS \cup CHANGES \cup INDEPENDENT_MUTANTS \cup INDEPENDENT_VALID

Nodes == {"classify_request", "lookup_order", "get_refund_history", "check_eligibility",
          "gate", "compute_refund", "discard_plan", "request_approval",
          "authorize_and_issue", "issue_refund", "reconcile", "respond"}

(* Only "damaged" is told apart by the code; the other intents behave alike. *)
Intents == {"damaged", "other"}

(* What an error message says: the tool that failed, or what was found. *)
Errors == ToolNames \cup {"no_order", "order_changed"}

ASSUME RoutingAssumption ==
  /\ APPROVAL_THRESHOLD \in Nat
  /\ None \notin Intents \cup Errors

(* The markers the seeded faults and the alternates leave (V1's name the tool it retried). *)
Marks == {"A:skipped_eligibility", "B:false_success", "C:redundant_lookup", "C1:redundant_lookup",
          "C2:redundant_history", "E:damaged_fast_path", "M1:window_off_by_one",
          "M2:eligibility_before_history", "M3:ownerless_lookup", "M4:rejection_not_honoured",
          "M5:amount_truncated", "M6:refund_type_dropped", "M7:blind_retry",
          "M8:price_rendered_as_amount", "V1:retried_read", "V2:history_read_on_failed_lookup",
          "V3:reconcile_read", "V4:speculative_plan_discarded"}

(* The channels of RefundState; None stands for a key that is absent or None. *)
RefundState ==
  [intent: Intents \cup {None}, order_id: OrderIds \cup {None}, order: OrderRow \cup {None},
   prior_refunds: Nat \cup {None}, eligibility: Reasons \cup {None},
   refund_type: RefundTypes \cup {None}, refund_amount: Nat \cup {None},
   approval: {"approve", "reject", None}, refund_id: Nat \cup {None}, error: Errors \cup {None}]

EmptyState ==
  [intent |-> None, order_id |-> None, order |-> None, prior_refunds |-> None,
   eligibility |-> None, refund_type |-> None, refund_amount |-> None,
   approval |-> None, refund_id |-> None, error |-> None]

-----------------------------------------------------------------------------
AfterClassify(v, s) ==
  IF s.order_id = None THEN "respond"
  ELSE IF v = "V6" THEN "gate"
  ELSE IF v = "alt_history_early" THEN "get_refund_history"
  ELSE "lookup_order"

(* Mutant: a lookup that found nothing goes on like one that did. *)
AfterLookupRegardless(v, s) ==
  IF s.error \in ToolNames THEN "respond"
  ELSE IF v \in {"V2", "alt_history_early", "M2"} THEN "check_eligibility"
  ELSE IF v = "V4" THEN "compute_refund"
  ELSE "get_refund_history"

AfterLookupNode(v, s) ==
  IF s.error # None THEN "respond"
  ELSE IF v \in {"V2", "alt_history_early", "M2"} THEN "check_eligibility"
  ELSE IF v = "V4" THEN "compute_refund"
  ELSE "get_refund_history"

AfterHistory(v, s) ==
  IF s.error # None THEN (IF v = "V4" THEN "discard_plan" ELSE "respond")
  ELSE IF v = "alt_history_early" THEN "lookup_order"
  ELSE IF v = "M2" \/ (v = "A" /\ s.intent = "damaged") THEN "compute_refund"
  ELSE "check_eligibility"

AfterCompute(v, s) ==
  IF v = "V4" /\ s.eligibility = None THEN "get_refund_history"
  ELSE IF v = "V5" THEN "authorize_and_issue"
  ELSE IF s.refund_amount > APPROVAL_THRESHOLD THEN "request_approval"
  ELSE "issue_refund"

(* Mutant: the fast path of change E left on for everyone. *)
EntersFastPathAlways(v, s) ==
  s.error = None /\ s.eligibility # "within policy" /\ s.intent = "damaged"

EntersFastPath(v, s) ==
  /\ v = "E" /\ s.error = None
  /\ s.eligibility # "within policy" /\ s.intent = "damaged"

AfterEligibility(v, s) ==
  IF s.error # None THEN (IF v = "V4" THEN "discard_plan" ELSE "respond")
  ELSE IF s.eligibility = "within policy"
       THEN IF v = "V4" /\ s.refund_amount # None THEN AfterCompute(v, s)
            ELSE IF v = "M2" THEN "get_refund_history"
            ELSE "compute_refund"
  ELSE IF v = "V4" THEN "discard_plan"
  ELSE IF EntersFastPath(v, s) THEN "compute_refund"
  ELSE "respond"

(* Mutant: every variant ignores the answer, as M4 does. *)
AfterApprovalIgnored(v, s) == "issue_refund"

(* Mutant: a rejected plan is planned again. *)
AfterApprovalReplans(v, s) == IF s.approval = "approve" THEN "issue_refund" ELSE "compute_refund"

(* M4 compares with a literal no approval ever equals, so it always issues. *)
AfterApproval(v, s) ==
  IF v = "M4" \/ s.approval = "approve" THEN "issue_refund" ELSE "respond"

AfterGate(s) ==
  IF s.error # None \/ s.eligibility # "within policy" THEN "respond" ELSE "compute_refund"

(* Where a node's outgoing edge leads from state s: a router, or a fixed edge. *)
Route(v, node, s) ==
  CASE node = "classify_request" -> AfterClassify(v, s)
    [] node = "lookup_order" -> AfterLookupNode(v, s)
    [] node = "get_refund_history" -> AfterHistory(v, s)
    [] node = "check_eligibility" -> AfterEligibility(v, s)
    [] node = "compute_refund" -> AfterCompute(v, s)
    [] node = "request_approval" -> AfterApproval(v, s)
    [] node = "gate" -> AfterGate(s)
    [] node = "issue_refund" -> (IF v = "V3" THEN "reconcile" ELSE "respond")
    [] node \in {"discard_plan", "authorize_and_issue", "reconcile"} -> "respond"
    [] node = "respond" -> "END"

(* The fault markers a router records as a side effect. *)
RouteMarks(v, node, s) ==
  {m \in {"A:skipped_eligibility"} :
     node = "get_refund_history" /\ v = "A" /\ s.error = None /\ s.intent = "damaged"}
  \cup {m \in {"E:damaged_fast_path"} : node = "check_eligibility" /\ EntersFastPath(v, s)}
  \cup {m \in {"M4:rejection_not_honoured"} :
     node = "request_approval" /\ v = "M4" /\ s.approval = "reject"}
=============================================================================
