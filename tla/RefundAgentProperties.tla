----------------------- MODULE RefundAgentProperties -----------------------
(***************************************************************************)
(* What must hold of every run of the agent.                               *)
(***************************************************************************)
EXTENDS RefundAgent

(* Each variable of the run holds values of its kind (agent/state.py, agent/tools.py:23-51). *)
TypeOK ==
  /\ variant \in Variants /\ case \in Cases
  /\ st \in RefundState
  /\ world \in World
  /\ next \in Nodes \cup {"END"}
  /\ phase \in {"running", "paused", "done", "crashed"}
  /\ answer \in {None, "approve", "reject", "spent"}
  /\ steps \in Nat
  /\ fired \subseteq Marks
  /\ recording \in [classify: Classification \cup {None}, compute: SUBSET Decision, text: SUBSET Facts]
  /\ reply \in Facts \cup {None}

Payments ==
  [i \in DOMAIN world.refunds |->
     [order |-> world.refunds[i].order, type |-> world.refunds[i].type, amount |-> world.refunds[i].amount]]

Told ==
  IF reply = None THEN None
  ELSE IF reply.status = "issued"
       THEN <<[order |-> st.order_id, type |-> reply.plan_type, amount |-> reply.plan_amount]>>
       ELSE << >>

(* The variants that implement the promise: the valid ones and the prompt change D. *)
PromiseKeepers == VALID_VARIANTS \cup INDEPENDENT_VALID \cup {"D"}

(* A faulty variant makes no promise: what is shown of its run is one that grants nothing. *)
Promise == INSTANCE RefundPromise WITH
             ledger <- IF variant \in PromiseKeepers THEN Payments ELSE << >>,
             told   <- IF variant \in PromiseKeepers THEN Told ELSE IF reply = None THEN None ELSE << >>,
             over   <- Over

-----------------------------------------------------------------------------
(* No node body and no router ever reads a channel that is absent or None where it needs a value:  *)
(* state["order"], state["refund_amount"] > THRESHOLD and the like (agent/graph.py) never raise a   *)
(* KeyError or TypeError, on any path of any variant, and check_speculation (300-302) never raises. *)
NodeInputsReady ==
  phase \in {"running", "paused"} =>
    /\ next \in {"lookup_order", "get_refund_history", "gate"} => st.order_id # None
    /\ next = "check_eligibility" =>
         st.order # None /\ (variant # "M2" => st.prior_refunds # None)
    /\ next = "compute_refund" => st.order # None
    /\ next \in {"request_approval", "authorize_and_issue", "issue_refund"} =>
         /\ st.order # None /\ st.refund_type # None /\ st.refund_amount # None
         /\ st.refund_id = None

(* run_agent answers one interrupt only (agent/graph.py:520-522), so a second one would leave the *)
(* run suspended without a reply: no path of any variant meets an interrupt twice, and none       *)
(* outgrows the recursion limit.                                                                  *)
OneInterruptIsEnough ==
  /\ phase = "paused" => answer = None
  /\ steps <= 10

(* The ledger, the tool log and the graph state tell the same story, through retries, blind       *)
(* second writes (M7) and re-run nodes (V5): at most one row, written exactly when one successful *)
(* issue_refund call is logged, and the state names its id from then on.                          *)
LedgerMatchesLog ==
  LET issues == {i \in DOMAIN world.log : world.log[i].name = "issue_refund" /\ world.log[i].ok}
  IN /\ Len(world.refunds) <= 1
     /\ Cardinality(issues) = Len(world.refunds)
     /\ (st.refund_id # None) <=> (world.refunds # << >>)
     /\ world.refunds # << >> => world.refunds[1].id = st.refund_id

(* Every payment is due and every reply tells the ledger. *)
KeepsPromise ==
  /\ Len(world.refunds) <= 1
  /\ \A i \in DOMAIN Payments : Promise!Due(case, Payments[i])
  /\ reply # None => Told = Payments

(* The eval counts a mutant's run as a fault only when its marker fired (docs/variants.md), so no *)
(* wrong outcome may go unmarked: a run whose refund is not due or whose reply is not true is a   *)
(* run of a variant that is not valid, and its marker has fired.                                  *)
FaultsAreMarked == KeepsPromise \/ (variant \notin PromiseKeepers /\ fired # {})

(* alt_verify's re-read is the only thing between a repriced order and a stale refund: what it    *)
(* issues is worth its type at the price the database has at that moment (agent/graph.py:375-385).*)
VerifiedAmount ==
  variant = "alt_verify" =>
    \A i \in DOMAIN world.refunds :
      LET r == world.refunds[i]
      IN r.amount = RefundAmount(r.type, world.orders[r.order].price)

(* The pre-registration says M1's marker means that a 31-day-old delivery was let through          *)
(* (docs/part-1.2-preregistration.md:35): a run marked with it ends with an eligible order.         *)
M1MarkerMeansLetThrough ==
  "M1:window_off_by_one" \in fired /\ phase = "done" => st.eligibility = "within policy"

(* Every run ends: the driver's one resume is enough to get the graph to its end or to a failure.  *)
RunEnds == <>Over

(* The variants that are to keep it implement the promise, its liveness included: the driver ends *)
(* every run.                                                                                      *)
KeepsPromiseSpec == Promise!Spec

-----------------------------------------------------------------------------
(* The inductive invariant, by the question each part answers.  A fault is anything a mutant's    *)
(* marker has already owned up to.                                                                 *)
Marked(vs) == variant \in vs /\ fired # {}

Issuing == {"request_approval", "authorize_and_issue", "issue_refund"}

AfterIssuing == {"reconcile", "respond", "END"}

(* Which nodes a variant's graph has, and what the node about to run can rely on. *)
PathInv ==
  /\ next = "gate" => variant = "V6"
  /\ next = "lookup_order" => variant # "V6"
  /\ next = "get_refund_history" => variant \notin {"V2", "V6"}
  /\ next = "authorize_and_issue" => variant = "V5"
  /\ next \in {"request_approval", "issue_refund"} => variant # "V5"
  /\ next = "discard_plan" => variant = "V4"
  /\ next = "reconcile" => variant = "V3"
  /\ next \notin {"classify_request", "respond", "END"} => st.order_id # None
  /\ next \in {"check_eligibility", "compute_refund"} \cup Issuing => st.order # None
  /\ next = "get_refund_history" /\ variant # "alt_history_early" => st.order # None
  /\ next = "lookup_order" /\ variant = "alt_history_early" => st.prior_refunds # None
  /\ next = "check_eligibility" /\ variant # "M2" => st.prior_refunds # None
  /\ (st.refund_type = None) <=> (st.refund_amount = None)
  /\ st.refund_amount # None => st.order # None
  /\ next \in Issuing => st.refund_amount # None
  /\ st.error # None => next \in AfterIssuing \cup {"discard_plan"}
  /\ reply # None => next = "END"

(* The ledger is empty until a write succeeds, and the state knows the row from then on. *)
LedgerInv ==
  /\ st.refund_id = None => world.refunds = << >>
  /\ st.refund_id # None =>
       /\ next \in AfterIssuing
       /\ Len(world.refunds) = 1
       /\ world.refunds[1].id = st.refund_id
       /\ world.refunds[1].order = st.order_id
       /\ world.refunds[1].type = st.refund_type \/ Marked({"M6"})
       /\ world.refunds[1].amount = st.refund_amount
       /\ st.refund_amount # None /\ st.order_id # None

BeforeLookup ==
  \/ next \in {"classify_request", "lookup_order", "gate"}
  \/ next = "get_refund_history" /\ variant = "alt_history_early"

(* What the state holds is what the seeded world has, unless a marker says otherwise. *)
FaithfulInv ==
  /\ world.lookups = 0 => world.orders = case.orders
  /\ BeforeLookup => world.lookups = 0 /\ st.order = None /\ st.eligibility = None
  /\ next = "classify_request" => st = EmptyState
  /\ st.order # None =>
       st.order_id # None /\ ((st.order.mine /\ st.order = case.orders[st.order_id]) \/ Marked({"M3"}))
  /\ st.prior_refunds # None => st.prior_refunds = RefundHistory(SeedWorld(case), case)
  /\ st.refund_amount # None =>
       st.refund_amount = RefundAmount(st.refund_type, st.order.price) \/ Marked({"M5"})

(* Money moves only when the checks that guard it have passed, unless a marker says otherwise. *)
GuardInv ==
  /\ st.eligibility = "within policy" =>
       /\ st.order # None
       /\ \/ Eligibility(st.order, RefundHistory(SeedWorld(case), case), REFUND_WINDOW_DAYS) = "within policy"
          \/ Marked({"M1", "M2"})
  /\ next = "get_refund_history" /\ variant = "M2" => fired # {}
  /\ next \in {"compute_refund"} \cup Issuing =>
       \/ st.eligibility = "within policy"
       \/ Marked({"A", "E", "M2"})
       \/ variant = "V4" /\ next = "compute_refund" /\ st.eligibility = None
  /\ st.refund_id # None => st.eligibility = "within policy" \/ Marked({"A", "E", "M2"})
  /\ answer = "approve" \/ st.approval = "approve" => case.approval = "approve"
  /\ next = "issue_refund" \/ st.refund_id # None =>
       \/ st.refund_amount <= APPROVAL_THRESHOLD
       \/ st.approval = "approve"
       \/ Marked({"M4"})

(* The reply tells the ledger, unless a marker says otherwise. *)
ReplyInv == reply # None => Told = Payments \/ Marked({"B", "M6", "M8"})

AgentInv == TypeOK /\ PathInv /\ LedgerInv /\ FaithfulInv /\ GuardInv /\ ReplyInv
=============================================================================
