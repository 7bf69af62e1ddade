---------------------------- MODULE RefundAgent ----------------------------
(***************************************************************************)
(* One run of the refund agent (agent/graph.py, run_agent) in any of its   *)
(* variants.  An action is one superstep of the graph: the node's body     *)
(* with every tool and model call it makes, the write of its update, and   *)
(* the conditional edge evaluated on the state it leaves.  The model's     *)
(* replies are chosen by the environment and recorded, so that a second    *)
(* run over the same recording (AgentPair) gets the same replies.          *)
(***************************************************************************)
EXTENDS AgentRouting

CONSTANTS
  Variants,          \* the variants this model runs
  Cases,             \* the eval cases this model runs
  RECURSION_LIMIT    \* supersteps an invocation may take (25 in run_agent)

ASSUME RunAssumption ==
  /\ Variants \subseteq ALL_VARIANTS
  /\ \A c \in Cases : c \in Case
  /\ RECURSION_LIMIT \in Nat

VARIABLES
  variant, case,     \* which agent runs on which case; fixed during the run
  recording,         \* the model replies recorded so far
  st,                \* the graph state
  world,             \* the database, the counters and the tool log
  next,              \* the node the latest checkpoint is about to run
  phase,             \* "running", "paused" at an interrupt, "done", "crashed"
  answer,            \* the resume value being delivered to an interrupt, then "spent"
  steps,             \* supersteps taken by the current invocation
  fired,             \* the fault markers recorded
  reply              \* the facts the final message was written from

vars == <<variant, case, recording, st, world, next, phase, answer, steps, fired, reply>>

Prompts == {"COMPUTE_SYSTEM", "COMPUTE_SYSTEM_D"}

Classification == [intent: Intents, order_id: OrderIds \cup {None}]

Decision == [prompt: Prompts, price: Nat, type: RefundTypes]

Facts == [has_order_id: BOOLEAN, price: Nat \cup {None}, ineligible: Reasons \cup {None},
          plan_type: RefundTypes \cup {None}, plan_amount: Nat \cup {None},
          rejected: BOOLEAN, status: {"issued", "not issued"}, refund_id: Nat \cup {None},
          error: Errors \cup {None}]

(* A cache with no entry: what a run on a fresh namespace starts from. *)
EmptyRecording == [classify |-> None, compute |-> {}, text |-> {}]

(* The fresh world, thread and driver of one run; the __start__ superstep is behind it. *)
Start ==
  /\ st = EmptyState
  /\ world = SeedWorld(case)
  /\ next = "classify_request"
  /\ phase = "running"
  /\ answer = None
  /\ steps = 1
  /\ fired = {}
  /\ reply = None

Init ==
  /\ variant \in Variants
  /\ case \in Cases
  /\ recording = EmptyRecording
  /\ Start

-----------------------------------------------------------------------------
At(node) == phase = "running" /\ next = node

(* The end of a superstep: its update is written, its edge taken, its budget spent. *)
Step(node, s, w, marks) ==
  /\ st' = s
  /\ world' = w
  /\ next' = Route(variant, node, s)
  /\ fired' = fired \cup marks \cup RouteMarks(variant, node, s)
  /\ steps' = steps + 1
  /\ phase' = IF steps' > RECURSION_LIMIT THEN "crashed"
              ELSE IF next' = "END" THEN "done" ELSE "running"
  /\ answer' = IF answer = None THEN None ELSE "spent"
  /\ UNCHANGED <<variant, case>>

(* A node that writes {} or fails a read writes at most an error. *)
Failed(error) == [st EXCEPT !.error = error]

(* A model call that exhausts its retries raises through the graph. *)
Crash(w, marks) ==
  /\ phase' = "crashed"
  /\ world' = w
  /\ fired' = fired \cup marks
  /\ UNCHANGED <<variant, case, recording, st, next, answer, steps, reply>>

Quiet == UNCHANGED <<recording, reply>>

(* Mutant: V1's second attempt is not logged. *)
AfterFailedReadOnce(tool) == Logged(world, case, tool)

(* V1 wraps its reads in one retry; the fault is still there, so both attempts are logged. *)
AfterFailedRead(tool) ==
  IF variant = "V1" THEN Logged(Logged(world, case, tool), case, tool) ELSE Logged(world, case, tool)

RetryMarks == IF variant = "V1" THEN {"V1:retried_read"} ELSE {}

-----------------------------------------------------------------------------
ClassifyRequest ==
  /\ At("classify_request")
  /\ \E c \in Classification :
       /\ recording.classify \in {None, c}
       /\ recording' = [recording EXCEPT !.classify = c]
       /\ Step("classify_request", [st EXCEPT !.intent = c.intent, !.order_id = c.order_id], world, {})
  /\ UNCHANGED reply

ClassifyCrashes ==
  /\ At("classify_request")
  /\ recording.classify = None
  /\ Crash(world, {})

LookupOrderFails ==
  /\ At("lookup_order") /\ variant # "V2"
  /\ Fails(case, "lookup_order")
  /\ Step("lookup_order", Failed("lookup_order"),
          AfterFailedRead("lookup_order"), RetryMarks)
  /\ Quiet

(* M3 looks again without the owner filter when the customer's own lookup finds nothing. *)
LookupOrderAnswers ==
  /\ At("lookup_order") /\ variant # "V2"
  /\ ~Fails(case, "lookup_order")
  /\ LET first == AfterLookup(world, case, st.order_id)
         again == variant = "M3" /\ SelectOrder(first, st.order_id, TRUE) = None
         last  == IF again THEN AfterLookup(first, case, st.order_id) ELSE first
         row   == SelectOrder(last, st.order_id, ~again)
     IN Step("lookup_order",
             [st EXCEPT !.order = row, !.error = IF row = None THEN "no_order" ELSE @],
             last, IF again THEN {"M3:ownerless_lookup"} ELSE {})
  /\ Quiet

(* V2 reads the order and the history in one node, the history even when the order is missing. *)
FetchContext ==
  /\ At("lookup_order") /\ variant = "V2"
  /\ LET looked == AfterLookup(world, case, st.order_id)
         both   == Logged(looked, case, "get_refund_history")
         row    == SelectOrder(looked, st.order_id, TRUE)
     IN \/ /\ Fails(case, "lookup_order")
           /\ Step("lookup_order", Failed("lookup_order"), both, {"V2:history_read_on_failed_lookup"})
        \/ /\ ~Fails(case, "lookup_order") /\ row = None
           /\ Step("lookup_order", Failed("no_order"), both, {"V2:history_read_on_failed_lookup"})
        \/ /\ ~Fails(case, "lookup_order") /\ row # None /\ Fails(case, "get_refund_history")
           /\ Step("lookup_order",
                   [st EXCEPT !.order = row, !.error = "get_refund_history"], both, {})
        \/ /\ ~Fails(case, "lookup_order") /\ row # None /\ ~Fails(case, "get_refund_history")
           /\ Step("lookup_order",
                   [st EXCEPT !.order = row, !.prior_refunds = RefundHistory(looked, case)], both, {})
  /\ Quiet

HistoryFails ==
  /\ At("get_refund_history")
  /\ Fails(case, "get_refund_history")
  /\ Step("get_refund_history", Failed("get_refund_history"),
          AfterFailedRead("get_refund_history"), RetryMarks)
  /\ Quiet

HistoryAnswers ==
  /\ At("get_refund_history")
  /\ ~Fails(case, "get_refund_history")
  /\ Step("get_refund_history", [st EXCEPT !.prior_refunds = RefundHistory(world, case)],
          Logged(world, case, "get_refund_history"), {})
  /\ Quiet

-----------------------------------------------------------------------------
(* The reads the cost mutants add in front of the check. *)
AfterRedundantReads(w) ==
  CASE variant \in {"C", "C1"} -> AfterLookup(w, case, st.order_id)
    [] variant = "C2" -> Logged(w, case, "get_refund_history")
    [] OTHER -> w

(* The markers recorded before the check itself is called. *)
CheckMarks ==
  CASE variant = "C" -> {"C:redundant_lookup"}
    [] variant = "C1" -> {"C1:redundant_lookup"}
    [] variant = "C2" -> {"C2:redundant_history"}
    [] variant = "M2" -> {"M2:eligibility_before_history"}
    [] variant = "M1" /\ st.order.age = REFUND_WINDOW_DAYS + 1 -> {"M1:window_off_by_one"}
    [] OTHER -> {}

WindowDays == IF variant = "M1" THEN REFUND_WINDOW_DAYS + 1 ELSE REFUND_WINDOW_DAYS

PriorRefunds == IF variant = "M2" /\ st.prior_refunds = None THEN 0 ELSE st.prior_refunds

EligibilityFails ==
  /\ At("check_eligibility")
  /\ Fails(case, "check_eligibility")
  /\ LET w == AfterRedundantReads(world)
         retried == Logged(w, case, "check_eligibility")
     IN Step("check_eligibility", Failed("check_eligibility"),
             IF variant = "V1" THEN Logged(retried, case, "check_eligibility") ELSE retried,
             CheckMarks \cup RetryMarks)
  /\ Quiet

EligibilityAnswers ==
  /\ At("check_eligibility")
  /\ ~Fails(case, "check_eligibility")
  /\ Step("check_eligibility",
          [st EXCEPT !.eligibility = Eligibility(st.order, PriorRefunds, WindowDays)],
          Logged(AfterRedundantReads(world), case, "check_eligibility"), CheckMarks)
  /\ Quiet

(* V6 reads and checks in one node; each early return is a disjunct, in the code's order. *)
Gate ==
  /\ At("gate")
  /\ LET looked  == AfterLookup(world, case, st.order_id)
         row     == SelectOrder(looked, st.order_id, TRUE)
         counted == Logged(looked, case, "get_refund_history")
         history == RefundHistory(looked, case)
         checked == Logged(counted, case, "check_eligibility")
         found   == ~Fails(case, "lookup_order") /\ row # None
         read    == found /\ ~Fails(case, "get_refund_history")
     IN \/ /\ Fails(case, "lookup_order")
           /\ Step("gate", Failed("lookup_order"), looked, {})
        \/ /\ ~Fails(case, "lookup_order") /\ row = None
           /\ Step("gate", Failed("no_order"), looked, {})
        \/ /\ found /\ Fails(case, "get_refund_history")
           /\ Step("gate", [st EXCEPT !.order = row, !.error = "get_refund_history"], counted, {})
        \/ /\ read /\ Fails(case, "check_eligibility")
           /\ Step("gate", [st EXCEPT !.order = row, !.prior_refunds = history,
                                      !.error = "check_eligibility"], checked, {})
        \/ /\ read /\ ~Fails(case, "check_eligibility")
           /\ Step("gate", [st EXCEPT !.order = row, !.prior_refunds = history,
                                      !.eligibility = Eligibility(row, history, REFUND_WINDOW_DAYS)],
                   checked, {})
  /\ Quiet

(* Mutant: the speculative plan stays in the state. *)
DiscardNothing ==
  /\ At("discard_plan")
  /\ Step("discard_plan", st, world, {})
  /\ Quiet

DiscardPlan ==
  /\ At("discard_plan")
  /\ Step("discard_plan", [st EXCEPT !.refund_type = None, !.refund_amount = None], world,
          IF st.refund_amount # None THEN {"V4:speculative_plan_discarded"} ELSE {})
  /\ Quiet

-----------------------------------------------------------------------------
ComputePrompt == IF variant \in CHANGES THEN "COMPUTE_SYSTEM_D" ELSE "COMPUTE_SYSTEM"

(* The recorded decisions for this node's prompt: the order it quotes is part of the key. *)
Recorded ==
  {d \in recording.compute : d.prompt = ComputePrompt /\ d.price = st.order.price}

PlannedAmount(type, price) ==
  IF variant = "M5" THEN TruncatedAmount(type, price) ELSE RefundAmount(type, price)

AmountMarks(type, price) ==
  IF PlannedAmount(type, price) # RefundAmount(type, price) THEN {"M5:amount_truncated"} ELSE {}

(* C looks the order up again before three nodes and ignores what it reads. *)
AfterPrelude == IF variant = "C" THEN AfterLookup(world, case, st.order_id) ELSE world

PreludeMarks == IF variant = "C" THEN {"C:redundant_lookup"} ELSE {}

ComputeRefund ==
  /\ At("compute_refund")
  /\ \E t \in RefundTypes :
       LET decision == [prompt |-> ComputePrompt, price |-> st.order.price, type |-> t]
       IN /\ Recorded \subseteq {decision}
          /\ recording' = [recording EXCEPT !.compute = @ \cup {decision}]
          /\ Step("compute_refund",
                  [st EXCEPT !.refund_type = t, !.refund_amount = PlannedAmount(t, st.order.price)],
                  AfterPrelude, PreludeMarks \cup AmountMarks(t, st.order.price))
  /\ UNCHANGED reply

(* V4 computes before eligibility is known; a model failure there is set aside. *)
Speculating == variant = "V4" /\ st.eligibility = None

SpeculationFails ==
  /\ At("compute_refund")
  /\ Speculating /\ Recorded = {}
  /\ Step("compute_refund", st, world, {})
  /\ Quiet

ComputeCrashes ==
  /\ At("compute_refund")
  /\ ~Speculating /\ Recorded = {}
  /\ Crash(AfterPrelude, PreludeMarks)

-----------------------------------------------------------------------------
Answers == {"approve", "reject"}

NeedsApproval ==
  \/ At("request_approval")
  \/ At("authorize_and_issue") /\ st.refund_amount > APPROVAL_THRESHOLD

(* interrupt() with no answer yet: the superstep is abandoned and nothing is written. *)
Interrupt ==
  /\ NeedsApproval
  /\ answer \notin Answers
  /\ phase' = "paused"
  /\ UNCHANGED <<variant, case, recording, st, world, next, answer, steps, fired, reply>>

(* Mutant: no default for a case without a scripted approval. *)
ResumeUnscripted ==
  /\ phase = "paused"
  /\ answer = None
  /\ phase' = "running"
  /\ answer' = case.approval
  /\ steps' = 0
  /\ UNCHANGED <<variant, case, recording, st, world, next, fired, reply>>

(* Mutant: the default is not one of the two answers the graph knows. *)
ResumeMisspelt ==
  /\ phase = "paused"
  /\ answer = None
  /\ phase' = "running"
  /\ answer' = IF case.approval = None THEN "rejected" ELSE case.approval
  /\ steps' = 0
  /\ UNCHANGED <<variant, case, recording, st, world, next, fired, reply>>

(* run_agent's second and last stream: the scripted approval, or "reject", with a fresh budget. *)
Resume ==
  /\ phase = "paused"
  /\ answer = None
  /\ phase' = "running"
  /\ answer' = IF case.approval = None THEN "reject" ELSE case.approval
  /\ steps' = 0
  /\ UNCHANGED <<variant, case, recording, st, world, next, fired, reply>>

RequestApproval ==
  /\ At("request_approval")
  /\ answer \in Answers
  /\ Step("request_approval", [st EXCEPT !.approval = answer], world, {})
  /\ Quiet

(* V5's node runs again from its top when the interrupt resumes. *)
AuthorizationRefused ==
  /\ At("authorize_and_issue")
  /\ st.refund_id = None
  /\ NeedsApproval /\ answer = "reject"
  /\ Step("authorize_and_issue", [st EXCEPT !.approval = answer], world, {})
  /\ Quiet

AuthorizeAndIssue ==
  /\ At("authorize_and_issue")
  /\ st.refund_id = None
  /\ NeedsApproval => answer = "approve"
  /\ LET given == IF NeedsApproval THEN [st EXCEPT !.approval = answer] ELSE st
     IN Step("authorize_and_issue",
             IF Fails(case, "issue_refund") THEN [given EXCEPT !.error = "issue_refund"]
             ELSE [given EXCEPT !.refund_id = world.next_refund],
             AfterIssue(world, case, st.order_id, st.refund_type, st.refund_amount), {})
  /\ Quiet

-----------------------------------------------------------------------------
(* The lookups made directly before the write: C ignores its own, the alternates need theirs. *)
AfterReread ==
  IF variant \in {"C", "alt_recheck", "alt_verify"} THEN AfterLookup(world, case, st.order_id) ELSE world

RereadFails == variant \in {"alt_recheck", "alt_verify"} /\ Fails(case, "lookup_order")

(* Mutant: alt_verify only verifies that the order is still there. *)
OrderGone == variant = "alt_verify" /\ SelectOrder(AfterReread, st.order_id, TRUE) = None

OrderChanged ==
  /\ variant = "alt_verify"
  /\ LET current == SelectOrder(AfterReread, st.order_id, TRUE)
     IN current = None \/ current.price # st.order.price

(* M6 lets the payment default apply instead of the planned type. *)
IssuedType == IF variant = "M6" THEN "full" ELSE st.refund_type

IssueMarks ==
  PreludeMarks
  \cup (IF variant = "M6" /\ st.refund_type # "full" THEN {"M6:refund_type_dropped"} ELSE {})

IssueStopped ==
  /\ At("issue_refund")
  /\ RereadFails \/ OrderChanged
  /\ Step("issue_refund", Failed(IF RereadFails THEN "lookup_order" ELSE "order_changed"), AfterReread, {})
  /\ Quiet

IssueRefund ==
  /\ At("issue_refund")
  /\ ~(RereadFails \/ OrderChanged)
  /\ ~Fails(case, "issue_refund")
  /\ Step("issue_refund", [st EXCEPT !.refund_id = AfterReread.next_refund],
          AfterIssue(AfterReread, case, st.order_id, IssuedType, st.refund_amount), IssueMarks)
  /\ Quiet

(* M7 tries the write a second time, without an idempotency key. *)
IssueFails ==
  /\ At("issue_refund")
  /\ ~(RereadFails \/ OrderChanged)
  /\ Fails(case, "issue_refund")
  /\ LET once == AfterIssue(AfterReread, case, st.order_id, IssuedType, st.refund_amount)
     IN Step("issue_refund", Failed("issue_refund"),
             IF variant = "M7" THEN AfterIssue(once, case, st.order_id, IssuedType, st.refund_amount)
             ELSE once,
             IssueMarks \cup (IF variant = "M7" THEN {"M7:blind_retry"} ELSE {}))
  /\ Quiet

(* V3 reads the history once more after the write, whatever the write did. *)
Reconcile ==
  /\ At("reconcile")
  /\ Step("reconcile", st, Logged(world, case, "get_refund_history"), {"V3:reconcile_read"})
  /\ Quiet

-----------------------------------------------------------------------------
(* B reports the plan as done when the write failed. *)
FalseSuccess ==
  variant = "B" /\ st.error # None /\ st.refund_amount # None /\ st.refund_id = None

RespondMarks ==
  (IF FalseSuccess THEN {"B:false_success"} ELSE {})
  \cup (IF variant = "M8" /\ st.refund_type = "partial" /\ st.refund_amount # None
        THEN {"M8:price_rendered_as_amount"} ELSE {})

(* The facts the reply is written from; M8 shows the order's price for the planned amount. *)
RenderFacts ==
  LET issued == FalseSuccess \/ st.refund_id # None
  IN [has_order_id |-> st.order_id # None,
      price |-> IF st.order = None THEN None ELSE st.order.price,
      ineligible |-> IF st.eligibility = "within policy" THEN None ELSE st.eligibility,
      plan_type |-> IF st.refund_amount = None THEN None ELSE st.refund_type,
      plan_amount |-> IF variant = "M8" /\ st.refund_amount # None /\ st.order # None
                      THEN st.order.price ELSE st.refund_amount,
      rejected |-> st.approval = "reject",
      status |-> IF issued THEN "issued" ELSE "not issued",
      refund_id |-> IF FalseSuccess THEN None ELSE st.refund_id,
      error |-> IF issued THEN None ELSE st.error]

Respond ==
  /\ At("respond")
  /\ reply' = RenderFacts
  /\ recording' = [recording EXCEPT !.text = @ \cup {RenderFacts}]
  /\ Step("respond", st, world, RespondMarks)

RespondCrashes ==
  /\ At("respond")
  /\ RenderFacts \notin recording.text
  /\ Crash(world, RespondMarks)

-----------------------------------------------------------------------------
Over == phase \in {"done", "crashed"}

(* One superstep of the graph, an interrupt, or the driver's resume. *)
Next ==
  \/ ClassifyRequest \/ ClassifyCrashes
  \/ LookupOrderFails \/ LookupOrderAnswers \/ FetchContext
  \/ HistoryFails \/ HistoryAnswers
  \/ EligibilityFails \/ EligibilityAnswers
  \/ Gate \/ DiscardPlan
  \/ ComputeRefund \/ SpeculationFails \/ ComputeCrashes
  \/ Interrupt \/ Resume \/ RequestApproval
  \/ AuthorizationRefused \/ AuthorizeAndIssue
  \/ IssueStopped \/ IssueRefund \/ IssueFails
  \/ Reconcile
  \/ Respond \/ RespondCrashes

Spec == Init /\ [][Next]_vars /\ WF_vars(Next)
=============================================================================
