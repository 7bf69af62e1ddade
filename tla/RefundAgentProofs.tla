------------------------- MODULE RefundAgentProofs -------------------------
(***************************************************************************)
(* AgentInv is inductive, and what follows from it.  Then what AgentInv    *)
(* does not say by itself: that the ledger and the log move together, that *)
(* one interrupt and ten supersteps are enough, that alt_verify pays the   *)
(* current price - and, from these, that every step of a run is a step of  *)
(* RefundPromise or a stutter.                                             *)
(***************************************************************************)
EXTENDS RefundAgentProperties, RefundWorldLemmas

(* Every edge leads to a node of the graph or to its end. *)
LEMMA RouteType ==
  ASSUME NEW v, NEW s, NEW node \in Nodes
  PROVE  Route(v, node, s) \in Nodes \cup {"END"}
  BY DEF Route, Nodes, AfterClassify, AfterLookupNode, AfterHistory, AfterCompute, AfterEligibility,
         AfterApproval, AfterGate

(* The run starts in the invariant. *)
LEMMA InitInv == Init => AgentInv
  <1> SUFFICES ASSUME Init PROVE AgentInv
    OBVIOUS
  <1> USE DEF Init, Start
  <1>1. case \in Case
    BY RunAssumption
  <1>2. world \in World /\ world.refunds = << >> /\ world.lookups = 0 /\ world.orders = case.orders
    BY <1>1 DEF SeedWorld, World, Case
  <1>3. TypeOK
    BY <1>2, RunAssumption DEF TypeOK, RefundState, EmptyState, Nodes, EmptyRecording
  <1>4. PathInv /\ LedgerInv /\ FaithfulInv /\ GuardInv /\ ReplyInv
    BY <1>2, NoneAssumption DEF PathInv, LedgerInv, FaithfulInv, GuardInv, ReplyInv, EmptyState,
         BeforeLookup, Reasons, Issuing, AfterIssuing
  <1> QED
    BY <1>3, <1>4 DEF AgentInv

(* What the end of a superstep leaves of the types. *)
LEMMA StepType ==
  ASSUME TypeOK, NEW node \in Nodes, NEW s \in RefundState, NEW w \in World, NEW marks \in SUBSET Marks,
         Step(node, s, w, marks)
  PROVE  /\ variant' \in Variants /\ case' \in Cases
         /\ st' \in RefundState /\ world' \in World
         /\ next' \in Nodes \cup {"END"}
         /\ phase' \in {"running", "paused", "done", "crashed"}
         /\ answer' \in {None, "approve", "reject", "spent"}
         /\ steps' \in Nat /\ fired' \subseteq Marks
  <1>1. next' \in Nodes \cup {"END"}
    BY RouteType DEF Step
  <1>2. RouteMarks(variant, node, s) \subseteq Marks
    BY DEF RouteMarks, Marks
  <1> QED
    BY <1>1, <1>2 DEF TypeOK, Step

(* Failing a read is a distinct outcome: an error is never None. *)
LEMMA ErrorSet == \A e \in Errors : e # None
  BY RoutingAssumption

(* What the end of a superstep writes, without the arithmetic of its budget. *)
LEMMA StepFacts ==
  ASSUME TypeOK, NEW node, NEW s, NEW w, NEW marks, Step(node, s, w, marks)
  PROVE  /\ st' = s /\ world' = w /\ next' = Route(variant, node, s)
         /\ fired \subseteq fired' /\ marks \subseteq fired' /\ RouteMarks(variant, node, s) \subseteq fired'
         /\ variant' = variant /\ case' = case
         /\ answer' # "approve"
  BY NoneAssumption DEF Step

(* A run that fails inside a node keeps its thread; the calls it made stay made. *)
LEMMA CrashInv ==
  ASSUME AgentInv, NEW w \in World, NEW marks \in SUBSET Marks, Crash(w, marks),
         w.refunds = world.refunds,
         w.lookups = 0 => w.orders = case.orders,
         BeforeLookup => w = world
  PROVE  AgentInv'
  <1>1. /\ st' = st /\ world' = w /\ next' = next /\ reply' = reply /\ answer' = answer
        /\ variant' = variant /\ case' = case /\ fired \subseteq fired'
    BY DEF Crash
  <1>2. TypeOK'
    BY DEF Crash, AgentInv, TypeOK
  <1>3. PathInv' /\ LedgerInv'
    BY <1>1 DEF AgentInv, PathInv, LedgerInv, Marked
  <1>4. FaithfulInv'
    BY <1>1 DEF AgentInv, FaithfulInv, BeforeLookup, Marked
  <1>5. GuardInv'
    BY <1>1 DEF AgentInv, GuardInv, Marked
  <1>6. ReplyInv'
    BY <1>1 DEF AgentInv, ReplyInv, Told, Payments, Marked
  <1> QED
    BY <1>2, <1>3, <1>4, <1>5, <1>6 DEF AgentInv

(* classify_request *)
LEMMA ClassifyInv == AgentInv /\ (ClassifyRequest \/ ClassifyCrashes) => AgentInv'
  <1>1. ASSUME AgentInv, ClassifyCrashes PROVE AgentInv'
    BY <1>1, CrashInv DEF ClassifyCrashes, At, AgentInv, TypeOK, FaithfulInv, BeforeLookup
  <1>2. ASSUME AgentInv, ClassifyRequest PROVE AgentInv'
    <2>1. PICK c \in Classification :
            /\ recording' = [recording EXCEPT !.classify = c]
            /\ Step("classify_request", [st EXCEPT !.intent = c.intent, !.order_id = c.order_id], world, {})
      BY <1>2 DEF ClassifyRequest
    <2> DEFINE s == [st EXCEPT !.intent = c.intent, !.order_id = c.order_id]
    <2>2. TypeOK /\ next = "classify_request" /\ st = EmptyState /\ world.lookups = 0 /\ reply' = reply
      <3>1. next = "classify_request" /\ reply' = reply
        BY <1>2 DEF ClassifyRequest, At
      <3> QED
        BY <1>2, <3>1 DEF AgentInv, FaithfulInv, BeforeLookup
    <2>3. /\ s \in RefundState /\ s.order_id = c.order_id
          /\ s.order = None /\ s.prior_refunds = None /\ s.eligibility = None
          /\ s.refund_type = None /\ s.refund_amount = None /\ s.approval = None
          /\ s.refund_id = None /\ s.error = None
      BY <2>2 DEF EmptyState, RefundState, Classification
    <2>4. next' = AfterClassify(variant, s)
      BY <2>1, <2>2, StepFacts DEF Route
    <2>5. st' = s /\ world' = world /\ fired \subseteq fired' /\ UNCHANGED <<variant, case, reply>>
          /\ answer' # "approve"
      BY <2>1, <2>2, StepFacts
    <2> HIDE DEF s
    <2>6. TypeOK'
      <3>1. recording' = [recording EXCEPT !.classify = c] /\ reply' = reply
        BY <2>1, <2>2
      <3>2. recording' \in [classify: Classification \cup {None}, compute: SUBSET Decision, text: SUBSET Facts]
        BY <3>1, <2>2 DEF TypeOK
      <3> QED
        BY <2>1, <2>2, <2>3, <3>1, <3>2, StepType DEF TypeOK, Nodes, s
    <2>7. PathInv'
      BY <1>2, <2>2, <2>3, <2>4, <2>5 DEF AgentInv, PathInv, AfterClassify, Issuing, AfterIssuing
    <2>8. LedgerInv'
      BY <1>2, <2>2, <2>3, <2>5 DEF AgentInv, LedgerInv, EmptyState
    <2>9. FaithfulInv'
      BY <1>2, <2>2, <2>3, <2>4, <2>5 DEF AgentInv, FaithfulInv, AfterClassify, BeforeLookup
    <2>10. GuardInv'
      BY <1>2, <2>2, <2>3, <2>4, <2>5, NoneAssumption
         DEF AgentInv, GuardInv, AfterClassify, Issuing, Reasons
    <2>11. ReplyInv'
      BY <1>2, <2>2, <2>5 DEF AgentInv, PathInv, ReplyInv
    <2> QED
      BY <2>6, <2>7, <2>8, <2>9, <2>10, <2>11 DEF AgentInv
  <1> QED
    BY <1>1, <1>2

(* The first reads, in whichever node makes them (lookup_order, V2's fetch_context, V6's gate): *)
(* what they bring into the state is what the seeded world holds.                               *)
LEMMA FirstReadInv ==
  ASSUME AgentInv, NEW node \in {"lookup_order", "gate"}, next = node,
         NEW s \in RefundState, NEW w \in World, NEW marks \in SUBSET Marks,
         Step(node, s, w, marks), Quiet,
         w.refunds = world.refunds, w.lookups = 0 => w.orders = case.orders,
         s.order_id = st.order_id, s.approval = st.approval, s.refund_id = st.refund_id,
         s.refund_type = st.refund_type, s.refund_amount = st.refund_amount,
         s.order # None =>
           (s.order.mine /\ s.order = case.orders[st.order_id]) \/ (variant = "M3" /\ marks # {}),
         s.prior_refunds \in {st.prior_refunds, RefundHistory(SeedWorld(case), case)},
         s.prior_refunds = None => s.prior_refunds = st.prior_refunds,
         s.eligibility # None =>
           /\ s.order # None
           /\ s.eligibility = Eligibility(s.order, RefundHistory(SeedWorld(case), case), REFUND_WINDOW_DAYS),
         s.error = None => s.order # None,
         s.error = None /\ node = "gate" => s.eligibility # None,
         s.error = None /\ node = "lookup_order" => s.eligibility = None,
         s.error = None /\ variant = "V2" => s.prior_refunds # None
  PROVE  AgentInv'
  <1>1. /\ st' = s /\ world' = w /\ fired \subseteq fired' /\ marks \subseteq fired'
        /\ next' = (IF node = "gate" THEN AfterGate(s) ELSE AfterLookupNode(variant, s))
        /\ UNCHANGED <<variant, case, reply>> /\ answer' # "approve"
    BY StepFacts DEF AgentInv, Route, Quiet
  <1>2. /\ st.order = None /\ st.eligibility = None /\ st.refund_id = None /\ st.refund_amount = None
        /\ st.refund_type = None /\ st.order_id # None /\ reply = None
        /\ node = "gate" => variant = "V6"
    BY DEF AgentInv, PathInv, LedgerInv, FaithfulInv, BeforeLookup, AfterIssuing
  <1>3. TypeOK'
    BY StepType DEF AgentInv, TypeOK, Nodes, Quiet
  <1>4. PathInv'
    BY <1>1, <1>2 DEF AgentInv, PathInv, AfterGate, AfterLookupNode, Issuing, AfterIssuing
  <1>5. LedgerInv'
    BY <1>1, <1>2 DEF AgentInv, LedgerInv
  <1>6. FaithfulInv'
    <2>1. /\ next' \notin {"classify_request", "lookup_order", "gate"}
          /\ next' = "get_refund_history" => variant' # "alt_history_early"
      BY <1>1 DEF AfterGate, AfterLookupNode
    <2>2. world'.lookups = 0 => world'.orders = case'.orders
      BY <1>1
    <2>3. st'.order # None =>
            /\ st'.order_id # None
            /\ (st'.order.mine /\ st'.order = case'.orders[st'.order_id]) \/ (variant' \in {"M3"} /\ fired' # {})
      BY <1>1, <1>2
    <2>4. st'.prior_refunds # None => st'.prior_refunds = RefundHistory(SeedWorld(case'), case')
      BY <1>1 DEF AgentInv, FaithfulInv
    <2> QED
      BY <1>1, <1>2, <2>1, <2>2, <2>3, <2>4 DEF FaithfulInv, BeforeLookup, Marked
  <1>7. GuardInv'
    <2>1. st'.eligibility = "within policy" =>
            /\ st'.order # None
            /\ Eligibility(st'.order, RefundHistory(SeedWorld(case'), case'), REFUND_WINDOW_DAYS) = "within policy"
      BY <1>1, NoneAssumption DEF Reasons
    <2>2. next' \in {"compute_refund"} \cup Issuing =>
            \/ st'.eligibility = "within policy"
            \/ variant' = "V4" /\ next' = "compute_refund" /\ st'.eligibility = None
      BY <1>1, <1>2 DEF AfterGate, AfterLookupNode, Issuing
    <2>3. next' # "issue_refund" /\ (next' = "get_refund_history" => variant' # "M2")
      BY <1>1, <1>2 DEF AfterGate, AfterLookupNode
    <2> QED
      BY <1>1, <1>2, <2>1, <2>2, <2>3 DEF AgentInv, GuardInv
  <1>8. ReplyInv'
    BY <1>1, <1>2 DEF ReplyInv
  <1> QED
    BY <1>3, <1>4, <1>5, <1>6, <1>7, <1>8 DEF AgentInv

(* The facts about a run that has not looked its order up yet. *)
LEMMA FreshFacts ==
  ASSUME AgentInv, BeforeLookup, next # "classify_request"
  PROVE  /\ st \in RefundState /\ world \in World /\ case \in Case /\ st.order_id \in OrderIds
         /\ st.order = None /\ st.eligibility = None /\ st.error = None
         /\ world.lookups = 0 /\ world.orders = case.orders /\ world.refunds = << >>
  BY RunAssumption DEF AgentInv, TypeOK, PathInv, LedgerInv, FaithfulInv, BeforeLookup, RefundState, AfterIssuing

(* lookup_order, when the tool fails. *)
LEMMA LookupFailsInv == AgentInv /\ LookupOrderFails => AgentInv'
  <1> SUFFICES ASSUME AgentInv, LookupOrderFails PROVE AgentInv'
    OBVIOUS
  <1> DEFINE w == AfterFailedRead("lookup_order")
             s == Failed("lookup_order")
  <1>1. next = "lookup_order" /\ Step("lookup_order", s, w, RetryMarks) /\ Quiet
    BY DEF LookupOrderFails, At
  <1>2. /\ st \in RefundState /\ world \in World /\ st.order = None /\ st.eligibility = None
        /\ world.orders = case.orders
    BY <1>1, FreshFacts DEF BeforeLookup
  <1>3. w \in World /\ w.refunds = world.refunds /\ w.orders = world.orders
    BY <1>2, LoggedFacts DEF AfterFailedRead, ToolNames
  <1>4. /\ s \in RefundState /\ s.order_id = st.order_id /\ s.order = None /\ s.eligibility = None
        /\ s.prior_refunds = st.prior_refunds /\ s.refund_type = st.refund_type
        /\ s.refund_amount = st.refund_amount /\ s.approval = st.approval /\ s.refund_id = st.refund_id
        /\ s.error # None
    BY <1>2, ErrorSet DEF Failed, RefundState, Errors, ToolNames
  <1>5. RetryMarks \in SUBSET Marks
    BY DEF RetryMarks, Marks
  <1> HIDE DEF w, s
  <1> QED
    BY <1>1, <1>2, <1>3, <1>4, <1>5, FirstReadInv

(* lookup_order, when the tool answers; M3's second lookup is marked. *)
LEMMA LookupAnswersInv == AgentInv /\ LookupOrderAnswers => AgentInv'
  <1> SUFFICES ASSUME AgentInv, LookupOrderAnswers PROVE AgentInv'
    OBVIOUS
  <1> DEFINE o     == st.order_id
             first == AfterLookup(world, case, o)
             again == variant = "M3" /\ SelectOrder(first, o, TRUE) = None
             last  == IF again THEN AfterLookup(first, case, o) ELSE first
             row   == SelectOrder(last, o, ~again)
             s     == [st EXCEPT !.order = row, !.error = IF row = None THEN "no_order" ELSE @]
             marks == IF again THEN {"M3:ownerless_lookup"} ELSE {}
  <1>1. next = "lookup_order" /\ variant # "V2" /\ Step("lookup_order", s, last, marks) /\ Quiet
    BY DEF LookupOrderAnswers, At
  <1>2. /\ st \in RefundState /\ world \in World /\ case \in Case /\ o \in OrderIds /\ world.lookups = 0
        /\ world.orders = case.orders /\ st.eligibility = None /\ st.error = None
    BY <1>1, FreshFacts DEF BeforeLookup
  <1> HIDE DEF o
  <1>3. /\ first \in World /\ first.refunds = world.refunds /\ first.orders = case.orders
    BY <1>2, LookupFacts
  <1> HIDE DEF first
  <1>4. /\ last \in World /\ last.refunds = world.refunds
        /\ last.lookups = 0 => last.orders = case.orders
        /\ ~again => last = first
    BY <1>2, <1>3, LookupFacts
  <1>5. row \in OrderRow \cup {None} /\ (row # None /\ ~again => row = case.orders[o] /\ row.mine)
    <2>1. row \in OrderRow \cup {None}
      BY <1>2, <1>4, SelectFacts
    <2>2. row # None /\ ~again => row = first.orders[o] /\ row.mine
      BY <1>4 DEF SelectOrder
    <2> QED
      BY <2>1, <2>2, <1>3
  <1> HIDE DEF last
  <1>6. marks \in SUBSET Marks /\ (again => variant = "M3" /\ marks # {})
    BY DEF Marks
  <1> HIDE DEF again, row, marks
  <1>7. /\ s \in RefundState /\ s.order_id = o /\ s.order = row /\ s.eligibility = None
        /\ s.prior_refunds = st.prior_refunds /\ s.refund_type = st.refund_type
        /\ s.refund_amount = st.refund_amount /\ s.approval = st.approval /\ s.refund_id = st.refund_id
        /\ s.error = None => row # None
    <2>1. CASE row = None
      <3>1. s = [st EXCEPT !.order = row, !.error = "no_order"]
        BY <2>1
      <3> HIDE DEF s
      <3> QED
        BY <1>2, <1>5, <2>1, <3>1, ErrorSet DEF RefundState, Errors, o
    <2>2. CASE row # None
      <3>1. s = [st EXCEPT !.order = row, !.error = st.error]
        BY <2>2
      <3> HIDE DEF s
      <3> QED
        BY <1>2, <1>5, <2>2, <3>1 DEF RefundState, o
    <2> QED
      BY <2>1, <2>2
  <1> HIDE DEF s
  <1> QED
    BY <1>1, <1>2, <1>4, <1>5, <1>6, <1>7, FirstReadInv DEF o

(* V2's fetch_context. *)
LEMMA FetchContextInv == AgentInv /\ FetchContext => AgentInv'
  <1> SUFFICES ASSUME AgentInv, FetchContext PROVE AgentInv'
    OBVIOUS
  <1> DEFINE o       == st.order_id
             looked  == AfterLookup(world, case, o)
             both    == Logged(looked, case, "get_refund_history")
             row     == SelectOrder(looked, o, TRUE)
             history == RefundHistory(looked, case)
             mark    == {"V2:history_read_on_failed_lookup"}
             found   == [st EXCEPT !.order = row, !.prior_refunds = history]
             half    == [st EXCEPT !.order = row, !.error = "get_refund_history"]
  <1>1. next = "lookup_order" /\ variant = "V2" /\ Quiet
    BY DEF FetchContext, At
  <1>2. /\ st \in RefundState /\ world \in World /\ case \in Case /\ o \in OrderIds /\ world.lookups = 0
        /\ world.orders = case.orders /\ st.order = None /\ st.eligibility = None /\ st.error = None
        /\ world.refunds = << >>
    BY <1>1, FreshFacts DEF BeforeLookup
  <1>3. \/ \E e \in {"lookup_order", "no_order"} : Step("lookup_order", Failed(e), both, mark)
        \/ row # None /\ Step("lookup_order", half, both, {})
        \/ row # None /\ Step("lookup_order", found, both, {})
    BY DEF FetchContext
  <1> HIDE DEF o
  <1>4. /\ looked \in World /\ looked.refunds = << >> /\ looked.orders = case.orders
    BY <1>2, LookupFacts
  <1>5. row \in OrderRow \cup {None} /\ (row # None => row = case.orders[o] /\ row.mine)
    BY <1>2, <1>4 DEF SelectOrder, World
  <1> HIDE DEF looked
  <1>6. both \in World /\ both.refunds = world.refunds /\ both.orders = case.orders
    BY <1>2, <1>4, LoggedFacts DEF ToolNames
  <1>7. history \in Nat /\ history = RefundHistory(SeedWorld(case), case)
    BY <1>2, <1>4, HistoryFacts
  <1>8. mark \in SUBSET Marks /\ {} \in SUBSET Marks /\ "lookup_order" \in {"lookup_order", "gate"}
    BY DEF Marks
  <1> HIDE DEF both, row, history, mark
  <1>9. ASSUME NEW e \in {"lookup_order", "no_order"}, Step("lookup_order", Failed(e), both, mark)
        PROVE  AgentInv'
    <2> DEFINE s == Failed(e)
    <2>1. /\ s \in RefundState /\ s.order_id = st.order_id /\ s.order = None /\ s.eligibility = None
          /\ s.prior_refunds = st.prior_refunds /\ s.refund_type = st.refund_type
          /\ s.refund_amount = st.refund_amount /\ s.approval = st.approval /\ s.refund_id = st.refund_id
          /\ s.error # None
      BY <1>2, ErrorSet DEF Failed, RefundState, Errors, ToolNames
    <2>2. Step("lookup_order", s, both, mark)
      BY <1>9
    <2> HIDE DEF s
    <2> QED
      BY <1>1, <1>6, <1>8, <2>1, <2>2, FirstReadInv
  <1>10. ASSUME row # None, Step("lookup_order", half, both, {})
         PROVE  AgentInv'
    <2>1. /\ half \in RefundState /\ half.order_id = st.order_id /\ half.order = row /\ half.eligibility = None
          /\ half.prior_refunds = st.prior_refunds /\ half.refund_type = st.refund_type
          /\ half.refund_amount = st.refund_amount /\ half.approval = st.approval
          /\ half.refund_id = st.refund_id /\ half.error # None
      BY <1>2, <1>5, ErrorSet DEF RefundState, Errors, ToolNames
    <2> HIDE DEF half
    <2> QED
      BY <1>1, <1>5, <1>6, <1>8, <1>10, <2>1, FirstReadInv DEF o
  <1>11. ASSUME row # None, Step("lookup_order", found, both, {})
         PROVE  AgentInv'
    <2>1. /\ found \in RefundState /\ found.order_id = st.order_id /\ found.order = row
          /\ found.eligibility = None
          /\ found.prior_refunds = history /\ found.refund_type = st.refund_type
          /\ found.refund_amount = st.refund_amount /\ found.approval = st.approval
          /\ found.refund_id = st.refund_id
      BY <1>2, <1>5, <1>7 DEF RefundState
    <2>2. found.prior_refunds # None
      BY <1>7, <2>1, NoneAssumption
    <2> HIDE DEF found
    <2> QED
      BY <1>1, <1>5, <1>6, <1>7, <1>8, <1>11, <2>1, <2>2, FirstReadInv DEF o
  <1> QED
    BY <1>3, <1>9, <1>10, <1>11

(* V6's gate. *)
LEMMA GateInv == AgentInv /\ Gate => AgentInv'
  <1> SUFFICES ASSUME AgentInv, Gate PROVE AgentInv'
    OBVIOUS
  <1> DEFINE o       == st.order_id
             looked  == AfterLookup(world, case, o)
             row     == SelectOrder(looked, o, TRUE)
             counted == Logged(looked, case, "get_refund_history")
             history == RefundHistory(looked, case)
             checked == Logged(counted, case, "check_eligibility")
             reason  == Eligibility(row, history, REFUND_WINDOW_DAYS)
             half    == [st EXCEPT !.order = row, !.error = "get_refund_history"]
             most    == [st EXCEPT !.order = row, !.prior_refunds = history, !.error = "check_eligibility"]
             whole   == [st EXCEPT !.order = row, !.prior_refunds = history, !.eligibility = reason]
  <1>1. next = "gate" /\ Quiet
    BY DEF Gate, At
  <1>2. /\ st \in RefundState /\ world \in World /\ case \in Case /\ o \in OrderIds /\ world.lookups = 0
        /\ world.orders = case.orders /\ st.order = None /\ st.eligibility = None /\ st.error = None
        /\ world.refunds = << >> /\ variant = "V6"
    BY <1>1, FreshFacts DEF BeforeLookup, AgentInv, PathInv
  <1>3. \/ \E e \in {"lookup_order", "no_order"} : Step("gate", Failed(e), looked, {})
        \/ row # None /\ Step("gate", half, counted, {})
        \/ row # None /\ Step("gate", most, checked, {})
        \/ row # None /\ Step("gate", whole, checked, {})
    BY DEF Gate
  <1> HIDE DEF o
  <1>4. /\ looked \in World /\ looked.refunds = world.refunds /\ looked.orders = case.orders
    BY <1>2, LookupFacts
  <1>5. row \in OrderRow \cup {None} /\ (row # None => row = case.orders[o] /\ row.mine)
    BY <1>2, <1>4 DEF SelectOrder, World
  <1> HIDE DEF looked
  <1>6. counted \in World /\ counted.refunds = world.refunds /\ counted.orders = case.orders
    BY <1>4, LoggedFacts DEF ToolNames
  <1>7. history \in Nat /\ history = RefundHistory(SeedWorld(case), case)
    BY <1>2, <1>4, HistoryFacts
  <1> HIDE DEF counted, row, history
  <1>8. checked \in World /\ checked.refunds = world.refunds /\ checked.orders = case.orders
    BY <1>6, LoggedFacts DEF ToolNames
  <1>9. {} \in SUBSET Marks /\ "gate" \in {"lookup_order", "gate"}
    BY DEF Marks
  <1>10. reason \in Reasons /\ reason # None
         /\ reason = Eligibility(row, RefundHistory(SeedWorld(case), case), REFUND_WINDOW_DAYS)
    BY EligibilityType, NoneAssumption, <1>7
  <1> HIDE DEF checked, reason
  <1>11. ASSUME NEW e \in {"lookup_order", "no_order"}, Step("gate", Failed(e), looked, {})
         PROVE  AgentInv'
    <2> DEFINE s == Failed(e)
    <2>1. /\ s \in RefundState /\ s.order_id = st.order_id /\ s.order = None /\ s.eligibility = None
          /\ s.prior_refunds = st.prior_refunds /\ s.refund_type = st.refund_type
          /\ s.refund_amount = st.refund_amount /\ s.approval = st.approval /\ s.refund_id = st.refund_id
          /\ s.error # None
      BY <1>2, ErrorSet DEF Failed, RefundState, Errors, ToolNames
    <2>2. Step("gate", s, looked, {})
      BY <1>11
    <2> HIDE DEF s
    <2> QED
      BY <1>1, <1>4, <1>9, <2>1, <2>2, FirstReadInv
  <1>12. ASSUME row # None, Step("gate", half, counted, {})
         PROVE  AgentInv'
    <2>1. /\ half \in RefundState /\ half.order_id = st.order_id /\ half.order = row /\ half.eligibility = None
          /\ half.prior_refunds = st.prior_refunds /\ half.refund_type = st.refund_type
          /\ half.refund_amount = st.refund_amount /\ half.approval = st.approval
          /\ half.refund_id = st.refund_id /\ half.error # None
      BY <1>2, <1>5, ErrorSet DEF RefundState, Errors, ToolNames
    <2> HIDE DEF half
    <2> QED
      BY <1>1, <1>5, <1>6, <1>9, <1>12, <2>1, FirstReadInv DEF o
  <1>13. ASSUME row # None, Step("gate", most, checked, {})
         PROVE  AgentInv'
    <2>1. /\ most \in RefundState /\ most.order_id = st.order_id /\ most.order = row /\ most.eligibility = None
          /\ most.prior_refunds = history /\ most.refund_type = st.refund_type
          /\ most.refund_amount = st.refund_amount /\ most.approval = st.approval
          /\ most.refund_id = st.refund_id /\ most.error # None
      BY <1>2, <1>5, <1>7, ErrorSet DEF RefundState, Errors, ToolNames
    <2>2. most.prior_refunds # None
      BY <1>7, <2>1, NoneAssumption
    <2> HIDE DEF most
    <2> QED
      BY <1>1, <1>5, <1>7, <1>8, <1>9, <1>13, <2>1, <2>2, FirstReadInv DEF o
  <1>14. ASSUME row # None, Step("gate", whole, checked, {})
         PROVE  AgentInv'
    <2>1. /\ whole \in RefundState /\ whole.order_id = st.order_id /\ whole.order = row
          /\ whole.eligibility = reason
          /\ whole.prior_refunds = history /\ whole.refund_type = st.refund_type
          /\ whole.refund_amount = st.refund_amount /\ whole.approval = st.approval
          /\ whole.refund_id = st.refund_id
      BY <1>2, <1>5, <1>7, <1>10 DEF RefundState
    <2>2. whole.prior_refunds # None /\ whole.eligibility # None
      BY <1>7, <1>10, <2>1, NoneAssumption
    <2> HIDE DEF whole
    <2> QED
      BY <1>1, <1>2, <1>5, <1>7, <1>8, <1>9, <1>10, <1>14, <2>1, <2>2, FirstReadInv DEF o
  <1> QED
    BY <1>3, <1>11, <1>12, <1>13, <1>14

(* What every late read starts from. *)
LEMMA ReadFacts ==
  ASSUME AgentInv, next \in {"get_refund_history", "check_eligibility"}
  PROVE  /\ st \in RefundState /\ world \in World /\ case \in Case /\ st.order_id \in OrderIds
         /\ st.error = None /\ st.refund_id = None /\ world.refunds = << >> /\ reply = None
         /\ world.lookups = 0 => world.orders = case.orders
  BY RunAssumption DEF AgentInv, TypeOK, PathInv, LedgerInv, FaithfulInv, RefundState, AfterIssuing

(* get_refund_history, when the tool fails. *)
LEMMA HistoryFailsInv == AgentInv /\ HistoryFails => AgentInv'
  <1> SUFFICES ASSUME AgentInv, HistoryFails PROVE AgentInv'
    OBVIOUS
  <1> DEFINE w == AfterFailedRead("get_refund_history")
             s == Failed("get_refund_history")
  <1>1. next = "get_refund_history" /\ Step("get_refund_history", s, w, RetryMarks) /\ Quiet
    BY DEF HistoryFails, At
  <1>2. /\ st \in RefundState /\ world \in World /\ case \in Case /\ st.order_id \in OrderIds
        /\ st.error = None /\ st.refund_id = None /\ world.refunds = << >> /\ reply = None
    BY <1>1, ReadFacts
  <1>3. w \in World /\ w.refunds = world.refunds /\ w.orders = world.orders /\ w.lookups = world.lookups
    BY <1>2, LoggedFacts DEF AfterFailedRead, ToolNames
  <1>4. /\ s \in RefundState /\ s.order_id = st.order_id /\ s.order = st.order /\ s.eligibility = st.eligibility
        /\ s.prior_refunds = st.prior_refunds /\ s.refund_type = st.refund_type
        /\ s.refund_amount = st.refund_amount /\ s.approval = st.approval /\ s.refund_id = st.refund_id
        /\ s.error # None
    BY <1>2, ErrorSet DEF Failed, RefundState, Errors, ToolNames
  <1>5. RetryMarks \in SUBSET Marks
    BY DEF RetryMarks, Marks
  <1> HIDE DEF w, s
  <1>6. /\ st' = s /\ world' = w /\ fired \subseteq fired' /\ UNCHANGED <<variant, case, reply>>
        /\ next' = (IF variant = "V4" THEN "discard_plan" ELSE "respond") /\ answer' # "approve"
    BY <1>1, <1>4, StepFacts DEF AgentInv, Route, AfterHistory, Quiet
  <1>7. TypeOK'
    BY <1>1, <1>3, <1>4, <1>5, StepType DEF AgentInv, TypeOK, Nodes, Quiet
  <1>8. PathInv'
    BY <1>1, <1>2, <1>4, <1>6 DEF AgentInv, PathInv, Issuing, AfterIssuing
  <1>9. LedgerInv'
    BY <1>2, <1>3, <1>4, <1>6 DEF AgentInv, LedgerInv
  <1>10. FaithfulInv'
    BY <1>3, <1>4, <1>6 DEF AgentInv, FaithfulInv, BeforeLookup, Marked
  <1>11. GuardInv'
    BY <1>2, <1>4, <1>6 DEF AgentInv, GuardInv, Issuing, Marked
  <1>12. ReplyInv'
    BY <1>2, <1>6 DEF ReplyInv
  <1> QED
    BY <1>7, <1>8, <1>9, <1>10, <1>11, <1>12 DEF AgentInv

(* get_refund_history, when the tool answers; A leaves it for the plan, marked. *)
LEMMA HistoryAnswersInv == AgentInv /\ HistoryAnswers => AgentInv'
  <1> SUFFICES ASSUME AgentInv, HistoryAnswers PROVE AgentInv'
    OBVIOUS
  <1> DEFINE w == Logged(world, case, "get_refund_history")
             s == [st EXCEPT !.prior_refunds = RefundHistory(world, case)]
  <1>1. next = "get_refund_history" /\ Step("get_refund_history", s, w, {}) /\ Quiet
    BY DEF HistoryAnswers, At
  <1>2. /\ st \in RefundState /\ world \in World /\ case \in Case /\ st.order_id \in OrderIds
        /\ st.error = None /\ st.refund_id = None /\ world.refunds = << >> /\ reply = None
    BY <1>1, ReadFacts
  <1>3. w \in World /\ w.refunds = world.refunds /\ w.orders = world.orders /\ w.lookups = world.lookups
    BY <1>2, LoggedFacts DEF ToolNames
  <1>4. /\ s \in RefundState /\ s.order_id = st.order_id /\ s.order = st.order /\ s.eligibility = st.eligibility
        /\ s.prior_refunds = RefundHistory(SeedWorld(case), case) /\ s.prior_refunds \in Nat
        /\ s.refund_type = st.refund_type /\ s.intent = st.intent
        /\ s.refund_amount = st.refund_amount /\ s.approval = st.approval /\ s.refund_id = st.refund_id
        /\ s.error = None
    BY <1>2, HistoryFacts DEF RefundState
  <1>5. s.prior_refunds # None
    BY <1>4, NoneAssumption
  <1> HIDE DEF w, s
  <1>6. /\ st' = s /\ world' = w /\ fired \subseteq fired' /\ UNCHANGED <<variant, case, reply>>
        /\ next' = AfterHistory(variant, s) /\ answer' # "approve"
        /\ RouteMarks(variant, "get_refund_history", s) \subseteq fired'
    BY <1>1, StepFacts DEF AgentInv, Route, Quiet
  <1>7. variant = "A" /\ s.intent = "damaged" => fired' # {}
    <2>1. variant = "A" /\ s.intent = "damaged" =>
            "A:skipped_eligibility" \in RouteMarks(variant, "get_refund_history", s)
      BY <1>4 DEF RouteMarks
    <2> QED
      BY <2>1, <1>6
  <1>8. TypeOK'
    <2>1. {} \in SUBSET Marks /\ "get_refund_history" \in Nodes
      BY DEF Nodes
    <2> QED
      BY <1>1, <1>3, <1>4, <2>1, StepType DEF AgentInv, TypeOK, Quiet
  <1>9. PathInv'
    BY <1>1, <1>2, <1>4, <1>5, <1>6 DEF AgentInv, PathInv, AfterHistory, Issuing, AfterIssuing
  <1>10. LedgerInv'
    BY <1>2, <1>3, <1>4, <1>6 DEF AgentInv, LedgerInv
  <1>11. FaithfulInv'
    <2>1. BeforeLookup' => BeforeLookup
      BY <1>1, <1>4, <1>6 DEF AfterHistory, BeforeLookup
    <2>2. next' # "classify_request"
      BY <1>4, <1>6 DEF AfterHistory
    <2> QED
      BY <1>3, <1>4, <1>6, <2>1, <2>2 DEF AgentInv, FaithfulInv, Marked
  <1>12. GuardInv'
    <2>1. next' \in {"compute_refund"} \cup Issuing => variant' \in {"A", "E", "M2"} /\ fired' # {}
      BY <1>1, <1>4, <1>6, <1>7 DEF AgentInv, GuardInv, AfterHistory, Issuing
    <2>2. next' # "issue_refund" /\ next' # "get_refund_history"
      BY <1>4, <1>6 DEF AfterHistory
    <2> QED
      BY <1>2, <1>4, <1>6, <2>1, <2>2 DEF AgentInv, GuardInv, Marked
  <1>13. ReplyInv'
    BY <1>2, <1>6 DEF ReplyInv
  <1> QED
    BY <1>8, <1>9, <1>10, <1>11, <1>12, <1>13 DEF AgentInv

(* The redundant reads of C, C1 and C2 are reads, and the markers they leave are markers. *)
LEMMA RedundantReadsFacts ==
  ASSUME world \in World, case \in Case, st.order_id \in OrderIds,
         world.lookups = 0 => world.orders = case.orders
  PROVE  LET w == AfterRedundantReads(world)
         IN w \in World /\ w.refunds = world.refunds /\ (w.lookups = 0 => w.orders = case.orders)
  <1> DEFINE o == st.order_id
             looked == AfterLookup(world, case, o)
             logged == Logged(world, case, "get_refund_history")
  <1>1. looked \in World /\ looked.refunds = world.refunds /\ (looked.lookups = 0 => looked.orders = case.orders)
    BY LookupFacts
  <1>2. /\ logged \in World /\ logged.refunds = world.refunds
        /\ logged.lookups = 0 => logged.orders = case.orders
    BY LoggedFacts DEF ToolNames
  <1>3. AfterRedundantReads(world) \in {world, looked, logged}
    BY DEF AfterRedundantReads
  <1> HIDE DEF looked, logged
  <1> QED
    BY <1>1, <1>2, <1>3

(* check_eligibility's own markers. *)
LEMMA CheckMarksFacts ==
  /\ CheckMarks \in SUBSET Marks /\ RetryMarks \in SUBSET Marks
  /\ variant = "M2" => CheckMarks # {}
  /\ variant = "M1" /\ st.order.age = REFUND_WINDOW_DAYS + 1 => CheckMarks # {}
  BY DEF CheckMarks, RetryMarks, Marks

(* check_eligibility, when the tool fails. *)
LEMMA EligibilityFailsInv == AgentInv /\ EligibilityFails => AgentInv'
  <1> SUFFICES ASSUME AgentInv, EligibilityFails PROVE AgentInv'
    OBVIOUS
  <1> DEFINE r == AfterRedundantReads(world)
             once == Logged(r, case, "check_eligibility")
             w == IF variant = "V1" THEN Logged(once, case, "check_eligibility") ELSE once
             s == Failed("check_eligibility")
             marks == CheckMarks \cup RetryMarks
  <1>1. next = "check_eligibility" /\ Step("check_eligibility", s, w, marks) /\ Quiet
    BY DEF EligibilityFails, At
  <1>2. /\ st \in RefundState /\ world \in World /\ case \in Case /\ st.order_id \in OrderIds
        /\ st.error = None /\ st.refund_id = None /\ world.refunds = << >> /\ reply = None
        /\ world.lookups = 0 => world.orders = case.orders
    BY <1>1, ReadFacts
  <1>3. r \in World /\ r.refunds = world.refunds /\ (r.lookups = 0 => r.orders = case.orders)
    BY <1>2, RedundantReadsFacts
  <1> HIDE DEF r
  <1>4. once \in World /\ once.refunds = world.refunds /\ (once.lookups = 0 => once.orders = case.orders)
    BY <1>3, LoggedFacts DEF ToolNames
  <1> HIDE DEF once
  <1>5. w \in World /\ w.refunds = world.refunds /\ (w.lookups = 0 => w.orders = case.orders)
    BY <1>4, LoggedFacts DEF ToolNames
  <1>6. /\ s \in RefundState /\ s.order_id = st.order_id /\ s.order = st.order /\ s.eligibility = st.eligibility
        /\ s.prior_refunds = st.prior_refunds /\ s.refund_type = st.refund_type
        /\ s.refund_amount = st.refund_amount /\ s.approval = st.approval /\ s.refund_id = st.refund_id
        /\ s.error # None
    BY <1>2, ErrorSet DEF Failed, RefundState, Errors, ToolNames
  <1>7. marks \in SUBSET Marks
    BY CheckMarksFacts
  <1> HIDE DEF w, s, marks
  <1>8. /\ st' = s /\ world' = w /\ fired \subseteq fired' /\ UNCHANGED <<variant, case, reply>>
        /\ next' = (IF variant = "V4" THEN "discard_plan" ELSE "respond") /\ answer' # "approve"
    BY <1>1, <1>6, StepFacts DEF AgentInv, Route, AfterEligibility, Quiet
  <1>9. TypeOK'
    BY <1>1, <1>5, <1>6, <1>7, StepType DEF AgentInv, TypeOK, Nodes, Quiet
  <1>10. PathInv'
    BY <1>1, <1>2, <1>6, <1>8 DEF AgentInv, PathInv, Issuing, AfterIssuing
  <1>11. LedgerInv'
    BY <1>2, <1>5, <1>6, <1>8 DEF AgentInv, LedgerInv
  <1>12. FaithfulInv'
    BY <1>1, <1>5, <1>6, <1>8 DEF AgentInv, FaithfulInv, BeforeLookup, Marked
  <1>13. GuardInv'
    BY <1>2, <1>6, <1>8 DEF AgentInv, GuardInv, Issuing, Marked
  <1>14. ReplyInv'
    BY <1>2, <1>8 DEF ReplyInv
  <1> QED
    BY <1>9, <1>10, <1>11, <1>12, <1>13, <1>14 DEF AgentInv

(* What is not over the threshold is at most the threshold. *)
LEMMA WithinThreshold ==
  ASSUME NEW a \in Nat, ~(a > APPROVAL_THRESHOLD)
  PROVE  a <= APPROVAL_THRESHOLD
  BY RoutingAssumption

(* A wider window changes the verdict of one age only. *)
LEMMA WindowOffByOne ==
  ASSUME NEW row \in OrderRow, NEW prior, row.age # REFUND_WINDOW_DAYS + 1
  PROVE  Eligibility(row, prior, REFUND_WINDOW_DAYS + 1) = Eligibility(row, prior, REFUND_WINDOW_DAYS)
  <1>1. CASE row.age = None
    BY <1>1 DEF Eligibility
  <1>2. CASE row.age # None
    <2>1. row.age \in Nat
      BY <1>2 DEF OrderRow
    <2>2. (row.age > REFUND_WINDOW_DAYS + 1) <=> (row.age > REFUND_WINDOW_DAYS)
      BY <2>1, PolicyAssumption
    <2> QED
      BY <2>2 DEF Eligibility
  <1> QED
    BY <1>1, <1>2

(* check_eligibility, when the tool answers: "within policy" is the seeded world's verdict, *)
(* unless M1 widened the window or M2 asked without the history.                            *)
LEMMA EligibilityAnswersInv == AgentInv /\ EligibilityAnswers => AgentInv'
  <1> SUFFICES ASSUME AgentInv, EligibilityAnswers PROVE AgentInv'
    OBVIOUS
  <1> DEFINE r == AfterRedundantReads(world)
             w == Logged(r, case, "check_eligibility")
             verdict == Eligibility(st.order, PriorRefunds, WindowDays)
             s == [st EXCEPT !.eligibility = verdict]
  <1>1. next = "check_eligibility" /\ Step("check_eligibility", s, w, CheckMarks) /\ Quiet
    BY DEF EligibilityAnswers, At
  <1>2. /\ st \in RefundState /\ world \in World /\ case \in Case /\ st.order_id \in OrderIds
        /\ st.error = None /\ st.refund_id = None /\ world.refunds = << >> /\ reply = None
        /\ world.lookups = 0 => world.orders = case.orders
    BY <1>1, ReadFacts
  <1>3. r \in World /\ r.refunds = world.refunds /\ (r.lookups = 0 => r.orders = case.orders)
    BY <1>2, RedundantReadsFacts
  <1> HIDE DEF r
  <1>4. w \in World /\ w.refunds = world.refunds /\ (w.lookups = 0 => w.orders = case.orders)
    BY <1>3, LoggedFacts DEF ToolNames
  <1>5. verdict \in Reasons /\ verdict # None
    BY EligibilityType, NoneAssumption
  <1>6. /\ st.order \in OrderRow /\ st.order # None
        /\ variant # "M2" => st.prior_refunds = RefundHistory(SeedWorld(case), case)
    BY <1>1, <1>2, NoneAssumption DEF AgentInv, PathInv, FaithfulInv, RefundState
  <1>7. verdict = "within policy" =>
          \/ Eligibility(st.order, RefundHistory(SeedWorld(case), case), REFUND_WINDOW_DAYS) = "within policy"
          \/ variant \in {"M1", "M2"} /\ CheckMarks # {}
    BY <1>6, CheckMarksFacts, WindowOffByOne DEF PriorRefunds, WindowDays
  <1> HIDE DEF verdict
  <1>8. /\ s \in RefundState /\ s.order_id = st.order_id /\ s.order = st.order /\ s.eligibility = verdict
        /\ s.prior_refunds = st.prior_refunds /\ s.refund_type = st.refund_type
        /\ s.refund_amount = st.refund_amount /\ s.approval = st.approval /\ s.refund_id = st.refund_id
        /\ s.error = None
    BY <1>2, <1>5 DEF RefundState
  <1> HIDE DEF w, s
  <1>9. /\ st' = s /\ world' = w /\ fired \subseteq fired' /\ UNCHANGED <<variant, case, reply>>
        /\ next' = AfterEligibility(variant, s) /\ answer' # "approve"
        /\ CheckMarks \subseteq fired' /\ RouteMarks(variant, "check_eligibility", s) \subseteq fired'
    BY <1>1, StepFacts DEF AgentInv, Route, Quiet
  <1>10. EntersFastPath(variant, s) => variant = "E" /\ fired' # {}
    <2>1. EntersFastPath(variant, s) =>
            variant = "E" /\ "E:damaged_fast_path" \in RouteMarks(variant, "check_eligibility", s)
      BY DEF RouteMarks, EntersFastPath
    <2> QED
      BY <2>1, <1>9
  <1>11. TypeOK'
    BY <1>1, <1>4, <1>8, CheckMarksFacts, StepType DEF AgentInv, TypeOK, Nodes, Quiet
  <1>12. /\ next' \in {"discard_plan", "respond", "compute_refund", "get_refund_history"} \cup Issuing
         /\ next' = "discard_plan" => variant = "V4"
         /\ next' = "get_refund_history" => variant = "M2" /\ verdict = "within policy"
         /\ next' \in Issuing => variant = "V4" /\ s.refund_amount # None /\ verdict = "within policy"
         /\ next' = "compute_refund" => verdict = "within policy" \/ (variant = "E" /\ fired' # {})
         /\ next' # "authorize_and_issue"
         /\ next' = "issue_refund" => ~(s.refund_amount > APPROVAL_THRESHOLD)
    BY <1>5, <1>8, <1>9, <1>10 DEF AfterEligibility, AfterCompute, Issuing
  <1>13. PathInv'
    BY <1>1, <1>2, <1>6, <1>8, <1>9, <1>12 DEF AgentInv, PathInv, Issuing, AfterIssuing
  <1>14. LedgerInv'
    BY <1>2, <1>4, <1>8, <1>9 DEF AgentInv, LedgerInv
  <1>15. FaithfulInv'
    BY <1>1, <1>4, <1>8, <1>9, <1>12 DEF AgentInv, FaithfulInv, BeforeLookup, Marked, Issuing
  <1>16. GuardInv'
    <2>1. next' = "issue_refund" => st'.refund_amount <= APPROVAL_THRESHOLD
      <3>1. s.refund_amount \in Nat \cup {None}
        BY <1>8 DEF RefundState
      <3>2. next' = "issue_refund" => s.refund_amount \in Nat
        BY <1>12, <3>1 DEF Issuing
      <3>3. next' = "issue_refund" => s.refund_amount <= APPROVAL_THRESHOLD
        BY <1>12, <3>2, WithinThreshold
      <3> QED
        BY <1>9, <3>3
    <2>2. next' = "get_refund_history" /\ variant' = "M2" => fired' # {}
      BY <1>9, CheckMarksFacts
    <2>3. next' \in {"compute_refund"} \cup Issuing =>
            st'.eligibility = "within policy" \/ (variant' \in {"A", "E", "M2"} /\ fired' # {})
      BY <1>8, <1>9, <1>12
    <2>4. st'.eligibility = "within policy" =>
            /\ st'.order # None
            /\ \/ Eligibility(st'.order, RefundHistory(SeedWorld(case'), case'), REFUND_WINDOW_DAYS) = "within policy"
               \/ variant' \in {"M1", "M2"} /\ fired' # {}
      BY <1>6, <1>7, <1>8, <1>9
    <2>5. st'.refund_id = None
      BY <1>2, <1>8, <1>9
    <2>6. answer' = "approve" \/ st'.approval = "approve" => case'.approval = "approve"
      BY <1>8, <1>9 DEF AgentInv, GuardInv
    <2> QED
      BY <2>1, <2>2, <2>3, <2>4, <2>5, <2>6 DEF GuardInv, Marked
  <1>17. ReplyInv'
    BY <1>2, <1>9 DEF ReplyInv
  <1> QED
    BY <1>11, <1>13, <1>14, <1>15, <1>16, <1>17 DEF AgentInv

(* A node that gives up leaves the customer a reply and the ledger as it is. *)
LEMMA StopInv ==
  ASSUME AgentInv, NEW node \in {"discard_plan"} \cup Issuing, next = node,
         NEW s \in RefundState, NEW w \in World, NEW marks \in SUBSET Marks,
         Step(node, s, w, marks), Quiet,
         next' = "respond" \/ (next' = "reconcile" /\ variant = "V3"),
         w.refunds = world.refunds, w.lookups = 0 => w.orders = case.orders,
         s.order_id = st.order_id, s.order = st.order, s.prior_refunds = st.prior_refunds,
         s.eligibility = st.eligibility, s.refund_id = st.refund_id,
         \/ s.refund_type = st.refund_type /\ s.refund_amount = st.refund_amount
         \/ s.refund_type = None /\ s.refund_amount = None,
         s.approval = "approve" => case.approval = "approve"
  PROVE  AgentInv'
  <1>1. /\ st' = s /\ world' = w /\ fired \subseteq fired' /\ UNCHANGED <<variant, case, reply>>
        /\ answer' # "approve"
    BY StepFacts DEF AgentInv, Quiet
  <1>2. st.refund_id = None /\ world.refunds = << >> /\ reply = None
    BY DEF AgentInv, PathInv, LedgerInv, Issuing, AfterIssuing
  <1>3. TypeOK'
    BY StepType DEF AgentInv, TypeOK, Nodes, Issuing, Quiet
  <1>4. PathInv'
    BY <1>1, <1>2 DEF AgentInv, PathInv, Issuing, AfterIssuing
  <1>5. LedgerInv'
    BY <1>1, <1>2 DEF AgentInv, LedgerInv
  <1>6. FaithfulInv'
    BY <1>1 DEF AgentInv, FaithfulInv, BeforeLookup, Marked
  <1>7. GuardInv'
    BY <1>1, <1>2 DEF AgentInv, GuardInv, Issuing, Marked
  <1>8. ReplyInv'
    BY <1>1, <1>2 DEF ReplyInv
  <1> QED
    BY <1>3, <1>4, <1>5, <1>6, <1>7, <1>8 DEF AgentInv

(* What every node after the reads starts from. *)
LEMMA PlanFacts ==
  ASSUME AgentInv, next \in {"compute_refund", "discard_plan"} \cup Issuing
  PROVE  /\ st \in RefundState /\ world \in World /\ case \in Case /\ st.order_id \in OrderIds
         /\ st.refund_id = None /\ world.refunds = << >> /\ reply = None
         /\ world.lookups = 0 => world.orders = case.orders
         /\ next # "discard_plan" => st.order \in OrderRow /\ st.error = None
         /\ next \in Issuing => st.refund_amount \in Nat /\ st.refund_type \in RefundTypes
  BY RunAssumption, NoneAssumption
     DEF AgentInv, TypeOK, PathInv, LedgerInv, FaithfulInv, RefundState, AfterIssuing, Issuing

(* discard_plan *)
LEMMA DiscardPlanInv == AgentInv /\ DiscardPlan => AgentInv'
  <1> SUFFICES ASSUME AgentInv, DiscardPlan PROVE AgentInv'
    OBVIOUS
  <1> DEFINE s == [st EXCEPT !.refund_type = None, !.refund_amount = None]
             marks == IF st.refund_amount # None THEN {"V4:speculative_plan_discarded"} ELSE {}
  <1>1. next = "discard_plan" /\ Step("discard_plan", s, world, marks) /\ Quiet
    BY DEF DiscardPlan, At
  <1>2. /\ st \in RefundState /\ world \in World
        /\ world.lookups = 0 => world.orders = case.orders
    BY <1>1, PlanFacts
  <1>3. /\ s \in RefundState /\ s.order_id = st.order_id /\ s.order = st.order /\ s.eligibility = st.eligibility
        /\ s.prior_refunds = st.prior_refunds /\ s.refund_type = None
        /\ s.refund_amount = None /\ s.approval = st.approval /\ s.refund_id = st.refund_id
    BY <1>2 DEF RefundState
  <1>4. marks \in SUBSET Marks
    BY DEF Marks
  <1> HIDE DEF s, marks
  <1>5. next' = "respond"
    BY <1>1, StepFacts DEF AgentInv, Route
  <1>6. st.approval = "approve" => case.approval = "approve"
    BY DEF AgentInv, GuardInv
  <1> QED
    BY <1>1, <1>2, <1>3, <1>4, <1>5, <1>6, StopInv

(* C's lookup before the plan and before the write is a read. *)
LEMMA PreludeFacts ==
  ASSUME world \in World, case \in Case, st.order_id \in OrderIds,
         world.lookups = 0 => world.orders = case.orders
  PROVE  /\ AfterPrelude \in World /\ AfterPrelude.refunds = world.refunds
         /\ AfterPrelude.lookups = 0 => AfterPrelude.orders = case.orders
         /\ PreludeMarks \in SUBSET Marks
  <1> DEFINE looked == AfterLookup(world, case, st.order_id)
  <1>1. looked \in World /\ looked.refunds = world.refunds /\ (looked.lookups = 0 => looked.orders = case.orders)
    BY LookupFacts
  <1>2. AfterPrelude \in {world, looked} /\ PreludeMarks \in SUBSET Marks
    BY DEF AfterPrelude, PreludeMarks, Marks
  <1> HIDE DEF looked
  <1> QED
    BY <1>1, <1>2

(* The planned amount is the type's worth, unless M5 cut its cents off. *)
LEMMA PlannedFacts ==
  ASSUME NEW t, NEW price \in Nat
  PROVE  /\ PlannedAmount(t, price) \in Nat /\ AmountMarks(t, price) \in SUBSET Marks
         /\ \/ PlannedAmount(t, price) = RefundAmount(t, price)
            \/ variant = "M5" /\ AmountMarks(t, price) # {}
  BY AmountType DEF PlannedAmount, AmountMarks, Marks

(* compute_refund, when the model decides. *)
LEMMA ComputeInv == AgentInv /\ ComputeRefund => AgentInv'
  <1> SUFFICES ASSUME AgentInv, ComputeRefund PROVE AgentInv'
    OBVIOUS
  <1>1. PICK t \in RefundTypes :
          /\ recording' = [recording EXCEPT
               !.compute = @ \cup {[prompt |-> ComputePrompt, price |-> st.order.price, type |-> t]}]
          /\ Step("compute_refund",
                  [st EXCEPT !.refund_type = t, !.refund_amount = PlannedAmount(t, st.order.price)],
                  AfterPrelude, PreludeMarks \cup AmountMarks(t, st.order.price))
    BY DEF ComputeRefund
  <1> DEFINE price == st.order.price
             amount == PlannedAmount(t, price)
             s == [st EXCEPT !.refund_type = t, !.refund_amount = amount]
             marks == PreludeMarks \cup AmountMarks(t, price)
             d == [prompt |-> ComputePrompt, price |-> price, type |-> t]
  <1>2. next = "compute_refund" /\ UNCHANGED reply
    BY DEF ComputeRefund, At
  <1>3. /\ st \in RefundState /\ world \in World /\ case \in Case /\ st.order_id \in OrderIds
        /\ st.refund_id = None /\ world.refunds = << >> /\ reply = None /\ st.error = None
        /\ world.lookups = 0 => world.orders = case.orders
        /\ st.order \in OrderRow /\ st.order # None
    BY <1>2, PlanFacts, NoneAssumption
  <1>4. price \in Nat
    BY <1>3 DEF OrderRow
  <1>5. /\ amount \in Nat /\ amount # None /\ t # None
        /\ amount = RefundAmount(t, price) \/ (variant = "M5" /\ marks # {})
        /\ marks \in SUBSET Marks
    BY <1>3, <1>4, PlannedFacts, PreludeFacts, NoneAssumption
  <1>6. d \in Decision
    BY <1>4 DEF Decision, ComputePrompt, Prompts
  <1>7. /\ AfterPrelude \in World /\ AfterPrelude.refunds = << >>
        /\ AfterPrelude.lookups = 0 => AfterPrelude.orders = case.orders
    BY <1>3, PreludeFacts
  <1>8. Step("compute_refund", s, AfterPrelude, marks) /\ recording' = [recording EXCEPT !.compute = @ \cup {d}]
    BY <1>1
  <1> HIDE DEF amount, marks, d
  <1>9. /\ s \in RefundState /\ s.order_id = st.order_id /\ s.order = st.order /\ s.eligibility = st.eligibility
        /\ s.prior_refunds = st.prior_refunds /\ s.refund_type = t
        /\ s.refund_amount = amount /\ s.approval = st.approval /\ s.refund_id = st.refund_id /\ s.error = None
    BY <1>3, <1>5 DEF RefundState
  <1> HIDE DEF s
  <1>10. /\ st' = s /\ world' = AfterPrelude /\ fired \subseteq fired' /\ marks \subseteq fired'
         /\ UNCHANGED <<variant, case, reply>>
         /\ next' = AfterCompute(variant, s) /\ answer' # "approve"
    BY <1>2, <1>8, StepFacts DEF AgentInv, Route
  <1>11. /\ next' = "get_refund_history" => variant = "V4" /\ st.eligibility = None
         /\ next' # "get_refund_history" => next' \in Issuing /\ (variant # "V4" \/ st.eligibility # None)
         /\ next' = "authorize_and_issue" <=> variant = "V5"
         /\ next' = "issue_refund" => amount <= APPROVAL_THRESHOLD
    BY <1>5, <1>9, <1>10, WithinThreshold DEF AfterCompute, Issuing
  <1>12. TypeOK'
    <2>1. recording' \in [classify: Classification \cup {None}, compute: SUBSET Decision, text: SUBSET Facts]
      <3>1. recording \in [classify: Classification \cup {None}, compute: SUBSET Decision, text: SUBSET Facts]
        BY DEF AgentInv, TypeOK
      <3> QED
        BY <1>6, <1>8, <3>1
    <2>2. reply' \in Facts \cup {None}
      BY <1>2 DEF AgentInv, TypeOK
    <2> QED
      BY <1>5, <1>7, <1>8, <1>9, <2>1, <2>2, StepType DEF AgentInv, TypeOK, Nodes
  <1>13. PathInv'
    BY <1>2, <1>3, <1>5, <1>9, <1>10, <1>11 DEF AgentInv, PathInv, Issuing, AfterIssuing
  <1>14. LedgerInv'
    BY <1>3, <1>7, <1>9, <1>10 DEF AgentInv, LedgerInv
  <1>15. FaithfulInv'
    <2>1. st'.refund_amount = RefundAmount(st'.refund_type, st'.order.price) \/ (variant' \in {"M5"} /\ fired' # {})
      BY <1>5, <1>9, <1>10
    <2>2. ~BeforeLookup' /\ next' # "classify_request"
      BY <1>10, <1>11 DEF BeforeLookup, Issuing
    <2> QED
      BY <1>3, <1>7, <1>9, <1>10, <2>1, <2>2 DEF AgentInv, FaithfulInv, Marked
  <1>16. GuardInv'
    <2>1. next' \in {"compute_refund"} \cup Issuing =>
            st'.eligibility = "within policy" \/ (variant' \in {"A", "E", "M2"} /\ fired' # {})
      BY <1>2, <1>9, <1>10, <1>11 DEF AgentInv, GuardInv, Issuing, Marked
    <2>2. next' = "issue_refund" => st'.refund_amount <= APPROVAL_THRESHOLD
      BY <1>9, <1>10, <1>11
    <2>3. next' = "get_refund_history" => variant' # "M2"
      BY <1>10, <1>11
    <2> QED
      BY <1>3, <1>9, <1>10, <2>1, <2>2, <2>3 DEF AgentInv, GuardInv, Marked
  <1>17. ReplyInv'
    BY <1>3, <1>10 DEF ReplyInv
  <1> QED
    BY <1>12, <1>13, <1>14, <1>15, <1>16, <1>17 DEF AgentInv

(* compute_refund, when the model fails: V4 sets it aside, everyone else's run crashes. *)
LEMMA ComputeFailsInv == AgentInv /\ (SpeculationFails \/ ComputeCrashes) => AgentInv'
  <1>1. ASSUME AgentInv, ComputeCrashes PROVE AgentInv'
    <2>1. next = "compute_refund" /\ Crash(AfterPrelude, PreludeMarks)
      BY <1>1 DEF ComputeCrashes, At
    <2>2. /\ AfterPrelude \in World /\ AfterPrelude.refunds = world.refunds
          /\ AfterPrelude.lookups = 0 => AfterPrelude.orders = case.orders
          /\ PreludeMarks \in SUBSET Marks
      BY <1>1, <2>1, PlanFacts, PreludeFacts
    <2>3. ~BeforeLookup
      BY <2>1 DEF BeforeLookup
    <2> QED
      BY <1>1, <2>1, <2>2, <2>3, CrashInv
  <1>2. ASSUME AgentInv, SpeculationFails PROVE AgentInv'
    <2>1. /\ next = "compute_refund" /\ variant = "V4" /\ st.eligibility = None
          /\ Step("compute_refund", st, world, {}) /\ Quiet
      BY <1>2 DEF SpeculationFails, Speculating, At
    <2>2. /\ st' = st /\ world' = world /\ fired \subseteq fired' /\ UNCHANGED <<variant, case, reply>>
          /\ next' = "get_refund_history" /\ answer' # "approve"
      BY <1>2, <2>1, StepFacts DEF AgentInv, Route, AfterCompute, Quiet
    <2>3. TypeOK'
      <3>1. st \in RefundState /\ world \in World /\ {} \in SUBSET Marks /\ "compute_refund" \in Nodes
        BY <1>2 DEF AgentInv, TypeOK, Nodes
      <3> QED
        BY <1>2, <2>1, <3>1, StepType DEF AgentInv, TypeOK, Quiet
    <2>4. PathInv'
      BY <1>2, <2>1, <2>2 DEF AgentInv, PathInv, Issuing, AfterIssuing
    <2>5. LedgerInv'
      BY <1>2, <2>1, <2>2 DEF AgentInv, LedgerInv, AfterIssuing
    <2>6. FaithfulInv'
      BY <1>2, <2>1, <2>2 DEF AgentInv, FaithfulInv, BeforeLookup, Marked
    <2>7. GuardInv'
      BY <1>2, <2>1, <2>2 DEF AgentInv, GuardInv, Issuing, Marked
    <2>8. ReplyInv'
      BY <1>2, <2>1, <2>2 DEF AgentInv, PathInv, ReplyInv
    <2> QED
      BY <2>3, <2>4, <2>5, <2>6, <2>7, <2>8 DEF AgentInv
  <1> QED
    BY <1>1, <1>2

(* The interrupt writes nothing, and the driver's resume only brings the scripted approval. *)
LEMMA ApprovalArrivesInv == AgentInv /\ (Interrupt \/ Resume) => AgentInv'
  <1>1. ASSUME AgentInv, Interrupt \/ Resume PROVE AgentInv'
    <2>1. /\ UNCHANGED <<variant, case, recording, st, world, next, fired, reply>>
          /\ phase' \in {"running", "paused"} /\ steps' \in {steps, 0}
          /\ \/ answer' = answer
             \/ answer' = IF case.approval = None THEN "reject" ELSE case.approval
      BY <1>1 DEF Interrupt, Resume
    <2>2. case.approval \in {"approve", "reject", None}
      BY <1>1, RunAssumption DEF AgentInv, TypeOK, Case
    <2>3. TypeOK'
      BY <1>1, <2>1, <2>2 DEF AgentInv, TypeOK
    <2>4. PathInv' /\ LedgerInv'
      BY <1>1, <2>1 DEF AgentInv, PathInv, LedgerInv, Marked
    <2>5. FaithfulInv'
      BY <1>1, <2>1 DEF AgentInv, FaithfulInv, BeforeLookup, Marked
    <2>6. GuardInv'
      BY <1>1, <2>1, <2>2 DEF AgentInv, GuardInv, Marked
    <2>7. ReplyInv'
      BY <1>1, <2>1 DEF AgentInv, ReplyInv, Told, Payments, Marked
    <2> QED
      BY <2>3, <2>4, <2>5, <2>6, <2>7 DEF AgentInv
  <1> QED
    BY <1>1

(* An answer that is being delivered is the case's. *)
LEMMA AnswerFacts ==
  ASSUME AgentInv, answer \in Answers, NEW s, s = [st EXCEPT !.approval = answer]
  PROVE  /\ s \in RefundState /\ s.approval = answer /\ (answer = "approve" => case.approval = "approve")
         /\ s.order_id = st.order_id /\ s.order = st.order /\ s.prior_refunds = st.prior_refunds
         /\ s.eligibility = st.eligibility /\ s.refund_id = st.refund_id /\ s.error = st.error
         /\ s.refund_type = st.refund_type /\ s.refund_amount = st.refund_amount
  BY DEF AgentInv, TypeOK, GuardInv, RefundState, Answers

(* request_approval; M4 goes on to the write after a rejection, marked. *)
LEMMA RequestApprovalInv == AgentInv /\ RequestApproval => AgentInv'
  <1> SUFFICES ASSUME AgentInv, RequestApproval PROVE AgentInv'
    OBVIOUS
  <1> DEFINE s == [st EXCEPT !.approval = answer]
  <1>1. /\ next = "request_approval" /\ answer \in Answers /\ Quiet
        /\ Step("request_approval", s, world, {})
    BY DEF RequestApproval, At
  <1>2. /\ s \in RefundState /\ s.approval = answer /\ (answer = "approve" => case.approval = "approve")
        /\ s.order_id = st.order_id /\ s.order = st.order /\ s.prior_refunds = st.prior_refunds
        /\ s.eligibility = st.eligibility /\ s.refund_id = st.refund_id /\ s.error = st.error
        /\ s.refund_type = st.refund_type /\ s.refund_amount = st.refund_amount
    BY <1>1, AnswerFacts
  <1>3. /\ world \in World /\ (world.lookups = 0 => world.orders = case.orders)
        /\ st.refund_id = None /\ world.refunds = << >> /\ reply = None
        /\ st.error = None /\ st.order # None
    BY <1>1, PlanFacts, NoneAssumption DEF Issuing
  <1>4. {} \in SUBSET Marks
    OBVIOUS
  <1> HIDE DEF s
  <1>5. /\ st' = s /\ world' = world /\ fired \subseteq fired' /\ UNCHANGED <<variant, case, reply>>
        /\ next' = AfterApproval(variant, s) /\ answer' # "approve"
        /\ RouteMarks(variant, "request_approval", s) \subseteq fired'
    BY <1>1, StepFacts DEF AgentInv, Route, Quiet
  <1>6. CASE next' = "respond"
    BY <1>1, <1>2, <1>3, <1>4, <1>6, StopInv DEF Issuing
  <1>7. CASE next' = "issue_refund"
    <2>1. s.approval = "approve" \/ (variant = "M4" /\ fired' # {})
      <3>1. ASSUME s.approval # "approve"
            PROVE  variant = "M4" /\ "M4:rejection_not_honoured" \in RouteMarks(variant, "request_approval", s)
        BY <1>1, <1>2, <1>5, <1>7, <3>1 DEF AfterApproval, RouteMarks, Answers
      <3> QED
        BY <1>5, <3>1
    <2>2. TypeOK'
      <3>1. "request_approval" \in Nodes
        BY DEF Nodes
      <3> QED
        BY <1>1, <1>2, <1>3, <1>4, <3>1, StepType DEF AgentInv, TypeOK, Quiet
    <2>3. PathInv'
      BY <1>1, <1>2, <1>3, <1>5, <1>7 DEF AgentInv, PathInv, Issuing
    <2>4. LedgerInv'
      BY <1>2, <1>3, <1>5 DEF AgentInv, LedgerInv
    <2>5. FaithfulInv'
      BY <1>2, <1>5, <1>7 DEF AgentInv, FaithfulInv, BeforeLookup, Marked
    <2>6. GuardInv'
      BY <1>1, <1>2, <1>3, <1>5, <1>7, <2>1 DEF AgentInv, GuardInv, Issuing, Marked
    <2>7. ReplyInv'
      BY <1>3, <1>5 DEF ReplyInv
    <2> QED
      BY <2>2, <2>3, <2>4, <2>5, <2>6, <2>7 DEF AgentInv
  <1> QED
    BY <1>5, <1>6, <1>7 DEF AfterApproval

(* A write that succeeds: the one row of the ledger is the plan the checks let through. *)
LEMMA WriteInv ==
  ASSUME AgentInv, NEW node \in {"authorize_and_issue", "issue_refund"}, next = node,
         NEW s \in RefundState, NEW before \in World, NEW type \in RefundTypes, NEW marks \in SUBSET Marks,
         Step(node, s, AfterIssue(before, case, st.order_id, type, st.refund_amount), marks), Quiet,
         ~Fails(case, "issue_refund"),
         before.refunds = << >>, before.lookups = 0 => before.orders = case.orders,
         type = st.refund_type \/ (variant = "M6" /\ marks # {}),
         s.order_id = st.order_id, s.order = st.order, s.prior_refunds = st.prior_refunds,
         s.eligibility = st.eligibility, s.refund_id = before.next_refund, s.error = None,
         s.refund_type = st.refund_type, s.refund_amount = st.refund_amount,
         s.approval = "approve" => case.approval = "approve",
         \/ st.refund_amount <= APPROVAL_THRESHOLD
         \/ s.approval = "approve"
         \/ variant = "M4" /\ fired # {}
  PROVE  AgentInv'
  <1> DEFINE w == AfterIssue(before, case, st.order_id, type, st.refund_amount)
             row == [id |-> before.next_refund, order |-> st.order_id, type |-> type,
                     amount |-> st.refund_amount]
  <1>1. /\ st.order_id \in OrderIds /\ st.refund_amount \in Nat /\ st.refund_type \in RefundTypes
        /\ reply = None /\ st.order \in OrderRow /\ case \in Case
    BY PlanFacts DEF Issuing
  <1>2. /\ w \in World /\ w.orders = before.orders /\ w.lookups = before.lookups
        /\ w.refunds = Append(before.refunds, row)
    BY <1>1, IssueFacts
  <1>3. Len(w.refunds) = 1 /\ w.refunds[1] = row
    BY <1>2
  <1>4. /\ w.refunds[1].id = s.refund_id /\ w.refunds[1].order = s.order_id
        /\ w.refunds[1].type = type /\ w.refunds[1].amount = s.refund_amount
    BY <1>3
  <1>5. s.refund_id # None /\ s.refund_amount # None /\ s.order_id # None /\ s.order # None
    BY <1>1, NoneAssumption DEF World
  <1>6. Step(node, s, w, marks)
    OBVIOUS
  <1> HIDE DEF w, row
  <1>7. /\ st' = s /\ world' = w /\ fired \subseteq fired' /\ marks \subseteq fired'
        /\ UNCHANGED <<variant, case, reply>> /\ answer' # "approve"
        /\ next' \in {"respond", "reconcile"} /\ (next' = "reconcile" => variant = "V3")
    BY <1>6, StepFacts DEF AgentInv, Route, Quiet
  <1>8. TypeOK'
    BY <1>2, <1>6, StepType DEF AgentInv, TypeOK, Nodes, Quiet
  <1>9. PathInv'
    BY <1>1, <1>5, <1>7 DEF AgentInv, PathInv, Issuing, AfterIssuing
  <1>10. LedgerInv'
    BY <1>3, <1>4, <1>5, <1>7 DEF LedgerInv, AfterIssuing, Marked
  <1>11. FaithfulInv'
    BY <1>2, <1>5, <1>7 DEF AgentInv, FaithfulInv, BeforeLookup, Marked
  <1>12. GuardInv'
    BY <1>7 DEF AgentInv, GuardInv, Issuing, Marked
  <1>13. ReplyInv'
    BY <1>1, <1>7 DEF ReplyInv
  <1> QED
    BY <1>8, <1>9, <1>10, <1>11, <1>12, <1>13 DEF AgentInv

(* The lookups made directly before the write are reads. *)
LEMMA RereadFacts ==
  ASSUME world \in World, case \in Case, st.order_id \in OrderIds,
         world.lookups = 0 => world.orders = case.orders
  PROVE  /\ AfterReread \in World /\ AfterReread.refunds = world.refunds
         /\ AfterReread.lookups = 0 => AfterReread.orders = case.orders
  <1> DEFINE looked == AfterLookup(world, case, st.order_id)
  <1>1. looked \in World /\ looked.refunds = world.refunds /\ (looked.lookups = 0 => looked.orders = case.orders)
    BY LookupFacts
  <1>2. AfterReread \in {world, looked}
    BY DEF AfterReread
  <1> HIDE DEF looked
  <1> QED
    BY <1>1, <1>2

(* V5's authorize_and_issue, when the approval is refused. *)
LEMMA RefusedInv == AgentInv /\ AuthorizationRefused => AgentInv'
  <1> SUFFICES ASSUME AgentInv, AuthorizationRefused PROVE AgentInv'
    OBVIOUS
  <1> DEFINE s == [st EXCEPT !.approval = answer]
  <1>1. /\ next = "authorize_and_issue" /\ answer \in Answers /\ Quiet
        /\ Step("authorize_and_issue", s, world, {})
    BY DEF AuthorizationRefused, At, Answers
  <1>2. /\ s \in RefundState /\ s.approval = answer /\ (answer = "approve" => case.approval = "approve")
        /\ s.order_id = st.order_id /\ s.order = st.order /\ s.prior_refunds = st.prior_refunds
        /\ s.eligibility = st.eligibility /\ s.refund_id = st.refund_id /\ s.error = st.error
        /\ s.refund_type = st.refund_type /\ s.refund_amount = st.refund_amount
    BY <1>1, AnswerFacts
  <1>3. world \in World /\ (world.lookups = 0 => world.orders = case.orders) /\ {} \in SUBSET Marks
    BY <1>1, PlanFacts DEF Issuing
  <1> HIDE DEF s
  <1>4. next' = "respond"
    BY <1>1, StepFacts DEF AgentInv, Route
  <1> QED
    BY <1>1, <1>2, <1>3, <1>4, StopInv DEF Issuing

(* V5's authorize_and_issue, when it may write. *)
LEMMA AuthorizeInv == AgentInv /\ AuthorizeAndIssue => AgentInv'
  <1> SUFFICES ASSUME AgentInv, AuthorizeAndIssue PROVE AgentInv'
    OBVIOUS
  <1> DEFINE given == IF NeedsApproval THEN [st EXCEPT !.approval = answer] ELSE st
             w == AfterIssue(world, case, st.order_id, st.refund_type, st.refund_amount)
             failed == [given EXCEPT !.error = "issue_refund"]
             written == [given EXCEPT !.refund_id = world.next_refund]
  <1>1. /\ next = "authorize_and_issue" /\ Quiet /\ (NeedsApproval => answer = "approve")
        /\ NeedsApproval \/ ~(st.refund_amount > APPROVAL_THRESHOLD)
    BY DEF AuthorizeAndIssue, NeedsApproval, At
  <1>2. \/ Fails(case, "issue_refund") /\ Step("authorize_and_issue", failed, w, {})
        \/ ~Fails(case, "issue_refund") /\ Step("authorize_and_issue", written, w, {})
    BY DEF AuthorizeAndIssue
  <1>3. /\ st \in RefundState /\ world \in World /\ case \in Case /\ st.order_id \in OrderIds
        /\ world.refunds = << >> /\ st.error = None
        /\ world.lookups = 0 => world.orders = case.orders
        /\ st.refund_amount \in Nat /\ st.refund_type \in RefundTypes
    BY <1>1, PlanFacts DEF Issuing
  <1>4. /\ given \in RefundState /\ (given.approval = "approve" => case.approval = "approve")
        /\ given.order_id = st.order_id /\ given.order = st.order /\ given.prior_refunds = st.prior_refunds
        /\ given.eligibility = st.eligibility /\ given.refund_id = st.refund_id /\ given.error = st.error
        /\ given.refund_type = st.refund_type /\ given.refund_amount = st.refund_amount
        /\ NeedsApproval => given.approval = "approve"
    <2>1. CASE NeedsApproval
      BY <1>1, <2>1, AnswerFacts DEF Answers
    <2>2. CASE ~NeedsApproval
      BY <1>3, <2>2 DEF AgentInv, GuardInv
    <2> QED
      BY <2>1, <2>2
  <1>5. st.refund_amount <= APPROVAL_THRESHOLD \/ given.approval = "approve"
    BY <1>1, <1>3, <1>4, WithinThreshold
  <1> HIDE DEF given
  <1>6. {} \in SUBSET Marks
    OBVIOUS
  <1>7. CASE Fails(case, "issue_refund")
    <2>1. Step("authorize_and_issue", failed, w, {})
      BY <1>2, <1>7
    <2>2. /\ failed \in RefundState /\ failed.approval = given.approval
          /\ failed.order_id = st.order_id /\ failed.order = st.order /\ failed.prior_refunds = st.prior_refunds
          /\ failed.eligibility = st.eligibility /\ failed.refund_id = st.refund_id
          /\ failed.refund_type = st.refund_type /\ failed.refund_amount = st.refund_amount
      BY <1>4 DEF RefundState, Errors, ToolNames
    <2>3. /\ w \in World /\ w.refunds = world.refunds /\ w.lookups = world.lookups /\ w.orders = world.orders
      BY <1>3, <1>7, IssueFacts
    <2> HIDE DEF failed, w
    <2>4. next' = "respond"
      BY <2>1, StepFacts DEF AgentInv, Route
    <2> QED
      BY <1>1, <1>3, <1>4, <1>6, <2>1, <2>2, <2>3, <2>4, StopInv DEF Issuing
  <1>8. CASE ~Fails(case, "issue_refund")
    <2>1. Step("authorize_and_issue", written, w, {})
      BY <1>2, <1>8
    <2>2. /\ written \in RefundState /\ written.approval = given.approval
          /\ written.order_id = st.order_id /\ written.order = st.order
          /\ written.prior_refunds = st.prior_refunds /\ written.error = None
          /\ written.eligibility = st.eligibility /\ written.refund_id = world.next_refund
          /\ written.refund_type = st.refund_type /\ written.refund_amount = st.refund_amount
      BY <1>3, <1>4 DEF RefundState, World
    <2> HIDE DEF written
    <2> QED
      BY <1>1, <1>3, <1>4, <1>5, <1>6, <1>8, <2>1, <2>2, WriteInv
  <1> QED
    BY <1>7, <1>8

(* What every attempt to write through issue_refund starts from. *)
LEMMA IssueStarts ==
  ASSUME AgentInv, next = "issue_refund"
  PROVE  /\ st \in RefundState /\ world \in World /\ case \in Case /\ st.order_id \in OrderIds
         /\ world.refunds = << >> /\ st.error = None /\ st.refund_id = None
         /\ st.refund_amount \in Nat /\ st.refund_type \in RefundTypes
         /\ AfterReread \in World /\ AfterReread.refunds = << >>
         /\ AfterReread.lookups = 0 => AfterReread.orders = case.orders
         /\ st.approval = "approve" => case.approval = "approve"
         /\ st.refund_amount <= APPROVAL_THRESHOLD \/ st.approval = "approve" \/ (variant = "M4" /\ fired # {})
         /\ IssuedType \in RefundTypes /\ IssueMarks \in SUBSET Marks
         /\ IssuedType = st.refund_type \/ (variant = "M6" /\ IssueMarks # {})
  <1>1. /\ st \in RefundState /\ world \in World /\ case \in Case /\ st.order_id \in OrderIds
        /\ world.refunds = << >> /\ st.error = None /\ st.refund_id = None
        /\ world.lookups = 0 => world.orders = case.orders
        /\ st.refund_amount \in Nat /\ st.refund_type \in RefundTypes
    BY PlanFacts DEF Issuing
  <1>2. /\ AfterReread \in World /\ AfterReread.refunds = << >>
        /\ AfterReread.lookups = 0 => AfterReread.orders = case.orders
    BY <1>1, RereadFacts
  <1>3. /\ IssuedType \in RefundTypes /\ IssueMarks \in SUBSET Marks
        /\ IssuedType = st.refund_type \/ (variant = "M6" /\ IssueMarks # {})
    BY <1>1 DEF IssuedType, IssueMarks, PreludeMarks, Marks, RefundTypes
  <1>4. /\ st.approval = "approve" => case.approval = "approve"
        /\ st.refund_amount <= APPROVAL_THRESHOLD \/ st.approval = "approve" \/ (variant = "M4" /\ fired # {})
    BY DEF AgentInv, GuardInv, Marked
  <1> QED
    BY <1>1, <1>2, <1>3, <1>4

(* A write that does not happen leaves an error, whatever stopped it. *)
LEMMA IssueErrorFacts ==
  ASSUME st \in RefundState, NEW e \in {"lookup_order", "order_changed", "issue_refund"}
  PROVE  LET s == Failed(e)
         IN /\ s \in RefundState /\ s.order_id = st.order_id /\ s.order = st.order
            /\ s.prior_refunds = st.prior_refunds
            /\ s.eligibility = st.eligibility /\ s.refund_id = st.refund_id /\ s.approval = st.approval
            /\ s.refund_type = st.refund_type /\ s.refund_amount = st.refund_amount
            /\ s.error # None
  BY ErrorSet DEF Failed, RefundState, Errors, ToolNames

(* issue_refund, when the re-read stops it. *)
LEMMA IssueStoppedInv == AgentInv /\ IssueStopped => AgentInv'
  <1> SUFFICES ASSUME AgentInv, IssueStopped PROVE AgentInv'
    OBVIOUS
  <1>1. PICK e \in {"lookup_order", "order_changed"} : Step("issue_refund", Failed(e), AfterReread, {})
    BY DEF IssueStopped
  <1>2. next = "issue_refund" /\ Quiet /\ variant \in {"alt_recheck", "alt_verify"}
    BY DEF IssueStopped, At, RereadFails, OrderChanged
  <1> DEFINE s == Failed(e)
  <1>3. /\ s \in RefundState /\ s.order_id = st.order_id /\ s.order = st.order
        /\ s.prior_refunds = st.prior_refunds
        /\ s.eligibility = st.eligibility /\ s.refund_id = st.refund_id /\ s.approval = st.approval
        /\ s.refund_type = st.refund_type /\ s.refund_amount = st.refund_amount
    BY <1>2, IssueStarts, IssueErrorFacts
  <1>4. /\ AfterReread \in World /\ AfterReread.refunds = world.refunds
        /\ AfterReread.lookups = 0 => AfterReread.orders = case.orders
        /\ st.approval = "approve" => case.approval = "approve"
        /\ {} \in SUBSET Marks
    BY <1>2, IssueStarts
  <1>5. Step("issue_refund", s, AfterReread, {})
    BY <1>1
  <1> HIDE DEF s
  <1>6. next' = "respond"
    BY <1>2, <1>5, StepFacts DEF AgentInv, Route
  <1> QED
    BY <1>2, <1>3, <1>4, <1>5, <1>6, StopInv DEF Issuing

(* issue_refund, when the tool writes. *)
LEMMA IssueRefundInv == AgentInv /\ IssueRefund => AgentInv'
  <1> SUFFICES ASSUME AgentInv, IssueRefund PROVE AgentInv'
    OBVIOUS
  <1> DEFINE s == [st EXCEPT !.refund_id = AfterReread.next_refund]
  <1>1. /\ next = "issue_refund" /\ Quiet /\ ~Fails(case, "issue_refund")
        /\ Step("issue_refund", s,
                AfterIssue(AfterReread, case, st.order_id, IssuedType, st.refund_amount), IssueMarks)
    BY DEF IssueRefund, At
  <1>2. /\ st \in RefundState /\ st.error = None /\ AfterReread \in World
    BY <1>1, IssueStarts
  <1>3. /\ s \in RefundState /\ s.order_id = st.order_id /\ s.order = st.order
        /\ s.prior_refunds = st.prior_refunds /\ s.error = None
        /\ s.eligibility = st.eligibility /\ s.refund_id = AfterReread.next_refund /\ s.approval = st.approval
        /\ s.refund_type = st.refund_type /\ s.refund_amount = st.refund_amount
    BY <1>2 DEF RefundState, World
  <1> HIDE DEF s
  <1> QED
    BY <1>1, <1>2, <1>3, IssueStarts, WriteInv

(* issue_refund, when the tool fails; M7's second attempt fails as well. *)
LEMMA IssueFailsInv == AgentInv /\ IssueFails => AgentInv'
  <1> SUFFICES ASSUME AgentInv, IssueFails PROVE AgentInv'
    OBVIOUS
  <1> DEFINE once  == AfterIssue(AfterReread, case, st.order_id, IssuedType, st.refund_amount)
             twice == AfterIssue(once, case, st.order_id, IssuedType, st.refund_amount)
             w     == IF variant = "M7" THEN twice ELSE once
             s     == Failed("issue_refund")
             marks == IssueMarks \cup (IF variant = "M7" THEN {"M7:blind_retry"} ELSE {})
  <1>1. next = "issue_refund" /\ Quiet /\ Fails(case, "issue_refund") /\ Step("issue_refund", s, w, marks)
    BY DEF IssueFails, At
  <1>2. /\ st \in RefundState /\ case \in Case /\ st.order_id \in OrderIds /\ world.refunds = << >>
        /\ st.refund_amount \in Nat /\ IssuedType \in RefundTypes
        /\ AfterReread \in World /\ AfterReread.refunds = << >>
        /\ AfterReread.lookups = 0 => AfterReread.orders = case.orders
        /\ st.approval = "approve" => case.approval = "approve"
    BY <1>1, IssueStarts
  <1>3. /\ s \in RefundState /\ s.order_id = st.order_id /\ s.order = st.order
        /\ s.prior_refunds = st.prior_refunds
        /\ s.eligibility = st.eligibility /\ s.refund_id = st.refund_id /\ s.approval = st.approval
        /\ s.refund_type = st.refund_type /\ s.refund_amount = st.refund_amount
    BY <1>2, IssueErrorFacts
  <1>4. once \in World /\ once.refunds = << >> /\ (once.lookups = 0 => once.orders = case.orders)
    BY <1>1, <1>2, IssueFacts
  <1> HIDE DEF once
  <1>5. twice \in World /\ twice.refunds = << >> /\ (twice.lookups = 0 => twice.orders = case.orders)
    BY <1>1, <1>2, <1>4, IssueFacts
  <1> HIDE DEF twice
  <1>6. w \in World /\ w.refunds = world.refunds /\ (w.lookups = 0 => w.orders = case.orders)
    BY <1>2, <1>4, <1>5
  <1>7. marks \in SUBSET Marks
    BY <1>1, IssueStarts DEF Marks
  <1> HIDE DEF s, w, marks
  <1>8. next' = "respond" \/ (next' = "reconcile" /\ variant = "V3")
    BY <1>1, StepFacts DEF AgentInv, Route
  <1> QED
    BY <1>1, <1>2, <1>3, <1>6, <1>7, <1>8, StopInv DEF Issuing

(* V3's reconcile reads, whatever the write did. *)
LEMMA ReconcileInv == AgentInv /\ Reconcile => AgentInv'
  <1> SUFFICES ASSUME AgentInv, Reconcile PROVE AgentInv'
    OBVIOUS
  <1> DEFINE w == Logged(world, case, "get_refund_history")
  <1>1. next = "reconcile" /\ Step("reconcile", st, w, {"V3:reconcile_read"}) /\ Quiet
    BY DEF Reconcile, At
  <1>2. st \in RefundState /\ world \in World /\ {"V3:reconcile_read"} \in SUBSET Marks /\ reply = None
    BY <1>1 DEF AgentInv, TypeOK, PathInv, Marks
  <1>3. w \in World /\ w.refunds = world.refunds /\ w.orders = world.orders /\ w.lookups = world.lookups
    BY <1>2, LoggedFacts DEF ToolNames
  <1> HIDE DEF w
  <1>4. /\ st' = st /\ world' = w /\ fired \subseteq fired' /\ UNCHANGED <<variant, case, reply>>
        /\ next' = "respond" /\ answer' # "approve"
    BY <1>1, StepFacts DEF AgentInv, Route, Quiet
  <1>5. TypeOK'
    BY <1>1, <1>2, <1>3, StepType DEF AgentInv, TypeOK, Nodes, Quiet
  <1>6. PathInv' /\ LedgerInv'
    BY <1>1, <1>2, <1>3, <1>4 DEF AgentInv, PathInv, LedgerInv, Issuing, AfterIssuing, Marked
  <1>7. FaithfulInv'
    BY <1>3, <1>4 DEF AgentInv, FaithfulInv, BeforeLookup, Marked
  <1>8. GuardInv'
    BY <1>4 DEF AgentInv, GuardInv, Issuing, Marked
  <1>9. ReplyInv'
    BY <1>2, <1>4 DEF ReplyInv
  <1> QED
    BY <1>5, <1>6, <1>7, <1>8, <1>9 DEF AgentInv

(* What the reply is written from is of its type. *)
LEMMA RenderType ==
  ASSUME AgentInv
  PROVE  RenderFacts \in Facts /\ RespondMarks \in SUBSET Marks
  <1>1. st \in RefundState
    BY DEF AgentInv, TypeOK
  <1>2. st.order = None \/ st.order.price \in Nat
    BY <1>1 DEF RefundState, OrderRow
  <1>3. RespondMarks \in SUBSET Marks
    BY DEF RespondMarks, Marks
  <1> QED
    BY <1>1, <1>2, <1>3 DEF RenderFacts, Facts, RefundState

(* The reply tells the ledger: the one row, or nothing. *)
LEMMA TellsLedger ==
  ASSUME AgentInv, next = "respond", reply' = RenderFacts, st' = st, world' = world, variant' = variant,
         fired \subseteq fired', RespondMarks \subseteq fired', reply' # None
  PROVE  Told' = Payments' \/ (variant' \in {"B", "M6", "M8"} /\ fired' # {})
  <1> DEFINE told == <<[order |-> st.order_id, type |-> RenderFacts.plan_type, amount |-> RenderFacts.plan_amount]>>
             row  == world.refunds[1]
  <1>1. /\ RenderFacts.status = "issued" => Told' = told
        /\ RenderFacts.status # "issued" => Told' = << >>
    BY DEF Told
  <1>2. Payments' = Payments
    BY DEF Payments
  <1>3. /\ RenderFacts.status = (IF FalseSuccess \/ st.refund_id # None THEN "issued" ELSE "not issued")
        /\ RenderFacts.plan_type = (IF st.refund_amount = None THEN None ELSE st.refund_type)
        /\ RenderFacts.plan_amount = (IF variant = "M8" /\ st.refund_amount # None /\ st.order # None
                                     THEN st.order.price ELSE st.refund_amount)
    BY DEF RenderFacts
  <1>4. CASE FalseSuccess
    BY <1>4 DEF FalseSuccess, RespondMarks
  <1>5. CASE variant = "M8" /\ st.refund_type = "partial" /\ st.refund_amount # None
    BY <1>5 DEF RespondMarks
  <1>6. CASE ~FalseSuccess /\ st.refund_id = None
    <2>1. world.refunds = << >>
      BY <1>6 DEF AgentInv, LedgerInv
    <2>2. Payments = << >>
      BY <2>1 DEF Payments
    <2> QED
      BY <1>1, <1>2, <1>3, <1>6, <2>2
  <1>7. CASE st.refund_id # None /\ ~(variant = "M8" /\ st.refund_type = "partial" /\ st.refund_amount # None)
    <2>1. /\ Len(world.refunds) = 1 /\ row.order = st.order_id /\ row.amount = st.refund_amount
          /\ row.type = st.refund_type \/ (variant = "M6" /\ fired # {})
          /\ st.refund_amount # None
      BY <1>7 DEF AgentInv, LedgerInv, Marked
    <2>2. RenderFacts.plan_amount = st.refund_amount
      <3>1. CASE variant = "M8"
        <4>1. st.order # None /\ st.refund_amount = RefundAmount(st.refund_type, st.order.price)
          BY <2>1, <3>1 DEF AgentInv, PathInv, FaithfulInv, Marked
        <4>2. st.refund_type # "partial"
          BY <1>7, <2>1, <3>1
        <4> QED
          BY <1>3, <2>1, <3>1, <4>1, <4>2 DEF RefundAmount
      <3>2. CASE variant # "M8"
        BY <1>3, <3>2
      <3> QED
        BY <3>1, <3>2
    <2>3. CASE row.type = st.refund_type
      <3> DEFINE payment == [order |-> row.order, type |-> row.type, amount |-> row.amount]
      <3>1. told = <<payment>>
        BY <1>3, <2>1, <2>2, <2>3
      <3>2. Payments = <<payment>>
        <4>1. world.refunds \in Seq(RefundRow)
          BY DEF AgentInv, TypeOK, World
        <4>2. DOMAIN world.refunds = {1}
          BY <2>1, <4>1
        <4>3. Payments = [i \in {1} |-> payment]
          BY <4>2 DEF Payments
        <4> HIDE DEF payment
        <4>4. DOMAIN <<payment>> = {1} /\ <<payment>>[1] = payment
          OBVIOUS
        <4> QED
          BY <4>3, <4>4
      <3> QED
        BY <1>1, <1>2, <1>3, <1>7, <3>1, <3>2
    <2> QED
      BY <2>1, <2>3
  <1> QED
    BY <1>4, <1>5, <1>6, <1>7

(* respond *)
LEMMA RespondInv == AgentInv /\ (Respond \/ RespondCrashes) => AgentInv'
  <1>1. ASSUME AgentInv, RespondCrashes PROVE AgentInv'
    <2>1. next = "respond" /\ Crash(world, RespondMarks) /\ world \in World
      BY <1>1 DEF RespondCrashes, At, AgentInv, TypeOK
    <2>2. world.lookups = 0 => world.orders = case.orders
      BY <1>1 DEF AgentInv, FaithfulInv
    <2> QED
      BY <1>1, <2>1, <2>2, RenderType, CrashInv
  <1>2. ASSUME AgentInv, Respond PROVE AgentInv'
    <2>1. /\ next = "respond" /\ Step("respond", st, world, RespondMarks) /\ reply' = RenderFacts
          /\ recording' = [recording EXCEPT !.text = @ \cup {RenderFacts}]
      BY <1>2 DEF Respond, At
    <2>2. RenderFacts \in Facts /\ RespondMarks \in SUBSET Marks /\ st \in RefundState /\ world \in World
      BY <1>2, RenderType DEF AgentInv, TypeOK
    <2>3. /\ st' = st /\ world' = world /\ fired \subseteq fired' /\ RespondMarks \subseteq fired'
          /\ UNCHANGED <<variant, case>> /\ next' = "END" /\ answer' # "approve"
      BY <1>2, <2>1, StepFacts DEF AgentInv, Route
    <2>4. TypeOK'
      <3>1. recording' \in [classify: Classification \cup {None}, compute: SUBSET Decision, text: SUBSET Facts]
        <4>1. recording \in [classify: Classification \cup {None}, compute: SUBSET Decision, text: SUBSET Facts]
          BY <1>2 DEF AgentInv, TypeOK
        <4> QED
          BY <2>1, <2>2, <4>1
      <3> QED
        BY <1>2, <2>1, <2>2, <3>1, StepType DEF AgentInv, TypeOK, Nodes
    <2>5. PathInv' /\ LedgerInv'
      BY <1>2, <2>1, <2>3 DEF AgentInv, PathInv, LedgerInv, Issuing, AfterIssuing, Marked
    <2>6. FaithfulInv'
      BY <1>2, <2>1, <2>3 DEF AgentInv, FaithfulInv, BeforeLookup, Marked
    <2>7. GuardInv'
      BY <1>2, <2>1, <2>3 DEF AgentInv, GuardInv, Issuing, Marked
    <2>8. ReplyInv'
      BY <1>2, <2>1, <2>3, TellsLedger DEF ReplyInv, Marked
    <2> QED
      BY <2>4, <2>5, <2>6, <2>7, <2>8 DEF AgentInv
  <1> QED
    BY <1>1, <1>2

-----------------------------------------------------------------------------
(* Every step of the agent, and every step that leaves it alone, preserves the invariant. *)
LEMMA NextInv == AgentInv /\ [Next]_vars => AgentInv'
  <1>1. ASSUME AgentInv, Next PROVE AgentInv'
    BY <1>1, ClassifyInv, LookupFailsInv, LookupAnswersInv, FetchContextInv, HistoryFailsInv, HistoryAnswersInv,
       EligibilityFailsInv, EligibilityAnswersInv, GateInv, DiscardPlanInv, ComputeInv, ComputeFailsInv,
       ApprovalArrivesInv, RequestApprovalInv, RefusedInv, AuthorizeInv, IssueStoppedInv, IssueRefundInv,
       IssueFailsInv, ReconcileInv, RespondInv
       DEF Next
  <1>2. ASSUME AgentInv, UNCHANGED vars PROVE AgentInv'
    <2>1. UNCHANGED <<variant, case, recording, st, world, next, phase, answer, steps, fired, reply>>
      BY <1>2 DEF vars
    <2>2. TypeOK'
      BY <1>2, <2>1 DEF AgentInv, TypeOK
    <2>3. PathInv' /\ LedgerInv'
      BY <1>2, <2>1 DEF AgentInv, PathInv, LedgerInv, Marked
    <2>4. FaithfulInv'
      BY <1>2, <2>1 DEF AgentInv, FaithfulInv, BeforeLookup, Marked
    <2>5. GuardInv'
      BY <1>2, <2>1 DEF AgentInv, GuardInv, Marked
    <2>6. ReplyInv'
      BY <1>2, <2>1 DEF AgentInv, ReplyInv, Told, Payments, Marked
    <2> QED
      BY <2>2, <2>3, <2>4, <2>5, <2>6 DEF AgentInv
  <1> QED
    BY <1>1, <1>2

(* The inductive invariant holds of every run of every variant on every case. *)
THEOREM AgentInvariant == Spec => []AgentInv
  <1>1. Init => AgentInv
    BY InitInv
  <1>2. AgentInv /\ [Next]_vars => AgentInv'
    BY NextInv
  <1> QED
    BY <1>1, <1>2, PTL DEF Spec

(* Every variable keeps its type, through every variant's path (agent/state.py, agent/tools.py). *)
THEOREM TypeCorrect == Spec => []TypeOK
  <1>1. AgentInv => TypeOK
    BY DEF AgentInv
  <1> QED
    BY <1>1, AgentInvariant, PTL

(* No node body and no router reads a channel that is absent where it needs a value. *)
THEOREM InputsReady == Spec => []NodeInputsReady
  <1>1. AgentInv => NodeInputsReady
    <2>1. ASSUME AgentInv PROVE NodeInputsReady
      <3>1. next \in {"lookup_order", "get_refund_history", "gate"} => st.order_id # None
        BY <2>1 DEF AgentInv, PathInv
      <3>2. next = "check_eligibility" => st.order # None /\ (variant # "M2" => st.prior_refunds # None)
        BY <2>1 DEF AgentInv, PathInv
      <3>3. next = "compute_refund" => st.order # None
        BY <2>1 DEF AgentInv, PathInv
      <3>4. next \in Issuing =>
              /\ st.order # None /\ st.refund_type # None /\ st.refund_amount # None /\ st.refund_id = None
        BY <2>1 DEF AgentInv, PathInv, LedgerInv, Issuing, AfterIssuing
      <3> QED
        BY <3>1, <3>2, <3>3, <3>4 DEF NodeInputsReady, Issuing
    <2> QED
      BY <2>1
  <1> QED
    BY <1>1, AgentInvariant, PTL

(* A run that has not owned up to a fault keeps the promise: one refund at most, due, and truly told. *)
LEMMA UnmarkedKeepsPromise ==
  ASSUME AgentInv, ~(variant \notin PromiseKeepers /\ fired # {})
  PROVE  KeepsPromise
  <1>1. \A vs \in SUBSET (MUTANTS \cup {"E"} \cup INDEPENDENT_MUTANTS) : ~Marked(vs)
    BY DEF Marked, PromiseKeepers, MUTANTS, INDEPENDENT_MUTANTS, VALID_VARIANTS, INDEPENDENT_VALID
  <1>2. /\ ~Marked({"M6"}) /\ ~Marked({"M3"}) /\ ~Marked({"M5"}) /\ ~Marked({"M1", "M2"})
        /\ ~Marked({"A", "E", "M2"}) /\ ~Marked({"M4"}) /\ ~Marked({"B", "M6", "M8"})
    BY <1>1 DEF MUTANTS, INDEPENDENT_MUTANTS
  <1>3. reply # None => Told = Payments
    BY <1>2 DEF AgentInv, ReplyInv
  <1>4. CASE st.refund_id = None
    <2>1. world.refunds = << >>
      BY <1>4 DEF AgentInv, LedgerInv
    <2>2. DOMAIN Payments = {} /\ Len(world.refunds) = 0
      BY <2>1 DEF Payments
    <2> QED
      BY <1>3, <2>2 DEF KeepsPromise
  <1>5. CASE st.refund_id # None
    <2> DEFINE o == st.order_id
               row == world.refunds[1]
               prior == RefundHistory(SeedWorld(case), case)
    <2>1. /\ Len(world.refunds) = 1 /\ row.order = o /\ row.type = st.refund_type
          /\ row.amount = st.refund_amount /\ st.refund_amount # None
      BY <1>2, <1>5 DEF AgentInv, LedgerInv
    <2>2. /\ st.order # None /\ st.order.mine /\ st.order = case.orders[o] /\ case.orders[o] # None
          /\ st.refund_amount = RefundAmount(st.refund_type, st.order.price)
      BY <1>2, <2>1 DEF AgentInv, PathInv, FaithfulInv
    <2>3. Eligibility(case.orders[o], prior, REFUND_WINDOW_DAYS) = "within policy"
      BY <1>2, <1>5, <2>2 DEF AgentInv, GuardInv
    <2>4. st.refund_amount > APPROVAL_THRESHOLD => case.approval = "approve"
      <3>1. st.refund_amount \in Nat
        BY <2>1 DEF AgentInv, TypeOK, RefundState
      <3>2. st.refund_amount <= APPROVAL_THRESHOLD \/ case.approval = "approve"
        BY <1>2, <1>5 DEF AgentInv, GuardInv
      <3>3. APPROVAL_THRESHOLD \in Nat
        BY RoutingAssumption
      <3> QED
        BY <3>1, <3>2, <3>3
    <2>5. DOMAIN world.refunds = {1}
      BY <2>1 DEF AgentInv, TypeOK, World
    <2>6. /\ DOMAIN Payments = {1} /\ Payments[1].order = o /\ Payments[1].type = st.refund_type
          /\ Payments[1].amount = st.refund_amount
      BY <2>1, <2>5 DEF Payments
    <2> DEFINE p == Payments[1]
    <2>7. Promise!Entitled(case, p.order)
      <3>1. Promise!RefundHistory(Promise!SeedWorld(case), case) = prior
        <4>1. Promise!SeedWorld(case) = SeedWorld(case)
          BY DEF Promise!SeedWorld, SeedWorld
        <4>2. Promise!RefundHistory(SeedWorld(case), case) = RefundHistory(SeedWorld(case), case)
          BY Zenon DEF Promise!RefundHistory, RefundHistory, Promise!Cardinality, Cardinality
        <4> QED
          BY <4>1, <4>2
      <3> HIDE DEF prior
      <3>2. Promise!Eligibility(case.orders[o], prior, REFUND_WINDOW_DAYS) = "within policy"
        BY <2>3 DEF Promise!Eligibility, Eligibility
      <3> QED
        BY <2>2, <2>6, <3>1, <3>2 DEF Promise!Entitled
    <2>8. p.amount = Promise!RefundAmount(p.type, case.orders[p.order].price)
      BY <2>2, <2>6 DEF Promise!RefundAmount, RefundAmount, Promise!HalfOf, HalfOf
    <2>9. Promise!Due(case, p)
      BY <2>4, <2>6, <2>7, <2>8 DEF Promise!Due
    <2> QED
      BY <1>3, <2>1, <2>6, <2>9 DEF KeepsPromise
  <1> QED
    BY <1>4, <1>5

(* No wrong outcome goes unmarked, in any variant, for every case, policy and recursion limit. *)
THEOREM FaultsMarked == Spec => []FaultsAreMarked
  <1>1. AgentInv => FaultsAreMarked
    BY UnmarkedKeepsPromise DEF FaultsAreMarked
  <1> QED
    BY <1>1, AgentInvariant, PTL

-----------------------------------------------------------------------------
(* The positions of the log at which a refund was issued. *)
Successes(w) == {i \in DOMAIN w.log : w.log[i].name = "issue_refund" /\ w.log[i].ok}

(* A world reached by calls none of which issued a refund. *)
OnlyReads(w, v) == v \in World /\ v.refunds = w.refunds /\ Successes(v) = Successes(w)

(* One call at the end of the log is a success exactly when it is a refund that did not fail. *)
LEMMA LoggedSuccesses ==
  ASSUME NEW w \in World, NEW c, NEW tool \in ToolNames
  PROVE  Successes(Logged(w, c, tool))
           = Successes(w) \cup {i \in {Len(w.log) + 1} : tool = "issue_refund" /\ ~Fails(c, tool)}
  <1> DEFINE e == [name |-> tool, ok |-> ~Fails(c, tool)]
             new == Append(w.log, e)
  <1>1. w.log \in Seq(ToolCall) /\ Len(w.log) \in Nat
    BY DEF World
  <1>2. Logged(w, c, tool).log = new
    BY DEF Logged, World
  <1>3. /\ DOMAIN w.log = 1..Len(w.log) /\ DOMAIN new = 1..(Len(w.log) + 1)
        /\ new[Len(w.log) + 1] = e
        /\ \A i \in DOMAIN w.log : new[i] = w.log[i]
    <2>1. e \in ToolCall
      BY DEF ToolCall, Fails
    <2> HIDE DEF e
    <2> QED
      BY <1>1, <2>1
  <1>4. /\ DOMAIN new = DOMAIN w.log \cup {Len(w.log) + 1}
        /\ Len(w.log) + 1 \notin DOMAIN w.log
    BY <1>1, <1>3
  <1>5. e.name = tool /\ (e.ok <=> ~Fails(c, tool))
    OBVIOUS
  <1> HIDE DEF e, new
  <1> QED
    BY <1>2, <1>3, <1>4, <1>5 DEF Successes

(* Reads follow one another. *)
LEMMA ReadsChain ==
  ASSUME NEW w, NEW v, NEW u, OnlyReads(w, v), OnlyReads(v, u)
  PROVE  OnlyReads(w, u)
  BY DEF OnlyReads

(* A call that is not a refund, or fails, is a read. *)
LEMMA LoggedReads ==
  ASSUME NEW w \in World, NEW c, NEW tool \in ToolNames, tool # "issue_refund" \/ Fails(c, tool)
  PROVE  OnlyReads(w, Logged(w, c, tool))
  <1>1. {i \in {Len(w.log) + 1} : tool = "issue_refund" /\ ~Fails(c, tool)} = {}
    OBVIOUS
  <1>2. Successes(Logged(w, c, tool)) = Successes(w)
    BY <1>1, LoggedSuccesses
  <1> QED
    BY <1>2, LoggedFacts DEF OnlyReads

(* So is a lookup, although it may reprice the order. *)
LEMMA LookupReads ==
  ASSUME NEW w \in World, NEW c \in Case, NEW o \in OrderIds
  PROVE  OnlyReads(w, AfterLookup(w, c, o))
  <1> DEFINE l == Logged(w, c, "lookup_order")
  <1>1. l \in World /\ Successes(l) = Successes(w)
    BY LoggedReads DEF ToolNames, OnlyReads
  <1>2. AfterLookup(w, c, o).log = l.log
    <2> HIDE DEF l
    <2> QED
      BY <1>1 DEF AfterLookup, l, World
  <1> QED
    BY <1>1, <1>2, LookupFacts DEF OnlyReads, Successes

(* And a refund that fails. *)
LEMMA FailedIssueReads ==
  ASSUME NEW w \in World, NEW c, NEW o, NEW t, NEW a, Fails(c, "issue_refund")
  PROVE  OnlyReads(w, AfterIssue(w, c, o, t, a))
  BY LoggedReads DEF AfterIssue, ToolNames

(* A refund that succeeds is one more success and one more row. *)
LEMMA IssueSuccesses ==
  ASSUME NEW w \in World, NEW c, NEW o, NEW t, NEW a, ~Fails(c, "issue_refund")
  PROVE  Successes(AfterIssue(w, c, o, t, a)) = Successes(w) \cup {Len(w.log) + 1}
  <1> DEFINE l == Logged(w, c, "issue_refund")
  <1>1. l \in World /\ Successes(l) = Successes(w) \cup {Len(w.log) + 1}
    BY LoggedFacts, LoggedSuccesses DEF ToolNames
  <1>2. AfterIssue(w, c, o, t, a).log = l.log
    <2> HIDE DEF l
    <2> QED
      BY <1>1 DEF AfterIssue, l, World
  <1> QED
    BY <1>1, <1>2 DEF Successes
-----------------------------------------------------------------------------
(* What a run holds while it is in a node that calls tools. *)
LEMMA CallFacts ==
  ASSUME AgentInv, next \notin {"classify_request", "respond", "END"}
  PROVE  /\ world \in World /\ case \in Case /\ st \in RefundState /\ st.order_id \in OrderIds
         /\ OnlyReads(world, world)
  BY RunAssumption DEF AgentInv, TypeOK, PathInv, RefundState, OnlyReads

(* The reads before the check, before the plan and before the write are reads. *)
LEMMA PreludeReads ==
  ASSUME AgentInv, next \notin {"classify_request", "respond", "END"}
  PROVE  /\ OnlyReads(world, AfterRedundantReads(world))
         /\ OnlyReads(world, AfterPrelude)
         /\ OnlyReads(world, AfterReread)
         /\ \A tool \in {"lookup_order", "get_refund_history"} :
              Fails(case, tool) => OnlyReads(world, AfterFailedRead(tool))
  <1> DEFINE looked == AfterLookup(world, case, st.order_id)
             logged == Logged(world, case, "get_refund_history")
  <1>1. /\ world \in World /\ case \in Case /\ st.order_id \in OrderIds /\ OnlyReads(world, world)
    BY CallFacts
  <1>2. OnlyReads(world, looked) /\ OnlyReads(world, logged)
    BY <1>1, LookupReads, LoggedReads DEF ToolNames
  <1>3. /\ AfterRedundantReads(world) \in {world, looked, logged}
        /\ AfterPrelude \in {world, looked} /\ AfterReread \in {world, looked}
    BY DEF AfterRedundantReads, AfterPrelude, AfterReread
  <1> HIDE DEF looked, logged
  <1>4. ASSUME NEW tool \in {"lookup_order", "get_refund_history"}
        PROVE  OnlyReads(world, AfterFailedRead(tool))
    <2> DEFINE once == Logged(world, case, tool)
               twice == Logged(once, case, tool)
    <2>1. OnlyReads(world, once) /\ once \in World
      BY <1>1, LoggedReads DEF ToolNames, OnlyReads
    <2>2. OnlyReads(once, twice)
      <3> HIDE DEF once
      <3> QED
        BY <2>1, LoggedReads DEF ToolNames
    <2>3. OnlyReads(world, twice)
      BY <2>1, <2>2, ReadsChain
    <2> QED
      BY <2>1, <2>3 DEF AfterFailedRead
  <1> QED
    BY <1>1, <1>2, <1>3, <1>4

(* What a superstep leaves of the ledger when its node only reads and names no refund. *)
Harmless == OnlyReads(world, world') /\ st'.refund_id = st.refund_id

(* Nodes that call nothing. *)
LEMMA QuietSteps ==
  ASSUME AgentInv,
         \/ ClassifyRequest \/ ClassifyCrashes \/ DiscardPlan \/ SpeculationFails
         \/ Interrupt \/ Resume \/ RequestApproval \/ AuthorizationRefused \/ Respond \/ RespondCrashes
  PROVE  Harmless
  <1>1. world \in World /\ st \in RefundState
    BY DEF AgentInv, TypeOK
  <1>2. world' = world
    BY DEF ClassifyRequest, ClassifyCrashes, DiscardPlan, SpeculationFails, Interrupt, Resume, RequestApproval,
           AuthorizationRefused, Respond, RespondCrashes, Step, Crash
  <1>3. st'.refund_id = st.refund_id
    BY <1>1 DEF ClassifyRequest, ClassifyCrashes, DiscardPlan, SpeculationFails, Interrupt, Resume,
           RequestApproval, AuthorizationRefused, Respond, RespondCrashes, Step, Crash, RefundState
  <1> QED
    BY <1>1, <1>2, <1>3 DEF Harmless, OnlyReads

(* lookup_order, in the baseline and the variants that keep its node. *)
LEMMA LookupSteps ==
  ASSUME AgentInv, LookupOrderFails \/ LookupOrderAnswers
  PROVE  Harmless
  <1>1. next = "lookup_order" /\ world \in World /\ case \in Case /\ st \in RefundState /\ st.order_id \in OrderIds
    BY CallFacts DEF LookupOrderFails, LookupOrderAnswers, At
  <1>2. CASE LookupOrderFails
    <2>1. world' = AfterFailedRead("lookup_order") /\ st' = Failed("lookup_order") /\ Fails(case, "lookup_order")
      BY <1>2 DEF LookupOrderFails, Step
    <2>2. OnlyReads(world, world')
      BY <1>1, <2>1, PreludeReads
    <2> QED
      BY <1>1, <2>1, <2>2 DEF Harmless, Failed, RefundState
  <1>3. CASE LookupOrderAnswers
    <2> DEFINE first == AfterLookup(world, case, st.order_id)
               second == AfterLookup(first, case, st.order_id)
    <2>1. world' \in {first, second} /\ \E row, e : st' = [st EXCEPT !.order = row, !.error = e]
      BY <1>3 DEF LookupOrderAnswers, Step
    <2>2. OnlyReads(world, first) /\ first \in World
      BY <1>1, LookupReads DEF OnlyReads
    <2>3. OnlyReads(first, second)
      <3> HIDE DEF first
      <3> QED
        BY <1>1, <2>2, LookupReads
    <2>4. OnlyReads(world, second)
      BY <2>2, <2>3, ReadsChain
    <2>5. st'.refund_id = st.refund_id
      BY <1>1, <2>1 DEF RefundState
    <2> HIDE DEF first, second
    <2> QED
      BY <2>1, <2>2, <2>4, <2>5 DEF Harmless
  <1> QED
    BY <1>2, <1>3

(* V2's fetch_context and V6's gate: up to three reads in a row. *)
LEMMA CombinedSteps ==
  ASSUME AgentInv, FetchContext \/ Gate
  PROVE  Harmless
  <1> DEFINE looked  == AfterLookup(world, case, st.order_id)
             counted == Logged(looked, case, "get_refund_history")
             checked == Logged(counted, case, "check_eligibility")
  <1>1. world \in World /\ case \in Case /\ st \in RefundState /\ st.order_id \in OrderIds
    BY CallFacts DEF FetchContext, Gate, At
  <1>2. world' \in {looked, counted, checked} /\ st'.refund_id = st.refund_id
    <2>1. CASE FetchContext
      BY <1>1, <2>1 DEF FetchContext, Step, Failed, RefundState
    <2>2. CASE Gate
      BY <1>1, <2>2 DEF Gate, Step, Failed, RefundState
    <2> QED
      BY <2>1, <2>2
  <1>3. OnlyReads(world, looked) /\ looked \in World
    BY <1>1, LookupReads DEF OnlyReads
  <1> HIDE DEF looked
  <1>4. OnlyReads(looked, counted) /\ counted \in World
    BY <1>3, LoggedReads DEF ToolNames, OnlyReads
  <1> HIDE DEF counted
  <1>5. OnlyReads(counted, checked)
    BY <1>4, LoggedReads DEF ToolNames
  <1> HIDE DEF checked
  <1>6. OnlyReads(world, counted) /\ OnlyReads(world, checked)
    BY <1>3, <1>4, <1>5, ReadsChain
  <1> QED
    BY <1>2, <1>3, <1>6 DEF Harmless
(* get_refund_history and check_eligibility: one read, or a failed one and perhaps its retry. *)
LEMMA ReadSteps ==
  ASSUME AgentInv, HistoryFails \/ HistoryAnswers \/ EligibilityFails \/ EligibilityAnswers \/ Reconcile
  PROVE  Harmless
  <1>1. world \in World /\ case \in Case /\ st \in RefundState
    BY CallFacts DEF HistoryFails, HistoryAnswers, EligibilityFails, EligibilityAnswers, Reconcile, At
  <1>2. st'.refund_id = st.refund_id
    BY <1>1 DEF HistoryFails, HistoryAnswers, EligibilityFails, EligibilityAnswers, Reconcile, Step, Failed,
                RefundState
  <1>3. CASE HistoryFails
    <2>1. world' = AfterFailedRead("get_refund_history") /\ Fails(case, "get_refund_history")
          /\ next = "get_refund_history"
      BY <1>3 DEF HistoryFails, Step, At
    <2> QED
      BY <1>2, <2>1, PreludeReads DEF Harmless
  <1>4. CASE HistoryAnswers \/ Reconcile
    <2>1. world' = Logged(world, case, "get_refund_history")
      BY <1>4 DEF HistoryAnswers, Reconcile, Step
    <2> QED
      BY <1>1, <1>2, <2>1, LoggedReads DEF Harmless, ToolNames
  <1>5. CASE EligibilityFails \/ EligibilityAnswers
    <2> DEFINE before == AfterRedundantReads(world)
               once   == Logged(before, case, "check_eligibility")
               twice  == Logged(once, case, "check_eligibility")
    <2>1. next = "check_eligibility" /\ world' \in {once, twice}
      BY <1>5 DEF EligibilityFails, EligibilityAnswers, Step, At
    <2>2. OnlyReads(world, before) /\ before \in World
      BY <2>1, PreludeReads DEF OnlyReads
    <2> HIDE DEF before
    <2>3. OnlyReads(before, once) /\ once \in World
      BY <2>2, LoggedReads DEF ToolNames, OnlyReads
    <2> HIDE DEF once
    <2>4. OnlyReads(once, twice)
      BY <2>3, LoggedReads DEF ToolNames
    <2> HIDE DEF twice
    <2>5. OnlyReads(world, once) /\ OnlyReads(world, twice)
      BY <2>2, <2>3, <2>4, ReadsChain
    <2> QED
      BY <1>2, <2>1, <2>5 DEF Harmless
  <1> QED
    BY <1>3, <1>4, <1>5

(* compute_refund plans and pays nothing. *)
LEMMA ComputeSteps ==
  ASSUME AgentInv, ComputeRefund \/ ComputeCrashes
  PROVE  Harmless
  <1>1. next = "compute_refund" /\ world' = AfterPrelude
    BY DEF ComputeRefund, ComputeCrashes, Step, Crash, At
  <1>2. st \in RefundState /\ OnlyReads(world, AfterPrelude)
    BY <1>1, CallFacts, PreludeReads
  <1>3. CASE ComputeCrashes
    BY <1>1, <1>2, <1>3 DEF ComputeCrashes, Crash, Harmless
  <1>4. CASE ComputeRefund
    <2>1. PICK t \in RefundTypes :
            st' = [st EXCEPT !.refund_type = t, !.refund_amount = PlannedAmount(t, st.order.price)]
      BY <1>4 DEF ComputeRefund, Step
    <2> QED
      BY <1>1, <1>2, <2>1 DEF Harmless, RefundState
  <1> QED
    BY <1>3, <1>4

(* A write that is stopped or fails reads and logs; M7's second attempt fails as the first did. *)
LEMMA StoppedSteps ==
  ASSUME AgentInv, IssueStopped \/ IssueFails
  PROVE  Harmless
  <1> DEFINE once  == AfterIssue(AfterReread, case, st.order_id, IssuedType, st.refund_amount)
             twice == AfterIssue(once, case, st.order_id, IssuedType, st.refund_amount)
  <1>1. next = "issue_refund"
    BY DEF IssueStopped, IssueFails, At
  <1>2. /\ OnlyReads(world, AfterReread) /\ AfterReread \in World /\ st \in RefundState
    BY <1>1, PreludeReads, CallFacts DEF OnlyReads
  <1>3. st'.refund_id = st.refund_id
    BY <1>2 DEF IssueStopped, IssueFails, Step, Failed, RefundState
  <1>4. CASE IssueStopped
    BY <1>2, <1>3, <1>4 DEF IssueStopped, Step, Harmless
  <1>5. CASE IssueFails
    <2>1. Fails(case, "issue_refund") /\ world' \in {once, twice}
      BY <1>5 DEF IssueFails, Step
    <2>2. OnlyReads(AfterReread, once) /\ once \in World
      BY <1>2, <2>1, FailedIssueReads DEF OnlyReads
    <2> HIDE DEF once
    <2>3. OnlyReads(once, twice)
      BY <2>1, <2>2, FailedIssueReads
    <2> HIDE DEF twice
    <2>4. OnlyReads(world, once) /\ OnlyReads(world, twice)
      BY <1>2, <2>2, <2>3, ReadsChain
    <2> QED
      BY <1>3, <2>1, <2>4 DEF Harmless
  <1> QED
    BY <1>4, <1>5

(* The one step that moves the ledger: what it starts from and what it writes. *)
Writes(before, type) ==
  /\ next \in {"authorize_and_issue", "issue_refund"}
  /\ ~Fails(case, "issue_refund")
  /\ OnlyReads(world, before) /\ world.refunds = << >> /\ st.refund_id = None
  /\ world' = AfterIssue(before, case, st.order_id, type, st.refund_amount)
  /\ type \in RefundTypes /\ st.order_id \in OrderIds /\ st.refund_amount \in Nat
  /\ st'.refund_id = before.next_refund
  /\ st'.order = st.order /\ st'.order_id = st.order_id
  /\ st'.refund_type = st.refund_type /\ st'.refund_amount = st.refund_amount

(* issue_refund writes the planned refund, or M6's full one. *)
LEMMA IssueWrites ==
  ASSUME AgentInv, IssueRefund
  PROVE  Writes(AfterReread, IssuedType)
  <1>1. next = "issue_refund" /\ ~Fails(case, "issue_refund")
    BY DEF IssueRefund, At
  <1>2. /\ world' = AfterIssue(AfterReread, case, st.order_id, IssuedType, st.refund_amount)
        /\ st' = [st EXCEPT !.refund_id = AfterReread.next_refund]
    BY DEF IssueRefund, Step
  <1>3. OnlyReads(world, AfterReread)
    BY <1>1, PreludeReads
  <1>4. /\ st \in RefundState /\ world.refunds = << >> /\ st.refund_id = None
        /\ IssuedType \in RefundTypes /\ st.order_id \in OrderIds /\ st.refund_amount \in Nat
    BY <1>1, IssueStarts
  <1> QED
    BY <1>1, <1>2, <1>3, <1>4 DEF Writes, RefundState

(* V5's authorize_and_issue writes it too, or fails to. *)
LEMMA AuthorizeWrites ==
  ASSUME AgentInv, AuthorizeAndIssue
  PROVE  Harmless \/ Writes(world, st.refund_type)
  <1> DEFINE given == IF NeedsApproval THEN [st EXCEPT !.approval = answer] ELSE st
  <1>1. /\ next = "authorize_and_issue"
        /\ world' = AfterIssue(world, case, st.order_id, st.refund_type, st.refund_amount)
        /\ st' = IF Fails(case, "issue_refund") THEN [given EXCEPT !.error = "issue_refund"]
                 ELSE [given EXCEPT !.refund_id = world.next_refund]
    BY DEF AuthorizeAndIssue, Step, At
  <1>2. /\ st \in RefundState /\ world \in World /\ case \in Case /\ st.order_id \in OrderIds
        /\ world.refunds = << >> /\ st.refund_id = None
        /\ st.refund_amount \in Nat /\ st.refund_type \in RefundTypes
    BY <1>1, PlanFacts DEF Issuing
  <1>3. /\ DOMAIN given = DOMAIN st /\ {"refund_id", "error"} \subseteq DOMAIN st
        /\ given.order = st.order /\ given.order_id = st.order_id /\ given.refund_id = st.refund_id
        /\ given.refund_type = st.refund_type /\ given.refund_amount = st.refund_amount
        /\ given = [k \in DOMAIN st |-> given[k]]
    BY <1>2 DEF RefundState
  <1> HIDE DEF given
  <1>4. CASE Fails(case, "issue_refund")
    <2>1. st'.refund_id = st.refund_id
      BY <1>1, <1>3, <1>4
    <2> QED
      BY <1>1, <1>2, <1>4, <2>1, FailedIssueReads DEF Harmless
  <1>5. CASE ~Fails(case, "issue_refund")
    <2>1. /\ st'.refund_id = world.next_refund
          /\ st'.order = st.order /\ st'.order_id = st.order_id
          /\ st'.refund_type = st.refund_type /\ st'.refund_amount = st.refund_amount
      BY <1>1, <1>2, <1>3, <1>5 DEF RefundState
    <2>2. OnlyReads(world, world)
      BY <1>2 DEF OnlyReads
    <2> QED
      BY <1>1, <1>2, <1>5, <2>1, <2>2 DEF Writes
  <1> QED
    BY <1>4, <1>5

(* A step of the agent either leaves the ledger alone or is the write. *)
LEMMA LedgerSteps ==
  ASSUME AgentInv, Next
  PROVE  \/ Harmless
         \/ IssueRefund /\ Writes(AfterReread, IssuedType)
         \/ AuthorizeAndIssue /\ Writes(world, st.refund_type)
  BY QuietSteps, LookupSteps, CombinedSteps, ReadSteps, ComputeSteps, StoppedSteps, IssueWrites, AuthorizeWrites
     DEF Next
-----------------------------------------------------------------------------
LogInv == Cardinality(Successes(world)) = Len(world.refunds)

(* The successes of a log are finitely many, and the next position is none of them. *)
LEMMA SuccessesFinite ==
  ASSUME NEW w \in World
  PROVE  /\ IsFiniteSet(Successes(w)) /\ Cardinality(Successes(w)) \in Nat
         /\ Len(w.log) + 1 \notin Successes(w)
         /\ Cardinality(Successes(w) \cup {Len(w.log) + 1}) = Cardinality(Successes(w)) + 1
  <1>1. w.log \in Seq(ToolCall) /\ Len(w.log) \in Nat /\ DOMAIN w.log = 1..Len(w.log)
    BY DEF World
  <1>2. Successes(w) \subseteq 1..Len(w.log)
    BY <1>1 DEF Successes
  <1>3. IsFiniteSet(1..Len(w.log))
    BY <1>1, FS_Interval
  <1>4. IsFiniteSet(Successes(w))
    BY <1>2, <1>3, FS_Subset
  <1>5. Len(w.log) + 1 \notin Successes(w)
    BY <1>1, <1>2
  <1> QED
    BY <1>4, <1>5, FS_AddElement, FS_CardinalityType

(* The write adds one success and one row, every other step neither. *)
LEMMA LogInvStep == AgentInv /\ LogInv /\ [Next]_vars => LogInv'
  <1> SUFFICES ASSUME AgentInv, LogInv, [Next]_vars PROVE LogInv'
    OBVIOUS
  <1>1. CASE UNCHANGED vars
    BY <1>1 DEF vars, LogInv, Successes
  <1>2. CASE Harmless
    <2>1. Successes(world)' = Successes(world')
      BY DEF Successes
    <2> QED
      BY <1>2, <2>1 DEF Harmless, OnlyReads, LogInv
  <1>3. ASSUME NEW before, NEW type, Writes(before, type)
        PROVE  LogInv'
    <2> DEFINE row == [id |-> before.next_refund, order |-> st.order_id, type |-> type, amount |-> st.refund_amount]
    <2>1. /\ before \in World /\ before.refunds = << >> /\ Successes(before) = Successes(world)
          /\ world.refunds = << >> /\ ~Fails(case, "issue_refund")
          /\ world' = AfterIssue(before, case, st.order_id, type, st.refund_amount)
          /\ type \in RefundTypes /\ st.order_id \in OrderIds /\ st.refund_amount \in Nat
      BY <1>3 DEF Writes, OnlyReads
    <2>2. case \in Case
      BY RunAssumption DEF AgentInv, TypeOK
    <2>3. world'.refunds = Append(before.refunds, row)
      BY <2>1, <2>2, IssueFacts
    <2>4. Successes(world') = Successes(before) \cup {Len(before.log) + 1}
      BY <2>1, IssueSuccesses
    <2>5. Cardinality(Successes(before)) = 0
      BY <2>1 DEF LogInv
    <2>6. Cardinality(Successes(world')) = 1
      BY <2>1, <2>4, <2>5, SuccessesFinite
    <2>7. Len(world'.refunds) = 1
      <3> HIDE DEF row
      <3> QED
        BY <2>1, <2>3
    <2> QED
      BY <2>6, <2>7 DEF LogInv, Successes
  <1> QED
    BY <1>1, <1>2, <1>3, LedgerSteps

(* The ledger, the tool log and the graph state tell the same story (agent/tools.py:141-155, the *)
(* issue_refund nodes of agent/graph.py), through M7's second attempt and V5's re-run node.       *)
THEOREM LogsAgree == Spec => []LedgerMatchesLog
  <1>1. Init => LogInv
    <2> SUFFICES ASSUME Init PROVE LogInv
      OBVIOUS
    <2>1. world.log = << >> /\ world.refunds = << >>
      BY DEF Init, Start, SeedWorld
    <2>2. Successes(world) = {}
      BY <2>1 DEF Successes
    <2> QED
      BY <2>1, <2>2, FS_EmptySet DEF LogInv
  <1>2. AgentInv /\ LogInv => LedgerMatchesLog
    <2> SUFFICES ASSUME AgentInv, LogInv PROVE LedgerMatchesLog
      OBVIOUS
    <2>1. /\ st.refund_id = None => world.refunds = << >>
          /\ st.refund_id # None => Len(world.refunds) = 1 /\ world.refunds[1].id = st.refund_id
      BY DEF AgentInv, LedgerInv
    <2>2. /\ Len(world.refunds) <= 1
          /\ (st.refund_id # None) <=> (world.refunds # << >>)
          /\ world.refunds # << >> => world.refunds[1].id = st.refund_id
      <3>1. CASE st.refund_id = None
        BY <2>1, <3>1
      <3>2. CASE st.refund_id # None
        <4>1. Len(world.refunds) = 1 /\ world.refunds[1].id = st.refund_id
          BY <2>1, <3>2
        <4>2. world.refunds # << >>
          BY <4>1
        <4> QED
          BY <3>2, <4>1, <4>2
      <3> QED
        BY <3>1, <3>2
    <2> QED
      BY <2>2 DEF LedgerMatchesLog, LogInv, Successes
  <1>3. AgentInv /\ LogInv /\ [Next]_vars => LogInv'
    BY LogInvStep
  <1>4. Spec => []LogInv
    BY <1>1, <1>3, AgentInvariant, PTL DEF Spec
  <1> QED
    BY <1>2, <1>4, AgentInvariant, PTL

-----------------------------------------------------------------------------
(* What alt_verify paid was worth its type when the database was read for the last time. *)
PriceInv ==
  variant = "alt_verify" /\ st.refund_id # None =>
    world.refunds[1].amount
      = RefundAmount(world.refunds[1].type, world.orders[world.refunds[1].order].price)

(* After the write no step of alt_verify touches an order; the write itself has just re-read its price. *)
LEMMA PriceInvStep == AgentInv /\ PriceInv /\ [Next]_vars => PriceInv'
  <1> SUFFICES ASSUME AgentInv, PriceInv, [Next]_vars, variant' = "alt_verify", st'.refund_id # None
               PROVE  world'.refunds[1].amount
                        = RefundAmount(world'.refunds[1].type, world'.orders[world'.refunds[1].order].price)
    BY DEF PriceInv
  <1>0. variant = "alt_verify"
    BY DEF vars, Next, ClassifyRequest, ClassifyCrashes, LookupOrderFails, LookupOrderAnswers, FetchContext,
           HistoryFails, HistoryAnswers, EligibilityFails, EligibilityAnswers, Gate, DiscardPlan,
           ComputeRefund, SpeculationFails, ComputeCrashes, Interrupt, Resume, RequestApproval,
           AuthorizationRefused, AuthorizeAndIssue, IssueStopped, IssueRefund, IssueFails, Reconcile,
           Respond, RespondCrashes, Step, Crash
  <1>1. CASE UNCHANGED vars
    BY <1>0, <1>1 DEF vars, PriceInv
  <1>2. CASE Next /\ Harmless
    <2>1. st.refund_id # None
      BY <1>2 DEF Harmless
    <2>2. next \in AfterIssuing
      BY <2>1 DEF AgentInv, LedgerInv
    <2>3. Respond \/ RespondCrashes \/ Reconcile \/ Resume
      BY <1>2, <2>1, <2>2
         DEF Next, ClassifyRequest, ClassifyCrashes, LookupOrderFails, LookupOrderAnswers, FetchContext,
             HistoryFails, HistoryAnswers, EligibilityFails, EligibilityAnswers, Gate, DiscardPlan,
             ComputeRefund, SpeculationFails, ComputeCrashes, Interrupt, NeedsApproval, Resume, RequestApproval,
             AuthorizationRefused, AuthorizeAndIssue, IssueStopped, IssueRefund, IssueFails, At, AfterIssuing
    <2>4. world'.orders = world.orders /\ world'.refunds = world.refunds
      <3>1. CASE Respond \/ RespondCrashes \/ Resume
        BY <3>1 DEF Respond, RespondCrashes, Resume, Step, Crash
      <3>2. CASE Reconcile
        BY <3>2, LoggedFacts DEF Reconcile, Step, ToolNames, AgentInv, TypeOK
      <3> QED
        BY <2>3, <3>1, <3>2
    <2> QED
      BY <1>0, <2>1, <2>4 DEF PriceInv
  <1>3. CASE AuthorizeAndIssue
    BY <1>0, <1>3 DEF AuthorizeAndIssue, At, AgentInv, PathInv
  <1>4. CASE IssueRefund /\ Writes(AfterReread, IssuedType)
    <2> DEFINE o == st.order_id
               row == [id |-> AfterReread.next_refund, order |-> o, type |-> IssuedType, amount |-> st.refund_amount]
    <2>1. /\ world' = AfterIssue(AfterReread, case, o, IssuedType, st.refund_amount)
          /\ AfterReread \in World /\ AfterReread.refunds = << >> /\ case \in Case
          /\ o \in OrderIds /\ IssuedType \in RefundTypes /\ st.refund_amount \in Nat
          /\ ~Fails(case, "issue_refund") /\ ~OrderChanged /\ next = "issue_refund"
      BY <1>4, RunAssumption DEF Writes, OnlyReads, IssueRefund, At, AgentInv, TypeOK
    <2>2. world'.orders = AfterReread.orders /\ world'.refunds = Append(<< >>, row)
      BY <2>1, IssueFacts
    <2>3. world'.refunds[1] = row
      <3> HIDE DEF row
      <3> QED
        BY <2>2
    <2>4. AfterReread.orders[o].price = st.order.price
      BY <1>0, <2>1 DEF OrderChanged, SelectOrder
    <2>5. IssuedType = st.refund_type /\ st.refund_amount = RefundAmount(st.refund_type, st.order.price)
      BY <1>0, <2>1, PlanFacts, NoneAssumption DEF IssuedType, Issuing, AgentInv, FaithfulInv, Marked
    <2> QED
      BY <2>2, <2>3, <2>4, <2>5
  <1> QED
    BY <1>1, <1>2, <1>3, <1>4, LedgerSteps

(* alt_verify pays what the order costs at the moment it pays (agent/graph.py:375-385), whatever *)
(* the environment did to the price after the first read.                                         *)
THEOREM AmountVerified == Spec => []VerifiedAmount
  <1>1. Init => PriceInv
    BY DEF Init, Start, EmptyState, PriceInv
  <1>2. AgentInv /\ PriceInv => VerifiedAmount
    <2> SUFFICES ASSUME AgentInv, PriceInv, variant = "alt_verify", NEW i \in DOMAIN world.refunds
                 PROVE  world.refunds[i].amount
                          = RefundAmount(world.refunds[i].type, world.orders[world.refunds[i].order].price)
      BY DEF VerifiedAmount
    <2>1. st.refund_id # None /\ Len(world.refunds) = 1
      BY DEF AgentInv, LedgerInv
    <2>2. i = 1
      BY <2>1 DEF AgentInv, TypeOK, World
    <2> QED
      BY <2>1, <2>2 DEF PriceInv
  <1>3. AgentInv /\ PriceInv /\ [Next]_vars => PriceInv'
    BY PriceInvStep
  <1>4. Spec => []PriceInv
    BY <1>1, <1>3, AgentInvariant, PTL DEF Spec
  <1> QED
    BY <1>2, <1>4, AgentInvariant, PTL
-----------------------------------------------------------------------------
(* How many supersteps are left at most from a node on; V4 plans once before it knows the verdict *)
(* and perhaps once more after it.                                                                 *)
Rank(v, node, known) ==
  CASE node = "classify_request"    -> 9
    [] node = "lookup_order"        -> (IF v = "alt_history_early" THEN 7 ELSE 8)
    [] node = "gate"                -> 8
    [] node = "get_refund_history"  -> (IF v = "alt_history_early" THEN 8 ELSE IF v \in {"V4", "M2"} THEN 6 ELSE 7)
    [] node = "check_eligibility"   -> (IF v = "M2" THEN 7 ELSE IF v = "V4" THEN 5 ELSE 6)
    [] node = "compute_refund"      -> (IF v # "V4" THEN 5 ELSE IF known THEN 4 ELSE 7)
    [] node \in {"request_approval", "authorize_and_issue"} -> (IF v = "V4" THEN 3 ELSE 4)
    [] node = "issue_refund"        -> (IF v = "V4" THEN 2 ELSE 3)
    [] node \in {"discard_plan", "reconcile"} -> 2
    [] node = "respond"             -> 1
    [] OTHER                        -> 0

(* Every edge of every variant goes down: no graph has a cycle that a run can follow. *)
LEMMA RankFalls ==
  ASSUME NEW v, NEW s, NEW node \in Nodes, NEW known \in BOOLEAN,
         node = "compute_refund" => (known <=> s.eligibility # None)
  PROVE  Rank(v, Route(v, node, s), s.eligibility # None) < Rank(v, node, known)
  <1> DEFINE after == Rank(v, Route(v, node, s), s.eligibility # None)
  <1>0. "within policy" # None
    BY NoneAssumption DEF Reasons
  <1>1. CASE node = "classify_request"
    BY <1>1 DEF Route, Rank, AfterClassify
  <1>2. CASE node = "lookup_order"
    BY <1>2 DEF Route, Rank, AfterLookupNode
  <1>3. CASE node = "get_refund_history"
    BY <1>3 DEF Route, Rank, AfterHistory
  <1>4. CASE node = "check_eligibility"
    <2>1. Route(v, node, s) = AfterEligibility(v, s)
      BY <1>4 DEF Route
    <2>2. CASE v = "V4"
      <3>1. /\ AfterEligibility(v, s) \in {"discard_plan", "compute_refund", "request_approval", "issue_refund"}
            /\ AfterEligibility(v, s) = "compute_refund" => s.eligibility # None
        BY <1>0, <2>2 DEF AfterEligibility, AfterCompute
      <3> QED
        BY <1>4, <2>1, <2>2, <3>1 DEF Rank
    <2>3. CASE v # "V4"
      <3>1. /\ AfterEligibility(v, s) \in {"respond", "compute_refund", "get_refund_history"}
            /\ AfterEligibility(v, s) = "get_refund_history" => v = "M2"
        BY <2>3 DEF AfterEligibility
      <3> QED
        BY <1>4, <2>1, <2>3, <3>1 DEF Rank
    <2> QED
      BY <2>2, <2>3
  <1>5. CASE node = "compute_refund"
    BY <1>5 DEF Route, Rank, AfterCompute
  <1>6. CASE node = "request_approval"
    BY <1>6 DEF Route, Rank, AfterApproval
  <1>7. CASE node = "gate"
    <2>1. Route(v, node, s) \in {"respond", "compute_refund"}
      BY <1>7 DEF Route, AfterGate
    <2> QED
      BY <1>7, <2>1 DEF Rank
  <1>8. CASE node \in {"issue_refund", "discard_plan", "authorize_and_issue", "reconcile", "respond"}
    <2>1. /\ node = "issue_refund" => Route(v, node, s) = IF v = "V3" THEN "reconcile" ELSE "respond"
          /\ node \in {"discard_plan", "authorize_and_issue", "reconcile"} => Route(v, node, s) = "respond"
          /\ node = "respond" => Route(v, node, s) = "END"
      BY DEF Route
    <2> QED
      BY <1>8, <2>1 DEF Rank
  <1> QED
    BY <1>1, <1>2, <1>3, <1>4, <1>5, <1>6, <1>7, <1>8 DEF Nodes

(* A rank is a natural number of at most nine. *)
LEMMA RankType ==
  ASSUME NEW v, NEW node, NEW known
  PROVE  Rank(v, node, known) \in 0..9
  BY DEF Rank

(* What every superstep that is written does to the frame of the run. *)
Stepping ==
  /\ phase = "running" /\ next \in Nodes
  /\ steps' = steps + 1
  /\ next' = Route(variant, next, st')
  /\ phase' = IF steps' > RECURSION_LIMIT THEN "crashed" ELSE IF next' = "END" THEN "done" ELSE "running"
  /\ answer' = IF answer = None THEN None ELSE "spent"
  /\ next = "compute_refund" => st'.eligibility = st.eligibility
  /\ next # "respond" => reply' = reply
  /\ next = "respond" => reply' = RenderFacts /\ st' = st
  /\ UNCHANGED <<variant, case>>

(* What a crash inside a node does to it. *)
Crashing == phase = "running" /\ phase' = "crashed" /\ UNCHANGED <<variant, case, st, next, answer, steps, reply>>

(* Every step is a written superstep, a crash, an interrupt or the driver's resume. *)
LEMMA StepKinds ==
  ASSUME AgentInv, Next
  PROVE  Stepping \/ Crashing \/ Interrupt \/ Resume
  <1>1. st \in RefundState
    BY DEF AgentInv, TypeOK
  <1>2. CASE ClassifyCrashes \/ ComputeCrashes \/ RespondCrashes
    BY <1>2 DEF ClassifyCrashes, ComputeCrashes, RespondCrashes, At, Crash, Crashing
  <1>3. CASE ClassifyRequest
    BY <1>3 DEF ClassifyRequest, At, Step, Stepping, Nodes
  <1>4. CASE LookupOrderFails \/ LookupOrderAnswers \/ FetchContext
    BY <1>4 DEF LookupOrderFails, LookupOrderAnswers, FetchContext, At, Step, Stepping, Nodes, Quiet
  <1>5. CASE HistoryFails \/ HistoryAnswers \/ EligibilityFails \/ EligibilityAnswers
    BY <1>5 DEF HistoryFails, HistoryAnswers, EligibilityFails, EligibilityAnswers, At, Step, Stepping, Nodes, Quiet
  <1>6. CASE Gate
    BY <1>6 DEF Gate, At, Step, Stepping, Nodes, Quiet
  <1>7. CASE DiscardPlan
    BY <1>7 DEF DiscardPlan, At, Step, Stepping, Nodes, Quiet
  <1>8. CASE ComputeRefund
    <2>1. PICK t \in RefundTypes :
            Step("compute_refund",
                 [st EXCEPT !.refund_type = t, !.refund_amount = PlannedAmount(t, st.order.price)],
                 AfterPrelude, PreludeMarks \cup AmountMarks(t, st.order.price))
      BY <1>8 DEF ComputeRefund
    <2>2. st'.eligibility = st.eligibility
      BY <1>1, <2>1 DEF Step, RefundState
    <2> QED
      BY <1>8, <2>1, <2>2 DEF ComputeRefund, At, Step, Stepping, Nodes
  <1>9. CASE SpeculationFails
    BY <1>9 DEF SpeculationFails, At, Step, Stepping, Nodes, Quiet
  <1>10. CASE RequestApproval \/ AuthorizationRefused \/ AuthorizeAndIssue
    BY <1>10 DEF RequestApproval, AuthorizationRefused, AuthorizeAndIssue, At, Step, Stepping, Nodes, Quiet
  <1>11. CASE IssueStopped \/ IssueRefund \/ IssueFails
    BY <1>11 DEF IssueStopped, IssueRefund, IssueFails, At, Step, Stepping, Nodes, Quiet
  <1>12. CASE Reconcile
    BY <1>12 DEF Reconcile, At, Step, Stepping, Nodes, Quiet
  <1>13. CASE Respond
    BY <1>13 DEF Respond, At, Step, Stepping, Nodes
  <1> QED
    BY <1>2, <1>3, <1>4, <1>5, <1>6, <1>7, <1>8, <1>9, <1>10, <1>11, <1>12, <1>13 DEF Next

Pausing == {"request_approval", "authorize_and_issue"}

BudgetInv ==
  /\ steps + Rank(variant, next, st.eligibility # None) <= 10
  /\ phase = "paused" => answer = None /\ next \in Pausing
  /\ answer \in Answers => next \in Pausing
  /\ answer = "spent" => next \in {"issue_refund"} \cup AfterIssuing

(* The answer is spent by the one node that waits for it, and no edge leads back to that node. *)
LEMMA BudgetInvStep == AgentInv /\ BudgetInv /\ [Next]_vars => BudgetInv'
  <1> SUFFICES ASSUME AgentInv, BudgetInv, [Next]_vars PROVE BudgetInv'
    OBVIOUS
  <1>1. steps \in Nat /\ answer \in {None} \cup Answers \cup {"spent"} /\ None \notin Answers /\ None # "spent"
    BY NoneAssumption DEF AgentInv, TypeOK, Answers
  <1>2. CASE UNCHANGED vars
    BY <1>2 DEF vars, BudgetInv
  <1>3. CASE Crashing
    BY <1>3 DEF Crashing, BudgetInv
  <1>4. CASE Interrupt
    <2>1. answer = None /\ next \in Pausing
      BY <1>1, <1>4 DEF Interrupt, NeedsApproval, At, BudgetInv, Pausing, AfterIssuing, Answers
    <2> QED
      BY <1>4, <2>1 DEF Interrupt, BudgetInv
  <1>5. CASE Resume
    <2>1. answer' \in Answers
      BY <1>5, RunAssumption DEF Resume, Answers, AgentInv, TypeOK, Case
    <2>2. steps' = 0 /\ phase' = "running" /\ UNCHANGED <<variant, next, st>> /\ next \in Pausing
      BY <1>5 DEF Resume, BudgetInv
    <2>3. Rank(variant', next', st'.eligibility # None) \in 0..9
      BY RankType
    <2> QED
      BY <1>1, <2>1, <2>2, <2>3 DEF BudgetInv, Answers
  <1>6. CASE Stepping
    <2> DEFINE before == Rank(variant, next, st.eligibility # None)
               after  == Rank(variant', next', st'.eligibility # None)
    <2>1. after < before
      BY <1>6, RankFalls DEF Stepping
    <2>2. before \in 0..9 /\ after \in 0..9 /\ steps + before <= 10 /\ steps' = steps + 1
      BY <1>6, RankType DEF BudgetInv, Stepping
    <2>3. steps' + after <= 10
      <3> HIDE DEF before, after
      <3> QED
        BY <1>1, <2>1, <2>2
    <2>4. phase' # "paused" /\ answer' \in {None, "spent"}
      BY <1>6 DEF Stepping
    <2>5. ASSUME answer # None
          PROVE  next' \in {"issue_refund"} \cup AfterIssuing
      <3>1. next \in Pausing \cup {"issue_refund"} \cup AfterIssuing
        BY <1>1, <2>5 DEF BudgetInv
      <3> QED
        BY <1>6, <3>1 DEF Stepping, Route, AfterApproval, Pausing, AfterIssuing, Nodes
    <2>6. answer' = "spent" => answer # None
      BY <1>1, <1>6 DEF Stepping
    <2> QED
      BY <1>1, <2>3, <2>4, <2>5, <2>6 DEF BudgetInv, Answers
  <1> QED
    BY <1>2, <1>3, <1>4, <1>5, <1>6, StepKinds

(* The budget's invariant holds of every run. *)
LEMMA BudgetInvariant == Spec => []BudgetInv
  <1>1. Init => BudgetInv
    BY NoneAssumption DEF Init, Start, BudgetInv, Rank, Answers
  <1>2. AgentInv /\ BudgetInv /\ [Next]_vars => BudgetInv'
    BY BudgetInvStep
  <1> QED
    BY <1>1, <1>2, AgentInvariant, PTL DEF Spec

(* run_agent's one resume (agent/graph.py:520-522) is all that any path of any variant needs, and *)
(* no invocation takes more than ten supersteps of its limit of 25, whatever the limit is.        *)
THEOREM OneInterrupt == Spec => []OneInterruptIsEnough
  <1>1. AgentInv /\ BudgetInv => OneInterruptIsEnough
    <2> SUFFICES ASSUME AgentInv, BudgetInv PROVE OneInterruptIsEnough
      OBVIOUS
    <2>1. Rank(variant, next, st.eligibility # None) \in 0..9 /\ steps \in Nat
      BY RankType DEF AgentInv, TypeOK
    <2>2. steps <= 10
      BY <2>1 DEF BudgetInv
    <2> QED
      BY <2>2 DEF BudgetInv, OneInterruptIsEnough
  <1> QED
    BY <1>1, AgentInvariant, BudgetInvariant, PTL
-----------------------------------------------------------------------------
(* The promise's view of a run (RefundAgentProperties, Promise). *)
ledgerBar == IF variant \in PromiseKeepers THEN Payments ELSE << >>

toldBar == IF variant \in PromiseKeepers THEN Told ELSE IF reply = None THEN None ELSE << >>

(* A step the promise does not see. *)
LEMMA Stutters ==
  ASSUME case' = case, ledgerBar' = ledgerBar, toldBar' = toldBar, Over' <=> Over
  PROVE  UNCHANGED Promise!promiseVars
  <1>1. Over' = Over
    BY DEF Over
  <1> QED
    BY <1>1 DEF ledgerBar, toldBar, Promise!promiseVars

(* A harmless step leaves the payments as they are. *)
LEMMA HarmlessLedger ==
  ASSUME Harmless, variant' = variant
  PROVE  Payments' = Payments /\ ledgerBar' = ledgerBar
  <1>1. world'.refunds = world.refunds
    BY DEF Harmless, OnlyReads
  <1>2. Payments' = Payments
    BY <1>1 DEF Payments
  <1> QED
    BY <1>2 DEF ledgerBar

(* Only respond leads to the end of the graph. *)
LEMMA EndOfGraph ==
  ASSUME NEW v, NEW s, NEW node \in Nodes
  PROVE  Route(v, node, s) = "END" <=> node = "respond"
  <1>1. CASE node = "respond"
    BY <1>1 DEF Route
  <1>2. CASE node \in {"classify_request", "lookup_order", "get_refund_history", "check_eligibility"}
    BY <1>2 DEF Route, AfterClassify, AfterLookupNode, AfterHistory, AfterEligibility, AfterCompute
  <1>3. CASE node \in {"compute_refund", "request_approval", "gate"}
    BY <1>3 DEF Route, AfterCompute, AfterApproval, AfterGate
  <1>4. CASE node \in {"issue_refund", "discard_plan", "authorize_and_issue", "reconcile"}
    <2>1. Route(v, node, s) \in {"respond", "reconcile"}
      BY <1>4 DEF Route
    <2> QED
      BY <1>4, <2>1
  <1> QED
    BY <1>1, <1>2, <1>3, <1>4 DEF Nodes

(* The write of a variant that keeps the promise is the promise's grant. *)
LEMMA WriteGrants ==
  ASSUME AgentInv, AgentInv', FaultsAreMarked', variant \in PromiseKeepers, variant' = variant, case' = case,
         NEW before, NEW type, Writes(before, type),
         toldBar' = toldBar, ~Over, ~Over'
  PROVE  Promise!Grant
  <1> DEFINE o == st.order_id
             row == [id |-> before.next_refund, order |-> o, type |-> type, amount |-> st.refund_amount]
             pay == [order |-> o, type |-> type, amount |-> st.refund_amount]
  <1>1. /\ before \in World /\ before.refunds = << >> /\ world.refunds = << >>
        /\ type \in RefundTypes /\ o \in OrderIds /\ st.refund_amount \in Nat
        /\ ~Fails(case, "issue_refund") /\ case \in Case
        /\ world' = AfterIssue(before, case, o, type, st.refund_amount)
    BY RunAssumption DEF Writes, OnlyReads, AgentInv, TypeOK
  <1>2. world'.refunds = Append(<< >>, row)
    BY <1>1, IssueFacts
  <1>3. DOMAIN world'.refunds = {1} /\ world'.refunds[1] = row
    <2> HIDE DEF row
    <2> QED
      BY <1>2
  <1>4. Payments = << >>
    BY <1>1 DEF Payments
  <1>5. Payments' = [i \in {1} |-> pay]
    BY <1>3 DEF Payments
  <1>6. Payments' = <<pay>>
    <2> HIDE DEF pay
    <2>1. DOMAIN <<pay>> = {1} /\ <<pay>>[1] = pay
      OBVIOUS
    <2> QED
      BY <1>5, <2>1
  <1>7. Promise!Due(case, pay)
    <2>1. \A i \in DOMAIN Payments' : Promise!Due(case', Payments'[i])
      BY DEF FaultsAreMarked, KeepsPromise
    <2> HIDE DEF pay
    <2> QED
      BY <1>5, <2>1
  <1>8. /\ Promise!Entitled(case, o)
        /\ st.refund_amount = Promise!RefundAmount(type, case.orders[o].price)
    BY <1>7 DEF Promise!Due
  <1>9. /\ ~Over /\ ledgerBar = << >> /\ ledgerBar' = <<pay>> /\ UNCHANGED <<case, toldBar, Over>>
    <2>1. Over' = Over
      BY DEF Over
    <2> QED
      BY <1>4, <1>6, <2>1 DEF ledgerBar
  <1>10. o \in OrderIds /\ type \in Promise!RefundTypes
    BY <1>1 DEF Promise!RefundTypes, RefundTypes
  <1>11. pay = [order |-> o, type |-> type, amount |-> Promise!RefundAmount(type, case.orders[o].price)]
    BY <1>8
  <1> HIDE DEF pay, o
  <1> QED
    BY <1>7, <1>8, <1>9, <1>10, <1>11 DEF Promise!Grant, ledgerBar, toldBar

(* Every step of a run within its budget is a step of the promise, or one it does not see. *)
LEMMA StepSimulates ==
  ASSUME RECURSION_LIMIT >= 10
  PROVE  AgentInv /\ AgentInv' /\ BudgetInv /\ BudgetInv' /\ FaultsAreMarked' /\ [Next]_vars
           => [Promise!Next]_(Promise!promiseVars)
  <1> SUFFICES ASSUME AgentInv, AgentInv', BudgetInv, BudgetInv', FaultsAreMarked', [Next]_vars
               PROVE  Promise!Next \/ UNCHANGED Promise!promiseVars
    OBVIOUS
  <1>1. CASE UNCHANGED vars
    <2>1. Payments' = Payments /\ Told' = Told
      BY <1>1 DEF vars, Payments, Told
    <2> QED
      BY <1>1, <2>1, Stutters DEF vars, ledgerBar, toldBar, Over
  <1>2. CASE Next /\ (Interrupt \/ Resume)
    <2>1. UNCHANGED <<variant, case, st, world, reply>> /\ ~Over /\ ~Over'
      BY <1>2 DEF Interrupt, NeedsApproval, At, Resume, Over
    <2>2. Payments' = Payments /\ Told' = Told
      BY <2>1 DEF Payments, Told
    <2> QED
      BY <2>1, <2>2, Stutters DEF ledgerBar, toldBar
  <1>3. ASSUME Next, Stepping \/ Crashing
        PROVE  \/ Harmless
               \/ /\ Stepping /\ next # "respond"
                  /\ \E before, type : Writes(before, type)
    <2>1. CASE \E before, type : Writes(before, type)
      <3>1. PICK before, type : Writes(before, type)
        BY <2>1
      <3>2. next # "respond" /\ st.refund_id = None /\ st'.refund_id = before.next_refund /\ before \in World
        BY <3>1 DEF Writes, OnlyReads
      <3>3. st' # st
        BY <3>2, NoneAssumption DEF World
      <3> QED
        BY <1>3, <2>1, <3>2, <3>3 DEF Crashing
    <2> QED
      BY <1>3, <2>1, LedgerSteps
  <1>4. CASE Next /\ Crashing
    <2>1. UNCHANGED <<variant, case, st, reply>> /\ ~Over /\ Over'
      BY <1>4 DEF Crashing, Over
    <2>2. Harmless
      BY <1>3, <1>4 DEF Crashing, Stepping, AgentInv, TypeOK
    <2>3. ledgerBar' = ledgerBar /\ Told' = Told
      BY <2>1, <2>2, HarmlessLedger DEF Told
    <2>4. Promise!Break
      BY <2>1, <2>3 DEF Promise!Break, ledgerBar, toldBar, Over
    <2> QED
      BY <2>4 DEF Promise!Next
  <1>5. CASE Next /\ Stepping
    <2>1. /\ UNCHANGED <<variant, case>> /\ ~Over /\ phase' # "crashed"
          /\ Over' <=> next = "respond"
      <3>1. steps' <= 10
        <4>1. Rank(variant', next', st'.eligibility # None) \in 0..9 /\ steps' \in Nat
          BY RankType DEF AgentInv, TypeOK
        <4> QED
          BY <4>1 DEF BudgetInv
      <3>2. ~(steps' > RECURSION_LIMIT)
        BY <3>1, RunAssumption DEF AgentInv, TypeOK
      <3>3. next' = "END" <=> next = "respond"
        BY <1>5, EndOfGraph DEF Stepping
      <3>4. phase = "running" /\ phase' = IF next' = "END" THEN "done" ELSE "running"
        BY <1>5, <3>2 DEF Stepping
      <3> QED
        BY <1>5, <3>3, <3>4 DEF Stepping, Over
    <2>2. reply = None
      BY <1>5 DEF Stepping, AgentInv, PathInv, Nodes
    <2>3. toldBar = None
      BY <2>2 DEF toldBar, Told
    <2>4. CASE next # "respond"
      <3>1. toldBar' = None
        BY <1>5, <2>2, <2>4 DEF Stepping, toldBar, Told
      <3>2. CASE Harmless
        BY <2>1, <2>3, <2>4, <3>1, <3>2, HarmlessLedger, Stutters
      <3>3. CASE variant \notin PromiseKeepers
        BY <2>1, <2>3, <2>4, <3>1, <3>3, Stutters DEF ledgerBar
      <3>4. CASE ~Harmless /\ variant \in PromiseKeepers
        <4>1. PICK before, type : Writes(before, type)
          BY <1>3, <1>5, <3>4
        <4>2. Promise!Grant
          BY <2>1, <2>3, <2>4, <3>1, <3>4, <4>1, WriteGrants
        <4> QED
          BY <4>2 DEF Promise!Next
      <3> QED
        BY <3>2, <3>3, <3>4
    <2>5. CASE next = "respond"
      <3>1. Harmless
        BY <1>3, <1>5, <2>5
      <3>2. Payments' = Payments /\ ledgerBar' = ledgerBar
        BY <2>1, <3>1, HarmlessLedger
      <3>3. CASE reply' = None
        <4>1. toldBar' = None
          BY <3>3 DEF toldBar, Told
        <4>2. Promise!Break
          BY <2>1, <2>3, <2>5, <3>2, <4>1 DEF Promise!Break, ledgerBar, toldBar
        <4> QED
          BY <4>2 DEF Promise!Next
      <3>4. CASE reply' # None
        <4>1. toldBar' = ledgerBar
          <5>1. CASE variant \in PromiseKeepers
            <6>1. Told' = Payments'
              BY <2>1, <3>4, <5>1 DEF FaultsAreMarked, KeepsPromise
            <6> QED
              BY <2>1, <3>2, <5>1, <6>1 DEF toldBar, ledgerBar
          <5>2. CASE variant \notin PromiseKeepers
            BY <2>1, <3>4, <5>2 DEF toldBar, ledgerBar
          <5> QED
            BY <5>1, <5>2
        <4>2. Promise!Tell
          BY <2>1, <2>5, <3>2, <4>1 DEF Promise!Tell, ledgerBar, toldBar
        <4> QED
          BY <4>2 DEF Promise!Next
      <3> QED
        BY <3>3, <3>4
    <2> QED
      BY <2>4, <2>5
  <1> QED
    BY <1>1, <1>2, <1>4, <1>5, StepKinds

(* The run starts where the promise starts. *)
LEMMA InitSimulates == Init => Promise!Init
  BY DEF Init, Start, Promise!Init, Payments, SeedWorld, Told, Over

(* The agent implements its promise: every run of every variant, on every case and under every policy, *)
(* is a behaviour of the refund desk - of the safety of KeepsPromiseSpec, as long as the limit is at    *)
(* least the ten supersteps of the longest path (25 in run_agent, agent/graph.py:511).                  *)
THEOREM ImplementsPromise ==
  ASSUME RECURSION_LIMIT >= 10
  PROVE  Spec => Promise!Init /\ [][Promise!Next]_(Promise!promiseVars)
  <1>1. AgentInv /\ AgentInv' /\ BudgetInv /\ BudgetInv' /\ FaultsAreMarked' /\ [Next]_vars
          => [Promise!Next]_(Promise!promiseVars)
    BY StepSimulates
  <1> QED
    BY <1>1, InitSimulates, AgentInvariant, BudgetInvariant, FaultsMarked, PTL DEF Spec
=============================================================================
