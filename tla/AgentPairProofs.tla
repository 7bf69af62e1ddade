--------------------------- MODULE AgentPairProofs ---------------------------
(***************************************************************************)
(* Proofs about the paired runs of Part 1.  The table below says in closed *)
(* form where each variant's run is before every node; every run keeps it  *)
(* (RunsAreAsTabled), and two runs that end in the table end alike and     *)
(* look alike where the variant is a valid alternate.                      *)
(***************************************************************************)
EXTENDS AgentPair, RefundWorldLemmas, FiniteSetTheorems, SequenceTheorems, TLAPS

(* What a run of Part 1 comes to, in closed form: for each variant, how far it gets in a case under a *)
(* classification and a planned refund, what its state and its ledger hold then, which tools it has   *)
(* called and whether its marker has fired.  InTable says it of a run before each node.               *)

(* The variants of Part 1: the changes of Part 2 are not among its variants (agent/graph.py:40). *)
PAIRED == ALL_VARIANTS \ CHANGES

Lookup == "lookup_order"

History == "get_refund_history"

Check == "check_eligibility"

Issue == "issue_refund"

OwnRow(k, o) == SelectOrder(SeedWorld(k), o, TRUE)

(* The order variant v reads: M3's second lookup finds another customer's, at the price of a re-read. *)
Seen(v, k, o) ==
  IF v # "M3" \/ OwnRow(k, o) # None \/ k.orders[o] = None \/ k.reprice = None
  THEN SelectOrder(SeedWorld(k), o, v # "M3")
  ELSE [k.orders[o] EXCEPT !.price = k.reprice]

Prior(k) == RefundHistory(SeedWorld(k), k)

(* What the driver answers an interrupt in case k with. *)
Given(k) == IF k.approval = None THEN "reject" ELSE k.approval

-----------------------------------------------------------------------------
(* How far a run gets that classifies as c and plans t. *)
Asked(c) == c.order_id # None

Found(v, k, c) ==
  /\ Asked(c) /\ (v = "alt_history_early" => ~Fails(k, History))
  /\ ~Fails(k, Lookup) /\ Seen(v, k, c.order_id) # None

Skips(v, c) == v = "A" /\ c.intent = "damaged"

(* The check is called, answers, and lets the refund through. *)
Checks(v, k, c) ==
  Found(v, k, c) /\ ~Skips(v, c) /\ (v # "M2" => ~Fails(k, History))

Verdict(v, k, c) ==
  Eligibility(Seen(v, k, c.order_id), IF v = "M2" THEN 0 ELSE Prior(k),
              IF v = "M1" THEN REFUND_WINDOW_DAYS + 1 ELSE REFUND_WINDOW_DAYS)

Answers(v, k, c) == Checks(v, k, c) /\ ~Fails(k, Check)

Clears(v, k, c) == Answers(v, k, c) /\ Verdict(v, k, c) = "within policy"

(* The history is read and kept. *)
Reads(v, k, c) ==
  /\ Asked(c) /\ ~Fails(k, History)
  /\ v # "alt_history_early" => Found(v, k, c)
  /\ v = "M2" => Clears(v, k, c)

Plans(v, k, c) == Reads(v, k, c) /\ (Skips(v, c) \/ Clears(v, k, c))

Amount(v, k, c, t) ==
  LET price == Seen(v, k, c.order_id).price
  IN IF v = "M5" THEN TruncatedAmount(t, price) ELSE RefundAmount(t, price)

MustAsk(v, k, c, t) == Plans(v, k, c) /\ Amount(v, k, c, t) > APPROVAL_THRESHOLD

(* The write is reached, is not called off, and succeeds. *)
Goes(v, k, c, t) ==
  Plans(v, k, c) /\ (MustAsk(v, k, c, t) => Given(k) = "approve" \/ v = "M4")

Stale(v, k, c) == v = "alt_verify" /\ k.reprice \notin {None, Seen(v, k, c.order_id).price}

Tries(v, k, c, t) == Goes(v, k, c, t) /\ ~Stale(v, k, c)

Pays(v, k, c, t) == Tries(v, k, c, t) /\ ~Fails(k, Issue)

(* The first error it meets. *)
Error(v, k, c, t) ==
  IF ~Asked(c) THEN None
  ELSE IF v = "alt_history_early" /\ Fails(k, History) THEN History
  ELSE IF Fails(k, Lookup) THEN Lookup
  ELSE IF Seen(v, k, c.order_id) = None THEN "no_order"
  ELSE IF v # "M2" /\ Fails(k, History) THEN History
  ELSE IF Checks(v, k, c) /\ Fails(k, Check) THEN Check
  ELSE IF v = "M2" /\ Clears(v, k, c) /\ Fails(k, History) THEN History
  ELSE IF Goes(v, k, c, t) /\ Stale(v, k, c) THEN "order_changed"
  ELSE IF Tries(v, k, c, t) /\ Fails(k, Issue) THEN Issue
  ELSE None

(* Its marker fires. Of V4 the table does not say it: it depends on whether the speculation crashed. *)
Fires(v, k, c, t) ==
  CASE v = "A" -> Reads(v, k, c) /\ Skips(v, c)
    [] v = "B" -> Tries(v, k, c, t) /\ Fails(k, Issue)
    [] v \in {"C", "C1", "C2", "M2"} -> Checks(v, k, c)
    [] v = "M1" -> Checks(v, k, c) /\ Seen(v, k, c.order_id).age = REFUND_WINDOW_DAYS + 1
    [] v = "M3" -> Asked(c) /\ ~Fails(k, Lookup) /\ OwnRow(k, c.order_id) = None
    [] v = "M4" -> MustAsk(v, k, c, t) /\ Given(k) = "reject"
    [] v = "M5" ->
         LET price == Seen(v, k, c.order_id).price
         IN Plans(v, k, c) /\ TruncatedAmount(t, price) # RefundAmount(t, price)
    [] v = "M6" -> Goes(v, k, c, t) /\ t # "full"
    [] v = "M7" -> Tries(v, k, c, t) /\ Fails(k, Issue)
    [] v = "M8" -> Plans(v, k, c) /\ t = "partial"
    [] v = "V1" -> Error(v, k, c, t) \in {Lookup, History, Check}
    [] v = "V2" -> Asked(c) /\ ~Found(v, k, c)
    [] v = "V3" -> Tries(v, k, c, t)
    [] OTHER -> FALSE

-----------------------------------------------------------------------------
(* The calls of a run whose lookup failed or found nothing, ... *)
LookedCalls(v, k, c) ==
  CASE v = "V1" /\ Fails(k, Lookup) -> <<Lookup, Lookup>>
    [] v = "M3" /\ ~Fails(k, Lookup) /\ OwnRow(k, c.order_id) = None -> <<Lookup, Lookup>>
    [] v = "V2" -> <<Lookup, History>>
    [] v = "alt_history_early" -> <<History, Lookup>>
    [] OTHER -> <<Lookup>>

(* ... of one that has the order and the history, ... *)
ReadCalls(v, k, c) ==
  CASE v = "alt_history_early" -> <<History, Lookup>>
    [] v = "M3" /\ OwnRow(k, c.order_id) = None -> <<Lookup, Lookup, History>>
    [] OTHER -> <<Lookup, History>>

(* ... of one that has been through the check, or past it, ... *)
CheckedCalls(v, k, c) ==
  CASE Skips(v, c) -> <<Lookup, History>>
    [] v = "M2" -> <<Lookup, Check, History>>
    [] v = "alt_history_early" -> <<History, Lookup, Check>>
    [] v \in {"C", "C1"} -> <<Lookup, History, Lookup, Check>>
    [] v = "C2" -> <<Lookup, History, History, Check>>
    [] v = "M3" /\ OwnRow(k, c.order_id) = None -> <<Lookup, Lookup, History, Check>>
    [] OTHER -> <<Lookup, History, Check>>

PlannedCalls(v, k, c) ==
  IF v = "C" THEN Append(CheckedCalls(v, k, c), Lookup) ELSE CheckedCalls(v, k, c)

(* ... of one that has come to the write, ... *)
WriteCalls(v, k, c) ==
  IF v \in {"C", "alt_recheck", "alt_verify"} THEN Append(PlannedCalls(v, k, c), Lookup)
  ELSE PlannedCalls(v, k, c)

TriedCalls(v, k, c) ==
  LET once == Append(WriteCalls(v, k, c), Issue)
  IN CASE v = "V3" -> Append(once, History)
       [] v = "M7" /\ Fails(k, Issue) -> Append(once, Issue)
       [] OTHER -> once

(* ... and of one that is over. *)
EndCalls(v, k, c, t) ==
  IF ~Asked(c) THEN << >>
  ELSE IF v = "alt_history_early" /\ Fails(k, History) THEN <<History>>
  ELSE IF ~Found(v, k, c) THEN LookedCalls(v, k, c)
  ELSE IF v # "M2" /\ Fails(k, History)
       THEN IF v = "V1" THEN <<Lookup, History, History>> ELSE ReadCalls(v, k, c)
  ELSE IF v = "V1" /\ Fails(k, Check) THEN <<Lookup, History, Check, Check>>
  ELSE IF v = "M2" /\ ~Clears(v, k, c) THEN <<Lookup, Check>>
  ELSE IF ~Plans(v, k, c) THEN CheckedCalls(v, k, c)
  ELSE IF ~Goes(v, k, c, t) THEN PlannedCalls(v, k, c)
  ELSE IF ~Tries(v, k, c, t) THEN WriteCalls(v, k, c)
  ELSE TriedCalls(v, k, c)

LogOf(k, calls) == [i \in DOMAIN calls |-> [name |-> calls[i], ok |-> ~Fails(k, calls[i])]]

-----------------------------------------------------------------------------
(* The state of a run of v that has looked, read, checked and been answered as far as it says, and  *)
(* has planned what it says.                                                                        *)
Holds(s, v, k, c, looked, read, checked, answered) ==
  /\ s.intent = c.intent /\ s.order_id = c.order_id
  /\ s.order = IF looked THEN Seen(v, k, c.order_id) ELSE None
  /\ s.prior_refunds = IF read THEN Prior(k) ELSE None
  /\ s.eligibility = IF checked THEN Verdict(v, k, c) ELSE None
  /\ s.refund_amount = IF s.refund_type = None THEN None ELSE Amount(v, k, c, s.refund_type)
  /\ s.approval = IF answered THEN Given(k) ELSE None

Ended(s, v, k, c) ==
  /\ Holds(s, v, k, c, Found(v, k, c), Reads(v, k, c), Answers(v, k, c), MustAsk(v, k, c, s.refund_type))
  /\ s.refund_type # None <=> Plans(v, k, c)
  /\ s.refund_id = IF Pays(v, k, c, s.refund_type) THEN 1 ELSE None
  /\ s.error = Error(v, k, c, s.refund_type)

(* The facts variant v writes its reply from. *)
FactsOf(v, s) ==
  LET false  == v = "B" /\ s.error # None /\ s.refund_amount # None /\ s.refund_id = None
      issued == false \/ s.refund_id # None
  IN [has_order_id |-> s.order_id # None,
      price |-> IF s.order = None THEN None ELSE s.order.price,
      ineligible |-> IF s.eligibility = "within policy" THEN None ELSE s.eligibility,
      plan_type |-> IF s.refund_amount = None THEN None ELSE s.refund_type,
      plan_amount |-> IF v = "M8" /\ s.refund_amount # None /\ s.order # None
                      THEN s.order.price ELSE s.refund_amount,
      rejected |-> s.approval = "reject",
      status |-> IF issued THEN "issued" ELSE "not issued",
      refund_id |-> s.refund_id,
      error |-> IF issued THEN None ELSE s.error]

(* The row a run of v writes when it pays. *)
Paid(v, s) ==
  [id |-> 1, order |-> s.order_id, type |-> IF v = "M6" THEN "full" ELSE s.refund_type,
   amount |-> s.refund_amount]

-----------------------------------------------------------------------------
ToCheck == {"classify_request", "lookup_order", "get_refund_history", "check_eligibility"}

(* The nodes before which the marker of v cannot have fired yet. *)
Unmarked(v) ==
  CASE v = "M3" -> {"classify_request", "lookup_order"}
    [] v = "A" -> {"classify_request", "lookup_order", "get_refund_history"}
    [] v = "M2" -> {"classify_request", "lookup_order", "check_eligibility"}
    [] v \in {"C", "C1", "C2", "M1"} -> ToCheck
    [] v = "M5" -> ToCheck \cup {"compute_refund"}
    [] v = "M4" -> ToCheck \cup {"compute_refund", "request_approval"}
    [] v \in {"B", "M8"} -> Nodes
    [] OTHER -> Nodes \ {"respond"}

Class(s) == [intent |-> s.intent, order_id |-> s.order_id]

Marking(v, k, r) ==
  /\ r.fired # {} => r.next \notin Unmarked(v)
  /\ v # "V4" /\ r.next \notin Unmarked(v) => (r.fired # {} <=> Fires(v, k, Class(r.st), r.st.refund_type))

(* Before the write the ledger is empty; the world is the seeded one until the order has been read,  *)
(* and for alt_verify until it reads the order again.                                                *)
Before(v, k, s, w) ==
  /\ s.refund_id = None /\ s.error = None /\ w.refunds = << >> /\ w.next_refund = 1
  /\ s.order = None => w.lookups = 0 /\ w.orders = k.orders
  /\ s.order # None /\ v = "alt_verify" => w.lookups = 1 /\ w.orders = k.orders

Open(v, k, r, calls) == Before(v, k, r.st, r.world) /\ r.world.log = LogOf(k, calls)

AtStart(v, k, r) == r.st = EmptyState /\ Open(v, k, r, << >>)

AtLookup(v, k, r) ==
  LET c == Class(r.st)
      early == v = "alt_history_early"
  IN /\ v # "V6" /\ Asked(c) /\ (early => Reads(v, k, c)) /\ r.st.refund_type = None
     /\ Holds(r.st, v, k, c, FALSE, early, FALSE, FALSE)
     /\ Open(v, k, r, IF early THEN <<History>> ELSE << >>)

AtGate(v, k, r) ==
  LET c == Class(r.st)
  IN /\ v = "V6" /\ Asked(c) /\ r.st.refund_type = None
     /\ Holds(r.st, v, k, c, FALSE, FALSE, FALSE, FALSE) /\ Open(v, k, r, << >>)

AtHistory(v, k, r) ==
  LET c == Class(r.st)
      early == v = "alt_history_early"
  IN /\ v \notin {"V2", "V6"} /\ Asked(c) /\ (v # "V4" => r.st.refund_type = None)
     /\ ~early => Found(v, k, c)
     /\ v = "M2" => Clears(v, k, c)
     /\ Holds(r.st, v, k, c, ~early, FALSE, v = "M2", FALSE)
     /\ Open(v, k, r, IF early THEN << >> ELSE IF v = "M2" THEN <<Lookup, Check>> ELSE LookedCalls(v, k, c))

AtCheck(v, k, r) ==
  LET c == Class(r.st)
  IN /\ v # "V6" /\ Checks(v, k, c) /\ (v # "V4" => r.st.refund_type = None)
     /\ Holds(r.st, v, k, c, TRUE, v # "M2", FALSE, FALSE)
     /\ Open(v, k, r, IF v = "M2" THEN <<Lookup>> ELSE ReadCalls(v, k, c))

(* V4 is here twice when the model failed to speculate. *)
AtCompute(v, k, r) ==
  LET c == Class(r.st)
  IN /\ r.st.refund_type = None
     /\ \/ /\ v = "V4" /\ Found(v, k, c)
           /\ Holds(r.st, v, k, c, TRUE, FALSE, FALSE, FALSE) /\ Open(v, k, r, <<Lookup>>)
        \/ /\ Plans(v, k, c)
           /\ Holds(r.st, v, k, c, TRUE, TRUE, Answers(v, k, c), FALSE)
           /\ Open(v, k, r, CheckedCalls(v, k, c))

AtApproval(v, k, r) ==
  LET c == Class(r.st)
  IN /\ Plans(v, k, c) /\ r.st.refund_type \in RefundTypes
     /\ IF r.next = "request_approval" THEN v # "V5" /\ MustAsk(v, k, c, r.st.refund_type) ELSE v = "V5"
     /\ Holds(r.st, v, k, c, TRUE, TRUE, Answers(v, k, c), FALSE)
     /\ Open(v, k, r, PlannedCalls(v, k, c))

AtIssue(v, k, r) ==
  LET c == Class(r.st)
  IN /\ v # "V5" /\ r.st.refund_type \in RefundTypes /\ Goes(v, k, c, r.st.refund_type)
     /\ Holds(r.st, v, k, c, TRUE, TRUE, Answers(v, k, c), MustAsk(v, k, c, r.st.refund_type))
     /\ Open(v, k, r, PlannedCalls(v, k, c))

Settled(v, k, r, calls) ==
  /\ r.world.refunds = IF Pays(v, k, Class(r.st), r.st.refund_type) THEN <<Paid(v, r.st)>> ELSE << >>
  /\ r.world.log = LogOf(k, calls)

(* V4 takes a plan back that was not due. *)
AtDiscard(v, k, r) ==
  /\ v = "V4" /\ ~Plans(v, k, Class(r.st))
  /\ Ended([r.st EXCEPT !.refund_type = None, !.refund_amount = None], v, k, Class(r.st))
  /\ Settled(v, k, r, EndCalls(v, k, Class(r.st), None))

AtReconcile(v, k, r) ==
  LET c == Class(r.st)
  IN /\ v = "V3" /\ Tries(v, k, c, r.st.refund_type) /\ Ended(r.st, v, k, c)
     /\ Settled(v, k, r, Append(WriteCalls(v, k, c), Issue))

AtEnd(v, k, r) ==
  /\ Ended(r.st, v, k, Class(r.st))
  /\ Settled(v, k, r, EndCalls(v, k, Class(r.st), r.st.refund_type))
  /\ r.next = "END" => r.reply = FactsOf(v, r.st)

(* Run r of variant v in case k, before each node. *)
InTable(v, k, r) ==
  /\ r.next \in Nodes \cup {"END"} /\ Marking(v, k, r)
  /\ r.next = "classify_request" => AtStart(v, k, r)
  /\ r.next = "lookup_order" => AtLookup(v, k, r)
  /\ r.next = "gate" => AtGate(v, k, r)
  /\ r.next = "get_refund_history" => AtHistory(v, k, r)
  /\ r.next = "check_eligibility" => AtCheck(v, k, r)
  /\ r.next = "compute_refund" => AtCompute(v, k, r)
  /\ r.next = "discard_plan" => AtDiscard(v, k, r)
  /\ r.next \in {"request_approval", "authorize_and_issue"} => AtApproval(v, k, r)
  /\ r.next = "issue_refund" => AtIssue(v, k, r)
  /\ r.next = "reconcile" => AtReconcile(v, k, r)
  /\ r.next \in {"respond", "END"} => AtEnd(v, k, r)

-----------------------------------------------------------------------------
(* The actions of RefundAgent, on run records. Run r takes a superstep to r2: it writes s, leaves *)
(* world w and records marks.                                                                     *)
Moves(v, r, r2, s, w, marks) ==
  /\ r2.st = s /\ r2.world = w /\ r2.next = Route(v, r.next, s)
  /\ r2.fired = r.fired \cup marks \cup RouteMarks(v, r.next, s)

Classes == [intent: Intents, order_id: OrderIds \cup {None}]

FailedRead(v, k, w, tool) == IF v = "V1" THEN Logged(Logged(w, k, tool), k, tool) ELSE Logged(w, k, tool)

Retries(v) == IF v = "V1" THEN {"V1:retried_read"} ELSE {}

Classifies(v, k, r, r2) ==
  r.next = "classify_request" /\ \E c \in Classes :
    Moves(v, r, r2, [r.st EXCEPT !.intent = c.intent, !.order_id = c.order_id], r.world, {})

LookupFails(v, k, r, r2) ==
  /\ r.next = "lookup_order" /\ v # "V2" /\ Fails(k, Lookup)
  /\ Moves(v, r, r2, [r.st EXCEPT !.error = Lookup], FailedRead(v, k, r.world, Lookup), Retries(v))

LookupAnswers(v, k, r, r2) ==
  /\ r.next = "lookup_order" /\ v # "V2" /\ ~Fails(k, Lookup)
  /\ LET first == AfterLookup(r.world, k, r.st.order_id)
         again == v = "M3" /\ SelectOrder(first, r.st.order_id, TRUE) = None
         last  == IF again THEN AfterLookup(first, k, r.st.order_id) ELSE first
         row   == SelectOrder(last, r.st.order_id, ~again)
     IN Moves(v, r, r2, [r.st EXCEPT !.order = row, !.error = IF row = None THEN "no_order" ELSE @],
              last, IF again THEN {"M3:ownerless_lookup"} ELSE {})

Fetches(v, k, r, r2) ==
  /\ r.next = "lookup_order" /\ v = "V2"
  /\ LET looked == AfterLookup(r.world, k, r.st.order_id)
         both   == Logged(looked, k, History)
         row    == SelectOrder(looked, r.st.order_id, TRUE)
     IN \/ /\ Fails(k, Lookup)
           /\ Moves(v, r, r2, [r.st EXCEPT !.error = Lookup], both, {"V2:history_read_on_failed_lookup"})
        \/ /\ ~Fails(k, Lookup) /\ row = None
           /\ Moves(v, r, r2, [r.st EXCEPT !.error = "no_order"], both, {"V2:history_read_on_failed_lookup"})
        \/ /\ ~Fails(k, Lookup) /\ row # None /\ Fails(k, History)
           /\ Moves(v, r, r2, [r.st EXCEPT !.order = row, !.error = History], both, {})
        \/ /\ ~Fails(k, Lookup) /\ row # None /\ ~Fails(k, History)
           /\ Moves(v, r, r2, [r.st EXCEPT !.order = row, !.prior_refunds = RefundHistory(looked, k)], both, {})

FailsHistory(v, k, r, r2) ==
  /\ r.next = "get_refund_history" /\ Fails(k, History)
  /\ Moves(v, r, r2, [r.st EXCEPT !.error = History], FailedRead(v, k, r.world, History), Retries(v))

AnswersHistory(v, k, r, r2) ==
  /\ r.next = "get_refund_history" /\ ~Fails(k, History)
  /\ Moves(v, r, r2, [r.st EXCEPT !.prior_refunds = RefundHistory(r.world, k)], Logged(r.world, k, History), {})

RedundantReads(v, k, r) ==
  CASE v \in {"C", "C1"} -> AfterLookup(r.world, k, r.st.order_id)
    [] v = "C2" -> Logged(r.world, k, History)
    [] OTHER -> r.world

MarksOfCheck(v, r) ==
  CASE v = "C" -> {"C:redundant_lookup"}
    [] v = "C1" -> {"C1:redundant_lookup"}
    [] v = "C2" -> {"C2:redundant_history"}
    [] v = "M2" -> {"M2:eligibility_before_history"}
    [] v = "M1" /\ r.st.order.age = REFUND_WINDOW_DAYS + 1 -> {"M1:window_off_by_one"}
    [] OTHER -> {}

FailsCheck(v, k, r, r2) ==
  /\ r.next = "check_eligibility" /\ Fails(k, Check)
  /\ Moves(v, r, r2, [r.st EXCEPT !.error = Check], FailedRead(v, k, RedundantReads(v, k, r), Check),
           MarksOfCheck(v, r) \cup Retries(v))

AnswersCheck(v, k, r, r2) ==
  /\ r.next = "check_eligibility" /\ ~Fails(k, Check)
  /\ LET prior == IF v = "M2" /\ r.st.prior_refunds = None THEN 0 ELSE r.st.prior_refunds
         window == IF v = "M1" THEN REFUND_WINDOW_DAYS + 1 ELSE REFUND_WINDOW_DAYS
     IN Moves(v, r, r2, [r.st EXCEPT !.eligibility = Eligibility(r.st.order, prior, window)],
              Logged(RedundantReads(v, k, r), k, Check), MarksOfCheck(v, r))

PassesGate(v, k, r, r2) ==
  /\ r.next = "gate"
  /\ LET looked  == AfterLookup(r.world, k, r.st.order_id)
         row     == SelectOrder(looked, r.st.order_id, TRUE)
         counted == Logged(looked, k, History)
         history == RefundHistory(looked, k)
         checked == Logged(counted, k, Check)
         found   == ~Fails(k, Lookup) /\ row # None
         read    == found /\ ~Fails(k, History)
     IN \/ Fails(k, Lookup) /\ Moves(v, r, r2, [r.st EXCEPT !.error = Lookup], looked, {})
        \/ /\ ~Fails(k, Lookup) /\ row = None
           /\ Moves(v, r, r2, [r.st EXCEPT !.error = "no_order"], looked, {})
        \/ /\ found /\ Fails(k, History)
           /\ Moves(v, r, r2, [r.st EXCEPT !.order = row, !.error = History], counted, {})
        \/ /\ read /\ Fails(k, Check)
           /\ Moves(v, r, r2, [r.st EXCEPT !.order = row, !.prior_refunds = history, !.error = Check], checked, {})
        \/ /\ read /\ ~Fails(k, Check)
           /\ Moves(v, r, r2, [r.st EXCEPT !.order = row, !.prior_refunds = history,
                                         !.eligibility = Eligibility(row, history, REFUND_WINDOW_DAYS)], checked, {})

Discards(v, k, r, r2) ==
  /\ r.next = "discard_plan"
  /\ Moves(v, r, r2, [r.st EXCEPT !.refund_type = None, !.refund_amount = None], r.world,
           IF r.st.refund_amount # None THEN {"V4:speculative_plan_discarded"} ELSE {})

AmountOf(v, t, price) == IF v = "M5" THEN TruncatedAmount(t, price) ELSE RefundAmount(t, price)

Reread(v, k, r, who) == IF v \in who THEN AfterLookup(r.world, k, r.st.order_id) ELSE r.world

Redundant(v) == IF v = "C" THEN {"C:redundant_lookup"} ELSE {}

Computes(v, k, r, r2) ==
  r.next = "compute_refund" /\ \E t \in RefundTypes :
    Moves(v, r, r2, [r.st EXCEPT !.refund_type = t, !.refund_amount = AmountOf(v, t, r.st.order.price)],
          Reread(v, k, r, {"C"}),
          Redundant(v) \cup (IF AmountOf(v, t, r.st.order.price) # RefundAmount(t, r.st.order.price)
                             THEN {"M5:amount_truncated"} ELSE {}))

Speculates(v, k, r, r2) ==
  /\ r.next = "compute_refund" /\ v = "V4" /\ r.st.eligibility = None
  /\ Moves(v, r, r2, r.st, r.world, {})

Approves(v, k, r, r2) ==
  /\ r.next = "request_approval"
  /\ Moves(v, r, r2, [r.st EXCEPT !.approval = Given(k)], r.world, {})

Refuses(v, k, r, r2) ==
  /\ r.next = "authorize_and_issue" /\ r.st.refund_amount > APPROVAL_THRESHOLD /\ Given(k) = "reject"
  /\ Moves(v, r, r2, [r.st EXCEPT !.approval = Given(k)], r.world, {})

Authorizes(v, k, r, r2) ==
  /\ r.next = "authorize_and_issue"
  /\ r.st.refund_amount > APPROVAL_THRESHOLD => Given(k) = "approve"
  /\ LET given == IF r.st.refund_amount > APPROVAL_THRESHOLD THEN [r.st EXCEPT !.approval = Given(k)] ELSE r.st
     IN Moves(v, r, r2,
              IF Fails(k, Issue) THEN [given EXCEPT !.error = Issue]
              ELSE [given EXCEPT !.refund_id = r.world.next_refund],
              AfterIssue(r.world, k, r.st.order_id, r.st.refund_type, r.st.refund_amount), {})

REREADERS == {"C", "alt_recheck", "alt_verify"}

Stops(v, k, r) ==
  LET current == SelectOrder(Reread(v, k, r, REREADERS), r.st.order_id, TRUE)
  IN \/ v \in {"alt_recheck", "alt_verify"} /\ Fails(k, Lookup)
     \/ v = "alt_verify" /\ (current = None \/ current.price # r.st.order.price)

StopsIssue(v, k, r, r2) ==
  /\ r.next = "issue_refund" /\ Stops(v, k, r)
  /\ LET e == IF v \in {"alt_recheck", "alt_verify"} /\ Fails(k, Lookup) THEN Lookup ELSE "order_changed"
     IN Moves(v, r, r2, [r.st EXCEPT !.error = e], Reread(v, k, r, REREADERS), {})

TypeOf(v, s) == IF v = "M6" THEN "full" ELSE s.refund_type

MarksOfIssue(v, s) ==
  Redundant(v) \cup (IF v = "M6" /\ s.refund_type # "full" THEN {"M6:refund_type_dropped"} ELSE {})

Issues1(v, k, r, r2) ==
  /\ r.next = "issue_refund" /\ ~Stops(v, k, r) /\ ~Fails(k, Issue)
  /\ LET w == Reread(v, k, r, REREADERS)
     IN Moves(v, r, r2, [r.st EXCEPT !.refund_id = w.next_refund],
              AfterIssue(w, k, r.st.order_id, TypeOf(v, r.st), r.st.refund_amount), MarksOfIssue(v, r.st))

FailsIssue(v, k, r, r2) ==
  /\ r.next = "issue_refund" /\ ~Stops(v, k, r) /\ Fails(k, Issue)
  /\ LET once == AfterIssue(Reread(v, k, r, REREADERS), k, r.st.order_id, TypeOf(v, r.st), r.st.refund_amount)
     IN Moves(v, r, r2, [r.st EXCEPT !.error = Issue],
              IF v = "M7" THEN AfterIssue(once, k, r.st.order_id, TypeOf(v, r.st), r.st.refund_amount) ELSE once,
              MarksOfIssue(v, r.st) \cup (IF v = "M7" THEN {"M7:blind_retry"} ELSE {}))

Reconciles(v, k, r, r2) ==
  /\ r.next = "reconcile"
  /\ Moves(v, r, r2, r.st, Logged(r.world, k, History), {"V3:reconcile_read"})

Lies(v, s) == v = "B" /\ s.error # None /\ s.refund_amount # None /\ s.refund_id = None

Responds(v, k, r, r2) ==
  /\ r.next = "respond" /\ r2.reply = FactsOf(v, r.st)
  /\ Moves(v, r, r2, r.st, r.world,
           (IF Lies(v, r.st) THEN {"B:false_success"} ELSE {})
           \cup (IF v = "M8" /\ r.st.refund_type = "partial" /\ r.st.refund_amount # None
                 THEN {"M8:price_rendered_as_amount"} ELSE {}))

(* One superstep. *)
Superstep(v, k, r, r2) ==
  \/ Classifies(v, k, r, r2) \/ LookupFails(v, k, r, r2) \/ LookupAnswers(v, k, r, r2) \/ Fetches(v, k, r, r2)
  \/ FailsHistory(v, k, r, r2) \/ AnswersHistory(v, k, r, r2)
  \/ FailsCheck(v, k, r, r2) \/ AnswersCheck(v, k, r, r2)
  \/ PassesGate(v, k, r, r2) \/ Discards(v, k, r, r2) \/ Computes(v, k, r, r2) \/ Speculates(v, k, r, r2)
  \/ Approves(v, k, r, r2) \/ Refuses(v, k, r, r2) \/ Authorizes(v, k, r, r2)
  \/ StopsIssue(v, k, r, r2) \/ Issues1(v, k, r, r2) \/ FailsIssue(v, k, r, r2)
  \/ Reconciles(v, k, r, r2) \/ Responds(v, k, r, r2)

-----------------------------------------------------------------------------
(* A list of calls as it is logged, and one call more. *)
LEMMA LogAppends ==
  ASSUME NEW w \in World, NEW k, NEW tool \in ToolNames, NEW calls \in Seq(ToolNames), w.log = LogOf(k, calls)
  PROVE  Logged(w, k, tool).log = LogOf(k, Append(calls, tool))
<1> DEFINE call == [name |-> tool, ok |-> ~Fails(k, tool)]
           f == LogOf(k, calls)
           g == LogOf(k, Append(calls, tool))
           n == Len(calls)
<1>1. w.log \in Seq(ToolCall) /\ Logged(w, k, tool).log = Append(w.log, call)
  BY DEF World, Logged
<1>2. n \in Nat /\ DOMAIN calls = 1..n /\ DOMAIN f = 1..n
  BY DEF LogOf
<1>3. Len(w.log) = n
  BY <1>1, <1>2, LenProperties
<1>4. /\ DOMAIN Append(calls, tool) = 1..(n + 1) /\ Append(calls, tool)[n + 1] = tool
      /\ \A i \in 1..n : Append(calls, tool)[i] = calls[i]
  BY <1>2
<1>5. DOMAIN g = 1..(n + 1) /\ g[n + 1] = call /\ \A i \in 1..n : g[i] = f[i]
  BY <1>2, <1>4 DEF LogOf
<1>6. /\ DOMAIN Append(w.log, call) = 1..(n + 1) /\ Append(w.log, call)[n + 1] = call
      /\ \A i \in 1..n : Append(w.log, call)[i] = w.log[i]
  BY <1>1, <1>3
<1>7. g = [i \in DOMAIN g |-> g[i]] /\ Append(w.log, call) = [i \in DOMAIN Append(w.log, call) |-> Append(w.log, call)[i]]
  BY <1>1 DEF LogOf
<1> HIDE DEF g, f, call
<1>8. Append(w.log, call) = g
  BY <1>5, <1>6, <1>7, <1>2, w.log = f DEF f
<1> QED
  BY <1>1, <1>8 DEF g

(* The lists of calls the table speaks of are lists of tool names. *)
LEMMA ToolLists ==
  ASSUME NEW v, NEW k, NEW c
  PROVE  /\ << >> \in Seq(ToolNames) /\ <<Lookup>> \in Seq(ToolNames) /\ <<History>> \in Seq(ToolNames)
         /\ <<Lookup, Check>> \in Seq(ToolNames)
         /\ LookedCalls(v, k, c) \in Seq(ToolNames) /\ ReadCalls(v, k, c) \in Seq(ToolNames)
         /\ CheckedCalls(v, k, c) \in Seq(ToolNames) /\ PlannedCalls(v, k, c) \in Seq(ToolNames)
         /\ WriteCalls(v, k, c) \in Seq(ToolNames)
<1>1. {Lookup, History, Check, Issue} \subseteq ToolNames
  BY DEF Lookup, History, Check, Issue, ToolNames
<1> HIDE DEF Lookup, History, Check, Issue
<1>2. \A a, b, d, e, f \in ToolNames :
        /\ << >> \in Seq(ToolNames) /\ <<a>> \in Seq(ToolNames) /\ <<a, b>> \in Seq(ToolNames)
        /\ <<a, b, d>> \in Seq(ToolNames) /\ <<a, b, d, e>> \in Seq(ToolNames) /\ <<a, b, d, e, f>> \in Seq(ToolNames)
  OBVIOUS
<1>3. LookedCalls(v, k, c) \in Seq(ToolNames) /\ ReadCalls(v, k, c) \in Seq(ToolNames)
  BY <1>1, <1>2 DEF LookedCalls, ReadCalls
<1>4. CheckedCalls(v, k, c) \in Seq(ToolNames)
  BY <1>1, <1>2 DEF CheckedCalls
<1>5. PlannedCalls(v, k, c) \in Seq(ToolNames)
  BY <1>1, <1>2, <1>4 DEF PlannedCalls
<1>6. WriteCalls(v, k, c) \in Seq(ToolNames)
  BY <1>1, <1>5 DEF WriteCalls
<1> QED
  BY <1>1, <1>2, <1>3, <1>4, <1>5, <1>6

(* What a call of a tool that only reads changes of the world. *)
LEMMA ReadCall ==
  ASSUME NEW k, NEW w \in World, NEW tool \in ToolNames, NEW calls \in Seq(ToolNames), w.log = LogOf(k, calls)
  PROVE  /\ Logged(w, k, tool) \in World /\ Logged(w, k, tool).refunds = w.refunds
         /\ Logged(w, k, tool).next_refund = w.next_refund
         /\ Logged(w, k, tool).lookups = w.lookups /\ Logged(w, k, tool).orders = w.orders
         /\ Logged(w, k, tool).log = LogOf(k, Append(calls, tool))
BY LoggedFacts, LogAppends

(* World w2 is w with one call more in its log, which was calls. *)
OnlyLogged(k, w, w2, calls, tool) ==
  /\ w2 \in World /\ w2.refunds = w.refunds /\ w2.next_refund = w.next_refund
  /\ w2.lookups = w.lookups /\ w2.orders = w.orders /\ w2.log = LogOf(k, Append(calls, tool))

(* A call of a read-only tool only adds itself to the log. *)
LEMMA ReadLogs ==
  ASSUME NEW k, NEW w \in World, NEW tool \in ToolNames, NEW calls \in Seq(ToolNames), w.log = LogOf(k, calls)
  PROVE  OnlyLogged(k, w, Logged(w, k, tool), calls, tool)
<1> DEFINE w2 == Logged(w, k, tool)
           more == Append(calls, tool)
<1>1. /\ w2 \in World /\ w2.refunds = w.refunds /\ w2.next_refund = w.next_refund
      /\ w2.lookups = w.lookups /\ w2.orders = w.orders /\ w2.log = LogOf(k, more)
  BY ReadCall
<1> HIDE DEF w2, more
<1> QED
  BY <1>1 DEF OnlyLogged, w2, more

(* What a lookup changes of it. *)
LEMMA LookupCall ==
  ASSUME NEW k \in Case, NEW w \in World, NEW o \in OrderIds, NEW calls \in Seq(ToolNames), w.log = LogOf(k, calls)
  PROVE  LET after == AfterLookup(w, k, o)
         IN /\ after \in World /\ after.refunds = w.refunds /\ after.next_refund = w.next_refund
            /\ after.log = LogOf(k, Append(calls, Lookup))
            /\ Fails(k, Lookup) => after.lookups = w.lookups /\ after.orders = w.orders
            /\ ~Fails(k, Lookup) => after.lookups = w.lookups + 1 /\ after.orders = Repriced(w, k, o)
<1> DEFINE l == Logged(w, k, "lookup_order")
           after == AfterLookup(w, k, o)
<1>1. /\ l \in World /\ l.refunds = w.refunds /\ l.next_refund = w.next_refund /\ l.lookups = w.lookups
      /\ l.orders = w.orders /\ l.log = LogOf(k, Append(calls, Lookup))
  BY ReadCall DEF ToolNames, Lookup
<1>2. after \in World /\ after.refunds = w.refunds /\ after.next_refund = w.next_refund
  BY LookupFacts
<1> HIDE DEF l
<1>3. Fails(k, Lookup) => after = l
  BY DEF AfterLookup, l, Lookup
<1>4. ~Fails(k, Lookup) => after = [l EXCEPT !.lookups = @ + 1, !.orders = Repriced(w, k, o)]
  BY DEF AfterLookup, l, Lookup
<1>5. ~Fails(k, Lookup) => after.lookups = w.lookups + 1 /\ after.orders = Repriced(w, k, o) /\ after.log = l.log
  BY <1>1, <1>4 DEF World
<1> HIDE DEF after
<1> QED
  BY <1>1, <1>2, <1>3, <1>5 DEF after

(* The same as one fact: world w2 is w after one lookup more of order o. *)
LookedUp(k, w, w2, calls, o) ==
  /\ w2 \in World /\ w2.refunds = w.refunds /\ w2.next_refund = w.next_refund
  /\ w2.log = LogOf(k, Append(calls, Lookup))
  /\ Fails(k, Lookup) => w2.lookups = w.lookups /\ w2.orders = w.orders
  /\ ~Fails(k, Lookup) => w2.lookups = w.lookups + 1 /\ w2.orders = Repriced(w, k, o)

(* A lookup adds itself to the log and, where it answers, may have the order repriced. *)
LEMMA LookupLogs ==
  ASSUME NEW k \in Case, NEW w \in World, NEW o \in OrderIds, NEW calls \in Seq(ToolNames), w.log = LogOf(k, calls)
  PROVE  LookedUp(k, w, AfterLookup(w, k, o), calls, o)
BY LookupCall DEF LookedUp

(* One fact of how far a run gets implies the one before it. *)
LEMMA Ladder ==
  ASSUME NEW v, NEW k, NEW c, NEW t
  PROVE  /\ Pays(v, k, c, t) => Tries(v, k, c, t)
         /\ Tries(v, k, c, t) => Goes(v, k, c, t)
         /\ Goes(v, k, c, t) => Plans(v, k, c)
         /\ MustAsk(v, k, c, t) => Plans(v, k, c)
         /\ Plans(v, k, c) => Reads(v, k, c) /\ Found(v, k, c)
         /\ Clears(v, k, c) => Answers(v, k, c)
         /\ Answers(v, k, c) => Checks(v, k, c)
         /\ Checks(v, k, c) => Found(v, k, c) /\ ~Skips(v, c)
         /\ Found(v, k, c) => Asked(c)
         /\ Reads(v, k, c) => Asked(c)
BY DEF Pays, Tries, Goes, MustAsk, Plans, Clears, Answers, Checks, Found, Reads, Skips

(* What the marker of each variant says. *)
LEMMA Firing ==
  ASSUME NEW v \in PAIRED, NEW k, NEW c, NEW t
  PROVE  /\ v = "A" => (Fires(v, k, c, t) <=> Reads(v, k, c) /\ Skips(v, c))
         /\ v \in {"B", "M7"} => (Fires(v, k, c, t) <=> Tries(v, k, c, t) /\ Fails(k, Issue))
         /\ v \in {"C", "C1", "C2", "M2"} => (Fires(v, k, c, t) <=> Checks(v, k, c))
         /\ v = "M1" => (Fires(v, k, c, t)
                          <=> Checks(v, k, c) /\ Seen(v, k, c.order_id).age = REFUND_WINDOW_DAYS + 1)
         /\ v = "M3" => (Fires(v, k, c, t) <=> Asked(c) /\ ~Fails(k, Lookup) /\ OwnRow(k, c.order_id) = None)
         /\ v = "M4" => (Fires(v, k, c, t) <=> MustAsk(v, k, c, t) /\ Given(k) = "reject")
         /\ v = "M5" => (Fires(v, k, c, t)
                          <=> /\ Plans(v, k, c)
                              /\ TruncatedAmount(t, Seen(v, k, c.order_id).price)
                                   # RefundAmount(t, Seen(v, k, c.order_id).price))
         /\ v = "M6" => (Fires(v, k, c, t) <=> Goes(v, k, c, t) /\ t # "full")
         /\ v = "M8" => (Fires(v, k, c, t) <=> Plans(v, k, c) /\ t = "partial")
         /\ v = "V1" => (Fires(v, k, c, t) <=> Error(v, k, c, t) \in {Lookup, History, Check})
         /\ v = "V2" => (Fires(v, k, c, t) <=> Asked(c) /\ ~Found(v, k, c))
         /\ v = "V3" => (Fires(v, k, c, t) <=> Tries(v, k, c, t))
         /\ v \in {"baseline", "alt_history_early", "alt_recheck", "alt_verify", "V4", "V5", "V6"} => ~Fires(v, k, c, t)
<1>1. v = "A" => (Fires(v, k, c, t) <=> Reads(v, k, c) /\ Skips(v, c))
  BY DEF Fires
<1>2. v \in {"B", "M7"} => (Fires(v, k, c, t) <=> Tries(v, k, c, t) /\ Fails(k, Issue))
  BY DEF Fires
<1>3. v \in {"C", "C1", "C2", "M2"} => (Fires(v, k, c, t) <=> Checks(v, k, c))
  BY DEF Fires
<1>4. v = "M1" => (Fires(v, k, c, t)
        <=> Checks(v, k, c) /\ Seen(v, k, c.order_id).age = REFUND_WINDOW_DAYS + 1)
  BY DEF Fires
<1>5. v = "M3" => (Fires(v, k, c, t) <=> Asked(c) /\ ~Fails(k, Lookup) /\ OwnRow(k, c.order_id) = None)
  BY DEF Fires
<1>6. v = "M4" => (Fires(v, k, c, t) <=> MustAsk(v, k, c, t) /\ Given(k) = "reject")
  BY DEF Fires
<1>7. v = "M5" => (Fires(v, k, c, t)
        <=> /\ Plans(v, k, c)
            /\ TruncatedAmount(t, Seen(v, k, c.order_id).price)
                 # RefundAmount(t, Seen(v, k, c.order_id).price))
  BY DEF Fires
<1>8. v = "M6" => (Fires(v, k, c, t) <=> Goes(v, k, c, t) /\ t # "full")
  BY DEF Fires
<1>9. v = "M8" => (Fires(v, k, c, t) <=> Plans(v, k, c) /\ t = "partial")
  BY DEF Fires
<1>10. v = "V1" => (Fires(v, k, c, t) <=> Error(v, k, c, t) \in {Lookup, History, Check})
  BY DEF Fires
<1>11. v = "V2" => (Fires(v, k, c, t) <=> Asked(c) /\ ~Found(v, k, c))
  BY DEF Fires
<1>12. v = "V3" => (Fires(v, k, c, t) <=> Tries(v, k, c, t))
  BY DEF Fires
<1>13. v \in {"baseline", "alt_history_early", "alt_recheck", "alt_verify", "V4", "V5", "V6"} => ~Fires(v, k, c, t)
  BY DEF Fires
<1> QED
  BY <1>1, <1>2, <1>3, <1>4, <1>5, <1>6, <1>7, <1>8, <1>9, <1>10, <1>11, <1>12, <1>13

(* The variants. *)
LEMMA PairedVariants ==
  \A v \in PAIRED :
    v \in {"A", "B", "M7", "C", "C1", "C2", "M2", "M1", "M3", "M4", "M5", "M6", "M8", "V1", "V2", "V3"}
          \cup {"baseline", "alt_history_early", "alt_recheck", "alt_verify", "V4", "V5", "V6"}
BY DEF PAIRED, ALL_VARIANTS, VALID_VARIANTS, MUTANTS, CHANGES, INDEPENDENT_MUTANTS, INDEPENDENT_VALID

(* The four tools. *)
LEMMA FourTools ==
  /\ Lookup \in ToolNames /\ History \in ToolNames /\ Check \in ToolNames /\ Issue \in ToolNames
  /\ None \notin {Lookup, History, Check, Issue, "no_order", "order_changed"}
BY RoutingAssumption DEF Lookup, History, Check, Issue, ToolNames, Errors

(* A sequence that is one longer and agrees with it is the appended one. *)
LEMMA OneLonger ==
  ASSUME NEW S, NEW s \in Seq(S), NEW x \in S, NEW u \in Seq(S), Len(u) = Len(s) + 1, u[Len(s) + 1] = x,
         \A i \in 1..Len(s) : u[i] = s[i]
  PROVE  Append(s, x) = u
<1>1. /\ Append(s, x) \in Seq(S) /\ Len(Append(s, x)) = Len(s) + 1 /\ Append(s, x)[Len(s)+1] = x
      /\ \A i \in 1..Len(s) : Append(s, x)[i] = s[i]
  BY AppendProperties
<1>2. Len(s) \in Nat
  OBVIOUS
<1>3. \A i \in 1..Len(u) : u[i] = Append(s, x)[i]
  BY <1>1, <1>2
<1> QED
  BY <1>1, <1>2, <1>3, SeqEqual

(* Lists of calls, one call at a time. *)
LEMMA Longer ==
  ASSUME NEW S, NEW a \in S, NEW b \in S, NEW d \in S, NEW e \in S
  PROVE  /\ Append(<< >>, a) = <<a>> /\ Append(<<a>>, b) = <<a, b>>
         /\ Append(<<a, b>>, d) = <<a, b, d>> /\ Append(<<a, b, d>>, e) = <<a, b, d, e>>
<1>0. <<a>> \in Seq(S) /\ Len(<<a>>) = 1 /\ <<a>>[1] = a
  OBVIOUS
<1>1. <<a, b>> \in Seq(S) /\ Len(<<a, b>>) = 2 /\ <<a, b>>[1] = a /\ <<a, b>>[2] = b
  OBVIOUS
<1>2. <<a, b, d>> \in Seq(S) /\ Len(<<a, b, d>>) = 3 /\ <<a, b, d>>[1] = a /\ <<a, b, d>>[2] = b /\ <<a, b, d>>[3] = d
  OBVIOUS
<1>3. <<a, b, d, e>> \in Seq(S) /\ Len(<<a, b, d, e>>) = 4 /\ <<a, b, d, e>>[1] = a /\ <<a, b, d, e>>[2] = b /\ <<a, b, d, e>>[3] = d /\ <<a, b, d, e>>[4] = e
  OBVIOUS
<1> DEFINE p1 == <<a>>
           p2 == <<a, b>>
           p3 == <<a, b, d>>
           p4 == <<a, b, d, e>>
<1>4. 1 + 1 = 2 /\ 2 + 1 = 3 /\ 3 + 1 = 4 /\ 1..1 = {1} /\ 1..2 = {1, 2} /\ 1..3 = {1, 2, 3}
  OBVIOUS
<1> HIDE DEF p1, p2, p3, p4
<1>5. Append(p1, b) = p2
  <2>1. p1 \in Seq(S) /\ p2 \in Seq(S) /\ Len(p1) = 1 /\ Len(p2) = 2 /\ p2[2] = b /\ p2[1] = p1[1]
    BY <1>0, <1>1 DEF p1, p2
  <2>2. Len(p2) = Len(p1) + 1 /\ p2[Len(p1) + 1] = b /\ \A i \in 1..Len(p1) : p2[i] = p1[i]
    BY <2>1, <1>4
  <2> QED
    BY <2>1, <2>2, OneLonger
<1>6. Append(p2, d) = p3
  <2>1. /\ p2 \in Seq(S) /\ p3 \in Seq(S) /\ Len(p2) = 2 /\ Len(p3) = 3 /\ p3[3] = d 
        /\ p3[1] = p2[1] /\ p3[2] = p2[2]
    BY <1>1, <1>2 DEF p2, p3
  <2>2. Len(p3) = Len(p2) + 1 /\ p3[Len(p2) + 1] = d /\ \A i \in 1..Len(p2) : p3[i] = p2[i]
    BY <2>1, <1>4
  <2> QED
    BY <2>1, <2>2, OneLonger
<1>7. Append(p3, e) = p4
  <2>1. /\ p3 \in Seq(S) /\ p4 \in Seq(S) /\ Len(p3) = 3 /\ Len(p4) = 4 /\ p4[4] = e 
        /\ p4[1] = p3[1] /\ p4[2] = p3[2] /\ p4[3] = p3[3]
    BY <1>2, <1>3 DEF p3, p4
  <2>2. Len(p4) = Len(p3) + 1 /\ p4[Len(p3) + 1] = e /\ \A i \in 1..Len(p3) : p4[i] = p3[i]
    BY <2>1, <1>4
  <2> QED
    BY <2>1, <2>2, OneLonger
<1>8. Append(<< >>, a) = <<a>>
  OBVIOUS
<1> QED
  BY <1>5, <1>6, <1>7, <1>8 DEF p1, p2, p3, p4

(* A list of tools with one tool more, by its length. *)
LEMMA ListOfOne ==
  \A a \in ToolNames : Append(<< >>, a) = <<a>>
<1> SUFFICES ASSUME NEW a \in ToolNames PROVE Append(<< >>, a) = <<a>>
  OBVIOUS
<1>1. /\ Append(<< >>, a) = <<a>> /\ Append(<<a>>, a) = <<a, a>>
      /\ Append(<<a, a>>, a) = <<a, a, a>> /\ Append(<<a, a, a>>, a) = <<a, a, a, a>>
  BY Longer
<1> QED
  BY <1>1, Zenon

(* Two tools. *)
LEMMA ListOfTwo ==
  \A a, b \in ToolNames : Append(<<a>>, b) = <<a, b>>
<1> SUFFICES ASSUME NEW a \in ToolNames, NEW b \in ToolNames PROVE Append(<<a>>, b) = <<a, b>>
  OBVIOUS
<1>1. /\ Append(<< >>, a) = <<a>> /\ Append(<<a>>, b) = <<a, b>>
      /\ Append(<<a, b>>, a) = <<a, b, a>> /\ Append(<<a, b, a>>, a) = <<a, b, a, a>>
  BY Longer
<1> QED
  BY <1>1, Zenon

(* Three. *)
LEMMA ListOfThree ==
  \A a, b, d \in ToolNames : Append(<<a, b>>, d) = <<a, b, d>>
<1> SUFFICES ASSUME NEW a \in ToolNames, NEW b \in ToolNames, NEW d \in ToolNames
             PROVE  Append(<<a, b>>, d) = <<a, b, d>>
  OBVIOUS
<1>1. /\ Append(<< >>, a) = <<a>> /\ Append(<<a>>, b) = <<a, b>>
      /\ Append(<<a, b>>, d) = <<a, b, d>> /\ Append(<<a, b, d>>, a) = <<a, b, d, a>>
  BY Longer
<1> QED
  BY <1>1, Zenon

(* Four. *)
LEMMA ListOfFour ==
  \A a, b, d, e \in ToolNames : Append(<<a, b, d>>, e) = <<a, b, d, e>>
<1> SUFFICES ASSUME NEW a \in ToolNames, NEW b \in ToolNames, NEW d \in ToolNames, NEW e \in ToolNames
             PROVE  Append(<<a, b, d>>, e) = <<a, b, d, e>>
  OBVIOUS
<1>1. /\ Append(<< >>, a) = <<a>> /\ Append(<<a>>, b) = <<a, b>>
      /\ Append(<<a, b>>, d) = <<a, b, d>> /\ Append(<<a, b, d>>, e) = <<a, b, d, e>>
  BY Longer
<1> QED
  BY <1>1, Zenon

(* The lists of one call and of two that the runs make. *)
LEMMA ShortLists ==
  /\ Append(<< >>, Lookup) = <<Lookup>>
  /\ Append(<< >>, History) = <<History>>
  /\ Append(<<Lookup>>, Lookup) = <<Lookup, Lookup>>
  /\ Append(<<Lookup>>, History) = <<Lookup, History>>
  /\ Append(<<Lookup>>, Check) = <<Lookup, Check>>
  /\ Append(<<History>>, Lookup) = <<History, Lookup>>
<1>1. Append(<< >>, Lookup) = <<Lookup>>
  BY ListOfOne, ListOfTwo, FourTools, Zenon
<1>2. Append(<< >>, History) = <<History>>
  BY ListOfOne, ListOfTwo, FourTools, Zenon
<1>3. Append(<<Lookup>>, Lookup) = <<Lookup, Lookup>>
  BY ListOfOne, ListOfTwo, FourTools, Zenon
<1>4. Append(<<Lookup>>, History) = <<Lookup, History>>
  BY ListOfOne, ListOfTwo, FourTools, Zenon
<1>5. Append(<<Lookup>>, Check) = <<Lookup, Check>>
  BY ListOfOne, ListOfTwo, FourTools, Zenon
<1>6. Append(<<History>>, Lookup) = <<History, Lookup>>
  BY ListOfOne, ListOfTwo, FourTools, Zenon
<1> QED
  BY <1>1, <1>2, <1>3, <1>4, <1>5, <1>6

(* Those of three. *)
LEMMA LongerLists ==
  /\ Append(<<Lookup, History>>, Lookup) = <<Lookup, History, Lookup>>
  /\ Append(<<Lookup, History>>, History) = <<Lookup, History, History>>
  /\ Append(<<Lookup, History>>, Check) = <<Lookup, History, Check>>
  /\ Append(<<History, Lookup>>, Check) = <<History, Lookup, Check>>
  /\ Append(<<Lookup, Check>>, History) = <<Lookup, Check, History>>
  /\ Append(<<Lookup, Lookup>>, History) = <<Lookup, Lookup, History>>
<1>1. Append(<<Lookup, History>>, Lookup) = <<Lookup, History, Lookup>>
  BY ListOfThree, FourTools, Zenon
<1>2. Append(<<Lookup, History>>, History) = <<Lookup, History, History>>
  BY ListOfThree, FourTools, Zenon
<1>3. Append(<<Lookup, History>>, Check) = <<Lookup, History, Check>>
  BY ListOfThree, FourTools, Zenon
<1>4. Append(<<History, Lookup>>, Check) = <<History, Lookup, Check>>
  BY ListOfThree, FourTools, Zenon
<1>5. Append(<<Lookup, Check>>, History) = <<Lookup, Check, History>>
  BY ListOfThree, FourTools, Zenon
<1>6. Append(<<Lookup, Lookup>>, History) = <<Lookup, Lookup, History>>
  BY ListOfThree, FourTools, Zenon
<1> QED
  BY <1>1, <1>2, <1>3, <1>4, <1>5, <1>6

(* Those of four. *)
LEMMA LongLists ==
  /\ Append(<<Lookup, History, Lookup>>, Check) = <<Lookup, History, Lookup, Check>>
  /\ Append(<<Lookup, History, History>>, Check) = <<Lookup, History, History, Check>>
  /\ Append(<<Lookup, History, Check>>, Check) = <<Lookup, History, Check, Check>>
  /\ Append(<<Lookup, History, Check>>, Issue) = <<Lookup, History, Check, Issue>>
  /\ Append(<<Lookup, History, Check>>, Lookup) = <<Lookup, History, Check, Lookup>>
  /\ Append(<<Lookup, Lookup, History>>, Check) = <<Lookup, Lookup, History, Check>>
  /\ Append(<<History, Lookup, Check>>, Issue) = <<History, Lookup, Check, Issue>>
  /\ Append(<<Lookup, Check, History>>, Issue) = <<Lookup, Check, History, Issue>>
  /\ Append(<<Lookup, History, Check>>, History) = <<Lookup, History, Check, History>>
<1>1. Append(<<Lookup, History, Lookup>>, Check) = <<Lookup, History, Lookup, Check>>
  BY ListOfFour, FourTools, Zenon
<1>2. Append(<<Lookup, History, History>>, Check) = <<Lookup, History, History, Check>>
  BY ListOfFour, FourTools, Zenon
<1>3. Append(<<Lookup, History, Check>>, Check) = <<Lookup, History, Check, Check>>
  BY ListOfFour, FourTools, Zenon
<1>4. Append(<<Lookup, History, Check>>, Issue) = <<Lookup, History, Check, Issue>>
  BY ListOfFour, FourTools, Zenon
<1>5. Append(<<Lookup, History, Check>>, Lookup) = <<Lookup, History, Check, Lookup>>
  BY ListOfFour, FourTools, Zenon
<1>6. Append(<<Lookup, Lookup, History>>, Check) = <<Lookup, Lookup, History, Check>>
  BY ListOfFour, FourTools, Zenon
<1>7. Append(<<History, Lookup, Check>>, Issue) = <<History, Lookup, Check, Issue>>
  BY ListOfFour, FourTools, Zenon
<1>8. Append(<<Lookup, Check, History>>, Issue) = <<Lookup, Check, History, Issue>>
  BY ListOfFour, FourTools, Zenon
<1>9. Append(<<Lookup, History, Check>>, History) = <<Lookup, History, Check, History>>
  BY ListOfFour, FourTools, Zenon
<1> QED
  BY <1>1, <1>2, <1>3, <1>4, <1>5, <1>6, <1>7, <1>8, <1>9

-----------------------------------------------------------------------------
(* The run's state and world have their types. *)
Typed(r) == r.st \in RefundState /\ r.world \in World

(* A run that was not asked about an order does nothing. *)
LEMMA Unasked ==
  ASSUME NEW v, NEW k, NEW c, NEW t, ~Asked(c)
  PROVE  /\ ~Found(v, k, c) /\ ~Reads(v, k, c) /\ ~Answers(v, k, c) /\ ~Plans(v, k, c)
         /\ ~MustAsk(v, k, c, t) /\ ~Pays(v, k, c, t)
         /\ Error(v, k, c, t) = None /\ EndCalls(v, k, c, t) = << >> /\ ~Fires(v, k, c, t)
<1>1. /\ ~Found(v, k, c) /\ ~Reads(v, k, c) /\ ~Checks(v, k, c) /\ ~Answers(v, k, c) /\ ~Plans(v, k, c)
      /\ ~MustAsk(v, k, c, t) /\ ~Goes(v, k, c, t) /\ ~Tries(v, k, c, t) /\ ~Pays(v, k, c, t)
  BY Ladder
<1>2. Error(v, k, c, t) = None /\ EndCalls(v, k, c, t) = << >>
  BY DEF Error, EndCalls
<1>3. None \notin {Lookup, History, Check}
  BY FourTools
<1>4. ~Fires(v, k, c, t)
  BY <1>1, <1>2, <1>3 DEF Fires
<1> QED
  BY <1>1, <1>2, <1>4

(* No marker fires before the lookup, nor does one in the fixed edges. *)
LEMMA Unmarks ==
  ASSUME NEW v \in PAIRED
  PROVE  /\ "classify_request" \in Unmarked(v) /\ "lookup_order" \in Unmarked(v)
         /\ v # "M2" => "get_refund_history" \in Unmarked(v) \/ v = "M3"
         /\ "gate" \in Unmarked(v) \/ v # "V6"
BY DEF Unmarked, ToCheck, Nodes

(* A router records a mark only for A, after the history, and for M4, after the approval. *)
LEMMA RouterMarks ==
  ASSUME NEW v \in PAIRED, NEW node, NEW s
  PROVE  /\ ~(node = "get_refund_history" /\ v = "A") /\ ~(node = "request_approval" /\ v = "M4")
              => RouteMarks(v, node, s) = {}
         /\ v = "A" => (RouteMarks(v, "get_refund_history", s) # {} <=> s.error = None /\ s.intent = "damaged")
         /\ v = "M4" => (RouteMarks(v, "request_approval", s) # {} <=> s.approval = "reject")
BY DEF RouteMarks, PAIRED, CHANGES, EntersFastPath

(* classify_request. *)
LEMMA ClassifyTable ==
  ASSUME NEW v \in PAIRED, NEW k \in Case, NEW r, NEW r2, Typed(r), InTable(v, k, r), Classifies(v, k, r, r2)
  PROVE  Typed(r2) /\ InTable(v, k, r2)
<1> PICK c \in Classes :
      Moves(v, r, r2, [r.st EXCEPT !.intent = c.intent, !.order_id = c.order_id], r.world, {})
  BY DEF Classifies
<1> r.next = "classify_request"
  BY DEF Classifies
<1> DEFINE s == [r.st EXCEPT !.intent = c.intent, !.order_id = c.order_id]
<1>1. r.st = EmptyState /\ Open(v, k, r, << >>) /\ r.fired = {}
  BY Unmarks DEF InTable, AtStart, Marking
<1>2. /\ s.intent = c.intent /\ s.order_id = c.order_id /\ s.order = None /\ s.prior_refunds = None
      /\ s.eligibility = None /\ s.refund_type = None /\ s.refund_amount = None /\ s.approval = None
      /\ s.refund_id = None /\ s.error = None
  BY <1>1 DEF EmptyState
<1>3. Class(s) = c
  BY <1>2 DEF Class, Classes
<1>4. r2.st = s /\ r2.world = r.world /\ r2.fired = {} /\ r2.next = AfterClassify(v, s)
  BY <1>1, RouterMarks DEF Moves, Route
<1>8. Typed(r2)
  BY <1>4 DEF Typed, RefundState, Classes
<1> HIDE DEF s
<1>5. Open(v, k, r2, << >>)
  BY <1>1, <1>2, <1>4 DEF Open, Before, EmptyState
<1>6. CASE c.order_id = None
  <2>1. r2.next = "respond" /\ ~Asked(c)
    BY <1>2, <1>4, <1>6 DEF AfterClassify, Asked
  <2>2. Ended(s, v, k, c)
    BY <1>2, <2>1, Unasked DEF Ended, Holds
  <2>3. AtEnd(v, k, r2)
    BY <1>2, <1>3, <1>4, <1>5, <2>1, <2>2, Unasked DEF AtEnd, Settled, Open, Before
  <2>4. Marking(v, k, r2)
    BY <1>3, <1>4, <2>1, Unasked DEF Marking
  <2> QED
    BY <1>8, <2>1, <2>3, <2>4 DEF InTable, Nodes
<1>7. CASE c.order_id # None
  <2>1. Asked(c) /\ (v = "M2" => r2.next = "lookup_order")
    BY <1>2, <1>4, <1>7 DEF AfterClassify, Asked
  <2>2. Holds(s, v, k, c, FALSE, FALSE, FALSE, FALSE)
    BY <1>2 DEF Holds
  <2>3. r2.next \in Unmarked(v)
    BY <1>2, <1>4, <1>7, Unmarks DEF AfterClassify
  <2>4. Marking(v, k, r2)
    BY <1>4, <2>3 DEF Marking
  <2>5. CASE v = "V6"
    BY <1>2, <1>3, <1>4, <1>5, <1>7, <1>8, <2>1, <2>2, <2>4, <2>5 DEF InTable, AtGate, AfterClassify, Nodes
  <2>6. CASE v = "alt_history_early"
    BY <1>2, <1>3, <1>4, <1>5, <1>7, <1>8, <2>1, <2>2, <2>4, <2>6 DEF InTable, AtHistory, AfterClassify, Nodes
  <2>7. CASE v \notin {"V6", "alt_history_early"}
    BY <1>2, <1>3, <1>4, <1>5, <1>7, <1>8, <2>1, <2>2, <2>4, <2>7 DEF InTable, AtLookup, AfterClassify, Nodes
  <2> QED
    BY <2>5, <2>6, <2>7
<1> QED
  BY <1>8, <1>6, <1>7

-----------------------------------------------------------------------------
(* A run that did not get its order. *)
LEMMA Unfound ==
  ASSUME NEW v, NEW k, NEW c, NEW t, Asked(c), ~Found(v, k, c)
  PROVE  /\ ~Answers(v, k, c) /\ ~Plans(v, k, c) /\ ~MustAsk(v, k, c, t) /\ ~Tries(v, k, c, t)
         /\ ~Pays(v, k, c, t) /\ (v # "alt_history_early" => ~Reads(v, k, c))
         /\ EndCalls(v, k, c, t) = IF v = "alt_history_early" /\ Fails(k, History) THEN <<History>>
                                   ELSE LookedCalls(v, k, c)
         /\ v \notin {"V1", "V2", "M3"} => ~Fires(v, k, c, t)
         /\ v = "V2" => Fires(v, k, c, t)
<1>1. /\ ~Checks(v, k, c) /\ ~Answers(v, k, c) /\ ~Plans(v, k, c) /\ ~MustAsk(v, k, c, t)
      /\ ~Goes(v, k, c, t) /\ ~Tries(v, k, c, t) /\ ~Pays(v, k, c, t)
  BY Ladder
<1>2. v # "alt_history_early" => ~Reads(v, k, c)
  BY DEF Reads
<1>3. EndCalls(v, k, c, t) = IF v = "alt_history_early" /\ Fails(k, History) THEN <<History>>
                             ELSE LookedCalls(v, k, c)
  BY DEF EndCalls
<1>4. v \notin {"V1", "V2", "M3"} => ~Fires(v, k, c, t)
  BY <1>1, <1>2 DEF Fires
<1>5. v = "V2" => Fires(v, k, c, t)
  BY DEF Fires
<1> QED
  BY <1>1, <1>2, <1>3, <1>4, <1>5

(* What is known of a run at lookup_order, and of the world after its call. *)
LookupKnown(v, k, r, c, after) ==
  LET early == v = "alt_history_early"
  IN /\ v # "V6" /\ Asked(c) /\ c.order_id \in OrderIds /\ (early => Reads(v, k, c))
     /\ Holds(r.st, v, k, c, FALSE, early, FALSE, FALSE)
     /\ r.st.refund_type = None /\ r.st.refund_id = None /\ r.st.error = None /\ r.fired = {}
     /\ r.world \in World /\ r.world.orders = k.orders
     /\ after \in World /\ after.refunds = << >> /\ after.next_refund = 1 /\ after.orders = k.orders
     /\ after.log = LogOf(k, IF early THEN <<History, Lookup>> ELSE <<Lookup>>)
     /\ ~Fails(k, Lookup) => after.lookups = 1

(* What a run in the table has and has not done when it comes to the lookup. *)
LEMMA LookupStarts ==
  ASSUME NEW v \in PAIRED, NEW k \in Case, NEW r, Typed(r), InTable(v, k, r), r.next = "lookup_order"
  PROVE  LookupKnown(v, k, r, Class(r.st), AfterLookup(r.world, k, r.st.order_id))
<1> DEFINE c == Class(r.st)
           early == v = "alt_history_early"
           after == AfterLookup(r.world, k, r.st.order_id)
           calls == IF early THEN <<History>> ELSE << >>
<1>1. AtLookup(v, k, r) /\ r.fired = {} /\ r.st \in RefundState /\ r.world \in World
  BY Unmarks DEF InTable, Marking, Typed
<1>2. /\ v # "V6" /\ Asked(c) /\ (early => Reads(v, k, c)) /\ Holds(r.st, v, k, c, FALSE, early, FALSE, FALSE)
      /\ r.st.refund_type = None /\ Open(v, k, r, calls)
  BY <1>1 DEF AtLookup
<1>3. c.order_id \in OrderIds /\ c.order_id = r.st.order_id
  BY <1>1, <1>2 DEF Class, Asked, RefundState
<1>4. r.st.order = None
  BY <1>2 DEF Holds
<1>5. /\ r.st.refund_id = None /\ r.st.error = None /\ r.world.refunds = << >> /\ r.world.next_refund = 1
      /\ r.world.lookups = 0 /\ r.world.orders = k.orders /\ r.world.log = LogOf(k, calls)
  BY <1>2, <1>4 DEF Open, Before
<1>6. calls \in Seq(ToolNames)
  BY ToolLists
<1> HIDE DEF calls, c
<1>7. /\ after \in World /\ after.refunds = r.world.refunds /\ after.next_refund = r.world.next_refund
      /\ after.log = LogOf(k, Append(calls, Lookup))
      /\ Fails(k, Lookup) => after.lookups = r.world.lookups /\ after.orders = r.world.orders
      /\ ~Fails(k, Lookup) => after.lookups = r.world.lookups + 1 /\ after.orders = Repriced(r.world, k, c.order_id)
  BY <1>1, <1>3, <1>5, <1>6, LookupCall
<1>8. Repriced(r.world, k, c.order_id) = r.world.orders
  BY <1>5 DEF Repriced
<1>9. Append(calls, Lookup) = IF early THEN <<History, Lookup>> ELSE <<Lookup>>
  <2>1. Append(<<History>>, Lookup) = <<History, Lookup>> /\ Append(<< >>, Lookup) = <<Lookup>>
    BY ShortLists, Zenon
  <2>2. calls = IF early THEN <<History>> ELSE << >>
    BY DEF calls
  <2> HIDE DEF calls
  <2> QED
    BY <2>1, <2>2
<1>10. /\ after \in World /\ after.refunds = << >> /\ after.next_refund = 1 /\ after.orders = k.orders
       /\ after.log = LogOf(k, IF early THEN <<History, Lookup>> ELSE <<Lookup>>)
       /\ ~Fails(k, Lookup) => after.lookups = 1
  BY <1>5, <1>7, <1>8, <1>9
<1> HIDE DEF after
<1> QED
  BY <1>1, <1>2, <1>3, <1>5, <1>10 DEF c, after, LookupKnown

(* A run that stops at its lookup is where the table has it. *)
LEMMA LookupStops ==
  ASSUME NEW v \in PAIRED, NEW k \in Case, NEW r, NEW r2, NEW e,
         NEW c, c = Class(r.st), Asked(c), ~Found(v, k, c), v = "alt_history_early" => Reads(v, k, c),
         r.st \in RefundState, Holds(r.st, v, k, c, FALSE, v = "alt_history_early", FALSE, FALSE),
         r.st.refund_type = None, r.st.refund_id = None,
         e = IF Fails(k, Lookup) THEN Lookup ELSE "no_order",
         r2.st = [r.st EXCEPT !.error = e], r2.next = "respond", r2.world \in World, r2.world.refunds = << >>,
         r2.world.log = LogOf(k, LookedCalls(v, k, c)),
         r2.fired # {} <=> Fires(v, k, c, None)
  PROVE  Typed(r2) /\ InTable(v, k, r2)
<1> DEFINE s == r2.st
<1>1. /\ s.intent = r.st.intent /\ s.order_id = r.st.order_id /\ s.order = r.st.order
      /\ s.prior_refunds = r.st.prior_refunds /\ s.eligibility = r.st.eligibility
      /\ s.refund_type = r.st.refund_type /\ s.refund_amount = r.st.refund_amount
      /\ s.approval = r.st.approval /\ s.refund_id = r.st.refund_id /\ s.error = e
  BY DEF RefundState
<1>2. Class(s) = c
  BY <1>1 DEF Class
<1> HIDE DEF s
<1>3. Error(v, k, c, None) = e
  <2>1. v = "alt_history_early" => ~Fails(k, History)
    BY DEF Reads
  <2>2. ~Fails(k, Lookup) => Seen(v, k, c.order_id) = None
    BY <2>1 DEF Found
  <2> QED
    BY <2>1, <2>2 DEF Error
<1>4. Ended(s, v, k, c)
  BY <1>1, <1>3, Unfound DEF Ended, Holds
<1>5. AtEnd(v, k, r2)
  <2>1. v = "alt_history_early" => ~Fails(k, History)
    BY DEF Reads
  <2> QED
    BY <1>1, <1>2, <1>4, <2>1, Unfound DEF AtEnd, Settled, s
<1>6. Marking(v, k, r2)
  <2>1. "respond" \notin Unmarked(v) \/ v \in {"B", "M8"}
    BY DEF Unmarked, ToCheck
  <2>2. v \in {"B", "M8"} => ~Fires(v, k, c, None)
    BY Unfound
  <2>3. v = "V4" /\ "respond" \in Unmarked(v) => r2.fired = {}
    BY <2>1
  <2> QED
    BY <1>1, <1>2, <2>1, <2>2, <2>3 DEF Marking, s
<1>7. Typed(r2)
  BY <1>1, FourTools DEF Typed, s, RefundState, Errors, Lookup, ToolNames
<1> QED
  BY <1>5, <1>6, <1>7 DEF InTable, Nodes

(* lookup_order, when the tool fails. *)
LEMMA LookupFailsTable ==
  ASSUME NEW v \in PAIRED, NEW k \in Case, NEW r, NEW r2, Typed(r), InTable(v, k, r),
         LookupFails(v, k, r, r2)
  PROVE  Typed(r2) /\ InTable(v, k, r2)
<1>0. /\ r.next = "lookup_order" /\ v # "V2" /\ Fails(k, Lookup)
      /\ Moves(v, r, r2, [r.st EXCEPT !.error = Lookup], FailedRead(v, k, r.world, Lookup), Retries(v))
  BY DEF LookupFails
<1>90. LookupKnown(v, k, r, Class(r.st), AfterLookup(r.world, k, r.st.order_id))
  BY <1>0, LookupStarts
<1> DEFINE c == Class(r.st)
           early == v = "alt_history_early"
           s == [r.st EXCEPT !.error = Lookup]
           after == AfterLookup(r.world, k, r.st.order_id)
<1>1. /\ Asked(c) /\ (early => Reads(v, k, c)) /\ Holds(r.st, v, k, c, FALSE, early, FALSE, FALSE)
      /\ r.st.refund_type = None /\ r.st.refund_id = None /\ r.fired = {} /\ c.order_id \in OrderIds
      /\ after \in World /\ after.refunds = << >>
      /\ after.log = LogOf(k, IF early THEN <<History, Lookup>> ELSE <<Lookup>>)
  BY <1>90 DEF LookupKnown
<1>2. after = Logged(r.world, k, Lookup)
  BY <1>0 DEF AfterLookup, Lookup
<1>3. ~Found(v, k, c)
  BY <1>0 DEF Found
<1>4. s.error = Lookup /\ Lookup # None
  BY FourTools DEF Typed, RefundState
<1>5. r2.st = s /\ r2.next = "respond" /\ r2.world = FailedRead(v, k, r.world, Lookup)
  BY <1>0, <1>4 DEF Moves, Route, AfterLookupNode
<1>9. RouteMarks(v, r.next, s) = {}
  BY <1>0, RouterMarks
<1>10. r2.fired = r.fired \cup Retries(v) \cup RouteMarks(v, r.next, s)
  BY <1>0 DEF Moves
<1> HIDE DEF s, after, c
<1>6. r2.world \in World /\ r2.world.refunds = << >> /\ r2.world.log = LogOf(k, LookedCalls(v, k, c))
  <2>1. CASE v = "V1"
    <3> DEFINE one == <<Lookup>>
    <3>1. r2.world = Logged(after, k, Lookup) /\ one \in Seq(ToolNames) /\ after.log = LogOf(k, one)
      BY <1>1, <1>2, <1>5, <2>1, ToolLists DEF FailedRead
    <3>3. Append(one, Lookup) = <<Lookup, Lookup>> /\ LookedCalls(v, k, c) = <<Lookup, Lookup>>
      <4>1. Append(<<Lookup>>, Lookup) = <<Lookup, Lookup>>
        BY ShortLists, Zenon
      <4>2. LookedCalls(v, k, c) = <<Lookup, Lookup>>
        BY <1>0, <2>1 DEF LookedCalls
      <4> QED
        BY <4>1, <4>2
    <3> HIDE DEF one
    <3>2. /\ Logged(after, k, Lookup) \in World /\ Logged(after, k, Lookup).refunds = after.refunds
          /\ Logged(after, k, Lookup).log = LogOf(k, Append(one, Lookup))
      BY <1>1, <3>1, FourTools, ReadCall
    <3> QED
      BY <1>1, <3>1, <3>2, <3>3
  <2>2. CASE v # "V1"
    BY <1>0, <1>1, <1>2, <1>5, <2>2 DEF FailedRead, LookedCalls
  <2> QED
    BY <2>1, <2>2
<1>7. r2.fired # {} <=> Fires(v, k, c, None)
  <2>1. r2.fired = IF v = "V1" THEN {"V1:retried_read"} ELSE {}
    BY <1>1, <1>9, <1>10 DEF Retries
  <2>2. v = "V1" => Fires(v, k, c, None)
    BY <1>0, <1>1 DEF Fires, Error
  <2>3. v = "M3" => ~Fires(v, k, c, None)
    BY <1>0 DEF Fires
  <2> QED
    BY <1>0, <1>1, <1>3, <2>1, <2>2, <2>3, Unfound
<1>8. r.st \in RefundState /\ r2.st = [r.st EXCEPT !.error = IF Fails(k, Lookup) THEN Lookup ELSE "no_order"]
  BY <1>0, <1>5 DEF s, Typed
<1> QED
  BY <1>1, <1>3, <1>5, <1>6, <1>7, <1>8, LookupStops DEF c

(* lookup_order, when it answers. *)
LEMMA LookupAnswersTable ==
  ASSUME NEW v \in PAIRED, NEW k \in Case, NEW r, NEW r2, Typed(r), InTable(v, k, r),
         LookupAnswers(v, k, r, r2)
  PROVE  Typed(r2) /\ InTable(v, k, r2)
<1>0. r.next = "lookup_order" /\ v # "V2" /\ ~Fails(k, Lookup)
  BY DEF LookupAnswers
<1>90. LookupKnown(v, k, r, Class(r.st), AfterLookup(r.world, k, r.st.order_id))
  BY <1>0, LookupStarts
<1> DEFINE c == Class(r.st)
           o == r.st.order_id
           early == v = "alt_history_early"
           first == AfterLookup(r.world, k, o)
           again == v = "M3" /\ OwnRow(k, o) = None
           last == IF again THEN AfterLookup(first, k, o) ELSE first
           row == SelectOrder(last, o, ~again)
           s == [r.st EXCEPT !.order = row, !.error = IF row = None THEN "no_order" ELSE @]
           called == IF again THEN <<Lookup, Lookup>> ELSE IF early THEN <<History, Lookup>> ELSE <<Lookup>>
<1>1. /\ v # "V6" /\ Asked(c) /\ (early => Reads(v, k, c)) /\ Holds(r.st, v, k, c, FALSE, early, FALSE, FALSE)
      /\ r.st.refund_type = None /\ r.st.refund_id = None /\ r.st.error = None /\ r.fired = {}
      /\ o \in OrderIds /\ c.order_id = o
      /\ first \in World /\ first.refunds = << >> /\ first.next_refund = 1 /\ first.orders = k.orders
      /\ first.lookups = 1
      /\ first.log = LogOf(k, IF early THEN <<History, Lookup>> ELSE <<Lookup>>)
  <2>1. c = Class(r.st) /\ first = AfterLookup(r.world, k, r.st.order_id) /\ c.order_id = r.st.order_id
    BY DEF Class
  <2> HIDE DEF c, first
  <2> QED
    BY <1>0, <1>90, <2>1 DEF LookupKnown
<1>2. SelectOrder(first, o, TRUE) = OwnRow(k, o)
  BY <1>1 DEF SelectOrder, OwnRow, SeedWorld
<1>3. Moves(v, r, r2, s, last, IF again THEN {"M3:ownerless_lookup"} ELSE {})
  BY <1>2 DEF LookupAnswers
<1>4. again => last = AfterLookup(first, k, o) /\ row = SelectOrder(last, o, FALSE)
  OBVIOUS
<1>5. ~again => last = first /\ row = SelectOrder(first, o, TRUE)
  OBVIOUS
<1>6. r.st \in RefundState /\ r.st.order = None
  BY <1>1 DEF Typed, Holds
<1>7. /\ s.intent = r.st.intent /\ s.order_id = o /\ s.order = row
      /\ s.prior_refunds = r.st.prior_refunds /\ s.eligibility = r.st.eligibility
      /\ s.refund_type = None /\ s.refund_amount = r.st.refund_amount
      /\ s.approval = r.st.approval /\ s.refund_id = None /\ s.error = IF row = None THEN "no_order" ELSE None
  BY <1>1, <1>6 DEF RefundState
<1>8. row = None => s = [r.st EXCEPT !.error = "no_order"]
  BY <1>6 DEF RefundState
<1>9. row \in OrderRow \cup {None} => s \in RefundState
  <2> DEFINE e == IF row = None THEN "no_order" ELSE None
  <2>1. e \in Errors \cup {None} /\ s = [r.st EXCEPT !.order = row, !.error = e]
    BY <1>1 DEF Errors
  <2> HIDE DEF e, s, row
  <2> QED
    BY <1>6, <2>1, ZenonT(60) DEF RefundState
<1> HIDE DEF last, first, row, s
<1>10. /\ last \in World /\ last.refunds = << >> /\ last.next_refund = 1 /\ last.log = LogOf(k, called)
       /\ ~again => last.lookups = 1 /\ last.orders = k.orders
       /\ again => last.orders = Repriced(first, k, o)
  <2>1. CASE again
    <3>1. <<Lookup>> \in Seq(ToolNames) /\ first.log = LogOf(k, <<Lookup>>) /\ called = <<Lookup, Lookup>>
      BY <1>1, <2>1, ToolLists
    <3>2. last = AfterLookup(first, k, o)
      BY <1>4, <2>1
    <3> HIDE DEF called
    <3>3. /\ last \in World /\ last.refunds = first.refunds /\ last.next_refund = first.next_refund
          /\ last.log = LogOf(k, Append(<<Lookup>>, Lookup)) /\ last.orders = Repriced(first, k, o)
      BY <1>0, <1>1, <3>1, <3>2, LookupCall
    <3>4. Append(<<Lookup>>, Lookup) = <<Lookup, Lookup>>
      BY ShortLists, Zenon
    <3> QED
      BY <1>1, <2>1, <3>1, <3>3, <3>4
  <2>2. CASE ~again
    BY <1>1, <1>5, <2>2
  <2> QED
    BY <2>1, <2>2
<1>11. row = Seen(v, k, o) /\ row \in OrderRow \cup {None}
  <2>1. CASE again
    <3>1. SelectOrder(SeedWorld(k), o, FALSE) = k.orders[o]
      BY DEF SelectOrder, SeedWorld
    <3>2. CASE k.orders[o] = None \/ k.reprice = None
      <4>1. last.orders = k.orders
        BY <1>1, <1>10, <2>1, <3>2 DEF Repriced
      <4>2. row = k.orders[o]
        BY <1>4, <2>1, <4>1 DEF SelectOrder
      <4> QED
        BY <1>1, <2>1, <3>1, <3>2, <4>2 DEF Seen, Case
    <3>3. CASE k.orders[o] # None /\ k.reprice # None
      <4> DEFINE repriced == [k.orders[o] EXCEPT !.price = k.reprice]
      <4>1. repriced \in OrderRow
        BY <1>1, <3>3 DEF Case, OrderRow
      <4>2. Repriced(first, k, o) = [k.orders EXCEPT ![o] = repriced]
        BY <1>1, <3>3 DEF Repriced
      <4>3. Seen(v, k, o) = repriced
        BY <2>1, <3>3 DEF Seen
      <4> HIDE DEF repriced
      <4>4. last.orders[o] = repriced
        BY <1>1, <1>10, <2>1, <4>2 DEF Case
      <4>5. repriced # None
        BY <4>1, NoneAssumption
      <4>6. row = repriced
        BY <1>4, <2>1, <4>4, <4>5 DEF SelectOrder
      <4> QED
        BY <4>1, <4>3, <4>6
    <3> QED
      BY <3>2, <3>3
  <2>2. CASE ~again
    <3>1. row = OwnRow(k, o)
      BY <1>2, <1>5, <2>2
    <3>2. OwnRow(k, o) \in OrderRow \cup {None}
      BY <1>1 DEF OwnRow, SelectOrder, SeedWorld, Case
    <3>3. Seen(v, k, o) = OwnRow(k, o)
      <4>1. CASE v = "M3"
        BY <2>2, <4>1 DEF Seen, OwnRow, SelectOrder
      <4>2. CASE v # "M3"
        <5>1. Seen(v, k, o) = SelectOrder(SeedWorld(k), o, v # "M3") /\ (v # "M3") = TRUE
          BY <4>2 DEF Seen
        <5> QED
          BY <5>1 DEF OwnRow
      <4> QED
        BY <4>1, <4>2
    <3> QED
      BY <3>1, <3>2, <3>3
  <2> QED
    BY <2>1, <2>2
<1>12. Class(s) = c
  BY <1>7 DEF Class
<1>15. RouteMarks(v, r.next, s) = {}
  BY <1>0, RouterMarks
<1>16. /\ r2.st = s /\ r2.world = last /\ r2.next = AfterLookupNode(v, s)
       /\ r2.fired = IF again THEN {"M3:ownerless_lookup"} ELSE {}
  BY <1>0, <1>1, <1>3, <1>15 DEF Moves, Route
<1>17. early => ~Fails(k, History)
  BY <1>1 DEF Reads
<1>18. Found(v, k, c) <=> row # None
  BY <1>0, <1>1, <1>11, <1>17 DEF Found
<1>19. v = "M3" => (again <=> Fires(v, k, c, None))
  BY <1>0, <1>1 DEF Fires
<1>20. Typed(r2)
  BY <1>9, <1>10, <1>11, <1>16 DEF Typed
<1> HIDE DEF c
<1>13. CASE row = None
  <2>1. r2.next = "respond"
    BY <1>7, <1>13, <1>16, FourTools DEF AfterLookupNode
  <2>2. called = LookedCalls(v, k, c)
    BY <1>0, <1>1 DEF LookedCalls
  <2>3. v = "V1" => ~Fires(v, k, c, None)
    <3>1. v = "V1" => Error(v, k, c, None) = "no_order"
      BY <1>0, <1>1, <1>11, <1>13 DEF Error
    <3> QED
      BY <3>1 DEF Fires, Lookup, History, Check
  <2>4. r2.fired # {} <=> Fires(v, k, c, None)
    BY <1>0, <1>1, <1>13, <1>16, <1>18, <1>19, <2>3, Unfound
  <2>5. r2.st = [r.st EXCEPT !.error = IF Fails(k, Lookup) THEN Lookup ELSE "no_order"]
    BY <1>0, <1>8, <1>13, <1>16
  <2>6. r2.world \in World /\ r2.world.refunds = << >> /\ r2.world.log = LogOf(k, LookedCalls(v, k, c))
    BY <1>10, <1>16, <2>2
  <2> QED
    BY <1>1, <1>6, <1>13, <1>18, <2>1, <2>4, <2>5, <2>6, LookupStops DEF c
<1>14. CASE row # None
  <2>1. r2.next = IF v \in {"alt_history_early", "M2"} THEN "check_eligibility"
                  ELSE IF v = "V4" THEN "compute_refund" ELSE "get_refund_history"
    BY <1>0, <1>7, <1>14, <1>16 DEF AfterLookupNode
  <2>2. Found(v, k, c)
    BY <1>14, <1>18
  <2>3. Holds(s, v, k, c, TRUE, early, FALSE, FALSE)
    BY <1>1, <1>7, <1>11 DEF Holds
  <2>4. Before(v, k, s, last)
    BY <1>7, <1>10, <1>14 DEF Before
  <2>5. Marking(v, k, r2)
    <3>1. v # "M3" => r2.next \in Unmarked(v) /\ r2.fired = {}
      BY <1>16, <2>1 DEF Unmarked, ToCheck, Nodes
    <3>2. v = "M3" => r2.next \notin Unmarked(v) /\ (r2.fired # {} <=> Fires(v, k, c, None))
      BY <1>16, <1>19, <2>1 DEF Unmarked
    <3> QED
      BY <1>7, <1>12, <1>16, <3>1, <3>2 DEF Marking
  <2>6. CASE v \in {"alt_history_early", "M2"}
    <3>1. Checks(v, k, c)
      BY <1>17, <2>2, <2>6 DEF Checks, Skips
    <3>2. called = IF v = "M2" THEN <<Lookup>> ELSE ReadCalls(v, k, c)
      BY <2>6 DEF ReadCalls
    <3>3. AtCheck(v, k, r2)
      BY <1>1, <1>7, <1>10, <1>12, <1>16, <2>3, <2>4, <2>6, <3>1, <3>2 DEF AtCheck, Open
    <3> QED
      BY <1>20, <2>1, <2>5, <2>6, <3>3 DEF InTable, Nodes
  <2>7. CASE v = "V4"
    <3>1. AtCompute(v, k, r2)
      BY <1>7, <1>10, <1>12, <1>16, <2>2, <2>3, <2>4, <2>7 DEF AtCompute, Open
    <3> QED
      BY <1>20, <2>1, <2>5, <2>7, <3>1 DEF InTable, Nodes
  <2>8. CASE v \notin {"alt_history_early", "M2", "V4"}
    <3>1. called = LookedCalls(v, k, c)
      BY <1>0, <1>1, <2>8 DEF LookedCalls
    <3>2. AtHistory(v, k, r2)
      BY <1>0, <1>1, <1>7, <1>10, <1>12, <1>16, <2>2, <2>3, <2>4, <2>8, <3>1 DEF AtHistory, Open
    <3> QED
      BY <1>20, <2>1, <2>5, <2>8, <3>2 DEF InTable, Nodes
  <2> QED
    BY <2>6, <2>7, <2>8
<1> QED
  BY <1>13, <1>14

-----------------------------------------------------------------------------
(* A run that ends as the table says is in the table. *)
LEMMA Ends ==
  ASSUME NEW v \in PAIRED, NEW k, NEW r, NEW c, c = Class(r.st), Typed(r), r.next = "respond",
         Ended(r.st, v, k, c), Settled(v, k, r, EndCalls(v, k, c, r.st.refund_type)),
         v \in {"B", "M8"} => r.fired = {},
         v \notin {"B", "M8", "V4"} => (r.fired # {} <=> Fires(v, k, c, r.st.refund_type))
  PROVE  Typed(r) /\ InTable(v, k, r)
<1>1. "respond" \notin Unmarked(v) \/ v \in {"B", "M8"}
  BY DEF Unmarked, ToCheck
<1>2. Marking(v, k, r)
  <2>1. r.fired # {} => "respond" \notin Unmarked(v)
    BY <1>1
  <2>2. v # "V4" /\ "respond" \notin Unmarked(v) => v \notin {"B", "M8", "V4"}
    BY DEF Unmarked, Nodes
  <2> QED
    BY <2>1, <2>2 DEF Marking
<1> QED
  BY <1>2 DEF InTable, AtEnd, Nodes

(* A run that fails to read the history does no more. *)
LEMMA Unread ==
  ASSUME NEW v \in PAIRED, NEW k, NEW c, NEW t, Asked(c), Fails(k, History),
         v # "alt_history_early" => Found(v, k, c),
         v = "M2" => Clears(v, k, c)
  PROVE  /\ v = "alt_history_early" => ~Found(v, k, c)
         /\ ~Reads(v, k, c) /\ ~Plans(v, k, c) /\ ~MustAsk(v, k, c, t) /\ ~Pays(v, k, c, t)
         /\ Answers(v, k, c) <=> v = "M2"
         /\ Error(v, k, c, t) = History
         /\ EndCalls(v, k, c, t) =
              CASE v = "alt_history_early" -> <<History>>
                [] v = "V1" -> <<Lookup, History, History>>
                [] v = "M2" -> <<Lookup, Check, History>>
                [] OTHER -> ReadCalls(v, k, c)
         /\ v \in {"V1", "M2"} => Fires(v, k, c, t)
         /\ v = "M3" => (Fires(v, k, c, t) <=> OwnRow(k, c.order_id) = None)
         /\ v \notin {"V1", "M2", "M3"} => ~Fires(v, k, c, t)
<1>1. v = "alt_history_early" => ~Found(v, k, c)
  BY DEF Found
<1>2. ~Reads(v, k, c) /\ ~Plans(v, k, c) /\ ~MustAsk(v, k, c, t) /\ ~Goes(v, k, c, t) /\ ~Tries(v, k, c, t) /\ ~Pays(v, k, c, t)
  BY Ladder DEF Reads
<1>3. Answers(v, k, c) <=> v = "M2"
  <2>1. v # "M2" => ~Checks(v, k, c)
    BY DEF Checks
  <2> QED
    BY <2>1, Ladder
<1>4. v # "alt_history_early" => ~Fails(k, Lookup) /\ Seen(v, k, c.order_id) # None
  BY DEF Found
<1>5. Checks(v, k, c) <=> v = "M2"
  BY <1>3, Ladder DEF Checks
<1>6. v = "M2" => ~Fails(k, Check)
  BY <1>3 DEF Answers
<1>7. Error(v, k, c, t) = History
  BY <1>4, <1>5, <1>6 DEF Error
<1>8. EndCalls(v, k, c, t) =
              CASE v = "alt_history_early" -> <<History>>
                [] v = "V1" -> <<Lookup, History, History>>
                [] v = "M2" -> <<Lookup, Check, History>>
                [] OTHER -> ReadCalls(v, k, c)
  <2>1. CASE v = "alt_history_early"
    BY <2>1 DEF EndCalls
  <2>2. CASE v = "M2"
    BY <1>2, <2>2, Ladder DEF EndCalls, CheckedCalls, PlannedCalls, Skips
  <2>3. CASE v \notin {"alt_history_early", "M2"}
    BY <2>3 DEF EndCalls
  <2> QED
    BY <2>1, <2>2, <2>3
<1>9. /\ v \in {"V1", "M2"} => Fires(v, k, c, t)
      /\ v = "M3" => (Fires(v, k, c, t) <=> OwnRow(k, c.order_id) = None)
      /\ v \notin {"V1", "M2", "M3"} => ~Fires(v, k, c, t)
  <2>1. CASE v = "V1"
    BY <1>7, <2>1, Firing, FourTools
  <2>2. CASE v = "M2"
    BY <1>5, <2>2, Firing
  <2>3. CASE v = "M3"
    BY <1>4, <2>3, Firing
  <2>4. CASE v \in {"A", "B", "M7", "C", "C1", "C2", "M1"}
    BY <1>2, <1>5, <2>4, Firing
  <2>5. CASE v \in {"M4", "M5", "M6", "M8", "V2", "V3"}
    BY <1>2, <1>4, <2>5, Firing
  <2>6. CASE v \in {"baseline", "alt_history_early", "alt_recheck", "alt_verify", "V4", "V5", "V6"}
    BY <2>6, Firing
  <2> QED
    BY <2>1, <2>2, <2>3, <2>4, <2>5, <2>6, PairedVariants
<1> QED
  BY <1>1, <1>2, <1>3, <1>7, <1>8, <1>9

(* A run that stops because the history cannot be read is where the table has it. *)
LEMMA HistoryStops ==
  ASSUME NEW v \in PAIRED, NEW k, NEW r2, NEW c, c = Class(r2.st), Typed(r2), r2.next = "respond", v # "V4",
         Asked(c), Fails(k, History), v # "alt_history_early" => Found(v, k, c), v = "M2" => Clears(v, k, c),
         Holds(r2.st, v, k, c, v # "alt_history_early", FALSE, v = "M2", FALSE),
         r2.st.refund_type = None, r2.st.refund_id = None, r2.st.error = History,
         r2.world.refunds = << >>, r2.world.log = LogOf(k, EndCalls(v, k, c, None)),
         v \in {"V1", "M2"} => r2.fired # {},
         v = "M3" => (r2.fired # {} <=> OwnRow(k, c.order_id) = None),
         v \notin {"V1", "M2", "M3"} => r2.fired = {}
  PROVE  Typed(r2) /\ InTable(v, k, r2)
<1>1. Ended(r2.st, v, k, c)
  BY Unread DEF Ended, Holds
<1>2. Settled(v, k, r2, EndCalls(v, k, c, r2.st.refund_type))
  BY Unread DEF Settled
<1>3. v \in {"B", "M8"} => r2.fired = {}
  OBVIOUS
<1>4. v \notin {"B", "M8", "V4"} => (r2.fired # {} <=> Fires(v, k, c, r2.st.refund_type))
  BY Unread
<1> QED
  BY <1>1, <1>2, <1>3, <1>4, Ends

(* What is known of a run at get_refund_history. *)
HistoryKnown(v, k, r, c, calls) ==
  LET early == v = "alt_history_early"
  IN /\ v \notin {"V2", "V6"} /\ Asked(c) /\ (v # "V4" => r.st.refund_type = None)
     /\ (~early => Found(v, k, c)) /\ (v = "M2" => Clears(v, k, c))
     /\ Holds(r.st, v, k, c, ~early, FALSE, v = "M2", FALSE)
     /\ Before(v, k, r.st, r.world) /\ r.world.log = LogOf(k, calls) /\ calls \in Seq(ToolNames)
     /\ r.world \in World /\ r.st \in RefundState
     /\ Append(calls, History) = IF early THEN <<History>> ELSE IF v = "M2" THEN <<Lookup, Check, History>> ELSE ReadCalls(v, k, c)
     /\ v = "V1" => calls = <<Lookup>>
     /\ v = "M2" => r.fired # {}
     /\ v = "M3" => (r.fired # {} <=> OwnRow(k, c.order_id) = None)
     /\ v \notin {"M2", "M3"} => r.fired = {}

(* The same when it comes to the refund history, with the calls it has made. *)
LEMMA HistoryStarts ==
  ASSUME NEW v \in PAIRED, NEW k \in Case, NEW r, Typed(r), InTable(v, k, r), r.next = "get_refund_history"
  PROVE  \E calls : HistoryKnown(v, k, r, Class(r.st), calls)
<1> DEFINE c == Class(r.st)
           early == v = "alt_history_early"
           calls == IF early THEN << >> ELSE IF v = "M2" THEN <<Lookup, Check>> ELSE LookedCalls(v, k, c)
<1>1. AtHistory(v, k, r) /\ Marking(v, k, r) /\ r.st \in RefundState /\ r.world \in World
  BY DEF InTable, Typed
<1> HIDE DEF c
<1>2. /\ v \notin {"V2", "V6"} /\ Asked(c) /\ (v # "V4" => r.st.refund_type = None)
      /\ (~early => Found(v, k, c)) /\ (v = "M2" => Clears(v, k, c))
      /\ Holds(r.st, v, k, c, ~early, FALSE, v = "M2", FALSE) /\ Open(v, k, r, calls)
  BY <1>1 DEF AtHistory, c
<1>3. calls \in Seq(ToolNames)
  BY ToolLists
<1>4. ~early => ~Fails(k, Lookup)
  BY <1>2 DEF Found
<1>5. Append(calls, History) = IF early THEN <<History>> ELSE IF v = "M2" THEN <<Lookup, Check, History>> ELSE ReadCalls(v, k, c)
  <2>1. CASE early
    <3>1. Append(<< >>, History) = <<History>>
      BY ShortLists, Zenon
    <3> QED
      BY <2>1, <3>1
  <2>2. CASE v = "M2"
    <3>1. Append(<<Lookup, Check>>, History) = <<Lookup, Check, History>>
      BY LongerLists, Zenon
    <3> QED
      BY <2>2, <3>1
  <2>3. CASE ~early /\ v # "M2"
    <3>1. CASE v = "M3" /\ OwnRow(k, c.order_id) = None
      <4>1. LookedCalls(v, k, c) = <<Lookup, Lookup>> /\ ReadCalls(v, k, c) = <<Lookup, Lookup, History>>
        BY <1>2, <1>4, <2>3, <3>1 DEF LookedCalls, ReadCalls
      <4>2. Append(<<Lookup, Lookup>>, History) = <<Lookup, Lookup, History>>
        BY LongerLists, Zenon
      <4> QED
        BY <2>3, <4>1, <4>2
    <3>2. CASE ~(v = "M3" /\ OwnRow(k, c.order_id) = None)
      <4>1. LookedCalls(v, k, c) = <<Lookup>> /\ ReadCalls(v, k, c) = <<Lookup, History>>
        BY <1>2, <1>4, <2>3, <3>2 DEF LookedCalls, ReadCalls
      <4>2. Append(<<Lookup>>, History) = <<Lookup, History>>
        BY ShortLists, Zenon
      <4> QED
        BY <2>3, <4>1, <4>2
    <3> QED
      BY <3>1, <3>2
  <2> QED
    BY <2>1, <2>2, <2>3
<1>6. v = "V1" => calls = <<Lookup>>
  BY <1>4 DEF LookedCalls
<1>7. v \notin {"M2", "M3"} => r.fired = {}
  BY <1>1 DEF InTable, Marking, Unmarked, ToCheck, Nodes
<1>8. v = "M2" => r.fired # {}
  <2>1. v = "M2" => Checks(v, k, c)
    BY <1>2, Ladder
  <2> QED
    BY <1>1, <2>1, Firing DEF Marking, Unmarked, c
<1>9. v = "M3" => (r.fired # {} <=> OwnRow(k, c.order_id) = None)
  BY <1>1, <1>2, <1>4, Firing DEF Marking, Unmarked, c
<1> HIDE DEF calls
<1>10. HistoryKnown(v, k, r, c, calls)
  BY <1>1, <1>2, <1>3, <1>5, <1>6, <1>7, <1>8, <1>9 DEF HistoryKnown, Open
<1> QED
  BY <1>10 DEF c

(* get_refund_history, when the tool fails. *)
LEMMA FailsHistoryTable ==
  ASSUME NEW v \in PAIRED, NEW k \in Case, NEW r, NEW r2, Typed(r), InTable(v, k, r), FailsHistory(v, k, r, r2)
  PROVE  Typed(r2) /\ InTable(v, k, r2)
<1> DEFINE c == Class(r.st)
           early == v = "alt_history_early"
           s == [r.st EXCEPT !.error = History]
<1>1. /\ r.next = "get_refund_history" /\ Fails(k, History)
      /\ Moves(v, r, r2, s, FailedRead(v, k, r.world, History), Retries(v))
  BY DEF FailsHistory
<1>2. PICK calls : HistoryKnown(v, k, r, c, calls)
  BY <1>1, HistoryStarts
<1>3. /\ v \notin {"V2", "V6"} /\ Asked(c) /\ (v # "V4" => r.st.refund_type = None)
      /\ (~early => Found(v, k, c)) /\ (v = "M2" => Clears(v, k, c))
      /\ Holds(r.st, v, k, c, ~early, FALSE, v = "M2", FALSE)
      /\ r.st.refund_id = None /\ r.world.refunds = << >> /\ r.world.log = LogOf(k, calls) /\ calls \in Seq(ToolNames)
      /\ r.world \in World /\ r.st \in RefundState
      /\ Append(calls, History) = IF early THEN <<History>> ELSE IF v = "M2" THEN <<Lookup, Check, History>> ELSE ReadCalls(v, k, c)
      /\ v = "V1" => calls = <<Lookup>>
      /\ v = "M2" => r.fired # {}
      /\ v = "M3" => (r.fired # {} <=> OwnRow(k, c.order_id) = None)
      /\ v \notin {"M2", "M3"} => r.fired = {}
  BY <1>2 DEF HistoryKnown, Before
<1>4. /\ s.intent = r.st.intent /\ s.order_id = r.st.order_id /\ s.order = r.st.order
      /\ s.prior_refunds = r.st.prior_refunds /\ s.eligibility = r.st.eligibility
      /\ s.refund_type = r.st.refund_type /\ s.refund_amount = r.st.refund_amount
      /\ s.approval = r.st.approval /\ s.refund_id = None /\ s.error = History /\ s \in RefundState
  BY <1>3, FourTools DEF RefundState, Errors
<1>5. r2.next = IF v = "V4" THEN "discard_plan" ELSE "respond"
  BY <1>1, <1>4, FourTools DEF Moves, Route, AfterHistory
<1>6. r2.st = s /\ r2.world = FailedRead(v, k, r.world, History) /\ r2.fired = r.fired \cup Retries(v)
  <2>1. RouteMarks(v, r.next, s) = {}
    BY <1>1, <1>4, RouterMarks, FourTools DEF RouteMarks
  <2> QED
    BY <1>1, <2>1 DEF Moves
<1> HIDE DEF s
<1>7. Class(s) = c
  BY <1>4 DEF Class
<1> HIDE DEF c
<1>8. /\ r2.world \in World /\ r2.world.refunds = << >>
      /\ r2.world.log = LogOf(k, EndCalls(v, k, c, None))
  <2> DEFINE w == Logged(r.world, k, History)
             more == Append(calls, History)
  <2>0. r.world \in World /\ r.world.refunds = << >> /\ r.world.log = LogOf(k, calls) /\ calls \in Seq(ToolNames)
    BY <1>3
  <2>1. w \in World /\ w.refunds = << >> /\ w.log = LogOf(k, more)
    BY <2>0, ReadCall, FourTools, ZenonT(60)
  <2>2. CASE v = "V1"
    <3>1. r2.world = Logged(w, k, History) /\ more \in Seq(ToolNames)
      <4>1. more \in Seq(ToolNames)
        BY <2>0, FourTools, AppendProperties
      <4> QED
        BY <1>6, <2>2, <4>1 DEF FailedRead
    <3>2. Append(more, History) = <<Lookup, History, History>>
      <4>1. calls = <<Lookup>>
        BY <1>3, <2>2
      <4>2. Append(<<Lookup>>, History) = <<Lookup, History>> /\ Append(<<Lookup, History>>, History) = <<Lookup, History, History>>
        BY ShortLists, LongerLists, Zenon
      <4> QED
        BY <4>1, <4>2
    <3>3. EndCalls(v, k, c, None) = <<Lookup, History, History>>
      BY <1>1, <1>3, <2>2, Unread
    <3> HIDE DEF w, more
    <3>4. Logged(w, k, History) \in World /\ Logged(w, k, History).refunds = w.refunds
          /\ Logged(w, k, History).log = LogOf(k, Append(more, History))
      BY <2>1, <3>1, ReadCall, FourTools
    <3> QED
      BY <2>1, <3>1, <3>2, <3>3, <3>4
  <2>3. CASE v # "V1"
    <3>1. r2.world = w
      BY <1>6, <2>3 DEF FailedRead
    <3>2. more = EndCalls(v, k, c, None)
      BY <1>1, <1>3, <2>3, Unread
    <3> QED
      BY <2>1, <3>1, <3>2
  <2> QED
    BY <2>2, <2>3
<1>9. Typed(r2)
  BY <1>4, <1>6, <1>8 DEF Typed
<1>10. Holds(s, v, k, c, ~early, FALSE, v = "M2", FALSE)
  BY <1>3, <1>4 DEF Holds
<1>11. CASE v # "V4"
  <2>1. v = "V1" => r2.fired # {}
    BY <1>6 DEF Retries
  <2>2. v # "V1" => r2.fired = r.fired
    BY <1>6 DEF Retries
  <2> QED
    BY <1>1, <1>3, <1>4, <1>5, <1>6, <1>7, <1>8, <1>9, <1>10, <1>11, <2>1, <2>2, HistoryStops
<1>12. CASE v = "V4"
  <2> DEFINE s0 == [s EXCEPT !.refund_type = None, !.refund_amount = None]
  <2>1. /\ s0.intent = s.intent /\ s0.order_id = s.order_id /\ s0.order = s.order
        /\ s0.prior_refunds = s.prior_refunds /\ s0.eligibility = s.eligibility
        /\ s0.refund_type = None /\ s0.refund_amount = None
        /\ s0.approval = s.approval /\ s0.refund_id = None /\ s0.error = History
    BY <1>4 DEF RefundState
  <2> HIDE DEF s0
  <2>2. ~Plans(v, k, c) /\ EndCalls(v, k, c, None) = ReadCalls(v, k, c)
    BY <1>1, <1>3, <1>12, Unread
  <2>3. Ended(s0, v, k, c)
    BY <1>1, <1>3, <1>10, <1>12, <2>1, Unread DEF Ended, Holds
  <2>4. Settled(v, k, r2, EndCalls(v, k, c, None))
    <3>1. ~Pays(v, k, c, s.refund_type)
      BY <2>2, Ladder
    <3> QED
      BY <1>6, <1>7, <1>8, <3>1 DEF Settled
  <2>5. AtDiscard(v, k, r2)
    BY <1>6, <1>7, <1>12, <2>2, <2>3, <2>4 DEF AtDiscard, s0
  <2>6. Marking(v, k, r2)
    BY <1>3, <1>5, <1>6, <1>12 DEF Marking, Retries
  <2> QED
    BY <1>5, <1>9, <1>12, <2>5, <2>6 DEF InTable, Nodes
<1> QED
  BY <1>11, <1>12

-----------------------------------------------------------------------------
(* The variants whose marker the check, or a node before it, settles. *)
EARLY_MARKED == {"A", "C", "C1", "C2", "M1", "M2", "M3"}

(* A run that comes to plan a refund that is due is where the table has it. *)
LEMMA Planning ==
  ASSUME NEW v \in PAIRED, NEW k, NEW r, NEW c, c = Class(r.st), Typed(r), r.next = "compute_refund",
         r.st.refund_type = None, Plans(v, k, c), Holds(r.st, v, k, c, TRUE, TRUE, Answers(v, k, c), FALSE),
         Before(v, k, r.st, r.world), r.world.log = LogOf(k, CheckedCalls(v, k, c)),
         v \in EARLY_MARKED => (r.fired # {} <=> Fires(v, k, c, None)),
         v \notin EARLY_MARKED => r.fired = {}
  PROVE  Typed(r) /\ InTable(v, k, r)
<1>1. v \in EARLY_MARKED <=> "compute_refund" \notin Unmarked(v)
  BY DEF EARLY_MARKED, Unmarked, ToCheck, Nodes
<1>2. Marking(v, k, r)
  BY <1>1 DEF Marking, EARLY_MARKED
<1>3. AtCompute(v, k, r)
  BY DEF AtCompute, Open
<1> QED
  BY <1>2, <1>3 DEF InTable, Nodes

(* A run that comes to the check is where the table has it. *)
LEMMA Checking ==
  ASSUME NEW v \in PAIRED, NEW k, NEW r, NEW c, c = Class(r.st), Typed(r), r.next = "check_eligibility",
         v \notin {"V6", "alt_history_early", "M2"}, Checks(v, k, c), v # "V4" => r.st.refund_type = None,
         Holds(r.st, v, k, c, TRUE, TRUE, FALSE, FALSE), Before(v, k, r.st, r.world),
         r.world.log = LogOf(k, ReadCalls(v, k, c)),
         v = "M3" => (r.fired # {} <=> OwnRow(k, c.order_id) = None), v # "M3" => r.fired = {}
  PROVE  Typed(r) /\ InTable(v, k, r)
<1>1. v \notin {"A", "M3"} => "check_eligibility" \in Unmarked(v)
  BY DEF Unmarked, ToCheck, Nodes
<1>2. v = "A" => ~Fires(v, k, c, r.st.refund_type)
  BY Firing, Ladder
<1>3. v = "M3" => (r.fired # {} <=> Fires(v, k, c, r.st.refund_type)) /\ "check_eligibility" \notin Unmarked(v)
  BY Firing, Ladder DEF Found, Unmarked
<1>4. Marking(v, k, r)
  BY <1>1, <1>2, <1>3 DEF Marking
<1>5. AtCheck(v, k, r)
  BY DEF AtCheck, Open
<1> QED
  BY <1>4, <1>5 DEF InTable, Nodes

(* get_refund_history, when it answers. *)
LEMMA AnswersHistoryTable ==
  ASSUME NEW v \in PAIRED, NEW k \in Case, NEW r, NEW r2, Typed(r), InTable(v, k, r), AnswersHistory(v, k, r, r2)
  PROVE  Typed(r2) /\ InTable(v, k, r2)
<1> DEFINE c == Class(r.st)
           early == v = "alt_history_early"
           s == [r.st EXCEPT !.prior_refunds = RefundHistory(r.world, k)]
<1>1. /\ r.next = "get_refund_history" /\ ~Fails(k, History)
      /\ Moves(v, r, r2, s, Logged(r.world, k, History), {})
  BY DEF AnswersHistory
<1>2. PICK calls : HistoryKnown(v, k, r, c, calls)
  BY <1>1, HistoryStarts
<1>3. /\ v \notin {"V2", "V6"} /\ Asked(c) /\ (v # "V4" => r.st.refund_type = None)
      /\ (~early => Found(v, k, c)) /\ (v = "M2" => Clears(v, k, c))
      /\ Holds(r.st, v, k, c, ~early, FALSE, v = "M2", FALSE) /\ Before(v, k, r.st, r.world)
      /\ Append(calls, History) = IF early THEN <<History>> ELSE IF v = "M2" THEN <<Lookup, Check, History>> ELSE ReadCalls(v, k, c)
      /\ v = "M2" => r.fired # {}
      /\ v = "M3" => (r.fired # {} <=> OwnRow(k, c.order_id) = None)
      /\ v \notin {"M2", "M3"} => r.fired = {}
  BY <1>2 DEF HistoryKnown
<1>4. r.world \in World /\ r.st \in RefundState /\ r.world.log = LogOf(k, calls) /\ calls \in Seq(ToolNames)
  BY <1>2 DEF HistoryKnown
<1>5. RefundHistory(r.world, k) = Prior(k) /\ Prior(k) \in Nat
  BY <1>3, <1>4, HistoryFacts DEF Before, Prior
<1>6. /\ s.intent = r.st.intent /\ s.order_id = r.st.order_id /\ s.order = r.st.order
      /\ s.prior_refunds = Prior(k) /\ s.eligibility = r.st.eligibility
      /\ s.refund_type = r.st.refund_type /\ s.refund_amount = r.st.refund_amount
      /\ s.approval = r.st.approval /\ s.refund_id = r.st.refund_id /\ s.error = r.st.error /\ s \in RefundState
  BY <1>4, <1>5 DEF RefundState
<1>7. s.error = None /\ s.refund_id = None
  BY <1>3, <1>6 DEF Before
<1>8. r2.next = IF early THEN "lookup_order"
                ELSE IF v = "M2" \/ (v = "A" /\ c.intent = "damaged") THEN "compute_refund"
                ELSE "check_eligibility"
  BY <1>1, <1>6, <1>7 DEF Moves, Route, AfterHistory, Class
<1>9. /\ r2.st = s /\ r2.world = Logged(r.world, k, History)
      /\ v = "A" => (r2.fired # {} <=> c.intent = "damaged")
      /\ v # "A" => r2.fired = r.fired
  <2> HIDE DEF s
  <2>1. /\ v # "A" => RouteMarks(v, r.next, s) = {}
        /\ v = "A" => (RouteMarks(v, r.next, s) # {} <=> s.error = None /\ s.intent = "damaged")
    BY <1>1, RouterMarks
  <2>2. r2.fired = r.fired \cup RouteMarks(v, r.next, s) /\ (v = "A" => r.fired = {})
    BY <1>1, <1>3 DEF Moves
  <2> QED
    BY <1>1, <1>6, <1>7, <2>1, <2>2 DEF Moves, Class
<1>10. Class(s) = c
  BY <1>6 DEF Class
<1> HIDE DEF s, c
<1>11. /\ r2.world \in World /\ r2.world.log = LogOf(k, Append(calls, History))
       /\ r2.world.refunds = r.world.refunds /\ r2.world.next_refund = r.world.next_refund
       /\ r2.world.lookups = r.world.lookups /\ r2.world.orders = r.world.orders
  <2> DEFINE w == Logged(r.world, k, History)
  <2>1. /\ w \in World /\ w.log = LogOf(k, Append(calls, History))
        /\ w.refunds = r.world.refunds /\ w.next_refund = r.world.next_refund
        /\ w.lookups = r.world.lookups /\ w.orders = r.world.orders
    <3>1. OnlyLogged(k, r.world, w, calls, History)
      BY <1>4, ReadLogs, FourTools
    <3> HIDE DEF w
    <3> QED
      BY <3>1 DEF OnlyLogged
  <2>2. r2.world = w
    BY <1>9
  <2> HIDE DEF w
  <2> QED
    BY <2>1, <2>2
<1>12. Typed(r2) /\ Before(v, k, s, r2.world)
  BY <1>3, <1>6, <1>9, <1>11 DEF Typed, Before
<1>13. Holds(s, v, k, c, ~early, TRUE, v = "M2", FALSE)
  BY <1>3, <1>6 DEF Holds
<1>14. CASE early
  <2>1. Reads(v, k, c) /\ r2.next = "lookup_order" /\ s.refund_type = None
    BY <1>1, <1>3, <1>6, <1>8, <1>14 DEF Reads
  <2>2. AtLookup(v, k, r2)
    BY <1>3, <1>9, <1>10, <1>11, <1>12, <1>13, <1>14, <2>1 DEF AtLookup, Open
  <2>3. Marking(v, k, r2)
    BY <1>3, <1>9, <1>14, <2>1 DEF Marking, Unmarked, Nodes
  <2> QED
    BY <1>12, <2>1, <2>2, <2>3 DEF InTable, Nodes
<1>15. CASE v = "M2" \/ (v = "A" /\ c.intent = "damaged")
  <2>1. r2.next = "compute_refund" /\ s.refund_type = None
    BY <1>3, <1>6, <1>8, <1>15
  <2>2. Plans(v, k, c)
    BY <1>1, <1>3, <1>15 DEF Plans, Reads, Skips
  <2>3. Answers(v, k, c) <=> v = "M2"
    BY <1>3, <1>15, Ladder DEF Skips
  <2>4. CheckedCalls(v, k, c) = Append(calls, History)
    BY <1>3, <1>15 DEF CheckedCalls, ReadCalls, Skips
  <2>5. r2.fired # {} /\ Fires(v, k, c, None) /\ v \in EARLY_MARKED
    BY <1>3, <1>9, <1>15, <2>2, Firing, Ladder DEF Skips, EARLY_MARKED
  <2>6. Holds(s, v, k, c, TRUE, TRUE, Answers(v, k, c), FALSE)
    BY <1>13, <1>15, <2>3 DEF Holds
  <2> QED
    BY <1>9, <1>10, <1>11, <1>12, <2>1, <2>2, <2>4, <2>5, <2>6, Planning
<1>16. CASE ~early /\ v # "M2" /\ ~(v = "A" /\ c.intent = "damaged")
  <2>1. r2.next = "check_eligibility" /\ Checks(v, k, c)
    BY <1>1, <1>3, <1>8, <1>16 DEF Checks, Skips
  <2>2. Holds(s, v, k, c, TRUE, TRUE, FALSE, FALSE)
    BY <1>13, <1>16 DEF Holds
  <2>3. v # "M3" => r2.fired = {}
    BY <1>3, <1>9, <1>16
  <2>4. r2.world.log = LogOf(k, ReadCalls(v, k, c))
    BY <1>3, <1>11, <1>16
  <2> QED
    BY <1>3, <1>6, <1>9, <1>10, <1>12, <1>16, <2>1, <2>2, <2>3, <2>4, Checking
<1> QED
  BY <1>14, <1>15, <1>16

(* What is known of a run whose only lookup is over. *)
LEMMA OneLookup ==
  ASSUME NEW v \in PAIRED, NEW k \in Case, NEW o \in OrderIds, v # "M3",
         NEW w \in World, w.orders = k.orders
  PROVE  /\ SelectOrder(w, o, TRUE) = Seen(v, k, o) /\ Seen(v, k, o) = OwnRow(k, o)
         /\ Seen(v, k, o) \in OrderRow \cup {None}
<1>1. Seen(v, k, o) = SelectOrder(SeedWorld(k), o, v # "M3") /\ (v # "M3") = TRUE
  BY DEF Seen
<1>2. Seen(v, k, o) = OwnRow(k, o)
  BY <1>1 DEF OwnRow
<1>3. OwnRow(k, o) = SelectOrder(w, o, TRUE)
  BY DEF OwnRow, SelectOrder, SeedWorld
<1>4. OwnRow(k, o) \in OrderRow \cup {None}
  BY DEF OwnRow, SelectOrder, SeedWorld, Case
<1> QED
  BY <1>2, <1>3, <1>4

(* V2 reads the order and the history at once. *)
LEMMA FetchesTable ==
  ASSUME NEW v \in PAIRED, NEW k \in Case, NEW r, NEW r2, Typed(r), InTable(v, k, r), Fetches(v, k, r, r2)
  PROVE  Typed(r2) /\ InTable(v, k, r2)
<1> DEFINE c == Class(r.st)
           o == r.st.order_id
           looked == AfterLookup(r.world, k, o)
           both == Logged(looked, k, History)
           row == SelectOrder(looked, o, TRUE)
<1>1. r.next = "lookup_order" /\ v = "V2"
  BY DEF Fetches
<1>2. LookupKnown(v, k, r, c, looked)
  BY <1>1, LookupStarts
<1>3. c.order_id = o /\ r.st \in RefundState
  BY DEF Class, Typed
<1> HIDE DEF c, looked
<1>4. /\ Asked(c) /\ o \in OrderIds /\ Holds(r.st, v, k, c, FALSE, FALSE, FALSE, FALSE)
      /\ r.st.refund_type = None /\ r.st.refund_id = None /\ r.st.error = None /\ r.fired = {}
      /\ looked \in World /\ looked.refunds = << >> /\ looked.next_refund = 1 /\ looked.orders = k.orders
      /\ looked.log = LogOf(k, <<Lookup>>)
  BY <1>1, <1>2, <1>3 DEF LookupKnown
<1>5. row = Seen(v, k, o) /\ row \in OrderRow \cup {None}
  BY <1>1, <1>4, OneLookup, ZenonT(60)
<1>6. Found(v, k, c) <=> ~Fails(k, Lookup) /\ row # None
  BY <1>1, <1>3, <1>4, <1>5 DEF Found
<1>7. /\ both \in World /\ both.refunds = << >> /\ both.next_refund = 1 /\ both.log = LogOf(k, <<Lookup, History>>)
  <2> DEFINE one == <<Lookup>>
  <2>1. one \in Seq(ToolNames) /\ looked.log = LogOf(k, one)
    BY <1>4, ToolLists
  <2>2. Append(one, History) = <<Lookup, History>>
    BY ShortLists, Zenon
  <2> HIDE DEF one
  <2>3. OnlyLogged(k, looked, both, one, History)
    BY <1>4, <2>1, ReadLogs, FourTools
  <2> HIDE DEF both
  <2> QED
    BY <1>4, <2>2, <2>3 DEF OnlyLogged
<1>8. r.st.order = None /\ r.st.prior_refunds = None /\ r.st.eligibility = None /\ r.st.approval = None
  BY <1>4 DEF Holds
<1>9. \A s : RouteMarks(v, r.next, s) = {}
  BY <1>1, RouterMarks
<1> DEFINE e == IF Fails(k, Lookup) THEN Lookup ELSE "no_order"
<1>10. \/ /\ ~Found(v, k, c)
          /\ Moves(v, r, r2, [r.st EXCEPT !.error = e], both, {"V2:history_read_on_failed_lookup"})
       \/ /\ Found(v, k, c) /\ Fails(k, History)
          /\ Moves(v, r, r2, [r.st EXCEPT !.order = row, !.error = History], both, {})
       \/ /\ Found(v, k, c) /\ ~Fails(k, History)
          /\ Moves(v, r, r2, [r.st EXCEPT !.order = row, !.prior_refunds = RefundHistory(looked, k)], both, {})
  BY <1>6 DEF Fetches, looked
<1> HIDE DEF both, row
<1>11. CASE /\ ~Found(v, k, c)
            /\ Moves(v, r, r2, [r.st EXCEPT !.error = e], both, {"V2:history_read_on_failed_lookup"})
  <2> DEFINE s == [r.st EXCEPT !.error = e]
  <2>1. s.error # None
    <3>1. s.error = e
      BY <1>3 DEF RefundState
    <3> QED
      BY <3>1, FourTools
  <2>2. r2.st = s /\ r2.world = both /\ r2.next = AfterLookupNode(v, s) /\ r2.fired # {}
    BY <1>1, <1>11 DEF Moves, Route
  <2>3. r2.next = "respond"
    BY <2>1, <2>2 DEF AfterLookupNode
  <2>4. Fires(v, k, c, None) /\ LookedCalls(v, k, c) = <<Lookup, History>>
    BY <1>1, <1>4, <1>11, Firing DEF LookedCalls
  <2>5. r2.st = [r.st EXCEPT !.error = e] /\ r2.fired # {}
    BY <2>2
  <2> HIDE DEF s
  <2>6. r2.world \in World /\ r2.world.refunds = << >> /\ r2.world.log = LogOf(k, LookedCalls(v, k, c))
    BY <1>7, <2>2, <2>4
  <2>7. c = Class(r.st) /\ Holds(r.st, v, k, c, FALSE, v = "alt_history_early", FALSE, FALSE)
    BY <1>1, <1>4 DEF c
  <2>8. v = "alt_history_early" => Reads(v, k, c)
    BY <1>1
  <2> HIDE DEF e
  <2> QED
    BY <1>3, <1>4, <1>11, <2>3, <2>4, <2>5, <2>6, <2>7, <2>8, LookupStops DEF e
<1>12. CASE /\ Found(v, k, c) /\ Fails(k, History)
            /\ Moves(v, r, r2, [r.st EXCEPT !.order = row, !.error = History], both, {})
  <2> DEFINE s == [r.st EXCEPT !.order = row, !.error = History]
  <2>1. /\ s.intent = r.st.intent /\ s.order_id = o /\ s.order = row
        /\ s.prior_refunds = None /\ s.eligibility = None /\ s.refund_type = None
        /\ s.refund_amount = r.st.refund_amount /\ s.approval = None /\ s.refund_id = None
        /\ s.error = History /\ s \in RefundState
    BY <1>3, <1>4, <1>5, <1>8, FourTools, ZenonT(60) DEF RefundState, Errors
  <2>2. r2.st = s /\ r2.world = both /\ r2.next = AfterLookupNode(v, s) /\ r2.fired = {}
    BY <1>1, <1>4, <1>9, <1>12 DEF Moves, Route
  <2> HIDE DEF s
  <2>3. r2.next = "respond" /\ Class(s) = c /\ Typed(r2)
    BY <1>7, <2>1, <2>2, FourTools DEF AfterLookupNode, Class, c, Typed
  <2>4. Holds(s, v, k, c, TRUE, FALSE, FALSE, FALSE)
    BY <1>3, <1>4, <1>5, <2>1 DEF Holds
  <2>5. EndCalls(v, k, c, None) = <<Lookup, History>>
    BY <1>1, <1>4, <1>12, Unread DEF ReadCalls
  <2> QED
    BY <1>1, <1>4, <1>7, <1>12, <2>1, <2>2, <2>3, <2>4, <2>5, HistoryStops
<1>13. CASE /\ Found(v, k, c) /\ ~Fails(k, History)
            /\ Moves(v, r, r2, [r.st EXCEPT !.order = row, !.prior_refunds = RefundHistory(looked, k)], both, {})
  <2> DEFINE s == [r.st EXCEPT !.order = row, !.prior_refunds = RefundHistory(looked, k)]
  <2>1. RefundHistory(looked, k) = Prior(k) /\ Prior(k) \in Nat
    BY <1>4, HistoryFacts DEF Prior
  <2>2. /\ s.intent = r.st.intent /\ s.order_id = o /\ s.order = row
        /\ s.prior_refunds = Prior(k) /\ s.eligibility = None /\ s.refund_type = None
        /\ s.refund_amount = r.st.refund_amount /\ s.approval = None /\ s.refund_id = None
        /\ s.error = None /\ s \in RefundState
    BY <1>3, <1>4, <1>5, <1>8, <2>1 DEF RefundState
  <2>3. r2.st = s /\ r2.world = both /\ r2.next = AfterLookupNode(v, s) /\ r2.fired = {}
    BY <1>1, <1>4, <1>9, <1>13 DEF Moves, Route
  <2> HIDE DEF s
  <2>4. r2.next = "check_eligibility" /\ Class(s) = c /\ Typed(r2)
    BY <1>1, <1>7, <2>2, <2>3 DEF AfterLookupNode, Class, c, Typed
  <2>5. Holds(s, v, k, c, TRUE, TRUE, FALSE, FALSE)
    BY <1>3, <1>4, <1>5, <2>2 DEF Holds
  <2>6. Checks(v, k, c) /\ ReadCalls(v, k, c) = <<Lookup, History>>
    BY <1>1, <1>13 DEF Checks, Skips, ReadCalls
  <2>7. Before(v, k, s, both)
    BY <1>1, <1>7, <2>2, <1>6, <1>13 DEF Before
  <2> QED
    BY <1>1, <1>7, <2>2, <2>3, <2>4, <2>5, <2>6, <2>7, Checking
<1> QED
  BY <1>10, <1>11, <1>12, <1>13

-----------------------------------------------------------------------------
(* What the marker says of a run that has been through the check. *)
SaysAtCheck(v, k, c) ==
  \/ v \in {"C", "C1", "C2", "M2"}
  \/ v = "M1" /\ Seen(v, k, c.order_id).age = REFUND_WINDOW_DAYS + 1
  \/ v = "M3" /\ OwnRow(k, c.order_id) = None

(* A run that the check does not let through does no more. *)
LEMMA NotCleared ==
  ASSUME NEW v \in PAIRED, NEW k, NEW c, NEW t, Checks(v, k, c), ~Clears(v, k, c)
  PROVE  /\ ~Plans(v, k, c) /\ ~MustAsk(v, k, c, t) /\ ~Pays(v, k, c, t)
         /\ Reads(v, k, c) <=> v # "M2"
         /\ Answers(v, k, c) <=> ~Fails(k, Check)
         /\ Error(v, k, c, t) = IF Fails(k, Check) THEN Check ELSE None
         /\ EndCalls(v, k, c, t) =
              CASE v = "M2" -> <<Lookup, Check>>
                [] v = "V1" /\ Fails(k, Check) -> <<Lookup, History, Check, Check>>
                [] OTHER -> CheckedCalls(v, k, c)
         /\ v = "V1" => (Fires(v, k, c, t) <=> Fails(k, Check))
         /\ v # "V1" => (Fires(v, k, c, t) <=> SaysAtCheck(v, k, c))
<1>1. /\ Asked(c) /\ Found(v, k, c) /\ ~Skips(v, c) /\ ~Fails(k, Lookup) /\ Seen(v, k, c.order_id) # None
      /\ v # "M2" => ~Fails(k, History)
  BY Ladder DEF Checks, Found
<1>2. ~Plans(v, k, c) /\ ~MustAsk(v, k, c, t) /\ ~Goes(v, k, c, t) /\ ~Tries(v, k, c, t) /\ ~Pays(v, k, c, t)
  BY <1>1, Ladder DEF Plans
<1>3. Reads(v, k, c) <=> v # "M2"
  BY <1>1 DEF Reads
<1>4. Answers(v, k, c) <=> ~Fails(k, Check)
  BY DEF Answers
<1>5. v = "alt_history_early" => ~Fails(k, History)
  BY <1>1
<1>6. Error(v, k, c, t) = IF Fails(k, Check) THEN Check ELSE None
  <2>1. CASE v = "M2"
    BY <1>1, <1>2, <2>1 DEF Error
  <2>2. CASE v # "M2"
    BY <1>1, <1>2, <2>2 DEF Error
  <2> QED
    BY <2>1, <2>2
<1>7. EndCalls(v, k, c, t) =
              CASE v = "M2" -> <<Lookup, Check>>
                [] v = "V1" /\ Fails(k, Check) -> <<Lookup, History, Check, Check>>
                [] OTHER -> CheckedCalls(v, k, c)
  <2>1. CASE v = "M2"
    BY <1>1, <2>1 DEF EndCalls
  <2>2. CASE v = "V1"
    BY <1>1, <1>2, <2>2 DEF EndCalls
  <2>3. CASE v \notin {"M2", "V1"}
    BY <1>1, <1>2, <2>3 DEF EndCalls
  <2> QED
    BY <2>1, <2>2, <2>3
<1>8. v = "V1" => (Fires(v, k, c, t) <=> Fails(k, Check))
  BY <1>6, Firing, FourTools
<1>9. v # "V1" => (Fires(v, k, c, t) <=> SaysAtCheck(v, k, c))
  <2>1. CASE v \in {"C", "C1", "C2", "M2"}
    <3>1. Fires(v, k, c, t) /\ SaysAtCheck(v, k, c)
      BY <2>1, Firing DEF SaysAtCheck
    <3> QED
      BY <3>1
  <2>2. CASE v = "M1"
    BY <2>2, Firing DEF SaysAtCheck
  <2>3. CASE v = "M3"
    BY <1>1, <2>3, Firing DEF SaysAtCheck
  <2>4. CASE v \in {"A", "B", "M7", "M4", "M5", "M6", "M8", "V2", "V3"}
    BY <1>1, <1>2, <2>4, Firing DEF SaysAtCheck
  <2>5. CASE v \in {"baseline", "alt_history_early", "alt_recheck", "alt_verify", "V4", "V5", "V6"}
    BY <2>5, Firing DEF SaysAtCheck
  <2> QED
    BY <2>1, <2>2, <2>3, <2>4, <2>5, PairedVariants
<1> QED
  BY <1>2, <1>3, <1>4, <1>6, <1>7, <1>8, <1>9

(* A run that ends at the check is where the table has it. *)
LEMMA CheckStops ==
  ASSUME NEW v \in PAIRED, NEW k, NEW r, NEW c, c = Class(r.st), Typed(r), r.next = "respond", v # "V4",
         Checks(v, k, c), ~Clears(v, k, c), Holds(r.st, v, k, c, TRUE, v # "M2", ~Fails(k, Check), FALSE),
         r.st.refund_type = None, r.st.refund_id = None, r.st.error = IF Fails(k, Check) THEN Check ELSE None,
         r.world.refunds = << >>, r.world.log = LogOf(k, EndCalls(v, k, c, None)),
         v = "V1" => (r.fired # {} <=> Fails(k, Check)), v # "V1" => (r.fired # {} <=> SaysAtCheck(v, k, c))
  PROVE  Typed(r) /\ InTable(v, k, r)
<1>1. Found(v, k, c)
  BY Ladder
<1>2. Ended(r.st, v, k, c)
  BY <1>1, NotCleared DEF Ended, Holds
<1>3. Settled(v, k, r, EndCalls(v, k, c, r.st.refund_type))
  BY NotCleared DEF Settled
<1>4. v \in {"B", "M8"} => r.fired = {}
  BY DEF SaysAtCheck
<1>5. v \notin {"B", "M8", "V4"} => (r.fired # {} <=> Fires(v, k, c, r.st.refund_type))
  BY NotCleared
<1> QED
  BY <1>2, <1>3, <1>4, <1>5, Ends

(* V4 comes to take its plan back where the check does not let it through. *)
LEMMA CheckDiscards ==
  ASSUME NEW v \in PAIRED, NEW k, NEW r, NEW c, c = Class(r.st), Typed(r), r.next = "discard_plan", v = "V4",
         Checks(v, k, c), ~Clears(v, k, c), Holds(r.st, v, k, c, TRUE, TRUE, ~Fails(k, Check), FALSE),
         r.st.refund_id = None, r.st.error = IF Fails(k, Check) THEN Check ELSE None,
         r.world.refunds = << >>, r.world.log = LogOf(k, EndCalls(v, k, c, None)), r.fired = {}
  PROVE  Typed(r) /\ InTable(v, k, r)
<1> DEFINE s == r.st
           s0 == [r.st EXCEPT !.refund_type = None, !.refund_amount = None]
<1>1. /\ s0.intent = s.intent /\ s0.order_id = s.order_id /\ s0.order = s.order
      /\ s0.prior_refunds = s.prior_refunds /\ s0.eligibility = s.eligibility
      /\ s0.refund_type = None /\ s0.refund_amount = None
      /\ s0.approval = s.approval /\ s0.refund_id = s.refund_id /\ s0.error = s.error
  BY DEF Typed, RefundState
<1> HIDE DEF s0
<1>2. Found(v, k, c)
  BY Ladder
<1>3. Ended(s0, v, k, c)
  BY <1>1, <1>2, NotCleared DEF Ended, Holds
<1>4. Settled(v, k, r, EndCalls(v, k, c, None))
  BY NotCleared DEF Settled
<1>5. AtDiscard(v, k, r)
  BY <1>3, <1>4, NotCleared DEF AtDiscard, s0
<1>6. Marking(v, k, r)
  BY DEF Marking
<1> QED
  BY <1>5, <1>6 DEF InTable, Nodes

(* What is known of a run at check_eligibility, w being the world the check is called in. *)
CheckKnown(v, k, r, c, w, calls) ==
  /\ v # "V6" /\ Checks(v, k, c) /\ (v # "V4" => r.st.refund_type = None)
  /\ Holds(r.st, v, k, c, TRUE, v # "M2", FALSE, FALSE)
  /\ r.st.refund_id = None /\ r.st.error = None /\ r.st.order # None
  /\ w \in World /\ w.refunds = << >> /\ w.next_refund = 1 /\ w.log = LogOf(k, calls) /\ calls \in Seq(ToolNames)
  /\ v = "alt_verify" => w.lookups = 1 /\ w.orders = k.orders
  /\ Append(calls, Check) = IF v = "M2" THEN <<Lookup, Check>> ELSE CheckedCalls(v, k, c)
  /\ v = "V1" => Append(calls, Check) = <<Lookup, History, Check>>
  /\ v = "V1" => r.fired = {}
  /\ r.fired \cup MarksOfCheck(v, r) # {} <=> SaysAtCheck(v, k, c)

(* The same when it comes to the eligibility check, after its redundant reads. *)
LEMMA CheckStarts ==
  ASSUME NEW v \in PAIRED, NEW k \in Case, NEW r, Typed(r), InTable(v, k, r), r.next = "check_eligibility"
  PROVE  \E calls : CheckKnown(v, k, r, Class(r.st), RedundantReads(v, k, r), calls)
<1> DEFINE c == Class(r.st)
           w == RedundantReads(v, k, r)
           before == IF v = "M2" THEN <<Lookup>> ELSE ReadCalls(v, k, c)
           calls == IF v \in {"C", "C1"} THEN Append(before, Lookup)
                    ELSE IF v = "C2" THEN Append(before, History) ELSE before
<1>1. AtCheck(v, k, r) /\ Marking(v, k, r) /\ r.st \in RefundState /\ r.world \in World
  BY DEF InTable, Typed
<1>2. c.order_id = r.st.order_id
  BY DEF Class
<1> HIDE DEF c
<1>3. /\ v # "V6" /\ Checks(v, k, c) /\ (v # "V4" => r.st.refund_type = None)
      /\ Holds(r.st, v, k, c, TRUE, v # "M2", FALSE, FALSE) /\ Open(v, k, r, before)
  BY <1>1 DEF AtCheck, c
<1>4. Asked(c) /\ Found(v, k, c) /\ ~Skips(v, c) /\ Seen(v, k, c.order_id) # None
  BY <1>3, Ladder DEF Found
<1>5. r.st.order_id \in OrderIds /\ r.st.order # None
  BY <1>1, <1>2, <1>3, <1>4 DEF Asked, Holds, RefundState
<1>6. /\ r.st.refund_id = None /\ r.st.error = None /\ r.world.refunds = << >> /\ r.world.next_refund = 1
      /\ v = "alt_verify" => r.world.lookups = 1 /\ r.world.orders = k.orders
      /\ r.world.log = LogOf(k, before)
  BY <1>3, <1>5 DEF Open, Before
<1>7. before \in Seq(ToolNames)
  BY ToolLists
<1>8. calls \in Seq(ToolNames)
  BY <1>7, FourTools, AppendProperties
<1>9. v \in {"C", "C1", "C2", "V1"} => before = <<Lookup, History>>
  BY DEF ReadCalls
<1>10. Append(calls, Check) = IF v = "M2" THEN <<Lookup, Check>> ELSE CheckedCalls(v, k, c)
  <2>1. CASE v \in {"C", "C1"}
    <3>1. Append(before, Lookup) = <<Lookup, History, Lookup>>
      <4>1. before = <<Lookup, History>>
        BY <1>9, <2>1
      <4>2. Append(<<Lookup, History>>, Lookup) = <<Lookup, History, Lookup>>
        BY LongerLists, Zenon
      <4> QED
        BY <4>1, <4>2
    <3>2. calls = <<Lookup, History, Lookup>>
      BY <2>1, <3>1
    <3>3. CheckedCalls(v, k, c) = <<Lookup, History, Lookup, Check>>
      BY <1>4, <2>1 DEF CheckedCalls
    <3>4. Append(<<Lookup, History, Lookup>>, Check) = <<Lookup, History, Lookup, Check>>
      BY LongLists, LongerLists, Zenon
    <3> HIDE DEF calls, before
    <3> QED
      BY <2>1, <3>2, <3>3, <3>4
  <2>2. CASE v = "C2"
    <3>1. Append(before, History) = <<Lookup, History, History>>
      <4>1. before = <<Lookup, History>>
        BY <1>9, <2>2
      <4>2. Append(<<Lookup, History>>, History) = <<Lookup, History, History>>
        BY LongerLists, Zenon
      <4> QED
        BY <4>1, <4>2
    <3>2. calls = <<Lookup, History, History>>
      BY <2>2, <3>1
    <3>3. CheckedCalls(v, k, c) = <<Lookup, History, History, Check>>
      BY <1>4, <2>2 DEF CheckedCalls
    <3>4. Append(<<Lookup, History, History>>, Check) = <<Lookup, History, History, Check>>
      BY LongLists, LongerLists, Zenon
    <3> HIDE DEF calls, before
    <3> QED
      BY <2>2, <3>2, <3>3, <3>4
  <2>3. CASE v = "M2"
    <3>1. calls = <<Lookup>> /\ Append(<<Lookup>>, Check) = <<Lookup, Check>>
      <4>1. Append(<<Lookup>>, Check) = <<Lookup, Check>>
        BY ShortLists, Zenon
      <4>2. calls = <<Lookup>>
        BY <2>3
      <4> QED
        BY <4>1, <4>2
    <3> QED
      BY <2>3, <3>1
  <2>4. CASE v = "alt_history_early"
    <3>1. calls = <<History, Lookup>> /\ Append(<<History, Lookup>>, Check) = <<History, Lookup, Check>>
      <4>1. Append(<<History, Lookup>>, Check) = <<History, Lookup, Check>>
        BY LongerLists, Zenon
      <4>2. calls = <<History, Lookup>>
        BY <2>4 DEF ReadCalls
      <4> QED
        BY <4>1, <4>2
    <3>2. CheckedCalls(v, k, c) = <<History, Lookup, Check>>
      BY <1>4, <2>4 DEF CheckedCalls
    <3> QED
      BY <2>4, <3>1, <3>2
  <2>5. CASE v = "M3" /\ OwnRow(k, c.order_id) = None
    <3>1. calls = <<Lookup, Lookup, History>> /\ Append(<<Lookup, Lookup, History>>, Check) = <<Lookup, Lookup, History, Check>>
      <4>1. Append(<<Lookup, Lookup, History>>, Check) = <<Lookup, Lookup, History, Check>>
        BY LongLists, Zenon
      <4>2. calls = <<Lookup, Lookup, History>>
        BY <2>5 DEF ReadCalls
      <4> QED
        BY <4>1, <4>2
    <3>2. CheckedCalls(v, k, c) = <<Lookup, Lookup, History, Check>>
      BY <1>4, <2>5 DEF CheckedCalls
    <3> QED
      BY <2>5, <3>1, <3>2
  <2>6. CASE v \notin {"C", "C1", "C2", "M2", "alt_history_early"} /\ ~(v = "M3" /\ OwnRow(k, c.order_id) = None)
    <3>1. calls = <<Lookup, History>> /\ Append(<<Lookup, History>>, Check) = <<Lookup, History, Check>>
      <4>1. Append(<<Lookup, History>>, Check) = <<Lookup, History, Check>>
        BY LongerLists, Zenon
      <4>2. calls = <<Lookup, History>>
        BY <2>6 DEF ReadCalls
      <4> QED
        BY <4>1, <4>2
    <3>2. CheckedCalls(v, k, c) = <<Lookup, History, Check>>
      BY <1>4, <2>6 DEF CheckedCalls
    <3> QED
      BY <2>6, <3>1, <3>2
  <2> QED
    BY <2>1, <2>2, <2>3, <2>4, <2>5, <2>6
<1>11. v = "V1" => Append(calls, Check) = <<Lookup, History, Check>>
  <2>1. v = "V1" => CheckedCalls(v, k, c) = <<Lookup, History, Check>>
    BY <1>4 DEF CheckedCalls
  <2> HIDE DEF calls
  <2> QED
    BY <1>10, <2>1
<1>12. /\ w \in World /\ w.refunds = << >> /\ w.next_refund = 1 /\ w.log = LogOf(k, calls)
       /\ v \notin {"C", "C1"} => w.lookups = r.world.lookups /\ w.orders = r.world.orders
  <2> HIDE DEF before
  <2>1. CASE v \in {"C", "C1"}
    <3>1. w = AfterLookup(r.world, k, r.st.order_id) /\ calls = Append(before, Lookup)
      BY <2>1 DEF RedundantReads
    <3> HIDE DEF w, calls
    <3> QED
      BY <1>1, <1>5, <1>6, <1>7, <2>1, <3>1, LookupCall
  <2>2. CASE v = "C2"
    <3>1. w = Logged(r.world, k, History) /\ calls = Append(before, History)
      BY <2>2 DEF RedundantReads
    <3>2. OnlyLogged(k, r.world, Logged(r.world, k, History), before, History)
      BY <1>1, <1>6, <1>7, ReadLogs, FourTools
    <3> HIDE DEF w, calls
    <3> QED
      BY <1>6, <3>1, <3>2 DEF OnlyLogged
  <2>3. CASE v \notin {"C", "C1", "C2"}
    BY <1>1, <1>6, <2>3 DEF RedundantReads
  <2> QED
    BY <2>1, <2>2, <2>3
<1>13. v # "M3" => r.fired = {}
  <2>1. v \notin {"A", "M3"} => "check_eligibility" \in Unmarked(v)
    BY DEF Unmarked, ToCheck, Nodes
  <2>2. v = "A" => ~Fires(v, k, c, r.st.refund_type) /\ "check_eligibility" \notin Unmarked(v)
    BY <1>4, Firing DEF Unmarked
  <2> QED
    BY <1>1, <2>1, <2>2 DEF Marking, c
<1>14. v = "M3" => (r.fired # {} <=> OwnRow(k, c.order_id) = None)
  <2>1. v = "M3" => "check_eligibility" \notin Unmarked(v) /\ ~Fails(k, Lookup)
    BY <1>4 DEF Unmarked, Found
  <2> QED
    BY <1>1, <1>4, <2>1, Firing DEF Marking, c
<1>15. r.fired \cup MarksOfCheck(v, r) # {} <=> SaysAtCheck(v, k, c)
  <2>1. MarksOfCheck(v, r) # {} <=> v \in {"C", "C1", "C2", "M2"} \/ (v = "M1" /\ r.st.order.age = REFUND_WINDOW_DAYS + 1)
    BY DEF MarksOfCheck
  <2>2. r.st.order = Seen(v, k, c.order_id)
    BY <1>3 DEF Holds
  <2> QED
    BY <1>13, <1>14, <2>1, <2>2 DEF SaysAtCheck
<1>16. v = "alt_verify" => w.lookups = 1 /\ w.orders = k.orders
  BY <1>6, <1>12
<1>17. v = "V1" => r.fired = {}
  BY <1>13
<1> HIDE DEF calls, w
<1>18. CheckKnown(v, k, r, c, w, calls)
  BY <1>3, <1>5, <1>6, <1>8, <1>10, <1>11, <1>12, <1>15, <1>16, <1>17 DEF CheckKnown
<1> QED
  BY <1>18 DEF c, w

(* check_eligibility, when the tool fails. *)
LEMMA FailsCheckTable ==
  ASSUME NEW v \in PAIRED, NEW k \in Case, NEW r, NEW r2, Typed(r), InTable(v, k, r), FailsCheck(v, k, r, r2)
  PROVE  Typed(r2) /\ InTable(v, k, r2)
<1> DEFINE c == Class(r.st)
           w == RedundantReads(v, k, r)
           s == [r.st EXCEPT !.error = Check]
<1>1. /\ r.next = "check_eligibility" /\ Fails(k, Check)
      /\ Moves(v, r, r2, s, FailedRead(v, k, w, Check), MarksOfCheck(v, r) \cup Retries(v))
  BY DEF FailsCheck
<1>2. PICK calls : CheckKnown(v, k, r, c, w, calls)
  BY <1>1, CheckStarts
<1>3. r.st \in RefundState
  BY DEF Typed
<1> HIDE DEF w
<1>4. /\ v # "V6" /\ Checks(v, k, c) /\ (v # "V4" => r.st.refund_type = None)
      /\ Holds(r.st, v, k, c, TRUE, v # "M2", FALSE, FALSE) /\ r.st.refund_id = None
      /\ w \in World /\ w.refunds = << >> /\ w.log = LogOf(k, calls) /\ calls \in Seq(ToolNames)
      /\ Append(calls, Check) = IF v = "M2" THEN <<Lookup, Check>> ELSE CheckedCalls(v, k, c)
      /\ v = "V1" => Append(calls, Check) = <<Lookup, History, Check>>
      /\ v = "V1" => r.fired = {}
      /\ r.fired \cup MarksOfCheck(v, r) # {} <=> SaysAtCheck(v, k, c)
  BY <1>2 DEF CheckKnown
<1>5. /\ s.intent = r.st.intent /\ s.order_id = r.st.order_id /\ s.order = r.st.order
      /\ s.prior_refunds = r.st.prior_refunds /\ s.eligibility = r.st.eligibility
      /\ s.refund_type = r.st.refund_type /\ s.refund_amount = r.st.refund_amount
      /\ s.approval = r.st.approval /\ s.refund_id = None /\ s.error = Check /\ s \in RefundState
  BY <1>3, <1>4, FourTools DEF RefundState, Errors
<1>6. r2.next = IF v = "V4" THEN "discard_plan" ELSE "respond"
  BY <1>1, <1>5, FourTools DEF Moves, Route, AfterEligibility
<1>7. /\ r2.st = s /\ r2.world = FailedRead(v, k, w, Check)
      /\ r2.fired = r.fired \cup MarksOfCheck(v, r) \cup Retries(v)
  <2>1. RouteMarks(v, r.next, s) = {}
    BY <1>1, RouterMarks
  <2> QED
    BY <1>1, <2>1 DEF Moves
<1> HIDE DEF s
<1>8. Class(s) = c
  BY <1>5 DEF Class
<1> HIDE DEF c
<1>9. ~Clears(v, k, c)
  BY <1>1, Ladder DEF Answers
<1>10. /\ r2.world \in World /\ r2.world.refunds = << >> /\ r2.world.log = LogOf(k, EndCalls(v, k, c, None))
  <2> DEFINE w1 == Logged(w, k, Check)
             more == Append(calls, Check)
  <2>1. OnlyLogged(k, w, w1, calls, Check)
    BY <1>4, ReadLogs, FourTools
  <2>2. more \in Seq(ToolNames)
    BY <1>4, FourTools, AppendProperties
  <2>3. r2.world = IF v = "V1" THEN Logged(w1, k, Check) ELSE w1
    BY <1>7 DEF FailedRead
  <2> HIDE DEF w1
  <2>4. w1 \in World /\ w1.refunds = << >> /\ w1.log = LogOf(k, more)
    BY <1>4, <2>1 DEF OnlyLogged
  <2>5. CASE v = "V1"
    <3>1. EndCalls(v, k, c, None) = <<Lookup, History, Check, Check>>
      BY <1>1, <1>4, <1>9, <2>5, NotCleared
    <3>2. more = <<Lookup, History, Check>> /\ Append(<<Lookup, History, Check>>, Check) = <<Lookup, History, Check, Check>>
      <4>1. more = <<Lookup, History, Check>>
        BY <1>4, <2>5
      <4>2. Append(<<Lookup, History, Check>>, Check) = <<Lookup, History, Check, Check>>
        BY LongLists, Zenon
      <4> QED
        BY <4>1, <4>2
    <3> HIDE DEF more
    <3>3. OnlyLogged(k, w1, Logged(w1, k, Check), more, Check)
      BY <2>2, <2>4, ReadLogs, FourTools
    <3>4. Append(more, Check) = EndCalls(v, k, c, None)
      BY <3>1, <3>2
    <3> QED
      BY <2>3, <2>4, <2>5, <3>3, <3>4 DEF OnlyLogged
  <2>6. CASE v # "V1"
    <3>1. EndCalls(v, k, c, None) = more
      BY <1>1, <1>4, <1>9, <2>6, NotCleared
    <3> HIDE DEF more
    <3> QED
      BY <2>3, <2>4, <2>6, <3>1
  <2> QED
    BY <2>5, <2>6
<1>11. Typed(r2)
  BY <1>5, <1>7, <1>10 DEF Typed
<1>12. Holds(s, v, k, c, TRUE, v # "M2", FALSE, FALSE)
  BY <1>4, <1>5 DEF Holds
<1>13. v = "V1" => r2.fired # {}
  BY <1>7 DEF Retries
<1>14. v # "V1" => (r2.fired # {} <=> SaysAtCheck(v, k, c))
  BY <1>4, <1>7 DEF Retries
<1>15. ~Fails(k, Check) <=> FALSE
  BY <1>1
<1>16. Holds(s, v, k, c, TRUE, v # "M2", ~Fails(k, Check), FALSE)
  BY <1>12, <1>15 DEF Holds
<1>17. CASE v # "V4"
  BY <1>1, <1>4, <1>5, <1>6, <1>7, <1>8, <1>9, <1>10, <1>11, <1>13, <1>14, <1>16, <1>17, CheckStops
<1>18. CASE v = "V4"
  <2>1. r2.fired = {}
    BY <1>14, <1>18 DEF SaysAtCheck
  <2>2. Holds(s, v, k, c, TRUE, TRUE, ~Fails(k, Check), FALSE)
    BY <1>16, <1>18 DEF Holds
  <2> QED
    BY <1>1, <1>4, <1>5, <1>6, <1>7, <1>8, <1>9, <1>10, <1>11, <1>18, <2>1, <2>2, CheckDiscards
<1> QED
  BY <1>17, <1>18

(* check_eligibility, when it answers. *)
LEMMA AnswersCheckTable ==
  ASSUME NEW v \in PAIRED, NEW k \in Case, NEW r, NEW r2, Typed(r), InTable(v, k, r), AnswersCheck(v, k, r, r2)
  PROVE  Typed(r2) /\ InTable(v, k, r2)
<1> DEFINE c == Class(r.st)
           w == RedundantReads(v, k, r)
           prior == IF v = "M2" /\ r.st.prior_refunds = None THEN 0 ELSE r.st.prior_refunds
           window == IF v = "M1" THEN REFUND_WINDOW_DAYS + 1 ELSE REFUND_WINDOW_DAYS
           verdict == Eligibility(r.st.order, prior, window)
           s == [r.st EXCEPT !.eligibility = verdict]
<1>1. /\ r.next = "check_eligibility" /\ ~Fails(k, Check)
      /\ Moves(v, r, r2, s, Logged(w, k, Check), MarksOfCheck(v, r))
  BY DEF AnswersCheck
<1>2. PICK calls : CheckKnown(v, k, r, c, w, calls)
  BY <1>1, CheckStarts
<1>3. r.st \in RefundState
  BY DEF Typed
<1> HIDE DEF w
<1>4. /\ v # "V6" /\ Checks(v, k, c) /\ (v # "V4" => r.st.refund_type = None)
      /\ Holds(r.st, v, k, c, TRUE, v # "M2", FALSE, FALSE)
      /\ r.st.refund_id = None /\ r.st.error = None /\ r.st.order # None
      /\ w \in World /\ w.refunds = << >> /\ w.next_refund = 1 /\ w.log = LogOf(k, calls) /\ calls \in Seq(ToolNames)
      /\ v = "alt_verify" => w.lookups = 1 /\ w.orders = k.orders
      /\ Append(calls, Check) = IF v = "M2" THEN <<Lookup, Check>> ELSE CheckedCalls(v, k, c)
      /\ v = "V1" => r.fired = {}
      /\ r.fired \cup MarksOfCheck(v, r) # {} <=> SaysAtCheck(v, k, c)
  BY <1>2 DEF CheckKnown
<1>5. verdict = Verdict(v, k, c) /\ verdict \in Reasons
  <2>1. r.st.order = Seen(v, k, c.order_id) /\ r.st.prior_refunds = IF v # "M2" THEN Prior(k) ELSE None
    BY <1>4 DEF Holds
  <2>2. prior = IF v = "M2" THEN 0 ELSE Prior(k)
    BY <2>1
  <2> QED
    BY <2>1, <2>2, EligibilityType DEF Verdict
<1> HIDE DEF verdict
<1>6. /\ s.intent = r.st.intent /\ s.order_id = r.st.order_id /\ s.order = r.st.order
      /\ s.prior_refunds = r.st.prior_refunds /\ s.eligibility = verdict
      /\ s.refund_type = r.st.refund_type /\ s.refund_amount = r.st.refund_amount
      /\ s.approval = r.st.approval /\ s.refund_id = None /\ s.error = None /\ s \in RefundState
  BY <1>3, <1>4, <1>5 DEF RefundState
<1>7. /\ r2.st = s /\ r2.world = Logged(w, k, Check) /\ r2.next = AfterEligibility(v, s)
      /\ r2.fired = r.fired \cup MarksOfCheck(v, r)
  <2>1. RouteMarks(v, r.next, s) = {}
    BY <1>1, RouterMarks
  <2> QED
    BY <1>1, <2>1 DEF Moves, Route
<1> HIDE DEF s
<1>8. Class(s) = c
  BY <1>6 DEF Class
<1> HIDE DEF c
<1>9. ~EntersFastPath(v, s)
  BY DEF EntersFastPath, PAIRED, CHANGES
<1>10. Answers(v, k, c) /\ (Clears(v, k, c) <=> verdict = "within policy")
  BY <1>1, <1>4, <1>5 DEF Answers, Clears
<1>11. /\ r2.world \in World /\ r2.world.refunds = << >> /\ r2.world.next_refund = 1
       /\ v = "alt_verify" => r2.world.lookups = 1 /\ r2.world.orders = k.orders
       /\ r2.world.log = LogOf(k, Append(calls, Check))
  <2>1. OnlyLogged(k, w, Logged(w, k, Check), calls, Check)
    BY <1>4, ReadLogs, FourTools
  <2> DEFINE w1 == Logged(w, k, Check)
  <2>2. r2.world = w1 /\ OnlyLogged(k, w, w1, calls, Check)
    BY <1>7, <2>1
  <2> HIDE DEF w1
  <2> QED
    BY <1>4, <2>2 DEF OnlyLogged
<1>12. Typed(r2) /\ Before(v, k, s, r2.world)
  BY <1>4, <1>6, <1>7, <1>11 DEF Typed, Before
<1>13. Holds(s, v, k, c, TRUE, v # "M2", TRUE, FALSE)
  BY <1>4, <1>5, <1>6 DEF Holds
<1>14. r2.fired # {} <=> SaysAtCheck(v, k, c)
  BY <1>4, <1>7
<1>15. CASE ~Clears(v, k, c)
  <2>1. r2.next = IF v = "V4" THEN "discard_plan" ELSE "respond"
    BY <1>6, <1>7, <1>9, <1>10, <1>15 DEF AfterEligibility
  <2>2. EndCalls(v, k, c, None) = Append(calls, Check)
    BY <1>1, <1>4, <1>15, NotCleared
  <2>3. Holds(s, v, k, c, TRUE, v # "M2", ~Fails(k, Check), FALSE)
    BY <1>1, <1>13 DEF Holds
  <2>4. v = "V1" => r2.fired = {}
    BY <1>14 DEF SaysAtCheck
  <2>5. CASE v # "V4"
    BY <1>1, <1>4, <1>6, <1>7, <1>8, <1>11, <1>12, <1>14, <1>15, <2>1, <2>2, <2>3, <2>4, <2>5, CheckStops
  <2>6. CASE v = "V4"
    <3>1. Holds(s, v, k, c, TRUE, TRUE, ~Fails(k, Check), FALSE)
      BY <2>3, <2>6 DEF Holds
    <3>2. r2.fired = {}
      BY <1>14, <2>6 DEF SaysAtCheck
    <3> QED
      BY <1>1, <1>4, <1>6, <1>7, <1>8, <1>11, <1>12, <1>15, <2>1, <2>2, <2>6, <3>1, <3>2, CheckDiscards
  <2> QED
    BY <2>5, <2>6
<1>16. CASE Clears(v, k, c) /\ v = "M2"
  <2>1. r2.next = "get_refund_history" /\ s.refund_type = None
    BY <1>4, <1>6, <1>7, <1>10, <1>16 DEF AfterEligibility
  <2>2. Holds(s, v, k, c, TRUE, FALSE, TRUE, FALSE)
    BY <1>13, <1>16 DEF Holds
  <2>3. r2.fired # {} /\ Fires(v, k, c, s.refund_type)
    BY <1>4, <1>14, <1>16, Firing DEF SaysAtCheck
  <2>4. Marking(v, k, r2)
    BY <1>7, <1>8, <1>16, <2>1, <2>3 DEF Marking, Unmarked
  <2>5. AtHistory(v, k, r2)
    <3>1. Asked(c) /\ Found(v, k, c)
      BY <1>4, Ladder
    <3>2. r2.world.log = LogOf(k, <<Lookup, Check>>)
      BY <1>4, <1>11, <1>16
    <3>3. Open(v, k, r2, <<Lookup, Check>>)
      BY <1>7, <1>12, <3>2 DEF Open
    <3> QED
      BY <1>7, <1>8, <1>16, <2>1, <2>2, <3>1, <3>3 DEF AtHistory
  <2> QED
    BY <1>12, <2>1, <2>4, <2>5 DEF InTable, Nodes
<1>17. CASE Clears(v, k, c) /\ v # "M2"
  <2>1. Plans(v, k, c)
    <3>1. Asked(c) /\ Found(v, k, c) /\ ~Fails(k, History)
      BY <1>4, <1>17, Ladder DEF Checks
    <3> QED
      BY <1>17, <3>1 DEF Plans, Reads
  <2>2. Holds(s, v, k, c, TRUE, TRUE, Answers(v, k, c), FALSE)
    BY <1>10, <1>13, <1>17 DEF Holds
  <2>3. r2.world.log = LogOf(k, CheckedCalls(v, k, c))
    BY <1>4, <1>11, <1>17
  <2>4. CASE s.refund_type = None
    <3>1. r2.next = "compute_refund"
      <4>1. s.refund_amount = None
        BY <2>2, <2>4 DEF Holds
      <4> QED
        BY <1>6, <1>7, <1>10, <1>17, <4>1 DEF AfterEligibility
    <3>2. v \in EARLY_MARKED => (r2.fired # {} <=> Fires(v, k, c, None))
      <4>1. ~Skips(v, c) /\ Asked(c) /\ ~Fails(k, Lookup)
        BY <1>4, Ladder DEF Checks, Found
      <4>2. CASE v \in {"C", "C1", "C2", "M2"}
        BY <1>4, <1>14, <4>2, Firing DEF SaysAtCheck
      <4>3. CASE v = "M1"
        BY <1>4, <1>14, <4>3, Firing DEF SaysAtCheck
      <4>4. CASE v = "M3"
        BY <1>14, <4>1, <4>4, Firing DEF SaysAtCheck
      <4>5. CASE v = "A"
        BY <1>14, <4>1, <4>5, Firing DEF SaysAtCheck
      <4> QED
        BY <4>2, <4>3, <4>4, <4>5 DEF EARLY_MARKED
    <3>3. v \notin EARLY_MARKED => r2.fired = {}
      BY <1>14 DEF SaysAtCheck, EARLY_MARKED
    <3> QED
      BY <1>7, <1>8, <1>12, <2>1, <2>2, <2>3, <2>4, <3>1, <3>2, <3>3, Planning
  <2>5. CASE s.refund_type # None
    <3> DEFINE t == s.refund_type
    <3>1. v = "V4" /\ t \in RefundTypes /\ s.refund_amount = Amount(v, k, c, t) /\ s.refund_amount # None
      <4>1. v = "V4"
        BY <1>4, <1>6, <2>5
      <4>2. t \in RefundTypes /\ s.refund_amount = Amount(v, k, c, t)
        BY <1>6, <2>2, <2>5 DEF Holds, RefundState
      <4>3. Seen(v, k, c.order_id) \in OrderRow
        BY <1>4, <1>6, <2>2 DEF Holds, RefundState
      <4>4. Amount(v, k, c, t) \in Nat
        BY <4>3, AmountType DEF Amount, OrderRow
      <4> QED
        BY <4>1, <4>2, <4>4, NoneAssumption
    <3>2. r2.next = IF s.refund_amount > APPROVAL_THRESHOLD THEN "request_approval" ELSE "issue_refund"
      <4>1. s.eligibility # None
        BY <1>5, <1>6, NoneAssumption
      <4>2. s.error = None /\ s.eligibility = "within policy"
        BY <1>6, <1>10, <1>17
      <4>3. AfterEligibility(v, s) = AfterCompute(v, s)
        BY <3>1, <4>2 DEF AfterEligibility
      <4> QED
        BY <1>7, <3>1, <4>1, <4>3 DEF AfterCompute
    <3>3. r2.fired = {} /\ Marking(v, k, r2)
      BY <1>14, <3>1 DEF SaysAtCheck, Marking
    <3>4. PlannedCalls(v, k, c) = CheckedCalls(v, k, c)
      BY <3>1 DEF PlannedCalls
    <3>5. Open(v, k, r2, PlannedCalls(v, k, c))
      BY <1>7, <1>12, <2>3, <3>4 DEF Open
    <3>6. CASE s.refund_amount > APPROVAL_THRESHOLD
      <4>1. AtApproval(v, k, r2)
        BY <1>7, <1>8, <2>1, <2>2, <3>1, <3>2, <3>5, <3>6 DEF AtApproval, MustAsk
      <4> QED
        BY <1>12, <3>2, <3>3, <3>6, <4>1 DEF InTable, Nodes
    <3>7. CASE ~(s.refund_amount > APPROVAL_THRESHOLD)
      <4>1. ~MustAsk(v, k, c, t) /\ Goes(v, k, c, t)
        BY <2>1, <3>1, <3>7 DEF MustAsk, Goes
      <4>2. Holds(s, v, k, c, TRUE, TRUE, Answers(v, k, c), MustAsk(v, k, c, t))
        BY <2>2, <4>1 DEF Holds
      <4>3. AtIssue(v, k, r2)
        BY <1>7, <1>8, <3>1, <3>2, <3>5, <3>7, <4>1, <4>2 DEF AtIssue
      <4> QED
        BY <1>12, <3>2, <3>3, <3>7, <4>3 DEF InTable, Nodes
    <3> QED
      BY <3>6, <3>7
  <2> QED
    BY <2>4, <2>5
<1> QED
  BY <1>15, <1>16, <1>17

-----------------------------------------------------------------------------
(* V6 reads and checks in one node. *)
LEMMA PassesGateTable ==
  ASSUME NEW v \in PAIRED, NEW k \in Case, NEW r, NEW r2, Typed(r), InTable(v, k, r), PassesGate(v, k, r, r2)
  PROVE  Typed(r2) /\ InTable(v, k, r2)
<1> DEFINE c == Class(r.st)
           o == r.st.order_id
           looked == AfterLookup(r.world, k, o)
           row == SelectOrder(looked, o, TRUE)
           counted == Logged(looked, k, History)
           history == RefundHistory(looked, k)
           checked == Logged(counted, k, Check)
           e == IF Fails(k, Lookup) THEN Lookup ELSE "no_order"
           verdict == Eligibility(row, history, REFUND_WINDOW_DAYS)
<1>1. r.next = "gate" /\ r.st \in RefundState /\ r.world \in World /\ c.order_id = o
  BY DEF PassesGate, Typed, Class
<1>2. AtGate(v, k, r) /\ Marking(v, k, r)
  BY <1>1 DEF InTable
<1>3. /\ \/ /\ ~(~Fails(k, Lookup) /\ row # None)
            /\ Moves(v, r, r2, [r.st EXCEPT !.error = e], looked, {})
         \/ /\ ~Fails(k, Lookup) /\ row # None /\ Fails(k, History)
            /\ Moves(v, r, r2, [r.st EXCEPT !.order = row, !.error = History], counted, {})
         \/ /\ ~Fails(k, Lookup) /\ row # None /\ ~Fails(k, History) /\ Fails(k, Check)
            /\ Moves(v, r, r2, [r.st EXCEPT !.order = row, !.prior_refunds = history, !.error = Check], checked, {})
         \/ /\ ~Fails(k, Lookup) /\ row # None /\ ~Fails(k, History) /\ ~Fails(k, Check)
            /\ Moves(v, r, r2, [r.st EXCEPT !.order = row, !.prior_refunds = history, !.eligibility = verdict], checked, {})
  BY DEF PassesGate
<1>4. /\ v = "V6" /\ Asked(c) /\ r.st.refund_type = None
      /\ Holds(r.st, v, k, c, FALSE, FALSE, FALSE, FALSE) /\ Open(v, k, r, << >>)
  BY <1>2 DEF AtGate
<1>5. /\ r.st.order = None /\ r.st.prior_refunds = None /\ r.st.eligibility = None /\ r.st.approval = None
      /\ r.st.refund_id = None /\ r.st.error = None /\ r.world.refunds = << >> /\ r.world.next_refund = 1
      /\ r.world.lookups = 0 /\ r.world.orders = k.orders /\ r.world.log = LogOf(k, << >>)
  BY <1>4 DEF Holds, Open, Before
<1>6. r.fired = {}
  BY <1>1, <1>2, <1>4 DEF Marking, Unmarked, Nodes
<1>7. o \in OrderIds
  BY <1>1, <1>4 DEF Asked, RefundState
<1> HIDE DEF c
<1>8. /\ looked \in World /\ looked.refunds = << >> /\ looked.next_refund = 1 /\ looked.orders = k.orders
      /\ looked.log = LogOf(k, <<Lookup>>)
  <2> DEFINE none == << >>
  <2>1. none \in Seq(ToolNames) /\ r.world.log = LogOf(k, none)
    BY <1>5, ToolLists
  <2>2. Append(none, Lookup) = <<Lookup>>
    BY ShortLists, LongerLists, Zenon
  <2>3. Repriced(r.world, k, o) = k.orders
    BY <1>5 DEF Repriced
  <2> HIDE DEF none
  <2>4. LookedUp(k, r.world, looked, none, o)
    BY <1>1, <1>7, <2>1, LookupLogs
  <2> HIDE DEF looked
  <2> QED
    BY <1>5, <2>2, <2>3, <2>4 DEF LookedUp
<1> HIDE DEF looked
<1>9. row = Seen(v, k, o) /\ row \in OrderRow \cup {None}
  BY <1>4, <1>7, <1>8, OneLookup
<1>10. history = Prior(k) /\ Prior(k) \in Nat
  BY <1>8, HistoryFacts DEF Prior
<1>11. Found(v, k, c) <=> ~Fails(k, Lookup) /\ row # None
  BY <1>1, <1>4, <1>9 DEF Found
<1>12. counted \in World /\ counted.refunds = << >> /\ counted.next_refund = 1 /\ counted.log = LogOf(k, <<Lookup, History>>)
  <2> DEFINE one == <<Lookup>>
  <2>1. one \in Seq(ToolNames) /\ looked.log = LogOf(k, one)
    BY <1>8, ToolLists
  <2>2. Append(one, History) = <<Lookup, History>>
    BY ShortLists, LongerLists, Zenon
  <2> HIDE DEF one
  <2>3. OnlyLogged(k, looked, counted, one, History)
    BY <1>8, <2>1, ReadLogs, FourTools
  <2> HIDE DEF counted
  <2> QED
    BY <1>8, <2>2, <2>3 DEF OnlyLogged
<1> HIDE DEF counted
<1>13. checked \in World /\ checked.refunds = << >> /\ checked.next_refund = 1 /\ checked.log = LogOf(k, <<Lookup, History, Check>>)
  <2> DEFINE two == <<Lookup, History>>
  <2>1. two \in Seq(ToolNames) /\ counted.log = LogOf(k, two)
    BY <1>12, FourTools
  <2>2. Append(two, Check) = <<Lookup, History, Check>>
    BY ShortLists, LongerLists, Zenon
  <2> HIDE DEF two
  <2>3. OnlyLogged(k, counted, checked, two, Check)
    BY <1>12, <2>1, ReadLogs, FourTools
  <2> HIDE DEF checked
  <2> QED
    BY <1>12, <2>2, <2>3 DEF OnlyLogged
<1> HIDE DEF row, history, checked
<1>14. \A s : RouteMarks(v, r.next, s) = {}
  BY <1>1, <1>4, RouterMarks
<1>15. CASE /\ ~(~Fails(k, Lookup) /\ row # None)
            /\ Moves(v, r, r2, [r.st EXCEPT !.error = e], looked, {})
  <2> DEFINE s == [r.st EXCEPT !.error = e]
  <2>1. s.error # None
    <3>1. s.error = e
      BY <1>1 DEF RefundState
    <3> QED
      BY <3>1, FourTools
  <2>2. r2.st = s /\ r2.world = looked /\ r2.next = AfterGate(s) /\ r2.fired = {}
    BY <1>1, <1>6, <1>14, <1>15 DEF Moves, Route
  <2>3. r2.next = "respond" /\ r2.st = [r.st EXCEPT !.error = e]
    BY <2>1, <2>2 DEF AfterGate
  <2> HIDE DEF s
  <2>4. ~Fires(v, k, c, None) /\ LookedCalls(v, k, c) = <<Lookup>>
    BY <1>4, Firing DEF LookedCalls
  <2>5. r2.world \in World /\ r2.world.refunds = << >> /\ r2.world.log = LogOf(k, LookedCalls(v, k, c))
    BY <1>8, <2>2, <2>4
  <2>6. c = Class(r.st) /\ Holds(r.st, v, k, c, FALSE, v = "alt_history_early", FALSE, FALSE)
    BY <1>4 DEF c
  <2>7. ~Found(v, k, c) /\ (v = "alt_history_early" => Reads(v, k, c)) /\ (r2.fired # {} <=> Fires(v, k, c, None))
    BY <1>4, <1>11, <1>15, <2>2, <2>4
  <2> HIDE DEF e
  <2> QED
    BY <1>1, <1>4, <1>5, <2>3, <2>5, <2>6, <2>7, LookupStops DEF e
<1>16. CASE /\ ~Fails(k, Lookup) /\ row # None /\ Fails(k, History)
            /\ Moves(v, r, r2, [r.st EXCEPT !.order = row, !.error = History], counted, {})
  <2> DEFINE s == [r.st EXCEPT !.order = row, !.error = History]
  <2>1. /\ s.intent = r.st.intent /\ s.order_id = o /\ s.order = row
        /\ s.prior_refunds = None /\ s.eligibility = None /\ s.refund_type = None
        /\ s.refund_amount = r.st.refund_amount /\ s.approval = None /\ s.refund_id = None
        /\ s.error = History
    BY <1>1, <1>4, <1>5 DEF RefundState
  <2>6. s \in RefundState
    <3>1. r.st \in RefundState /\ History \in Errors /\ row \in OrderRow \cup {None}
      BY <1>1, <1>9, FourTools DEF Errors
    <3> QED
      BY <3>1 DEF RefundState
  <2>2. r2.st = s /\ r2.world = counted /\ r2.next = AfterGate(s) /\ r2.fired = {}
    BY <1>1, <1>6, <1>14, <1>16 DEF Moves, Route
  <2> HIDE DEF s
  <2>3. r2.next = "respond" /\ Class(s) = c /\ Typed(r2)
    BY <1>12, <2>1, <2>2, <2>6, FourTools DEF AfterGate, Class, c, Typed
  <2>4. Holds(s, v, k, c, TRUE, FALSE, FALSE, FALSE)
    BY <1>1, <1>4, <1>9, <2>1 DEF Holds
  <2>5. EndCalls(v, k, c, None) = <<Lookup, History>>
    BY <1>4, <1>11, <1>16, Unread DEF ReadCalls
  <2> QED
    BY <1>4, <1>11, <1>12, <1>16, <2>1, <2>2, <2>3, <2>4, <2>5, HistoryStops
<1>17. ASSUME ~Fails(k, Lookup), row # None, ~Fails(k, History)
       PROVE  /\ Checks(v, k, c) /\ ~SaysAtCheck(v, k, c) /\ CheckedCalls(v, k, c) = <<Lookup, History, Check>>
              /\ ~Clears(v, k, c) => EndCalls(v, k, c, None) = <<Lookup, History, Check>>
  <2>1. Checks(v, k, c)
    BY <1>4, <1>11, <1>17 DEF Checks, Skips
  <2>2. CheckedCalls(v, k, c) = <<Lookup, History, Check>>
    BY <1>4 DEF CheckedCalls, Skips
  <2> QED
    BY <1>4, <2>1, <2>2, NotCleared DEF SaysAtCheck
<1>18. CASE /\ ~Fails(k, Lookup) /\ row # None /\ ~Fails(k, History) /\ Fails(k, Check)
            /\ Moves(v, r, r2, [r.st EXCEPT !.order = row, !.prior_refunds = history, !.error = Check], checked, {})
  <2> DEFINE s == [r.st EXCEPT !.order = row, !.prior_refunds = history, !.error = Check]
  <2>1. /\ s.intent = r.st.intent /\ s.order_id = o /\ s.order = row
        /\ s.prior_refunds = history /\ s.eligibility = None /\ s.refund_type = None
        /\ s.refund_amount = r.st.refund_amount /\ s.approval = None /\ s.refund_id = None
        /\ s.error = Check
    BY <1>1, <1>4, <1>5 DEF RefundState
  <2>7. s \in RefundState
    BY <1>1, <1>9, <1>10, FourTools, ZenonT(60) DEF RefundState, Errors
  <2>2. r2.st = s /\ r2.world = checked /\ r2.next = AfterGate(s) /\ r2.fired = {}
    BY <1>1, <1>6, <1>14, <1>18 DEF Moves, Route
  <2> HIDE DEF s
  <2>3. r2.next = "respond" /\ Class(s) = c /\ Typed(r2)
    BY <1>13, <2>1, <2>2, <2>7, FourTools DEF AfterGate, Class, c, Typed
  <2>4. ~Clears(v, k, c)
    BY <1>18, Ladder DEF Answers
  <2>5. Holds(s, v, k, c, TRUE, v # "M2", ~Fails(k, Check), FALSE)
    BY <1>1, <1>4, <1>9, <1>10, <1>18, <2>1 DEF Holds
  <2>6. r2.world.refunds = << >> /\ r2.world.log = LogOf(k, EndCalls(v, k, c, None))
    BY <1>13, <1>17, <1>18, <2>2, <2>4
  <2> QED
    BY <1>4, <1>17, <1>18, <2>1, <2>2, <2>3, <2>4, <2>5, <2>6, CheckStops
<1>19. CASE /\ ~Fails(k, Lookup) /\ row # None /\ ~Fails(k, History) /\ ~Fails(k, Check)
            /\ Moves(v, r, r2, [r.st EXCEPT !.order = row, !.prior_refunds = history, !.eligibility = verdict], checked, {})
  <2> DEFINE s == [r.st EXCEPT !.order = row, !.prior_refunds = history, !.eligibility = verdict]
  <2>1. verdict = Verdict(v, k, c) /\ verdict \in Reasons
    BY <1>1, <1>4, <1>9, <1>10, EligibilityType DEF Verdict
  <2> HIDE DEF verdict
  <2>2. /\ s.intent = r.st.intent /\ s.order_id = o /\ s.order = row
        /\ s.prior_refunds = history /\ s.eligibility = verdict /\ s.refund_type = None
        /\ s.refund_amount = r.st.refund_amount /\ s.approval = None /\ s.refund_id = None
        /\ s.error = None
    BY <1>1, <1>4, <1>5 DEF RefundState
  <2>9. s \in RefundState
    BY <1>1, <1>9, <1>10, <2>1, ZenonT(60) DEF RefundState
  <2>3. r2.st = s /\ r2.world = checked /\ r2.next = AfterGate(s) /\ r2.fired = {}
    BY <1>1, <1>6, <1>14, <1>19 DEF Moves, Route
  <2> HIDE DEF s
  <2>4. Class(s) = c /\ Typed(r2)
    BY <1>13, <2>2, <2>3, <2>9 DEF Class, c, Typed
  <2>5. Holds(s, v, k, c, TRUE, TRUE, TRUE, FALSE)
    BY <1>1, <1>4, <1>9, <1>10, <2>1, <2>2 DEF Holds
  <2>6. Answers(v, k, c) /\ (Clears(v, k, c) <=> verdict = "within policy")
    BY <1>17, <1>19, <2>1 DEF Answers, Clears
  <2>7. CASE verdict # "within policy"
    <3>1. r2.next = "respond"
      BY <2>2, <2>3, <2>7 DEF AfterGate
    <3>2. Holds(s, v, k, c, TRUE, v # "M2", ~Fails(k, Check), FALSE)
      BY <1>4, <1>19, <2>5 DEF Holds
    <3>3. r2.world.refunds = << >> /\ r2.world.log = LogOf(k, EndCalls(v, k, c, None)) /\ ~Clears(v, k, c)
      BY <1>13, <1>17, <1>19, <2>3, <2>6, <2>7
    <3> QED
      BY <1>4, <1>17, <1>19, <2>2, <2>3, <2>4, <3>1, <3>2, <3>3, CheckStops
  <2>8. CASE verdict = "within policy"
    <3>1. r2.next = "compute_refund"
      BY <2>2, <2>3, <2>8 DEF AfterGate
    <3>2. Plans(v, k, c)
      BY <1>4, <1>19, <2>6, <2>8, Ladder DEF Plans, Reads
    <3>3. Holds(s, v, k, c, TRUE, TRUE, Answers(v, k, c), FALSE)
      BY <2>5, <2>6 DEF Holds
    <3>4. Before(v, k, s, r2.world) /\ r2.world.log = LogOf(k, CheckedCalls(v, k, c))
      BY <1>4, <1>13, <1>17, <1>19, <2>2, <2>3 DEF Before
    <3> QED
      BY <1>4, <2>2, <2>3, <2>4, <3>1, <3>2, <3>3, <3>4, Planning DEF EARLY_MARKED
  <2> QED
    BY <2>7, <2>8
<1> QED
  BY <1>3, <1>15, <1>16, <1>18, <1>19

(* V4 takes back a plan that was not due. *)
LEMMA DiscardsTable ==
  ASSUME NEW v \in PAIRED, NEW k \in Case, NEW r, NEW r2, Typed(r), InTable(v, k, r), Discards(v, k, r, r2)
  PROVE  Typed(r2) /\ InTable(v, k, r2)
<1> DEFINE c == Class(r.st)
           s == [r.st EXCEPT !.refund_type = None, !.refund_amount = None]
<1>1. r.next = "discard_plan" /\ r2.st = s /\ r2.world = r.world /\ r2.next = "respond"
  BY DEF Discards, Moves, Route
<1>2. AtDiscard(v, k, r) /\ r.st \in RefundState /\ r.world \in World
  BY <1>1 DEF InTable, Typed
<1>3. /\ v = "V4" /\ ~Plans(v, k, c) /\ Ended(s, v, k, c) /\ Settled(v, k, r, EndCalls(v, k, c, None))
  BY <1>2 DEF AtDiscard
<1>4. /\ s \in RefundState /\ s.intent = r.st.intent /\ s.order_id = r.st.order_id /\ s.refund_type = None
  BY <1>2 DEF RefundState
<1> HIDE DEF s
<1>5. Class(s) = c
  BY <1>4 DEF Class
<1> HIDE DEF c
<1>6. Settled(v, k, r2, EndCalls(v, k, c, s.refund_type))
  <2>1. ~Pays(v, k, c, s.refund_type) /\ ~Pays(v, k, c, r.st.refund_type)
    BY <1>3, Ladder
  <2> QED
    BY <1>1, <1>3, <1>4, <1>5, <2>1 DEF Settled, c
<1>7. Typed(r2)
  BY <1>1, <1>2, <1>4 DEF Typed
<1> QED
  BY <1>1, <1>3, <1>5, <1>6, <1>7, Ends

-----------------------------------------------------------------------------
(* A run that has planned a refund that is due is where the table has it. *)
LEMMA Planned ==
  ASSUME NEW v \in PAIRED, NEW k, NEW r, NEW c, NEW t \in RefundTypes, c = Class(r.st), t = r.st.refund_type, Typed(r),
         Plans(v, k, c), Holds(r.st, v, k, c, TRUE, TRUE, Answers(v, k, c), FALSE),
         Open(v, k, r, PlannedCalls(v, k, c)),
         r.next = IF v = "V5" THEN "authorize_and_issue"
                  ELSE IF Amount(v, k, c, t) > APPROVAL_THRESHOLD THEN "request_approval" ELSE "issue_refund",
         v \in EARLY_MARKED \cup {"M5"} => (r.fired # {} <=> Fires(v, k, c, t)),
         v \notin EARLY_MARKED \cup {"M5"} => r.fired = {}
  PROVE  Typed(r) /\ InTable(v, k, r)
<1>1. MustAsk(v, k, c, t) <=> Amount(v, k, c, t) > APPROVAL_THRESHOLD
  BY DEF MustAsk
<1>2. r.next \in {"authorize_and_issue", "request_approval", "issue_refund"}
  OBVIOUS
<1>3. v \notin EARLY_MARKED \cup {"M5", "M4", "V4"} => r.next \in Unmarked(v)
  BY <1>2, PairedVariants DEF Unmarked, EARLY_MARKED, Nodes
<1>4. v = "M4" => r.next \in Unmarked(v) \/ ~Fires(v, k, c, t)
  <2>1. v = "M4" /\ ~MustAsk(v, k, c, t) => ~Fires(v, k, c, t)
    BY Firing
  <2>2. v = "M4" => "request_approval" \in Unmarked(v)
    BY DEF Unmarked
  <2> QED
    BY <1>1, <2>1, <2>2
<1>5. v \in EARLY_MARKED \cup {"M5"} => r.next \notin Unmarked(v)
  BY <1>2 DEF Unmarked, EARLY_MARKED, ToCheck
<1>6. v = "V4" => v \notin EARLY_MARKED \cup {"M5"}
  BY DEF EARLY_MARKED
<1>7. Marking(v, k, r)
  BY <1>3, <1>4, <1>5, <1>6 DEF Marking
<1>8. CASE r.next = "issue_refund"
  <2>1. v # "V5" /\ ~MustAsk(v, k, c, t)
    BY <1>1, <1>8
  <2>2. Goes(v, k, c, t)
    BY <2>1 DEF Goes
  <2>3. Holds(r.st, v, k, c, TRUE, TRUE, Answers(v, k, c), MustAsk(v, k, c, t))
    BY <2>1 DEF Holds
  <2> QED
    BY <1>7, <1>8, <2>1, <2>2, <2>3 DEF InTable, AtIssue, Nodes
<1>9. CASE r.next = "request_approval"
  <2>1. v # "V5" /\ MustAsk(v, k, c, t)
    BY <1>1, <1>9
  <2> QED
    BY <1>7, <1>9, <2>1 DEF InTable, AtApproval, Nodes
<1>10. CASE r.next = "authorize_and_issue"
  <2>1. v = "V5"
    BY <1>10
  <2> QED
    BY <1>7, <1>10, <2>1 DEF InTable, AtApproval, Nodes
<1> QED
  BY <1>2, <1>8, <1>9, <1>10

(* The order of a run that has found it. *)
LEMMA FoundOrder ==
  ASSUME NEW v, NEW k, NEW c, NEW t, NEW s \in RefundState, Found(v, k, c), s.order = Seen(v, k, c.order_id)
  PROVE  /\ s.order # None /\ s.order \in OrderRow /\ s.order.price \in Nat
         /\ Amount(v, k, c, t) = AmountOf(v, t, s.order.price) /\ Amount(v, k, c, t) \in Nat
<1>1. s.order # None /\ s.order \in OrderRow
  BY DEF Found, RefundState
<1>2. s.order.price \in Nat
  BY <1>1 DEF OrderRow
<1>3. Amount(v, k, c, t) = AmountOf(v, t, s.order.price)
  BY DEF Amount, AmountOf
<1> QED
  BY <1>1, <1>2, <1>3, AmountType DEF AmountOf

(* V4 comes to plan before the history is read. *)
LEMMA Speculating ==
  ASSUME NEW v \in PAIRED, NEW k, NEW r, NEW c, c = Class(r.st), Typed(r), v = "V4", r.next = "get_refund_history",
         Found(v, k, c), Holds(r.st, v, k, c, TRUE, FALSE, FALSE, FALSE), Open(v, k, r, <<Lookup>>), r.fired = {}
  PROVE  Typed(r) /\ InTable(v, k, r)
<1>1. Asked(c)
  BY Ladder
<1>2. LookedCalls(v, k, c) = <<Lookup>>
  BY DEF LookedCalls
<1>3. AtHistory(v, k, r)
  BY <1>1, <1>2 DEF AtHistory
<1>4. Marking(v, k, r)
  BY DEF Marking
<1> QED
  BY <1>3, <1>4 DEF InTable, Nodes

(* What is known of a run at compute_refund: V4 has not been through the check, or a refund is due. *)
LEMMA ComputeStarts ==
  ASSUME NEW v \in PAIRED, NEW k \in Case, NEW r, NEW c, c = Class(r.st),
         Typed(r), InTable(v, k, r), r.next = "compute_refund"
  PROVE  /\ r.st.refund_type = None /\ Found(v, k, c)
         /\ \/ /\ v = "V4" /\ r.st.eligibility = None
               /\ Holds(r.st, v, k, c, TRUE, FALSE, FALSE, FALSE) /\ Open(v, k, r, <<Lookup>>)
            \/ /\ v = "V4" => r.st.eligibility # None
               /\ Plans(v, k, c) /\ Holds(r.st, v, k, c, TRUE, TRUE, Answers(v, k, c), FALSE)
               /\ Open(v, k, r, CheckedCalls(v, k, c))
<1>1. AtCompute(v, k, r)
  BY DEF InTable
<1>2. CASE /\ v = "V4" /\ Found(v, k, c)
           /\ Holds(r.st, v, k, c, TRUE, FALSE, FALSE, FALSE) /\ Open(v, k, r, <<Lookup>>)
  BY <1>1, <1>2 DEF AtCompute, Holds
<1>3. CASE /\ Plans(v, k, c)
           /\ Holds(r.st, v, k, c, TRUE, TRUE, Answers(v, k, c), FALSE)
           /\ Open(v, k, r, CheckedCalls(v, k, c))
  <2>1. v = "V4" => r.st.eligibility = Verdict(v, k, c)
    <3>1. v = "V4" => Answers(v, k, c)
      BY <1>3, Ladder DEF Plans, Skips
    <3> QED
      BY <1>3, <3>1 DEF Holds
  <2>2. Verdict(v, k, c) # None
    BY EligibilityType, NoneAssumption DEF Verdict
  <2> QED
    BY <1>1, <1>3, <2>1, <2>2, Ladder DEF AtCompute
<1> QED
  BY <1>1, <1>2, <1>3 DEF AtCompute

(* compute_refund, when the model answers. *)
LEMMA ComputesTable ==
  ASSUME NEW v \in PAIRED, NEW k \in Case, NEW r, NEW r2, Typed(r), InTable(v, k, r), Computes(v, k, r, r2)
  PROVE  Typed(r2) /\ InTable(v, k, r2)
<1> PICK t \in RefundTypes :
      Moves(v, r, r2, [r.st EXCEPT !.refund_type = t, !.refund_amount = AmountOf(v, t, r.st.order.price)],
            Reread(v, k, r, {"C"}),
            Redundant(v) \cup (IF AmountOf(v, t, r.st.order.price) # RefundAmount(t, r.st.order.price)
                               THEN {"M5:amount_truncated"} ELSE {}))
  BY DEF Computes
<1> DEFINE c == Class(r.st)
           a == AmountOf(v, t, r.st.order.price)
           s == [r.st EXCEPT !.refund_type = t, !.refund_amount = a]
           marks == Redundant(v) \cup (IF a # RefundAmount(t, r.st.order.price) THEN {"M5:amount_truncated"} ELSE {})
           w == Reread(v, k, r, {"C"})
<1>1. r.next = "compute_refund" /\ r.st \in RefundState /\ r.world \in World /\ c.order_id = r.st.order_id
  BY DEF Computes, Typed, Class
<1>2. Marking(v, k, r)
  BY DEF InTable
<1> HIDE DEF c
<1>3. /\ r.st.refund_type = None /\ Found(v, k, c)
      /\ \/ /\ v = "V4" /\ r.st.eligibility = None
            /\ Holds(r.st, v, k, c, TRUE, FALSE, FALSE, FALSE) /\ Open(v, k, r, <<Lookup>>)
         \/ /\ v = "V4" => r.st.eligibility # None
            /\ Plans(v, k, c) /\ Holds(r.st, v, k, c, TRUE, TRUE, Answers(v, k, c), FALSE)
            /\ Open(v, k, r, CheckedCalls(v, k, c))
  BY <1>1, ComputeStarts DEF c
<1>4. r.st.order = Seen(v, k, c.order_id)
  BY <1>3 DEF Holds
<1>5. r.st.order # None /\ a = Amount(v, k, c, t) /\ a \in Nat
  BY <1>1, <1>3, <1>4, FoundOrder
<1> HIDE DEF a
<1>6. /\ s.intent = r.st.intent /\ s.order_id = r.st.order_id /\ s.order = r.st.order
      /\ s.prior_refunds = r.st.prior_refunds /\ s.eligibility = r.st.eligibility
      /\ s.refund_type = t /\ s.refund_amount = a
      /\ s.approval = r.st.approval /\ s.refund_id = r.st.refund_id /\ s.error = r.st.error
  BY <1>1 DEF RefundState
<1>7. s \in RefundState
  BY <1>1, <1>5 DEF RefundState
<1>8. r2.st = s /\ r2.world = w /\ r2.next = AfterCompute(v, s) /\ r2.fired = r.fired \cup marks
  <2>1. Moves(v, r, r2, s, w, marks)
    BY DEF a
  <2>2. RouteMarks(v, r.next, s) = {}
    BY <1>1, RouterMarks
  <2> HIDE DEF s, w, marks
  <2>3. Route(v, r.next, s) = AfterCompute(v, s)
    BY <1>1 DEF Route
  <2> QED
    BY <2>1, <2>2, <2>3 DEF Moves
<1> HIDE DEF s
<1>9. Class(s) = c
  BY <1>6 DEF Class, c
<1>10. t # None
  BY NoneAssumption
<1>11. Holds(s, v, k, c, TRUE, FALSE, FALSE, FALSE) <=> Holds(r.st, v, k, c, TRUE, FALSE, FALSE, FALSE)
  <2>1. Holds(r.st, v, k, c, TRUE, FALSE, FALSE, FALSE) => Holds(s, v, k, c, TRUE, FALSE, FALSE, FALSE)
    BY <1>5, <1>6, <1>10 DEF Holds
  <2> QED
    BY <1>3, <1>5, <1>6, <1>10, <2>1 DEF Holds
<1>12. CASE /\ v = "V4" /\ r.st.eligibility = None
            /\ Holds(r.st, v, k, c, TRUE, FALSE, FALSE, FALSE) /\ Open(v, k, r, <<Lookup>>)
  <2>1. w = r.world /\ marks = {}
    BY <1>12 DEF Reread, Redundant, AmountOf, a
  <2>2. r2.next = "get_refund_history"
    BY <1>6, <1>8, <1>12 DEF AfterCompute
  <2>3. r.fired = {}
    BY <1>1, <1>2, <1>12 DEF Marking, Unmarked, Nodes
  <2>4. Open(v, k, r2, <<Lookup>>)
    BY <1>6, <1>8, <1>12, <2>1 DEF Open, Before
  <2>5. Typed(r2)
    BY <1>1, <1>7, <1>8, <2>1 DEF Typed
  <2>6. r2.fired = {}
    BY <1>8, <2>1, <2>3
  <2> HIDE DEF w, marks
  <2> QED
    BY <1>3, <1>8, <1>9, <1>11, <1>12, <2>2, <2>4, <2>5, <2>6, Speculating
<1>13. CASE /\ v = "V4" => r.st.eligibility # None
            /\ Plans(v, k, c) /\ Holds(r.st, v, k, c, TRUE, TRUE, Answers(v, k, c), FALSE)
            /\ Open(v, k, r, CheckedCalls(v, k, c))
  <2>1. Holds(s, v, k, c, TRUE, TRUE, Answers(v, k, c), FALSE)
    BY <1>5, <1>6, <1>10, <1>13 DEF Holds
  <2>2. r2.next = IF v = "V5" THEN "authorize_and_issue"
                  ELSE IF Amount(v, k, c, t) > APPROVAL_THRESHOLD THEN "request_approval" ELSE "issue_refund"
    BY <1>5, <1>6, <1>8, <1>13 DEF AfterCompute
  <2>3. /\ r.st.refund_id = None /\ r.st.error = None /\ r.world.refunds = << >> /\ r.world.next_refund = 1
        /\ v = "alt_verify" => r.world.lookups = 1 /\ r.world.orders = k.orders
        /\ r.world.log = LogOf(k, CheckedCalls(v, k, c))
    BY <1>5, <1>13 DEF Open, Before
  <2>4. CheckedCalls(v, k, c) \in Seq(ToolNames) /\ r.st.order_id \in OrderIds
    BY <1>1, <1>3, ToolLists, Ladder DEF Asked, RefundState
  <2>5. /\ w \in World /\ w.refunds = << >> /\ w.next_refund = 1
        /\ v = "alt_verify" => w.lookups = 1 /\ w.orders = k.orders
        /\ w.log = LogOf(k, PlannedCalls(v, k, c))
    <3>1. CASE v = "C"
      <4> DEFINE before == CheckedCalls(v, k, c)
      <4>1. w = AfterLookup(r.world, k, r.st.order_id) /\ PlannedCalls(v, k, c) = Append(before, Lookup)
        BY <3>1 DEF Reread, PlannedCalls
      <4> HIDE DEF before, w
      <4>2. LookedUp(k, r.world, w, before, r.st.order_id)
        BY <1>1, <2>3, <2>4, <4>1, LookupLogs DEF before
      <4> QED
        BY <2>3, <3>1, <4>1, <4>2 DEF LookedUp
    <3>2. CASE v # "C"
      <4>1. w = r.world /\ PlannedCalls(v, k, c) = CheckedCalls(v, k, c)
        BY <3>2 DEF Reread, PlannedCalls
      <4> QED
        BY <1>1, <2>3, <4>1
    <3> QED
      BY <3>1, <3>2
  <2> HIDE DEF w
  <2>6. Open(v, k, r2, PlannedCalls(v, k, c))
    BY <1>5, <1>6, <1>8, <2>3, <2>5 DEF Open, Before
  <2>7. Typed(r2)
    BY <1>7, <1>8, <2>5 DEF Typed
  <2>8. v \notin EARLY_MARKED => r.fired = {}
    BY <1>1, <1>2, PairedVariants DEF Marking, Unmarked, EARLY_MARKED, ToCheck, Nodes
  <2>9. v \in EARLY_MARKED => (r.fired # {} <=> Fires(v, k, c, None))
    BY <1>1, <1>2, <1>3 DEF Marking, Unmarked, EARLY_MARKED, ToCheck, c
  <2>10. v \in EARLY_MARKED => (Fires(v, k, c, None) <=> Fires(v, k, c, t))
    BY DEF Fires, EARLY_MARKED
  <2>11. /\ marks # {} => v \in {"C", "M5"}
         /\ v = "M5" => (marks # {} <=> TruncatedAmount(t, r.st.order.price) # RefundAmount(t, r.st.order.price))
    BY DEF Redundant, AmountOf, a
  <2> HIDE DEF marks
  <2>12. v \in EARLY_MARKED \cup {"M5"} => (r2.fired # {} <=> Fires(v, k, c, t))
    <3>1. CASE v = "M5"
      <4>1. v \notin EARLY_MARKED
        BY <3>1 DEF EARLY_MARKED
      <4> QED
        BY <1>4, <1>8, <1>13, <2>8, <2>11, <3>1, <4>1, Firing
    <3>2. CASE v = "C"
      <4>1. Fires(v, k, c, t) /\ Checks(v, k, c)
        BY <1>13, <3>2, Firing, Ladder DEF Plans, Skips
      <4>2. v \in EARLY_MARKED
        BY <3>2 DEF EARLY_MARKED
      <4> QED
        BY <1>8, <2>9, <2>10, <4>1, <4>2
    <3>3. CASE v \notin {"C", "M5"}
      BY <1>8, <2>9, <2>10, <2>11, <3>3
    <3> QED
      BY <3>1, <3>2, <3>3
  <2>13. v \notin EARLY_MARKED \cup {"M5"} => r2.fired = {}
    BY <1>8, <2>8, <2>11 DEF EARLY_MARKED
  <2> QED
    BY <1>6, <1>8, <1>9, <1>13, <2>1, <2>2, <2>6, <2>7, <2>12, <2>13, Planned
<1> QED
  BY <1>3, <1>12, <1>13

(* V4 goes on when the model does not answer. *)
LEMMA SpeculatesTable ==
  ASSUME NEW v \in PAIRED, NEW k \in Case, NEW r, NEW r2, Typed(r), InTable(v, k, r), Speculates(v, k, r, r2)
  PROVE  Typed(r2) /\ InTable(v, k, r2)
<1> DEFINE c == Class(r.st)
<1>1. r.next = "compute_refund" /\ v = "V4" /\ r.st.eligibility = None /\ Moves(v, r, r2, r.st, r.world, {})
  BY DEF Speculates
<1>2. Found(v, k, c) /\ Holds(r.st, v, k, c, TRUE, FALSE, FALSE, FALSE) /\ Open(v, k, r, <<Lookup>>)
  BY <1>1, ComputeStarts
<1>3. r2.st = r.st /\ r2.world = r.world /\ r2.next = "get_refund_history" /\ r2.fired = r.fired
  <2>1. RouteMarks(v, r.next, r.st) = {}
    BY <1>1, RouterMarks
  <2> QED
    BY <1>1, <2>1 DEF Moves, Route, AfterCompute
<1>4. r.fired = {}
  BY <1>1 DEF InTable, Marking, Unmarked, Nodes
<1>5. Open(v, k, r2, <<Lookup>>) /\ Typed(r2)
  BY <1>2, <1>3 DEF Open, Typed
<1> QED
  BY <1>1, <1>2, <1>3, <1>4, <1>5, Speculating

-----------------------------------------------------------------------------
(* What is left to say of a run in which a refund is due. *)
LEMMA DuePlan ==
  ASSUME NEW v \in PAIRED, NEW k, NEW c, NEW t, Plans(v, k, c)
  PROVE  /\ Asked(c) /\ Found(v, k, c) /\ Reads(v, k, c) /\ (~Skips(v, c) => Clears(v, k, c) /\ Checks(v, k, c))
         /\ ~Fails(k, Lookup) /\ ~Fails(k, History)
         /\ Error(v, k, c, t) = IF Goes(v, k, c, t) /\ Stale(v, k, c) THEN "order_changed"
                                ELSE IF Tries(v, k, c, t) /\ Fails(k, Issue) THEN Issue ELSE None
         /\ EndCalls(v, k, c, t) = IF ~Goes(v, k, c, t) THEN PlannedCalls(v, k, c)
                                   ELSE IF ~Tries(v, k, c, t) THEN WriteCalls(v, k, c)
                                   ELSE TriedCalls(v, k, c)
<1>1. /\ Asked(c) /\ Found(v, k, c) /\ Reads(v, k, c) /\ (~Skips(v, c) => Clears(v, k, c) /\ Checks(v, k, c))
  BY Ladder DEF Plans
<1>2. ~Fails(k, Lookup) /\ ~Fails(k, History) /\ Seen(v, k, c.order_id) # None
  BY <1>1 DEF Found, Reads
<1>3. ~(Checks(v, k, c) /\ Fails(k, Check))
  <2>1. Clears(v, k, c) => ~Fails(k, Check)
    BY DEF Clears, Answers
  <2>2. Checks(v, k, c) => ~Skips(v, c)
    BY Ladder
  <2> QED
    BY <1>1, <2>1, <2>2
<1>4. Error(v, k, c, t) = IF Goes(v, k, c, t) /\ Stale(v, k, c) THEN "order_changed"
                          ELSE IF Tries(v, k, c, t) /\ Fails(k, Issue) THEN Issue ELSE None
  BY <1>1, <1>2, <1>3 DEF Error
<1>5. v \in {"V1", "M2"} => ~Skips(v, c)
  BY DEF Skips
<1>6. v = "V1" => ~Fails(k, Check)
  BY <1>1, <1>3, <1>5
<1>7. EndCalls(v, k, c, t) = IF ~Goes(v, k, c, t) THEN PlannedCalls(v, k, c)
                             ELSE IF ~Tries(v, k, c, t) THEN WriteCalls(v, k, c)
                             ELSE TriedCalls(v, k, c)
  BY <1>1, <1>2, <1>5, <1>6 DEF EndCalls
<1> QED
  BY <1>1, <1>2, <1>4, <1>7

(* A planned refund that ends as the table says is in the table. *)
LEMMA EndsPlanned ==
  ASSUME NEW v \in PAIRED, NEW k, NEW r, NEW c, NEW t \in RefundTypes, c = Class(r.st), t = r.st.refund_type, Typed(r),
         r.next = "respond", Plans(v, k, c), Holds(r.st, v, k, c, TRUE, TRUE, Answers(v, k, c), MustAsk(v, k, c, t)),
         r.st.refund_id = IF Pays(v, k, c, t) THEN 1 ELSE None, r.st.error = Error(v, k, c, t),
         Settled(v, k, r, EndCalls(v, k, c, t)),
         v \in {"B", "M8"} => r.fired = {},
         v \notin {"B", "M8", "V4"} => (r.fired # {} <=> Fires(v, k, c, t))
  PROVE  Typed(r) /\ InTable(v, k, r)
<1>1. Found(v, k, c) /\ Reads(v, k, c) /\ t # None
  BY Ladder, NoneAssumption
<1>2. Ended(r.st, v, k, c)
  BY <1>1 DEF Ended, Holds
<1> QED
  BY <1>2, Ends

(* What the markers say between the plan and the write. *)
LEMMA PlanMarks ==
  ASSUME NEW v \in PAIRED, NEW k, NEW r, NEW c, NEW t, c = Class(r.st), t = r.st.refund_type, Marking(v, k, r),
         r.next \in {"request_approval", "authorize_and_issue", "issue_refund"}
  PROVE  /\ v \in EARLY_MARKED \cup {"M5"} => (r.fired # {} <=> Fires(v, k, c, t))
         /\ v \notin EARLY_MARKED \cup {"M5", "M4"} => r.fired = {}
         /\ v = "M4" /\ r.next = "request_approval" => r.fired = {}
         /\ v = "M4" /\ r.next = "issue_refund" => (r.fired # {} <=> Fires(v, k, c, t))
<1>1. v \in EARLY_MARKED \cup {"M5"} => r.next \notin Unmarked(v) /\ v # "V4"
  BY DEF Unmarked, EARLY_MARKED, ToCheck
<1>2. v \notin EARLY_MARKED \cup {"M5", "M4"} => r.next \in Unmarked(v)
  BY PairedVariants DEF Unmarked, EARLY_MARKED, Nodes
<1>3. v = "M4" => "request_approval" \in Unmarked(v) /\ "issue_refund" \notin Unmarked(v)
  BY DEF Unmarked, ToCheck
<1> QED
  BY <1>1, <1>2, <1>3 DEF Marking

(* What the marker of a variant says of a plan that is not carried out. *)
LEMMA LapsedMarks ==
  ASSUME NEW v \in PAIRED, NEW k, NEW c, NEW t, Plans(v, k, c), ~Goes(v, k, c, t),
         v \notin EARLY_MARKED \cup {"M5", "M4", "B", "M8", "V4"}
  PROVE  ~Fires(v, k, c, t)
<1>1. ~Tries(v, k, c, t) /\ Error(v, k, c, t) = None /\ Found(v, k, c)
  BY DuePlan, Ladder
<1>2. None \notin {Lookup, History, Check}
  BY FourTools
<1> QED
  BY <1>1, <1>2, PairedVariants, Firing DEF EARLY_MARKED

(* A plan that is not carried out ends where the table has it. *)
LEMMA Lapses ==
  ASSUME NEW v \in PAIRED, NEW k, NEW r, NEW r2, NEW c, NEW t \in RefundTypes, c = Class(r2.st), t = r2.st.refund_type,
         Typed(r2), Plans(v, k, c), ~Goes(v, k, c, t), v # "M4",
         Holds(r2.st, v, k, c, TRUE, TRUE, Answers(v, k, c), MustAsk(v, k, c, t)),
         r2.st.refund_id = None, r2.st.error = None, r2.next = "respond",
         r2.world.refunds = << >>, r2.world.log = LogOf(k, PlannedCalls(v, k, c)),
         r2.fired = r.fired,
         v \in EARLY_MARKED \cup {"M5"} => (r.fired # {} <=> Fires(v, k, c, t)),
         v \notin EARLY_MARKED \cup {"M5", "M4"} => r.fired = {}
  PROVE  Typed(r2) /\ InTable(v, k, r2)
<1>1. ~Tries(v, k, c, t) /\ ~Pays(v, k, c, t)
  BY Ladder
<1>2. Error(v, k, c, t) = None /\ EndCalls(v, k, c, t) = PlannedCalls(v, k, c)
  BY <1>1, DuePlan
<1>3. Settled(v, k, r2, EndCalls(v, k, c, t))
  BY <1>1, <1>2 DEF Settled
<1>4. v \in {"B", "M8"} => r2.fired = {}
  BY DEF EARLY_MARKED
<1>5. v \notin {"B", "M8", "V4"} => (r2.fired # {} <=> Fires(v, k, c, t))
  BY LapsedMarks
<1> QED
  BY <1>1, <1>2, <1>3, <1>4, <1>5, EndsPlanned

(* request_approval, when the answer is given. *)
LEMMA ApprovesTable ==
  ASSUME NEW v \in PAIRED, NEW k \in Case, NEW r, NEW r2, Typed(r), InTable(v, k, r), Approves(v, k, r, r2)
  PROVE  Typed(r2) /\ InTable(v, k, r2)
<1> DEFINE c == Class(r.st)
           t == r.st.refund_type
           s == [r.st EXCEPT !.approval = Given(k)]
<1>1. r.next = "request_approval" /\ r.st \in RefundState /\ r.world \in World /\ Moves(v, r, r2, s, r.world, {})
  BY DEF Approves, Typed
<1>2. AtApproval(v, k, r) /\ Marking(v, k, r)
  BY <1>1 DEF InTable
<1>3. /\ Plans(v, k, c) /\ t \in RefundTypes /\ v # "V5" /\ MustAsk(v, k, c, t)
      /\ Holds(r.st, v, k, c, TRUE, TRUE, Answers(v, k, c), FALSE) /\ Open(v, k, r, PlannedCalls(v, k, c))
  BY <1>1, <1>2 DEF AtApproval
<1>4. Given(k) \in {"approve", "reject"}
  BY DEF Given, Case
<1>5. /\ s.intent = r.st.intent /\ s.order_id = r.st.order_id /\ s.order = r.st.order
      /\ s.prior_refunds = r.st.prior_refunds /\ s.eligibility = r.st.eligibility
      /\ s.refund_type = t /\ s.refund_amount = r.st.refund_amount
      /\ s.approval = Given(k) /\ s.refund_id = r.st.refund_id /\ s.error = r.st.error
  BY <1>1 DEF RefundState
<1>6. s \in RefundState
  BY <1>1, <1>4 DEF RefundState
<1>7. r2.st = s /\ r2.world = r.world /\ r2.next = AfterApproval(v, s) /\ r2.fired = r.fired \cup RouteMarks(v, r.next, s)
  BY <1>1 DEF Moves, Route
<1> HIDE DEF s
<1>8. Class(s) = c /\ Typed(r2)
  BY <1>1, <1>5, <1>6, <1>7 DEF Class, Typed
<1>9. /\ v # "M4" => RouteMarks(v, r.next, s) = {}
      /\ v = "M4" => (RouteMarks(v, r.next, s) # {} <=> Given(k) = "reject")
  BY <1>1, <1>5, RouterMarks
<1>10. Holds(s, v, k, c, TRUE, TRUE, Answers(v, k, c), MustAsk(v, k, c, t))
  BY <1>3, <1>5 DEF Holds
<1>11. Open(v, k, r2, PlannedCalls(v, k, c))
  BY <1>3, <1>5, <1>7 DEF Open, Before
<1>12. /\ v \in EARLY_MARKED \cup {"M5"} => (r.fired # {} <=> Fires(v, k, c, t))
       /\ v \notin EARLY_MARKED \cup {"M5", "M4"} => r.fired = {}
       /\ v = "M4" => r.fired = {}
  BY <1>1, <1>2, PlanMarks
<1> HIDE DEF c, t
<1>13. CASE v = "M4" \/ Given(k) = "approve"
  <2>1. r2.next = "issue_refund"
    BY <1>5, <1>7, <1>13 DEF AfterApproval
  <2>2. Goes(v, k, c, t)
    BY <1>3, <1>13 DEF Goes
  <2>3. AtIssue(v, k, r2)
    BY <1>3, <1>5, <1>7, <1>8, <1>10, <1>11, <2>2 DEF AtIssue
  <2>4. Marking(v, k, r2)
    <3>1. CASE v = "M4"
      <4>1. Fires(v, k, c, t) <=> Given(k) = "reject"
        BY <1>3, <3>1, Firing
      <4>2. "issue_refund" \notin Unmarked(v)
        BY <3>1 DEF Unmarked, ToCheck
      <4> QED
        BY <1>5, <1>7, <1>8, <1>9, <1>12, <2>1, <3>1, <4>1, <4>2 DEF Marking
    <3>2. CASE v \in EARLY_MARKED \cup {"M5"}
      <4>1. "issue_refund" \notin Unmarked(v) /\ v # "M4"
        BY <3>2 DEF Unmarked, EARLY_MARKED, ToCheck
      <4> QED
        BY <1>5, <1>7, <1>8, <1>9, <1>12, <2>1, <3>2, <4>1 DEF Marking
    <3>3. CASE v \notin EARLY_MARKED \cup {"M5", "M4"}
      <4>1. "issue_refund" \in Unmarked(v)
        BY <3>3, PairedVariants DEF Unmarked, EARLY_MARKED, Nodes
      <4> QED
        BY <1>7, <1>9, <1>12, <2>1, <3>3, <4>1 DEF Marking
    <3> QED
      BY <3>1, <3>2, <3>3
  <2> QED
    BY <1>8, <2>1, <2>3, <2>4 DEF InTable, Nodes
<1>14. CASE v # "M4" /\ Given(k) # "approve"
  <2>1. r2.next = "respond"
    BY <1>5, <1>7, <1>14 DEF AfterApproval
  <2>2. ~Goes(v, k, c, t)
    BY <1>3, <1>14 DEF Goes
  <2>3. /\ r2.st.refund_id = None /\ r2.st.error = None /\ r2.world.refunds = << >>
        /\ r2.world.log = LogOf(k, PlannedCalls(v, k, c))
    BY <1>11 DEF Open, Before
  <2>4. r2.fired = r.fired
    BY <1>7, <1>9, <1>14
  <2> QED
    BY <1>3, <1>5, <1>7, <1>8, <1>10, <1>12, <1>14, <2>1, <2>2, <2>3, <2>4, Lapses
<1> QED
  BY <1>13, <1>14

(* V5 is refused the refund. *)
LEMMA RefusesTable ==
  ASSUME NEW v \in PAIRED, NEW k \in Case, NEW r, NEW r2, Typed(r), InTable(v, k, r), Refuses(v, k, r, r2)
  PROVE  Typed(r2) /\ InTable(v, k, r2)
<1> DEFINE c == Class(r.st)
           t == r.st.refund_type
           s == [r.st EXCEPT !.approval = Given(k)]
<1>1. /\ r.next = "authorize_and_issue" /\ r.st \in RefundState /\ r.world \in World /\ Moves(v, r, r2, s, r.world, {})
      /\ r.st.refund_amount > APPROVAL_THRESHOLD /\ Given(k) = "reject"
  BY DEF Refuses, Typed
<1>2. AtApproval(v, k, r) /\ Marking(v, k, r)
  BY <1>1 DEF InTable
<1>3. /\ Plans(v, k, c) /\ t \in RefundTypes /\ v = "V5"
      /\ Holds(r.st, v, k, c, TRUE, TRUE, Answers(v, k, c), FALSE) /\ Open(v, k, r, PlannedCalls(v, k, c))
  BY <1>1, <1>2 DEF AtApproval
<1>4. MustAsk(v, k, c, t) /\ ~Goes(v, k, c, t)
  <2>1. r.st.refund_amount = Amount(v, k, c, t)
    BY <1>3, NoneAssumption DEF Holds
  <2> QED
    BY <1>1, <1>3, <2>1 DEF MustAsk, Goes
<1>5. /\ s.intent = r.st.intent /\ s.order_id = r.st.order_id /\ s.order = r.st.order
      /\ s.prior_refunds = r.st.prior_refunds /\ s.eligibility = r.st.eligibility
      /\ s.refund_type = t /\ s.refund_amount = r.st.refund_amount
      /\ s.approval = Given(k) /\ s.refund_id = r.st.refund_id /\ s.error = r.st.error
  BY <1>1 DEF RefundState
<1>6. s \in RefundState
  BY <1>1 DEF RefundState
<1>7. r2.st = s /\ r2.world = r.world /\ r2.next = "respond" /\ r2.fired = r.fired
  <2> HIDE DEF s
  <2>1. RouteMarks(v, r.next, s) = {}
    BY <1>1, RouterMarks
  <2> QED
    BY <1>1, <2>1 DEF Moves, Route
<1> HIDE DEF s
<1>8. Class(s) = c /\ Typed(r2)
  BY <1>1, <1>5, <1>6, <1>7 DEF Class, Typed
<1>9. Holds(s, v, k, c, TRUE, TRUE, Answers(v, k, c), MustAsk(v, k, c, t))
  BY <1>3, <1>4, <1>5 DEF Holds
<1>10. /\ r2.st.refund_id = None /\ r2.st.error = None /\ r2.world.refunds = << >>
       /\ r2.world.log = LogOf(k, PlannedCalls(v, k, c))
  BY <1>3, <1>5, <1>7 DEF Open, Before
<1>11. /\ v \in EARLY_MARKED \cup {"M5"} => (r.fired # {} <=> Fires(v, k, c, t))
       /\ v \notin EARLY_MARKED \cup {"M5", "M4"} => r.fired = {}
  BY <1>1, <1>2, PlanMarks
<1> HIDE DEF c, t
<1> QED
  BY <1>3, <1>4, <1>5, <1>7, <1>8, <1>9, <1>10, <1>11, Lapses

-----------------------------------------------------------------------------
(* World w2 is w after a call of issue_refund. *)
Wrote(k, w, w2, calls, o, t, a) ==
  /\ w2 \in World /\ w2.log = LogOf(k, Append(calls, Issue))
  /\ Fails(k, Issue) => w2.refunds = w.refunds /\ w2.next_refund = w.next_refund
  /\ ~Fails(k, Issue) => w2.refunds = Append(w.refunds, [id |-> w.next_refund, order |-> o, type |-> t, amount |-> a])

(* A call of issue_refund adds itself to the log, and a row to the ledger unless it fails. *)
LEMMA IssueLogs ==
  ASSUME NEW k \in Case, NEW w \in World, NEW o \in OrderIds, NEW t \in RefundTypes, NEW a \in Nat,
         NEW calls \in Seq(ToolNames), w.log = LogOf(k, calls)
  PROVE  Wrote(k, w, AfterIssue(w, k, o, t, a), calls, o, t, a)
<1> DEFINE l == Logged(w, k, Issue)
           row == [id |-> w.next_refund, order |-> o, type |-> t, amount |-> a]
           w2 == AfterIssue(w, k, o, t, a)
           longer == Append(calls, Issue)
<1>1. OnlyLogged(k, w, l, calls, Issue)
  BY ReadLogs, FourTools
<1> HIDE DEF l
<1>2. l \in World /\ l.log = LogOf(k, longer) /\ l.refunds = w.refunds /\ l.next_refund = w.next_refund
  BY <1>1 DEF OnlyLogged
<1>3. w2 \in World
  BY IssueFacts
<1>4. Fails(k, Issue) => w2 = l
  BY DEF AfterIssue, l, Issue
<1>5. ~Fails(k, Issue) => w2 = [l EXCEPT !.refunds = Append(@, row), !.next_refund = @ + 1]
  BY DEF AfterIssue, l, Issue
<1> HIDE DEF row, w2, longer
<1>6. ~Fails(k, Issue) => w2.refunds = Append(w.refunds, row) /\ w2.log = l.log
  BY <1>2, <1>5 DEF World
<1>7. /\ w2 \in World /\ w2.log = LogOf(k, longer)
      /\ Fails(k, Issue) => w2.refunds = w.refunds /\ w2.next_refund = w.next_refund
      /\ ~Fails(k, Issue) => w2.refunds = Append(w.refunds, row)
  BY <1>2, <1>3, <1>4, <1>6
<1> QED
  BY <1>7 DEF Wrote, w2, row, longer

(* A write that comes first. *)
LEMMA FirstWrite ==
  ASSUME NEW x
  PROVE  Append(<< >>, x) = <<x>>
OBVIOUS

(* V5 is authorized, or need not be, and writes. *)
LEMMA AuthorizesTable ==
  ASSUME NEW v \in PAIRED, NEW k \in Case, NEW r, NEW r2, Typed(r), InTable(v, k, r), Authorizes(v, k, r, r2)
  PROVE  Typed(r2) /\ InTable(v, k, r2)
<1> DEFINE c == Class(r.st)
           t == r.st.refund_type
           a == r.st.refund_amount
           asks == a > APPROVAL_THRESHOLD
           given == IF asks THEN [r.st EXCEPT !.approval = Given(k)] ELSE r.st
           s == IF Fails(k, Issue) THEN [given EXCEPT !.error = Issue] ELSE [given EXCEPT !.refund_id = r.world.next_refund]
           w == AfterIssue(r.world, k, r.st.order_id, t, a)
<1>1. /\ r.next = "authorize_and_issue" /\ r.st \in RefundState /\ r.world \in World /\ Moves(v, r, r2, s, w, {})
      /\ asks => Given(k) = "approve"
  BY DEF Authorizes, Typed
<1>2. AtApproval(v, k, r) /\ Marking(v, k, r)
  BY <1>1 DEF InTable
<1>3. /\ Plans(v, k, c) /\ t \in RefundTypes /\ v = "V5"
      /\ Holds(r.st, v, k, c, TRUE, TRUE, Answers(v, k, c), FALSE) /\ Open(v, k, r, PlannedCalls(v, k, c))
  BY <1>1, <1>2 DEF AtApproval
<1>4. Found(v, k, c) /\ c.order_id = r.st.order_id /\ Asked(c)
  BY <1>3, Ladder DEF Class
<1>5. r.st.order_id \in OrderIds
  BY <1>1, <1>4 DEF Asked, RefundState
<1>6. a = Amount(v, k, c, t) /\ r.st.order = Seen(v, k, c.order_id) /\ r.st.approval = None
  BY <1>3, NoneAssumption DEF Holds
<1>7. a \in Nat
  BY <1>1, <1>4, <1>6, FoundOrder
<1>8. MustAsk(v, k, c, t) <=> asks
  BY <1>3, <1>6 DEF MustAsk
<1>9. Tries(v, k, c, t) /\ Goes(v, k, c, t)
  BY <1>1, <1>3, <1>8 DEF Tries, Goes, Stale
<1>10. /\ r.st.refund_id = None /\ r.st.error = None /\ r.world.refunds = << >> /\ r.world.next_refund = 1
       /\ r.world.log = LogOf(k, PlannedCalls(v, k, c))
  BY <1>3 DEF Open, Before
<1>11. Pays(v, k, c, t) <=> ~Fails(k, Issue)
  BY <1>9 DEF Pays
<1>12. given \in RefundState /\ given.error = None /\ given.refund_id = None
  BY <1>1, <1>10 DEF RefundState
<1>13. /\ given.intent = r.st.intent /\ given.order_id = r.st.order_id /\ given.order = r.st.order
       /\ given.prior_refunds = r.st.prior_refunds /\ given.eligibility = r.st.eligibility
       /\ given.refund_type = t /\ given.refund_amount = a /\ given.approval = IF asks THEN Given(k) ELSE None
  BY <1>1, <1>6 DEF RefundState
<1> HIDE DEF given
<1>14. /\ s.intent = given.intent /\ s.order_id = given.order_id /\ s.order = given.order
       /\ s.prior_refunds = given.prior_refunds /\ s.eligibility = given.eligibility
       /\ s.refund_type = given.refund_type /\ s.refund_amount = given.refund_amount /\ s.approval = given.approval
       /\ s.refund_id = IF Fails(k, Issue) THEN None ELSE 1
       /\ s.error = IF Fails(k, Issue) THEN Issue ELSE None
  BY <1>10, <1>12 DEF RefundState
<1>15. s \in RefundState
  BY <1>10, <1>12, FourTools DEF RefundState, Errors
<1>16. r2.st = s /\ r2.world = w /\ r2.next = "respond" /\ r2.fired = r.fired
  <2> HIDE DEF s, w
  <2>1. RouteMarks(v, r.next, s) = {}
    BY <1>1, RouterMarks
  <2> QED
    BY <1>1, <2>1 DEF Moves, Route
<1> HIDE DEF s
<1>17. Wrote(k, r.world, w, PlannedCalls(v, k, c), r.st.order_id, t, a)
  BY <1>1, <1>3, <1>5, <1>7, <1>10, IssueLogs, ToolLists
<1> HIDE DEF w
<1>18. w \in World /\ w.log = LogOf(k, Append(PlannedCalls(v, k, c), Issue))
  BY <1>17 DEF Wrote
<1>19. w.refunds = IF Fails(k, Issue) THEN << >> ELSE <<[id |-> 1, order |-> r.st.order_id, type |-> t, amount |-> a]>>
  <2>1. CASE Fails(k, Issue)
    BY <1>10, <1>17, <2>1 DEF Wrote
  <2>2. CASE ~Fails(k, Issue)
    BY <1>10, <1>17, <2>2, FirstWrite DEF Wrote
  <2> QED
    BY <2>1, <2>2
<1>20. Class(s) = c /\ Typed(r2)
  BY <1>13, <1>14, <1>15, <1>16, <1>18 DEF Class, Typed
<1>21. Holds(s, v, k, c, TRUE, TRUE, Answers(v, k, c), MustAsk(v, k, c, t))
  BY <1>3, <1>8, <1>13, <1>14 DEF Holds
<1>22. Error(v, k, c, t) = IF Fails(k, Issue) THEN Issue ELSE None
  <2>1. ~Stale(v, k, c)
    BY <1>3 DEF Stale
  <2> QED
    BY <1>3, <1>9, <2>1, DuePlan
<1>23. EndCalls(v, k, c, t) = Append(PlannedCalls(v, k, c), Issue)
  <2>1. EndCalls(v, k, c, t) = TriedCalls(v, k, c)
    BY <1>3, <1>9, DuePlan
  <2> QED
    BY <1>3, <2>1 DEF TriedCalls, WriteCalls
<1>24. Paid(v, s) = [id |-> 1, order |-> r.st.order_id, type |-> t, amount |-> a]
  BY <1>3, <1>13, <1>14 DEF Paid
<1>25. Settled(v, k, r2, EndCalls(v, k, c, t))
  BY <1>11, <1>13, <1>14, <1>16, <1>18, <1>19, <1>20, <1>23, <1>24 DEF Settled
<1>26. r2.fired = {} /\ ~Fires(v, k, c, t)
  <2>1. v \notin EARLY_MARKED \cup {"M5", "M4"}
    BY <1>3 DEF EARLY_MARKED
  <2> QED
    BY <1>1, <1>2, <1>3, <1>16, <2>1, PlanMarks, Firing
<1> HIDE DEF c, t
<1>27. r2.st.refund_type = t
  BY <1>13, <1>14, <1>16
<1>28. c = Class(r2.st) /\ r2.st.refund_id = (IF Pays(v, k, c, t) THEN 1 ELSE None) /\ r2.st.error = Error(v, k, c, t)
  BY <1>11, <1>14, <1>16, <1>20, <1>22
<1> QED
  BY <1>3, <1>16, <1>20, <1>21, <1>25, <1>26, <1>27, <1>28, EndsPlanned

(* What is known of a run at issue_refund, w being the world after the lookups before the write. *)
IssueKnown(v, k, r, c, t, w) ==
  /\ v # "V5" /\ t \in RefundTypes /\ t = r.st.refund_type /\ Goes(v, k, c, t) /\ Plans(v, k, c)
  /\ Holds(r.st, v, k, c, TRUE, TRUE, Answers(v, k, c), MustAsk(v, k, c, t))
  /\ r.st.order_id \in OrderIds /\ r.st.refund_amount \in Nat
  /\ r.st.refund_id = None /\ r.st.error = None
  /\ w \in World /\ w.refunds = << >> /\ w.next_refund = 1 /\ w.log = LogOf(k, WriteCalls(v, k, c))
  /\ Stops(v, k, r) <=> Stale(v, k, c)
  /\ ~Fails(k, Lookup)
  /\ v \in EARLY_MARKED \cup {"M5", "M4"} => (r.fired # {} <=> Fires(v, k, c, t))
  /\ v \notin EARLY_MARKED \cup {"M5", "M4"} => r.fired = {}

(* What a run in the table has and has not done when it comes to the write, after its re-read. *)
LEMMA IssueStarts ==
  ASSUME NEW v \in PAIRED, NEW k \in Case, NEW r, Typed(r), InTable(v, k, r), r.next = "issue_refund"
  PROVE  IssueKnown(v, k, r, Class(r.st), r.st.refund_type, Reread(v, k, r, REREADERS))
<1> DEFINE c == Class(r.st)
           t == r.st.refund_type
           o == r.st.order_id
           w == Reread(v, k, r, REREADERS)
<1>1. AtIssue(v, k, r) /\ Marking(v, k, r) /\ r.st \in RefundState /\ r.world \in World /\ c.order_id = o
  BY DEF InTable, Typed, Class
<1>2. /\ v # "V5" /\ t \in RefundTypes /\ Goes(v, k, c, t)
      /\ Holds(r.st, v, k, c, TRUE, TRUE, Answers(v, k, c), MustAsk(v, k, c, t))
      /\ Open(v, k, r, PlannedCalls(v, k, c))
  BY <1>1 DEF AtIssue
<1>3. Plans(v, k, c) /\ Found(v, k, c) /\ Asked(c) /\ ~Fails(k, Lookup)
  BY <1>2, Ladder DEF Found
<1>4. o \in OrderIds
  BY <1>1, <1>3 DEF Asked, RefundState
<1>5. r.st.order = Seen(v, k, c.order_id) /\ r.st.refund_amount = Amount(v, k, c, t)
  BY <1>2, NoneAssumption DEF Holds
<1>6. r.st.refund_amount \in Nat /\ r.st.order # None
  BY <1>1, <1>3, <1>5, FoundOrder
<1>7. /\ r.st.refund_id = None /\ r.st.error = None /\ r.world.refunds = << >> /\ r.world.next_refund = 1
      /\ v = "alt_verify" => r.world.lookups = 1 /\ r.world.orders = k.orders
      /\ r.world.log = LogOf(k, PlannedCalls(v, k, c))
  BY <1>2, <1>6 DEF Open, Before
<1>8. /\ v \in EARLY_MARKED \cup {"M5", "M4"} => (r.fired # {} <=> Fires(v, k, c, t))
      /\ v \notin EARLY_MARKED \cup {"M5", "M4"} => r.fired = {}
  BY <1>1, PlanMarks
<1> HIDE DEF c
<1>9. /\ w \in World /\ w.refunds = << >> /\ w.next_refund = 1 /\ w.log = LogOf(k, WriteCalls(v, k, c))
      /\ v = "alt_verify" => w.orders = Repriced(r.world, k, o)
  <2>1. CASE v \in REREADERS
    <3> DEFINE before == PlannedCalls(v, k, c)
    <3>1. w = AfterLookup(r.world, k, o) /\ WriteCalls(v, k, c) = Append(before, Lookup)
      BY <2>1 DEF Reread, WriteCalls, REREADERS
    <3>2. before \in Seq(ToolNames)
      BY ToolLists
    <3> HIDE DEF before, w
    <3>3. LookedUp(k, r.world, w, before, o)
      BY <1>1, <1>4, <1>7, <3>1, <3>2, LookupLogs DEF before
    <3> QED
      BY <1>3, <1>7, <3>1, <3>3 DEF LookedUp
  <2>2. CASE v \notin REREADERS
    <3>1. w = r.world /\ WriteCalls(v, k, c) = PlannedCalls(v, k, c) /\ v # "alt_verify"
      BY <2>2 DEF Reread, WriteCalls, REREADERS
    <3> QED
      BY <1>1, <1>7, <3>1
  <2> QED
    BY <2>1, <2>2
<1> HIDE DEF w
<1>10. Stops(v, k, r) <=> Stale(v, k, c)
  <2>1. Stops(v, k, r) <=> /\ v = "alt_verify"
                           /\ \/ SelectOrder(w, o, TRUE) = None
                              \/ SelectOrder(w, o, TRUE).price # r.st.order.price
    BY <1>3 DEF Stops, w
  <2>2. ASSUME v = "alt_verify"
        PROVE  /\ SelectOrder(w, o, TRUE) # None
               /\ SelectOrder(w, o, TRUE).price = IF k.reprice = None THEN r.st.order.price ELSE k.reprice
    <3> DEFINE row == k.orders[o]
    <3>1. r.st.order = row /\ row # None /\ row.mine /\ row \in OrderRow
      <4>1. r.st.order = SelectOrder(SeedWorld(k), o, TRUE)
        BY <1>1, <1>5, <2>2, OneLookup DEF Seen
      <4> QED
        BY <1>1, <1>6, <4>1 DEF SelectOrder, SeedWorld, RefundState
    <3>2. w.orders = IF k.reprice # None THEN [k.orders EXCEPT ![o] = [@ EXCEPT !.price = k.reprice]] ELSE k.orders
      <4>1. r.world.lookups > 0 /\ r.world.orders = k.orders
        BY <1>7, <2>2
      <4> QED
        BY <1>9, <2>2, <3>1, <4>1 DEF Repriced
    <3>3. w.orders[o] = IF k.reprice # None THEN [row EXCEPT !.price = k.reprice] ELSE row
      <4>1. k.orders \in [OrderIds -> OrderRow \cup {None}]
        BY DEF Case
      <4> QED
        BY <1>4, <3>2, <4>1
    <3>4. k.reprice # None => [row EXCEPT !.price = k.reprice] \in OrderRow
      BY <3>1 DEF OrderRow, Case
    <3>5. [row EXCEPT !.price = k.reprice].price = k.reprice /\ [row EXCEPT !.price = k.reprice].mine = row.mine
      BY <3>1 DEF OrderRow
    <3> HIDE DEF row
    <3>6. SelectOrder(w, o, TRUE) = w.orders[o] /\ w.orders[o] # None
      BY <3>1, <3>3, <3>4, <3>5, NoneAssumption DEF SelectOrder
    <3> QED
      BY <3>1, <3>3, <3>5, <3>6
  <2> HIDE DEF o, w
  <2> QED
    BY <1>5, <2>1, <2>2 DEF Stale
<1> QED
  BY <1>2, <1>3, <1>4, <1>6, <1>7, <1>8, <1>9, <1>10 DEF IssueKnown, c, w

-----------------------------------------------------------------------------
(* The markers once the write is reached. *)
LEMMA WriteMarks ==
  ASSUME NEW v \in PAIRED, NEW k \in Case, NEW c, NEW t, NEW fired, NEW s, s.refund_type = t, Goes(v, k, c, t),
         v \in EARLY_MARKED \cup {"M5", "M4"} => (fired # {} <=> Fires(v, k, c, t)),
         v \notin EARLY_MARKED \cup {"M5", "M4"} => fired = {}
  PROVE  LET after == fired \cup MarksOfIssue(v, s)
                       \cup (IF v = "M7" /\ Tries(v, k, c, t) /\ Fails(k, Issue) THEN {"M7:blind_retry"} ELSE {})
         IN /\ v \in {"B", "M8", "V3"} => after = {}
            /\ v \notin {"B", "M8", "V4", "V3"} => (after # {} <=> Fires(v, k, c, t))
<1> DEFINE extra == IF v = "M7" /\ Tries(v, k, c, t) /\ Fails(k, Issue) THEN {"M7:blind_retry"} ELSE {}
           after == fired \cup MarksOfIssue(v, s) \cup extra
<1>1. Plans(v, k, c) /\ Found(v, k, c)
  BY Ladder
<1>2. /\ MarksOfIssue(v, s) # {} <=> v = "C" \/ (v = "M6" /\ t # "full")
      /\ MarksOfIssue(v, s) = {} \/ v \in {"C", "M6"}
  BY DEF MarksOfIssue, Redundant
<1>3. extra # {} <=> v = "M7" /\ Tries(v, k, c, t) /\ Fails(k, Issue)
  OBVIOUS
<1> HIDE DEF extra
<1>4. v \in {"B", "M8", "V3"} => after = {}
  BY <1>2, <1>3 DEF EARLY_MARKED
<1>5. CASE v = "C"
  <2>1. Fires(v, k, c, t)
    BY <1>1, <1>5, DuePlan, Firing DEF Skips
  <2> QED
    BY <1>2, <1>4, <1>5, <2>1
<1>6. CASE v \in (EARLY_MARKED \ {"C"}) \cup {"M5", "M4"}
  BY <1>2, <1>3, <1>4, <1>6 DEF EARLY_MARKED
<1>7. CASE v = "M6"
  <2>1. Fires(v, k, c, t) <=> t # "full"
    BY <1>7, Firing
  <2>2. fired = {}
    BY <1>7 DEF EARLY_MARKED
  <2> QED
    BY <1>2, <1>3, <1>4, <1>7, <2>1, <2>2
<1>8. CASE v = "M7"
  <2>1. Fires(v, k, c, t) <=> Tries(v, k, c, t) /\ Fails(k, Issue)
    BY <1>8, Firing
  <2>2. fired = {}
    BY <1>8 DEF EARLY_MARKED
  <2> QED
    BY <1>2, <1>3, <1>4, <1>8, <2>1, <2>2
<1>9. CASE v \in {"V1", "V2", "baseline", "alt_history_early", "alt_recheck", "alt_verify", "V5", "V6"}
  <2>1. ~Fires(v, k, c, t)
    <3>1. Error(v, k, c, t) \in {"order_changed", Issue, None}
      BY <1>1, DuePlan
    <3>2. Error(v, k, c, t) \notin {Lookup, History, Check}
      BY <3>1, FourTools DEF Lookup, History, Check, Issue
    <3> QED
      BY <1>1, <1>9, <3>2, Firing
  <2>2. after = {}
    BY <1>2, <1>3, <1>9 DEF EARLY_MARKED
  <2> QED
    BY <1>9, <2>1, <2>2 DEF extra
<1>10. CASE v \in {"B", "M8", "V4", "V3"}
  BY <1>4, <1>10 DEF extra
<1> QED
  BY <1>5, <1>6, <1>7, <1>8, <1>9, <1>10, PairedVariants DEF EARLY_MARKED, extra

(* A run whose write is reached ends, or reconciles, where the table has it. *)
LEMMA Written ==
  ASSUME NEW v \in PAIRED, NEW k, NEW r, NEW c, NEW t \in RefundTypes, c = Class(r.st), t = r.st.refund_type, Typed(r),
         Goes(v, k, c, t), v # "V3" \/ Tries(v, k, c, t),
         Holds(r.st, v, k, c, TRUE, TRUE, Answers(v, k, c), MustAsk(v, k, c, t)),
         r.st.refund_id = IF Pays(v, k, c, t) THEN 1 ELSE None, r.st.error = Error(v, k, c, t),
         r.next = IF v = "V3" THEN "reconcile" ELSE "respond",
         Settled(v, k, r, IF v = "V3" THEN Append(WriteCalls(v, k, c), Issue) ELSE EndCalls(v, k, c, t)),
         v \in {"B", "M8", "V3"} => r.fired = {},
         v \notin {"B", "M8", "V4", "V3"} => (r.fired # {} <=> Fires(v, k, c, t))
  PROVE  Typed(r) /\ InTable(v, k, r)
<1>1. Plans(v, k, c)
  BY Ladder
<1>2. CASE v = "V3"
  <2>1. Found(v, k, c) /\ Reads(v, k, c) /\ t # None
    BY <1>1, Ladder, NoneAssumption
  <2>2. Ended(r.st, v, k, c)
    BY <1>1, <2>1 DEF Ended, Holds
  <2>3. AtReconcile(v, k, r)
    BY <1>2, <2>2 DEF AtReconcile
  <2>4. Marking(v, k, r)
    BY <1>2 DEF Marking, Unmarked, Nodes
  <2> QED
    BY <1>2, <2>3, <2>4 DEF InTable, Nodes
<1>3. CASE v # "V3"
  BY <1>1, <1>3, EndsPlanned
<1> QED
  BY <1>2, <1>3

(* alt_verify finds the order changed. *)
LEMMA StopsIssueTable ==
  ASSUME NEW v \in PAIRED, NEW k \in Case, NEW r, NEW r2, Typed(r), InTable(v, k, r), StopsIssue(v, k, r, r2)
  PROVE  Typed(r2) /\ InTable(v, k, r2)
<1> DEFINE c == Class(r.st)
           t == r.st.refund_type
           w == Reread(v, k, r, REREADERS)
           s == [r.st EXCEPT !.error = "order_changed"]
<1>1. r.next = "issue_refund" /\ Stops(v, k, r) /\ r.st \in RefundState
  BY DEF StopsIssue, Typed
<1>2. IssueKnown(v, k, r, c, t, w)
  BY <1>1, IssueStarts
<1> HIDE DEF w
<1>3. /\ t \in RefundTypes /\ Goes(v, k, c, t) /\ Plans(v, k, c)
      /\ Holds(r.st, v, k, c, TRUE, TRUE, Answers(v, k, c), MustAsk(v, k, c, t))
      /\ r.st.refund_id = None
      /\ w \in World /\ w.refunds = << >> /\ w.log = LogOf(k, WriteCalls(v, k, c))
      /\ Stale(v, k, c) /\ ~Fails(k, Lookup) /\ (v \notin EARLY_MARKED \cup {"M5", "M4"} => r.fired = {})
  BY <1>1, <1>2 DEF IssueKnown
<1>4. v = "alt_verify" /\ ~Tries(v, k, c, t) /\ ~Pays(v, k, c, t)
  BY <1>3, Ladder DEF Stale, Tries
<1>5. Error(v, k, c, t) = "order_changed" /\ EndCalls(v, k, c, t) = WriteCalls(v, k, c)
  BY <1>3, <1>4, DuePlan
<1>6. /\ s.intent = r.st.intent /\ s.order_id = r.st.order_id /\ s.order = r.st.order
      /\ s.prior_refunds = r.st.prior_refunds /\ s.eligibility = r.st.eligibility
      /\ s.refund_type = t /\ s.refund_amount = r.st.refund_amount
      /\ s.approval = r.st.approval /\ s.refund_id = r.st.refund_id /\ s.error = "order_changed"
  BY <1>1 DEF RefundState
<1>7. s \in RefundState
  BY <1>1 DEF RefundState, Errors
<1>8. r2.st = s /\ r2.world = w /\ r2.next = "respond" /\ r2.fired = r.fired
  <2>1. Moves(v, r, r2, s, w, {})
    BY <1>3 DEF StopsIssue, w
  <2> HIDE DEF s
  <2>2. RouteMarks(v, r.next, s) = {}
    BY <1>1, RouterMarks
  <2> QED
    BY <1>1, <1>4, <2>1, <2>2 DEF Moves, Route
<1> HIDE DEF s
<1>9. Class(s) = c /\ Typed(r2)
  BY <1>3, <1>6, <1>7, <1>8 DEF Class, Typed
<1>10. Holds(s, v, k, c, TRUE, TRUE, Answers(v, k, c), MustAsk(v, k, c, t))
  BY <1>3, <1>6 DEF Holds
<1>11. Settled(v, k, r2, EndCalls(v, k, c, t))
  BY <1>3, <1>4, <1>5, <1>6, <1>8, <1>9 DEF Settled
<1>12. r2.fired = {} /\ ~Fires(v, k, c, t)
  <2>1. v \notin EARLY_MARKED \cup {"M5", "M4"}
    BY <1>4 DEF EARLY_MARKED
  <2> QED
    BY <1>3, <1>4, <1>8, <2>1, Firing
<1> HIDE DEF c, t
<1>13. c = Class(r2.st) /\ t = r2.st.refund_type /\ r2.st.refund_id = None /\ r2.st.error = Error(v, k, c, t)
  BY <1>3, <1>5, <1>6, <1>8, <1>9
<1> QED
  BY <1>3, <1>4, <1>8, <1>9, <1>10, <1>11, <1>12, <1>13, Written

(* issue_refund, when the write succeeds. *)
LEMMA Issues1Table ==
  ASSUME NEW v \in PAIRED, NEW k \in Case, NEW r, NEW r2, Typed(r), InTable(v, k, r), Issues1(v, k, r, r2)
  PROVE  Typed(r2) /\ InTable(v, k, r2)
<1> DEFINE c == Class(r.st)
           t == r.st.refund_type
           a == r.st.refund_amount
           o == r.st.order_id
           sent == TypeOf(v, r.st)
           w == Reread(v, k, r, REREADERS)
           w2 == AfterIssue(w, k, o, sent, a)
           s == [r.st EXCEPT !.refund_id = w.next_refund]
           marks == MarksOfIssue(v, r.st)
<1>1. r.next = "issue_refund" /\ ~Stops(v, k, r) /\ ~Fails(k, Issue) /\ r.st \in RefundState /\ Moves(v, r, r2, s, w2, marks)
  BY DEF Issues1, Typed
<1>2. IssueKnown(v, k, r, c, t, w)
  BY <1>1, IssueStarts
<1> HIDE DEF w
<1>3. /\ t \in RefundTypes /\ Goes(v, k, c, t) /\ Plans(v, k, c) /\ v # "V5"
      /\ Holds(r.st, v, k, c, TRUE, TRUE, Answers(v, k, c), MustAsk(v, k, c, t))
      /\ o \in OrderIds /\ a \in Nat /\ r.st.error = None
      /\ w \in World /\ w.refunds = << >> /\ w.next_refund = 1 /\ w.log = LogOf(k, WriteCalls(v, k, c))
      /\ ~Stale(v, k, c)
  BY <1>1, <1>2 DEF IssueKnown
<1>4. /\ v \in EARLY_MARKED \cup {"M5", "M4"} => (r.fired # {} <=> Fires(v, k, c, t))
      /\ v \notin EARLY_MARKED \cup {"M5", "M4"} => r.fired = {}
  BY <1>2 DEF IssueKnown
<1>5. Tries(v, k, c, t) /\ Pays(v, k, c, t)
  BY <1>1, <1>3 DEF Tries, Pays
<1>6. Error(v, k, c, t) = None /\ EndCalls(v, k, c, t) = TriedCalls(v, k, c)
  BY <1>1, <1>3, <1>5, DuePlan
<1>7. /\ s.intent = r.st.intent /\ s.order_id = r.st.order_id /\ s.order = r.st.order
      /\ s.prior_refunds = r.st.prior_refunds /\ s.eligibility = r.st.eligibility
      /\ s.refund_type = t /\ s.refund_amount = a
      /\ s.approval = r.st.approval /\ s.refund_id = 1 /\ s.error = None
  BY <1>1, <1>3 DEF RefundState
<1>8. s \in RefundState
  BY <1>1, <1>3 DEF RefundState
<1> HIDE DEF w2, marks
<1>9. r2.st = s /\ r2.world = w2 /\ r2.next = (IF v = "V3" THEN "reconcile" ELSE "respond") /\ r2.fired = r.fired \cup marks
  <2> HIDE DEF s
  <2>1. RouteMarks(v, r.next, s) = {}
    BY <1>1, RouterMarks
  <2> QED
    BY <1>1, <2>1 DEF Moves, Route
<1> HIDE DEF s
<1>10. sent \in RefundTypes /\ sent = IF v = "M6" THEN "full" ELSE t
  BY <1>3 DEF TypeOf, RefundTypes
<1> HIDE DEF sent
<1>11. Wrote(k, w, w2, WriteCalls(v, k, c), o, sent, a)
  BY <1>3, <1>10, IssueLogs, ToolLists DEF w2
<1>12. w2 \in World /\ w2.log = LogOf(k, Append(WriteCalls(v, k, c), Issue))
  BY <1>11 DEF Wrote
<1>13. w2.refunds = <<[id |-> 1, order |-> o, type |-> sent, amount |-> a]>>
  BY <1>1, <1>3, <1>11, FirstWrite DEF Wrote
<1>14. Class(s) = c /\ Typed(r2)
  BY <1>7, <1>8, <1>9, <1>12 DEF Class, Typed
<1>15. Holds(s, v, k, c, TRUE, TRUE, Answers(v, k, c), MustAsk(v, k, c, t))
  BY <1>3, <1>7 DEF Holds
<1>16. Paid(v, s) = [id |-> 1, order |-> o, type |-> sent, amount |-> a]
  BY <1>7, <1>10 DEF Paid
<1>17. v # "V3" => EndCalls(v, k, c, t) = Append(WriteCalls(v, k, c), Issue)
  BY <1>1, <1>6 DEF TriedCalls
<1>18. Settled(v, k, r2, IF v = "V3" THEN Append(WriteCalls(v, k, c), Issue) ELSE EndCalls(v, k, c, t))
  BY <1>5, <1>7, <1>9, <1>12, <1>13, <1>14, <1>16, <1>17 DEF Settled
<1>19. /\ v \in {"B", "M8", "V3"} => r2.fired = {}
       /\ v \notin {"B", "M8", "V4", "V3"} => (r2.fired # {} <=> Fires(v, k, c, t))
  <2> DEFINE extra == IF v = "M7" /\ Tries(v, k, c, t) /\ Fails(k, Issue) THEN {"M7:blind_retry"} ELSE {}
             after == r.fired \cup MarksOfIssue(v, r.st) \cup extra
  <2>1. /\ v \in {"B", "M8", "V3"} => after = {}
        /\ v \notin {"B", "M8", "V4", "V3"} => (after # {} <=> Fires(v, k, c, t))
    BY <1>3, <1>4, WriteMarks, ZenonT(60)
  <2>2. after = r2.fired
    BY <1>1, <1>9 DEF marks
  <2> QED
    BY <2>1, <2>2
<1> HIDE DEF c, t
<1>20. c = Class(r2.st) /\ t = r2.st.refund_type /\ r2.st.refund_id = 1 /\ r2.st.error = Error(v, k, c, t)
  BY <1>6, <1>7, <1>9, <1>14
<1> QED
  BY <1>3, <1>5, <1>9, <1>14, <1>15, <1>18, <1>19, <1>20, Written

(* issue_refund, when it fails: M7 tries twice. *)
LEMMA FailsIssueTable ==
  ASSUME NEW v \in PAIRED, NEW k \in Case, NEW r, NEW r2, Typed(r), InTable(v, k, r), FailsIssue(v, k, r, r2)
  PROVE  Typed(r2) /\ InTable(v, k, r2)
<1> DEFINE c == Class(r.st)
           t == r.st.refund_type
           a == r.st.refund_amount
           o == r.st.order_id
           sent == TypeOf(v, r.st)
           w == Reread(v, k, r, REREADERS)
           once == AfterIssue(w, k, o, sent, a)
           w2 == IF v = "M7" THEN AfterIssue(once, k, o, sent, a) ELSE once
           s == [r.st EXCEPT !.error = Issue]
           marks == MarksOfIssue(v, r.st) \cup (IF v = "M7" THEN {"M7:blind_retry"} ELSE {})
<1>1. r.next = "issue_refund" /\ ~Stops(v, k, r) /\ Fails(k, Issue) /\ r.st \in RefundState /\ Moves(v, r, r2, s, w2, marks)
  BY DEF FailsIssue, Typed
<1>2. IssueKnown(v, k, r, c, t, w)
  BY <1>1, IssueStarts
<1> HIDE DEF w
<1>3. /\ t \in RefundTypes /\ Goes(v, k, c, t) /\ Plans(v, k, c) /\ v # "V5"
      /\ Holds(r.st, v, k, c, TRUE, TRUE, Answers(v, k, c), MustAsk(v, k, c, t))
      /\ o \in OrderIds /\ a \in Nat /\ r.st.error = None /\ r.st.refund_id = None
      /\ w \in World /\ w.refunds = << >> /\ w.next_refund = 1 /\ w.log = LogOf(k, WriteCalls(v, k, c))
      /\ ~Stale(v, k, c)
  BY <1>1, <1>2 DEF IssueKnown
<1>4. /\ v \in EARLY_MARKED \cup {"M5", "M4"} => (r.fired # {} <=> Fires(v, k, c, t))
      /\ v \notin EARLY_MARKED \cup {"M5", "M4"} => r.fired = {}
  BY <1>2 DEF IssueKnown
<1>5. Tries(v, k, c, t) /\ ~Pays(v, k, c, t)
  BY <1>1, <1>3 DEF Tries, Pays
<1>6. Error(v, k, c, t) = Issue /\ EndCalls(v, k, c, t) = TriedCalls(v, k, c)
  BY <1>1, <1>3, <1>5, DuePlan
<1>7. /\ s.intent = r.st.intent /\ s.order_id = r.st.order_id /\ s.order = r.st.order
      /\ s.prior_refunds = r.st.prior_refunds /\ s.eligibility = r.st.eligibility
      /\ s.refund_type = t /\ s.refund_amount = a
      /\ s.approval = r.st.approval /\ s.refund_id = None /\ s.error = Issue
  BY <1>1, <1>3 DEF RefundState
<1>8. s \in RefundState
  BY <1>1, FourTools DEF RefundState, Errors
<1> HIDE DEF w2, marks
<1>9. r2.st = s /\ r2.world = w2 /\ r2.next = (IF v = "V3" THEN "reconcile" ELSE "respond") /\ r2.fired = r.fired \cup marks
  <2> HIDE DEF s
  <2>1. RouteMarks(v, r.next, s) = {}
    BY <1>1, RouterMarks
  <2> QED
    BY <1>1, <2>1 DEF Moves, Route
<1> HIDE DEF s
<1>10. sent \in RefundTypes
  BY <1>3 DEF TypeOf, RefundTypes
<1> HIDE DEF sent
<1> DEFINE before == WriteCalls(v, k, c)
           first == Append(before, Issue)
<1>11. before \in Seq(ToolNames) /\ first \in Seq(ToolNames)
  BY ToolLists, FourTools, AppendProperties
<1>12. TriedCalls(v, k, c) = CASE v = "V3" -> Append(first, History) [] v = "M7" -> Append(first, Issue) [] OTHER -> first
  BY <1>1 DEF TriedCalls
<1> HIDE DEF before, first
<1>13. once \in World /\ once.log = LogOf(k, first) /\ once.refunds = << >>
  <2>1. Wrote(k, w, once, before, o, sent, a)
    BY <1>3, <1>10, <1>11, IssueLogs DEF before
  <2> HIDE DEF once
  <2> QED
    BY <1>1, <1>3, <2>1 DEF Wrote, first
<1> HIDE DEF once
<1>14. w2 \in World /\ w2.refunds = << >> /\ w2.log = LogOf(k, IF v = "M7" THEN Append(first, Issue) ELSE first)
  <2>1. CASE v = "M7"
    <3>1. Wrote(k, once, w2, first, o, sent, a)
      BY <1>3, <1>10, <1>11, <1>13, <2>1, IssueLogs DEF w2
    <3> QED
      BY <1>1, <1>13, <2>1, <3>1 DEF Wrote
  <2>2. CASE v # "M7"
    BY <1>13, <2>2 DEF w2
  <2> QED
    BY <2>1, <2>2
<1>15. Class(s) = c /\ Typed(r2)
  BY <1>7, <1>8, <1>9, <1>14 DEF Class, Typed
<1>16. Holds(s, v, k, c, TRUE, TRUE, Answers(v, k, c), MustAsk(v, k, c, t))
  BY <1>3, <1>7 DEF Holds
<1>17. v # "V3" => EndCalls(v, k, c, t) = IF v = "M7" THEN Append(first, Issue) ELSE first
  BY <1>6, <1>12
<1>18. Settled(v, k, r2, IF v = "V3" THEN first ELSE EndCalls(v, k, c, t))
  BY <1>5, <1>7, <1>9, <1>14, <1>15, <1>17 DEF Settled
<1>19. /\ v \in {"B", "M8", "V3"} => r2.fired = {}
       /\ v \notin {"B", "M8", "V4", "V3"} => (r2.fired # {} <=> Fires(v, k, c, t))
  <2> DEFINE extra == IF v = "M7" /\ Tries(v, k, c, t) /\ Fails(k, Issue) THEN {"M7:blind_retry"} ELSE {}
             after == r.fired \cup MarksOfIssue(v, r.st) \cup extra
  <2>1. /\ v \in {"B", "M8", "V3"} => after = {}
        /\ v \notin {"B", "M8", "V4", "V3"} => (after # {} <=> Fires(v, k, c, t))
    BY <1>3, <1>4, WriteMarks, ZenonT(60)
  <2>2. after = r2.fired
    BY <1>1, <1>5, <1>9 DEF marks
  <2> QED
    BY <2>1, <2>2
<1>20. first = Append(WriteCalls(v, k, c), Issue)
  BY DEF first, before
<1> HIDE DEF c, t
<1>21. c = Class(r2.st) /\ t = r2.st.refund_type /\ r2.st.refund_id = None /\ r2.st.error = Error(v, k, c, t)
  BY <1>6, <1>7, <1>9, <1>15
<1> QED
  BY <1>3, <1>5, <1>9, <1>15, <1>16, <1>18, <1>19, <1>20, <1>21, Written

-----------------------------------------------------------------------------
(* V3 reads the history after the write. *)
LEMMA ReconcilesTable ==
  ASSUME NEW v \in PAIRED, NEW k \in Case, NEW r, NEW r2, Typed(r), InTable(v, k, r), Reconciles(v, k, r, r2)
  PROVE  Typed(r2) /\ InTable(v, k, r2)
<1> DEFINE c == Class(r.st)
           t == r.st.refund_type
           w2 == Logged(r.world, k, History)
           first == Append(WriteCalls(v, k, c), Issue)
<1>1. r.next = "reconcile" /\ r.st \in RefundState /\ r.world \in World /\ Moves(v, r, r2, r.st, w2, {"V3:reconcile_read"})
  BY DEF Reconciles, Typed
<1>2. AtReconcile(v, k, r)
  BY <1>1 DEF InTable
<1>3. v = "V3" /\ Tries(v, k, c, t) /\ Ended(r.st, v, k, c) /\ Settled(v, k, r, first)
  BY <1>2 DEF AtReconcile
<1>4. first \in Seq(ToolNames)
  BY ToolLists, FourTools, AppendProperties
<1>5. EndCalls(v, k, c, t) = Append(first, History)
  <2>1. EndCalls(v, k, c, t) = TriedCalls(v, k, c)
    BY <1>3, DuePlan, Ladder
  <2> QED
    BY <1>3, <2>1 DEF TriedCalls
<1> HIDE DEF first, w2
<1>6. OnlyLogged(k, r.world, w2, first, History)
  BY <1>1, <1>3, <1>4, ReadLogs, FourTools DEF Settled, w2
<1>7. /\ r2.st = r.st /\ r2.world = w2 /\ r2.next = "respond" /\ r2.fired # {}
  BY <1>1 DEF Moves, Route
<1>8. Settled(v, k, r2, EndCalls(v, k, c, t))
  BY <1>3, <1>5, <1>6, <1>7 DEF Settled, OnlyLogged
<1>9. Typed(r2)
  BY <1>1, <1>6, <1>7 DEF Typed, OnlyLogged
<1>10. Fires(v, k, c, t)
  BY <1>3, Firing
<1> HIDE DEF c, t
<1>11. c = Class(r2.st) /\ t = r2.st.refund_type
  BY <1>7 DEF c, t
<1> QED
  BY <1>3, <1>7, <1>8, <1>9, <1>10, <1>11, Ends

(* respond. *)
LEMMA RespondsTable ==
  ASSUME NEW v \in PAIRED, NEW k \in Case, NEW r, NEW r2, Typed(r), InTable(v, k, r), Responds(v, k, r, r2)
  PROVE  Typed(r2) /\ InTable(v, k, r2)
<1> DEFINE c == Class(r.st)
           t == r.st.refund_type
           marks == (IF Lies(v, r.st) THEN {"B:false_success"} ELSE {})
                    \cup (IF v = "M8" /\ t = "partial" /\ r.st.refund_amount # None
                          THEN {"M8:price_rendered_as_amount"} ELSE {})
<1>1. r.next = "respond" /\ r.st \in RefundState /\ r.world \in World /\ Moves(v, r, r2, r.st, r.world, marks) /\ r2.reply = FactsOf(v, r.st)
  BY DEF Responds, Typed
<1>2. AtEnd(v, k, r) /\ Marking(v, k, r)
  BY <1>1 DEF InTable
<1>3. Ended(r.st, v, k, c) /\ Settled(v, k, r, EndCalls(v, k, c, t))
  BY <1>2 DEF AtEnd
<1>4. r2.st = r.st /\ r2.world = r.world /\ r2.next = "END" /\ r2.fired = r.fired \cup marks
  <2>1. RouteMarks(v, r.next, r.st) = {}
    BY <1>1, RouterMarks
  <2> HIDE DEF marks
  <2> QED
    BY <1>1, <2>1 DEF Moves, Route
<1>5. AtEnd(v, k, r2)
  BY <1>1, <1>3, <1>4 DEF AtEnd, Settled
<1>6. t # None <=> Plans(v, k, c)
  BY <1>3 DEF Ended
<1>7. r.st.refund_amount # None <=> Plans(v, k, c)
  <2>1. CASE t = None
    BY <1>3, <1>6, <2>1 DEF Ended, Holds
  <2>2. CASE t # None
    <3>1. r.st.refund_amount = Amount(v, k, c, t) /\ Found(v, k, c) /\ r.st.order = Seen(v, k, c.order_id)
      BY <1>3, <1>6, <2>2, Ladder DEF Ended, Holds
    <3>2. Amount(v, k, c, t) \in Nat
      BY <1>1, <3>1, FoundOrder
    <3> QED
      BY <1>6, <2>2, <3>1, <3>2, NoneAssumption
  <2> QED
    BY <2>1, <2>2
<1>8. "END" \notin Unmarked(v)
  BY DEF Unmarked, ToCheck, Nodes
<1>9. v \notin {"B", "M8"} => "respond" \notin Unmarked(v)
  BY DEF Unmarked, ToCheck
<1>10. v # "V4" => (r2.fired # {} <=> Fires(v, k, c, t))
  <2>1. CASE v \notin {"B", "M8"}
    <3>1. marks = {}
      BY <2>1 DEF Lies
    <3> HIDE DEF marks
    <3> QED
      BY <1>1, <1>2, <1>4, <1>9, <2>1, <3>1 DEF Marking
  <2>2. CASE v = "B"
    <3>1. Fires(v, k, c, t) <=> Tries(v, k, c, t) /\ Fails(k, Issue)
      BY <2>2, Firing
    <3>2. r.fired = {}
      BY <1>1, <1>2, <2>2 DEF Marking, Unmarked, Nodes
    <3>3. Lies(v, r.st) <=> Tries(v, k, c, t) /\ Fails(k, Issue)
      <4>1. /\ r.st.error = Error(v, k, c, t)
            /\ r.st.refund_id = IF Pays(v, k, c, t) THEN 1 ELSE None
        BY <1>3 DEF Ended
      <4>2. CASE Plans(v, k, c)
        <5>1. Error(v, k, c, t) = IF Tries(v, k, c, t) /\ Fails(k, Issue) THEN Issue ELSE None
          BY <2>2, <4>2, DuePlan DEF Stale
        <5> QED
          BY <1>7, <2>2, <4>1, <4>2, <5>1, FourTools DEF Lies, Pays
      <4>3. CASE ~Plans(v, k, c)
        BY <1>7, <4>3, Ladder DEF Lies
      <4> QED
        BY <4>2, <4>3
    <3>4. marks # {} <=> Lies(v, r.st)
      BY <2>2
    <3> HIDE DEF marks
    <3> QED
      BY <1>4, <3>1, <3>2, <3>3, <3>4
  <2>3. CASE v = "M8"
    <3>1. Fires(v, k, c, t) <=> Plans(v, k, c) /\ t = "partial"
      BY <2>3, Firing
    <3>2. r.fired = {}
      BY <1>1, <1>2, <2>3 DEF Marking, Unmarked, Nodes
    <3>3. marks # {} <=> t = "partial" /\ r.st.refund_amount # None
      BY <2>3 DEF Lies
    <3> HIDE DEF marks
    <3> QED
      BY <1>4, <1>7, <3>1, <3>2, <3>3
  <2> QED
    BY <2>1, <2>2, <2>3
<1>11. Marking(v, k, r2)
  BY <1>4, <1>8, <1>10 DEF Marking
<1> QED
  BY <1>1, <1>4, <1>5, <1>11 DEF InTable, Typed

(* Every superstep of a run leaves it where the table has it. *)
LEMMA SuperstepTable ==
  ASSUME NEW v \in PAIRED, NEW k \in Case, NEW r, NEW r2, Typed(r), InTable(v, k, r), Superstep(v, k, r, r2)
  PROVE  Typed(r2) /\ InTable(v, k, r2)
BY ClassifyTable, LookupFailsTable, LookupAnswersTable, FetchesTable, FailsHistoryTable, AnswersHistoryTable,
   FailsCheckTable, AnswersCheckTable, PassesGateTable, DiscardsTable, ComputesTable, SpeculatesTable,
   ApprovesTable, RefusesTable, AuthorizesTable, StopsIssueTable, Issues1Table, FailsIssueTable,
   ReconcilesTable, RespondsTable DEF Superstep

-----------------------------------------------------------------------------
(* The entry of the recording for the plan r has drawn. *)
Planned1(r) == [prompt |-> "COMPUTE_SYSTEM", price |-> r.st.order.price, type |-> r.st.refund_type]

(* What the run has drawn is in the recording. *)
Drawn(r, rec) ==
  /\ r.next # "classify_request" => rec.classify = Class(r.st)
  /\ r.st.refund_type # None => Planned1(r) \in rec.compute

(* A run of variant v in case k as the paired runs have it: in the table unless it has crashed, *)
(* and what it has drawn is recorded.                                                            *)
RunInv(v, k, r, rec, phase, answer) ==
  /\ Typed(r) /\ Class(r.st) \in Classes \cup {Class(EmptyState)}
  /\ r.next # "classify_request" => Class(r.st) \in Classes
  /\ phase \in {"running", "paused", "done", "crashed"}
  /\ phase = "done" => r.next = "END"
  /\ phase # "crashed" => InTable(v, k, r)
  /\ answer \in {None, "spent", Given(k)}
  /\ Drawn(r, rec)

(* At most one reply is recorded for a prompt and a price. *)
OneEach(decisions) == \A a, b \in decisions : a.prompt = b.prompt /\ a.price = b.price => a.type = b.type

(* What a superstep records, and that it agrees with what was recorded. *)
Records(r, r2, rec, rec2) ==
  /\ r.next = "classify_request" => rec.classify \in {None, Class(r2.st)} /\ rec2.classify = Class(r2.st)
  /\ r.next # "classify_request" => rec2.classify = rec.classify
  /\ r.next = "compute_refund" /\ r2.st.refund_type # None =>
       LET d == [prompt |-> "COMPUTE_SYSTEM", price |-> r.st.order.price, type |-> r2.st.refund_type]
       IN /\ rec2.compute = rec.compute \cup {d}
          /\ {e \in rec.compute : e.prompt = d.prompt /\ e.price = d.price} \subseteq {d}
  /\ r.next # "compute_refund" \/ r2.st.refund_type = None => rec2.compute = rec.compute

(* One step of a run: a superstep, a crash in a model call, an interrupt or a resume. *)
RunStep(v, k, r, r2, rec, rec2, phase, phaseTo, answer, answerTo) ==
  /\ phase \in {"running", "paused"} /\ phaseTo \in {"running", "paused", "done", "crashed"}
  /\ answerTo \in {answer, "spent", Given(k)}
  /\ \/ /\ Superstep(v, k, r, r2) /\ Records(r, r2, rec, rec2)
        /\ phaseTo \in {"crashed", IF r2.next = "END" THEN "done" ELSE "running"}
     \/ /\ phaseTo = "crashed" /\ r2.st = r.st /\ r2.next = r.next /\ r2.world \in World
        /\ rec2.classify = rec.classify /\ rec2.compute = rec.compute
     \/ /\ r2 = r /\ phaseTo \in {"running", "paused"}
        /\ rec2.classify = rec.classify /\ rec2.compute = rec.compute

(* What a superstep leaves of what was drawn. *)
LEMMA SuperstepKeeps ==
  ASSUME NEW v \in PAIRED, NEW k \in Case, NEW r, NEW r2, Typed(r), InTable(v, k, r), Superstep(v, k, r, r2)
  PROVE  /\ r2.next # "classify_request"
         /\ r.next # "classify_request" => Class(r2.st) = Class(r.st)
         /\ r.next = "classify_request" => Class(r2.st) \in Classes
         /\ r.next \in {"classify_request", "lookup_order", "gate"} => r2.st.refund_type = None
         /\ r.next \notin {"classify_request", "lookup_order", "gate"} => r2.st.order = r.st.order
         /\ r.next # "compute_refund" => r2.st.refund_type \in {None, r.st.refund_type}
<1>1. r.st \in RefundState
  BY DEF Typed
<1>2. r.next \in {"classify_request", "lookup_order", "gate"} => r.st.refund_type = None
  <2>1. EmptyState.refund_type = None
    BY DEF EmptyState
  <2> QED
    BY <2>1 DEF InTable, AtStart, AtLookup, AtGate
<1>3. \A s, w, marks : Moves(v, r, r2, s, w, marks) => r2.st = s /\ r2.next = Route(v, r.next, s)
  BY DEF Moves
<1>4. \A s : r.next \in Nodes => Route(v, r.next, s) # "classify_request"
  BY DEF Route, AfterClassify, AfterLookupNode, AfterHistory, AfterEligibility, AfterCompute, AfterApproval,
         AfterGate, Nodes
<1>14. r2.next # "classify_request"
  <2>1. r.next \in Nodes
    BY DEF Superstep, Nodes, Classifies, LookupFails, LookupAnswers, Fetches, FailsHistory, AnswersHistory, FailsCheck, AnswersCheck,
       PassesGate, Discards, Computes, Speculates, Approves, Refuses, Authorizes, StopsIssue, Issues1, FailsIssue, Reconciles, Responds
  <2>2. \E s : r2.next = Route(v, r.next, s)
    BY DEF Moves, Superstep, Nodes, Classifies, LookupFails, LookupAnswers, Fetches, FailsHistory, AnswersHistory, FailsCheck, AnswersCheck,
       PassesGate, Discards, Computes, Speculates, Approves, Refuses, Authorizes, StopsIssue, Issues1, FailsIssue, Reconciles, Responds
  <2> QED
    BY <1>4, <2>1, <2>2
<1> SUFFICES /\ r.next # "classify_request" => Class(r2.st) = Class(r.st)
             /\ r.next = "classify_request" => Class(r2.st) \in Classes
             /\ r.next \in {"classify_request", "lookup_order", "gate"} => r2.st.refund_type = None
             /\ r.next \notin {"classify_request", "lookup_order", "gate"} => r2.st.order = r.st.order
             /\ r.next # "compute_refund" => r2.st.refund_type \in {None, r.st.refund_type}
  BY <1>14
<1>5. CASE Classifies(v, k, r, r2)
  <2>1. PICK c \in Classes : r2.st = [r.st EXCEPT !.intent = c.intent, !.order_id = c.order_id]
    BY <1>3, <1>5 DEF Classifies
  <2>2. r.next = "classify_request" /\ Class(r2.st) = c /\ r2.st.refund_type = r.st.refund_type
    BY <1>1, <1>5, <2>1 DEF Classifies, Class, Classes, RefundState
  <2> QED
    BY <1>2, <2>2
<1>6. CASE LookupFails(v, k, r, r2) \/ LookupAnswers(v, k, r, r2) \/ Fetches(v, k, r, r2) \/ PassesGate(v, k, r, r2)
  <2>1. r.next \in {"lookup_order", "gate"}
    BY <1>6 DEF LookupFails, LookupAnswers, Fetches, PassesGate
  <2>2. /\ r2.st.intent = r.st.intent /\ r2.st.order_id = r.st.order_id /\ r2.st.refund_type = r.st.refund_type
    <3>1. CASE LookupFails(v, k, r, r2)
      BY <1>1, <3>1 DEF LookupFails, Moves, RefundState
    <3>2. CASE LookupAnswers(v, k, r, r2)
      <4>1. PICK row, e : r2.st = [r.st EXCEPT !.order = row, !.error = e]
        BY <3>2 DEF LookupAnswers, Moves
      <4> QED
        BY <1>1, <4>1 DEF RefundState
    <3>3. CASE Fetches(v, k, r, r2)
      BY <1>1, <3>3 DEF Fetches, Moves, RefundState
    <3>4. CASE PassesGate(v, k, r, r2)
      BY <1>1, <3>4 DEF PassesGate, Moves, RefundState
    <3> QED
      BY <1>6, <3>1, <3>2, <3>3, <3>4
  <2> QED
    BY <1>2, <2>1, <2>2 DEF Class
<1>7. CASE \/ FailsHistory(v, k, r, r2) \/ AnswersHistory(v, k, r, r2)
           \/ FailsCheck(v, k, r, r2) \/ AnswersCheck(v, k, r, r2)
  <2>1. r.next \in {"get_refund_history", "check_eligibility"}
    BY <1>7 DEF FailsHistory, AnswersHistory, FailsCheck, AnswersCheck
  <2>2. /\ r2.st.intent = r.st.intent /\ r2.st.order_id = r.st.order_id /\ r2.st.refund_type = r.st.refund_type
        /\ r2.st.order = r.st.order
    BY <1>1, <1>3, <1>7 DEF FailsHistory, AnswersHistory, FailsCheck, AnswersCheck, RefundState
  <2> QED
    BY <2>1, <2>2 DEF Class
<1>8. CASE Discards(v, k, r, r2)
  <2>1. r.next = "discard_plan"
    BY <1>8 DEF Discards
  <2>2. /\ r2.st.intent = r.st.intent /\ r2.st.order_id = r.st.order_id /\ r2.st.refund_type = None
        /\ r2.st.order = r.st.order
    <3>1. r2.st = [r.st EXCEPT !.refund_type = None, !.refund_amount = None]
      BY <1>3, <1>8 DEF Discards
    <3> QED
      BY <1>1, <3>1 DEF RefundState
  <2> QED
    BY <2>1, <2>2 DEF Class
<1>9. CASE Computes(v, k, r, r2) \/ Speculates(v, k, r, r2)
  <2>1. r.next = "compute_refund"
    BY <1>9 DEF Computes, Speculates
  <2>2. r2.st.intent = r.st.intent /\ r2.st.order_id = r.st.order_id /\ r2.st.order = r.st.order
    <3>1. CASE Computes(v, k, r, r2)
      <4>1. PICK t, a : r2.st = [r.st EXCEPT !.refund_type = t, !.refund_amount = a]
        BY <1>3, <3>1 DEF Computes
      <4> QED
        BY <1>1, <4>1 DEF RefundState
    <3>2. CASE Speculates(v, k, r, r2)
      BY <1>3, <3>2 DEF Speculates
    <3> QED
      BY <1>9, <3>1, <3>2
  <2> QED
    BY <2>1, <2>2 DEF Class
<1>10. CASE Approves(v, k, r, r2) \/ Refuses(v, k, r, r2) \/ Authorizes(v, k, r, r2)
  <2>1. r.next \in {"request_approval", "authorize_and_issue"}
    BY <1>10 DEF Approves, Refuses, Authorizes
  <2>2. /\ r2.st.intent = r.st.intent /\ r2.st.order_id = r.st.order_id /\ r2.st.refund_type = r.st.refund_type
        /\ r2.st.order = r.st.order
    <3>1. CASE Approves(v, k, r, r2) \/ Refuses(v, k, r, r2)
      BY <1>1, <1>3, <3>1 DEF Approves, Refuses, RefundState
    <3>2. CASE Authorizes(v, k, r, r2)
      <4> DEFINE given == IF r.st.refund_amount > APPROVAL_THRESHOLD THEN [r.st EXCEPT !.approval = Given(k)] ELSE r.st
      <4>1. r2.st = IF Fails(k, Issue) THEN [given EXCEPT !.error = Issue] ELSE [given EXCEPT !.refund_id = r.world.next_refund]
        BY <1>3, <3>2 DEF Authorizes
      <4>2. /\ given.intent = r.st.intent /\ given.order_id = r.st.order_id /\ given.refund_type = r.st.refund_type
            /\ given.order = r.st.order /\ DOMAIN given = DOMAIN r.st
        BY <1>1 DEF RefundState
      <4>3. {"intent", "order_id", "refund_type", "order"} \subseteq DOMAIN r.st
        BY <1>1 DEF RefundState
      <4> HIDE DEF given
      <4> QED
        BY <4>1, <4>2, <4>3
    <3> QED
      BY <1>10, <3>1, <3>2
  <2> QED
    BY <2>1, <2>2 DEF Class
<1>11. CASE StopsIssue(v, k, r, r2) \/ Issues1(v, k, r, r2) \/ FailsIssue(v, k, r, r2)
  <2>1. r.next = "issue_refund"
    BY <1>11 DEF StopsIssue, Issues1, FailsIssue
  <2>2. /\ r2.st.intent = r.st.intent /\ r2.st.order_id = r.st.order_id /\ r2.st.refund_type = r.st.refund_type
        /\ r2.st.order = r.st.order
    <3>1. PICK e : r2.st = [r.st EXCEPT !.error = e] \/ r2.st = [r.st EXCEPT !.refund_id = e]
      <4>1. CASE StopsIssue(v, k, r, r2)
        BY <1>3, <4>1 DEF StopsIssue
      <4>2. CASE Issues1(v, k, r, r2)
        BY <1>3, <4>2 DEF Issues1
      <4>3. CASE FailsIssue(v, k, r, r2)
        BY <1>3, <4>3 DEF FailsIssue
      <4> QED
        BY <1>11, <4>1, <4>2, <4>3
    <3> QED
      BY <1>1, <3>1 DEF RefundState
  <2> QED
    BY <2>1, <2>2 DEF Class
<1>12. CASE Reconciles(v, k, r, r2) \/ Responds(v, k, r, r2)
  <2>1. r.next \in {"reconcile", "respond"} /\ r2.st = r.st
    BY <1>3, <1>12 DEF Reconciles, Responds
  <2> QED
    BY <2>1
<1> QED
  BY <1>5, <1>6, <1>7, <1>8, <1>9, <1>10, <1>11, <1>12 DEF Superstep

(* A step of a run keeps it in the table, and only adds to the recording. *)
LEMMA RunKeeps ==
  ASSUME NEW v \in PAIRED, NEW k \in Case, NEW r, NEW r2, NEW rec, NEW rec2, NEW phase, NEW phaseTo, NEW answer, NEW answerTo,
         RunInv(v, k, r, rec, phase, answer), RunStep(v, k, r, r2, rec, rec2, phase, phaseTo, answer, answerTo),
         OneEach(rec.compute)
  PROVE  /\ RunInv(v, k, r2, rec2, phaseTo, answerTo) /\ OneEach(rec2.compute)
         /\ rec.classify \in {None, rec2.classify} /\ rec.compute \subseteq rec2.compute
<1>1. /\ Typed(r) /\ Class(r.st) \in Classes \cup {Class(EmptyState)}
      /\ r.next # "classify_request" => Class(r.st) \in Classes
      /\ InTable(v, k, r) /\ answer \in {None, "spent", Given(k)} /\ Drawn(r, rec)
  BY DEF RunInv, RunStep
<1>2. phaseTo \in {"running", "paused", "done", "crashed"} /\ answerTo \in {None, "spent", Given(k)}
  BY <1>1 DEF RunStep
<1>3. CASE Superstep(v, k, r, r2) /\ Records(r, r2, rec, rec2)
           /\ phaseTo \in {"crashed", IF r2.next = "END" THEN "done" ELSE "running"}
  <2>1. Typed(r2) /\ InTable(v, k, r2)
    BY <1>1, <1>3, SuperstepTable
  <2>2. /\ r2.next # "classify_request"
        /\ r.next # "classify_request" => Class(r2.st) = Class(r.st)
        /\ r.next = "classify_request" => Class(r2.st) \in Classes
        /\ r.next \in {"classify_request", "lookup_order", "gate"} => r2.st.refund_type = None
        /\ r.next \notin {"classify_request", "lookup_order", "gate"} => r2.st.order = r.st.order
        /\ r.next # "compute_refund" => r2.st.refund_type \in {None, r.st.refund_type}
    BY <1>1, <1>3, SuperstepKeeps
  <2>3. Class(r2.st) \in Classes
    BY <1>1, <2>2
  <2>4. rec2.classify = Class(r2.st) /\ rec.classify \in {None, rec2.classify}
    BY <1>1, <1>3, <2>2 DEF Records, Drawn
  <2>5. phaseTo = "done" => r2.next = "END"
    BY <1>3
  <2>6. CASE r.next = "compute_refund" /\ r2.st.refund_type # None
    <3> DEFINE d == [prompt |-> "COMPUTE_SYSTEM", price |-> r.st.order.price, type |-> r2.st.refund_type]
    <3>1. rec2.compute = rec.compute \cup {d} /\ {e \in rec.compute : e.prompt = d.prompt /\ e.price = d.price} \subseteq {d}
      BY <1>3, <2>6 DEF Records
    <3>2. Planned1(r2) = d
      BY <2>2, <2>6 DEF Planned1
    <3> HIDE DEF d
    <3>3. OneEach(rec2.compute)
      BY <3>1 DEF OneEach
    <3>4. Drawn(r2, rec2)
      BY <2>4, <3>1, <3>2 DEF Drawn
    <3> QED
      BY <1>2, <2>1, <2>3, <2>4, <2>5, <3>1, <3>3, <3>4 DEF RunInv
  <2>7. CASE r.next # "compute_refund" \/ r2.st.refund_type = None
    <3>1. rec2.compute = rec.compute
      BY <1>3, <2>7 DEF Records
    <3>2. r2.st.refund_type # None => r2.st.refund_type = r.st.refund_type /\ r2.st.order = r.st.order
      BY <2>2, <2>7
    <3>3. Drawn(r2, rec2)
      BY <1>1, <2>4, <3>1, <3>2 DEF Drawn, Planned1
    <3> QED
      BY <1>2, <2>1, <2>3, <2>4, <2>5, <3>1, <3>3 DEF RunInv
  <2> QED
    BY <2>6, <2>7
<1>4. CASE phaseTo = "crashed" /\ r2.st = r.st /\ r2.next = r.next /\ r2.world \in World
           /\ rec2.classify = rec.classify /\ rec2.compute = rec.compute
  <2>1. Typed(r2) /\ Drawn(r2, rec2)
    BY <1>1, <1>4 DEF Typed, Drawn, Planned1
  <2> QED
    BY <1>1, <1>2, <1>4, <2>1 DEF RunInv
<1>5. CASE r2 = r /\ phaseTo \in {"running", "paused"}
           /\ rec2.classify = rec.classify /\ rec2.compute = rec.compute
  <2>1. Drawn(r2, rec2)
    BY <1>1, <1>5 DEF Drawn
  <2> QED
    BY <1>1, <1>2, <1>5, <2>1 DEF RunInv
<1> QED
  BY <1>3, <1>4, <1>5 DEF RunStep

(* What the other run adds to the recording leaves a run as it is. *)
LEMMA RecordingGrows ==
  ASSUME NEW v, NEW k, NEW r, NEW rec, NEW rec2, NEW phase, NEW answer, RunInv(v, k, r, rec, phase, answer),
         rec.classify \in {None, rec2.classify}, rec.compute \subseteq rec2.compute
  PROVE  RunInv(v, k, r, rec2, phase, answer)
<1>1. None \notin Classes
  BY PairAssumption DEF Classes
<1>2. Drawn(r, rec2)
  BY <1>1 DEF RunInv, Drawn
<1> QED
  BY <1>2 DEF RunInv

-----------------------------------------------------------------------------
(* The two runs of a pair as run records, and the invariant of the pair: both are in the table, *)
(* over one recording.                                                                          *)
RunOf(s, w, node, marks, said) == [st |-> s, world |-> w, next |-> node, fired |-> marks, reply |-> said]

(* The baseline's run and the variant's. *)
Run1 == RunOf(st1, world1, next1, fired1, reply1)

Run2 == RunOf(st2, world2, next2, fired2, reply2)

(* The fields of the recording both runs draw from. *)
RECORDING == {"classify", "compute", "text"}

(* Each run keeps the table. *)
BaseIn == RunInv("baseline", case, Run1, recording, phase1, answer1)

OtherIn == RunInv(variant, case, Run2, recording, phase2, answer2)

(* The inductive invariant of a pair. *)
PairInv ==
  /\ case \in Cases /\ variant \in Variants \cup {"baseline"}
  /\ DOMAIN recording = RECORDING /\ OneEach(recording.compute)
  /\ BaseIn
  /\ IF variant = "baseline" THEN Other!Start ELSE OtherIn

(* The baseline's copies of the operators on worlds and of the routers are those operators. *)
LEMMA BaseOperators ==
  /\ \A k, tool : Base!Fails(k, tool) = Fails(k, tool)
  /\ \A w, k, tool : Base!Logged(w, k, tool) = Logged(w, k, tool)
  /\ \A w, k, o : Base!AfterLookup(w, k, o) = AfterLookup(w, k, o)
  /\ \A w, o, filter : Base!SelectOrder(w, o, filter) = SelectOrder(w, o, filter)
  /\ \A w, k : Base!RefundHistory(w, k) = RefundHistory(w, k)
  /\ \A row, prior, window : Base!Eligibility(row, prior, window) = Eligibility(row, prior, window)
  /\ \A w, k, o, t, a : Base!AfterIssue(w, k, o, t, a) = AfterIssue(w, k, o, t, a)
  /\ \A t, price : Base!RefundAmount(t, price) = RefundAmount(t, price)
  /\ \A t, price : Base!TruncatedAmount(t, price) = TruncatedAmount(t, price)
  /\ \A v, node, s : Base!Route(v, node, s) = Route(v, node, s)
  /\ \A v, node, s : Base!RouteMarks(v, node, s) = RouteMarks(v, node, s)
  /\ \A k : Base!SeedWorld(k) = SeedWorld(k)
  /\ Base!EmptyState = EmptyState
<1>1. \A k, tool : Base!Fails(k, tool) = Fails(k, tool)
  BY DEF Base!Fails, Fails
<1>2. \A w, k, tool : Base!Logged(w, k, tool) = Logged(w, k, tool)
  BY <1>1 DEF Base!Logged, Logged
<1>3. \A w, k, o : Base!AfterLookup(w, k, o) = AfterLookup(w, k, o)
  <2>1. \A w, k, o : Base!Repriced(w, k, o) = Repriced(w, k, o)
    BY DEF Base!Repriced, Repriced
  <2> QED
    BY <1>1, <1>2, <2>1 DEF Base!AfterLookup, AfterLookup
<1>4. \A w, o, filter : Base!SelectOrder(w, o, filter) = SelectOrder(w, o, filter)
  BY DEF Base!SelectOrder, SelectOrder
<1>5. \A w, k : Base!RefundHistory(w, k) = RefundHistory(w, k)
  <2>1. \A S : Base!Cardinality(S) = Cardinality(S)
    BY DEF Base!Cardinality, Cardinality
  <2> QED
    BY <2>1 DEF Base!RefundHistory, RefundHistory
<1>6. \A row, prior, window : Base!Eligibility(row, prior, window) = Eligibility(row, prior, window)
  BY DEF Base!Eligibility, Eligibility
<1>7. \A w, k, o, t, a : Base!AfterIssue(w, k, o, t, a) = AfterIssue(w, k, o, t, a)
  BY <1>1, <1>2, ZenonT(60) DEF Base!AfterIssue, AfterIssue
<1>8. \A t, price : Base!RefundAmount(t, price) = RefundAmount(t, price)
  BY DEF Base!RefundAmount, RefundAmount, Base!HalfOf, HalfOf
<1>9. \A t, price : Base!TruncatedAmount(t, price) = TruncatedAmount(t, price)
  BY DEF Base!TruncatedAmount, TruncatedAmount
<1>10. \A v, node, s : Base!Route(v, node, s) = Route(v, node, s)
  <2>1. \A v, s : Base!AfterCompute(v, s) = AfterCompute(v, s)
    BY DEF Base!AfterCompute, AfterCompute
  <2>2. \A v, s : Base!EntersFastPath(v, s) = EntersFastPath(v, s)
    BY DEF Base!EntersFastPath, EntersFastPath
  <2>3. \A v, s : Base!AfterEligibility(v, s) = AfterEligibility(v, s)
    BY <2>1, <2>2 DEF Base!AfterEligibility, AfterEligibility
  <2>4. \A v, s : /\ Base!AfterClassify(v, s) = AfterClassify(v, s) /\ Base!AfterHistory(v, s) = AfterHistory(v, s)
                  /\ Base!AfterApproval(v, s) = AfterApproval(v, s) /\ Base!AfterGate(s) = AfterGate(s)
    BY DEF Base!AfterClassify, AfterClassify, Base!AfterHistory, AfterHistory, Base!AfterApproval, AfterApproval,
           Base!AfterGate, AfterGate
  <2>5. \A v, s : Base!AfterLookupNode(v, s) = AfterLookupNode(v, s)
    BY DEF Base!AfterLookupNode, AfterLookupNode, Base!ToolNames, ToolNames
  <2> QED
    BY <2>1, <2>3, <2>4, <2>5, ZenonT(60) DEF Base!Route, Route
<1>11. \A v, node, s : Base!RouteMarks(v, node, s) = RouteMarks(v, node, s)
  BY DEF Base!RouteMarks, RouteMarks, Base!EntersFastPath, EntersFastPath
<1>12. \A k : Base!SeedWorld(k) = SeedWorld(k)
  BY DEF Base!SeedWorld, SeedWorld
<1>13. Base!EmptyState = EmptyState
  BY DEF Base!EmptyState, EmptyState
<1> QED
  BY <1>1, <1>2, <1>3, <1>4, <1>5, <1>6, <1>7, <1>8, <1>9, <1>10, <1>11, <1>12, <1>13

(* The end of a superstep of the baseline's run, on its record. *)
LEMMA BaseMoves ==
  ASSUME NEW node, NEW s, NEW w, NEW marks, next1 = node, Base!Step(node, s, w, marks)
  PROVE  /\ Moves("baseline", Run1, Run1', s, w, marks)
         /\ phase1' \in {"crashed", IF Run1'.next = "END" THEN "done" ELSE "running"}
         /\ answer1' \in {answer1, "spent"} /\ case' = case
<1>1. /\ Run1.next = next1 /\ Run1.fired = fired1
      /\ Run1'.st = st1' /\ Run1'.world = world1' /\ Run1'.next = next1' /\ Run1'.fired = fired1'
  BY DEF Run1, RunOf
<1> QED
  BY <1>1, BaseOperators DEF Base!Step, Moves

(* What an action of the baseline's run is, when it is a superstep. *)
BaseSupersteps ==
  /\ Superstep("baseline", case, Run1, Run1') /\ Records(Run1, Run1', recording, recording')
  /\ phase1 = "running" /\ phase1' \in {"crashed", IF Run1'.next = "END" THEN "done" ELSE "running"}
  /\ answer1' \in {answer1, "spent"} /\ case' = case /\ DOMAIN recording' = RECORDING

(* The supersteps of the baseline's run that call no model, up to the plan. *)
LEMMA BaseReads ==
  ASSUME DOMAIN recording = RECORDING,
         \/ Base!LookupOrderFails \/ Base!LookupOrderAnswers \/ Base!FetchContext
         \/ Base!HistoryFails \/ Base!HistoryAnswers \/ Base!EligibilityFails \/ Base!EligibilityAnswers
         \/ Base!Gate \/ Base!DiscardPlan
  PROVE  BaseSupersteps
<1>1. Run1.st = st1 /\ Run1.world = world1 /\ Run1.next = next1 /\ Run1.fired = fired1
  BY DEF Run1, RunOf
<1>2. /\ phase1 = "running" /\ recording' = recording
      /\ next1 \in {"lookup_order", "get_refund_history", "check_eligibility", "gate", "discard_plan"}
  BY DEF Base!LookupOrderFails, Base!LookupOrderAnswers, Base!FetchContext, Base!HistoryFails, Base!HistoryAnswers,
         Base!EligibilityFails, Base!EligibilityAnswers, Base!Gate, Base!DiscardPlan, Base!At, Base!Quiet
<1>3. Records(Run1, Run1', recording, recording')
  BY <1>1, <1>2 DEF Records
<1> DEFINE Rest == /\ phase1' \in {"crashed", IF Run1'.next = "END" THEN "done" ELSE "running"}
                   /\ answer1' \in {answer1, "spent"} /\ case' = case
<1>4. ASSUME NEW node, NEW s, NEW w, NEW marks, next1 = node, Base!Step(node, s, w, marks)
      PROVE  Moves("baseline", Run1, Run1', s, w, marks) /\ Rest
  BY <1>4, BaseMoves
<1> HIDE DEF Rest
<1>5. CASE Base!LookupOrderFails
  <2>1. LookupFails("baseline", case, Run1, Run1') /\ Rest
    BY <1>1, <1>4, BaseOperators, <1>5 DEF Base!LookupOrderFails, Base!At, Base!Failed, Base!AfterFailedRead, Base!RetryMarks,
                            LookupFails, FailedRead, Retries, Lookup
  <2> QED
    BY <1>2, <1>3, <2>1 DEF Superstep, BaseSupersteps, Rest
<1>6. CASE Base!LookupOrderAnswers
  <2>1. LookupAnswers("baseline", case, Run1, Run1') /\ Rest
    BY <1>1, <1>4, BaseOperators, <1>6 DEF Base!LookupOrderAnswers, Base!At, LookupAnswers, Lookup
  <2> QED
    BY <1>2, <1>3, <2>1 DEF Superstep, BaseSupersteps, Rest
<1>7. CASE Base!FetchContext
  <2>1. Fetches("baseline", case, Run1, Run1') /\ Rest
    BY <1>1, <1>4, BaseOperators, <1>7 DEF Base!FetchContext, Base!At, Base!Failed, Fetches, Lookup, History
  <2> QED
    BY <1>2, <1>3, <2>1 DEF Superstep, BaseSupersteps, Rest
<1>8. CASE Base!HistoryFails
  <2>1. FailsHistory("baseline", case, Run1, Run1') /\ Rest
    BY <1>1, <1>4, BaseOperators, <1>8 DEF Base!HistoryFails, Base!At, Base!Failed, Base!AfterFailedRead, Base!RetryMarks,
                            FailsHistory, FailedRead, Retries, History
  <2> QED
    BY <1>2, <1>3, <2>1 DEF Superstep, BaseSupersteps, Rest
<1>9. CASE Base!HistoryAnswers
  <2>1. AnswersHistory("baseline", case, Run1, Run1') /\ Rest
    BY <1>1, <1>4, BaseOperators, <1>9 DEF Base!HistoryAnswers, Base!At, AnswersHistory, History
  <2> QED
    BY <1>2, <1>3, <2>1 DEF Superstep, BaseSupersteps, Rest
<1>10. CASE Base!EligibilityFails
  <2>1. Base!AfterRedundantReads(world1) = RedundantReads("baseline", case, Run1) /\ Base!CheckMarks = MarksOfCheck("baseline", Run1)
    BY <1>1, BaseOperators DEF Base!AfterRedundantReads, Base!CheckMarks, RedundantReads, MarksOfCheck, History
  <2>2. FailsCheck("baseline", case, Run1, Run1') /\ Rest
    BY <1>1, <1>4, BaseOperators, <1>10, <2>1 DEF Base!EligibilityFails, Base!At, Base!Failed, Base!RetryMarks,
                                   FailsCheck, FailedRead, Retries, Check
  <2> QED
    BY <1>2, <1>3, <2>2 DEF Superstep, BaseSupersteps, Rest
<1>11. CASE Base!EligibilityAnswers
  <2>1. Base!AfterRedundantReads(world1) = RedundantReads("baseline", case, Run1) /\ Base!CheckMarks = MarksOfCheck("baseline", Run1)
    BY <1>1, BaseOperators DEF Base!AfterRedundantReads, Base!CheckMarks, RedundantReads, MarksOfCheck, History
  <2>2. AnswersCheck("baseline", case, Run1, Run1') /\ Rest
    BY <1>1, <1>4, BaseOperators, <1>11, <2>1 DEF Base!EligibilityAnswers, Base!At, Base!PriorRefunds, Base!WindowDays, AnswersCheck, Check
  <2> QED
    BY <1>2, <1>3, <2>2 DEF Superstep, BaseSupersteps, Rest
<1>12. CASE Base!Gate
  <2>1. PassesGate("baseline", case, Run1, Run1') /\ Rest
    BY <1>1, <1>4, BaseOperators, <1>12 DEF Base!Gate, Base!At, Base!Failed, PassesGate, Lookup, History, Check
  <2> QED
    BY <1>2, <1>3, <2>1 DEF Superstep, BaseSupersteps, Rest
<1>13. CASE Base!DiscardPlan
  <2>1. Discards("baseline", case, Run1, Run1') /\ Rest
    BY <1>1, <1>4, BaseOperators, <1>13 DEF Base!DiscardPlan, Base!At, Discards
  <2> QED
    BY <1>2, <1>3, <2>1 DEF Superstep, BaseSupersteps, Rest
<1> QED
  BY <1>5, <1>6, <1>7, <1>8, <1>9, <1>10, <1>11, <1>12, <1>13

(* The variant's copies of the operators on worlds and of the routers are those operators. *)
LEMMA OtherOperators ==
  /\ \A k, tool : Other!Fails(k, tool) = Fails(k, tool)
  /\ \A w, k, tool : Other!Logged(w, k, tool) = Logged(w, k, tool)
  /\ \A w, k, o : Other!AfterLookup(w, k, o) = AfterLookup(w, k, o)
  /\ \A w, o, filter : Other!SelectOrder(w, o, filter) = SelectOrder(w, o, filter)
  /\ \A w, k : Other!RefundHistory(w, k) = RefundHistory(w, k)
  /\ \A row, prior, window : Other!Eligibility(row, prior, window) = Eligibility(row, prior, window)
  /\ \A w, k, o, t, a : Other!AfterIssue(w, k, o, t, a) = AfterIssue(w, k, o, t, a)
  /\ \A t, price : Other!RefundAmount(t, price) = RefundAmount(t, price)
  /\ \A t, price : Other!TruncatedAmount(t, price) = TruncatedAmount(t, price)
  /\ \A v, node, s : Other!Route(v, node, s) = Route(v, node, s)
  /\ \A v, node, s : Other!RouteMarks(v, node, s) = RouteMarks(v, node, s)
  /\ \A k : Other!SeedWorld(k) = SeedWorld(k)
  /\ Other!EmptyState = EmptyState
<1>1. \A k, tool : Other!Fails(k, tool) = Fails(k, tool)
  BY DEF Other!Fails, Fails
<1>2. \A w, k, tool : Other!Logged(w, k, tool) = Logged(w, k, tool)
  BY <1>1 DEF Other!Logged, Logged
<1>3. \A w, k, o : Other!AfterLookup(w, k, o) = AfterLookup(w, k, o)
  <2>1. \A w, k, o : Other!Repriced(w, k, o) = Repriced(w, k, o)
    BY DEF Other!Repriced, Repriced
  <2> QED
    BY <1>1, <1>2, <2>1 DEF Other!AfterLookup, AfterLookup
<1>4. \A w, o, filter : Other!SelectOrder(w, o, filter) = SelectOrder(w, o, filter)
  BY DEF Other!SelectOrder, SelectOrder
<1>5. \A w, k : Other!RefundHistory(w, k) = RefundHistory(w, k)
  <2>1. \A S : Other!Cardinality(S) = Cardinality(S)
    BY DEF Other!Cardinality, Cardinality
  <2> QED
    BY <2>1 DEF Other!RefundHistory, RefundHistory
<1>6. \A row, prior, window : Other!Eligibility(row, prior, window) = Eligibility(row, prior, window)
  BY DEF Other!Eligibility, Eligibility
<1>7. \A w, k, o, t, a : Other!AfterIssue(w, k, o, t, a) = AfterIssue(w, k, o, t, a)
  BY <1>1, <1>2, ZenonT(60) DEF Other!AfterIssue, AfterIssue
<1>8. \A t, price : Other!RefundAmount(t, price) = RefundAmount(t, price)
  BY DEF Other!RefundAmount, RefundAmount, Other!HalfOf, HalfOf
<1>9. \A t, price : Other!TruncatedAmount(t, price) = TruncatedAmount(t, price)
  BY DEF Other!TruncatedAmount, TruncatedAmount
<1>10. \A v, node, s : Other!Route(v, node, s) = Route(v, node, s)
  <2>1. \A v, s : Other!AfterCompute(v, s) = AfterCompute(v, s)
    BY DEF Other!AfterCompute, AfterCompute
  <2>2. \A v, s : Other!EntersFastPath(v, s) = EntersFastPath(v, s)
    BY DEF Other!EntersFastPath, EntersFastPath
  <2>3. \A v, s : Other!AfterEligibility(v, s) = AfterEligibility(v, s)
    BY <2>1, <2>2 DEF Other!AfterEligibility, AfterEligibility
  <2>4. \A v, s : /\ Other!AfterClassify(v, s) = AfterClassify(v, s) /\ Other!AfterHistory(v, s) = AfterHistory(v, s)
                  /\ Other!AfterApproval(v, s) = AfterApproval(v, s) /\ Other!AfterGate(s) = AfterGate(s)
    BY DEF Other!AfterClassify, AfterClassify, Other!AfterHistory, AfterHistory, Other!AfterApproval, AfterApproval,
           Other!AfterGate, AfterGate
  <2>5. \A v, s : Other!AfterLookupNode(v, s) = AfterLookupNode(v, s)
    BY DEF Other!AfterLookupNode, AfterLookupNode, Other!ToolNames, ToolNames
  <2> QED
    BY <2>1, <2>3, <2>4, <2>5, ZenonT(60) DEF Other!Route, Route
<1>11. \A v, node, s : Other!RouteMarks(v, node, s) = RouteMarks(v, node, s)
  BY DEF Other!RouteMarks, RouteMarks, Other!EntersFastPath, EntersFastPath
<1>12. \A k : Other!SeedWorld(k) = SeedWorld(k)
  BY DEF Other!SeedWorld, SeedWorld
<1>13. Other!EmptyState = EmptyState
  BY DEF Other!EmptyState, EmptyState
<1> QED
  BY <1>1, <1>2, <1>3, <1>4, <1>5, <1>6, <1>7, <1>8, <1>9, <1>10, <1>11, <1>12, <1>13

(* The end of a superstep of the variant's run, on its record. *)
LEMMA OtherMoves ==
  ASSUME NEW node, NEW s, NEW w, NEW marks, next2 = node, Other!Step(node, s, w, marks)
  PROVE  /\ Moves(variant, Run2, Run2', s, w, marks)
         /\ phase2' \in {"crashed", IF Run2'.next = "END" THEN "done" ELSE "running"}
         /\ answer2' \in {answer2, "spent"} /\ case' = case /\ variant' = variant
<1>1. /\ Run2.next = next2 /\ Run2.fired = fired2
      /\ Run2'.st = st2' /\ Run2'.world = world2' /\ Run2'.next = next2' /\ Run2'.fired = fired2'
  BY DEF Run2, RunOf
<1> QED
  BY <1>1, OtherOperators DEF Other!Step, Moves

(* What an action of the variant's run is, when it is a superstep. *)
OtherSupersteps ==
  /\ Superstep(variant, case, Run2, Run2') /\ Records(Run2, Run2', recording, recording')
  /\ phase2 = "running" /\ phase2' \in {"crashed", IF Run2'.next = "END" THEN "done" ELSE "running"}
  /\ answer2' \in {answer2, "spent"} /\ case' = case /\ variant' = variant /\ DOMAIN recording' = RECORDING

(* The supersteps of the variant's run that call no model, up to the plan. *)
LEMMA OtherReads ==
  ASSUME DOMAIN recording = RECORDING,
         \/ Other!LookupOrderFails \/ Other!LookupOrderAnswers \/ Other!FetchContext
         \/ Other!HistoryFails \/ Other!HistoryAnswers \/ Other!EligibilityFails \/ Other!EligibilityAnswers
         \/ Other!Gate \/ Other!DiscardPlan
  PROVE  OtherSupersteps
<1>1. Run2.st = st2 /\ Run2.world = world2 /\ Run2.next = next2 /\ Run2.fired = fired2
  BY DEF Run2, RunOf
<1>2. /\ phase2 = "running" /\ recording' = recording
      /\ next2 \in {"lookup_order", "get_refund_history", "check_eligibility", "gate", "discard_plan"}
  BY DEF Other!LookupOrderFails, Other!LookupOrderAnswers, Other!FetchContext, Other!HistoryFails, Other!HistoryAnswers,
         Other!EligibilityFails, Other!EligibilityAnswers, Other!Gate, Other!DiscardPlan, Other!At, Other!Quiet
<1>3. Records(Run2, Run2', recording, recording')
  BY <1>1, <1>2 DEF Records
<1> DEFINE Rest == /\ phase2' \in {"crashed", IF Run2'.next = "END" THEN "done" ELSE "running"}
                   /\ answer2' \in {answer2, "spent"} /\ case' = case /\ variant' = variant
<1>4. ASSUME NEW node, NEW s, NEW w, NEW marks, next2 = node, Other!Step(node, s, w, marks)
      PROVE  Moves(variant, Run2, Run2', s, w, marks) /\ Rest
  BY <1>4, OtherMoves
<1> HIDE DEF Rest
<1>5. CASE Other!LookupOrderFails
  <2>1. LookupFails(variant, case, Run2, Run2') /\ Rest
    BY <1>1, <1>4, OtherOperators, <1>5 DEF Other!LookupOrderFails, Other!At, Other!Failed, Other!AfterFailedRead, Other!RetryMarks,
                            LookupFails, FailedRead, Retries, Lookup
  <2> QED
    BY <1>2, <1>3, <2>1 DEF Superstep, OtherSupersteps, Rest
<1>6. CASE Other!LookupOrderAnswers
  <2>1. LookupAnswers(variant, case, Run2, Run2') /\ Rest
    BY <1>1, <1>4, OtherOperators, <1>6 DEF Other!LookupOrderAnswers, Other!At, LookupAnswers, Lookup
  <2> QED
    BY <1>2, <1>3, <2>1 DEF Superstep, OtherSupersteps, Rest
<1>7. CASE Other!FetchContext
  <2>1. Fetches(variant, case, Run2, Run2') /\ Rest
    BY <1>1, <1>4, OtherOperators, <1>7 DEF Other!FetchContext, Other!At, Other!Failed, Fetches, Lookup, History
  <2> QED
    BY <1>2, <1>3, <2>1 DEF Superstep, OtherSupersteps, Rest
<1>8. CASE Other!HistoryFails
  <2>1. FailsHistory(variant, case, Run2, Run2') /\ Rest
    BY <1>1, <1>4, OtherOperators, <1>8 DEF Other!HistoryFails, Other!At, Other!Failed, Other!AfterFailedRead, Other!RetryMarks,
                            FailsHistory, FailedRead, Retries, History
  <2> QED
    BY <1>2, <1>3, <2>1 DEF Superstep, OtherSupersteps, Rest
<1>9. CASE Other!HistoryAnswers
  <2>1. AnswersHistory(variant, case, Run2, Run2') /\ Rest
    BY <1>1, <1>4, OtherOperators, <1>9 DEF Other!HistoryAnswers, Other!At, AnswersHistory, History
  <2> QED
    BY <1>2, <1>3, <2>1 DEF Superstep, OtherSupersteps, Rest
<1>10. CASE Other!EligibilityFails
  <2>1. Other!AfterRedundantReads(world2) = RedundantReads(variant, case, Run2) /\ Other!CheckMarks = MarksOfCheck(variant, Run2)
    BY <1>1, OtherOperators DEF Other!AfterRedundantReads, Other!CheckMarks, RedundantReads, MarksOfCheck, History
  <2>2. FailsCheck(variant, case, Run2, Run2') /\ Rest
    BY <1>1, <1>4, OtherOperators, <1>10, <2>1 DEF Other!EligibilityFails, Other!At, Other!Failed, Other!RetryMarks,
                                   FailsCheck, FailedRead, Retries, Check
  <2> QED
    BY <1>2, <1>3, <2>2 DEF Superstep, OtherSupersteps, Rest
<1>11. CASE Other!EligibilityAnswers
  <2>1. Other!AfterRedundantReads(world2) = RedundantReads(variant, case, Run2) /\ Other!CheckMarks = MarksOfCheck(variant, Run2)
    BY <1>1, OtherOperators DEF Other!AfterRedundantReads, Other!CheckMarks, RedundantReads, MarksOfCheck, History
  <2>2. AnswersCheck(variant, case, Run2, Run2') /\ Rest
    BY <1>1, <1>4, OtherOperators, <1>11, <2>1 DEF Other!EligibilityAnswers, Other!At, Other!PriorRefunds, Other!WindowDays, AnswersCheck, Check
  <2> QED
    BY <1>2, <1>3, <2>2 DEF Superstep, OtherSupersteps, Rest
<1>12. CASE Other!Gate
  <2>1. PassesGate(variant, case, Run2, Run2') /\ Rest
    BY <1>1, <1>4, OtherOperators, <1>12 DEF Other!Gate, Other!At, Other!Failed, PassesGate, Lookup, History, Check
  <2> QED
    BY <1>2, <1>3, <2>1 DEF Superstep, OtherSupersteps, Rest
<1>13. CASE Other!DiscardPlan
  <2>1. Discards(variant, case, Run2, Run2') /\ Rest
    BY <1>1, <1>4, OtherOperators, <1>13 DEF Other!DiscardPlan, Other!At, Discards
  <2> QED
    BY <1>2, <1>3, <2>1 DEF Superstep, OtherSupersteps, Rest
<1> QED
  BY <1>5, <1>6, <1>7, <1>8, <1>9, <1>10, <1>11, <1>12, <1>13


(* The supersteps of the baseline's run that call a model, ... *)
LEMMA BaseDraws ==
  ASSUME DOMAIN recording = RECORDING, "baseline" \in PAIRED, case \in Case, BaseIn,
         Base!ClassifyRequest \/ Base!ComputeRefund \/ Base!SpeculationFails \/ Base!Respond
  PROVE  BaseSupersteps
<1>1. Run1.st = st1 /\ Run1.world = world1 /\ Run1.next = next1 /\ Run1.fired = fired1
  BY DEF Run1, RunOf
<1>2. phase1 = "running"
  BY DEF Base!ClassifyRequest, Base!ComputeRefund, Base!SpeculationFails, Base!Respond, Base!At
<1>3. st1 \in RefundState /\ InTable("baseline", case, Run1) /\ Typed(Run1)
  BY <1>1, <1>2 DEF BaseIn, RunInv, Typed
<1> DEFINE Rest == /\ phase1' \in {"crashed", IF Run1'.next = "END" THEN "done" ELSE "running"}
                   /\ answer1' \in {answer1, "spent"} /\ case' = case
<1>4. ASSUME NEW node, NEW s, NEW w, NEW marks, next1 = node, Base!Step(node, s, w, marks)
      PROVE  Moves("baseline", Run1, Run1', s, w, marks) /\ Rest
  BY <1>4, BaseMoves
<1> HIDE DEF Rest
<1>5. CASE Base!ClassifyRequest
  <2>1. PICK c \in Base!Classification :
          /\ recording.classify \in {None, c} /\ recording' = [recording EXCEPT !.classify = c]
          /\ Base!Step("classify_request", [st1 EXCEPT !.intent = c.intent, !.order_id = c.order_id], world1, {})
    BY <1>5 DEF Base!ClassifyRequest
  <2>2. next1 = "classify_request"
    BY <1>5 DEF Base!ClassifyRequest, Base!At
  <2> DEFINE s == [st1 EXCEPT !.intent = c.intent, !.order_id = c.order_id]
  <2>3. Moves("baseline", Run1, Run1', s, world1, {}) /\ Rest
    BY <1>4, <2>1, <2>2
  <2>4. c \in Classes
    BY <2>1 DEF Base!Classification, Classes, Base!Intents, Intents
  <2>5. Classifies("baseline", case, Run1, Run1')
    BY <1>1, <2>2, <2>3, <2>4 DEF Classifies
  <2>6. recording'.classify = c /\ recording'.compute = recording.compute /\ DOMAIN recording' = RECORDING
    BY <2>1 DEF RECORDING
  <2>7. Class(Run1'.st) = c
    <3>1. Run1'.st = s /\ s.intent = c.intent /\ s.order_id = c.order_id
      BY <1>3, <2>3 DEF Moves, RefundState
    <3> QED
      BY <2>4, <3>1 DEF Class, Classes
  <2>8. Records(Run1, Run1', recording, recording')
    BY <1>1, <2>1, <2>2, <2>6, <2>7 DEF Records
  <2> QED
    BY <1>2, <2>3, <2>5, <2>6, <2>8 DEF Superstep, BaseSupersteps, Rest
<1>6. CASE Base!ComputeRefund
  <2>1. Base!ComputePrompt = "COMPUTE_SYSTEM"
    BY DEF Base!ComputePrompt, Base!CHANGES, PAIRED, CHANGES
  <2>2. PICK t \in RefundTypes :
          LET d == [prompt |-> "COMPUTE_SYSTEM", price |-> st1.order.price, type |-> t]
          IN /\ Base!Recorded \subseteq {d} /\ recording' = [recording EXCEPT !.compute = @ \cup {d}]
             /\ Base!Step("compute_refund",
                         [st1 EXCEPT !.refund_type = t, !.refund_amount = Base!PlannedAmount(t, st1.order.price)],
                         Base!AfterPrelude, Base!PreludeMarks \cup Base!AmountMarks(t, st1.order.price))
    BY <1>6, <2>1 DEF Base!ComputeRefund, Base!RefundTypes, RefundTypes
  <2>3. next1 = "compute_refund"
    BY <1>6 DEF Base!ComputeRefund, Base!At
  <2> DEFINE d == [prompt |-> "COMPUTE_SYSTEM", price |-> st1.order.price, type |-> t]
             s == [st1 EXCEPT !.refund_type = t, !.refund_amount = AmountOf("baseline", t, st1.order.price)]
             marks == Redundant("baseline") \cup (IF AmountOf("baseline", t, st1.order.price) # RefundAmount(t, st1.order.price)
                                           THEN {"M5:amount_truncated"} ELSE {})
  <2>4. /\ Base!PlannedAmount(t, st1.order.price) = AmountOf("baseline", t, st1.order.price)
        /\ Base!AfterPrelude = Reread("baseline", case, Run1, {"C"})
        /\ Base!PreludeMarks \cup Base!AmountMarks(t, st1.order.price) = marks
    BY <1>1, BaseOperators DEF Base!PlannedAmount, AmountOf, Base!AfterPrelude, Reread, Base!PreludeMarks, Base!AmountMarks, Redundant
  <2>5. Moves("baseline", Run1, Run1', s, Reread("baseline", case, Run1, {"C"}), marks) /\ Rest
    BY <1>4, <2>2, <2>3, <2>4
  <2>6. Computes("baseline", case, Run1, Run1')
    BY <1>1, <2>3, <2>5 DEF Computes
  <2>7. recording'.classify = recording.classify /\ recording'.compute = recording.compute \cup {d}
        /\ DOMAIN recording' = RECORDING
    BY <2>2 DEF RECORDING
  <2>8. Run1'.st.refund_type = t /\ t # None
    <3>1. Run1'.st = s /\ s.refund_type = t
      BY <1>3, <2>5 DEF Moves, RefundState
    <3> QED
      BY <3>1, NoneAssumption
  <2>9. {e \in recording.compute : e.prompt = d.prompt /\ e.price = d.price} \subseteq {d}
    <3>1. d.prompt = "COMPUTE_SYSTEM" /\ d.price = st1.order.price /\ Base!Recorded \subseteq {d}
      BY <2>2
    <3> HIDE DEF d
    <3> QED
      BY <2>1, <3>1 DEF Base!Recorded
  <2>10. Records(Run1, Run1', recording, recording')
    <3>1. Run1.next # "classify_request" /\ Run1.next = "compute_refund"
      BY <1>1, <2>3
    <3>2. d = [prompt |-> "COMPUTE_SYSTEM", price |-> Run1.st.order.price, type |-> Run1'.st.refund_type]
      BY <1>1, <2>8
    <3> HIDE DEF d
    <3> QED
      BY <2>7, <2>8, <2>9, <3>1, <3>2 DEF Records
  <2> QED
    BY <1>2, <2>5, <2>6, <2>7, <2>10 DEF Superstep, BaseSupersteps, Rest
<1>7. CASE Base!SpeculationFails
  <2>1. next1 = "compute_refund" /\ "baseline" = "V4" /\ st1.eligibility = None /\ recording' = recording
        /\ Base!Step("compute_refund", st1, world1, {})
    BY <1>7 DEF Base!SpeculationFails, Base!At, Base!Speculating, Base!Quiet
  <2>2. Moves("baseline", Run1, Run1', st1, world1, {}) /\ Rest
    BY <1>4, <2>1
  <2>3. Speculates("baseline", case, Run1, Run1')
    BY <1>1, <2>1, <2>2 DEF Speculates
  <2>4. Run1'.st.refund_type = None
    <3>1. Run1.st.refund_type = None
      BY <1>1, <1>3, <2>1, ComputeStarts
    <3> QED
      BY <1>1, <2>2, <3>1 DEF Moves
  <2>5. Records(Run1, Run1', recording, recording')
    BY <1>1, <2>1, <2>4 DEF Records
  <2> QED
    BY <1>2, <2>1, <2>2, <2>3, <2>5 DEF Superstep, BaseSupersteps, Rest
<1>8. CASE Base!Respond
  <2>1. Base!RenderFacts = FactsOf("baseline", st1) /\ (Base!FalseSuccess <=> Lies("baseline", st1))
    BY DEF Base!RenderFacts, Base!FalseSuccess, FactsOf, Lies
  <2>2. /\ next1 = "respond" /\ reply1' = FactsOf("baseline", st1)
        /\ recording' = [recording EXCEPT !.text = @ \cup {Base!RenderFacts}]
        /\ Base!Step("respond", st1, world1, Base!RespondMarks)
    BY <1>8, <2>1 DEF Base!Respond, Base!At
  <2>3. Base!RespondMarks = (IF Lies("baseline", Run1.st) THEN {"B:false_success"} ELSE {})
           \cup (IF "baseline" = "M8" /\ Run1.st.refund_type = "partial" /\ Run1.st.refund_amount # None
                 THEN {"M8:price_rendered_as_amount"} ELSE {})
    BY <1>1, <2>1 DEF Base!RespondMarks
  <2>4. Moves("baseline", Run1, Run1', st1, world1, Base!RespondMarks) /\ Rest
    BY <1>4, <2>2
  <2>5. Run1'.reply = reply1'
    BY DEF Run1, RunOf
  <2>6. Responds("baseline", case, Run1, Run1')
    BY <1>1, <2>2, <2>3, <2>4, <2>5 DEF Responds
  <2>7. recording'.classify = recording.classify /\ recording'.compute = recording.compute /\ DOMAIN recording' = RECORDING
    BY <2>2 DEF RECORDING
  <2>8. Records(Run1, Run1', recording, recording')
    BY <1>1, <2>2, <2>7 DEF Records
  <2> QED
    BY <1>2, <2>4, <2>6, <2>7, <2>8 DEF Superstep, BaseSupersteps, Rest
<1> QED
  BY <1>5, <1>6, <1>7, <1>8

(* ... and those from the plan on. *)
LEMMA BaseWrites ==
  ASSUME DOMAIN recording = RECORDING, "baseline" \in PAIRED, case \in Case, BaseIn,
         \/ Base!RequestApproval \/ Base!AuthorizationRefused \/ Base!AuthorizeAndIssue
         \/ Base!IssueStopped \/ Base!IssueRefund \/ Base!IssueFails \/ Base!Reconcile
  PROVE  BaseSupersteps
<1>1. Run1.st = st1 /\ Run1.world = world1 /\ Run1.next = next1 /\ Run1.fired = fired1
  BY DEF Run1, RunOf
<1>2. /\ phase1 = "running" /\ recording' = recording
      /\ next1 \in {"request_approval", "authorize_and_issue", "issue_refund", "reconcile"}
  BY DEF Base!RequestApproval, Base!AuthorizationRefused, Base!AuthorizeAndIssue,
         Base!IssueStopped, Base!IssueRefund, Base!IssueFails, Base!Reconcile, Base!At, Base!Quiet
<1>3. Records(Run1, Run1', recording, recording')
  BY <1>1, <1>2 DEF Records
<1> DEFINE Rest == /\ phase1' \in {"crashed", IF Run1'.next = "END" THEN "done" ELSE "running"}
                   /\ answer1' \in {answer1, "spent"} /\ case' = case
<1>4. ASSUME NEW node, NEW s, NEW w, NEW marks, next1 = node, Base!Step(node, s, w, marks)
      PROVE  Moves("baseline", Run1, Run1', s, w, marks) /\ Rest
  BY <1>4, BaseMoves
<1> HIDE DEF Rest
<1>5. answer1 \in {"approve", "reject"} => answer1 = Given(case)
  BY NoneAssumption DEF BaseIn, RunInv
<1>6. CASE Base!RequestApproval
  <2>1. Approves("baseline", case, Run1, Run1') /\ Rest
    BY <1>1, <1>4, <1>5, <1>6 DEF Base!RequestApproval, Base!At, Base!Answers, Approves
  <2> QED
    BY <1>2, <1>3, <2>1 DEF Superstep, BaseSupersteps, Rest
<1>7. CASE Base!AuthorizationRefused
  <2>1. Refuses("baseline", case, Run1, Run1') /\ Rest
    BY <1>1, <1>4, <1>5, <1>7 DEF Base!AuthorizationRefused, Base!NeedsApproval, Base!At, Refuses
  <2> QED
    BY <1>2, <1>3, <2>1 DEF Superstep, BaseSupersteps, Rest
<1>8. CASE Base!AuthorizeAndIssue
  <2>1. next1 = "authorize_and_issue" /\ (Base!NeedsApproval <=> st1.refund_amount > APPROVAL_THRESHOLD)
        /\ (Base!NeedsApproval => answer1 = "approve")
    BY <1>8 DEF Base!AuthorizeAndIssue, Base!NeedsApproval, Base!At
  <2>2. Authorizes("baseline", case, Run1, Run1') /\ Rest
    BY <1>1, <1>4, <1>5, <1>8, <2>1, BaseOperators DEF Base!AuthorizeAndIssue, Authorizes, Issue
  <2> QED
    BY <1>2, <1>3, <2>2 DEF Superstep, BaseSupersteps, Rest
<1>9. /\ Base!AfterReread = Reread("baseline", case, Run1, REREADERS)
      /\ (Base!RereadFails \/ Base!OrderChanged <=> Stops("baseline", case, Run1))
      /\ Base!RereadFails <=> "baseline" \in {"alt_recheck", "alt_verify"} /\ Fails(case, Lookup)
      /\ Base!IssuedType = TypeOf("baseline", st1) /\ Base!IssueMarks = MarksOfIssue("baseline", st1)
  <2>1. Base!AfterReread = Reread("baseline", case, Run1, REREADERS)
    BY <1>1, BaseOperators DEF Base!AfterReread, Reread, REREADERS
  <2>2. Base!RereadFails <=> "baseline" \in {"alt_recheck", "alt_verify"} /\ Fails(case, Lookup)
    BY BaseOperators DEF Base!RereadFails, Lookup
  <2> QED
    BY <1>1, <2>1, <2>2, BaseOperators DEF Base!OrderChanged, Stops, Base!IssuedType, TypeOf,
       Base!IssueMarks, MarksOfIssue, Base!PreludeMarks, Redundant
<1>10. CASE Base!IssueStopped
  <2>1. StopsIssue("baseline", case, Run1, Run1') /\ Rest
    BY <1>1, <1>4, <1>9, <1>10 DEF Base!IssueStopped, Base!At, Base!Failed, StopsIssue, Lookup
  <2> QED
    BY <1>2, <1>3, <2>1 DEF Superstep, BaseSupersteps, Rest
<1>11. CASE Base!IssueRefund
  <2>1. Issues1("baseline", case, Run1, Run1') /\ Rest
    BY <1>1, <1>4, <1>9, <1>11, BaseOperators DEF Base!IssueRefund, Base!At, Issues1, Issue
  <2> QED
    BY <1>2, <1>3, <2>1 DEF Superstep, BaseSupersteps, Rest
<1>12. CASE Base!IssueFails
  <2>1. FailsIssue("baseline", case, Run1, Run1') /\ Rest
    BY <1>1, <1>4, <1>9, <1>12, BaseOperators DEF Base!IssueFails, Base!At, Base!Failed, FailsIssue, Issue
  <2> QED
    BY <1>2, <1>3, <2>1 DEF Superstep, BaseSupersteps, Rest
<1>13. CASE Base!Reconcile
  <2>1. Reconciles("baseline", case, Run1, Run1') /\ Rest
    BY <1>1, <1>4, <1>13, BaseOperators DEF Base!Reconcile, Base!At, Reconciles, History
  <2> QED
    BY <1>2, <1>3, <2>1 DEF Superstep, BaseSupersteps, Rest
<1> QED
  BY <1>6, <1>7, <1>8, <1>10, <1>11, <1>12, <1>13

(* The supersteps of the variant's run that call a model, ... *)
LEMMA OtherDraws ==
  ASSUME DOMAIN recording = RECORDING, variant \in PAIRED, case \in Case, OtherIn,
         Other!ClassifyRequest \/ Other!ComputeRefund \/ Other!SpeculationFails \/ Other!Respond
  PROVE  OtherSupersteps
<1>1. Run2.st = st2 /\ Run2.world = world2 /\ Run2.next = next2 /\ Run2.fired = fired2
  BY DEF Run2, RunOf
<1>2. phase2 = "running"
  BY DEF Other!ClassifyRequest, Other!ComputeRefund, Other!SpeculationFails, Other!Respond, Other!At
<1>3. st2 \in RefundState /\ InTable(variant, case, Run2) /\ Typed(Run2)
  BY <1>1, <1>2 DEF OtherIn, RunInv, Typed
<1> DEFINE Rest == /\ phase2' \in {"crashed", IF Run2'.next = "END" THEN "done" ELSE "running"}
                   /\ answer2' \in {answer2, "spent"} /\ case' = case /\ variant' = variant
<1>4. ASSUME NEW node, NEW s, NEW w, NEW marks, next2 = node, Other!Step(node, s, w, marks)
      PROVE  Moves(variant, Run2, Run2', s, w, marks) /\ Rest
  BY <1>4, OtherMoves
<1> HIDE DEF Rest
<1>5. CASE Other!ClassifyRequest
  <2>1. PICK c \in Other!Classification :
          /\ recording.classify \in {None, c} /\ recording' = [recording EXCEPT !.classify = c]
          /\ Other!Step("classify_request", [st2 EXCEPT !.intent = c.intent, !.order_id = c.order_id], world2, {})
    BY <1>5 DEF Other!ClassifyRequest
  <2>2. next2 = "classify_request"
    BY <1>5 DEF Other!ClassifyRequest, Other!At
  <2> DEFINE s == [st2 EXCEPT !.intent = c.intent, !.order_id = c.order_id]
  <2>3. Moves(variant, Run2, Run2', s, world2, {}) /\ Rest
    BY <1>4, <2>1, <2>2
  <2>4. c \in Classes
    BY <2>1 DEF Other!Classification, Classes, Other!Intents, Intents
  <2>5. Classifies(variant, case, Run2, Run2')
    BY <1>1, <2>2, <2>3, <2>4 DEF Classifies
  <2>6. recording'.classify = c /\ recording'.compute = recording.compute /\ DOMAIN recording' = RECORDING
    BY <2>1 DEF RECORDING
  <2>7. Class(Run2'.st) = c
    <3>1. Run2'.st = s /\ s.intent = c.intent /\ s.order_id = c.order_id
      BY <1>3, <2>3 DEF Moves, RefundState
    <3> QED
      BY <2>4, <3>1 DEF Class, Classes
  <2>8. Records(Run2, Run2', recording, recording')
    BY <1>1, <2>1, <2>2, <2>6, <2>7 DEF Records
  <2> QED
    BY <1>2, <2>3, <2>5, <2>6, <2>8 DEF Superstep, OtherSupersteps, Rest
<1>6. CASE Other!ComputeRefund
  <2>1. Other!ComputePrompt = "COMPUTE_SYSTEM"
    BY DEF Other!ComputePrompt, Other!CHANGES, PAIRED, CHANGES
  <2>2. PICK t \in RefundTypes :
          LET d == [prompt |-> "COMPUTE_SYSTEM", price |-> st2.order.price, type |-> t]
          IN /\ Other!Recorded \subseteq {d} /\ recording' = [recording EXCEPT !.compute = @ \cup {d}]
             /\ Other!Step("compute_refund",
                         [st2 EXCEPT !.refund_type = t, !.refund_amount = Other!PlannedAmount(t, st2.order.price)],
                         Other!AfterPrelude, Other!PreludeMarks \cup Other!AmountMarks(t, st2.order.price))
    BY <1>6, <2>1 DEF Other!ComputeRefund, Other!RefundTypes, RefundTypes
  <2>3. next2 = "compute_refund"
    BY <1>6 DEF Other!ComputeRefund, Other!At
  <2> DEFINE d == [prompt |-> "COMPUTE_SYSTEM", price |-> st2.order.price, type |-> t]
             s == [st2 EXCEPT !.refund_type = t, !.refund_amount = AmountOf(variant, t, st2.order.price)]
             marks == Redundant(variant) \cup (IF AmountOf(variant, t, st2.order.price) # RefundAmount(t, st2.order.price)
                                           THEN {"M5:amount_truncated"} ELSE {})
  <2>4. /\ Other!PlannedAmount(t, st2.order.price) = AmountOf(variant, t, st2.order.price)
        /\ Other!AfterPrelude = Reread(variant, case, Run2, {"C"})
        /\ Other!PreludeMarks \cup Other!AmountMarks(t, st2.order.price) = marks
    BY <1>1, OtherOperators DEF Other!PlannedAmount, AmountOf, Other!AfterPrelude, Reread, Other!PreludeMarks, Other!AmountMarks, Redundant
  <2>5. Moves(variant, Run2, Run2', s, Reread(variant, case, Run2, {"C"}), marks) /\ Rest
    BY <1>4, <2>2, <2>3, <2>4
  <2>6. Computes(variant, case, Run2, Run2')
    BY <1>1, <2>3, <2>5 DEF Computes
  <2>7. recording'.classify = recording.classify /\ recording'.compute = recording.compute \cup {d}
        /\ DOMAIN recording' = RECORDING
    BY <2>2 DEF RECORDING
  <2>8. Run2'.st.refund_type = t /\ t # None
    <3>1. Run2'.st = s /\ s.refund_type = t
      BY <1>3, <2>5 DEF Moves, RefundState
    <3> QED
      BY <3>1, NoneAssumption
  <2>9. {e \in recording.compute : e.prompt = d.prompt /\ e.price = d.price} \subseteq {d}
    <3>1. d.prompt = "COMPUTE_SYSTEM" /\ d.price = st2.order.price /\ Other!Recorded \subseteq {d}
      BY <2>2
    <3> HIDE DEF d
    <3> QED
      BY <2>1, <3>1 DEF Other!Recorded
  <2>10. Records(Run2, Run2', recording, recording')
    <3>1. Run2.next # "classify_request" /\ Run2.next = "compute_refund"
      BY <1>1, <2>3
    <3>2. d = [prompt |-> "COMPUTE_SYSTEM", price |-> Run2.st.order.price, type |-> Run2'.st.refund_type]
      BY <1>1, <2>8
    <3> HIDE DEF d
    <3> QED
      BY <2>7, <2>8, <2>9, <3>1, <3>2 DEF Records
  <2> QED
    BY <1>2, <2>5, <2>6, <2>7, <2>10 DEF Superstep, OtherSupersteps, Rest
<1>7. CASE Other!SpeculationFails
  <2>1. next2 = "compute_refund" /\ variant = "V4" /\ st2.eligibility = None /\ recording' = recording
        /\ Other!Step("compute_refund", st2, world2, {})
    BY <1>7 DEF Other!SpeculationFails, Other!At, Other!Speculating, Other!Quiet
  <2>2. Moves(variant, Run2, Run2', st2, world2, {}) /\ Rest
    BY <1>4, <2>1
  <2>3. Speculates(variant, case, Run2, Run2')
    BY <1>1, <2>1, <2>2 DEF Speculates
  <2>4. Run2'.st.refund_type = None
    <3>1. Run2.st.refund_type = None
      BY <1>1, <1>3, <2>1, ComputeStarts
    <3> QED
      BY <1>1, <2>2, <3>1 DEF Moves
  <2>5. Records(Run2, Run2', recording, recording')
    BY <1>1, <2>1, <2>4 DEF Records
  <2> QED
    BY <1>2, <2>1, <2>2, <2>3, <2>5 DEF Superstep, OtherSupersteps, Rest
<1>8. CASE Other!Respond
  <2>1. Other!RenderFacts = FactsOf(variant, st2) /\ (Other!FalseSuccess <=> Lies(variant, st2))
    BY DEF Other!RenderFacts, Other!FalseSuccess, FactsOf, Lies
  <2>2. /\ next2 = "respond" /\ reply2' = FactsOf(variant, st2)
        /\ recording' = [recording EXCEPT !.text = @ \cup {Other!RenderFacts}]
        /\ Other!Step("respond", st2, world2, Other!RespondMarks)
    BY <1>8, <2>1 DEF Other!Respond, Other!At
  <2>3. Other!RespondMarks = (IF Lies(variant, Run2.st) THEN {"B:false_success"} ELSE {})
           \cup (IF variant = "M8" /\ Run2.st.refund_type = "partial" /\ Run2.st.refund_amount # None
                 THEN {"M8:price_rendered_as_amount"} ELSE {})
    BY <1>1, <2>1 DEF Other!RespondMarks
  <2>4. Moves(variant, Run2, Run2', st2, world2, Other!RespondMarks) /\ Rest
    BY <1>4, <2>2
  <2>5. Run2'.reply = reply2'
    BY DEF Run2, RunOf
  <2>6. Responds(variant, case, Run2, Run2')
    BY <1>1, <2>2, <2>3, <2>4, <2>5 DEF Responds
  <2>7. recording'.classify = recording.classify /\ recording'.compute = recording.compute /\ DOMAIN recording' = RECORDING
    BY <2>2 DEF RECORDING
  <2>8. Records(Run2, Run2', recording, recording')
    BY <1>1, <2>2, <2>7 DEF Records
  <2> QED
    BY <1>2, <2>4, <2>6, <2>7, <2>8 DEF Superstep, OtherSupersteps, Rest
<1> QED
  BY <1>5, <1>6, <1>7, <1>8

(* ... and those from the plan on. *)
LEMMA OtherWrites ==
  ASSUME DOMAIN recording = RECORDING, variant \in PAIRED, case \in Case, OtherIn,
         \/ Other!RequestApproval \/ Other!AuthorizationRefused \/ Other!AuthorizeAndIssue
         \/ Other!IssueStopped \/ Other!IssueRefund \/ Other!IssueFails \/ Other!Reconcile
  PROVE  OtherSupersteps
<1>1. Run2.st = st2 /\ Run2.world = world2 /\ Run2.next = next2 /\ Run2.fired = fired2
  BY DEF Run2, RunOf
<1>2. /\ phase2 = "running" /\ recording' = recording
      /\ next2 \in {"request_approval", "authorize_and_issue", "issue_refund", "reconcile"}
  BY DEF Other!RequestApproval, Other!AuthorizationRefused, Other!AuthorizeAndIssue,
         Other!IssueStopped, Other!IssueRefund, Other!IssueFails, Other!Reconcile, Other!At, Other!Quiet
<1>3. Records(Run2, Run2', recording, recording')
  BY <1>1, <1>2 DEF Records
<1> DEFINE Rest == /\ phase2' \in {"crashed", IF Run2'.next = "END" THEN "done" ELSE "running"}
                   /\ answer2' \in {answer2, "spent"} /\ case' = case /\ variant' = variant
<1>4. ASSUME NEW node, NEW s, NEW w, NEW marks, next2 = node, Other!Step(node, s, w, marks)
      PROVE  Moves(variant, Run2, Run2', s, w, marks) /\ Rest
  BY <1>4, OtherMoves
<1> HIDE DEF Rest
<1>5. answer2 \in {"approve", "reject"} => answer2 = Given(case)
  BY NoneAssumption DEF OtherIn, RunInv
<1>6. CASE Other!RequestApproval
  <2>1. Approves(variant, case, Run2, Run2') /\ Rest
    BY <1>1, <1>4, <1>5, <1>6 DEF Other!RequestApproval, Other!At, Other!Answers, Approves
  <2> QED
    BY <1>2, <1>3, <2>1 DEF Superstep, OtherSupersteps, Rest
<1>7. CASE Other!AuthorizationRefused
  <2>1. Refuses(variant, case, Run2, Run2') /\ Rest
    BY <1>1, <1>4, <1>5, <1>7 DEF Other!AuthorizationRefused, Other!NeedsApproval, Other!At, Refuses
  <2> QED
    BY <1>2, <1>3, <2>1 DEF Superstep, OtherSupersteps, Rest
<1>8. CASE Other!AuthorizeAndIssue
  <2>1. next2 = "authorize_and_issue" /\ (Other!NeedsApproval <=> st2.refund_amount > APPROVAL_THRESHOLD)
        /\ (Other!NeedsApproval => answer2 = "approve")
    BY <1>8 DEF Other!AuthorizeAndIssue, Other!NeedsApproval, Other!At
  <2>2. Authorizes(variant, case, Run2, Run2') /\ Rest
    BY <1>1, <1>4, <1>5, <1>8, <2>1, OtherOperators DEF Other!AuthorizeAndIssue, Authorizes, Issue
  <2> QED
    BY <1>2, <1>3, <2>2 DEF Superstep, OtherSupersteps, Rest
<1>9. /\ Other!AfterReread = Reread(variant, case, Run2, REREADERS)
      /\ (Other!RereadFails \/ Other!OrderChanged <=> Stops(variant, case, Run2))
      /\ Other!RereadFails <=> variant \in {"alt_recheck", "alt_verify"} /\ Fails(case, Lookup)
      /\ Other!IssuedType = TypeOf(variant, st2) /\ Other!IssueMarks = MarksOfIssue(variant, st2)
  <2>1. Other!AfterReread = Reread(variant, case, Run2, REREADERS)
    BY <1>1, OtherOperators DEF Other!AfterReread, Reread, REREADERS
  <2>2. Other!RereadFails <=> variant \in {"alt_recheck", "alt_verify"} /\ Fails(case, Lookup)
    BY OtherOperators DEF Other!RereadFails, Lookup
  <2> QED
    BY <1>1, <2>1, <2>2, OtherOperators DEF Other!OrderChanged, Stops, Other!IssuedType, TypeOf,
       Other!IssueMarks, MarksOfIssue, Other!PreludeMarks, Redundant
<1>10. CASE Other!IssueStopped
  <2>1. StopsIssue(variant, case, Run2, Run2') /\ Rest
    BY <1>1, <1>4, <1>9, <1>10 DEF Other!IssueStopped, Other!At, Other!Failed, StopsIssue, Lookup
  <2> QED
    BY <1>2, <1>3, <2>1 DEF Superstep, OtherSupersteps, Rest
<1>11. CASE Other!IssueRefund
  <2>1. Issues1(variant, case, Run2, Run2') /\ Rest
    BY <1>1, <1>4, <1>9, <1>11, OtherOperators DEF Other!IssueRefund, Other!At, Issues1, Issue
  <2> QED
    BY <1>2, <1>3, <2>1 DEF Superstep, OtherSupersteps, Rest
<1>12. CASE Other!IssueFails
  <2>1. FailsIssue(variant, case, Run2, Run2') /\ Rest
    BY <1>1, <1>4, <1>9, <1>12, OtherOperators DEF Other!IssueFails, Other!At, Other!Failed, FailsIssue, Issue
  <2> QED
    BY <1>2, <1>3, <2>1 DEF Superstep, OtherSupersteps, Rest
<1>13. CASE Other!Reconcile
  <2>1. Reconciles(variant, case, Run2, Run2') /\ Rest
    BY <1>1, <1>4, <1>13, OtherOperators DEF Other!Reconcile, Other!At, Reconciles, History
  <2> QED
    BY <1>2, <1>3, <2>1 DEF Superstep, OtherSupersteps, Rest
<1> QED
  BY <1>6, <1>7, <1>8, <1>10, <1>11, <1>12, <1>13


(* A fresh run is in the table. *)
LEMMA StartsIn ==
  ASSUME NEW v \in PAIRED, NEW k \in Case, NEW r, NEW rec,
         r.st = EmptyState, r.world = SeedWorld(k), r.next = "classify_request", r.fired = {}
  PROVE  RunInv(v, k, r, rec, "running", None)
<1>1. /\ EmptyState \in RefundState /\ EmptyState.refund_id = None /\ EmptyState.error = None
      /\ EmptyState.order = None /\ EmptyState.refund_type = None
  BY DEF EmptyState, RefundState
<1>2. /\ SeedWorld(k) \in World /\ SeedWorld(k).refunds = << >> /\ SeedWorld(k).next_refund = 1
      /\ SeedWorld(k).lookups = 0 /\ SeedWorld(k).orders = k.orders /\ SeedWorld(k).log = << >>
  BY DEF SeedWorld, World, Case
<1>3. LogOf(k, << >>) = << >>
  BY DEF LogOf
<1>4. AtStart(v, k, r)
  BY <1>1, <1>2, <1>3 DEF AtStart, Open, Before
<1>5. Marking(v, k, r)
  BY Unmarks DEF Marking
<1>6. InTable(v, k, r)
  BY <1>4, <1>5 DEF InTable, Nodes
<1> QED
  BY <1>1, <1>2, <1>6 DEF RunInv, Typed, Drawn

(* A crash of the baseline's run in a model call is a step of its record. *)
LEMMA BaseCrashes ==
  ASSUME NEW w \in World, NEW marks, Base!Crash(w, marks), phase1 = "running", DOMAIN recording = RECORDING
  PROVE  /\ RunStep("baseline", case, Run1, Run1', recording, recording', phase1, phase1', answer1, answer1')
         /\ case' = case /\ DOMAIN recording' = RECORDING
<1>1. /\ phase1' = "crashed" /\ world1' = w /\ st1' = st1 /\ next1' = next1 /\ answer1' = answer1
      /\ recording' = recording /\ case' = case
  BY DEF Base!Crash
<1>2. Run1'.st = Run1.st /\ Run1'.next = Run1.next /\ Run1'.world = w
  BY <1>1 DEF Run1, RunOf
<1> QED
  BY <1>1, <1>2 DEF RunStep

(* Every action of the baseline's run is a step of its record. *)
LEMMA BaseSteps ==
  ASSUME DOMAIN recording = RECORDING, "baseline" \in PAIRED, case \in Case, BaseIn, Base!Next
  PROVE  /\ RunStep("baseline", case, Run1, Run1', recording, recording', phase1, phase1', answer1, answer1')
         /\ case' = case /\ DOMAIN recording' = RECORDING
<1>1. Run1.st = st1 /\ Run1.world = world1 /\ Run1.next = next1
  BY DEF Run1, RunOf
<1>2. Typed(Run1) /\ world1 \in World /\ (phase1 = "running" => InTable("baseline", case, Run1))
  BY <1>1 DEF BaseIn, RunInv, Typed
<1>3. CASE Base!LookupOrderFails \/ Base!LookupOrderAnswers \/ Base!FetchContext
           \/ Base!HistoryFails \/ Base!HistoryAnswers \/ Base!EligibilityFails \/ Base!EligibilityAnswers
           \/ Base!Gate \/ Base!DiscardPlan
  <2>1. BaseSupersteps
    BY <1>3, BaseReads
  <2> QED
    BY <2>1 DEF BaseSupersteps, RunStep
<1>4. CASE Base!ClassifyRequest \/ Base!ComputeRefund \/ Base!SpeculationFails \/ Base!Respond
  <2>1. BaseSupersteps
    BY <1>4, BaseDraws
  <2> QED
    BY <2>1 DEF BaseSupersteps, RunStep
<1>5. CASE Base!RequestApproval \/ Base!AuthorizationRefused \/ Base!AuthorizeAndIssue
           \/ Base!IssueStopped \/ Base!IssueRefund \/ Base!IssueFails \/ Base!Reconcile
  <2>1. BaseSupersteps
    BY <1>5, BaseWrites
  <2> QED
    BY <2>1 DEF BaseSupersteps, RunStep
<1>6. CASE Base!ClassifyCrashes
  <2>1. phase1 = "running" /\ Base!Crash(world1, {})
    BY <1>6 DEF Base!ClassifyCrashes, Base!At
  <2> QED
    BY <1>2, <2>1, BaseCrashes
<1>7. CASE Base!ComputeCrashes
  <2>1. phase1 = "running" /\ next1 = "compute_refund" /\ Base!Crash(Base!AfterPrelude, Base!PreludeMarks)
    BY <1>7 DEF Base!ComputeCrashes, Base!At
  <2>2. st1.order_id \in OrderIds
    <3>1. Found("baseline", case, Class(Run1.st))
      BY <1>1, <1>2, <2>1, ComputeStarts
    <3>2. Asked(Class(Run1.st)) /\ Run1.st \in RefundState
      BY <1>2, <3>1, Ladder DEF Typed
    <3> QED
      BY <1>1, <3>2 DEF Asked, Class, RefundState
  <2>3. Base!AfterPrelude \in World
    BY <1>2, <2>2, LookupFacts, BaseOperators DEF Base!AfterPrelude
  <2> QED
    BY <2>1, <2>3, BaseCrashes
<1>8. CASE Base!RespondCrashes
  <2>1. phase1 = "running" /\ Base!Crash(world1, Base!RespondMarks)
    BY <1>8 DEF Base!RespondCrashes, Base!At
  <2> QED
    BY <1>2, <2>1, BaseCrashes
<1>9. CASE Base!Interrupt
  <2>1. /\ phase1 = "running" /\ phase1' = "paused" /\ answer1' = answer1 /\ recording' = recording /\ case' = case
        /\ UNCHANGED <<st1, world1, next1, fired1, reply1>>
    BY <1>9 DEF Base!Interrupt, Base!NeedsApproval, Base!At
  <2>2. Run1' = Run1
    BY <2>1 DEF Run1, RunOf
  <2> QED
    BY <2>1, <2>2 DEF RunStep
<1>10. CASE Base!Resume
  <2>1. /\ phase1 = "paused" /\ phase1' = "running" /\ answer1' = Given(case) /\ recording' = recording /\ case' = case
        /\ UNCHANGED <<st1, world1, next1, fired1, reply1>>
    BY <1>10 DEF Base!Resume, Given
  <2>2. Run1' = Run1
    BY <2>1 DEF Run1, RunOf
  <2> QED
    BY <2>1, <2>2 DEF RunStep
<1> QED
  BY <1>3, <1>4, <1>5, <1>6, <1>7, <1>8, <1>9, <1>10 DEF Base!Next

(* A crash of the variant's run in a model call is a step of its record. *)
LEMMA OtherCrashes ==
  ASSUME NEW w \in World, NEW marks, Other!Crash(w, marks), phase2 = "running", DOMAIN recording = RECORDING
  PROVE  /\ RunStep(variant, case, Run2, Run2', recording, recording', phase2, phase2', answer2, answer2')
         /\ case' = case /\ variant' = variant /\ DOMAIN recording' = RECORDING
<1>1. /\ phase2' = "crashed" /\ world2' = w /\ st2' = st2 /\ next2' = next2 /\ answer2' = answer2
      /\ recording' = recording /\ case' = case /\ variant' = variant
  BY DEF Other!Crash
<1>2. Run2'.st = Run2.st /\ Run2'.next = Run2.next /\ Run2'.world = w
  BY <1>1 DEF Run2, RunOf
<1> QED
  BY <1>1, <1>2 DEF RunStep

(* Every action of the variant's run is a step of its record. *)
LEMMA OtherSteps ==
  ASSUME DOMAIN recording = RECORDING, variant \in PAIRED, case \in Case, OtherIn, Other!Next
  PROVE  /\ RunStep(variant, case, Run2, Run2', recording, recording', phase2, phase2', answer2, answer2')
         /\ case' = case /\ variant' = variant /\ DOMAIN recording' = RECORDING
<1>1. Run2.st = st2 /\ Run2.world = world2 /\ Run2.next = next2
  BY DEF Run2, RunOf
<1>2. Typed(Run2) /\ world2 \in World /\ (phase2 = "running" => InTable(variant, case, Run2))
  BY <1>1 DEF OtherIn, RunInv, Typed
<1>3. CASE Other!LookupOrderFails \/ Other!LookupOrderAnswers \/ Other!FetchContext
           \/ Other!HistoryFails \/ Other!HistoryAnswers \/ Other!EligibilityFails \/ Other!EligibilityAnswers
           \/ Other!Gate \/ Other!DiscardPlan
  <2>1. OtherSupersteps
    BY <1>3, OtherReads
  <2> QED
    BY <2>1 DEF OtherSupersteps, RunStep
<1>4. CASE Other!ClassifyRequest \/ Other!ComputeRefund \/ Other!SpeculationFails \/ Other!Respond
  <2>1. OtherSupersteps
    BY <1>4, OtherDraws
  <2> QED
    BY <2>1 DEF OtherSupersteps, RunStep
<1>5. CASE Other!RequestApproval \/ Other!AuthorizationRefused \/ Other!AuthorizeAndIssue
           \/ Other!IssueStopped \/ Other!IssueRefund \/ Other!IssueFails \/ Other!Reconcile
  <2>1. OtherSupersteps
    BY <1>5, OtherWrites
  <2> QED
    BY <2>1 DEF OtherSupersteps, RunStep
<1>6. CASE Other!ClassifyCrashes
  <2>1. phase2 = "running" /\ Other!Crash(world2, {})
    BY <1>6 DEF Other!ClassifyCrashes, Other!At
  <2> QED
    BY <1>2, <2>1, OtherCrashes
<1>7. CASE Other!ComputeCrashes
  <2>1. phase2 = "running" /\ next2 = "compute_refund" /\ Other!Crash(Other!AfterPrelude, Other!PreludeMarks)
    BY <1>7 DEF Other!ComputeCrashes, Other!At
  <2>2. st2.order_id \in OrderIds
    <3>1. Found(variant, case, Class(Run2.st))
      BY <1>1, <1>2, <2>1, ComputeStarts
    <3>2. Asked(Class(Run2.st)) /\ Run2.st \in RefundState
      BY <1>2, <3>1, Ladder DEF Typed
    <3> QED
      BY <1>1, <3>2 DEF Asked, Class, RefundState
  <2>3. Other!AfterPrelude \in World
    BY <1>2, <2>2, LookupFacts, OtherOperators DEF Other!AfterPrelude
  <2> QED
    BY <2>1, <2>3, OtherCrashes
<1>8. CASE Other!RespondCrashes
  <2>1. phase2 = "running" /\ Other!Crash(world2, Other!RespondMarks)
    BY <1>8 DEF Other!RespondCrashes, Other!At
  <2> QED
    BY <1>2, <2>1, OtherCrashes
<1>9. CASE Other!Interrupt
  <2>1. /\ phase2 = "running" /\ phase2' = "paused" /\ answer2' = answer2 /\ recording' = recording /\ case' = case /\ variant' = variant
        /\ UNCHANGED <<st2, world2, next2, fired2, reply2>>
    BY <1>9 DEF Other!Interrupt, Other!NeedsApproval, Other!At
  <2>2. Run2' = Run2
    BY <2>1 DEF Run2, RunOf
  <2> QED
    BY <2>1, <2>2 DEF RunStep
<1>10. CASE Other!Resume
  <2>1. /\ phase2 = "paused" /\ phase2' = "running" /\ answer2' = Given(case) /\ recording' = recording /\ case' = case /\ variant' = variant
        /\ UNCHANGED <<st2, world2, next2, fired2, reply2>>
    BY <1>10 DEF Other!Resume, Given
  <2>2. Run2' = Run2
    BY <2>1 DEF Run2, RunOf
  <2> QED
    BY <2>1, <2>2 DEF RunStep
<1> QED
  BY <1>3, <1>4, <1>5, <1>6, <1>7, <1>8, <1>9, <1>10 DEF Other!Next

(* What a run of the pair adds to the recording leaves the other one in the table, so that both stay in it. *)
LEMMA PairKeeps ==
  ASSUME PairInv, [PairNext]_pairVars
  PROVE  PairInv'
<1>1. /\ case \in Case /\ variant \in PAIRED /\ "baseline" \in PAIRED
      /\ \A v \in Variants : v \in PAIRED
  BY PairAssumption DEF PairInv, PAIRED, ALL_VARIANTS, VALID_VARIANTS, CHANGES
<1>2. /\ case \in Cases /\ variant \in Variants \cup {"baseline"} /\ DOMAIN recording = RECORDING
      /\ OneEach(recording.compute) /\ BaseIn /\ IF variant = "baseline" THEN Other!Start ELSE OtherIn
  BY DEF PairInv
<1>3. CASE RunBaseline
  <2>1. Base!Next /\ variant' = variant /\ run2' = run2
    BY <1>3 DEF RunBaseline
  <2>2. /\ RunStep("baseline", case, Run1, Run1', recording, recording', phase1, phase1', answer1, answer1')
        /\ case' = case /\ DOMAIN recording' = RECORDING
    BY <1>1, <1>2, <2>1, BaseSteps
  <2>3. /\ RunInv("baseline", case, Run1', recording', phase1', answer1') /\ OneEach(recording'.compute)
        /\ recording.classify \in {None, recording'.classify} /\ recording.compute \subseteq recording'.compute
    BY <1>1, <1>2, <2>2, RunKeeps DEF BaseIn
  <2>4. BaseIn'
    BY <2>2, <2>3 DEF BaseIn
  <2>5. Run2' = Run2 /\ phase2' = phase2 /\ answer2' = answer2
    BY <2>1 DEF run2, Run2, RunOf
  <2>6. CASE variant = "baseline"
    <3>1. Other!Start'
      BY <1>2, <2>1, <2>2, <2>6 DEF Other!Start, run2, Other!SeedWorld
    <3> QED
      BY <1>2, <2>1, <2>2, <2>3, <2>4, <2>6, <3>1 DEF PairInv
  <2>7. CASE variant # "baseline"
    <3>1. RunInv(variant, case, Run2, recording', phase2, answer2)
      BY <1>2, <2>3, <2>7, RecordingGrows DEF OtherIn
    <3>2. OtherIn'
      BY <2>1, <2>2, <2>5, <3>1 DEF OtherIn
    <3> QED
      BY <1>2, <2>1, <2>2, <2>3, <2>4, <2>7, <3>2 DEF PairInv
  <2> QED
    BY <2>6, <2>7
<1>4. CASE StartVariant
  <2>1. /\ variant = "baseline" /\ variant' \in Variants \ {"baseline"} /\ case' = case /\ recording' = recording
        /\ run1' = run1 /\ run2' = run2
    BY <1>4 DEF StartVariant
  <2>2. Run1' = Run1 /\ phase1' = phase1 /\ answer1' = answer1
    BY <2>1 DEF run1, Run1, RunOf
  <2>3. BaseIn'
    BY <1>2, <2>1, <2>2 DEF BaseIn
  <2>4. /\ Run2'.st = EmptyState /\ Run2'.world = SeedWorld(case) /\ Run2'.next = "classify_request" /\ Run2'.fired = {}
        /\ phase2' = "running" /\ answer2' = None
    BY <1>2, <2>1, OtherOperators DEF Other!Start, run2, Run2, RunOf
  <2>5. PICK v \in PAIRED : variant' = v
    BY <1>1, <2>1
  <2>6. RunInv(v, case, Run2', recording', "running", None)
    BY <1>1, <2>4, StartsIn
  <2>7. OtherIn'
    BY <2>1, <2>4, <2>5, <2>6 DEF OtherIn
  <2> QED
    BY <1>2, <2>1, <2>3, <2>7 DEF PairInv
<1>5. CASE RunVariant
  <2>1. variant # "baseline" /\ Other!Next /\ run1' = run1
    BY <1>5 DEF RunVariant
  <2>2. OtherIn
    BY <1>2, <2>1
  <2>3. /\ RunStep(variant, case, Run2, Run2', recording, recording', phase2, phase2', answer2, answer2')
        /\ case' = case /\ variant' = variant /\ DOMAIN recording' = RECORDING
    BY <1>1, <1>2, <2>1, <2>2, OtherSteps
  <2>4. /\ RunInv(variant, case, Run2', recording', phase2', answer2') /\ OneEach(recording'.compute)
        /\ recording.classify \in {None, recording'.classify} /\ recording.compute \subseteq recording'.compute
    BY <1>1, <1>2, <2>2, <2>3, RunKeeps DEF OtherIn
  <2>5. OtherIn'
    BY <2>3, <2>4 DEF OtherIn
  <2>6. Run1' = Run1 /\ phase1' = phase1 /\ answer1' = answer1
    BY <2>1 DEF run1, Run1, RunOf
  <2>7. RunInv("baseline", case, Run1, recording', phase1, answer1)
    BY <1>2, <2>4, RecordingGrows DEF BaseIn
  <2>8. BaseIn'
    BY <2>3, <2>6, <2>7 DEF BaseIn
  <2> QED
    BY <1>2, <2>1, <2>3, <2>4, <2>5, <2>8 DEF PairInv
<1>6. CASE UNCHANGED pairVars
  <2>1. case' = case /\ recording' = recording /\ variant' = variant /\ run1' = run1 /\ run2' = run2
    BY <1>6 DEF pairVars
  <2>2. Run1' = Run1 /\ phase1' = phase1 /\ answer1' = answer1 /\ Run2' = Run2 /\ phase2' = phase2 /\ answer2' = answer2
    BY <2>1 DEF run1, run2, Run1, Run2, RunOf
  <2>3. Other!Start => Other!Start'
    BY <2>1 DEF Other!Start, run2, Other!SeedWorld
  <2> QED
    BY <1>2, <2>1, <2>2, <2>3 DEF PairInv, BaseIn, OtherIn
<1> QED
  BY <1>3, <1>4, <1>5, <1>6 DEF PairNext

(* A pair starts in it. *)
LEMMA PairStarts ==
  ASSUME PairInit
  PROVE  PairInv
<1>1. case \in Cases /\ case \in Case /\ "baseline" \in PAIRED
  BY PairAssumption DEF PairInit, PAIRED, ALL_VARIANTS, VALID_VARIANTS, CHANGES
<1>2. /\ recording = [classify |-> None, compute |-> {}, text |-> {}] /\ variant = "baseline" /\ Base!Start /\ Other!Start
  BY DEF PairInit, Base!EmptyRecording
<1>3. /\ Run1.st = EmptyState /\ Run1.world = SeedWorld(case) /\ Run1.next = "classify_request" /\ Run1.fired = {}
      /\ phase1 = "running" /\ answer1 = None
  BY <1>2, BaseOperators DEF Base!Start, Run1, RunOf
<1>4. RunInv("baseline", case, Run1, recording, "running", None)
  BY <1>1, <1>3, StartsIn
<1>5. DOMAIN recording = RECORDING /\ OneEach(recording.compute)
  BY <1>2 DEF RECORDING, OneEach
<1> QED
  BY <1>1, <1>2, <1>3, <1>4, <1>5 DEF PairInv, BaseIn

(* In every pair of runs each run is what the table says, before every node and at its end: how far *)
(* it got, what it holds, whom it paid, which tools it called and whether its marker fired.         *)
THEOREM RunsAreAsTabled == PairSpec => []PairInv
<1>1. PairInit => PairInv
  BY PairStarts
<1>2. PairInv /\ [PairNext]_pairVars => PairInv'
  BY PairKeeps
<1> QED
  BY <1>1, <1>2, PTL DEF PairSpec

-----------------------------------------------------------------------------
(* A finished pair: both runs are over the same classification, and where both planned a refund for *)
(* the same price they planned the same one.                                                        *)
FinishedPair(v, k, r1, r2) ==
  /\ v \in PAIRED /\ k \in Case /\ Typed(r1) /\ Typed(r2)
  /\ Class(r1.st) \in Classes /\ Class(r2.st) = Class(r1.st)
  /\ Ended(r1.st, "baseline", k, Class(r1.st)) /\ Ended(r2.st, v, k, Class(r1.st))
  /\ Settled("baseline", k, r1, EndCalls("baseline", k, Class(r1.st), r1.st.refund_type))
  /\ Settled(v, k, r2, EndCalls(v, k, Class(r1.st), r2.st.refund_type))
  /\ r1.reply = FactsOf("baseline", r1.st) /\ r2.reply = FactsOf(v, r2.st)
  /\ v # "V4" => (r2.fired # {} <=> Fires(v, k, Class(r1.st), r2.st.refund_type))
  /\ r1.st.refund_type # None /\ r2.st.refund_type # None /\ r1.st.order.price = r2.st.order.price
       => r2.st.refund_type = r1.st.refund_type

(* What one run of a pair knows of its end. *)
LEMMA RunEnds ==
  ASSUME NEW v \in PAIRED, NEW k \in Case, NEW r, NEW rec, NEW answer, RunInv(v, k, r, rec, "done", answer)
  PROVE  /\ Typed(r) /\ Class(r.st) \in Classes /\ rec.classify = Class(r.st)
         /\ Ended(r.st, v, k, Class(r.st)) /\ Settled(v, k, r, EndCalls(v, k, Class(r.st), r.st.refund_type))
         /\ r.reply = FactsOf(v, r.st)
         /\ v # "V4" => (r.fired # {} <=> Fires(v, k, Class(r.st), r.st.refund_type))
         /\ r.st.refund_type # None => Planned1(r) \in rec.compute
<1>1. r.next = "END" /\ InTable(v, k, r) /\ Drawn(r, rec) /\ Typed(r) /\ Class(r.st) \in Classes
  BY DEF RunInv
<1>2. AtEnd(v, k, r) /\ Marking(v, k, r)
  BY <1>1 DEF InTable
<1>3. "END" \notin Unmarked(v)
  BY DEF Unmarked, ToCheck, Nodes
<1> QED
  BY <1>1, <1>2, <1>3 DEF AtEnd, Marking, Drawn

(* A pair that is over has two ended runs, of one classification and one draw for each prompt. *)
LEMMA PairEnds ==
  ASSUME PairInv, BothDone
  PROVE  FinishedPair(variant, case, Run1, Run2)
<1>1. case \in Case /\ variant \in PAIRED /\ "baseline" \in PAIRED
  BY PairAssumption DEF PairInv, PAIRED, ALL_VARIANTS, VALID_VARIANTS, CHANGES
<1>2. RunInv("baseline", case, Run1, recording, "done", answer1) /\ RunInv(variant, case, Run2, recording, "done", answer2)
  BY DEF PairInv, BothDone, BaseIn, OtherIn
<1>3. OneEach(recording.compute)
  BY DEF PairInv
<1>4. /\ Typed(Run1) /\ Class(Run1.st) \in Classes /\ recording.classify = Class(Run1.st)
      /\ Ended(Run1.st, "baseline", case, Class(Run1.st))
      /\ Settled("baseline", case, Run1, EndCalls("baseline", case, Class(Run1.st), Run1.st.refund_type))
      /\ Run1.reply = FactsOf("baseline", Run1.st)
      /\ Run1.st.refund_type # None => Planned1(Run1) \in recording.compute
  BY <1>1, <1>2, RunEnds
<1>5. /\ Typed(Run2) /\ recording.classify = Class(Run2.st)
      /\ Ended(Run2.st, variant, case, Class(Run2.st))
      /\ Settled(variant, case, Run2, EndCalls(variant, case, Class(Run2.st), Run2.st.refund_type))
      /\ Run2.reply = FactsOf(variant, Run2.st)
      /\ variant # "V4" => (Run2.fired # {} <=> Fires(variant, case, Class(Run2.st), Run2.st.refund_type))
      /\ Run2.st.refund_type # None => Planned1(Run2) \in recording.compute
  BY <1>1, <1>2, RunEnds
<1>6. Run1.st.refund_type # None /\ Run2.st.refund_type # None /\ Run1.st.order.price = Run2.st.order.price
        => Run2.st.refund_type = Run1.st.refund_type
  BY <1>3, <1>4, <1>5 DEF OneEach, Planned1
<1> QED
  BY <1>1, <1>4, <1>5, <1>6 DEF FinishedPair

(* Variant v gets as far as the baseline, over the same rows. *)
SameCourse(v, k, c, t) ==
  /\ Found(v, k, c) <=> Found("baseline", k, c)
  /\ Reads(v, k, c) <=> Reads("baseline", k, c)
  /\ Answers(v, k, c) <=> Answers("baseline", k, c)
  /\ Plans(v, k, c) <=> Plans("baseline", k, c)
  /\ Seen(v, k, c.order_id) = Seen("baseline", k, c.order_id)
  /\ Verdict(v, k, c) = Verdict("baseline", k, c)
  /\ Amount(v, k, c, t) = Amount("baseline", k, c, t)
  /\ MustAsk(v, k, c, t) <=> MustAsk("baseline", k, c, t)
  /\ Goes(v, k, c, t) <=> Goes("baseline", k, c, t)
  /\ Tries(v, k, c, t) <=> Tries("baseline", k, c, t)
  /\ Pays(v, k, c, t) <=> Pays("baseline", k, c, t)
  /\ Error(v, k, c, t) = Error("baseline", k, c, t)

(* The variants that read, check, plan, ask and write when the baseline does. *)
ALIKE == INDEPENDENT_VALID \cup {"B", "C", "C1", "C2", "M6", "M7", "M8", "alt_recheck"}

(* They take the baseline's course; alt_verify does unless it finds the order repriced, and          *)
(* alt_history_early takes it when the history answers, but that it reads it first.                  *)
LEMMA Courses ==
  ASSUME NEW v \in ALIKE \cup {"alt_verify", "alt_history_early"}, NEW k, NEW c, NEW t,
         v = "alt_verify" => ~(Goes(v, k, c, t) /\ Stale(v, k, c)),
         v = "alt_history_early" => Found(v, k, c) \/ ~Asked(c)
  PROVE  SameCourse(v, k, c, t)
<1> DEFINE b == "baseline"
<1>1. v \notin {"M1", "M2", "M3", "M4", "M5", "A", "baseline"}
  BY DEF ALIKE, INDEPENDENT_VALID
<1>2. Seen(v, k, c.order_id) = Seen(b, k, c.order_id)
  BY <1>1 DEF Seen
<1>3. Found(v, k, c) <=> Found(b, k, c)
  BY <1>2 DEF Found
<1>4. Checks(v, k, c) <=> Checks(b, k, c)
  BY <1>1, <1>3 DEF Checks, Skips
<1>5. Verdict(v, k, c) = Verdict(b, k, c)
  BY <1>1, <1>2 DEF Verdict
<1>6. /\ Answers(v, k, c) <=> Answers(b, k, c)
      /\ Clears(v, k, c) <=> Clears(b, k, c)
  BY <1>4, <1>5 DEF Answers, Clears
<1>7. Reads(v, k, c) <=> Reads(b, k, c)
  BY <1>1, <1>3 DEF Reads, Found
<1>8. Plans(v, k, c) <=> Plans(b, k, c)
  BY <1>1, <1>6, <1>7 DEF Plans, Skips
<1>9. Amount(v, k, c, t) = Amount(b, k, c, t)
  BY <1>1, <1>2 DEF Amount
<1>10. MustAsk(v, k, c, t) <=> MustAsk(b, k, c, t)
  BY <1>8, <1>9 DEF MustAsk
<1>11. Goes(v, k, c, t) <=> Goes(b, k, c, t)
  BY <1>1, <1>8, <1>10 DEF Goes
<1>12. Tries(v, k, c, t) <=> Tries(b, k, c, t)
  BY <1>11 DEF Tries, Stale
<1>13. Pays(v, k, c, t) <=> Pays(b, k, c, t)
  BY <1>12 DEF Pays
<1>14. Error(v, k, c, t) = Error(b, k, c, t)
  <2>1. ~(Goes(v, k, c, t) /\ Stale(v, k, c)) /\ ~Stale(b, k, c)
    BY DEF Stale
  <2>2. v = "alt_history_early" => ~Fails(k, History) \/ ~Asked(c)
    BY DEF Found
  <2> QED
    BY <1>1, <1>2, <1>4, <1>12, <2>1, <2>2 DEF Error
<1> QED
  BY <1>2, <1>3, <1>5, <1>6, <1>7, <1>8, <1>9, <1>10, <1>11, <1>12, <1>13, <1>14 DEF SameCourse

(* Two runs of a pair that get to a plan together plan the same refund. *)
LEMMA SamePlan ==
  ASSUME NEW v, NEW k, NEW r1, NEW r2, NEW c, c = Class(r1.st), FinishedPair(v, k, r1, r2),
         Plans(v, k, c) <=> Plans("baseline", k, c),
         Seen(v, k, c.order_id) = Seen("baseline", k, c.order_id)
  PROVE  /\ r2.st.refund_type = r1.st.refund_type
         /\ r1.st.refund_type # None <=> Plans("baseline", k, c)
<1>1. /\ r1.st.refund_type # None <=> Plans("baseline", k, c)
      /\ r2.st.refund_type # None <=> Plans(v, k, c)
      /\ Holds(r1.st, "baseline", k, c, Found("baseline", k, c), Reads("baseline", k, c), Answers("baseline", k, c),
               MustAsk("baseline", k, c, r1.st.refund_type))
      /\ Holds(r2.st, v, k, c, Found(v, k, c), Reads(v, k, c), Answers(v, k, c), MustAsk(v, k, c, r2.st.refund_type))
  BY DEF FinishedPair, Ended
<1>2. CASE Plans(v, k, c)
  <2>1. Found(v, k, c) /\ Found("baseline", k, c)
    BY <1>2, Ladder
  <2>2. r1.st.order = r2.st.order
    BY <1>1, <2>1 DEF Holds
  <2> QED
    BY <1>1, <1>2, <2>2 DEF FinishedPair
<1>3. CASE ~Plans(v, k, c)
  BY <1>1, <1>3
<1> QED
  BY <1>2, <1>3

(* Two runs of one course end in the same state. *)
LEMMA SameEnds ==
  ASSUME NEW v, NEW k, NEW r1, NEW r2, NEW c, NEW t, c = Class(r1.st), t = r1.st.refund_type, FinishedPair(v, k, r1, r2),
         SameCourse(v, k, c, t)
  PROVE  r2.st = r1.st
<1>1. r2.st.refund_type = t
  BY SamePlan DEF SameCourse
<1>2. /\ Holds(r1.st, "baseline", k, c, Found("baseline", k, c), Reads("baseline", k, c), Answers("baseline", k, c),
               MustAsk("baseline", k, c, t))
      /\ r1.st.refund_id = (IF Pays("baseline", k, c, t) THEN 1 ELSE None) /\ r1.st.error = Error("baseline", k, c, t)
  BY DEF FinishedPair, Ended
<1>3. /\ Holds(r2.st, v, k, c, Found(v, k, c), Reads(v, k, c), Answers(v, k, c), MustAsk(v, k, c, t))
      /\ r2.st.refund_id = (IF Pays(v, k, c, t) THEN 1 ELSE None) /\ r2.st.error = Error(v, k, c, t)
  BY <1>1 DEF FinishedPair, Ended
<1>4. /\ r2.st.intent = r1.st.intent /\ r2.st.order_id = r1.st.order_id /\ r2.st.order = r1.st.order
      /\ r2.st.prior_refunds = r1.st.prior_refunds /\ r2.st.eligibility = r1.st.eligibility
      /\ r2.st.refund_amount = r1.st.refund_amount /\ r2.st.approval = r1.st.approval
      /\ r2.st.refund_id = r1.st.refund_id /\ r2.st.error = r1.st.error
  BY <1>1, <1>2, <1>3 DEF Holds, SameCourse
<1>5. r1.st \in RefundState /\ r2.st \in RefundState
  BY DEF FinishedPair, Typed
<1> QED
  BY <1>1, <1>4, <1>5 DEF RefundState

(* The reply of a run with no refund issued repeats its error. *)
LEMMA RepliesError ==
  ASSUME NEW v, NEW s, v # "B", s.refund_id = None
  PROVE  FactsOf(v, s).error = s.error
BY DEF FactsOf

(* What the ledger of a finished pair holds. *)
LEMMA Ledgers ==
  ASSUME NEW v, NEW k, NEW r1, NEW r2, NEW c, c = Class(r1.st), FinishedPair(v, k, r1, r2)
  PROVE  /\ r1.world.refunds = IF Pays("baseline", k, c, r1.st.refund_type) THEN <<Paid("baseline", r1.st)>> ELSE << >>
         /\ r2.world.refunds = IF Pays(v, k, c, r2.st.refund_type) THEN <<Paid(v, r2.st)>> ELSE << >>
BY DEF FinishedPair, Settled

(* Runs of one course pay and say the same, but for the faults of the payment and of the reply. *)
LEMMA SameCourseSameOutcome ==
  ASSUME NEW v \in PAIRED \ {"B", "M6", "M8"}, NEW k, NEW r1, NEW r2, FinishedPair(v, k, r1, r2),
         SameCourse(v, k, Class(r1.st), r1.st.refund_type)
  PROVE  r2.world.refunds = r1.world.refunds /\ r2.reply = r1.reply
<1> DEFINE c == Class(r1.st)
           t == r1.st.refund_type
<1>1. r2.st = r1.st
  BY SameEnds
<1>2. Paid(v, r1.st) = Paid("baseline", r1.st)
  BY DEF Paid
<1>3. FactsOf(v, r1.st) = FactsOf("baseline", r1.st)
  BY DEF FactsOf
<1>4. Pays(v, k, c, t) <=> Pays("baseline", k, c, t)
  BY DEF SameCourse
<1>5. /\ r1.world.refunds = IF Pays("baseline", k, c, t) THEN <<Paid("baseline", r1.st)>> ELSE << >>
      /\ r2.world.refunds = IF Pays(v, k, c, t) THEN <<Paid(v, r1.st)>> ELSE << >>
  BY <1>1, Ledgers
<1>6. r1.reply = FactsOf("baseline", r1.st) /\ r2.reply = FactsOf(v, r1.st)
  BY <1>1 DEF FinishedPair
<1> QED
  BY <1>2, <1>3, <1>4, <1>5, <1>6

(* alt_history_early stops on a history that the baseline reads later, or not at all. *)
LEMMA HistoryEarly ==
  ASSUME NEW k, NEW r1, NEW r2, FinishedPair("alt_history_early", k, r1, r2)
  PROVE  /\ r2.world.refunds = r1.world.refunds
         /\ r2.reply # r1.reply => r2.reply.error = History /\ r1.reply.error # None
<1> DEFINE c == Class(r1.st)
           v == "alt_history_early"
           b == "baseline"
<1>1. /\ Typed(r1) /\ Typed(r2) /\ Ended(r1.st, b, k, c) /\ Ended(r2.st, v, k, c)
      /\ r1.reply = FactsOf(b, r1.st) /\ r2.reply = FactsOf(v, r2.st)
  BY DEF FinishedPair
<1>2. CASE Found(v, k, c) \/ ~Asked(c)
  <2>1. SameCourse(v, k, c, r1.st.refund_type)
    BY <1>2, Courses
  <2>2. v \in PAIRED \ {"B", "M6", "M8"}
    BY DEF PAIRED, ALL_VARIANTS, VALID_VARIANTS, CHANGES
  <2> QED
    BY <2>1, <2>2, SameCourseSameOutcome
<1>3. CASE Asked(c) /\ ~Found(v, k, c)
  <2>1. ~Plans(v, k, c) /\ ~Pays(v, k, c, r2.st.refund_type) /\ ~MustAsk(v, k, c, r2.st.refund_type) /\ ~Answers(v, k, c)
    BY <1>3, Ladder
  <2>2. ~Plans(b, k, c) /\ ~Pays(b, k, c, r1.st.refund_type) /\ ~MustAsk(b, k, c, r1.st.refund_type) /\ ~Answers(b, k, c)
        /\ (~Fails(k, History) => ~Found(b, k, c))
    <3>1. Found(b, k, c) => Fails(k, History)
      BY <1>3 DEF Found, Seen
    <3>2. ~Plans(b, k, c) /\ ~Answers(b, k, c)
      BY <3>1, Ladder DEF Reads, Answers, Checks
    <3> QED
      BY <3>1, <3>2, Ladder
  <2>3. r1.st.refund_id = None /\ r2.st.refund_id = None /\ r1.st.refund_type = None /\ r2.st.refund_type = None
        /\ r1.st.error = Error(b, k, c, None) /\ r2.st.error = Error(v, k, c, None)
    BY <1>1, <2>1, <2>2 DEF Ended
  <2>4. r1.world.refunds = << >> /\ r2.world.refunds = << >>
    BY <2>1, <2>2, Ledgers
  <2>5. CASE Fails(k, History)
    <3>1. Error(v, k, c, None) = History
      BY <1>3, <2>5 DEF Error
    <3>2. Error(b, k, c, None) \in {Lookup, "no_order", History}
      BY <1>3, <2>5 DEF Error
    <3>3. None \notin {Lookup, "no_order", History}
      BY RoutingAssumption DEF Errors, ToolNames, Lookup, History
    <3>4. r2.reply.error = History /\ r1.reply.error = Error(b, k, c, None)
      BY <1>1, <2>3, <3>1, RepliesError
    <3> QED
      BY <2>4, <3>2, <3>3, <3>4
  <2>6. CASE ~Fails(k, History)
    <3>1. Error(v, k, c, None) = Error(b, k, c, None)
      <4>1. Seen(v, k, c.order_id) = Seen(b, k, c.order_id) /\ ~Found(b, k, c)
        BY <2>2, <2>6 DEF Seen
      <4>2. ~Fails(k, Lookup) => Seen(b, k, c.order_id) = None
        BY <1>3, <4>1 DEF Found
      <4> QED
        BY <1>3, <2>6, <4>1, <4>2 DEF Error
    <3>2. /\ r2.st.order_id = r1.st.order_id /\ r2.st.order = r1.st.order /\ r2.st.eligibility = r1.st.eligibility
          /\ r2.st.refund_amount = r1.st.refund_amount /\ r2.st.approval = r1.st.approval /\ r2.st.error = r1.st.error
      <4>1. Holds(r1.st, b, k, c, FALSE, Reads(b, k, c), FALSE, FALSE) /\ Holds(r2.st, v, k, c, FALSE, Reads(v, k, c), FALSE, FALSE)
        <5>1. Found(b, k, c) = FALSE /\ Answers(b, k, c) = FALSE /\ MustAsk(b, k, c, r1.st.refund_type) = FALSE
          BY <2>2, <2>6 DEF Found, Answers, Checks, MustAsk, Plans, Reads, Clears, Asked
        <5>2. Found(v, k, c) = FALSE /\ Answers(v, k, c) = FALSE /\ MustAsk(v, k, c, r2.st.refund_type) = FALSE
          BY <1>3, <2>1 DEF Found, Answers, Checks, MustAsk, Plans, Reads, Clears, Asked
        <5> QED
          BY <1>1, <5>1, <5>2 DEF Ended
      <4> QED
        BY <2>3, <3>1, <4>1 DEF Holds
    <3>3. FactsOf(v, r2.st) = FactsOf(b, r1.st)
      BY <2>3, <3>2 DEF FactsOf
    <3> QED
      BY <1>1, <2>4, <3>3
  <2> QED
    BY <2>5, <2>6
<1> QED
  BY <1>2, <1>3

(* alt_verify may stop on a changed price. *)
LEMMA VerifyStops ==
  ASSUME NEW k, NEW r1, NEW r2, FinishedPair("alt_verify", k, r1, r2)
  PROVE  \/ r2.world.refunds = r1.world.refunds /\ r2.reply = r1.reply
         \/ r2.world.refunds = << >> /\ r2.reply.error = "order_changed" /\ k.reprice # None
<1> DEFINE c == Class(r1.st)
           v == "alt_verify"
           t == r1.st.refund_type
<1>1. CASE ~(Goes(v, k, c, t) /\ Stale(v, k, c))
  <2>1. SameCourse(v, k, c, t)
    BY <1>1, Courses
  <2>2. v \in PAIRED \ {"B", "M6", "M8"}
    BY DEF PAIRED, ALL_VARIANTS, VALID_VARIANTS, CHANGES
  <2> QED
    BY <2>1, <2>2, SameCourseSameOutcome
<1>2. CASE Goes(v, k, c, t) /\ Stale(v, k, c)
  <2>1. v \in PAIRED /\ Plans(v, k, c) /\ ~Tries(v, k, c, t) /\ ~Pays(v, k, c, t)
    BY <1>2, Ladder DEF Tries, PAIRED, ALL_VARIANTS, VALID_VARIANTS, CHANGES
  <2>2. Error(v, k, c, t) = "order_changed"
    BY <1>2, <2>1, DuePlan
  <2>3. r2.st.refund_type = t
    <3>1. Seen(v, k, c.order_id) = Seen("baseline", k, c.order_id)
      BY DEF Seen
    <3>2. Found(v, k, c) <=> Found("baseline", k, c)
      BY <3>1 DEF Found
    <3>3. Clears(v, k, c) <=> Clears("baseline", k, c)
      BY <3>1, <3>2 DEF Clears, Answers, Checks, Skips, Verdict
    <3>4. Plans(v, k, c) <=> Plans("baseline", k, c)
      BY <3>2, <3>3 DEF Plans, Reads, Skips
    <3> QED
      BY <3>1, <3>4, SamePlan
  <2>4. r2.st.refund_id = None /\ r2.st.error = "order_changed" /\ r2.world.refunds = << >>
    BY <2>1, <2>2, <2>3, Ledgers DEF FinishedPair, Ended
  <2>5. r2.reply.error = "order_changed"
    BY <2>4, RepliesError DEF FinishedPair
  <2> QED
    BY <1>2, <2>4, <2>5 DEF Stale
<1> QED
  BY <1>1, <1>2

(* An alternate implementation pays the refund the baseline pays and tells the customer the same    *)
(* facts, unless it stops on an error the baseline meets later or not at all (V1-V6,                *)
(* agent/graph.py:182-229, 274-364; the cost mutants C, C1, C2 and M7; the alternates of Part 1).   *)
THEOREM AlternatesEndAlike == PairSpec => []SameOutcome
<1>1. PairInv => SameOutcome
  <2> SUFFICES ASSUME PairInv, BothDone
               PROVE  /\ variant \in INDEPENDENT_VALID \cup {"C", "C1", "C2", "M7", "alt_recheck"} =>
                           world2.refunds = world1.refunds /\ reply2 = reply1
                      /\ variant = "alt_history_early" =>
                           /\ world2.refunds = world1.refunds
                           /\ reply2 # reply1 => reply2.error = "get_refund_history" /\ reply1.error # None
                      /\ variant = "alt_verify" =>
                           \/ world2.refunds = world1.refunds /\ reply2 = reply1
                           \/ world2.refunds = << >> /\ reply2.error = "order_changed" /\ case.reprice # None
    BY DEF SameOutcome
  <2>1. FinishedPair(variant, case, Run1, Run2)
    BY PairEnds
  <2>2. /\ Run1.world = world1 /\ Run1.reply = reply1 /\ Run2.world = world2 /\ Run2.reply = reply2
    BY DEF Run1, Run2, RunOf
  <2>3. ASSUME variant \in INDEPENDENT_VALID \cup {"C", "C1", "C2", "M7", "alt_recheck"}
        PROVE  world2.refunds = world1.refunds /\ reply2 = reply1
    <3>1. variant \in ALIKE /\ variant \in PAIRED \ {"B", "M6", "M8"} /\ variant \notin {"alt_verify", "alt_history_early"}
      BY <2>3 DEF ALIKE, PAIRED, ALL_VARIANTS, VALID_VARIANTS, MUTANTS, INDEPENDENT_MUTANTS, INDEPENDENT_VALID, CHANGES
    <3>2. SameCourse(variant, case, Class(Run1.st), Run1.st.refund_type)
      BY <3>1, Courses
    <3> QED
      BY <2>1, <2>2, <3>1, <3>2, SameCourseSameOutcome
  <2>4. variant = "alt_history_early" =>
           /\ world2.refunds = world1.refunds
           /\ reply2 # reply1 => reply2.error = "get_refund_history" /\ reply1.error # None
    BY <2>1, <2>2, HistoryEarly DEF History
  <2>5. variant = "alt_verify" =>
           \/ world2.refunds = world1.refunds /\ reply2 = reply1
           \/ world2.refunds = << >> /\ reply2.error = "order_changed" /\ case.reprice # None
    BY <2>1, <2>2, VerifyStops
  <2> QED
    BY <2>3, <2>4, <2>5
<1> QED
  BY <1>1, RunsAreAsTabled, PTL

-----------------------------------------------------------------------------
(* A list of calls as it is logged is as long as the list, call by call. *)
LEMMA LogIsSeq ==
  ASSUME NEW k, NEW calls \in Seq(ToolNames)
  PROVE  /\ LogOf(k, calls) \in Seq(ToolCall) /\ Len(LogOf(k, calls)) = Len(calls)
         /\ DOMAIN LogOf(k, calls) = DOMAIN calls /\ DOMAIN calls = 1..Len(calls) /\ Len(calls) \in Nat
         /\ \A i \in DOMAIN calls : LogOf(k, calls)[i] = [name |-> calls[i], ok |-> ~Fails(k, calls[i])]
         /\ \A i \in DOMAIN calls : LogOf(k, calls)[i].name = calls[i]
<1> DEFINE f == LogOf(k, calls)
<1>1. DOMAIN calls = 1..Len(calls) /\ Len(calls) \in Nat /\ \A i \in DOMAIN calls : calls[i] \in ToolNames
  OBVIOUS
<1>2. /\ DOMAIN f = DOMAIN calls
      /\ \A i \in DOMAIN calls : f[i] = [name |-> calls[i], ok |-> ~Fails(k, calls[i])]
  BY DEF LogOf
<1>3. \A i \in DOMAIN calls : [name |-> calls[i], ok |-> ~Fails(k, calls[i])] \in ToolCall
  <2> SUFFICES ASSUME NEW i \in DOMAIN calls PROVE [name |-> calls[i], ok |-> ~Fails(k, calls[i])] \in ToolCall
    OBVIOUS
  <2>1. (~Fails(k, calls[i])) \in BOOLEAN
    BY DEF Fails
  <2> QED
    BY <1>1, <2>1 DEF ToolCall
<1>4. f \in [1..Len(calls) -> ToolCall]
  <2>1. \A i \in DOMAIN calls : f[i] \in ToolCall
    BY <1>2, <1>3
  <2>2. f = [i \in DOMAIN calls |-> f[i]]
    BY DEF LogOf
  <2> HIDE DEF f
  <2> QED
    BY <1>1, <2>1, <2>2
<1>5. \A i \in DOMAIN calls : f[i].name = calls[i]
  BY <1>2
<1> HIDE DEF f
<1>6. f \in Seq(ToolCall)
  BY <1>1, <1>4
<1>7. Len(f) = Len(calls)
  BY <1>1, <1>2, <1>6
<1> QED
  BY <1>1, <1>2, <1>5, <1>6, <1>7 DEF f

(* Without its last call a log is that of the calls before it. *)
LEMMA LogFront ==
  ASSUME NEW k, NEW calls \in Seq(ToolNames), NEW tool \in ToolNames
  PROVE  Front(LogOf(k, Append(calls, tool))) = LogOf(k, calls)
<1> DEFINE f == LogOf(k, calls)
           more == Append(calls, tool)
           g == LogOf(k, more)
           n == Len(calls)
<1>1. /\ more \in Seq(ToolNames) /\ n \in Nat /\ Len(more) = n + 1 /\ \A i \in 1..n : more[i] = calls[i]
  BY AppendProperties
<1> HIDE DEF more
<1>2. f \in Seq(ToolCall) /\ Len(f) = n /\ \A i \in 1..n : f[i] = [name |-> calls[i], ok |-> ~Fails(k, calls[i])]
  BY LogIsSeq
<1>3. g \in Seq(ToolCall) /\ Len(g) = n + 1 /\ \A i \in 1..(n + 1) : g[i] = [name |-> more[i], ok |-> ~Fails(k, more[i])]
  BY <1>1, LogIsSeq
<1> HIDE DEF f, g
<1>4. \A i \in 1..n : g[i] = f[i]
  BY <1>1, <1>2, <1>3
<1>5. SubSeq(g, 1, n) \in Seq(ToolCall) /\ Len(SubSeq(g, 1, n)) = n /\ \A i \in 1..n : SubSeq(g, 1, n)[i] = g[i]
  BY <1>1, <1>3
<1>6. SubSeq(g, 1, n) = f
  BY <1>1, <1>2, <1>4, <1>5, SeqEqual
<1>7. Len(g) - 1 = n
  BY <1>1, <1>3
<1> QED
  BY <1>6, <1>7 DEF Front, f, g, more

(* What the baseline has called when it ends. *)
LEMMA BaselineCalls ==
  ASSUME NEW k, NEW c, NEW t
  PROVE  LET b == "baseline"
             e == EndCalls(b, k, c, t)
         IN /\ ~Asked(c) => e = << >>
            /\ Asked(c) /\ ~Found(b, k, c) => e = <<Lookup>>
            /\ Found(b, k, c) /\ Fails(k, History) => e = <<Lookup, History>>
            /\ Found(b, k, c) /\ ~Fails(k, History) /\ ~Tries(b, k, c, t) => e = <<Lookup, History, Check>>
            /\ Tries(b, k, c, t) => e = <<Lookup, History, Check, Issue>> /\ Found(b, k, c) /\ ~Fails(k, History)
<1> DEFINE b == "baseline"
<1>1. LookedCalls(b, k, c) = <<Lookup>> /\ ReadCalls(b, k, c) = <<Lookup, History>>
  BY DEF LookedCalls, ReadCalls
<1>2. CheckedCalls(b, k, c) = <<Lookup, History, Check>>
  BY DEF CheckedCalls, Skips
<1>3. PlannedCalls(b, k, c) = <<Lookup, History, Check>> /\ WriteCalls(b, k, c) = <<Lookup, History, Check>>
  BY <1>2 DEF PlannedCalls, WriteCalls
<1>4. TriedCalls(b, k, c) = <<Lookup, History, Check, Issue>>
  <2>1. Append(<<Lookup, History, Check>>, Issue) = <<Lookup, History, Check, Issue>>
    BY LongLists, Zenon
  <2> QED
    BY <1>3, <2>1 DEF TriedCalls
<1>5. Found(b, k, c) => Asked(c)
  BY Ladder
<1>6. Tries(b, k, c, t) <=> Goes(b, k, c, t)
  BY DEF Tries, Stale
<1>7. Goes(b, k, c, t) => Plans(b, k, c) /\ Found(b, k, c) /\ ~Fails(k, History)
  BY DEF Goes, Plans, Reads
<1> QED
  BY <1>1, <1>2, <1>3, <1>4, <1>5, <1>6, <1>7 DEF EndCalls

(* V4, V5 and V6 call what the baseline calls. *)
LEMMA QuietAlternates ==
  ASSUME NEW v \in {"V4", "V5", "V6"}, NEW k, NEW c, NEW t
  PROVE  EndCalls(v, k, c, t) = EndCalls("baseline", k, c, t)
<1> DEFINE b == "baseline"
<1>1. SameCourse(v, k, c, t)
  BY Courses DEF ALIKE, INDEPENDENT_VALID
<1>2. v \notin {"V1", "V2", "V3", "M2", "M3", "M7", "A", "C", "C1", "C2", "alt_history_early", "alt_recheck", "alt_verify"}
  OBVIOUS
<1>3. LookedCalls(v, k, c) = LookedCalls(b, k, c) /\ ReadCalls(v, k, c) = ReadCalls(b, k, c)
  BY <1>2 DEF LookedCalls, ReadCalls
<1>4. CheckedCalls(v, k, c) = CheckedCalls(b, k, c)
  BY <1>2 DEF CheckedCalls, Skips
<1>5. WriteCalls(v, k, c) = WriteCalls(b, k, c) /\ PlannedCalls(v, k, c) = PlannedCalls(b, k, c)
  BY <1>2, <1>4 DEF WriteCalls, PlannedCalls
<1>6. TriedCalls(v, k, c) = TriedCalls(b, k, c)
  BY <1>2, <1>5 DEF TriedCalls
<1>7. /\ Found(v, k, c) <=> Found(b, k, c)
      /\ Plans(v, k, c) <=> Plans(b, k, c)
      /\ Goes(v, k, c, t) <=> Goes(b, k, c, t)
      /\ Tries(v, k, c, t) <=> Tries(b, k, c, t)
  BY <1>1 DEF SameCourse
<1> QED
  BY <1>2, <1>3, <1>4, <1>5, <1>6, <1>7 DEF EndCalls

(* V1 makes the call that failed twice. *)
LEMMA RetriedCalls ==
  ASSUME NEW k, NEW c, NEW t
  PROVE  LET v == "V1"
             b == "baseline"
             e == EndCalls(v, k, c, t)
         IN /\ Error(v, k, c, t) = Lookup => e = <<Lookup, Lookup>> /\ EndCalls(b, k, c, t) = <<Lookup>>
            /\ Error(v, k, c, t) = History => e = <<Lookup, History, History>> /\ EndCalls(b, k, c, t) = <<Lookup, History>>
            /\ Error(v, k, c, t) = Check =>
                 e = <<Lookup, History, Check, Check>> /\ EndCalls(b, k, c, t) = <<Lookup, History, Check>>
            /\ Error(v, k, c, t) \notin {Lookup, History, Check} =>
                 /\ e = EndCalls(b, k, c, t)
                 /\ e \in {<< >>, <<Lookup>>, <<Lookup, History, Check>>, <<Lookup, History, Check, Issue>>}
<1> DEFINE v == "V1"
           b == "baseline"
           err == Error(v, k, c, t)
<1>1. v \in ALIKE
  BY DEF ALIKE, INDEPENDENT_VALID
<1>2. /\ Found(v, k, c) <=> Found(b, k, c)
      /\ Plans(v, k, c) <=> Plans(b, k, c)
      /\ Goes(v, k, c, t) <=> Goes(b, k, c, t)
      /\ Tries(v, k, c, t) <=> Tries(b, k, c, t)
  BY <1>1, Courses DEF SameCourse
<1>3. /\ ~Skips(v, c) /\ ~Stale(v, k, c) /\ (Tries(v, k, c, t) <=> Goes(v, k, c, t))
      /\ (Checks(v, k, c) <=> Found(v, k, c) /\ ~Fails(k, History))
      /\ (Found(v, k, c) => Asked(c) /\ ~Fails(k, Lookup) /\ Seen(v, k, c.order_id) # None)
      /\ (Found(v, k, c) <=> Asked(c) /\ ~Fails(k, Lookup) /\ Seen(v, k, c.order_id) # None)
      /\ (Goes(v, k, c, t) => Plans(v, k, c))
      /\ (Plans(v, k, c) => Found(v, k, c) /\ ~Fails(k, History) /\ ~Fails(k, Check))
  BY DEF Skips, Stale, Tries, Checks, Found, Goes, Plans, Reads, Clears, Answers
<1>4. err = IF ~Asked(c) THEN None ELSE IF Fails(k, Lookup) THEN Lookup ELSE IF Seen(v, k, c.order_id) = None THEN "no_order"
            ELSE IF Fails(k, History) THEN History ELSE IF Fails(k, Check) THEN Check
            ELSE IF Tries(v, k, c, t) /\ Fails(k, Issue) THEN Issue ELSE None
  BY <1>3 DEF Error
<1>5. /\ CheckedCalls(v, k, c) = <<Lookup, History, Check>>
      /\ LookedCalls(v, k, c) = IF Fails(k, Lookup) THEN <<Lookup, Lookup>> ELSE <<Lookup>>
      /\ PlannedCalls(v, k, c) = <<Lookup, History, Check>>
      /\ WriteCalls(v, k, c) = <<Lookup, History, Check>>
  <2>1. CheckedCalls(v, k, c) = <<Lookup, History, Check>>
    BY <1>3 DEF CheckedCalls
  <2>2. LookedCalls(v, k, c) = IF Fails(k, Lookup) THEN <<Lookup, Lookup>> ELSE <<Lookup>>
    BY DEF LookedCalls
  <2> QED
    BY <2>1, <2>2 DEF PlannedCalls, WriteCalls
<1>6. TriedCalls(v, k, c) = <<Lookup, History, Check, Issue>>
  <2>1. Append(<<Lookup, History, Check>>, Issue) = <<Lookup, History, Check, Issue>>
    BY LongLists, Zenon
  <2> QED
    BY <1>5, <2>1 DEF TriedCalls
<1>7. EndCalls(v, k, c, t) =
        IF ~Asked(c) THEN << >>
        ELSE IF ~Found(v, k, c) THEN (IF Fails(k, Lookup) THEN <<Lookup, Lookup>> ELSE <<Lookup>>)
        ELSE IF Fails(k, History) THEN <<Lookup, History, History>>
        ELSE IF Fails(k, Check) THEN <<Lookup, History, Check, Check>>
        ELSE IF ~Tries(v, k, c, t) THEN <<Lookup, History, Check>>
        ELSE <<Lookup, History, Check, Issue>>
  BY <1>3, <1>5, <1>6 DEF EndCalls
<1>8. /\ ~Asked(c) => EndCalls(b, k, c, t) = << >>
      /\ Asked(c) /\ ~Found(b, k, c) => EndCalls(b, k, c, t) = <<Lookup>>
      /\ Found(b, k, c) /\ Fails(k, History) => EndCalls(b, k, c, t) = <<Lookup, History>>
      /\ Found(b, k, c) /\ ~Fails(k, History) /\ ~Tries(b, k, c, t) => EndCalls(b, k, c, t) = <<Lookup, History, Check>>
      /\ Tries(b, k, c, t) => EndCalls(b, k, c, t) = <<Lookup, History, Check, Issue>>
  BY BaselineCalls
<1>9. /\ Lookup # History /\ Lookup # Check /\ History # Check /\ Issue \notin {Lookup, History, Check}
      /\ "no_order" \notin {Lookup, History, Check} /\ None \notin {Lookup, History, Check}
  BY FourTools DEF Lookup, History, Check, Issue
<1> DEFINE e == EndCalls(v, k, c, t)
           e1 == EndCalls(b, k, c, t)
<1> HIDE DEF e, e1, err
<1>10. CASE ~Asked(c)
  <2>1. err = None /\ e = << >> /\ e1 = << >>
    BY <1>4, <1>7, <1>8, <1>10 DEF e, e1
  <2> QED
    BY <1>9, <2>1 DEF e, e1, err
<1>11. CASE Asked(c) /\ Fails(k, Lookup)
  <2>1. err = Lookup /\ e = <<Lookup, Lookup>> /\ e1 = <<Lookup>>
    BY <1>2, <1>3, <1>4, <1>7, <1>8, <1>11 DEF e, e1
  <2> QED
    BY <1>9, <2>1 DEF e, e1, err
<1>12. CASE Asked(c) /\ ~Fails(k, Lookup) /\ ~Found(v, k, c)
  <2>1. err = "no_order" /\ e = <<Lookup>> /\ e1 = <<Lookup>>
    BY <1>2, <1>3, <1>4, <1>7, <1>8, <1>12 DEF e, e1
  <2> QED
    BY <1>9, <2>1 DEF e, e1, err
<1>13. CASE Found(v, k, c) /\ Fails(k, History)
  <2>1. err = History /\ e = <<Lookup, History, History>> /\ e1 = <<Lookup, History>>
    BY <1>2, <1>3, <1>4, <1>7, <1>8, <1>13 DEF e, e1
  <2> QED
    BY <1>9, <2>1 DEF e, e1, err
<1>14. CASE Found(v, k, c) /\ ~Fails(k, History) /\ Fails(k, Check)
  <2>1. err = Check /\ e = <<Lookup, History, Check, Check>> /\ e1 = <<Lookup, History, Check>>
    BY <1>2, <1>3, <1>4, <1>7, <1>8, <1>14 DEF e, e1
  <2> QED
    BY <1>9, <2>1 DEF e, e1, err
<1>15. CASE Found(v, k, c) /\ ~Fails(k, History) /\ ~Fails(k, Check)
  <2>1. err \in {Issue, None}
    BY <1>3, <1>4, <1>15
  <2>2. e = e1 /\ e \in {<<Lookup, History, Check>>, <<Lookup, History, Check, Issue>>}
    BY <1>2, <1>3, <1>7, <1>8, <1>15 DEF e, e1
  <2> QED
    BY <1>9, <2>1, <2>2 DEF e, e1, err
<1> QED
  BY <1>3, <1>10, <1>11, <1>12, <1>13, <1>14, <1>15

(* V2 reads the history of an order it did not find; V3 reads it once more after the write. *)
LEMMA ExtraReads ==
  ASSUME NEW v \in {"V2", "V3"}, NEW k, NEW c, NEW t
  PROVE  EndCalls(v, k, c, t) =
           IF (v = "V2" /\ Asked(c) /\ ~Found(v, k, c)) \/ (v = "V3" /\ Tries(v, k, c, t))
           THEN Append(EndCalls("baseline", k, c, t), History)
           ELSE EndCalls("baseline", k, c, t)
<1> DEFINE b == "baseline"
<1>1. SameCourse(v, k, c, t)
  BY Courses DEF ALIKE, INDEPENDENT_VALID
<1>2. v \notin {"V1", "M2", "M3", "M7", "A", "C", "C1", "C2", "alt_history_early", "alt_recheck", "alt_verify"}
  OBVIOUS
<1>3. /\ ReadCalls(v, k, c) = ReadCalls(b, k, c) /\ LookedCalls(b, k, c) = <<Lookup>>
      /\ LookedCalls(v, k, c) = IF v = "V2" THEN <<Lookup, History>> ELSE <<Lookup>>
  BY <1>2 DEF LookedCalls, ReadCalls
<1>4. CheckedCalls(v, k, c) = CheckedCalls(b, k, c)
  BY <1>2 DEF CheckedCalls, Skips
<1>5. WriteCalls(v, k, c) = WriteCalls(b, k, c) /\ PlannedCalls(v, k, c) = PlannedCalls(b, k, c)
  BY <1>2, <1>4 DEF WriteCalls, PlannedCalls
<1>6. TriedCalls(v, k, c) = IF v = "V3" THEN Append(TriedCalls(b, k, c), History) ELSE TriedCalls(b, k, c)
  BY <1>2, <1>5 DEF TriedCalls
<1>7. /\ Found(v, k, c) <=> Found(b, k, c)
      /\ Plans(v, k, c) <=> Plans(b, k, c)
      /\ Goes(v, k, c, t) <=> Goes(b, k, c, t)
      /\ Tries(v, k, c, t) <=> Tries(b, k, c, t)
  BY <1>1 DEF SameCourse
<1>8. Append(<<Lookup>>, History) = <<Lookup, History>>
  BY ShortLists, Zenon
<1>9. Tries(v, k, c, t) => Goes(v, k, c, t) /\ Plans(v, k, c) /\ Found(v, k, c) /\ Asked(c) /\ ~Fails(k, History)
  BY DEF Tries, Goes, Plans, Reads, Found
<1>10. Found(v, k, c) => Asked(c)
  BY DEF Found
<1>11. CASE v = "V2" /\ Asked(c) /\ ~Found(v, k, c)
  <2>1. EndCalls(v, k, c, t) = LookedCalls(v, k, c) /\ EndCalls(b, k, c, t) = LookedCalls(b, k, c)
    BY <1>2, <1>7, <1>11 DEF EndCalls
  <2> QED
    BY <1>3, <1>8, <1>11, <2>1
<1>12. CASE v = "V3" /\ Tries(v, k, c, t)
  BY <1>2, <1>6, <1>7, <1>9, <1>12 DEF EndCalls
<1>13. CASE ~(v = "V2" /\ Asked(c) /\ ~Found(v, k, c)) /\ ~(v = "V3" /\ Tries(v, k, c, t))
  <2>1. Asked(c) /\ ~Found(v, k, c) => LookedCalls(v, k, c) = LookedCalls(b, k, c)
    BY <1>3, <1>13
  <2>2. Tries(v, k, c, t) => TriedCalls(v, k, c) = TriedCalls(b, k, c)
    BY <1>6, <1>13
  <2>3. EndCalls(v, k, c, t) = EndCalls(b, k, c, t)
    BY <1>2, <1>3, <1>4, <1>5, <1>7, <1>9, <2>1, <2>2 DEF EndCalls
  <2> QED
    BY <1>13, <2>3
<1> QED
  BY <1>11, <1>12, <1>13

(* The short lists of calls, by their elements. *)
LEMMA ListElements ==
  /\ <<Lookup>> \in Seq(ToolNames) /\ Len(<<Lookup>>) = 1 /\ <<Lookup>>[1] = Lookup
  /\ << >> \in Seq(ToolNames) /\ Len(<< >>) = 0
  /\ \A a, b \in ToolNames : <<a, b>> \in Seq(ToolNames) /\ Len(<<a, b>>) = 2 /\ <<a, b>>[1] = a /\ <<a, b>>[2] = b
  /\ \A a, b, d \in ToolNames :
       /\ <<a, b, d>> \in Seq(ToolNames) /\ Len(<<a, b, d>>) = 3
       /\ <<a, b, d>>[1] = a /\ <<a, b, d>>[2] = b /\ <<a, b, d>>[3] = d
  /\ \A a, b, d, e \in ToolNames :
       /\ <<a, b, d, e>> \in Seq(ToolNames) /\ Len(<<a, b, d, e>>) = 4
       /\ <<a, b, d, e>>[1] = a /\ <<a, b, d, e>>[2] = b /\ <<a, b, d, e>>[3] = d /\ <<a, b, d, e>>[4] = e
<1>1. Lookup \in ToolNames
  BY FourTools
<1>2. \A a \in ToolNames : <<a>> \in Seq(ToolNames) /\ Len(<<a>>) = 1 /\ <<a>>[1] = a
  OBVIOUS
<1> QED
  BY <1>1, <1>2

(* Two consecutive calls at the end of a log are one call repeated when they name the same tool. *)
LEMMA Repeats ==
  ASSUME NEW k, NEW calls \in Seq(ToolNames)
  PROVE  RepeatsLast(LogOf(k, calls)) <=> Len(calls) > 1 /\ calls[Len(calls)] = calls[Len(calls) - 1]
<1> DEFINE f == LogOf(k, calls)
           n == Len(calls)
<1>1. Len(f) = n /\ n \in Nat /\ DOMAIN calls = 1..n
      /\ \A i \in 1..n : f[i] = [name |-> calls[i], ok |-> ~Fails(k, calls[i])] /\ f[i].name = calls[i]
  BY LogIsSeq
<1> HIDE DEF f
<1>2. n > 1 => n \in 1..n /\ n - 1 \in 1..n
  BY <1>1
<1>3. n > 1 => (f[n] = f[n - 1] <=> calls[n] = calls[n - 1])
  BY <1>1, <1>2
<1> QED
  BY <1>1, <1>3 DEF RepeatsLast, f

(* Which of the lists repeat their last call. *)
LEMMA RepeatingLists ==
  ASSUME NEW k
  PROVE  /\ \A calls \in {<<Lookup, Lookup>>, <<Lookup, History, History>>, <<Lookup, History, Check, Check>>} :
              RepeatsLast(LogOf(k, calls))
         /\ \A calls \in {<< >>, <<Lookup>>, <<Lookup, History, Check>>, <<Lookup, History, Check, Issue>>} :
              ~RepeatsLast(LogOf(k, calls))
<1>1. Lookup \in ToolNames /\ History \in ToolNames /\ Check \in ToolNames /\ Issue \in ToolNames
  BY FourTools
<1>2. History # Check /\ Check # Issue
  BY DEF History, Check, Issue
<1>3. 2 - 1 = 1 /\ 3 - 1 = 2 /\ 4 - 1 = 3 /\ 2 > 1 /\ 3 > 1 /\ 4 > 1 /\ ~(0 > 1) /\ ~(1 > 1)
  OBVIOUS
<1>4. /\ RepeatsLast(LogOf(k, <<Lookup, Lookup>>)) /\ RepeatsLast(LogOf(k, <<Lookup, History, History>>))
      /\ RepeatsLast(LogOf(k, <<Lookup, History, Check, Check>>))
  <2>1. RepeatsLast(LogOf(k, <<Lookup, Lookup>>))
    <3> DEFINE l == <<Lookup, Lookup>>
    <3>1. l \in Seq(ToolNames) /\ Len(l) = 2 /\ l[1] = Lookup /\ l[2] = Lookup
      BY <1>1, ListElements
    <3> HIDE DEF l
    <3> QED
      BY <1>3, <3>1, Repeats DEF l
  <2>2. RepeatsLast(LogOf(k, <<Lookup, History, History>>))
    <3> DEFINE l == <<Lookup, History, History>>
    <3>1. l \in Seq(ToolNames) /\ Len(l) = 3 /\ l[2] = History /\ l[3] = History
      BY <1>1, ListElements
    <3> HIDE DEF l
    <3> QED
      BY <1>3, <3>1, Repeats DEF l
  <2>3. RepeatsLast(LogOf(k, <<Lookup, History, Check, Check>>))
    <3> DEFINE l == <<Lookup, History, Check, Check>>
    <3>1. l \in Seq(ToolNames) /\ Len(l) = 4 /\ l[3] = Check /\ l[4] = Check
      BY <1>1, ListElements
    <3> HIDE DEF l
    <3> QED
      BY <1>3, <3>1, Repeats DEF l
  <2> QED
    BY <2>1, <2>2, <2>3
<1>5. /\ ~RepeatsLast(LogOf(k, << >>)) /\ ~RepeatsLast(LogOf(k, <<Lookup>>))
      /\ ~RepeatsLast(LogOf(k, <<Lookup, History, Check>>)) /\ ~RepeatsLast(LogOf(k, <<Lookup, History, Check, Issue>>))
  <2>1. ~RepeatsLast(LogOf(k, << >>)) /\ ~RepeatsLast(LogOf(k, <<Lookup>>))
    <3> DEFINE l == <<Lookup>>
               z == << >>
    <3>1. l \in Seq(ToolNames) /\ Len(l) = 1 /\ z \in Seq(ToolNames) /\ Len(z) = 0
      BY ListElements
    <3> HIDE DEF l, z
    <3> QED
      BY <1>3, <3>1, Repeats DEF l, z
  <2>2. ~RepeatsLast(LogOf(k, <<Lookup, History, Check>>))
    <3> DEFINE l == <<Lookup, History, Check>>
    <3>1. l \in Seq(ToolNames) /\ Len(l) = 3 /\ l[2] = History /\ l[3] = Check
      BY <1>1, ListElements
    <3> HIDE DEF l
    <3> QED
      BY <1>2, <1>3, <3>1, Repeats DEF l
  <2>3. ~RepeatsLast(LogOf(k, <<Lookup, History, Check, Issue>>))
    <3> DEFINE l == <<Lookup, History, Check, Issue>>
    <3>1. l \in Seq(ToolNames) /\ Len(l) = 4 /\ l[3] = Check /\ l[4] = Issue
      BY <1>1, ListElements
    <3> HIDE DEF l
    <3> QED
      BY <1>2, <1>3, <3>1, Repeats DEF l
  <2> QED
    BY <2>1, <2>2, <2>3
<1> QED
  BY <1>4, <1>5

(* The baseline has called issue_refund when it tried the write. *)
LEMMA BaselineIssues ==
  ASSUME NEW k, NEW c, NEW t, NEW w, w.log = LogOf(k, EndCalls("baseline", k, c, t))
  PROVE  /\ EndCalls("baseline", k, c, t) \in Seq(ToolNames)
         /\ Called(w, "issue_refund") <=> Tries("baseline", k, c, t)
<1> DEFINE calls == EndCalls("baseline", k, c, t)
<1>1. Lookup \in ToolNames /\ History \in ToolNames /\ Check \in ToolNames /\ Issue \in ToolNames
  BY FourTools
<1>2. Issue \notin {Lookup, History, Check} /\ Issue = "issue_refund"
  BY DEF Lookup, History, Check, Issue
<1>3. \/ calls \in {<< >>, <<Lookup>>, <<Lookup, History>>, <<Lookup, History, Check>>} /\ ~Tries("baseline", k, c, t)
      \/ calls = <<Lookup, History, Check, Issue>> /\ Tries("baseline", k, c, t)
  BY BaselineCalls, Ladder
<1> HIDE DEF calls
<1>4. CASE calls = <<Lookup, History, Check, Issue>> /\ Tries("baseline", k, c, t)
  <2>1. calls \in Seq(ToolNames) /\ Len(calls) = 4 /\ calls[4] = Issue /\ 4 \in 1..4
    BY <1>1, <1>4, ListElements
  <2>2. 4 \in DOMAIN LogOf(k, calls) /\ LogOf(k, calls)[4].name = Issue
    BY <2>1, LogIsSeq
  <2> QED
    BY <1>2, <1>4, <2>1, <2>2 DEF Called, calls
<1>5. CASE calls \in {<< >>, <<Lookup>>, <<Lookup, History>>, <<Lookup, History, Check>>} /\ ~Tries("baseline", k, c, t)
  <2>1. calls \in Seq(ToolNames)
    <3>1. <<Lookup, History>> \in Seq(ToolNames) /\ <<Lookup, History, Check>> \in Seq(ToolNames)
      BY <1>1, ListElements
    <3> QED
      BY <1>5, <3>1, ListElements
  <2>2. ASSUME NEW i \in 1..Len(calls) PROVE calls[i] \in {Lookup, History, Check}
    <3>1. CASE calls = << >>
      BY <2>2, <3>1, ListElements
    <3>2. CASE calls = <<Lookup>>
      BY <2>2, <3>2, ListElements
    <3>3. CASE calls = <<Lookup, History>>
      <4>1. Len(calls) = 2 /\ calls[1] = Lookup /\ calls[2] = History
        BY <1>1, <3>3, ListElements
      <4> QED
        BY <2>2, <4>1
    <3>4. CASE calls = <<Lookup, History, Check>>
      <4>1. Len(calls) = 3 /\ calls[1] = Lookup /\ calls[2] = History /\ calls[3] = Check
        BY <1>1, <3>4, ListElements
      <4> QED
        BY <2>2, <4>1
    <3> QED
      BY <1>5, <3>1, <3>2, <3>3, <3>4
  <2>3. \A i \in DOMAIN LogOf(k, calls) : LogOf(k, calls)[i].name # Issue
    BY <1>2, <2>1, <2>2, LogIsSeq
  <2> QED
    BY <1>2, <1>5, <2>1, <2>3 DEF Called, calls
<1> QED
  BY <1>3, <1>4, <1>5

(* The traffic of a finished pair. *)
LEMMA PairTraffic ==
  ASSUME NEW v, NEW k, NEW r1, NEW r2, FinishedPair(v, k, r1, r2)
  PROVE  /\ v \in {"V4", "V5", "V6"} => r2.world.log = r1.world.log
         /\ v \in {"V1", "V2", "V3"} =>
              \/ r2.fired = {} /\ r2.world.log = r1.world.log
              \/ r2.fired # {} /\ Front(r2.world.log) = r1.world.log
         /\ v = "V1" => (r2.fired # {} <=> RepeatsLast(r2.world.log))
         /\ v = "V3" => (r2.fired # {} <=> Called(r1.world, "issue_refund"))
<1> DEFINE c == Class(r1.st)
           t == r1.st.refund_type
           b == "baseline"
           e1 == EndCalls(b, k, c, t)
           e2 == EndCalls(v, k, c, t)
<1> SUFFICES ASSUME v \in {"V1", "V2", "V3", "V4", "V5", "V6"}
             PROVE  /\ v \in {"V4", "V5", "V6"} => r2.world.log = r1.world.log
                    /\ v \in {"V1", "V2", "V3"} =>
                         \/ r2.fired = {} /\ r2.world.log = r1.world.log
                         \/ r2.fired # {} /\ Front(r2.world.log) = r1.world.log
                    /\ v = "V1" => (r2.fired # {} <=> RepeatsLast(r2.world.log))
                    /\ v = "V3" => (r2.fired # {} <=> Called(r1.world, "issue_refund"))
  OBVIOUS
<1>1. SameCourse(v, k, c, t)
  BY Courses DEF ALIKE, INDEPENDENT_VALID
<1>2. r2.st.refund_type = t
  BY <1>1, SamePlan DEF SameCourse
<1>3. /\ v \in PAIRED /\ r1.world.log = LogOf(k, e1) /\ r2.world.log = LogOf(k, e2)
      /\ v # "V4" => (r2.fired # {} <=> Fires(v, k, c, t))
  BY <1>2 DEF FinishedPair, Settled
<1>4. e1 \in Seq(ToolNames) /\ (Called(r1.world, "issue_refund") <=> Tries(b, k, c, t))
  BY <1>3, BaselineIssues
<1>5. CASE v \in {"V4", "V5", "V6"}
  <2>1. e2 = e1
    BY <1>5, QuietAlternates
  <2> QED
    BY <1>3, <1>5, <2>1
<1>6. CASE v \in {"V2", "V3"}
  <2>1. e2 = IF (v = "V2" /\ Asked(c) /\ ~Found(v, k, c)) \/ (v = "V3" /\ Tries(v, k, c, t)) THEN Append(e1, History) ELSE e1
    <3> HIDE DEF c, t
    <3>1. CASE v = "V2"
      BY <3>1, ExtraReads
    <3>2. CASE v = "V3"
      BY <3>2, ExtraReads
    <3> QED
      BY <1>6, <3>1, <3>2
  <2>2. Fires(v, k, c, t) <=> (v = "V2" /\ Asked(c) /\ ~Found(v, k, c)) \/ (v = "V3" /\ Tries(v, k, c, t))
    BY <1>3, <1>6, Firing
  <2>3. Tries(v, k, c, t) <=> Tries(b, k, c, t)
    BY <1>1 DEF SameCourse
  <2>4. Front(LogOf(k, Append(e1, History))) = LogOf(k, e1)
    BY <1>4, FourTools, LogFront
  <2> HIDE DEF e1, e2
  <2> QED
    BY <1>3, <1>4, <1>6, <2>1, <2>2, <2>3, <2>4
<1>7. CASE v = "V1"
  <2>1. Fires(v, k, c, t) <=> Error(v, k, c, t) \in {Lookup, History, Check}
    BY <1>3, <1>7, Firing
  <2>2. /\ Error(v, k, c, t) = Lookup => e2 = <<Lookup, Lookup>> /\ e1 = <<Lookup>>
        /\ Error(v, k, c, t) = History => e2 = <<Lookup, History, History>> /\ e1 = <<Lookup, History>>
        /\ Error(v, k, c, t) = Check => e2 = <<Lookup, History, Check, Check>> /\ e1 = <<Lookup, History, Check>>
        /\ Error(v, k, c, t) \notin {Lookup, History, Check} =>
             e2 = e1 /\ e2 \in {<< >>, <<Lookup>>, <<Lookup, History, Check>>, <<Lookup, History, Check, Issue>>}
    BY <1>7, RetriedCalls
  <2>3. /\ Append(<<Lookup>>, Lookup) = <<Lookup, Lookup>> /\ Append(<<Lookup, History>>, History) = <<Lookup, History, History>>
        /\ Append(<<Lookup, History, Check>>, Check) = <<Lookup, History, Check, Check>>
    BY ShortLists, LongerLists, LongLists, Zenon
  <2>4. Error(v, k, c, t) \in {Lookup, History, Check} => e2 = Append(e1, Error(v, k, c, t))
    BY <2>2, <2>3
  <2>5. Error(v, k, c, t) \in {Lookup, History, Check} => RepeatsLast(LogOf(k, e2)) /\ Front(LogOf(k, e2)) = LogOf(k, e1)
    <3> HIDE DEF e1, e2
    <3>1. Error(v, k, c, t) \in {Lookup, History, Check} => RepeatsLast(LogOf(k, e2))
      BY <2>2, RepeatingLists
    <3>2. Error(v, k, c, t) \in {Lookup, History, Check} => Front(LogOf(k, e2)) = LogOf(k, e1)
      BY <1>4, <2>4, FourTools, LogFront
    <3> QED
      BY <3>1, <3>2
  <2>6. Error(v, k, c, t) \notin {Lookup, History, Check} => ~RepeatsLast(LogOf(k, e2)) /\ e2 = e1
    BY <2>2, RepeatingLists
  <2> HIDE DEF e1, e2
  <2> QED
    BY <1>3, <1>7, <2>1, <2>5, <2>6
<1> QED
  BY <1>5, <1>6, <1>7

(* The trajectory checks see nothing of V4, V5 and V6, and of V1, V2 and V3 one more call at the end *)
(* exactly when their marker fired (docs/part-1.3-preregistration.md).                               *)
THEOREM AlternatesLookAlike == PairSpec => []SameTraffic
<1>1. PairInv => SameTraffic
  <2> SUFFICES ASSUME PairInv, BothDone
               PROVE  /\ variant \in {"V4", "V5", "V6"} => world2.log = world1.log
                      /\ variant \in {"V1", "V2", "V3"} =>
                           \/ fired2 = {} /\ world2.log = world1.log
                           \/ fired2 # {} /\ Front(world2.log) = world1.log
                      /\ variant = "V1" => (fired2 # {} <=> RepeatsLast(world2.log))
                      /\ variant = "V3" => (fired2 # {} <=> Called(world1, "issue_refund"))
    BY DEF SameTraffic
  <2>1. FinishedPair(variant, case, Run1, Run2)
    BY PairEnds
  <2>2. Run1.world = world1 /\ Run2.world = world2 /\ Run2.fired = fired2
    BY DEF Run1, Run2, RunOf
  <2> QED
    BY <2>1, <2>2, PairTraffic
<1> QED
  BY <1>1, RunsAreAsTabled, PTL
=============================================================================
