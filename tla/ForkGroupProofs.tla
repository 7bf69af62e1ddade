-------------------------- MODULE ForkGroupProofs --------------------------
(***************************************************************************)
(* Proofs about ForkGroup and Part2Report, for every list of changes,      *)
(* every case and every recursion limit of at least one.                   *)
(*                                                                         *)
(* First the pause: the latest checkpoint of the thread that the baseline  *)
(* and all forks share is the one of the arm in progress whenever that arm *)
(* is paused and about to resume. Then three invariants: every arm ends as *)
(* a function of its origin and its draws, and the baseline's fork point   *)
(* lies on the way of the full rerun of every change (FunctionInv); the    *)
(* rows are the arms of the group, their markers and the thread those of   *)
(* the function (TraceInv); and the caches hold what the arms drew         *)
(* (ReplayInv). From them follow what the forks measure and what the Part  *)
(* 2 report makes of a group.                                              *)
(***************************************************************************)
EXTENDS ForkGroup, Part2Report, RefundWorldLemmas, NaturalLemmas, SequenceTheorems, TLAPS

ArmNames == {"baseline", "full", "fork", "fork_naive"}

AnArm == [arm : ArmNames, change : ChangesUnderTest]

(* The baseline comes first or is over; after it come arms of the changes. *)
QueueInv ==
  /\ queue \in Seq(AnArm)
  /\ \A i \in 2..Len(queue) : queue[i].arm # "baseline"
  /\ queue = << >> => Agent!Over

ThreadInv ==
  /\ \E S : thread \in Seq(S)
  /\ recorded \in 0..Len(thread)

(* The thread ends with the checkpoint of the run in progress.  A full rerun has a thread of its   *)
(* own, and a fork that has taken no step yet is at the changed node, which does not pause.         *)
LatestIsOwn ==
  ~Agent!Over /\ Arm.arm # "full" /\ next # "compute_refund" =>
    /\ Last(thread).st = st
    /\ Last(thread).next = next

(* Only the two nodes with an interrupt pause. *)
PausesAtApproval == phase = "paused" => next \in {"request_approval", "authorize_and_issue"}

PauseInv == QueueInv /\ ThreadInv /\ LatestIsOwn /\ PausesAtApproval

-----------------------------------------------------------------------------
(* A step of a run takes a superstep or leaves the state and the next node as they are. *)
LEMMA SuperstepOrStay ==
  ASSUME Agent!Next
  PROVE  steps' = steps + 1 \/ (st' = st /\ next' = next)
<1>1. CASE Agent!ClassifyCrashes \/ Agent!ComputeCrashes \/ Agent!RespondCrashes
  BY <1>1 DEF Agent!ClassifyCrashes, Agent!ComputeCrashes, Agent!RespondCrashes, Agent!Crash
<1>2. CASE Agent!Interrupt \/ Agent!Resume
  BY <1>2 DEF Agent!Interrupt, Agent!Resume
<1>3. CASE Agent!ClassifyRequest \/ Agent!LookupOrderFails \/ Agent!LookupOrderAnswers \/ Agent!FetchContext
  BY <1>3 DEF Agent!ClassifyRequest, Agent!LookupOrderFails, Agent!LookupOrderAnswers, Agent!FetchContext, Agent!Step
<1>4. CASE \/ Agent!HistoryFails \/ Agent!HistoryAnswers \/ Agent!EligibilityFails
           \/ Agent!EligibilityAnswers \/ Agent!Gate \/ Agent!DiscardPlan
  BY <1>4 DEF Agent!HistoryFails, Agent!HistoryAnswers, Agent!EligibilityFails,
              Agent!EligibilityAnswers, Agent!Gate, Agent!DiscardPlan, Agent!Step
<1>5. CASE Agent!ComputeRefund \/ Agent!SpeculationFails \/ Agent!RequestApproval
  BY <1>5 DEF Agent!ComputeRefund, Agent!SpeculationFails, Agent!RequestApproval, Agent!Step
<1>6. CASE \/ Agent!AuthorizationRefused \/ Agent!AuthorizeAndIssue \/ Agent!IssueStopped
           \/ Agent!IssueRefund \/ Agent!IssueFails \/ Agent!Reconcile \/ Agent!Respond
  BY <1>6 DEF Agent!AuthorizationRefused, Agent!AuthorizeAndIssue, Agent!IssueStopped,
              Agent!IssueRefund, Agent!IssueFails, Agent!Reconcile, Agent!Respond, Agent!Step
<1> QED
  BY <1>1, <1>2, <1>3, <1>4, <1>5, <1>6 DEF Agent!Next

(* Only an interrupt pauses a run. *)
LEMMA OnlyInterruptPauses ==
  ASSUME Agent!Next, phase' = "paused"
  PROVE  Agent!Interrupt
<1>1. CASE Agent!ClassifyCrashes \/ Agent!ComputeCrashes \/ Agent!RespondCrashes
  BY <1>1 DEF Agent!ClassifyCrashes, Agent!ComputeCrashes, Agent!RespondCrashes, Agent!Crash
<1>2. CASE Agent!Resume
  BY <1>2 DEF Agent!Resume
<1>3. CASE Agent!ClassifyRequest \/ Agent!LookupOrderFails \/ Agent!LookupOrderAnswers \/ Agent!FetchContext
  BY <1>3 DEF Agent!ClassifyRequest, Agent!LookupOrderFails, Agent!LookupOrderAnswers, Agent!FetchContext, Agent!Step
<1>4. CASE \/ Agent!HistoryFails \/ Agent!HistoryAnswers \/ Agent!EligibilityFails
           \/ Agent!EligibilityAnswers \/ Agent!Gate \/ Agent!DiscardPlan
  BY <1>4 DEF Agent!HistoryFails, Agent!HistoryAnswers, Agent!EligibilityFails,
              Agent!EligibilityAnswers, Agent!Gate, Agent!DiscardPlan, Agent!Step
<1>5. CASE Agent!ComputeRefund \/ Agent!SpeculationFails \/ Agent!RequestApproval
  BY <1>5 DEF Agent!ComputeRefund, Agent!SpeculationFails, Agent!RequestApproval, Agent!Step
<1>6. CASE \/ Agent!AuthorizationRefused \/ Agent!AuthorizeAndIssue \/ Agent!IssueStopped
           \/ Agent!IssueRefund \/ Agent!IssueFails \/ Agent!Reconcile \/ Agent!Respond
  BY <1>6 DEF Agent!AuthorizationRefused, Agent!AuthorizeAndIssue, Agent!IssueStopped,
              Agent!IssueRefund, Agent!IssueFails, Agent!Reconcile, Agent!Respond, Agent!Step
<1> QED
  BY <1>1, <1>2, <1>3, <1>4, <1>5, <1>6 DEF Agent!Next

(* The arms of a group are the baseline's and, after it, three of every change of the list. *)
LEMMA ArmsType ==
  ASSUME NEW list \in Seq(ChangesUnderTest)
  PROVE  /\ AllArms(list) \in Seq(AnArm)
         /\ Len(AllArms(list)) = 1 + 3 * Len(list)
         /\ AllArms(list)[1].arm = "baseline"
         /\ \A i \in 2..Len(AllArms(list)) : AllArms(list)[i].arm # "baseline"
<1> DEFINE N == 1 + 3 * Len(list)
<1>1. N \in Nat /\ N >= 1
  OBVIOUS
<1>2. AllArms(list)[1] = [arm |-> "baseline", change |-> "baseline"]
  BY <1>1 DEF AllArms
<1>3. ASSUME NEW i \in 2..N
      PROVE  AllArms(list)[i] \in [arm : {"full", "fork", "fork_naive"}, change : ChangesUnderTest]
  <2>1. (i - 2) \div 3 + 1 \in 1..Len(list) /\ ((i - 2) % 3) + 1 \in 1..3
    OBVIOUS
  <2>2. PICK c \in ChangesUnderTest, k \in 1..3 :
          c = list[(i - 2) \div 3 + 1] /\ k = ((i - 2) % 3) + 1
    BY <2>1
  <2>3. AllArms(list)[i] = ArmsOf(c)[k]
    BY <2>2 DEF AllArms
  <2>4. ArmsOf(c)[k] = [arm |-> ArmOrder[k], change |-> c]
    BY <2>2 DEF ArmsOf
  <2>5. ArmOrder[k] \in {"full", "fork", "fork_naive"}
    BY <2>2 DEF ArmOrder
  <2> QED
    BY <2>2, <2>3, <2>4, <2>5
<1>4. \A i \in 1..N : AllArms(list)[i] \in AnArm
  BY <1>2, <1>3 DEF AnArm, ArmNames, ChangesUnderTest
<1>5. AllArms(list) \in Seq(AnArm) /\ Len(AllArms(list)) = N
  <2>1. AllArms(list) = [i \in 1..N |-> AllArms(list)[i]]
    BY DEF AllArms
  <2> HIDE DEF N
  <2> QED
    BY <1>1, <1>4, <2>1
<1> QED
  BY <1>2, <1>3, <1>5

(* A fork point is about to run the changed node. *)
LEMMA ForkPointNext ==
  ASSUME NEW hist, DOMAIN hist \subseteq Nat, NEW node, FindForkPoint(hist, node) # None
  PROVE  FindForkPoint(hist, node).next = node
<1> DEFINE about == {i \in DOMAIN hist : hist[i].next = node}
<1>1. about # {} /\ FindForkPoint(hist, node) = hist[CHOOSE i \in about : \A j \in about : i <= j]
  BY DEF FindForkPoint
<1>2. \E i \in about : \A j \in about : i <= j
  BY <1>1, MinNat
<1> QED
  BY <1>1, <1>2

(* The thread of the baseline and its forks, as history() saw it, is a sequence. *)
LEMMA HistoryType ==
  ASSUME ThreadInv
  PROVE  DOMAIN History \subseteq Nat /\ Len(History) \in 0..Len(thread)
<1>1. PICK S : thread \in Seq(S)
  BY DEF ThreadInv
<1>2. recorded \in 0..Len(thread) /\ Len(thread) \in Nat
  BY <1>1 DEF ThreadInv
<1>3. History \in Seq(S) /\ Len(History) = recorded
  BY <1>1, <1>2 DEF History
<1> QED
  BY <1>2, <1>3

-----------------------------------------------------------------------------
(* A group starts with the baseline at the latest checkpoint. *)
LEMMA InitPause ==
  ASSUME GroupInit
  PROVE  PauseInv
<1>1. QueueInv
  <2>1. PICK list \in Seq(ChangesUnderTest) : queue = AllArms(list)
    BY GroupAssumption DEF GroupInit
  <2>2. queue \in Seq(AnArm) /\ Len(queue) >= 1 /\ \A i \in 2..Len(queue) : queue[i].arm # "baseline"
    BY <2>1, ArmsType
  <2>3. queue # << >>
    BY <2>2
  <2> QED
    BY <2>2, <2>3 DEF QueueInv
<1>2. /\ st = EmptyState /\ next = "classify_request" /\ phase = "running" /\ recorded = 0
      /\ thread = <<Checkpoint(EmptyState, "__start__", -1, None),
                    Checkpoint(EmptyState, "classify_request", 0, None)>>
  BY DEF GroupInit, Agent!Start, Agent!EmptyState, EmptyState
<1>3. Last(thread).st = st /\ Last(thread).next = next
  BY <1>2 DEF Last, Checkpoint
<1>4. ThreadInv
  <2> DEFINE S == {Checkpoint(EmptyState, "__start__", -1, None),
                   Checkpoint(EmptyState, "classify_request", 0, None)}
  <2>1. thread \in Seq(S)
    BY <1>2
  <2> HIDE DEF S
  <2>2. recorded \in 0..Len(thread)
    BY <1>2, <2>1
  <2> QED
    BY <2>1, <2>2 DEF ThreadInv
<1> QED
  BY <1>1, <1>2, <1>3, <1>4 DEF PauseInv, LatestIsOwn, PausesAtApproval

(* A superstep of an arm that shares the thread ends it with that arm's checkpoint. *)
LEMMA SuperstepPause ==
  ASSUME PauseInv, Superstep
  PROVE  PauseInv'
<1>1. queue # << >> /\ ~Agent!Over /\ Agent!Next /\ queue' = queue /\ recorded' = recorded
  BY DEF Superstep
<1>2. QueueInv'
  BY <1>1 DEF PauseInv, QueueInv, Agent!Over
<1>3. PICK S : thread \in Seq(S)
  BY DEF PauseInv, ThreadInv
<1> DEFINE latest == Checkpoint(st', next', Len(nodes'), world')
<1>4. PausesAtApproval'
  <2> SUFFICES ASSUME phase' = "paused" PROVE next' \in {"request_approval", "authorize_and_issue"}
    BY DEF PausesAtApproval
  <2> QED
    BY <1>1, OnlyInterruptPauses DEF Agent!Interrupt, Agent!NeedsApproval, Agent!At
<1>5. CASE Arm.arm # "full" /\ steps' = steps + 1
  <2>1. thread' = Append(thread, latest)
    BY <1>5 DEF Superstep
  <2>2. latest.st = st' /\ latest.next = next'
    BY DEF Checkpoint
  <2> HIDE DEF latest
  <2>3. thread' \in Seq(S \cup {latest}) /\ Len(thread') = Len(thread) + 1 /\ Last(thread') = latest
    BY <1>3, <2>1 DEF Last
  <2>4. ThreadInv'
    BY <1>1, <1>3, <2>3 DEF PauseInv, ThreadInv
  <2>5. LatestIsOwn'
    BY <2>2, <2>3 DEF LatestIsOwn
  <2> QED
    BY <1>2, <1>4, <2>4, <2>5 DEF PauseInv
<1>6. CASE Arm.arm = "full" \/ steps' # steps + 1
  <2>1. thread' = thread
    BY <1>6 DEF Superstep
  <2>2. ThreadInv'
    BY <1>1, <2>1 DEF PauseInv, ThreadInv
  <2>3. Arm' = Arm
    BY <1>1 DEF Arm
  <2>4. LatestIsOwn'
    <3> SUFFICES ASSUME Arm.arm # "full", next' # "compute_refund"
                 PROVE  Last(thread').st = st' /\ Last(thread').next = next'
      BY <2>3 DEF LatestIsOwn
    <3>1. st' = st /\ next' = next
      BY <1>1, <1>6, SuperstepOrStay
    <3> QED
      BY <1>1, <2>1, <3>1 DEF PauseInv, LatestIsOwn
  <2> QED
    BY <1>2, <1>4, <2>2, <2>4 DEF PauseInv
<1> QED
  BY <1>5, <1>6

(* An arm that starts runs: a full rerun on a thread of its own, a fork at the changed node. *)
LEMMA EndArmPause ==
  ASSUME PauseInv, EndArm
  PROVE  PauseInv'
<1> DEFINE hist == IF Arm.arm # "baseline" THEN History ELSE IF phase = "done" THEN thread ELSE << >>
           Point(c) == FindForkPoint(hist, CHANGED_NODE[c])
           Runs(a) == ~Forking(a.arm) \/ Point(a.change) # None
           rest == Tail(queue)
           first == SelectInSeq(rest, Runs)
           skipped == IF first = 0 THEN Len(rest) ELSE first - 1
<1>1. /\ queue # << >> /\ Agent!Over
      /\ recorded' = Len(hist)
      /\ queue' = SubSeq(rest, skipped + 1, Len(rest))
      /\ thread' = thread
  BY DEF EndArm
<1>2. PICK S : thread \in Seq(S)
  BY DEF PauseInv, ThreadInv
<1>3. DOMAIN hist \subseteq Nat /\ Len(hist) \in 0..Len(thread)
  <2>1. DOMAIN thread \subseteq Nat /\ Len(thread) \in Nat
    BY <1>2
  <2>2. DOMAIN << >> \subseteq Nat /\ Len(<< >>) = 0
    OBVIOUS
  <2> HIDE DEF ThreadInv
  <2> QED
    BY <2>1, <2>2, HistoryType DEF PauseInv
<1>4. ThreadInv'
  BY <1>1, <1>2, <1>3 DEF ThreadInv
<1>5. rest \in Seq(AnArm) /\ \A i \in 1..Len(rest) : rest[i].arm # "baseline"
  BY <1>1 DEF PauseInv, QueueInv
<1> HIDE DEF rest
<1>6. first \in 0..Len(rest) /\ (first # 0 => Runs(rest[first]))
  <2> DEFINE I == {i \in 1..Len(rest) : Runs(rest[i])}
  <2> HIDE DEF Runs
  <2>1. first = IF I # {} THEN Min(I) ELSE 0
    BY DEF SelectInSeq
  <2>2. CASE I = {}
    BY <1>5, <2>1, <2>2
  <2>3. CASE I # {}
    <3>1. \E x \in I : \A y \in I : x <= y
      <4>1. I \subseteq Nat
        BY <1>5
      <4> HIDE DEF I
      <4> QED
        BY <2>3, <4>1, MinNat
    <3>2. Min(I) \in I
      BY <3>1 DEF Min
    <3> QED
      BY <2>1, <2>3, <3>2
  <2> QED
    BY <2>2, <2>3
<1> HIDE DEF first
<1>7. /\ queue' \in Seq(AnArm)
      /\ \A i \in 1..Len(queue') : queue'[i].arm # "baseline"
      /\ queue' # << >> => first # 0 /\ queue'[1] = rest[first] /\ queue'[1] \in AnArm
  <2>1. skipped \in 0..Len(rest) /\ Len(rest) \in Nat
    BY <1>5, <1>6
  <2>2. queue' \in Seq(AnArm) /\ Len(queue') = Len(rest) - skipped
        /\ \A i \in 1..Len(queue') : queue'[i] = rest[skipped + i]
    <3> HIDE DEF skipped
    <3> QED
      BY <1>1, <1>5, <2>1, SubSeqProperties
  <2>3. first = 0 => Len(queue') = 0
    BY <1>5, <2>2
  <2>4. \A i \in 1..Len(queue') : queue'[i].arm # "baseline"
    <3> HIDE DEF skipped
    <3> QED
      BY <1>5, <2>1, <2>2
  <2>5. queue' # << >> => Len(queue') >= 1
    BY <2>2
  <2>6. queue' # << >> => first # 0 /\ queue'[1] = rest[first]
    BY <1>6, <2>2, <2>3, <2>5
  <2> QED
    BY <2>2, <2>4, <2>5, <2>6
<1>8. CASE queue' = << >>
  <2>1. phase' = phase
    BY <1>1, <1>8 DEF EndArm, run
  <2>2. Agent!Over' /\ phase' # "paused"
    BY <1>1, <2>1 DEF Agent!Over
  <2> QED
    BY <1>4, <1>7, <1>8, <2>2 DEF PauseInv, QueueInv, LatestIsOwn, PausesAtApproval
<1>9. CASE queue' # << >> /\ queue'[1].arm = "full"
  <2>1. phase' = "running"
    BY <1>9 DEF EndArm, BeginFull, BeginRun
  <2>2. Arm'.arm = "full"
    BY <1>9 DEF Arm
  <2> QED
    BY <1>4, <1>7, <1>9, <2>1, <2>2 DEF PauseInv, QueueInv, LatestIsOwn, PausesAtApproval
<1>10. CASE queue' # << >> /\ queue'[1].arm # "full"
  <2>1. PICK drawn, base : BeginFork(queue'[1], drawn, Point(queue'[1].change), base)
    BY <1>10 DEF EndArm, rest, first
  <2>2. phase' = "running" /\ next' = Point(queue'[1].change).next
    <3> HIDE DEF Point
    <3> QED
      BY <2>1 DEF BeginFork, BeginRun
  <2>3. queue'[1].arm \in {"fork", "fork_naive"} /\ queue'[1].change \in ChangesUnderTest
    BY <1>7, <1>10 DEF AnArm, ArmNames
  <2>4. Point(queue'[1].change) # None
    <3> HIDE DEF Point
    <3> QED
      BY <1>6, <1>7, <1>10, <2>3 DEF Forking
  <2>5. CHANGED_NODE[queue'[1].change] = "compute_refund"
    BY <2>3 DEF CHANGED_NODE
  <2>6. next' = "compute_refund"
    <3> HIDE DEF hist
    <3> QED
      BY <1>3, <2>2, <2>4, <2>5, ForkPointNext
  <2> QED
    BY <1>4, <1>7, <1>10, <2>2, <2>6 DEF PauseInv, QueueInv, LatestIsOwn, PausesAtApproval
<1> QED
  BY <1>8, <1>9, <1>10

(* A resume of any fork, of any list of changes, finds its own pause as the latest checkpoint of    *)
(* the thread it shares with the baseline and the other forks (evals/fork.py:116-118).              *)
THEOREM ResumesOwnPause == GroupSpec => []ResumeIsOwnPause
<1>1. GroupInit => PauseInv
  BY InitPause
<1>2. PauseInv /\ [GroupNext]_groupVars => PauseInv'
  <2>1. ASSUME PauseInv, UNCHANGED groupVars PROVE PauseInv'
    BY <2>1 DEF groupVars, run, PauseInv, QueueInv, ThreadInv, LatestIsOwn, PausesAtApproval, Agent!Over, Arm
  <2> QED
    BY <2>1, SuperstepPause, EndArmPause DEF GroupNext
<1>3. PauseInv => ResumeIsOwnPause
  BY DEF PauseInv, LatestIsOwn, PausesAtApproval, ResumeIsOwnPause, Agent!Over
<1> QED
  BY <1>1, <1>2, <1>3, PTL DEF GroupSpec

-----------------------------------------------------------------------------
(* An arm of a fork group as a function of what the model decides in it.  For the variants a group     *)
(* runs, a superstep is a function of the case, the variant, the classification and the plan, and no  *)
(* run visits a node twice, so the end of a run is a fixed composition of supersteps.                  *)

(* A run between two supersteps: what the next ones depend on, and what its row reports. *)
Run(s, w, node, status, n, marks, said, path) ==
  [st |-> s, world |-> w, next |-> node, phase |-> status, steps |-> n,
   fired |-> marks, reply |-> said, nodes |-> path]

(* The run in progress.  A pause and its resume are part of the superstep they abandon. *)
ThisRun ==
  Run(st, world, next, IF phase = "paused" THEN "running" ELSE phase, steps, fired, reply, nodes)

Fresh(k) == Run(EmptyState, SeedWorld(k), "classify_request", "running", 1, {}, None, << >>)

(* A fork from `point` on world w, below the nodes that led there. *)
Forked(point, w, path) ==
  Run(point.st, w, point.next, "running", point.step + 1, {}, None, SubSeq(path, 1, point.step))

-----------------------------------------------------------------------------
(* What the driver answers an interrupt in case k with. *)
Given(k) == IF k.approval = None THEN "reject" ELSE k.approval

(* The state a node writes in case k, when the model classifies as c and plans t. *)
Written(k, c, t, r) ==
  CASE r.next = "classify_request" -> [r.st EXCEPT !.intent = c.intent, !.order_id = c.order_id]
    [] r.next = "lookup_order" ->
         IF Fails(k, "lookup_order") THEN [r.st EXCEPT !.error = "lookup_order"]
         ELSE LET row == SelectOrder(AfterLookup(r.world, k, r.st.order_id), r.st.order_id, TRUE)
              IN [r.st EXCEPT !.order = row, !.error = IF row = None THEN "no_order" ELSE @]
    [] r.next = "get_refund_history" ->
         IF Fails(k, "get_refund_history") THEN [r.st EXCEPT !.error = "get_refund_history"]
         ELSE [r.st EXCEPT !.prior_refunds = RefundHistory(r.world, k)]
    [] r.next = "check_eligibility" ->
         IF Fails(k, "check_eligibility") THEN [r.st EXCEPT !.error = "check_eligibility"]
         ELSE [r.st EXCEPT !.eligibility =
                             Eligibility(r.st.order, r.st.prior_refunds, REFUND_WINDOW_DAYS)]
    [] r.next = "compute_refund" ->
         [r.st EXCEPT !.refund_type = t, !.refund_amount = RefundAmount(t, r.st.order.price)]
    [] r.next = "request_approval" -> [r.st EXCEPT !.approval = Given(k)]
    [] r.next = "issue_refund" ->
         IF Fails(k, "issue_refund") THEN [r.st EXCEPT !.error = "issue_refund"]
         ELSE [r.st EXCEPT !.refund_id = r.world.next_refund]
    [] OTHER -> r.st

(* The world after a node's tool calls. *)
Called(k, r) ==
  CASE r.next = "lookup_order" -> AfterLookup(r.world, k, r.st.order_id)
    [] r.next \in {"get_refund_history", "check_eligibility"} -> Logged(r.world, k, r.next)
    [] r.next = "issue_refund" ->
         AfterIssue(r.world, k, r.st.order_id, r.st.refund_type, r.st.refund_amount)
    [] OTHER -> r.world

(* The facts of the reply a run in state s writes. *)
Rendered(s) ==
  [has_order_id |-> s.order_id # None,
   price |-> IF s.order = None THEN None ELSE s.order.price,
   ineligible |-> IF s.eligibility = "within policy" THEN None ELSE s.eligibility,
   plan_type |-> IF s.refund_amount = None THEN None ELSE s.refund_type,
   plan_amount |-> s.refund_amount,
   rejected |-> s.approval = "reject",
   status |-> IF s.refund_id # None THEN "issued" ELSE "not issued",
   refund_id |-> s.refund_id,
   error |-> IF s.refund_id # None THEN None ELSE s.error]

(* One superstep of run r.  The one that asks for approval is taken on a fresh budget. *)
Pass(k, v, c, t, r) ==
  LET s  == Written(k, c, t, r)
      to == Route(v, r.next, s)
      n  == IF r.next = "request_approval" THEN 1 ELSE r.steps + 1
  IN Run(s, Called(k, r), to,
         IF n > RECURSION_LIMIT THEN "crashed" ELSE IF to = "END" THEN "done" ELSE "running",
         n, r.fired \cup RouteMarks(v, r.next, s),
         IF r.next = "respond" THEN Rendered(r.st) ELSE r.reply, Append(r.nodes, r.next))

PassAt(node, k, v, c, t, r) ==
  IF r.phase = "running" /\ r.next = node THEN Pass(k, v, c, t, r) ELSE r

(* A run can visit the nodes in this order only, each at most once: those up to the plan, ... *)
ToPlan(k, v, c, t, r) ==
  PassAt("check_eligibility", k, v, c, t,
    PassAt("get_refund_history", k, v, c, t,
      PassAt("lookup_order", k, v, c, t,
        PassAt("classify_request", k, v, c, t, r))))

(* ... and those from the plan on. *)
FromPlan(k, v, c, t, r) ==
  PassAt("respond", k, v, c, t,
    PassAt("issue_refund", k, v, c, t,
      PassAt("request_approval", k, v, c, t,
        PassAt("compute_refund", k, v, c, t, r))))

(* How run r of variant v ends in case k when the model classifies as c and plans t. *)
Finish(k, v, c, t, r) == FromPlan(k, v, c, t, ToPlan(k, v, c, t, r))

-----------------------------------------------------------------------------
BeforePlan == {"classify_request", "lookup_order", "get_refund_history", "check_eligibility",
               "compute_refund"}

GroupNodes == BeforePlan \cup {"request_approval", "issue_refund", "respond"}

ModelFailed == phase = "crashed" /\ steps <= RECURSION_LIMIT

ForkPoint == FindForkPoint(History, "compute_refund")

(* Where an arm started. *)
Origin(arm) ==
  IF Forking(arm) THEN Forked(ForkPoint, ForkWorld(arm, ForkPoint, Base.world), Base.nodes)
  ELSE Fresh(case)

(* The run in progress may classify as c and plan t. *)
MayDraw(c, t) ==
  /\ ~Forking(Arm.arm) /\ next # "classify_request" => recording.classify = c
  /\ st.refund_type \in {None, t}

(* What the nodes ahead of run r find in its state. *)
Typed(r) ==
  /\ r.st \in RefundState /\ r.world \in World
  /\ r.next \in GroupNodes \ {"classify_request", "respond"} => r.st.order_id # None
  /\ r.next \in {"get_refund_history", "check_eligibility", "compute_refund"} => r.st.order # None
  /\ r.next \in {"request_approval", "issue_refund"} => r.st.refund_type # None /\ r.st.refund_amount # None

(* The control of the run in progress. *)
ControlInv ==
  /\ case \in Cases
  /\ Arm \in [arm : {"baseline", "full", "fork", "fork_naive"}, change : ChangesUnderTest]
  /\ Arm.arm = "baseline" => Arm.change = "baseline"
  /\ variant = Arm.change
  /\ steps \in Nat
  /\ phase \in {"running", "paused", "done", "crashed"}
  /\ phase \in {"running", "paused"} => next \in GroupNodes /\ steps <= RECURSION_LIMIT
  /\ phase = "paused" => next = "request_approval" /\ answer = None
  /\ next \in BeforePlan => answer = None
  /\ next = "request_approval" => answer = None \/ (answer = Given(case) /\ steps = 0)
  /\ DOMAIN recording = DOMAIN Agent!EmptyRecording
  /\ ~Forking(Arm.arm) /\ next # "classify_request" => recording.classify \in Agent!Classification
  /\ phase \in {"done", "crashed"} /\ ~ModelFailed => next # "classify_request"
  /\ nodes \in Seq(GroupNodes)
  /\ Typed(ThisRun) /\ DOMAIN st = DOMAIN EmptyState
  /\ st.refund_type \in RefundTypes \cup {None}
  /\ next \in BeforePlan => st.refund_type = None
  /\ Forking(Arm.arm) => next \notin BeforePlan \ {"compute_refund"}
  /\ Forking(Arm.arm) /\ ~ModelFailed /\ st.refund_type = None =>
       next = "compute_refund" /\ phase = "running"

(* The run in progress ends as a run from its origin does. *)
OnItsWay ==
  ~ModelFailed =>
    \A c \in Agent!Classification, t \in RefundTypes :
      MayDraw(c, t) => Finish(case, variant, c, t, ThisRun) = Finish(case, variant, c, t, Origin(Arm.arm))

(* Checkpoint p of the changed node, below the nodes of `path`, is where a run of any change that   *)
(* classifies as c is when it has come to the plan.                                                 *)
StopsAtPlan(p, path, c) ==
  /\ c \in Agent!Classification
  /\ p.step \in 0..Len(path) /\ p.step < RECURSION_LIMIT
  /\ Typed(Forked(p, p.snapshot, path)) /\ p.st.refund_type = None
  /\ \A v \in ChangesUnderTest, t \in RefundTypes :
       Forked(p, p.snapshot, path) = ToPlan(case, v, c, t, Fresh(case))

(* While the baseline runs: its thread ends where it is, every change goes its way as far as the    *)
(* thread routes like the change, which it does at least to the changed node, and a checkpoint of   *)
(* the changed node is a stop on the way of every change.                                           *)
BaselineInv ==
  /\ rows = << >> /\ recorded = 0
  /\ thread # << >> /\ Last(thread).next = next
  /\ next \in BeforePlan => \A v \in ChangesUnderTest : CheckRouting(thread, v, None)
  /\ next \in BeforePlan \ {"compute_refund"} =>
       \A i \in DOMAIN thread : thread[i].next # "compute_refund"
  /\ next \in BeforePlan /\ phase = "running" =>
       /\ steps = Len(nodes) + 1 /\ fired = {} /\ reply = None
       /\ \A v \in ChangesUnderTest, c \in Agent!Classification, t \in RefundTypes :
            MayDraw(c, t) => ToPlan(case, v, c, t, ThisRun) = ToPlan(case, v, c, t, Fresh(case))
  /\ ~ModelFailed =>
       \A v \in ChangesUnderTest, c \in Agent!Classification, t \in RefundTypes :
         CheckRouting(thread, v, None) /\ MayDraw(c, t)
         => Finish(case, v, c, t, ThisRun) = Finish(case, v, c, t, Fresh(case))
  /\ st.refund_type # None => \E i \in DOMAIN thread : thread[i].next = "compute_refund"
  /\ \A i \in DOMAIN thread : phase # "crashed" /\ thread[i].next = "compute_refund" =>
       StopsAtPlan(thread[i], nodes, recording.classify)

RowFields == {"arm", "change", "ended", "classify", "planned", "world", "reply", "fired", "nodes",
              "inherited", "routing_ok"}

(* The same facts once the baseline has ended, about what history() saw. *)
HistoryInv ==
  /\ case \in Cases
  /\ rows # << >> /\ Base.arm = "baseline" /\ Base.change = "baseline" /\ ~Base.inherited
  /\ DOMAIN Base = RowFields /\ Base.nodes \in Seq(GroupNodes) /\ Base.world \in World
  /\ recorded # 0 => Base.ended = "done"
  /\ recorded # 0 /\ ForkPoint = None => Base.planned = None
  /\ recorded # 0 => \A v \in ChangesUnderTest, t \in RefundTypes :
       CheckRouting(History, v, None) /\ Base.planned \in {None, t}
       => Finish(case, v, Base.classify, t, Fresh(case)) = Finish(case, "baseline", Base.classify, t, Fresh(case))
  /\ ForkPoint # None => ForkPoint.next = "compute_refund" /\ StopsAtPlan(ForkPoint, Base.nodes, Base.classify)

(* A row reports how run r ended. *)
Reports(row, r) ==
  /\ row.ended = IF r.phase = "done" THEN "done" ELSE "out_of_steps"
  /\ row.world = r.world /\ row.reply = r.reply /\ row.fired = r.fired
  /\ row.ended = "done" => row.nodes = r.nodes

RowInv(row) ==
  /\ row.arm \in {"baseline", "full", "fork", "fork_naive"} /\ row.change \in ChangesUnderTest
  /\ row.inherited \in BOOLEAN
  /\ row.inherited =>
       /\ Forking(row.arm) /\ ForkPoint = None
       /\ Outcome(row) = Outcome(Base)
       /\ row.routing_ok = (recorded # 0 /\ CheckRouting(History, row.change, None))
  /\ ~row.inherited /\ Forking(row.arm) => ForkPoint # None
  /\ ~row.inherited /\ row.ended # "model_failed" =>
       /\ ~Forking(row.arm) => row.classify \in Agent!Classification
       /\ row.planned \in RefundTypes \/ (row.planned = None /\ ~Forking(row.arm))
       /\ \A c \in Agent!Classification, t \in RefundTypes :
            (Forking(row.arm) \/ row.classify = c) /\ row.planned \in {None, t}
            => Reports(row, Finish(case, row.change, c, t, Origin(row.arm)))

CacheInv ==
  /\ DOMAIN cache = Namespaces
  /\ \A n \in Namespaces : DOMAIN cache[n] = DOMAIN Agent!EmptyRecording

FunctionInv ==
  /\ CacheInv /\ thread \in Seq(Checkpoints) /\ rows \in Seq(Range(rows))
  /\ queue # << >> => ControlInv /\ OnItsWay
  /\ IF queue # << >> /\ Arm.arm = "baseline" THEN BaselineInv ELSE HistoryInv
  /\ queue # << >> /\ Forking(Arm.arm) => ForkPoint # None
  /\ \A i \in DOMAIN rows : RowInv(rows[i])

-----------------------------------------------------------------------------
FastPath == "E:damaged_fast_path"

(* While the baseline runs: its thread has a checkpoint for every node it visited, every change but *)
(* E routes as it went, E does up to the changed node, and where E does not, E takes its fast path. *)
TrackInv ==
  /\ phase = "done" => next = "END"
  /\ Len(thread) = Len(nodes) + 2 /\ thread[1].next = "__start__"
  /\ \A j \in DOMAIN nodes : thread[j + 1].next = nodes[j]
  /\ \A j \in DOMAIN thread : thread[j].step = j - 2
  /\ \A v \in ChangesUnderTest \ {"E"} : CheckRouting(thread, v, None)
  /\ \A i \in DOMAIN thread : thread[i].next = "compute_refund" =>
       \A v \in ChangesUnderTest : CheckRouting(thread, v, thread[i])
  /\ ~CheckRouting(thread, "E", None) =>
       \A c \in Agent!Classification, t \in RefundTypes :
         MayDraw(c, t) => FastPath \in Finish(case, "E", c, t, Fresh(case)).fired

(* The same once it has ended, about what history() saw. *)
SeenInv ==
  /\ recorded # 0 <=> Base.ended = "done"
  /\ ForkPoint # None <=> \E i \in DOMAIN Base.nodes : Base.nodes[i] = "compute_refund"
  /\ \A v \in ChangesUnderTest \ {"E"} : CheckRouting(History, v, None)
  /\ ForkPoint # None => \A v \in ChangesUnderTest : CheckRouting(History, v, ForkPoint)
  /\ recorded # 0 /\ ~CheckRouting(History, "E", None) =>
       \A t \in RefundTypes : Base.planned \in {None, t} =>
         FastPath \in Finish(case, "E", Base.classify, t, Fresh(case)).fired

(* A model call that fails for good changes no marker: they are those of the run it ends. *)
FailureInv ==
  ModelFailed =>
    /\ next = "classify_request" => recording.classify = None
    /\ ~Forking(Arm.arm) /\ next # "classify_request" =>
         \A c \in Agent!Classification, t \in RefundTypes :
           MayDraw(c, t) => fired = Finish(case, variant, c, t, Fresh(case)).fired

FlagInv(row) ==
  /\ Forking(row.arm) /\ ~row.inherited => row.routing_ok = TRUE
  /\ ~Forking(row.arm) => row.planned \in RefundTypes \cup {None}
  /\ ~Forking(row.arm) /\ row.classify \in Agent!Classification =>
       \A t \in RefundTypes :
         row.planned \in {None, t} => row.fired = Finish(case, row.change, row.classify, t, Fresh(case)).fired

(* The rows and, after them, the queue are the arms of the group. *)
CoverInv ==
  /\ changes \in Seq(ChangesUnderTest)
  /\ Len(rows) + Len(queue) = Len(AllArms(changes))
  /\ \A i \in DOMAIN rows : rows[i].arm = AllArms(changes)[i].arm /\ rows[i].change = AllArms(changes)[i].change
  /\ \A i \in DOMAIN queue : queue[i] = AllArms(changes)[Len(rows) + i]

TraceInv ==
  /\ CoverInv
  /\ IF queue # << >> /\ Arm.arm = "baseline" THEN TrackInv ELSE SeenInv
  /\ queue # << >> => FailureInv
  /\ \A i \in DOMAIN rows : FlagInv(rows[i])

-----------------------------------------------------------------------------
(* E's arms draw what D's recorded, if every list runs D before E. *)
DFirst ==
  \A list \in ChangeLists : \A i, j \in DOMAIN list : list[i] = "D" /\ list[j] = "E" => i < j

PromptOf(change) == IF change \in CHANGES THEN "COMPUTE_SYSTEM_D" ELSE "COMPUTE_SYSTEM"

Decided(change, price, t) == [prompt |-> PromptOf(change), price |-> price, type |-> t]

OneEach(decisions) == \A a, b \in decisions : a.prompt = b.prompt /\ a.price = b.price => a.type = b.type

(* The order an arm that classifies as c plans a refund of, whatever its change. *)
OrderAt(arm, c) == ToPlan(case, "baseline", c, "full", Origin(arm)).st.order

(* The run in progress draws what its namespace holds, and what it has decided is recorded. *)
DrawsInv ==
  LET drawn == cache[Namespace(Arm.arm, Arm.change)]
  IN /\ drawn.classify # None => recording.classify = drawn.classify
     /\ drawn.compute \subseteq recording.compute /\ drawn.text \subseteq recording.text
     /\ OneEach(recording.compute)
     /\ \A c \in Agent!Classification : MayDraw(c, st.refund_type) /\ st.refund_type # None =>
          Decided(variant, OrderAt(Arm.arm, c).price, st.refund_type) \in recording.compute
     /\ reply # None => reply \in recording.text

(* A model call that fails for good draws nothing, and the run would have gone on past it. *)
StuckInv ==
  ModelFailed /\ next # "classify_request" =>
    \A c \in Agent!Classification, t \in RefundTypes : MayDraw(c, t) =>
      LET r == Finish(case, variant, c, t, Origin(Arm.arm))
      IN \/ /\ next = "compute_refund" /\ r.st.refund_type = t
            /\ \A a \in recording.compute :
                 ~(a.prompt = PromptOf(variant) /\ a.price = OrderAt(Arm.arm, c).price)
         \/ /\ next = "respond" /\ r.reply # None /\ r.reply \notin recording.text
            /\ Forking(Arm.arm) => st.refund_type # None

(* What a row shows of its draws is in its namespace, and a run that planned nothing never would. *)
DrawnInv(row) ==
  LET drawn == cache[Namespace(row.arm, row.change)]
  IN ~row.inherited =>
       /\ row.classify # None => drawn.classify = row.classify
       /\ row.reply # None => row.reply \in drawn.text
       /\ row.planned # None =>
            \A c \in Agent!Classification : Forking(row.arm) \/ row.classify = c =>
              Decided(row.change, OrderAt(row.arm, c).price, row.planned) \in drawn.compute
       /\ row.ended # "model_failed" /\ row.planned = None =>
            \A t \in RefundTypes :
              Finish(case, row.change, row.classify, t, Origin(row.arm)).st.refund_type = None

(* Rows d and e of D and E in the same arm: E's run decided as D's did, and a model call of E's     *)
(* failed where D's did not only past its fast path.                                                *)
Replays(d, e) ==
  /\ d.arm = e.arm /\ d.arm \in {"full", "fork"} /\ d.change = "D" /\ e.change = "E"
  /\ ~d.inherited /\ ~e.inherited /\ d.ended # "model_failed"
  => IF e.ended = "model_failed" THEN FastPath \in e.fired
     ELSE /\ ~Forking(d.arm) => e.classify = d.classify
          /\ None \in {d.planned, e.planned} \/ d.planned = e.planned

(* A naive fork decides what a fork of its change before it decided. *)
Follows(k, n) ==
  /\ k.arm = "fork" /\ n.arm = "fork_naive" /\ n.change = k.change /\ ~k.inherited /\ k.planned # None
  => n.planned = k.planned

ReplayInv ==
  /\ changes \in ChangeLists
  /\ \A n \in Namespaces : OneEach(cache[n].compute)
  /\ queue # << >> => DrawsInv /\ StuckInv
  /\ \A i \in DOMAIN rows : DrawnInv(rows[i])
  /\ \A i, j \in DOMAIN rows : i < j => Follows(rows[i], rows[j])

PairsReplay == \A i, j \in DOMAIN rows : Replays(rows[i], rows[j])

-----------------------------------------------------------------------------
(* No variant of a group goes back to a node it has left. *)
LEMMA RouteOnward ==
  ASSUME NEW v \in ChangesUnderTest, NEW s
  PROVE  /\ Route(v, "classify_request", s) \in {"lookup_order", "respond"}
         /\ Route(v, "lookup_order", s) \in {"get_refund_history", "respond"}
         /\ Route(v, "get_refund_history", s) \in {"check_eligibility", "respond"}
         /\ Route(v, "check_eligibility", s) \in {"compute_refund", "respond"}
         /\ Route(v, "compute_refund", s) \in {"request_approval", "issue_refund"}
         /\ Route(v, "request_approval", s) \in {"issue_refund", "respond"}
         /\ Route(v, "issue_refund", s) = "respond"
         /\ Route(v, "respond", s) = "END"
<1>1. v \in {"baseline", "D", "E"}
  BY DEF ChangesUnderTest, CHANGES
<1>2. /\ Route(v, "classify_request", s) \in {"lookup_order", "respond"}
      /\ Route(v, "lookup_order", s) \in {"get_refund_history", "respond"}
      /\ Route(v, "get_refund_history", s) \in {"check_eligibility", "respond"}
  BY <1>1 DEF Route, AfterClassify, AfterLookupNode, AfterHistory
<1>3. /\ Route(v, "check_eligibility", s) \in {"compute_refund", "respond"}
      /\ Route(v, "compute_refund", s) \in {"request_approval", "issue_refund"}
  BY <1>1 DEF Route, AfterEligibility, AfterCompute
<1>4. /\ Route(v, "request_approval", s) \in {"issue_refund", "respond"}
      /\ Route(v, "issue_refund", s) = "respond"
      /\ Route(v, "respond", s) = "END"
  BY <1>1 DEF Route, AfterApproval
<1> QED
  BY <1>2, <1>3, <1>4

(* A node is passed by the run that is about to run it, and by no other. *)
LEMMA PassedOrNot ==
  ASSUME NEW node, NEW k, NEW v, NEW c, NEW t, NEW r
  PROVE  /\ r.phase = "running" /\ r.next = node => PassAt(node, k, v, c, t, r) = Pass(k, v, c, t, r)
         /\ ~(r.phase = "running" /\ r.next = node) => PassAt(node, k, v, c, t, r) = r
BY DEF PassAt

(* A run that is over is its own end. *)
LEMMA FinishedStays ==
  ASSUME NEW k, NEW v, NEW c, NEW t, NEW r, r.phase # "running"
  PROVE  Finish(k, v, c, t, r) = r /\ ToPlan(k, v, c, t, r) = r /\ FromPlan(k, v, c, t, r) = r
<1>1. \A node : PassAt(node, k, v, c, t, r) = r
  BY DEF PassAt
<1> QED
  BY <1>1 DEF Finish, ToPlan, FromPlan

(* A run at the changed node or below it has none of the nodes above it ahead. *)
LEMMA AtThePlan ==
  ASSUME NEW k, NEW v, NEW c, NEW t, NEW r, r.next \notin BeforePlan \ {"compute_refund"}
  PROVE  ToPlan(k, v, c, t, r) = r
<1>1. /\ PassAt("classify_request", k, v, c, t, r) = r
      /\ PassAt("lookup_order", k, v, c, t, r) = r
      /\ PassAt("get_refund_history", k, v, c, t, r) = r
      /\ PassAt("check_eligibility", k, v, c, t, r) = r
  BY DEF PassAt, BeforePlan
<1> QED
  BY <1>1 DEF ToPlan

(* A run is on the same way to the plan before and after a superstep above it. *)
LEMMA ToPlanPass ==
  ASSUME NEW k, NEW v \in ChangesUnderTest, NEW c, NEW t, NEW r,
         r.phase = "running", r.next \in BeforePlan \ {"compute_refund"}
  PROVE  ToPlan(k, v, c, t, Pass(k, v, c, t, r)) = ToPlan(k, v, c, t, r)
<1> DEFINE q == Pass(k, v, c, t, r)
           At(node, x) == PassAt(node, k, v, c, t, x)
<1>1. q.next = Route(v, r.next, Written(k, c, t, r))
  BY DEF Pass, Run
<1>2. /\ \A node : r.next = node => At(node, r) = q
      /\ \A node : r.next # node => At(node, r) = r
      /\ \A node : q.next # node => At(node, q) = q
  BY PassedOrNot
<1>3. \A x : ToPlan(k, v, c, t, x) = At("check_eligibility", At("get_refund_history",
                                        At("lookup_order", At("classify_request", x))))
  BY DEF ToPlan
<1> HIDE DEF q, At
<1>4. CASE r.next = "classify_request"
  <2>1. q.next # "classify_request"
    BY <1>1, <1>4, RouteOnward
  <2> QED
    BY <1>2, <1>3, <1>4, <2>1 DEF q
<1>5. CASE r.next = "lookup_order"
  <2>1. q.next \notin {"classify_request", "lookup_order"}
    BY <1>1, <1>5, RouteOnward
  <2>2. At("lookup_order", At("classify_request", q)) = At("lookup_order", At("classify_request", r))
    BY <1>2, <1>5, <2>1
  <2> QED
    BY <1>3, <2>2 DEF q
<1>6. CASE r.next = "get_refund_history"
  <2>1. q.next \notin {"classify_request", "lookup_order", "get_refund_history"}
    BY <1>1, <1>6, RouteOnward
  <2>2. At("get_refund_history", At("lookup_order", At("classify_request", q)))
          = At("get_refund_history", At("lookup_order", At("classify_request", r)))
    BY <1>2, <1>6, <2>1
  <2> QED
    BY <1>3, <2>2 DEF q
<1>7. CASE r.next = "check_eligibility"
  <2>1. q.next \notin {"classify_request", "lookup_order", "get_refund_history", "check_eligibility"}
    BY <1>1, <1>7, RouteOnward
  <2>2. At("check_eligibility", At("get_refund_history", At("lookup_order", At("classify_request", q))))
          = At("check_eligibility", At("get_refund_history", At("lookup_order", At("classify_request", r))))
    BY <1>2, <1>7, <2>1
  <2> QED
    BY <1>3, <2>2 DEF q
<1> QED
  BY <1>4, <1>5, <1>6, <1>7 DEF BeforePlan

(* A run ends as it does from after its next superstep. *)
LEMMA FinishPass ==
  ASSUME NEW k, NEW v \in ChangesUnderTest, NEW c, NEW t, NEW r, r.phase = "running", r.next \in GroupNodes
  PROVE  Finish(k, v, c, t, Pass(k, v, c, t, r)) = Finish(k, v, c, t, r)
<1> DEFINE q == Pass(k, v, c, t, r)
           At(node, x) == PassAt(node, k, v, c, t, x)
<1>1. q.next = Route(v, r.next, Written(k, c, t, r))
  BY DEF Pass, Run
<1>2. /\ \A node : r.next = node => At(node, r) = q
      /\ \A node : r.next # node => At(node, r) = r
      /\ \A node : q.next # node => At(node, q) = q
  BY PassedOrNot
<1>3. \A x : FromPlan(k, v, c, t, x)
               = At("respond", At("issue_refund", At("request_approval", At("compute_refund", x))))
  BY DEF FromPlan
<1> HIDE DEF q, At
<1>4. CASE r.next \in BeforePlan \ {"compute_refund"}
  BY <1>4, ToPlanPass DEF Finish
<1>5. ASSUME r.next \notin BeforePlan \ {"compute_refund"}
      PROVE  FromPlan(k, v, c, t, q) = FromPlan(k, v, c, t, r)
  <2>1. r.next \in {"compute_refund", "request_approval", "issue_refund", "respond"}
    BY <1>5 DEF GroupNodes, BeforePlan
  <2>4. CASE r.next = "compute_refund"
    <3>1. q.next \in {"request_approval", "issue_refund"}
      BY <1>1, <2>4, RouteOnward
    <3>2. At("compute_refund", q) = At("compute_refund", r)
      BY <1>2, <2>4, <3>1
    <3> QED
      BY <1>3, <3>2
  <2>5. CASE r.next = "request_approval"
    <3>1. q.next \in {"issue_refund", "respond"}
      BY <1>1, <2>5, RouteOnward
    <3>2. At("request_approval", At("compute_refund", q)) = At("request_approval", At("compute_refund", r))
      BY <1>2, <2>5, <3>1
    <3> QED
      BY <1>3, <3>2
  <2>6. CASE r.next = "issue_refund"
    <3>1. q.next = "respond"
      BY <1>1, <2>6, RouteOnward
    <3>2. At("issue_refund", At("request_approval", At("compute_refund", q)))
            = At("issue_refund", At("request_approval", At("compute_refund", r)))
      BY <1>2, <2>6, <3>1
    <3> QED
      BY <1>3, <3>2
  <2>7. CASE r.next = "respond"
    <3>1. q.next = "END"
      BY <1>1, <2>7, RouteOnward
    <3>2. At("respond", At("issue_refund", At("request_approval", At("compute_refund", q))))
            = At("respond", At("issue_refund", At("request_approval", At("compute_refund", r))))
      BY <1>2, <2>7, <3>1
    <3> QED
      BY <1>3, <3>2
  <2> QED
    BY <2>1, <2>4, <2>5, <2>6, <2>7
<1>6. CASE r.next \notin BeforePlan \ {"compute_refund"}
  <2>1. q.next \notin BeforePlan \ {"compute_refund"}
    BY <1>1, <1>6, RouteOnward DEF GroupNodes, BeforePlan
  <2>2. ToPlan(k, v, c, t, q) = q /\ ToPlan(k, v, c, t, r) = r
    BY <1>6, <2>1, AtThePlan
  <2> QED
    BY <1>5, <1>6, <2>2 DEF Finish, q
<1> QED
  BY <1>4, <1>6


(* A pass leaves a run whose next node finds what it needs. *)
LEMMA PassTyped ==
  ASSUME NEW k \in Case, NEW v \in ChangesUnderTest, NEW c, NEW t \in RefundTypes, NEW r, Typed(r),
         r.next \in GroupNodes,
         r.next = "classify_request" => c \in [intent: Intents, order_id: OrderIds \cup {None}]
  PROVE  Typed(Pass(k, v, c, t, r))
<1> DEFINE q == Pass(k, v, c, t, r)
           s == Written(k, c, t, r)
           w == Called(k, r)
<1>1. q.st = s /\ q.world = w /\ q.next = Route(v, r.next, s)
  BY DEF Pass, Run
<1>2. v \in {"baseline", "D", "E"}
  BY DEF ChangesUnderTest, CHANGES
<1>3. r.st \in RefundState /\ r.world \in World
  BY DEF Typed
<1>4. None \notin Errors /\ None \notin RefundTypes
  BY RoutingAssumption, NoneAssumption
<1> HIDE DEF q, s, w
<1>5. CASE r.next = "classify_request"
  <2>1. s = [r.st EXCEPT !.intent = c.intent, !.order_id = c.order_id] /\ w = r.world
    BY <1>5 DEF s, w, Written, Called
  <2>2. s \in RefundState
    BY <1>3, <1>5, <2>1 DEF RefundState
  <2>3. q.next \in {"lookup_order", "respond"} /\ (q.next = "lookup_order" => s.order_id # None)
    BY <1>1, <1>2, <1>5 DEF Route, AfterClassify
  <2> QED
    BY <1>1, <1>3, <2>1, <2>2, <2>3 DEF Typed, q
<1>6. CASE r.next = "lookup_order"
  <2>1. r.st.order_id \in OrderIds
    BY <1>3, <1>6 DEF Typed, GroupNodes, BeforePlan, RefundState
  <2>2. w = AfterLookup(r.world, k, r.st.order_id) /\ w \in World
    BY <1>3, <1>6, <2>1, LookupFacts DEF w, Called
  <2> DEFINE row == SelectOrder(w, r.st.order_id, TRUE)
  <2>3. row \in OrderRow \cup {None}
    BY <2>1, <2>2, SelectFacts
  <2>4. IF Fails(k, "lookup_order") THEN s = [r.st EXCEPT !.error = "lookup_order"]
        ELSE s = [r.st EXCEPT !.order = row, !.error = IF row = None THEN "no_order" ELSE @]
    BY <1>6, <2>2 DEF s, Written
  <2> HIDE DEF row
  <2>5. "lookup_order" \in Errors /\ "no_order" \in Errors
    BY DEF Errors, ToolNames
  <2>6. s \in RefundState /\ s.order_id = r.st.order_id /\ (s.error = None => s.order # None)
    <3>1. CASE Fails(k, "lookup_order")
      BY <1>3, <1>4, <2>4, <2>5, <3>1 DEF RefundState
    <3>2. CASE ~Fails(k, "lookup_order")
      <4> DEFINE e == IF row = None THEN "no_order" ELSE r.st.error
      <4>1. e \in Errors \cup {None} /\ (e = None => row # None)
        BY <1>3, <1>4, <2>5 DEF RefundState
      <4>2. s = [r.st EXCEPT !.order = row, !.error = e]
        BY <2>4, <3>2
      <4> HIDE DEF e
      <4>3. [r.st EXCEPT !.order = row] \in RefundState
        BY <1>3, <2>3 DEF RefundState
      <4>4. s = [[r.st EXCEPT !.order = row] EXCEPT !.error = e]
        BY <4>2
      <4>5. s \in RefundState
        BY <4>1, <4>3, <4>4 DEF RefundState
      <4>6. s.order_id = r.st.order_id /\ s.order = row /\ s.error = e
        BY <1>3, <4>2 DEF RefundState
      <4> QED
        BY <4>1, <4>5, <4>6
    <3> QED
      BY <3>1, <3>2
  <2>7. q.next \in {"get_refund_history", "respond"} /\ (q.next = "get_refund_history" => s.error = None)
    BY <1>1, <1>2, <1>6 DEF Route, AfterLookupNode
  <2>8. s.order_id # None
    BY <2>1, <2>6, NoneAssumption
  <2> QED
    BY <1>1, <2>2, <2>6, <2>7, <2>8 DEF Typed, q
<1>7. CASE r.next = "get_refund_history"
  <2>1. w = Logged(r.world, k, "get_refund_history") /\ w \in World
    BY <1>3, <1>7, LoggedFacts DEF w, Called, ToolNames
  <2>2. RefundHistory(r.world, k) \in Nat /\ "get_refund_history" \in Errors
    BY <1>3, HistoryFacts DEF Errors, ToolNames
  <2>3. s \in RefundState /\ s.order_id = r.st.order_id /\ s.order = r.st.order
    BY <1>3, <1>7, <2>2 DEF s, Written, RefundState
  <2>4. q.next \in {"check_eligibility", "respond"}
    BY <1>1, <1>7, RouteOnward
  <2> QED
    BY <1>1, <1>7, <2>1, <2>3, <2>4 DEF Typed, q, GroupNodes, BeforePlan
<1>8. CASE r.next = "check_eligibility"
  <2>1. w = Logged(r.world, k, "check_eligibility") /\ w \in World
    BY <1>3, <1>8, LoggedFacts DEF w, Called, ToolNames
  <2>2. Eligibility(r.st.order, r.st.prior_refunds, REFUND_WINDOW_DAYS) \in Reasons /\ "check_eligibility" \in Errors
    BY EligibilityType DEF Errors, ToolNames
  <2>3. s \in RefundState /\ s.order_id = r.st.order_id /\ s.order = r.st.order
    BY <1>3, <1>8, <2>2 DEF s, Written, RefundState
  <2>4. q.next \in {"compute_refund", "respond"}
    BY <1>1, <1>8, RouteOnward
  <2> QED
    BY <1>1, <1>8, <2>1, <2>3, <2>4 DEF Typed, q, GroupNodes, BeforePlan
<1>9. CASE r.next = "compute_refund"
  <2>1. w = r.world
    BY <1>9 DEF w, Called
  <2>2. r.st.order.price \in Nat
    BY <1>3, <1>9 DEF Typed, RefundState, OrderRow
  <2>3. RefundAmount(t, r.st.order.price) \in Nat
    BY <2>2, AmountType
  <2>4. s = [r.st EXCEPT !.refund_type = t, !.refund_amount = RefundAmount(t, r.st.order.price)]
    BY <1>9 DEF s, Written
  <2>5. /\ s \in RefundState /\ s.order_id = r.st.order_id /\ s.refund_type = t
        /\ s.refund_amount = RefundAmount(t, r.st.order.price)
    BY <1>3, <2>3, <2>4 DEF RefundState
  <2>6. q.next \in {"request_approval", "issue_refund"}
    BY <1>1, <1>9, RouteOnward
  <2> QED
    BY <1>1, <1>3, <1>4, <1>9, <2>1, <2>3, <2>5, <2>6, NoneAssumption DEF Typed, q, GroupNodes, BeforePlan
<1>10. CASE r.next = "request_approval"
  <2>1. w = r.world /\ Given(k) \in {"approve", "reject"}
    BY <1>10 DEF w, Called, Given, Case
  <2>2. /\ s \in RefundState /\ s.order_id = r.st.order_id /\ s.refund_type = r.st.refund_type
        /\ s.refund_amount = r.st.refund_amount
    BY <1>3, <1>10, <2>1 DEF s, Written, RefundState
  <2>3. q.next \in {"issue_refund", "respond"}
    BY <1>1, <1>10, RouteOnward
  <2> QED
    BY <1>1, <1>3, <1>10, <2>1, <2>2, <2>3 DEF Typed, q, GroupNodes, BeforePlan
<1>11. CASE r.next = "issue_refund"
  <2>1. r.st.order_id \in OrderIds /\ r.st.refund_type \in RefundTypes /\ r.st.refund_amount \in Nat
    BY <1>3, <1>11 DEF Typed, GroupNodes, BeforePlan, RefundState
  <2>2. w \in World
    BY <1>3, <1>11, <2>1, IssueFacts DEF w, Called
  <2>3. r.world.next_refund \in Nat /\ "issue_refund" \in Errors
    BY <1>3 DEF World, Errors, ToolNames
  <2>4. s \in RefundState
    BY <1>3, <1>11, <2>3 DEF s, Written, RefundState
  <2>5. q.next = "respond"
    BY <1>1, <1>11, RouteOnward
  <2> QED
    BY <1>1, <2>2, <2>4, <2>5 DEF Typed, q
<1>12. CASE r.next = "respond"
  <2>1. s = r.st /\ w = r.world
    BY <1>12 DEF s, w, Written, Called
  <2>2. q.next = "END"
    BY <1>1, <1>12, RouteOnward
  <2> QED
    BY <1>1, <1>3, <2>1, <2>2 DEF Typed, q, GroupNodes, BeforePlan
<1> QED
  BY <1>5, <1>6, <1>7, <1>8, <1>9, <1>10, <1>11, <1>12 DEF GroupNodes, BeforePlan

-----------------------------------------------------------------------------
(* The instance of the agent has the tools and routers of this module. *)
LEMMA SameTools ==
  /\ \A k, tool : Agent!Fails(k, tool) = Fails(k, tool)
  /\ \A w, k, tool : Agent!Logged(w, k, tool) = Logged(w, k, tool)
  /\ \A w, k, o : Agent!AfterLookup(w, k, o) = AfterLookup(w, k, o)
  /\ \A w, o, filter : Agent!SelectOrder(w, o, filter) = SelectOrder(w, o, filter)
  /\ \A w, k : Agent!RefundHistory(w, k) = RefundHistory(w, k)
  /\ \A row, prior, window : Agent!Eligibility(row, prior, window) = Eligibility(row, prior, window)
  /\ \A w, k, o, type, a : Agent!AfterIssue(w, k, o, type, a) = AfterIssue(w, k, o, type, a)
  /\ \A type, price : Agent!RefundAmount(type, price) = RefundAmount(type, price)
  /\ \A k : Agent!SeedWorld(k) = SeedWorld(k)
  /\ Agent!EmptyState = EmptyState /\ Agent!RefundTypes = RefundTypes
<1>1. \A k, tool : Agent!Fails(k, tool) = Fails(k, tool)
  BY DEF Agent!Fails, Fails
<1>2. \A w, k, tool : Agent!Logged(w, k, tool) = Logged(w, k, tool)
  BY DEF Agent!Fails, Fails, Agent!Logged, Logged
<1>3. \A w, k, o : Agent!Repriced(w, k, o) = Repriced(w, k, o)
  BY DEF Agent!Repriced, Repriced
<1>4. \A w, k, o : Agent!AfterLookup(w, k, o) = AfterLookup(w, k, o)
  BY <1>1, <1>2, <1>3 DEF Agent!AfterLookup, AfterLookup
<1>5. \A w, o, filter : Agent!SelectOrder(w, o, filter) = SelectOrder(w, o, filter)
  BY DEF Agent!SelectOrder, SelectOrder
<1>6. \A w, k : Agent!RefundHistory(w, k) = RefundHistory(w, k)
  <2>1. \A S : Agent!Cardinality(S) = Cardinality(S)
    BY DEF Agent!Cardinality, Cardinality
  <2> QED
    BY <2>1 DEF Agent!RefundHistory, RefundHistory
<1>7. \A row, prior, window : Agent!Eligibility(row, prior, window) = Eligibility(row, prior, window)
  BY DEF Agent!Eligibility, Eligibility
<1>8. \A w, k, o, type, a : Agent!AfterIssue(w, k, o, type, a) = AfterIssue(w, k, o, type, a)
  BY <1>1, <1>2 DEF Agent!AfterIssue, AfterIssue
<1>9. \A type, price : Agent!RefundAmount(type, price) = RefundAmount(type, price)
  BY DEF Agent!RefundAmount, RefundAmount, Agent!HalfOf, HalfOf
<1>10. \A k : Agent!SeedWorld(k) = SeedWorld(k)
  BY DEF Agent!SeedWorld, SeedWorld
<1>11. Agent!EmptyState = EmptyState /\ Agent!RefundTypes = RefundTypes
  BY DEF Agent!EmptyState, EmptyState, Agent!RefundTypes, RefundTypes
<1> QED
  BY <1>1, <1>2, <1>4, <1>5, <1>6, <1>7, <1>8, <1>9, <1>10, <1>11

(* The routers the agent's module has are the ones ForkGroup routes with. *)
LEMMA SameRouters ==
  ASSUME NEW v, NEW node, NEW s
  PROVE  /\ Agent!Route(v, node, s) = Route(v, node, s)
         /\ Agent!RouteMarks(v, node, s) = RouteMarks(v, node, s)
<1>1. /\ Agent!AfterClassify(v, s) = AfterClassify(v, s)
      /\ Agent!AfterLookupNode(v, s) = AfterLookupNode(v, s)
      /\ Agent!AfterHistory(v, s) = AfterHistory(v, s)
  BY DEF Agent!AfterClassify, AfterClassify, Agent!AfterLookupNode, AfterLookupNode,
         Agent!AfterHistory, AfterHistory
<1>2. Agent!AfterCompute(v, s) = AfterCompute(v, s) /\ Agent!EntersFastPath(v, s) = EntersFastPath(v, s)
  BY DEF Agent!AfterCompute, AfterCompute, Agent!EntersFastPath, EntersFastPath
<1>3. /\ Agent!AfterEligibility(v, s) = AfterEligibility(v, s)
      /\ Agent!AfterApproval(v, s) = AfterApproval(v, s)
      /\ Agent!AfterGate(s) = AfterGate(s)
  BY <1>2 DEF Agent!AfterEligibility, AfterEligibility, Agent!AfterApproval, AfterApproval,
              Agent!AfterGate, AfterGate
<1>4. Agent!Route(v, node, s) = Route(v, node, s)
  BY <1>1, <1>2, <1>3 DEF Agent!Route, Route
<1>5. Agent!RouteMarks(v, node, s) = RouteMarks(v, node, s)
  BY <1>2 DEF Agent!RouteMarks, RouteMarks
<1> QED
  BY <1>4, <1>5

(* A superstep of the run in progress is a pass of it, whatever the model decides there. *)
IsPass ==
  /\ phase = "running" /\ phase' # "paused" /\ next \in GroupNodes
  /\ nodes' = Append(nodes, next) /\ steps' = steps + 1
  /\ answer' = IF answer = None THEN None ELSE "spent"
  /\ next = "request_approval" => answer \in {"approve", "reject"}
  /\ DOMAIN recording' = DOMAIN recording /\ DOMAIN st' = DOMAIN st
  /\ IF next = "classify_request" THEN recording'.classify \in Agent!Classification
     ELSE recording'.classify = recording.classify
  /\ IF next = "compute_refund" THEN st'.refund_type \in RefundTypes
     ELSE st'.refund_type = st.refund_type
  /\ \A c, t : /\ next = "classify_request" => c = recording'.classify
               /\ next = "compute_refund" => t = st'.refund_type
               => ThisRun' = Pass(case, variant, c, t, ThisRun)

(* The end of a superstep writes what a pass writes. *)
LEMMA StepIsPass ==
  ASSUME NEW s, NEW w, NEW c, NEW t,
         phase = "running", Agent!Step(next, s, w, {}), steps \in Nat,
         next = "request_approval" => steps = 0,
         s = Written(case, c, t, ThisRun), w = Called(case, ThisRun),
         nodes' = Append(nodes, next),
         reply' = IF next = "respond" THEN Rendered(st) ELSE reply
  PROVE  ThisRun' = Pass(case, variant, c, t, ThisRun) /\ phase' # "paused"
<1>1. /\ ThisRun.st = st /\ ThisRun.world = world /\ ThisRun.next = next /\ ThisRun.phase = "running"
      /\ ThisRun.steps = steps /\ ThisRun.fired = fired /\ ThisRun.reply = reply /\ ThisRun.nodes = nodes
  BY DEF ThisRun, Run
<1>2. /\ st' = s /\ world' = w /\ next' = Route(variant, next, s)
      /\ fired' = fired \cup RouteMarks(variant, next, s)
      /\ steps' = steps + 1
      /\ phase' = IF steps' > RECURSION_LIMIT THEN "crashed" ELSE IF next' = "END" THEN "done" ELSE "running"
  BY SameRouters DEF Agent!Step
<1>3. steps' = IF next = "request_approval" THEN 1 ELSE steps + 1
  BY <1>2
<1>4. phase' # "paused" /\ (IF phase' = "paused" THEN "running" ELSE phase') = phase'
  BY <1>2
<1>5. ThisRun' = Run(st', world', next', phase', steps', fired', reply', nodes')
  BY <1>4 DEF ThisRun
<1>6. Pass(case, variant, c, t, ThisRun)
        = Run(s, w, Route(variant, next, s), phase', steps',
              fired \cup RouteMarks(variant, next, s), reply', nodes')
  <2> HIDE DEF ThisRun
  <2> QED
    BY <1>1, <1>2, <1>3 DEF Pass
<1> QED
  BY <1>2, <1>4, <1>5, <1>6


(* An interrupt, or the resume that ends the pause. *)
IsPause ==
  /\ phase \in {"running", "paused"} /\ phase' \in {"running", "paused"} /\ next = "request_approval"
  /\ \/ phase' = "paused" /\ answer' = None /\ steps' = steps
     \/ phase' = "running" /\ answer' = Given(case) /\ steps' = 0
  /\ answer = None
  /\ UNCHANGED <<recording, st, world, next, fired, reply, nodes, thread>>

(* A model call that fails for good. *)
IsCrash ==
  /\ phase = "running" /\ phase' = "crashed"
  /\ next \in {"classify_request", "compute_refund", "respond"}
  /\ next = "classify_request" => recording.classify = None
  /\ UNCHANGED <<recording, st, world, next, answer, steps, fired, reply, nodes, thread>>

(* The scripted answer is one of the two the graph knows. *)
LEMMA GivenType ==
  ASSUME case \in Cases
  PROVE  Given(case) \in {"approve", "reject"}
BY GroupAssumption DEF Given, Case

(* The fields of the run in progress. *)
LEMMA ThisRunFields ==
  /\ ThisRun.st = st /\ ThisRun.world = world /\ ThisRun.next = next
  /\ ThisRun.phase = (IF phase = "paused" THEN "running" ELSE phase)
  /\ ThisRun.steps = steps /\ ThisRun.fired = fired /\ ThisRun.reply = reply /\ ThisRun.nodes = nodes
BY DEF ThisRun, Run

(* The steps above the plan are passes. *)
LEMMA UpstreamPasses ==
  ASSUME ControlInv, variant \in ChangesUnderTest, Superstep,
         \/ Agent!ClassifyRequest \/ Agent!LookupOrderFails \/ Agent!LookupOrderAnswers
         \/ Agent!HistoryFails \/ Agent!HistoryAnswers
         \/ Agent!EligibilityFails \/ Agent!EligibilityAnswers
  PROVE  IsPass
<1> variant \in {"baseline", "D", "E"}
  BY DEF ChangesUnderTest, CHANGES
<1> steps \in Nat /\ DOMAIN recording = {"classify", "compute", "text"} /\ DOMAIN st = DOMAIN EmptyState
  BY DEF ControlInv, Agent!EmptyRecording
<1>0. DOMAIN st = {"intent", "order_id", "order", "prior_refunds", "eligibility",
                   "refund_type", "refund_amount", "approval", "refund_id", "error"}
  BY DEF EmptyState
<1>1. ASSUME Agent!ClassifyRequest PROVE IsPass
  <2>1. PICK c \in Agent!Classification :
          /\ recording' = [recording EXCEPT !.classify = c]
          /\ Agent!Step("classify_request", [st EXCEPT !.intent = c.intent, !.order_id = c.order_id], world, {})
    BY <1>1 DEF Agent!ClassifyRequest
  <2> DEFINE s == [st EXCEPT !.intent = c.intent, !.order_id = c.order_id]
  <2>2. next = "classify_request" /\ phase = "running" /\ reply' = reply
    BY <1>1 DEF Agent!ClassifyRequest, Agent!At
  <2>3. recording'.classify = c /\ DOMAIN recording' = DOMAIN recording
    BY <2>1
  <2>4. st' = s /\ steps' = steps + 1 /\ answer' = IF answer = None THEN None ELSE "spent"
    BY <2>1 DEF Agent!Step
  <2>5. DOMAIN st' = DOMAIN st /\ st'.refund_type = st.refund_type
    BY <1>0, <2>4
  <2>6. nodes' = Append(nodes, next)
    BY <2>4 DEF Superstep
  <2>7. ASSUME NEW t PROVE ThisRun' = Pass(case, variant, c, t, ThisRun) /\ phase' # "paused"
    <3>1. s = Written(case, c, t, ThisRun) /\ world = Called(case, ThisRun)
      BY <2>2, ThisRunFields DEF Written, Called
    <3> HIDE DEF s
    <3> QED
      BY <2>1, <2>2, <2>6, <3>1, StepIsPass DEF s
  <2> QED
    BY <2>2, <2>3, <2>4, <2>5, <2>6, <2>7 DEF IsPass, GroupNodes, BeforePlan
<1>2. ASSUME NEW s, NEW w, Agent!Step(next, s, w, {}), phase = "running",
             next \in {"lookup_order", "get_refund_history", "check_eligibility"},
             DOMAIN s = DOMAIN st, s.refund_type = st.refund_type, Agent!Quiet,
             w = Called(case, ThisRun), \A c, t : s = Written(case, c, t, ThisRun)
      PROVE  IsPass
  <2>1. st' = s /\ steps' = steps + 1 /\ answer' = (IF answer = None THEN None ELSE "spent")
        /\ recording' = recording /\ reply' = reply
    BY <1>2 DEF Agent!Step, Agent!Quiet
  <2>2. nodes' = Append(nodes, next)
    BY <2>1 DEF Superstep
  <2>3. ASSUME NEW c, NEW t PROVE ThisRun' = Pass(case, variant, c, t, ThisRun) /\ phase' # "paused"
    BY <1>2, <2>1, <2>2, StepIsPass
  <2> QED
    BY <1>2, <2>1, <2>2, <2>3 DEF IsPass, GroupNodes, BeforePlan
<1>3. ASSUME Agent!LookupOrderFails PROVE IsPass
  <2> DEFINE s == [st EXCEPT !.error = "lookup_order"]
             w == Logged(world, case, "lookup_order")
  <2>1. /\ next = "lookup_order" /\ phase = "running" /\ Fails(case, "lookup_order") /\ Agent!Quiet
        /\ Agent!Step(next, s, w, {})
    BY <1>3, SameTools DEF Agent!LookupOrderFails, Agent!At, Agent!Failed, Agent!AfterFailedRead, Agent!RetryMarks
  <2>2. DOMAIN s = DOMAIN st /\ s.refund_type = st.refund_type
    BY <1>0
  <2>3. \A c, t : s = Written(case, c, t, ThisRun)
    BY <2>1, ThisRunFields DEF Written
  <2>4. w = Called(case, ThisRun)
    BY <2>1, ThisRunFields DEF Called, AfterLookup
  <2> HIDE DEF s, w
  <2> QED
    BY <1>2, <2>1, <2>2, <2>3, <2>4
<1>4. ASSUME Agent!LookupOrderAnswers PROVE IsPass
  <2> DEFINE w == AfterLookup(world, case, st.order_id)
             row == SelectOrder(w, st.order_id, TRUE)
             s == [st EXCEPT !.order = row, !.error = IF row = None THEN "no_order" ELSE @]
  <2>1. next = "lookup_order" /\ phase = "running" /\ ~Fails(case, "lookup_order") /\ Agent!Quiet
    BY <1>4, SameTools DEF Agent!LookupOrderAnswers, Agent!At
  <2>2. Agent!Step(next, s, w, {})
    BY <1>4, SameTools DEF Agent!LookupOrderAnswers, Agent!At
  <2>3. DOMAIN s = DOMAIN st /\ s.refund_type = st.refund_type
    BY <1>0
  <2>4. \A c, t : s = Written(case, c, t, ThisRun)
    BY <2>1, ThisRunFields DEF Written
  <2>5. w = Called(case, ThisRun)
    BY <2>1, ThisRunFields DEF Called
  <2> HIDE DEF s, w
  <2> QED
    BY <1>2, <2>1, <2>2, <2>3, <2>4, <2>5
<1>5. ASSUME Agent!HistoryFails PROVE IsPass
  <2> DEFINE s == [st EXCEPT !.error = "get_refund_history"]
             w == Logged(world, case, "get_refund_history")
  <2>1. /\ next = "get_refund_history" /\ phase = "running" /\ Fails(case, "get_refund_history")
        /\ Agent!Quiet /\ Agent!Step(next, s, w, {})
    BY <1>5, SameTools DEF Agent!HistoryFails, Agent!At, Agent!Failed, Agent!AfterFailedRead, Agent!RetryMarks
  <2>2. DOMAIN s = DOMAIN st /\ s.refund_type = st.refund_type
    BY <1>0
  <2>3. \A c, t : s = Written(case, c, t, ThisRun)
    BY <2>1, ThisRunFields DEF Written
  <2>4. w = Called(case, ThisRun)
    BY <2>1, ThisRunFields DEF Called
  <2> HIDE DEF s, w
  <2> QED
    BY <1>2, <2>1, <2>2, <2>3, <2>4
<1>6. ASSUME Agent!HistoryAnswers PROVE IsPass
  <2> DEFINE s == [st EXCEPT !.prior_refunds = RefundHistory(world, case)]
             w == Logged(world, case, "get_refund_history")
  <2>1. /\ next = "get_refund_history" /\ phase = "running" /\ ~Fails(case, "get_refund_history")
        /\ Agent!Quiet /\ Agent!Step(next, s, w, {})
    BY <1>6, SameTools DEF Agent!HistoryAnswers, Agent!At
  <2>2. DOMAIN s = DOMAIN st /\ s.refund_type = st.refund_type
    BY <1>0
  <2>3. \A c, t : s = Written(case, c, t, ThisRun)
    BY <2>1, ThisRunFields DEF Written
  <2>4. w = Called(case, ThisRun)
    BY <2>1, ThisRunFields DEF Called
  <2> HIDE DEF s, w
  <2> QED
    BY <1>2, <2>1, <2>2, <2>3, <2>4
<1>7. Agent!CheckMarks = {} /\ \A w : Agent!AfterRedundantReads(w) = w
  BY DEF Agent!CheckMarks, Agent!AfterRedundantReads
<1>8. ASSUME Agent!EligibilityFails PROVE IsPass
  <2> DEFINE s == [st EXCEPT !.error = "check_eligibility"]
             w == Logged(world, case, "check_eligibility")
  <2>1. /\ next = "check_eligibility" /\ phase = "running" /\ Fails(case, "check_eligibility")
        /\ Agent!Quiet /\ Agent!Step(next, s, w, {})
    BY <1>7, <1>8, SameTools DEF Agent!EligibilityFails, Agent!At, Agent!Failed, Agent!RetryMarks
  <2>2. DOMAIN s = DOMAIN st /\ s.refund_type = st.refund_type
    BY <1>0
  <2>3. \A c, t : s = Written(case, c, t, ThisRun)
    BY <2>1, ThisRunFields DEF Written
  <2>4. w = Called(case, ThisRun)
    BY <2>1, ThisRunFields DEF Called
  <2> HIDE DEF s, w
  <2> QED
    BY <1>2, <2>1, <2>2, <2>3, <2>4
<1>9. ASSUME Agent!EligibilityAnswers PROVE IsPass
  <2> DEFINE s == [st EXCEPT !.eligibility = Eligibility(st.order, st.prior_refunds, REFUND_WINDOW_DAYS)]
             w == Logged(world, case, "check_eligibility")
  <2>1. /\ next = "check_eligibility" /\ phase = "running" /\ ~Fails(case, "check_eligibility")
        /\ Agent!Quiet /\ Agent!Step(next, s, w, {})
    BY <1>7, <1>9, SameTools DEF Agent!EligibilityAnswers, Agent!At, Agent!PriorRefunds, Agent!WindowDays
  <2>2. DOMAIN s = DOMAIN st /\ s.refund_type = st.refund_type
    BY <1>0
  <2>3. \A c, t : s = Written(case, c, t, ThisRun)
    BY <2>1, ThisRunFields DEF Written
  <2>4. w = Called(case, ThisRun)
    BY <2>1, ThisRunFields DEF Called
  <2> HIDE DEF s, w
  <2> QED
    BY <1>2, <2>1, <2>2, <2>3, <2>4
<1> QED
  BY <1>1, <1>3, <1>4, <1>5, <1>6, <1>8, <1>9


(* The steps from the plan on are passes. *)
LEMMA DownstreamPasses ==
  ASSUME ControlInv, variant \in ChangesUnderTest, Superstep,
         \/ Agent!ComputeRefund \/ Agent!RequestApproval
         \/ Agent!IssueRefund \/ Agent!IssueFails \/ Agent!Respond
  PROVE  IsPass
<1> variant \in {"baseline", "D", "E"}
  BY DEF ChangesUnderTest, CHANGES
<1> steps \in Nat /\ DOMAIN recording = {"classify", "compute", "text"} /\ DOMAIN st = DOMAIN EmptyState
  BY DEF ControlInv, Agent!EmptyRecording
<1>0. DOMAIN st = {"intent", "order_id", "order", "prior_refunds", "eligibility",
                   "refund_type", "refund_amount", "approval", "refund_id", "error"}
  BY DEF EmptyState
<1>1. ASSUME Agent!ComputeRefund PROVE IsPass
  <2>1. PICK t \in RefundTypes :
          /\ DOMAIN recording' = DOMAIN recording /\ recording'.classify = recording.classify
          /\ Agent!Step("compute_refund",
                        [st EXCEPT !.refund_type = t, !.refund_amount = RefundAmount(t, st.order.price)],
                        world, {})
    <3>1. /\ Agent!AfterPrelude = world /\ Agent!PreludeMarks = {}
          /\ \A t, p : Agent!PlannedAmount(t, p) = RefundAmount(t, p) /\ Agent!AmountMarks(t, p) = {}
      BY SameTools DEF Agent!AfterPrelude, Agent!PreludeMarks, Agent!PlannedAmount, Agent!AmountMarks
    <3>2. PICK t \in RefundTypes :
            LET decision == [prompt |-> Agent!ComputePrompt, price |-> st.order.price, type |-> t]
            IN /\ recording' = [recording EXCEPT !.compute = @ \cup {decision}]
               /\ Agent!Step("compute_refund",
                     [st EXCEPT !.refund_type = t, !.refund_amount = Agent!PlannedAmount(t, st.order.price)],
                     Agent!AfterPrelude, Agent!PreludeMarks \cup Agent!AmountMarks(t, st.order.price))
      BY <1>1, SameTools DEF Agent!ComputeRefund
    <3>3. DOMAIN recording' = DOMAIN recording /\ recording'.classify = recording.classify
      BY <3>2
    <3> QED
      BY <3>1, <3>2, <3>3
  <2> DEFINE s == [st EXCEPT !.refund_type = t, !.refund_amount = RefundAmount(t, st.order.price)]
  <2>2. next = "compute_refund" /\ phase = "running" /\ reply' = reply
    BY <1>1 DEF Agent!ComputeRefund, Agent!At
  <2>3. st' = s /\ steps' = steps + 1 /\ answer' = (IF answer = None THEN None ELSE "spent")
    BY <2>1 DEF Agent!Step
  <2>4. DOMAIN st' = DOMAIN st /\ st'.refund_type = t
    BY <1>0, <2>3
  <2>5. nodes' = Append(nodes, next)
    BY <2>3 DEF Superstep
  <2>6. ASSUME NEW c PROVE ThisRun' = Pass(case, variant, c, t, ThisRun) /\ phase' # "paused"
    <3>1. s = Written(case, c, t, ThisRun) /\ world = Called(case, ThisRun)
      BY <2>2, ThisRunFields DEF Written, Called
    <3> HIDE DEF s
    <3> QED
      BY <2>1, <2>2, <2>5, <3>1, StepIsPass DEF s
  <2> QED
    BY <2>1, <2>2, <2>3, <2>4, <2>5, <2>6 DEF IsPass, GroupNodes, BeforePlan
<1>2. ASSUME NEW s, NEW w, Agent!Step(next, s, w, {}), phase = "running",
             next \in {"request_approval", "issue_refund", "respond"},
             next = "request_approval" => steps = 0 /\ answer \in {"approve", "reject"},
             DOMAIN s = DOMAIN st, s.refund_type = st.refund_type,
             DOMAIN recording' = DOMAIN recording, recording'.classify = recording.classify,
             reply' = IF next = "respond" THEN Rendered(st) ELSE reply,
             w = Called(case, ThisRun), \A c, t : s = Written(case, c, t, ThisRun)
      PROVE  IsPass
  <2>1. st' = s /\ steps' = steps + 1 /\ answer' = (IF answer = None THEN None ELSE "spent")
    BY <1>2 DEF Agent!Step
  <2>2. nodes' = Append(nodes, next)
    BY <2>1 DEF Superstep
  <2>3. ASSUME NEW c, NEW t PROVE ThisRun' = Pass(case, variant, c, t, ThisRun) /\ phase' # "paused"
    BY <1>2, <2>1, <2>2, StepIsPass
  <2> QED
    BY <1>2, <2>1, <2>2, <2>3 DEF IsPass, GroupNodes, BeforePlan
<1>3. ASSUME Agent!RequestApproval PROVE IsPass
  <2> DEFINE s == [st EXCEPT !.approval = answer]
  <2>1. /\ next = "request_approval" /\ phase = "running" /\ answer \in {"approve", "reject"}
        /\ recording' = recording /\ reply' = reply /\ Agent!Step(next, s, world, {})
    BY <1>3 DEF Agent!RequestApproval, Agent!At, Agent!Answers, Agent!Quiet
  <2>2. answer = Given(case) /\ steps = 0
    BY <2>1, NoneAssumption DEF ControlInv
  <2>3. DOMAIN s = DOMAIN st /\ s.refund_type = st.refund_type
    BY <1>0
  <2>4. \A c, t : s = Written(case, c, t, ThisRun)
    BY <2>1, <2>2, ThisRunFields DEF Written
  <2>5. world = Called(case, ThisRun)
    BY <2>1, ThisRunFields DEF Called
  <2> HIDE DEF s
  <2> QED
    BY <1>2, <2>1, <2>2, <2>3, <2>4, <2>5
<1>4. /\ Agent!AfterReread = world /\ Agent!IssuedType = st.refund_type /\ Agent!IssueMarks = {}
  BY DEF Agent!AfterReread, Agent!IssuedType, Agent!IssueMarks, Agent!PreludeMarks
<1>5. ASSUME Agent!IssueRefund PROVE IsPass
  <2> DEFINE s == [st EXCEPT !.refund_id = world.next_refund]
             w == AfterIssue(world, case, st.order_id, st.refund_type, st.refund_amount)
  <2>1. /\ next = "issue_refund" /\ phase = "running" /\ ~Fails(case, "issue_refund")
        /\ recording' = recording /\ reply' = reply
        /\ Agent!Step(next, s, w, {})
    BY <1>4, <1>5, SameTools DEF Agent!IssueRefund, Agent!At, Agent!Quiet
  <2>2. DOMAIN s = DOMAIN st /\ s.refund_type = st.refund_type
    BY <1>0
  <2>3. \A c, t : s = Written(case, c, t, ThisRun)
    BY <2>1, ThisRunFields DEF Written
  <2>4. w = Called(case, ThisRun)
    BY <2>1, ThisRunFields DEF Called
  <2> HIDE DEF s, w
  <2> QED
    BY <1>2, <2>1, <2>2, <2>3, <2>4
<1>6. ASSUME Agent!IssueFails PROVE IsPass
  <2> DEFINE s == [st EXCEPT !.error = "issue_refund"]
             w == AfterIssue(world, case, st.order_id, st.refund_type, st.refund_amount)
  <2>1. /\ next = "issue_refund" /\ phase = "running" /\ Fails(case, "issue_refund")
        /\ recording' = recording /\ reply' = reply
        /\ Agent!Step(next, s, w, {})
    BY <1>4, <1>6, SameTools DEF Agent!IssueFails, Agent!At, Agent!Quiet, Agent!Failed
  <2>2. DOMAIN s = DOMAIN st /\ s.refund_type = st.refund_type
    BY <1>0
  <2>3. \A c, t : s = Written(case, c, t, ThisRun)
    BY <2>1, ThisRunFields DEF Written
  <2>4. w = Called(case, ThisRun)
    BY <2>1, ThisRunFields DEF Called
  <2> HIDE DEF s, w
  <2> QED
    BY <1>2, <2>1, <2>2, <2>3, <2>4
<1>7. ASSUME Agent!Respond PROVE IsPass
  <2>1. Agent!RenderFacts = Rendered(st) /\ Agent!RespondMarks = {}
    BY DEF Agent!RenderFacts, Rendered, Agent!FalseSuccess, Agent!RespondMarks
  <2>2. /\ next = "respond" /\ phase = "running" /\ reply' = Rendered(st)
        /\ recording' = [recording EXCEPT !.text = @ \cup {Rendered(st)}]
        /\ Agent!Step(next, st, world, {})
    BY <1>7, <2>1 DEF Agent!Respond, Agent!At
  <2>3. DOMAIN recording' = DOMAIN recording /\ recording'.classify = recording.classify
    BY <2>2
  <2>4. \A c, t : st = Written(case, c, t, ThisRun)
    BY <2>2, ThisRunFields DEF Written
  <2>5. world = Called(case, ThisRun)
    BY <2>2, ThisRunFields DEF Called
  <2> QED
    BY <1>2, <2>2, <2>3, <2>4, <2>5
<1> QED
  BY <1>1, <1>3, <1>5, <1>6, <1>7

(* A superstep of the group is a pass of its run, a part of a pause, or a failed model call. *)
LEMMA SuperstepKinds ==
  ASSUME ControlInv, Superstep
  PROVE  /\ IsPass \/ IsPause \/ IsCrash
         /\ UNCHANGED <<case, variant>>
<1>0. variant \in ChangesUnderTest /\ steps \in Nat
  BY DEF ControlInv
<1> variant \in {"baseline", "D", "E"}
  BY <1>0 DEF ChangesUnderTest, CHANGES
<1>1. Agent!Next /\ ~Agent!Over /\ (phase \in {"running", "paused"} => next \in GroupNodes)
  BY DEF Superstep, ControlInv
<1>2. CASE \/ Agent!ClassifyRequest \/ Agent!LookupOrderFails \/ Agent!LookupOrderAnswers
           \/ Agent!HistoryFails \/ Agent!HistoryAnswers
           \/ Agent!EligibilityFails \/ Agent!EligibilityAnswers
  <2>1. IsPass
    BY <1>0, <1>2, UpstreamPasses
  <2>2. UNCHANGED <<case, variant>>
    BY <1>2 DEF Agent!ClassifyRequest, Agent!LookupOrderFails, Agent!LookupOrderAnswers,
      Agent!HistoryFails, Agent!HistoryAnswers, Agent!EligibilityFails, Agent!EligibilityAnswers, Agent!Step
  <2> QED
    BY <2>1, <2>2
<1>3. CASE \/ Agent!ComputeRefund \/ Agent!RequestApproval
           \/ Agent!IssueRefund \/ Agent!IssueFails \/ Agent!Respond
  <2>1. IsPass
    BY <1>0, <1>3, DownstreamPasses
  <2>2. UNCHANGED <<case, variant>>
    BY <1>3 DEF Agent!ComputeRefund, Agent!RequestApproval, Agent!IssueRefund, Agent!IssueFails,
      Agent!Respond, Agent!Step
  <2> QED
    BY <2>1, <2>2
<1>4. CASE Agent!ClassifyCrashes \/ Agent!ComputeCrashes \/ Agent!RespondCrashes
  <2>1. /\ phase = "running" /\ phase' = "crashed"
        /\ UNCHANGED <<recording, st, next, answer, steps, case, variant>>
    BY <1>4 DEF Agent!ClassifyCrashes, Agent!ComputeCrashes, Agent!RespondCrashes, Agent!Crash, Agent!At
  <2>3. UNCHANGED <<world, reply>>
    BY <1>4 DEF Agent!ClassifyCrashes, Agent!ComputeCrashes, Agent!RespondCrashes, Agent!Crash, Agent!AfterPrelude
  <2>2. UNCHANGED <<nodes, thread>>
    BY <1>0, <2>1 DEF Superstep
  <2>4. /\ next \in {"classify_request", "compute_refund", "respond"}
        /\ next = "classify_request" => recording.classify = None
    BY <1>4 DEF Agent!ClassifyCrashes, Agent!ComputeCrashes, Agent!RespondCrashes, Agent!At
  <2>5. fired' = fired
    BY <1>4 DEF Agent!ClassifyCrashes, Agent!ComputeCrashes, Agent!RespondCrashes, Agent!Crash,
      Agent!PreludeMarks, Agent!RespondMarks, Agent!FalseSuccess
  <2> QED
    BY <2>1, <2>2, <2>3, <2>4, <2>5 DEF IsCrash
<1>5. CASE Agent!Interrupt
  <2>1. next = "request_approval" /\ phase = "running"
    BY <1>1, <1>5 DEF Agent!Interrupt, Agent!NeedsApproval, Agent!At, GroupNodes, BeforePlan
  <2>2. answer = None
    BY <1>5, <2>1, GivenType DEF ControlInv, Agent!Interrupt, Agent!Answers
  <2>3. phase' = "paused" /\ UNCHANGED <<case, variant, recording, st, world, next, answer, steps, fired, reply>>
    BY <1>5 DEF Agent!Interrupt
  <2>4. UNCHANGED <<nodes, thread>>
    BY <1>0, <2>3 DEF Superstep
  <2> QED
    BY <2>1, <2>2, <2>3, <2>4 DEF IsPause
<1>6. CASE Agent!Resume
  <2>1. /\ phase = "paused" /\ phase' = "running" /\ answer = None /\ answer' = Given(case) /\ steps' = 0
        /\ UNCHANGED <<case, variant, recording, st, world, next, fired, reply>>
    BY <1>6 DEF Agent!Resume, Given
  <2>2. next = "request_approval"
    BY <2>1 DEF ControlInv
  <2>3. UNCHANGED <<nodes, thread>>
    BY <1>0, <2>1 DEF Superstep
  <2> QED
    BY <2>1, <2>2, <2>3 DEF IsPause
<1>7. /\ ~Agent!FetchContext /\ ~Agent!SpeculationFails /\ ~Agent!IssueStopped
  BY DEF Agent!FetchContext, Agent!SpeculationFails, Agent!Speculating, Agent!IssueStopped,
         Agent!RereadFails, Agent!OrderChanged
<1>8. /\ ~Agent!Gate /\ ~Agent!DiscardPlan /\ ~Agent!AuthorizationRefused
      /\ ~Agent!AuthorizeAndIssue /\ ~Agent!Reconcile
  BY <1>1 DEF Agent!Gate, Agent!DiscardPlan, Agent!AuthorizationRefused, Agent!AuthorizeAndIssue,
         Agent!Reconcile, Agent!At, GroupNodes, BeforePlan
<1> QED
  BY <1>1, <1>2, <1>3, <1>4, <1>5, <1>6, <1>7, <1>8 DEF Agent!Next


(* What a pass changes, and where it leads. *)
LEMMA PassWrites ==
  ASSUME ControlInv, IsPass, UNCHANGED <<case, variant>>
  PROVE  /\ next' = Route(variant, next, st') /\ fired' = fired \cup RouteMarks(variant, next, st')
         /\ phase' = IF steps' > RECURSION_LIMIT THEN "crashed" ELSE IF next' = "END" THEN "done" ELSE "running"
         /\ reply' = IF next = "respond" THEN Rendered(st) ELSE reply
         /\ next' \in GroupNodes \cup {"END"}
         /\ next' \in BeforePlan => next \in BeforePlan \ {"compute_refund"}
         /\ next' = "request_approval" => next = "compute_refund"
         /\ next' = "compute_refund" => next = "check_eligibility"
         /\ next = "compute_refund" => next' \in {"request_approval", "issue_refund"}
         /\ next' # "classify_request"
<1> DEFINE c == recording'.classify
           t == st'.refund_type
<1>1. ThisRun' = Pass(case, variant, c, t, ThisRun)
  BY DEF IsPass
<1> HIDE DEF c, t
<1>2. variant \in ChangesUnderTest /\ next \in GroupNodes /\ phase = "running" /\ phase' # "paused"
  BY DEF ControlInv, IsPass
<1>3. /\ ThisRun'.next = next' /\ ThisRun'.st = st' /\ ThisRun'.fired = fired' /\ ThisRun'.reply = reply'
      /\ ThisRun'.phase = phase' /\ ThisRun'.steps = steps'
  BY <1>2 DEF ThisRun, Run
<1>4. /\ ThisRun'.st = Written(case, c, t, ThisRun)
      /\ ThisRun'.next = Route(variant, next, ThisRun'.st)
      /\ ThisRun'.fired = fired \cup RouteMarks(variant, next, ThisRun'.st)
      /\ ThisRun'.phase = IF ThisRun'.steps > RECURSION_LIMIT THEN "crashed"
                          ELSE IF ThisRun'.next = "END" THEN "done" ELSE "running"
      /\ ThisRun'.reply = IF next = "respond" THEN Rendered(st) ELSE reply
  BY <1>1, ThisRunFields DEF Pass, Run
<1>5. /\ next' = Route(variant, next, st') /\ fired' = fired \cup RouteMarks(variant, next, st')
      /\ phase' = (IF steps' > RECURSION_LIMIT THEN "crashed" ELSE IF next' = "END" THEN "done" ELSE "running")
      /\ reply' = IF next = "respond" THEN Rendered(st) ELSE reply
  BY <1>3, <1>4
<1> QED
  BY <1>2, <1>5, RouteOnward DEF GroupNodes, BeforePlan

(* The nodes ahead find what they need after every superstep. *)
LEMMA TypedKept ==
  ASSUME ControlInv, Superstep
  PROVE  Typed(ThisRun)'
<1>1. UNCHANGED <<case, variant>> /\ case \in Case /\ variant \in ChangesUnderTest /\ Typed(ThisRun)
  BY SuperstepKinds, GroupAssumption DEF ControlInv
<1>2. CASE IsPass
  <2>1. \E c \in Agent!Classification : next = "classify_request" => c = recording'.classify
    <3>1. [intent |-> "other", order_id |-> None] \in Agent!Classification
      BY DEF Agent!Classification, Agent!Intents
    <3> QED
      BY <1>2, <3>1 DEF IsPass
  <2>2. PICK c \in Agent!Classification : next = "classify_request" => c = recording'.classify
    BY <2>1
  <2>3. \E t \in RefundTypes : next = "compute_refund" => t = st'.refund_type
    <3>1. "full" \in RefundTypes
      BY DEF RefundTypes
    <3> QED
      BY <1>2, <3>1 DEF IsPass
  <2>4. PICK t \in RefundTypes : next = "compute_refund" => t = st'.refund_type
    BY <2>3
  <2>5. ThisRun' = Pass(case, variant, c, t, ThisRun)
    BY <1>2, <2>2, <2>4 DEF IsPass
  <2>6. c \in [intent: Intents, order_id: OrderIds \cup {None}]
    BY DEF Agent!Classification, Agent!Intents, Intents
  <2>7. ThisRun.next \in GroupNodes
    BY <1>2, ThisRunFields DEF IsPass
  <2>8. Typed(Pass(case, variant, c, t, ThisRun))
    BY <1>1, <2>6, <2>7, PassTyped
  <2> QED
    BY <2>5, <2>8 DEF Typed
<1>3. CASE IsPause \/ IsCrash
  <2>1. ThisRun'.st = ThisRun.st /\ ThisRun'.world = ThisRun.world /\ ThisRun'.next = ThisRun.next
    BY <1>3 DEF IsPause, IsCrash, ThisRun, Run
  <2> QED
    BY <1>1, <2>1 DEF Typed
<1> QED
  BY <1>2, <1>3, SuperstepKinds

(* The control of the run in progress is kept by its supersteps. *)
LEMMA ControlKept ==
  ASSUME ControlInv, Superstep
  PROVE  ControlInv'
<1>1. Arm' = Arm /\ UNCHANGED <<case, variant>> /\ Typed(ThisRun)'
  BY SuperstepKinds, TypedKept DEF Superstep, Arm
<1>2. CASE IsPass
  <2>1. /\ next' \in GroupNodes \cup {"END"}
        /\ next' \in BeforePlan => next \in BeforePlan \ {"compute_refund"}
        /\ next' = "request_approval" => next = "compute_refund"
        /\ next' # "classify_request"
        /\ phase' = IF steps' > RECURSION_LIMIT THEN "crashed" ELSE IF next' = "END" THEN "done" ELSE "running"
    BY <1>1, <1>2, PassWrites
  <2>2. steps' \in Nat /\ (phase' = "running" => next' \in GroupNodes /\ steps' <= RECURSION_LIMIT)
    BY <1>2, <2>1, GroupAssumption DEF ControlInv, IsPass
  <2>3. (next' \in BeforePlan => answer' = None) /\ (next' = "request_approval" => answer' = None)
    BY <1>2, <2>1 DEF ControlInv, IsPass, BeforePlan
  <2>4. ~Forking(Arm.arm) => recording'.classify \in Agent!Classification
    BY <1>2 DEF ControlInv, IsPass
  <2>5. st'.refund_type \in RefundTypes \cup {None} /\ DOMAIN st' = DOMAIN st /\ DOMAIN recording' = DOMAIN recording
    BY <1>2 DEF ControlInv, IsPass
  <2>6. Forking(Arm.arm) => st'.refund_type # None
    BY <1>2, NoneAssumption DEF ControlInv, IsPass, ModelFailed
  <2>7. (next' \in BeforePlan => st'.refund_type = None)
        /\ (Forking(Arm.arm) => next' \notin BeforePlan \ {"compute_refund"})
    BY <1>2, <2>1 DEF ControlInv, IsPass
  <2>8. nodes' \in Seq(GroupNodes)
    BY <1>2 DEF ControlInv, IsPass
  <2> QED
    BY <1>1, <2>1, <2>2, <2>3, <2>4, <2>5, <2>6, <2>7, <2>8 DEF ControlInv
<1>3. CASE IsPause
  <2>1. /\ next' = "request_approval" /\ next = "request_approval" /\ st' = st /\ recording' = recording
        /\ nodes' = nodes /\ phase \in {"running", "paused"} /\ phase' \in {"running", "paused"} /\ steps' \in Nat
        /\ steps' <= RECURSION_LIMIT
        /\ answer' = None \/ (answer' = Given(case) /\ steps' = 0)
        /\ phase' = "paused" => answer' = None
    BY <1>3, GroupAssumption DEF ControlInv, IsPause
  <2>2. ~ModelFailed /\ ~ModelFailed'
    BY <2>1 DEF ModelFailed
  <2> QED
    BY <1>1, <2>1, <2>2 DEF ControlInv, BeforePlan, GroupNodes
<1>4. CASE IsCrash
  <2>1. ModelFailed'
    BY <1>4 DEF ControlInv, IsCrash, ModelFailed
  <2> QED
    BY <1>1, <1>4, <2>1 DEF ControlInv, IsCrash
<1> QED
  BY <1>2, <1>3, <1>4, SuperstepKinds

(* A pass is the superstep that the function takes for every variant that routes alike there. *)
LEMMA PassOf ==
  ASSUME ControlInv, IsPass, UNCHANGED <<case, variant>>, Arm' = Arm,
         NEW v \in ChangesUnderTest, NEW c, NEW t, MayDraw(c, t)',
         Route(v, next, st') = next', RouteMarks(v, next, st') = RouteMarks(variant, next, st')
  PROVE  MayDraw(c, t) /\ ThisRun' = Pass(case, v, c, t, ThisRun)
<1>1. /\ next' = Route(variant, next, st') /\ next' # "classify_request" /\ variant \in ChangesUnderTest
  BY PassWrites DEF ControlInv
<1>2. next = "classify_request" => c = recording'.classify
  BY <1>1 DEF ControlInv, MayDraw, BeforePlan
<1>3. next = "compute_refund" => t = st'.refund_type
  BY NoneAssumption DEF IsPass, MayDraw
<1>4. ThisRun' = Pass(case, variant, c, t, ThisRun)
  BY <1>2, <1>3 DEF IsPass
<1>5. MayDraw(c, t)
  BY <1>1 DEF ControlInv, IsPass, MayDraw, BeforePlan
<1>6. st' = Written(case, c, t, ThisRun)
  <2>1. ThisRun'.st = st'
    BY DEF IsPass, ThisRun, Run
  <2> QED
    BY <1>4, <2>1 DEF Pass, Run
<1>7. Pass(case, v, c, t, ThisRun) = Pass(case, variant, c, t, ThisRun)
  BY <1>1, <1>6, ThisRunFields DEF Pass
<1> QED
  BY <1>4, <1>5, <1>7

(* A run in progress is still on its way after a superstep: a pause abandons the superstep it       *)
(* starts, and a pass is the superstep the function takes.                                          *)
LEMMA FinishKept ==
  ASSUME ControlInv, Superstep, NEW v \in ChangesUnderTest, NEW c, NEW t,
         MayDraw(c, t)', ~ModelFailed',
         IsPass => /\ Route(v, next, st') = next'
                   /\ RouteMarks(v, next, st') = RouteMarks(variant, next, st')
  PROVE  /\ ~ModelFailed /\ MayDraw(c, t)
         /\ Finish(case, v, c, t, ThisRun') = Finish(case, v, c, t, ThisRun)
<1>1. Arm' = Arm /\ UNCHANGED <<case, variant>>
  BY SuperstepKinds DEF Superstep, Arm
<1>2. ~ModelFailed
  BY DEF Superstep, Agent!Over, ModelFailed
<1>3. ThisRun.phase = "running" /\ ThisRun.next \in GroupNodes
  BY ThisRunFields DEF Superstep, Agent!Over, ControlInv
<1>4. CASE IsPass
  <2>1. MayDraw(c, t) /\ ThisRun' = Pass(case, v, c, t, ThisRun)
    BY <1>1, <1>4, PassOf
  <2> QED
    BY <1>2, <1>3, <2>1, FinishPass
<1>5. CASE IsPause
  <2>1. MayDraw(c, t)
    BY <1>1, <1>5 DEF IsPause, MayDraw
  <2>2. /\ ThisRun'.st = st /\ ThisRun'.world = world /\ ThisRun'.next = next /\ ThisRun'.phase = "running"
        /\ ThisRun'.fired = fired /\ ThisRun'.reply = reply /\ ThisRun'.nodes = nodes
    BY <1>5 DEF IsPause, ThisRun, Run
  <2>3. next = "request_approval"
    BY <1>5 DEF IsPause
  <2> DEFINE r == ThisRun
             q == ThisRun'
  <2>4. /\ r.st = q.st /\ r.world = q.world /\ r.next = q.next /\ r.next = "request_approval"
        /\ r.fired = q.fired /\ r.reply = q.reply /\ r.nodes = q.nodes /\ r.phase = "running"
        /\ q.phase = "running" /\ q.next \in GroupNodes /\ r.next \in GroupNodes
    BY <1>3, <2>2, <2>3, ThisRunFields
  <2> HIDE DEF r, q
  <2>5. Written(case, c, t, q) = Written(case, c, t, r) /\ Called(case, q) = Called(case, r)
    BY <2>4 DEF Written, Called
  <2>6. Pass(case, v, c, t, q) = Pass(case, v, c, t, r)
    BY <2>4, <2>5 DEF Pass
  <2>7. Finish(case, v, c, t, q) = Finish(case, v, c, t, r)
    <3>1. \A x : x.phase = "running" /\ x.next \in GroupNodes =>
                  Finish(case, v, c, t, Pass(case, v, c, t, x)) = Finish(case, v, c, t, x)
      BY FinishPass
    <3> QED
      BY <2>4, <2>6, <3>1
  <2> QED
    BY <1>2, <2>1, <2>7 DEF q, r
<1>6. CASE IsCrash
  BY <1>6 DEF ControlInv, IsCrash, ModelFailed
<1> QED
  BY <1>4, <1>5, <1>6, SuperstepKinds


-----------------------------------------------------------------------------
(* What a fork reads of the past is the same after a superstep: the thread only grows. *)
LEMMA PastStays ==
  ASSUME ThreadInv, Superstep, case' = case
  PROVE  /\ History' = History /\ ForkPoint' = ForkPoint /\ rows' = rows /\ recorded' = recorded
         /\ Base' = Base /\ \A arm : Origin(arm)' = Origin(arm)
<1>1. PICK S : thread \in Seq(S)
  BY DEF ThreadInv
<1>2. rows' = rows /\ recorded' = recorded /\ recorded \in 0..Len(thread)
  BY DEF Superstep, ThreadInv
<1>3. SubSeq(thread', 1, recorded) = SubSeq(thread, 1, recorded)
  <2>1. CASE thread' = thread
    BY <2>1
  <2>2. CASE thread' = Append(thread, Checkpoint(st', next', Len(nodes'), world'))
    <3> DEFINE p == Checkpoint(st', next', Len(nodes'), world')
    <3>1. thread' \in Seq(S \cup {p}) /\ thread \in Seq(S \cup {p}) /\ Len(thread') = Len(thread) + 1
      BY <1>1, <2>2
    <3>2. \A i \in 1..recorded : thread'[i] = thread[i]
      BY <1>1, <1>2, <2>2
    <3> HIDE DEF p
    <3> QED
      BY <1>2, <3>1, <3>2
  <2> QED
    BY <2>1, <2>2 DEF Superstep
<1>4. History' = History
  BY <1>2, <1>3 DEF History
<1>5. ForkPoint' = ForkPoint /\ Base' = Base
  BY <1>2, <1>4 DEF ForkPoint, Base
<1> QED
  BY <1>2, <1>4, <1>5 DEF Origin

(* A run stays on the way it is on. *)
LEMMA OnItsWayKept ==
  ASSUME ThreadInv, ControlInv, OnItsWay, Superstep
  PROVE  OnItsWay'
<1>1. Arm' = Arm /\ UNCHANGED <<case, variant>> /\ variant \in ChangesUnderTest
  BY SuperstepKinds DEF Superstep, Arm, ControlInv
<1>2. Origin(Arm.arm)' = Origin(Arm.arm)
  BY <1>1, PastStays
<1>3. IsPass => next' = Route(variant, next, st')
  BY <1>1, PassWrites
<1> SUFFICES ASSUME ~ModelFailed', NEW c \in Agent!Classification, NEW t \in RefundTypes, MayDraw(c, t)'
             PROVE  Finish(case, variant, c, t, ThisRun') = Finish(case, variant, c, t, Origin(Arm.arm))
  BY <1>1, <1>2 DEF OnItsWay
<1>4. ~ModelFailed /\ MayDraw(c, t) /\ Finish(case, variant, c, t, ThisRun') = Finish(case, variant, c, t, ThisRun)
  BY <1>1, <1>3, FinishKept
<1> QED
  BY <1>4 DEF OnItsWay

(* Above the plan every change routes as a baseline that goes on does. *)
LEMMA UpstreamAgrees ==
  ASSUME NEW v \in ChangesUnderTest, NEW node \in BeforePlan \ {"compute_refund"}, NEW s,
         Route("baseline", node, s) \in BeforePlan
  PROVE  Route(v, node, s) = Route("baseline", node, s)
<1>1. v \in {"baseline", "D", "E"}
  BY DEF ChangesUnderTest, CHANGES
<1>2. CASE node \in {"classify_request", "lookup_order", "get_refund_history"}
  BY <1>1, <1>2 DEF Route, AfterClassify, AfterLookupNode, AfterHistory
<1>3. CASE node = "check_eligibility"
  BY <1>1, <1>3 DEF Route, AfterEligibility, EntersFastPath, BeforePlan
<1> QED
  BY <1>2, <1>3 DEF BeforePlan

(* A change that routes as the baseline does leaves no marker. *)
LEMMA MarksAgree ==
  ASSUME NEW v \in ChangesUnderTest, NEW node \in GroupNodes, NEW s,
         Route(v, node, s) = Route("baseline", node, s)
  PROVE  RouteMarks(v, node, s) = {}
<1>1. v \in {"baseline", "D", "E"}
  BY DEF ChangesUnderTest, CHANGES
<1>2. ~(node = "check_eligibility" /\ EntersFastPath(v, s))
  <2> SUFFICES ASSUME node = "check_eligibility", EntersFastPath(v, s) PROVE FALSE
    OBVIOUS
  <2>1. Route("baseline", node, s) = "respond"
    BY DEF Route, AfterEligibility, EntersFastPath
  <2>2. Route(v, node, s) = "compute_refund"
    BY <1>1 DEF Route, AfterEligibility, EntersFastPath
  <2> QED
    BY <2>1, <2>2
<1> QED
  BY <1>1, <1>2 DEF RouteMarks

(* One more checkpoint routes like the change if its last edge does. *)
LEMMA CheckRoutingAppend ==
  ASSUME NEW S, NEW h \in Seq(S), h # << >>, NEW p, NEW v
  PROVE  CheckRouting(Append(h, p), v, None)
           <=> /\ CheckRouting(h, v, None)
               /\ Last(h).next \in Routed => Route(v, Last(h).next, p.st) = p.next
<1> DEFINE g == Append(h, p)
<1>1. Len(h) \in Nat /\ Len(h) >= 1 /\ Len(g) = Len(h) + 1 /\ Last(h) = h[Len(h)]
  BY DEF Last
<1>2. g[Len(h) + 1] = p /\ \A i \in 1..Len(h) : g[i] = h[i]
  BY <1>1
<1> HIDE DEF g
<1>3. CheckRouting(g, v, None) <=> \A i \in 1..Len(h) : g[i].next \in Routed => Route(v, g[i].next, g[i + 1].st) = g[i + 1].next
  BY <1>1 DEF CheckRouting
<1>4. CheckRouting(h, v, None) <=> \A i \in 1..Len(h) - 1 : h[i].next \in Routed => Route(v, h[i].next, h[i + 1].st) = h[i + 1].next
  BY DEF CheckRouting
<1>5. \A i \in 1..Len(h) - 1 : i \in 1..Len(h) /\ i + 1 \in 1..Len(h)
  BY <1>1
<1>6. \A i \in 1..Len(h) : i = Len(h) \/ i \in 1..Len(h) - 1
  BY <1>1
<1> QED
  BY <1>1, <1>2, <1>3, <1>4, <1>5, <1>6 DEF g


(* The baseline's thread, as the baseline takes a superstep. *)
LEMMA BaselinePass ==
  ASSUME ThreadInv, ControlInv, ControlInv', BaselineInv, Superstep, Arm.arm = "baseline", IsPass
  PROVE  BaselineInv'
<1>1. /\ Arm' = Arm /\ UNCHANGED <<case, variant, recorded, rows>> /\ variant = "baseline"
      /\ ~Forking(Arm.arm)
  <2>1. Arm.change = "baseline"
    BY DEF ControlInv
  <2> QED
    BY <2>1, SuperstepKinds DEF Superstep, Arm, ControlInv, Forking
<1> DEFINE p == Checkpoint(st', next', Len(nodes'), world')
<1>2. PICK S : thread \in Seq(S)
  BY DEF ThreadInv
<1>3. thread' = Append(thread, p)
  BY <1>1 DEF Superstep, IsPass
<1>4. p.st = st' /\ p.next = next' /\ p.step = Len(nodes') /\ p.snapshot = world'
  BY DEF Checkpoint
<1> HIDE DEF p
<1>5. /\ Len(thread) \in Nat /\ Len(thread) >= 1 /\ Last(thread) = thread[Len(thread)] /\ Last(thread).next = next
      /\ thread' # << >> /\ Last(thread') = p
      /\ DOMAIN thread = 1..Len(thread) /\ DOMAIN thread' = 1..Len(thread) + 1
      /\ thread'[Len(thread) + 1] = p /\ \A i \in 1..Len(thread) : thread'[i] = thread[i]
  BY <1>2, <1>3 DEF BaselineInv, Last
<1>6. /\ next' = Route("baseline", next, st') /\ fired' = fired \cup RouteMarks("baseline", next, st')
      /\ phase' = IF steps' > RECURSION_LIMIT THEN "crashed" ELSE IF next' = "END" THEN "done" ELSE "running"
      /\ reply' = IF next = "respond" THEN Rendered(st) ELSE reply
      /\ next' \in BeforePlan => next \in BeforePlan \ {"compute_refund"}
      /\ next' # "classify_request" /\ next \in GroupNodes /\ phase = "running" /\ steps' = steps + 1
      /\ nodes' = Append(nodes, next)
  BY <1>1, PassWrites DEF IsPass
<1>7. /\ nodes \in Seq(GroupNodes) /\ Len(nodes) \in Nat /\ Len(nodes') = Len(nodes) + 1
      /\ \A n \in 0..Len(nodes) : SubSeq(nodes', 1, n) = SubSeq(nodes, 1, n)
  <2>1. nodes \in Seq(GroupNodes)
    BY DEF ControlInv
  <2> QED
    BY <1>6, <2>1
<1>8. \A v \in ChangesUnderTest :
        CheckRouting(thread', v, None) <=> CheckRouting(thread, v, None) /\ Route(v, next, st') = next'
  <2> SUFFICES ASSUME NEW v \in ChangesUnderTest
               PROVE  CheckRouting(thread', v, None) <=> CheckRouting(thread, v, None) /\ Route(v, next, st') = next'
    OBVIOUS
  <2>1. next \notin Routed => Route(v, next, st') = next'
    <3>1. "baseline" \in ChangesUnderTest
      BY DEF ChangesUnderTest
    <3> QED
      BY <1>6, <3>1, RouteOnward DEF Routed, GroupNodes, BeforePlan
  <2> QED
    BY <1>2, <1>3, <1>4, <1>5, <2>1, CheckRoutingAppend
<1>9. \A v \in ChangesUnderTest : Route(v, next, st') = next' =>
        RouteMarks(v, next, st') = {} /\ RouteMarks(v, next, st') = RouteMarks("baseline", next, st')
  <2>1. "baseline" \in ChangesUnderTest
    BY DEF ChangesUnderTest
  <2> QED
    BY <1>6, <2>1, MarksAgree
<1>10. next' \in BeforePlan => \A v \in ChangesUnderTest : Route(v, next, st') = next' /\ CheckRouting(thread', v, None)
  BY <1>6, <1>8, UpstreamAgrees DEF BaselineInv
<1>11. next' \in BeforePlan =>
         /\ steps' = Len(nodes') + 1 /\ fired' = {} /\ reply' = reply /\ reply = None
  <2> SUFFICES ASSUME next' \in BeforePlan
               PROVE  steps' = Len(nodes') + 1 /\ fired' = {} /\ reply' = reply /\ reply = None
    OBVIOUS
  <2>1. next \in BeforePlan \ {"compute_refund"} /\ Route("baseline", next, st') = next'
    BY <1>6
  <2>2. RouteMarks("baseline", next, st') = {} /\ next # "respond"
    BY <1>9, <2>1 DEF BeforePlan, ChangesUnderTest
  <2>3. steps = Len(nodes) + 1 /\ fired = {} /\ reply = None
    BY <1>6, <2>1 DEF BaselineInv
  <2> QED
    BY <1>6, <1>7, <2>2, <2>3
<1>12. ASSUME next' \in BeforePlan, NEW v \in ChangesUnderTest, NEW c \in Agent!Classification,
              NEW t \in RefundTypes, MayDraw(c, t)'
       PROVE  ToPlan(case, v, c, t, ThisRun') = ToPlan(case, v, c, t, Fresh(case))
  <2>1. /\ next \in BeforePlan \ {"compute_refund"} /\ Route(v, next, st') = next'
        /\ RouteMarks(v, next, st') = RouteMarks(variant, next, st')
    BY <1>1, <1>6, <1>9, <1>10, <1>12
  <2>2. MayDraw(c, t) /\ ThisRun' = Pass(case, v, c, t, ThisRun)
    BY <1>1, <1>12, <2>1, PassOf
  <2>3. ThisRun.phase = "running" /\ ThisRun.next = next
    BY <1>6, ThisRunFields
  <2>4. ToPlan(case, v, c, t, Pass(case, v, c, t, ThisRun)) = ToPlan(case, v, c, t, ThisRun)
    BY <2>1, <2>3, ToPlanPass
  <2>5. ToPlan(case, v, c, t, ThisRun) = ToPlan(case, v, c, t, Fresh(case))
    BY <1>6, <2>1, <2>2 DEF BaselineInv
  <2> QED
    BY <2>2, <2>4, <2>5
<1>13. ASSUME ~ModelFailed', NEW v \in ChangesUnderTest, NEW c \in Agent!Classification,
              NEW t \in RefundTypes, CheckRouting(thread', v, None), MayDraw(c, t)'
       PROVE  Finish(case, v, c, t, ThisRun') = Finish(case, v, c, t, Fresh(case))
  <2>1. CheckRouting(thread, v, None) /\ Route(v, next, st') = next'
    BY <1>8, <1>13
  <2>2. /\ ~ModelFailed /\ MayDraw(c, t)
        /\ Finish(case, v, c, t, ThisRun') = Finish(case, v, c, t, ThisRun)
    BY <1>1, <1>9, <1>13, <2>1, FinishKept
  <2> QED
    BY <2>1, <2>2 DEF BaselineInv
<1>14. st'.refund_type # None => \E i \in DOMAIN thread' : thread'[i].next = "compute_refund"
  <2>1. CASE st.refund_type # None
    <3>1. PICK i \in DOMAIN thread : thread[i].next = "compute_refund"
      BY <2>1 DEF BaselineInv
    <3> QED
      BY <1>5, <3>1
  <2>2. CASE st.refund_type = None
    BY <1>5, <2>2 DEF IsPass
  <2> QED
    BY <2>1, <2>2
<1>15. next' \in BeforePlan \ {"compute_refund"} => \A i \in DOMAIN thread' : thread'[i].next # "compute_refund"
  <2>1. \A i \in 1..Len(thread) + 1 : i = Len(thread) + 1 \/ i \in 1..Len(thread)
    BY <1>5
  <2> QED
    BY <1>4, <1>5, <1>6, <2>1 DEF BaselineInv
<1>16. ASSUME NEW i \in DOMAIN thread', phase' # "crashed", thread'[i].next = "compute_refund"
       PROVE  StopsAtPlan(thread'[i], nodes', recording'.classify)
  <2>1. CASE i \in 1..Len(thread)
    <3>1. thread'[i] = thread[i] /\ i \in DOMAIN thread
      BY <1>5, <2>1
    <3>2. StopsAtPlan(thread[i], nodes, recording.classify)
      BY <1>6, <1>16, <3>1 DEF BaselineInv
    <3>3. next \notin BeforePlan \ {"compute_refund"}
      BY <1>16, <3>1 DEF BaselineInv
    <3>4. recording'.classify = recording.classify
      BY <3>3 DEF IsPass, BeforePlan
    <3>5. thread[i].step \in 0..Len(nodes) /\ thread[i].step \in 0..Len(nodes')
      BY <1>7, <3>2 DEF StopsAtPlan
    <3>6. Forked(thread[i], thread[i].snapshot, nodes') = Forked(thread[i], thread[i].snapshot, nodes)
      BY <1>7, <3>5 DEF Forked
    <3> QED
      BY <3>1, <3>2, <3>4, <3>5, <3>6 DEF StopsAtPlan
  <2>2. CASE i = Len(thread) + 1
    <3>1. thread'[i] = p /\ next' = "compute_refund" /\ phase' = "running"
      BY <1>4, <1>5, <1>6, <1>16, <2>2
    <3>2. recording'.classify \in Agent!Classification /\ steps' <= RECURSION_LIMIT
          /\ DOMAIN st' = DOMAIN EmptyState /\ st'.refund_type = None /\ nodes' \in Seq(GroupNodes)
      BY <1>1, <3>1 DEF ControlInv, BeforePlan
    <3>3. p.step \in 0..Len(nodes') /\ p.step < RECURSION_LIMIT
      BY <1>4, <1>7, <1>11, <3>1, <3>2, GroupAssumption DEF BeforePlan
    <3>4. Forked(p, p.snapshot, nodes') = ThisRun'
      <4>1. SubSeq(nodes', 1, Len(nodes')) = nodes'
        BY <3>2
      <4>2. Forked(p, p.snapshot, nodes') = Run(st', world', next', "running", steps', {}, None, nodes')
        BY <1>4, <1>11, <3>1, <4>1 DEF Forked, BeforePlan
      <4> QED
        BY <1>11, <3>1, <4>2 DEF ThisRun, BeforePlan
    <3>5. PICK c \in Agent!Classification : c = recording'.classify
      BY <3>2
    <3>6. ASSUME NEW v \in ChangesUnderTest, NEW t \in RefundTypes
          PROVE  ThisRun' = ToPlan(case, v, c, t, Fresh(case))
      <4>1. MayDraw(c, t)'
        BY <3>2, <3>5 DEF MayDraw
      <4>2. ToPlan(case, v, c, t, ThisRun') = ToPlan(case, v, c, t, Fresh(case))
        BY <1>12, <3>1, <4>1 DEF BeforePlan
      <4>3. ThisRun'.next = "compute_refund"
        BY <3>1 DEF ThisRun, Run
      <4>4. \A x : x.next = "compute_refund" => ToPlan(case, v, c, t, x) = x
        BY AtThePlan
      <4> QED
        BY <4>2, <4>3, <4>4
    <3>7. p.st.refund_type = None /\ Typed(Forked(p, p.snapshot, nodes'))
      <4>1. Typed(ThisRun')
        BY DEF ControlInv, Typed
      <4> QED
        BY <1>4, <3>2, <3>4, <4>1
    <3> QED
      BY <3>1, <3>3, <3>4, <3>5, <3>6, <3>7 DEF StopsAtPlan
  <2> QED
    BY <1>5, <2>1, <2>2
<1> QED
  BY <1>1, <1>4, <1>5, <1>10, <1>11, <1>12, <1>13, <1>14, <1>15, <1>16 DEF BaselineInv, StopsAtPlan


(* A superstep of the baseline keeps what is known of its thread and its way. *)
LEMMA BaselineKept ==
  ASSUME ThreadInv, ControlInv, ControlInv', BaselineInv, Superstep, Arm.arm = "baseline"
  PROVE  BaselineInv'
<1>1. Arm' = Arm /\ UNCHANGED <<case, variant, recorded, rows>> /\ variant = "baseline"
  BY SuperstepKinds DEF Superstep, Arm, ControlInv
<1>2. CASE IsPass
  BY <1>2, BaselinePass
<1>3. CASE IsPause
  <2>1. next' = next /\ next \notin BeforePlan /\ UNCHANGED <<recording, st, nodes, thread>> /\ phase # "crashed"
    BY <1>3 DEF IsPause, BeforePlan
  <2>2. ASSUME ~ModelFailed', NEW v \in ChangesUnderTest, NEW c \in Agent!Classification,
               NEW t \in RefundTypes, CheckRouting(thread', v, None), MayDraw(c, t)'
        PROVE  Finish(case, v, c, t, ThisRun') = Finish(case, v, c, t, Fresh(case))
    <3>1. ~IsPass
      BY <1>3, <2>1 DEF IsPass, IsPause, ControlInv
    <3>2. /\ ~ModelFailed /\ MayDraw(c, t)
          /\ Finish(case, v, c, t, ThisRun') = Finish(case, v, c, t, ThisRun)
      BY <2>2, <3>1, FinishKept
    <3> QED
      BY <2>1, <2>2, <3>2 DEF BaselineInv
  <2> QED
    BY <1>1, <2>1, <2>2 DEF BaselineInv, StopsAtPlan
<1>4. CASE IsCrash
  <2>1. ModelFailed' /\ phase' = "crashed" /\ UNCHANGED <<st, next, nodes, thread>>
    BY <1>4 DEF IsCrash, ModelFailed, ControlInv
  <2> QED
    BY <1>1, <2>1 DEF BaselineInv
<1> QED
  BY <1>2, <1>3, <1>4, SuperstepKinds

(* A superstep of any arm leaves the function invariant as it is. *)
LEMMA SuperstepFunction ==
  ASSUME ThreadInv, FunctionInv, Superstep
  PROVE  FunctionInv'
<1>1. queue # << >> /\ queue' = queue /\ Arm' = Arm /\ cache' = cache
  BY DEF Superstep, Arm
<1>2. ControlInv /\ OnItsWay
  BY <1>1 DEF FunctionInv
<1>3. ControlInv' /\ OnItsWay'
  BY <1>2, ControlKept, OnItsWayKept
<1>4. UNCHANGED <<case, variant>>
  BY <1>2, SuperstepKinds
<1>5. /\ History' = History /\ ForkPoint' = ForkPoint /\ rows' = rows /\ recorded' = recorded
      /\ Base' = Base /\ \A arm : Origin(arm)' = Origin(arm)
  BY <1>4, PastStays
<1>6. Arm.arm = "baseline" => BaselineInv'
  BY <1>1, <1>2, <1>3, BaselineKept DEF FunctionInv
<1>7. Arm.arm # "baseline" => HistoryInv'
  BY <1>1, <1>4, <1>5 DEF FunctionInv, HistoryInv, StopsAtPlan
<1>8. \A i \in DOMAIN rows : RowInv(rows[i])'
  BY <1>4, <1>5 DEF FunctionInv, RowInv
<1>9. CacheInv'
  BY <1>1 DEF FunctionInv, CacheInv
<1>10. Forking(Arm.arm) => ForkPoint' # None
  BY <1>1, <1>5 DEF FunctionInv
<1>11. thread' \in Seq(Checkpoints)
  <2> DEFINE p == Checkpoint(st', next', Len(nodes'), world')
  <2>1. thread \in Seq(Checkpoints)
    BY DEF FunctionInv
  <2>2. CASE IsPass
    <3>1. next' \in GroupNodes \cup {"END"}
      BY <1>2, <1>4, <2>2, PassWrites
    <3>2. st' \in RefundState /\ world' \in World
      <4>1. ThisRun'.st = st' /\ ThisRun'.world = world'
        BY DEF ThisRun, Run
      <4> QED
        BY <1>3, <4>1 DEF ControlInv, Typed
    <3>3. Len(nodes') \in Int
      <4>1. nodes' \in Seq(GroupNodes)
        BY <1>3 DEF ControlInv
      <4> QED
        BY <4>1
    <3>4. p \in Checkpoints
      BY <3>1, <3>2, <3>3 DEF Checkpoint, Checkpoints, GroupNodes, BeforePlan, Nodes
    <3>5. thread' = thread \/ thread' = Append(thread, p)
      BY <2>2 DEF Superstep, IsPass
    <3> HIDE DEF p
    <3> QED
      BY <2>1, <3>4, <3>5
  <2>3. CASE IsPause \/ IsCrash
    BY <2>1, <2>3 DEF IsPause, IsCrash
  <2> QED
    BY <1>2, <2>2, <2>3, SuperstepKinds
<1>12. rows' \in Seq(Range(rows'))
  BY <1>5 DEF FunctionInv
<1> QED
  BY <1>1, <1>3, <1>5, <1>6, <1>7, <1>8, <1>9, <1>10, <1>11, <1>12 DEF FunctionInv


-----------------------------------------------------------------------------
(* A fork point is a checkpoint of the node, and there is none only if no checkpoint is of it. *)
LEMMA ForkPointFacts ==
  ASSUME NEW hist \in Seq(Checkpoints), NEW node
  PROVE  /\ FindForkPoint(hist, node) = None => \A i \in DOMAIN hist : hist[i].next # node
         /\ FindForkPoint(hist, node) # None =>
              \E i \in DOMAIN hist : hist[i].next = node /\ FindForkPoint(hist, node) = hist[i]
<1> DEFINE about == {i \in DOMAIN hist : hist[i].next = node}
           first == CHOOSE i \in about : \A j \in about : i <= j
<1>1. FindForkPoint(hist, node) = IF about = {} THEN None ELSE hist[first]
  BY DEF FindForkPoint
<1>2. about # {} => first \in about
  <2>1. about \subseteq Nat
    OBVIOUS
  <2> HIDE DEF about
  <2>2. about # {} => \E i \in about : \A j \in about : i <= j
    BY <2>1, MinNat
  <2> QED
    BY <2>2
<1>3. \A i \in DOMAIN hist : hist[i] # None
  BY CheckpointAssumption
<1> HIDE DEF first
<1> QED
  BY <1>1, <1>2, <1>3

(* Every change a group runs is forked at the node that plans the refund. *)
LEMMA PlanPoint ==
  \A c \in ChangesUnderTest : CHANGED_NODE[c] = "compute_refund"
BY DEF CHANGED_NODE

(* The row of the arm that has ended reports the end of its function. *)
LEMMA EndedRow ==
  ASSUME FunctionInv, queue # << >>, Agent!Over, NEW prefix, NEW ok,
         Row(prefix, ok).ended # "model_failed"
  PROVE  LET row == Row(prefix, ok)
         IN /\ ~ModelFailed /\ row.world = world /\ row.classify = recording.classify /\ row.planned = st.refund_type
            /\ ~Forking(Arm.arm) => row.classify \in Agent!Classification
            /\ row.planned \in RefundTypes \/ (row.planned = None /\ ~Forking(Arm.arm))
            /\ Reports(row, ThisRun)
            /\ \A c \in Agent!Classification, t \in RefundTypes :
                 (Forking(Arm.arm) \/ row.classify = c) /\ row.planned \in {None, t}
                 => /\ MayDraw(c, t)
                    /\ Finish(case, Arm.change, c, t, Origin(Arm.arm)) = ThisRun
<1> DEFINE row == Row(prefix, ok)
<1>1. /\ row.ended = Ending /\ row.classify = recording.classify /\ row.planned = st.refund_type
      /\ row.world = world /\ row.reply = reply /\ row.fired = fired
      /\ row.nodes = IF phase = "done" THEN nodes ELSE prefix
  BY DEF Row
<1>2. ControlInv /\ OnItsWay /\ phase \in {"done", "crashed"}
  BY DEF FunctionInv, Agent!Over
<1>3. ~ModelFailed /\ Ending = IF phase = "done" THEN "done" ELSE "out_of_steps"
  <2>1. steps \in Nat /\ RECURSION_LIMIT \in Nat
    BY <1>2, GroupAssumption DEF ControlInv
  <2> QED
    BY <1>1, <1>2, <2>1 DEF Ending, ModelFailed
<1>4. next # "classify_request" /\ (Forking(Arm.arm) => st.refund_type # None)
      /\ st.refund_type \in RefundTypes \cup {None}
  BY <1>2, <1>3 DEF ControlInv
<1>5. ~Forking(Arm.arm) => recording.classify \in Agent!Classification
  BY <1>2, <1>4 DEF ControlInv
<1>6. Reports(row, ThisRun)
  BY <1>1, <1>2, <1>3, ThisRunFields DEF Reports
<1>7. ASSUME NEW c \in Agent!Classification, NEW t \in RefundTypes,
             Forking(Arm.arm) \/ recording.classify = c, st.refund_type \in {None, t}
      PROVE  MayDraw(c, t) /\ Finish(case, Arm.change, c, t, Origin(Arm.arm)) = ThisRun
  <2>1. MayDraw(c, t)
    BY <1>7 DEF MayDraw
  <2>2. Finish(case, variant, c, t, ThisRun) = Finish(case, variant, c, t, Origin(Arm.arm))
    BY <1>2, <1>3, <2>1 DEF OnItsWay
  <2>3. ThisRun.phase # "running"
    BY <1>2, ThisRunFields
  <2>4. Finish(case, variant, c, t, ThisRun) = ThisRun /\ variant = Arm.change
    BY <1>2, <2>3, FinishedStays DEF ControlInv
  <2> QED
    BY <2>1, <2>2, <2>4
<1> QED
  BY <1>1, <1>3, <1>4, <1>5, <1>6, <1>7

-----------------------------------------------------------------------------
(* What history() sees when the arm in progress has ended. *)
Seen == IF Arm.arm # "baseline" THEN History ELSE IF phase = "done" THEN thread ELSE << >>

(* The change routes as the seen history went, as far as the forks look. *)
SeenOk(change) ==
  Seen # << >> /\ CheckRouting(Seen, change, FindForkPoint(Seen, CHANGED_NODE[change]))

Drawn == [cache EXCEPT ![Namespace(Arm.arm, Arm.change)] = recording]

(* The arm that ends, ends with the row `row`; the next n arms inherit from the baseline's row. *)
EndsWith(row, n) ==
  /\ n \in 0..Len(Tail(queue))
  /\ rows' = Append(rows, row) \o
               [i \in 1..n |-> Inherited(Append(rows, row)[1], Tail(queue)[i], SeenOk(Tail(queue)[i].change))]
  /\ \A i \in 1..n : Forking(Tail(queue)[i].arm) /\ FindForkPoint(Seen, "compute_refund") = None
  /\ queue' = SubSeq(Tail(queue), n + 1, Len(Tail(queue)))
  /\ queue' # << >> =>
       /\ queue'[1] \in AnArm /\ queue'[1].arm # "baseline"
       /\ Forking(queue'[1].arm) => FindForkPoint(Seen, "compute_refund") # None
       /\ queue'[1].arm = "full" => BeginFull(queue'[1], Drawn)
       /\ queue'[1].arm # "full" =>
            BeginFork(queue'[1], Drawn, FindForkPoint(Seen, "compute_refund"), Append(rows, row)[1])

(* The thread of the ended baseline, or what the arms after it have seen all along. *)
LEMMA EndHistory ==
  ASSUME ThreadInv, FunctionInv, EndArm
  PROVE  /\ Seen \in Seq(Checkpoints) /\ recorded' = Len(Seen) /\ History' = Seen
         /\ ForkPoint' = FindForkPoint(Seen, "compute_refund")
         /\ Arm.arm # "baseline" => History' = History /\ recorded' = recorded /\ ForkPoint' = ForkPoint
<1>1. thread \in Seq(Checkpoints) /\ thread' = thread /\ recorded \in 0..Len(thread)
  BY DEF FunctionInv, EndArm, ThreadInv
<1>2. recorded' = Len(Seen)
  BY DEF EndArm, Seen
<1>3. History \in Seq(Checkpoints) /\ Len(History) = recorded
  BY <1>1 DEF History
<1>4. Seen \in Seq(Checkpoints) /\ SubSeq(thread, 1, Len(Seen)) = Seen
  <2>1. SubSeq(thread, 1, 0) = << >> /\ << >> \in Seq(Checkpoints)
    BY <1>1
  <2>2. SubSeq(thread, 1, Len(thread)) = thread
    BY <1>1
  <2> QED
    BY <1>1, <1>3, <2>1, <2>2 DEF Seen, History
<1>5. History' = Seen
  BY <1>1, <1>2, <1>4 DEF History
<1> QED
  BY <1>2, <1>3, <1>4, <1>5 DEF ForkPoint, Seen

(* An arm ends with its row, and those that inherit are forks without a fork point. *)
LEMMA EndArmParts ==
  ASSUME PauseInv, FunctionInv, EndArm
  PROVE  \E prefix, ok, n :
           /\ ~Forking(Arm.arm) => prefix = << >>
           /\ Forking(Arm.arm) => ok = SeenOk(Arm.change)
           /\ EndsWith(Row(prefix, ok), n)
<1> DEFINE Point(c) == FindForkPoint(Seen, CHANGED_NODE[c])
           prefix == IF Forking(Arm.arm) THEN SubSeq(rows[1].nodes, 1, Point(Arm.change).step) ELSE << >>
           ok == IF Forking(Arm.arm) THEN SeenOk(Arm.change) ELSE None
           row == Row(prefix, ok)
           Runs(a) == ~Forking(a.arm) \/ Point(a.change) # None
           rest == Tail(queue)
           first == SelectInSeq(rest, Runs)
           skipped == IF first = 0 THEN Len(rest) ELSE first - 1
<1>1. /\ rows' = Append(rows, row) \o
                   [i \in 1..skipped |-> Inherited(Append(rows, row)[1], rest[i], SeenOk(rest[i].change))]
      /\ queue' = SubSeq(rest, skipped + 1, Len(rest))
  BY DEF EndArm, Seen, SeenOk
<1>2. /\ queue' # << >> /\ queue'[1].arm = "full" => BeginFull(queue'[1], Drawn)
      /\ queue' # << >> /\ queue'[1].arm # "full" =>
           BeginFork(queue'[1], Drawn, Point(queue'[1].change), Append(rows, row)[1])
  BY DEF EndArm, Seen, SeenOk, Drawn
<1>3. rest \in Seq(AnArm) /\ \A i \in 1..Len(rest) : rest[i].arm # "baseline"
  BY DEF PauseInv, QueueInv, EndArm
<1>4. \A a \in AnArm : CHANGED_NODE[a.change] = "compute_refund"
  BY PlanPoint DEF AnArm
<1>5. \A a \in AnArm : Runs(a) <=> (~Forking(a.arm) \/ FindForkPoint(Seen, "compute_refund") # None)
  BY <1>4
<1> HIDE DEF rest, row, Point, Runs
<1>6. /\ first \in 0..Len(rest) /\ (first # 0 => Runs(rest[first]))
      /\ \A i \in 1..skipped : ~Runs(rest[i])
  <2> DEFINE I == {i \in 1..Len(rest) : Runs(rest[i])}
  <2>0. Len(rest) \in Nat
    BY <1>3
  <2>1. first = IF I # {} THEN Min(I) ELSE 0
    BY DEF SelectInSeq
  <2>2. CASE I = {}
    BY <2>0, <2>1, <2>2
  <2>3. CASE I # {}
    <3>1. I \subseteq Nat
      BY <2>0
    <3>2. \E x \in I : \A y \in I : x <= y
      <4> HIDE DEF I
      <4> QED
        BY <2>3, <3>1, MinNat
    <3>3. Min(I) \in I /\ \A y \in I : Min(I) <= y
      <4> HIDE DEF I
      <4> QED
        BY <3>2 DEF Min
    <3>4. first \in 1..Len(rest) /\ Runs(rest[first]) /\ \A y \in I : first <= y
      BY <2>1, <2>3, <3>3
    <3>5. \A i \in 1..skipped : i \in 1..Len(rest) /\ i < first
      <4> HIDE DEF first
      <4> QED
        BY <2>0, <3>4
    <3> HIDE DEF first
    <3> QED
      BY <2>0, <3>4, <3>5
  <2> QED
    BY <2>2, <2>3
<1> HIDE DEF first
<1>7. skipped \in 0..Len(rest) /\ Len(rest) \in Nat
  BY <1>3, <1>6
<1>8. queue' # << >> => first # 0 /\ queue'[1] = rest[first] /\ queue'[1] \in AnArm /\ queue'[1].arm # "baseline"
  <2>1. Len(queue') = Len(rest) - skipped /\ queue' \in Seq(AnArm)
        /\ \A i \in 1..Len(queue') : queue'[i] = rest[skipped + i]
    <3> HIDE DEF skipped
    <3> QED
      BY <1>1, <1>3, <1>7, SubSeqProperties
  <2>2. queue' # << >> => Len(queue') >= 1
    BY <2>1
  <2>3. first = 0 => Len(queue') = 0
    BY <1>7, <2>1
  <2>4. queue' # << >> => first \in 1..Len(rest)
    BY <1>6, <2>2, <2>3
  <2>5. first # 0 => skipped + 1 = first
    BY <1>6
  <2>6. queue' # << >> => queue'[1] = rest[first]
    <3> HIDE DEF skipped
    <3> QED
      BY <2>1, <2>2, <2>4, <2>5
  <2> QED
    BY <1>3, <2>4, <2>6
<1> HIDE DEF skipped
<1>9. \A i \in 1..skipped : rest[i] \in AnArm
  BY <1>3, <1>7
<1>10. \A i \in 1..skipped : Forking(rest[i].arm) /\ FindForkPoint(Seen, "compute_refund") = None
  BY <1>5, <1>6, <1>9
<1>11. queue' # << >> => Point(queue'[1].change) = FindForkPoint(Seen, "compute_refund")
  BY <1>4, <1>8 DEF Point
<1>12. queue' # << >> /\ Forking(queue'[1].arm) => FindForkPoint(Seen, "compute_refund") # None
  BY <1>5, <1>6, <1>8
<1>13. EndsWith(row, skipped)
  BY <1>1, <1>2, <1>7, <1>8, <1>10, <1>11, <1>12 DEF EndsWith, rest
<1> QED
  BY <1>13 DEF row

-----------------------------------------------------------------------------
(* The rows when an arm has ended: the earlier ones, its own, and those that inherit. *)
LEMMA EndedRows ==
  ASSUME NEW row, NEW n, EndsWith(row, n), rows \in Seq(Range(rows)), Tail(queue) \in Seq(AnArm)
  PROVE  /\ rows' \in Seq(Range(rows')) /\ rows' # << >> /\ Base' = Append(rows, row)[1]
         /\ Base' = IF rows = << >> THEN row ELSE Base
         /\ \A i \in DOMAIN rows' :
              \/ i \in DOMAIN rows /\ rows'[i] = rows[i]
              \/ rows'[i] = row
              \/ \E j \in 1..n : rows'[i] = Inherited(Base', Tail(queue)[j], SeenOk(Tail(queue)[j].change))
         /\ Len(rows') = Len(rows) + 1 + n
         /\ \A i \in 1..Len(rows) : rows'[i] = rows[i]
         /\ rows'[Len(rows) + 1] = row
         /\ \A j \in 1..n :
              rows'[Len(rows) + 1 + j] = Inherited(Base', Tail(queue)[j], SeenOk(Tail(queue)[j].change))
<1> DEFINE ended == Append(rows, row)
           heirs == [i \in 1..n |-> Inherited(ended[1], Tail(queue)[i], SeenOk(Tail(queue)[i].change))]
           S == Range(rows) \cup {row} \cup Range(heirs)
<1>1. n \in Nat /\ rows' = ended \o heirs
  <2>1. Len(Tail(queue)) \in Nat
    OBVIOUS
  <2> QED
    BY <2>1 DEF EndsWith
<1>2. rows \in Seq(S) /\ row \in S
  <2>1. Range(rows) \subseteq S /\ row \in S
    OBVIOUS
  <2> HIDE DEF S
  <2>2. \A i \in 1..Len(rows) : rows[i] \in S
    BY <2>1 DEF Range
  <2>3. rows = [i \in 1..Len(rows) |-> rows[i]] /\ Len(rows) \in Nat
    OBVIOUS
  <2> QED
    BY <2>1, <2>2, <2>3
<1>3. heirs \in Seq(S) /\ Len(heirs) = n
  <2>1. DOMAIN heirs = 1..n /\ Range(heirs) \subseteq S
    OBVIOUS
  <2>2. heirs = [i \in 1..n |-> heirs[i]]
    OBVIOUS
  <2> HIDE DEF heirs, S
  <2>3. \A i \in 1..n : heirs[i] \in S
    BY <2>1 DEF Range
  <2>4. heirs \in [1..n -> S]
    BY <2>2, <2>3
  <2> QED
    BY <1>1, <2>4
<1>4. \A i \in 1..n : heirs[i] = Inherited(ended[1], Tail(queue)[i], SeenOk(Tail(queue)[i].change))
  OBVIOUS
<1> HIDE DEF S, heirs
<1>5. /\ ended \in Seq(S) /\ Len(ended) = Len(rows) + 1 /\ Len(rows) \in Nat
      /\ \A i \in 1..Len(rows) : ended[i] = rows[i]
      /\ ended[Len(rows) + 1] = row
  BY <1>2
<1> HIDE DEF ended
<1>6. /\ rows' \in Seq(S) /\ Len(rows') = Len(ended) + n
      /\ \A i \in 1..Len(ended) : rows'[i] = ended[i]
      /\ \A i \in 1..n : rows'[Len(ended) + i] = heirs[i]
  <2> DEFINE both == ended \o heirs
  <2>1. /\ both \in Seq(S) /\ Len(both) = Len(ended) + Len(heirs)
        /\ \A i \in 1..Len(ended) + Len(heirs) : both[i] = IF i <= Len(ended) THEN ended[i] ELSE heirs[i - Len(ended)]
    BY <1>3, <1>5, ConcatProperties
  <2> HIDE DEF both
  <2>2. \A i \in 1..Len(ended) : both[i] = ended[i]
    BY <1>1, <1>3, <1>5, <2>1
  <2>3. \A i \in 1..n : both[Len(ended) + i] = heirs[i]
    <3> SUFFICES ASSUME NEW i \in 1..n PROVE both[Len(ended) + i] = heirs[i]
      OBVIOUS
    <3>1. Len(ended) + i \in 1..Len(ended) + Len(heirs) /\ ~(Len(ended) + i <= Len(ended)) /\ (Len(ended) + i) - Len(ended) = i
      BY <1>1, <1>3, <1>5
    <3> QED
      BY <2>1, <3>1
  <2> QED
    BY <1>1, <1>3, <2>1, <2>2, <2>3 DEF both
<1>7. rows' # << >> /\ Base' = ended[1]
  <2>1. Len(rows') >= 1 /\ 1 \in 1..Len(ended)
    BY <1>1, <1>5, <1>6
  <2>2. Len(<< >>) = 0
    OBVIOUS
  <2> QED
    BY <1>6, <2>1, <2>2 DEF Base
<1>8. Base' = IF rows = << >> THEN row ELSE Base
  <2>1. rows # << >> => 1 \in 1..Len(rows)
    BY <1>2
  <2>2. rows = << >> => Len(rows) = 0
    OBVIOUS
  <2> QED
    BY <1>5, <1>7, <2>1, <2>2 DEF Base
<1>9. ASSUME NEW i \in DOMAIN rows'
      PROVE  \/ i \in DOMAIN rows /\ rows'[i] = rows[i]
             \/ rows'[i] = row
             \/ \E j \in 1..n : rows'[i] = Inherited(Base', Tail(queue)[j], SeenOk(Tail(queue)[j].change))
  <2>1. i \in 1..Len(ended) + n /\ i \in Int
    BY <1>1, <1>5, <1>6
  <2>2. CASE i \in 1..Len(rows)
    BY <1>2, <1>5, <1>6, <2>2
  <2>3. CASE i = Len(rows) + 1
    BY <1>5, <1>6, <2>3
  <2>4. CASE i \notin 1..Len(rows) /\ i # Len(rows) + 1
    <3>1. i - Len(ended) \in 1..n /\ i = Len(ended) + (i - Len(ended))
      BY <1>1, <1>5, <2>1, <2>4
    <3>2. PICK j \in 1..n : i = Len(ended) + j
      BY <3>1
    <3> QED
      BY <1>4, <1>6, <1>7, <3>2
  <2> QED
    BY <1>5, <2>1, <2>2, <2>3, <2>4
<1>10. rows' \in Seq(Range(rows'))
  <2>1. rows' = [i \in 1..Len(rows') |-> rows'[i]] /\ Len(rows') \in Nat /\ DOMAIN rows' = 1..Len(rows')
    BY <1>6
  <2>2. \A i \in 1..Len(rows') : rows'[i] \in Range(rows')
    BY <2>1 DEF Range
  <2> HIDE DEF Range
  <2> QED
    BY <2>1, <2>2
<1>11. Len(rows') = Len(rows) + 1 + n /\ rows'[Len(rows) + 1] = row
       /\ \A i \in 1..Len(rows) : rows'[i] = rows[i]
  <2>1. Len(rows) + 1 \in 1..Len(ended) /\ \A i \in 1..Len(rows) : i \in 1..Len(ended)
    BY <1>5
  <2> QED
    BY <1>1, <1>5, <1>6, <2>1
<1>12. \A j \in 1..n :
         rows'[Len(rows) + 1 + j] = Inherited(Base', Tail(queue)[j], SeenOk(Tail(queue)[j].change))
  BY <1>4, <1>5, <1>6, <1>7
<1> QED
  BY <1>7, <1>8, <1>9, <1>10, <1>11, <1>12 DEF ended

(* When the baseline has ended, its way is what the forks see. *)
LEMMA HistoryBegins ==
  ASSUME ThreadInv, FunctionInv, EndArm, Arm.arm = "baseline", NEW ok,
         rows' # << >>, Base' = Row(<< >>, ok)
  PROVE  HistoryInv'
<1> DEFINE row == Row(<< >>, ok)
<1>1. /\ queue # << >> /\ Agent!Over /\ case' = case
  BY DEF EndArm
<1>2. ControlInv /\ OnItsWay /\ BaselineInv /\ Arm.change = "baseline" /\ variant = "baseline"
  BY <1>1 DEF FunctionInv, ControlInv
<1>3. /\ row.ended = Ending /\ row.classify = recording.classify /\ row.planned = st.refund_type
      /\ row.nodes = (IF phase = "done" THEN nodes ELSE << >>) /\ row.world = world
      /\ row.arm = "baseline" /\ row.change = "baseline" /\ ~row.inherited /\ DOMAIN row = RowFields
  BY <1>2 DEF Row, RowFields
<1> HIDE DEF row
<1>4. row.nodes \in Seq(GroupNodes) /\ row.world \in World
  BY <1>2, <1>3, ThisRunFields DEF ControlInv, Typed
<1>5. Seen = (IF phase = "done" THEN thread ELSE << >>) /\ Len(<< >>) = 0
  BY DEF Seen
<1>6. /\ Seen \in Seq(Checkpoints) /\ recorded' = Len(Seen) /\ History' = Seen
      /\ ForkPoint' = FindForkPoint(Seen, "compute_refund")
  BY EndHistory
<1>7. recorded' # 0 => phase = "done" /\ History' = thread /\ row.ended = "done" /\ ~ModelFailed
  BY <1>3, <1>5, <1>6 DEF Ending, ModelFailed
<1>8. ASSUME recorded' # 0, ForkPoint' = None
      PROVE  row.planned = None
  <2>1. \A i \in DOMAIN thread : thread[i].next # "compute_refund"
    BY <1>6, <1>7, <1>8, ForkPointFacts
  <2> QED
    BY <1>2, <1>3, <2>1 DEF BaselineInv
<1>9. ASSUME recorded' # 0, NEW v \in ChangesUnderTest, NEW t \in RefundTypes,
             CheckRouting(History', v, None), row.planned \in {None, t}
      PROVE  Finish(case, v, row.classify, t, Fresh(case))
               = Finish(case, "baseline", row.classify, t, Fresh(case))
  <2> DEFINE c == recording.classify
  <2>1. c \in Agent!Classification /\ MayDraw(c, t)
    <3>1. next # "classify_request" /\ ~Forking(Arm.arm)
      BY <1>2, <1>7, <1>9 DEF ControlInv, Forking
    <3> QED
      BY <1>2, <1>3, <1>9, <3>1 DEF ControlInv, MayDraw
  <2>2. Finish(case, v, c, t, ThisRun) = Finish(case, v, c, t, Fresh(case))
    BY <1>2, <1>7, <1>9, <2>1 DEF BaselineInv
  <2>3. Finish(case, "baseline", c, t, ThisRun) = Finish(case, "baseline", c, t, Fresh(case))
    <3>1. Origin(Arm.arm) = Fresh(case)
      BY DEF Origin, Forking
    <3> QED
      BY <1>2, <1>7, <1>9, <2>1, <3>1 DEF OnItsWay
  <2>4. ThisRun.phase # "running"
    BY <1>7, <1>9, ThisRunFields
  <2> QED
    BY <1>3, <2>2, <2>3, <2>4, FinishedStays
<1>10. ASSUME ForkPoint' # None
       PROVE  ForkPoint'.next = "compute_refund" /\ StopsAtPlan(ForkPoint', row.nodes, row.classify)
  <2>1. PICK i \in DOMAIN Seen : Seen[i].next = "compute_refund" /\ ForkPoint' = Seen[i]
    BY <1>6, <1>10, ForkPointFacts
  <2>2. phase = "done" /\ Seen = thread
    BY <1>5, <2>1
  <2> QED
    BY <1>2, <1>3, <2>1, <2>2 DEF BaselineInv
<1>11. (\A v \in ChangesUnderTest, t \in RefundTypes :
         CheckRouting(History', v, None) /\ row.planned \in {None, t}
         => Finish(case, v, row.classify, t, Fresh(case)) = Finish(case, "baseline", row.classify, t, Fresh(case)))
       \/ recorded' = 0
  BY <1>9
<1>12. case' \in Cases
  BY <1>1, <1>2 DEF ControlInv
<1> QED
  BY <1>1, <1>3, <1>4, <1>7, <1>8, <1>10, <1>11, <1>12 DEF HistoryInv, StopsAtPlan, row

-----------------------------------------------------------------------------
(* The namespaces keep the shape of an empty recording. *)
LEMMA DrawnShape ==
  ASSUME CacheInv, DOMAIN recording = DOMAIN Agent!EmptyRecording, Arm \in AnArm
  PROVE  /\ DOMAIN Drawn = Namespaces
         /\ \A a \in AnArm : DOMAIN Drawn[Namespace(a.arm, a.change)] = DOMAIN Agent!EmptyRecording
<1>1. \A a \in AnArm : Namespace(a.arm, a.change) \in Namespaces
  <2> SUFFICES ASSUME NEW a \in AnArm PROVE Namespace(a.arm, a.change) \in Namespaces
    OBVIOUS
  <2>1. a.arm \in {"baseline", "full", "fork", "fork_naive"} /\ a.change \in ChangesUnderTest
    BY DEF AnArm, ArmNames
  <2>2. \E b \in {"baseline", "full", "fork"} : Namespace(a.arm, a.change) = Namespace(b, a.change)
    BY <2>1 DEF Namespace
  <2> QED
    BY <2>1, <2>2 DEF Namespaces
<1>2. DOMAIN Drawn = Namespaces
  BY DEF Drawn, CacheInv
<1>3. \A m \in Namespaces : Drawn[m] = recording \/ Drawn[m] = cache[m]
  BY DEF Drawn, CacheInv
<1> QED
  BY <1>1, <1>2, <1>3 DEF CacheInv

(* The state of a run that starts afresh. *)
LEMMA FreshTyped ==
  ASSUME NEW k \in Cases
  PROVE  Typed(Fresh(k)) /\ EmptyState.refund_type = None
<1>1. EmptyState \in RefundState /\ EmptyState.refund_type = None
  BY DEF EmptyState, RefundState
<1>2. SeedWorld(k) \in World
  BY GroupAssumption DEF SeedWorld, World, Case
<1> QED
  BY <1>1, <1>2 DEF Typed, Fresh, Run

(* A full rerun starts afresh. *)
LEMMA FullBegins ==
  ASSUME ControlInv, CacheInv, NEW a \in AnArm, a.arm = "full", case' = case,
         queue' # << >>, queue'[1] = a, BeginFull(a, Drawn)
  PROVE  ControlInv' /\ OnItsWay'
<1>1. Arm' = a /\ Arm \in AnArm /\ ~Forking(a.arm) /\ a.change \in ChangesUnderTest
  BY DEF Arm, Forking, ControlInv, AnArm, ArmNames
<1>2. /\ st' = EmptyState /\ world' = SeedWorld(case) /\ next' = "classify_request" /\ steps' = 1
      /\ nodes' = << >> /\ phase' = "running" /\ answer' = None /\ fired' = {} /\ reply' = None
      /\ variant' = a.change /\ recording' = Drawn[Namespace(a.arm, a.change)]
  BY DEF BeginFull, BeginRun
<1>3. DOMAIN recording' = DOMAIN Agent!EmptyRecording
  BY <1>1, <1>2, DrawnShape DEF ControlInv
<1>4. ThisRun' = Fresh(case)
  BY <1>2 DEF ThisRun, Fresh
<1>5. Typed(ThisRun)'
  <2>1. Typed(Fresh(case))
    BY FreshTyped DEF ControlInv
  <2> QED
    BY <1>4, <2>1 DEF Typed
<1>6. ControlInv'
  <2>1. "classify_request" \in GroupNodes /\ 1 <= RECURSION_LIMIT /\ 1 \in Nat /\ << >> \in Seq(GroupNodes)
    BY GroupAssumption DEF GroupNodes, BeforePlan
  <2>2. case' \in Cases /\ a.arm \in {"baseline", "full", "fork", "fork_naive"}
        /\ a \in [arm : {"baseline", "full", "fork", "fork_naive"}, change : ChangesUnderTest]
    BY DEF ControlInv, AnArm, ArmNames
  <2>3. st'.refund_type = None
    BY <1>2, FreshTyped DEF ControlInv
  <2> HIDE DEF ThisRun
  <2> QED
    BY <1>1, <1>2, <1>3, <1>5, <2>1, <2>2, <2>3 DEF ControlInv
<1>7. OnItsWay'
  BY <1>1, <1>4 DEF OnItsWay, Origin
<1> QED
  BY <1>6, <1>7

(* A fork starts at the stop of every change on the way to the plan. *)
LEMMA ForkBegins ==
  ASSUME ControlInv, CacheInv, HistoryInv', NEW a \in AnArm, Forking(a.arm), case' = case,
         queue' # << >>, queue'[1] = a, ForkPoint' # None, BeginFork(a, Drawn, ForkPoint', Base')
  PROVE  ControlInv' /\ OnItsWay'
<1> DEFINE p == ForkPoint'
           base == Base'
           w == ForkWorld(a.arm, p, base.world)
<1>1. Arm' = a /\ Arm \in AnArm /\ a.change \in ChangesUnderTest /\ a.arm \in {"fork", "fork_naive"}
  BY DEF Arm, Forking, ControlInv, AnArm, ArmNames
<1>2. /\ st' = p.st /\ world' = w /\ next' = p.next
      /\ steps' = RECURSION_LIMIT - (RECURSION_LIMIT - (p.step + 1))
      /\ nodes' = SubSeq(base.nodes, 1, p.step) /\ phase' = "running" /\ answer' = None /\ fired' = {} /\ reply' = None
      /\ variant' = a.change /\ recording' = Drawn[Namespace(a.arm, a.change)]
  BY DEF BeginFork, BeginRun, CarriedLimit
<1>3. DOMAIN recording' = DOMAIN Agent!EmptyRecording
  BY <1>1, <1>2, DrawnShape DEF ControlInv
<1>4. /\ p.next = "compute_refund" /\ base.nodes \in Seq(GroupNodes) /\ base.world \in World
      /\ p.step \in 0..Len(base.nodes) /\ p.step < RECURSION_LIMIT
      /\ Typed(Forked(p, p.snapshot, base.nodes)) /\ p.st.refund_type = None
  BY DEF HistoryInv, StopsAtPlan
<1> HIDE DEF p, base
<1>5. p.step \in Nat /\ steps' = p.step + 1 /\ RECURSION_LIMIT \in Nat
  <2>1. p.step \in Nat
    BY <1>4
  <2> QED
    BY <1>2, <2>1, GroupAssumption
<1>6. ThisRun' = Forked(p, w, base.nodes)
  <2> HIDE DEF w
  <2> QED
    BY <1>2, <1>5 DEF ThisRun, Forked
<1>7. w \in World /\ p.st \in RefundState
  <2>1. p.snapshot \in World /\ p.st \in RefundState
    BY <1>4 DEF Typed, Forked, Run
  <2> QED
    BY <1>4, <2>1 DEF ForkWorld
<1>8. Typed(Forked(p, w, base.nodes))
  <2> HIDE DEF w
  <2> QED
    BY <1>4, <1>7 DEF Typed, Forked, Run
<1>9. DOMAIN p.st = DOMAIN EmptyState
  BY <1>7 DEF RefundState, EmptyState
<1>10. nodes' \in Seq(GroupNodes)
  BY <1>2, <1>4
<1>11. ControlInv'
  <2>1. "compute_refund" \in BeforePlan /\ "compute_refund" \in GroupNodes
    BY DEF GroupNodes, BeforePlan
  <2>2. case' \in Cases /\ a \in [arm : {"baseline", "full", "fork", "fork_naive"}, change : ChangesUnderTest]
    BY DEF ControlInv, AnArm, ArmNames
  <2>3. Typed(ThisRun)'
    BY <1>6, <1>8 DEF Typed
  <2> HIDE DEF ThisRun, w
  <2> QED
    BY <1>1, <1>2, <1>3, <1>4, <1>5, <1>7, <1>9, <1>10, <2>1, <2>2, <2>3 DEF ControlInv, Forking
<1>12. OnItsWay'
  BY <1>1, <1>6 DEF OnItsWay, Origin, p, base
<1> QED
  BY <1>11, <1>12

-----------------------------------------------------------------------------
(* What the arms after the baseline have seen stays. *)
LEMMA HistoryStays ==
  ASSUME ThreadInv, FunctionInv, EndArm, Arm.arm # "baseline", rows' # << >>, Base' = Base
  PROVE  HistoryInv'
<1>1. HistoryInv /\ case' = case
  BY DEF FunctionInv, EndArm
<1>2. History' = History /\ recorded' = recorded /\ ForkPoint' = ForkPoint
  BY EndHistory
<1> QED
  BY <1>1, <1>2 DEF HistoryInv, StopsAtPlan

(* The row of an arm that has ended. *)
LEMMA OwnRow ==
  ASSUME FunctionInv, queue # << >>, Agent!Over, NEW prefix, NEW ok, NEW r, r = Row(prefix, ok),
         NEW arm, arm = Arm.arm, Origin(arm)' = Origin(arm), case' = case, Forking(arm) => ForkPoint' # None
  PROVE  RowInv(r)'
<1> DEFINE row == Row(prefix, ok)
<1>0. r = row
  OBVIOUS
<1>1. row.arm = Arm.arm /\ row.change = Arm.change /\ row.inherited = FALSE
  BY DEF Row
<1>2. Arm.arm \in {"baseline", "full", "fork", "fork_naive"} /\ Arm.change \in ChangesUnderTest
  BY DEF FunctionInv, ControlInv
<1>3. ASSUME row.ended # "model_failed"
      PROVE  /\ ~Forking(Arm.arm) => row.classify \in Agent!Classification
             /\ row.planned \in RefundTypes \/ (row.planned = None /\ ~Forking(Arm.arm))
             /\ Reports(row, ThisRun)
             /\ \A c \in Agent!Classification, t \in RefundTypes :
                 (Forking(Arm.arm) \/ row.classify = c) /\ row.planned \in {None, t}
                 => Finish(case, Arm.change, c, t, Origin(Arm.arm)) = ThisRun
  BY <1>3, EndedRow
<1>4. r.ended # "model_failed" =>
        /\ ~Forking(r.arm) => r.classify \in Agent!Classification
        /\ r.planned \in RefundTypes \/ (r.planned = None /\ ~Forking(r.arm))
        /\ \A c \in Agent!Classification, t \in RefundTypes :
               (Forking(r.arm) \/ r.classify = c) /\ r.planned \in {None, t}
               => Reports(r, Finish(case', r.change, c, t, Origin(arm)'))
  <2> HIDE DEF row
  <2> QED
    BY <1>0, <1>1, <1>3
<1>5. r.arm = arm /\ r.change \in ChangesUnderTest /\ r.inherited = FALSE
      /\ arm \in {"baseline", "full", "fork", "fork_naive"}
  <2> HIDE DEF row
  <2> QED
    BY <1>0, <1>1, <1>2
<1>6. Origin(r.arm)' = Origin(arm)'
  BY <1>5
<1> HIDE DEF row
<1> QED
  BY <1>4, <1>5, <1>6 DEF RowInv

(* A row that is recorded stays true to its function. *)
LEMMA EarlierRow ==
  ASSUME NEW r, RowInv(r), case' = case, Base' = Base,
         History' = History, recorded' = recorded, ForkPoint' = ForkPoint
  PROVE  RowInv(r)' /\ \A arm : Origin(arm)' = Origin(arm)
<1>1. \A arm : Origin(arm)' = Origin(arm)
  BY DEF Origin
<1> QED
  BY <1>1 DEF RowInv

(* A fork arm without a fork point inherits the baseline's verdict. *)
LEMMA HeirRow ==
  ASSUME NEW a \in AnArm, Forking(a.arm), HistoryInv', ForkPoint' = None,
         Seen \in Seq(Checkpoints), recorded' = Len(Seen), History' = Seen,
         FindForkPoint(Seen, "compute_refund") = None,
         NEW base, base = Base', NEW r, r = Inherited(base, a, SeenOk(a.change))
  PROVE  RowInv(r)'
<1>1. DOMAIN base = RowFields
  BY DEF HistoryInv
<1>2. /\ r.arm = a.arm /\ r.change = a.change /\ r.inherited = TRUE /\ r.routing_ok = SeenOk(a.change)
      /\ r.ended = base.ended /\ r.world = base.world /\ r.reply = base.reply /\ r.nodes = base.nodes
  BY <1>1 DEF Inherited, RowFields
<1>3. Outcome(r) = Outcome(base)
  BY <1>2 DEF Outcome
<1>4. Outcome(r) = Outcome(Base)'
  BY <1>3 DEF Outcome
<1>5. a.arm \in {"baseline", "full", "fork", "fork_naive"} /\ a.change \in ChangesUnderTest
  BY DEF AnArm, ArmNames
<1>6. SeenOk(a.change) <=> recorded' # 0 /\ CheckRouting(History', a.change, None)
  <2>1. CHANGED_NODE[a.change] = "compute_refund"
    BY <1>5, PlanPoint
  <2>2. Seen # << >> <=> Len(Seen) # 0
    OBVIOUS
  <2> QED
    BY <2>1, <2>2 DEF SeenOk
<1>7. r.routing_ok = (recorded' # 0 /\ CheckRouting(History', a.change, None))
  BY <1>2, <1>6 DEF SeenOk
<1>8. RowInv(r)' <=>
        /\ r.arm \in {"baseline", "full", "fork", "fork_naive"} /\ r.change \in ChangesUnderTest
        /\ Forking(r.arm) /\ Outcome(r) = Outcome(Base)'
        /\ r.routing_ok = (recorded' # 0 /\ CheckRouting(History', r.change, None))
  BY <1>2 DEF RowInv
<1> QED
  BY <1>2, <1>4, <1>5, <1>7, <1>8

(* The end of an arm leaves the function invariant as it is. *)
LEMMA EndArmFunction ==
  ASSUME PauseInv, FunctionInv, EndArm
  PROVE  FunctionInv'
<1>1. PICK prefix, ok, n : (~Forking(Arm.arm) => prefix = << >>) /\ EndsWith(Row(prefix, ok), n)
  BY EndArmParts
<1>2. PICK row : row = Row(prefix, ok)
  OBVIOUS
<1>3. EndsWith(row, n) /\ (~Forking(Arm.arm) => prefix = << >>)
  BY <1>1, <1>2
<1>4. queue # << >> /\ Agent!Over /\ UNCHANGED <<case, thread>> /\ ThreadInv
  BY DEF EndArm, PauseInv
<1>5. ControlInv /\ CacheInv /\ rows \in Seq(Range(rows)) /\ (\A i \in DOMAIN rows : RowInv(rows[i]))
      /\ (Forking(Arm.arm) => ForkPoint # None)
  BY <1>4 DEF FunctionInv
<1>6. Tail(queue) \in Seq(AnArm)
  BY <1>4 DEF PauseInv, QueueInv
<1>7. /\ rows' \in Seq(Range(rows')) /\ rows' # << >> /\ Base' = Append(rows, row)[1]
      /\ Base' = IF rows = << >> THEN row ELSE Base
      /\ \A i \in DOMAIN rows' :
              \/ i \in DOMAIN rows /\ rows'[i] = rows[i]
              \/ rows'[i] = row
              \/ \E j \in 1..n : rows'[i] = Inherited(Base', Tail(queue)[j], SeenOk(Tail(queue)[j].change))
  BY <1>3, <1>5, <1>6, EndedRows
<1>8. /\ Seen \in Seq(Checkpoints) /\ recorded' = Len(Seen) /\ History' = Seen
      /\ ForkPoint' = FindForkPoint(Seen, "compute_refund")
      /\ Arm.arm # "baseline" => History' = History /\ recorded' = recorded /\ ForkPoint' = ForkPoint
  BY <1>4, EndHistory
<1>9. /\ Arm.arm = "baseline" => rows = << >> /\ ~Forking(Arm.arm)
      /\ Arm.arm # "baseline" => rows # << >>
  BY <1>4 DEF FunctionInv, BaselineInv, HistoryInv, Forking
<1>10. HistoryInv'
  <2>1. CASE Arm.arm = "baseline"
    <3>1. Base' = Row(<< >>, ok)
      BY <1>2, <1>3, <1>7, <1>9, <2>1
    <3> QED
      BY <1>4, <1>7, <2>1, <3>1, HistoryBegins
  <2>2. CASE Arm.arm # "baseline"
    BY <1>4, <1>7, <1>9, <2>2, HistoryStays
  <2> QED
    BY <2>1, <2>2
<1>11. Arm.arm # "baseline" =>
         \A r : RowInv(r) => RowInv(r)' /\ \A arm : Origin(arm)' = Origin(arm)
  BY <1>4, <1>7, <1>8, <1>9, EarlierRow
<1>12. ASSUME NEW i \in DOMAIN rows, rows'[i] = rows[i]
       PROVE  RowInv(rows[i])'
  <2>1. Arm.arm # "baseline"
    BY <1>9, <1>12
  <2>2. \A r : r = rows[i] => RowInv(r)'
    BY <1>5, <1>11, <1>12, <2>1
  <2> QED
    BY <1>12, <2>2
<1>13. RowInv(row)'
  <2>1. PICK arm : arm = Arm.arm
    OBVIOUS
  <2>2. Origin(arm)' = Origin(arm)
    <3>1. CASE Arm.arm = "baseline"
      BY <1>4, <1>9, <2>1, <3>1 DEF Origin
    <3>2. CASE Arm.arm # "baseline"
      BY <1>4, <1>7, <1>8, <1>9, <3>2 DEF Origin
    <3> QED
      BY <3>1, <3>2
  <2>3. Forking(arm) => ForkPoint' # None
    BY <1>5, <1>8, <2>1 DEF Forking
  <2> QED
    BY <1>2, <1>4, <2>1, <2>2, <2>3, OwnRow
<1>14. ASSUME NEW j \in 1..n, NEW r, NEW base, base = Base',
              r = Inherited(base, Tail(queue)[j], SeenOk(Tail(queue)[j].change))
       PROVE  RowInv(r)'
  <2>1. n \in 0..Len(Tail(queue)) /\ Forking(Tail(queue)[j].arm) /\ FindForkPoint(Seen, "compute_refund") = None
    BY <1>3 DEF EndsWith
  <2>2. Tail(queue)[j] \in AnArm
    BY <1>6, <2>1
  <2> QED
    BY <1>8, <1>10, <1>14, <2>1, <2>2, HeirRow
<1>15. ASSUME NEW i \in DOMAIN rows'
       PROVE  RowInv(rows[i])'
  <2>1. CASE i \in DOMAIN rows /\ rows'[i] = rows[i]
    BY <1>12, <2>1
  <2>2. CASE rows'[i] = row
    BY <1>13, <2>2
  <2>3. CASE \E j \in 1..n : rows'[i] = Inherited(Base', Tail(queue)[j], SeenOk(Tail(queue)[j].change))
    BY <1>14, <2>3
  <2> QED
    BY <1>7, <2>1, <2>2, <2>3
<1>16. ASSUME queue' # << >>
       PROVE  ControlInv' /\ OnItsWay' /\ (Forking(Arm.arm)' => ForkPoint' # None) /\ Arm'.arm # "baseline"
  <2>1. PICK a : a = queue'[1]
    OBVIOUS
  <2>2. a \in AnArm /\ Arm' = a /\ a.arm # "baseline" /\ (Forking(a.arm) => ForkPoint' # None)
    BY <1>3, <1>8, <1>16, <2>1 DEF EndsWith, Arm
  <2>3. CASE a.arm = "full"
    <3>1. BeginFull(a, Drawn)
      BY <1>3, <1>16, <2>1, <2>3 DEF EndsWith
    <3> QED
      BY <1>4, <1>5, <1>16, <2>1, <2>2, <2>3, <3>1, FullBegins DEF Forking
  <2>4. CASE a.arm # "full"
    <3>1. Forking(a.arm)
      BY <2>2, <2>4 DEF Forking, AnArm, ArmNames
    <3>2. BeginFork(a, Drawn, FindForkPoint(Seen, "compute_refund"), Append(rows, row)[1])
      BY <1>3, <1>16, <2>1, <2>4 DEF EndsWith
    <3>3. BeginFork(a, Drawn, ForkPoint', Base')
      BY <1>7, <1>8, <3>2
    <3> QED
      BY <1>4, <1>5, <1>10, <1>16, <2>1, <2>2, <3>1, <3>3, ForkBegins
  <2> QED
    BY <2>3, <2>4
<1>17. CacheInv'
  <2>1. cache' = Drawn
    BY DEF EndArm, Drawn
  <2>2. Arm \in AnArm
    BY <1>5 DEF ControlInv, AnArm, ArmNames
  <2>3. DOMAIN Drawn = Namespaces /\ \A m \in Namespaces : Drawn[m] = recording \/ Drawn[m] = cache[m]
    BY <1>5 DEF Drawn, CacheInv
  <2> QED
    BY <1>5, <2>1, <2>3 DEF CacheInv, ControlInv
<1>18. thread' \in Seq(Checkpoints)
  BY <1>4 DEF FunctionInv
<1> QED
  BY <1>7, <1>10, <1>15, <1>16, <1>17, <1>18 DEF FunctionInv

-----------------------------------------------------------------------------
(* A group starts with the baseline on its own way. *)
LEMMA InitFunction ==
  ASSUME GroupInit
  PROVE  FunctionInv
<1>1. /\ case \in Cases /\ variant = "baseline" /\ recording = Agent!EmptyRecording
      /\ st = EmptyState /\ world = SeedWorld(case) /\ next = "classify_request" /\ phase = "running"
      /\ answer = None /\ steps = 1 /\ fired = {} /\ reply = None /\ nodes = << >> /\ recorded = 0
      /\ cache = [n \in Namespaces |-> Agent!EmptyRecording] /\ rows = << >>
      /\ thread = <<Checkpoint(EmptyState, "__start__", -1, None),
                    Checkpoint(EmptyState, "classify_request", 0, None)>>
  BY DEF GroupInit, Agent!Start, Agent!EmptyState, EmptyState, Agent!SeedWorld, SeedWorld
<1>2. queue # << >> /\ Arm.arm = "baseline" /\ Arm.change = "baseline" /\ Arm \in AnArm
  <2>1. PICK list \in Seq(ChangesUnderTest) : queue = AllArms(list)
    BY GroupAssumption DEF GroupInit
  <2>2. queue \in Seq(AnArm) /\ Len(queue) >= 1 /\ queue[1].arm = "baseline"
    BY <2>1, ArmsType
  <2>3. queue # << >>
    BY <2>2
  <2>4. queue[1].change = "baseline"
    BY <2>1 DEF AllArms
  <2>5. Arm = queue[1] /\ queue[1] \in AnArm
    BY <2>2, <2>3 DEF Arm
  <2> QED
    BY <2>2, <2>3, <2>4, <2>5
<1>3. ThisRun = Fresh(case) /\ Typed(Fresh(case)) /\ EmptyState.refund_type = None
  BY <1>1, FreshTyped DEF ThisRun, Fresh
<1>4. RECURSION_LIMIT \in Nat /\ 1 <= RECURSION_LIMIT /\ << >> \in Seq(GroupNodes)
      /\ "classify_request" \in GroupNodes /\ "classify_request" \in BeforePlan
  BY GroupAssumption DEF GroupNodes, BeforePlan
<1>5. ControlInv
  <2>1. Arm \in [arm : {"baseline", "full", "fork", "fork_naive"}, change : ChangesUnderTest]
    BY <1>2 DEF AnArm, ArmNames
  <2> HIDE DEF ThisRun
  <2> QED
    BY <1>1, <1>2, <1>3, <1>4, <2>1 DEF ControlInv, Forking
<1>6. OnItsWay
  BY <1>2, <1>3 DEF OnItsWay, Origin, Forking
<1>7. /\ Len(thread) = 2 /\ thread # << >> /\ Last(thread).next = next
      /\ \A i \in DOMAIN thread : thread[i].next # "compute_refund"
      /\ \A v : CheckRouting(thread, v, None)
  <2>1. Len(thread) = 2 /\ DOMAIN thread = {1, 2} /\ thread # << >>
    BY <1>1
  <2>2. thread[1].next = "__start__" /\ thread[2].next = "classify_request"
    BY <1>1 DEF Checkpoint
  <2>3. \A v : CheckRouting(thread, v, None)
    <3>1. \A i \in 1..Len(thread) - 1 : i = 1
      BY <2>1
    <3>2. thread[1].next \notin Routed
      BY <2>2 DEF Routed
    <3> QED
      BY <3>1, <3>2 DEF CheckRouting
  <2> QED
    BY <1>1, <2>1, <2>2, <2>3 DEF Last
<1>8. BaselineInv
  <2>1. steps = Len(nodes) + 1
    BY <1>1
  <2> HIDE DEF ThisRun
  <2> QED
    BY <1>1, <1>3, <1>7, <2>1 DEF BaselineInv
<1>9. thread \in Seq(Checkpoints)
  <2>1. EmptyState \in RefundState
    BY <1>3 DEF Typed, Fresh, Run
  <2>2. Checkpoint(EmptyState, "__start__", -1, None) \in Checkpoints
        /\ Checkpoint(EmptyState, "classify_request", 0, None) \in Checkpoints
    BY <2>1 DEF Checkpoint, Checkpoints, Nodes
  <2> QED
    BY <1>1, <2>2
<1>10. CacheInv
  BY <1>1 DEF CacheInv
<1>11. rows \in Seq(Range(rows)) /\ \A i \in DOMAIN rows : RowInv(rows[i])
  BY <1>1
<1> QED
  BY <1>2, <1>5, <1>6, <1>8, <1>9, <1>10, <1>11 DEF FunctionInv, Forking

(* Every arm of a group is, all along, on the way its function of the model's decisions has it. *)
THEOREM ArmsAreFunctions == GroupSpec => [](PauseInv /\ FunctionInv)
<1>1. GroupInit => PauseInv /\ FunctionInv
  BY InitPause, InitFunction
<1>2. PauseInv /\ FunctionInv /\ [GroupNext]_groupVars => (PauseInv /\ FunctionInv)'
  <2> SUFFICES ASSUME PauseInv, FunctionInv, [GroupNext]_groupVars PROVE (PauseInv /\ FunctionInv)'
    OBVIOUS
  <2>1. CASE GroupNext
    BY <2>1, SuperstepPause, EndArmPause, SuperstepFunction, EndArmFunction DEF GroupNext, PauseInv
  <2>2. CASE UNCHANGED groupVars
    <3>1. UNCHANGED <<queue, phase, thread, recorded, next, st>> /\ PauseInv'
      BY <2>2 DEF groupVars, run, PauseInv, QueueInv, ThreadInv, LatestIsOwn, PausesAtApproval, Arm, Agent!Over
    <3>2. UNCHANGED <<case, variant, recording, world, steps, fired, reply, answer, nodes, cache, rows>>
      BY <2>2 DEF groupVars, run
    <3>3. /\ Arm' = Arm /\ ThisRun' = ThisRun /\ ForkPoint' = ForkPoint /\ History' = History /\ Base' = Base
          /\ ModelFailed' = ModelFailed /\ (\A arm : Origin(arm)' = Origin(arm))
      BY <3>1, <3>2 DEF Arm, ThisRun, ForkPoint, History, Base, ModelFailed, Origin
    <3>4. CacheInv' = CacheInv /\ OnItsWay' = OnItsWay /\ BaselineInv' = BaselineInv /\ HistoryInv' = HistoryInv
      BY <3>1, <3>2, <3>3 DEF CacheInv, OnItsWay, BaselineInv, HistoryInv, MayDraw, StopsAtPlan
    <3>5. ControlInv' = ControlInv
      BY <3>1, <3>2, <3>3 DEF ControlInv, Typed
    <3>6. \A r : RowInv(r) => RowInv(r)'
      BY <3>1, <3>2, <3>3, EarlierRow
    <3> QED
      <4>1. ASSUME NEW i \in DOMAIN rows PROVE RowInv(rows[i])'
        <5>1. PICK r : r = rows[i]
          OBVIOUS
        <5>2. RowInv(r) /\ r = rows'[i]
          BY <3>2, <5>1 DEF FunctionInv
        <5> QED
          BY <3>6, <5>2
      <4> QED
        BY <3>1, <3>2, <3>3, <3>4, <3>5, <4>1 DEF FunctionInv
  <2> QED
    BY <2>1, <2>2
<1> QED
  BY <1>1, <1>2, PTL DEF GroupSpec

-----------------------------------------------------------------------------
(* E's fast path is the only difference between the variants of a group: a superstep of the same    *)
(* run is the same under all of them, or it takes the fast path.                                    *)
LEMMA SamePass ==
  ASSUME NEW k, NEW v \in ChangesUnderTest, NEW c, NEW t, NEW r, r.next \in GroupNodes
  PROVE  \/ Pass(k, v, c, t, r) = Pass(k, "baseline", c, t, r)
         \/ "E:damaged_fast_path" \in Pass(k, v, c, t, r).fired
<1> DEFINE s == Written(k, c, t, r)
<1>1. v \in {"baseline", "D", "E"}
  BY DEF ChangesUnderTest, CHANGES
<1>2. CASE r.next = "check_eligibility" /\ EntersFastPath(v, s)
  <2>1. "E:damaged_fast_path" \in RouteMarks(v, r.next, s)
    BY <1>2 DEF RouteMarks
  <2>2. Pass(k, v, c, t, r).fired = r.fired \cup RouteMarks(v, r.next, s)
    BY DEF Pass, Run
  <2> QED
    BY <2>1, <2>2
<1>3. CASE ~(r.next = "check_eligibility" /\ EntersFastPath(v, s))
  <2>1. Route(v, r.next, s) = Route("baseline", r.next, s)
    <3>1. CASE r.next \in {"classify_request", "lookup_order", "get_refund_history"}
      BY <1>1, <3>1 DEF Route, AfterClassify, AfterLookupNode, AfterHistory
    <3>2. CASE r.next = "check_eligibility"
      BY <1>1, <1>3, <3>2 DEF Route, AfterEligibility, EntersFastPath
    <3>3. CASE r.next \in {"compute_refund", "request_approval", "issue_refund", "respond"}
      BY <1>1, <3>3 DEF Route, AfterCompute, AfterApproval
    <3> QED
      BY <3>1, <3>2, <3>3 DEF GroupNodes, BeforePlan
  <2>2. RouteMarks(v, r.next, s) = RouteMarks("baseline", r.next, s)
    <3>1. "baseline" \in ChangesUnderTest
      BY DEF ChangesUnderTest
    <3> QED
      BY <2>1, <3>1, MarksAgree
  <2> HIDE DEF s
  <2>3. Pass(k, v, c, t, r) = Pass(k, "baseline", c, t, r)
    BY <2>1, <2>2 DEF Pass, s
  <2> QED
    BY <2>3
<1> QED
  BY <1>2, <1>3

(* The same for the superstep at one node, of runs that already are the same or took the path. *)
LEMMA SamePassAt ==
  ASSUME NEW node \in GroupNodes, NEW k, NEW v \in ChangesUnderTest, NEW c, NEW t, NEW q, NEW r,
         q = r \/ "E:damaged_fast_path" \in q.fired
  PROVE  \/ PassAt(node, k, v, c, t, q) = PassAt(node, k, "baseline", c, t, r)
         \/ "E:damaged_fast_path" \in PassAt(node, k, v, c, t, q).fired
<1>1. CASE "E:damaged_fast_path" \in q.fired
  <2>1. Pass(k, v, c, t, q).fired = q.fired \cup RouteMarks(v, q.next, Written(k, c, t, q))
    BY DEF Pass, Run
  <2> QED
    BY <1>1, <2>1 DEF PassAt
<1>2. CASE q = r
  <2>1. r.next \in GroupNodes =>
          \/ Pass(k, v, c, t, r) = Pass(k, "baseline", c, t, r)
          \/ "E:damaged_fast_path" \in Pass(k, v, c, t, r).fired
    BY SamePass
  <2> QED
    BY <1>2, <2>1 DEF PassAt
<1> QED
  BY <1>1, <1>2

(* A run of a change ends as the baseline's does, or has taken E's fast path. *)
LEMMA SameFinish ==
  ASSUME NEW k, NEW v \in ChangesUnderTest, NEW c, NEW t, NEW r
  PROVE  \/ Finish(k, v, c, t, r) = Finish(k, "baseline", c, t, r)
         \/ "E:damaged_fast_path" \in Finish(k, v, c, t, r).fired
<1> DEFINE Alike(x, y) == x = y \/ "E:damaged_fast_path" \in x.fired
           Mine(node, x) == PassAt(node, k, v, c, t, x)
           Its(node, x) == PassAt(node, k, "baseline", c, t, x)
<1>1. \A node \in GroupNodes : \A x, y : Alike(x, y) => Alike(Mine(node, x), Its(node, y))
  BY SamePassAt
<1>2. \A x : ToPlan(k, v, c, t, x) = Mine("check_eligibility", Mine("get_refund_history",
                                       Mine("lookup_order", Mine("classify_request", x))))
  BY DEF ToPlan
<1>3. \A x : ToPlan(k, "baseline", c, t, x) = Its("check_eligibility", Its("get_refund_history",
                                       Its("lookup_order", Its("classify_request", x))))
  BY DEF ToPlan
<1>4. \A x : FromPlan(k, v, c, t, x)
               = Mine("respond", Mine("issue_refund", Mine("request_approval", Mine("compute_refund", x))))
  BY DEF FromPlan
<1>5. \A x : FromPlan(k, "baseline", c, t, x)
               = Its("respond", Its("issue_refund", Its("request_approval", Its("compute_refund", x))))
  BY DEF FromPlan
<1>6. \A node \in {"classify_request", "lookup_order", "get_refund_history", "check_eligibility",
                   "compute_refund", "request_approval", "issue_refund", "respond"} : node \in GroupNodes
  BY DEF GroupNodes, BeforePlan
<1>7. \A x, y : x = y => Alike(x, y)
  OBVIOUS
<1>8. Alike(Finish(k, v, c, t, r), Finish(k, "baseline", c, t, r))
  <2> HIDE DEF Alike, Mine, Its
  <2>1. Alike(ToPlan(k, v, c, t, r), ToPlan(k, "baseline", c, t, r))
    BY <1>1, <1>2, <1>3, <1>6, <1>7
  <2>2. \A x, y : Alike(x, y) => Alike(FromPlan(k, v, c, t, x), FromPlan(k, "baseline", c, t, y))
    BY <1>1, <1>4, <1>5, <1>6
  <2> QED
    BY <2>1, <2>2 DEF Finish
<1> QED
  BY <1>8

-----------------------------------------------------------------------------
(* A row says how its run ended, when the model answered to the end. *)
LEMMA RowReports ==
  ASSUME NEW row, RowInv(row), ~row.inherited, row.ended # "model_failed",
         NEW c \in Agent!Classification, ~Forking(row.arm) => row.classify = c
  PROVE  /\ row.planned \in RefundTypes \cup {None}
         /\ \A t \in RefundTypes : row.planned \in {None, t} =>
              Reports(row, Finish(case, row.change, c, t, Origin(row.arm)))
BY DEF RowInv

(* Rows that report the same end show the same outcome and the same markers. *)
LEMMA SameReport ==
  ASSUME NEW a, NEW b, NEW r, Reports(a, r), Reports(b, r)
  PROVE  Outcome(a) = Outcome(b) /\ a.fired = b.fired
BY DEF Reports, Outcome

(* A paired fork of any change ends as a full rerun of it that decides alike. *)
LEMMA ForkOrigin ==
  ASSUME HistoryInv, ForkPoint # None, NEW v \in ChangesUnderTest, NEW t \in RefundTypes
  PROVE  /\ Base.classify \in Agent!Classification
         /\ Finish(case, v, Base.classify, t, Origin("fork")) = Finish(case, v, Base.classify, t, Fresh(case))
<1> DEFINE c == Base.classify
           f == Forked(ForkPoint, ForkPoint.snapshot, Base.nodes)
<1>1. Origin("fork") = f
  BY DEF Origin, Forking, ForkWorld
<1>2. c \in Agent!Classification /\ f = ToPlan(case, v, c, t, Fresh(case)) /\ ForkPoint.next = "compute_refund"
  BY DEF HistoryInv, StopsAtPlan
<1>3. f.next = "compute_refund"
  BY <1>2 DEF Forked, Run
<1> HIDE DEF f
<1>4. ToPlan(case, v, c, t, f) = f
  BY <1>3, AtThePlan
<1> QED
  BY <1>1, <1>2, <1>4 DEF Finish

-----------------------------------------------------------------------------
(* Wherever there is a row, the baseline has ended. *)
LEMMA RowsFollowTheBaseline ==
  ASSUME FunctionInv, NEW i \in DOMAIN rows
  PROVE  /\ HistoryInv /\ RowInv(rows[i]) /\ RowInv(Base) /\ ~Base.inherited /\ Base.arm = "baseline"
         /\ Base.change = "baseline"
<1>1. HistoryInv
  BY DEF FunctionInv, BaselineInv
<1>2. 1 \in DOMAIN rows
  <2>1. rows \in Seq(Range(rows)) /\ rows # << >>
    BY <1>1 DEF FunctionInv, HistoryInv
  <2> QED
    BY <2>1
<1> QED
  BY <1>1, <1>2 DEF FunctionInv, HistoryInv, Base

(* A paired fork and the full rerun of its change report the same end. *)
LEMMA PairedForkAgrees ==
  ASSUME FunctionInv
  PROVE  PairedForkIsFullRun
<1> SUFFICES ASSUME NEW change \in ChangesUnderTest, NEW f \in Of("full", change), NEW k \in Of("fork", change),
                    ~rows[k].inherited, rows[f].classify = Base.classify, rows[f].planned = rows[k].planned,
                    rows[f].ended # "model_failed", rows[k].ended # "model_failed"
             PROVE  Outcome(rows[f]) = Outcome(rows[k]) /\ rows[f].fired = rows[k].fired
  BY DEF PairedForkIsFullRun
<1> DEFINE c == Base.classify
           t == rows[k].planned
<1>1. /\ f \in DOMAIN rows /\ rows[f].arm = "full" /\ rows[f].change = change
      /\ k \in DOMAIN rows /\ rows[k].arm = "fork" /\ rows[k].change = change
  BY DEF Of
<1>2. HistoryInv /\ RowInv(rows[f]) /\ RowInv(rows[k])
  BY <1>1, RowsFollowTheBaseline
<1>3. ~rows[f].inherited /\ ForkPoint # None /\ t \in RefundTypes
  BY <1>1, <1>2 DEF RowInv, Forking
<1>4. /\ c \in Agent!Classification
      /\ Finish(case, change, c, t, Origin("fork")) = Finish(case, change, c, t, Fresh(case))
  BY <1>2, <1>3, ForkOrigin
<1>5. Reports(rows[k], Finish(case, change, c, t, Origin("fork")))
  BY <1>1, <1>2, <1>3, <1>4, RowReports DEF Forking
<1>6. Reports(rows[f], Finish(case, change, c, t, Origin("full")))
  BY <1>1, <1>2, <1>3, <1>4, RowReports DEF Forking
<1>7. Origin("full") = Fresh(case)
  BY DEF Origin, Forking
<1> QED
  BY <1>4, <1>5, <1>6, <1>7, SameReport

(* The baseline's row, for a plan it may have made. *)
LEMMA BaselineReports ==
  ASSUME FunctionInv, rows # << >>, Base.ended = "done"
  PROVE  /\ Base.classify \in Agent!Classification /\ Base.planned \in RefundTypes \cup {None}
         /\ \A t \in RefundTypes : Base.planned \in {None, t} =>
              Reports(Base, Finish(case, "baseline", Base.classify, t, Fresh(case)))
<1>1. 1 \in DOMAIN rows
  <2>1. rows \in Seq(Range(rows))
    BY DEF FunctionInv
  <2> QED
    BY <2>1
<1>2. RowInv(Base) /\ ~Base.inherited /\ Base.arm = "baseline" /\ Base.change = "baseline"
  BY <1>1, RowsFollowTheBaseline
<1>3. Base.classify \in Agent!Classification
  BY <1>2 DEF RowInv, Forking
<1>4. Origin("baseline") = Fresh(case)
  BY DEF Origin, Forking
<1> QED
  BY <1>2, <1>3, <1>4, RowReports

(* An inherited verdict that the routing check calls valid is. *)
LEMMA InheritedAgrees ==
  ASSUME FunctionInv
  PROVE  InheritedVerdictHolds
<1> SUFFICES ASSUME NEW change \in ChangesUnderTest, NEW f \in Of("full", change), NEW k \in Of("fork", change),
                    rows[k].inherited, rows[k].routing_ok, rows[f].classify = Base.classify,
                    rows[f].ended # "model_failed"
             PROVE  Outcome(rows[f]) = Outcome(rows[k])
  BY DEF InheritedVerdictHolds
<1> DEFINE c == Base.classify
<1>1. /\ f \in DOMAIN rows /\ rows[f].arm = "full" /\ rows[f].change = change
      /\ k \in DOMAIN rows /\ rows[k].arm = "fork" /\ rows[k].change = change
  BY DEF Of
<1>2. HistoryInv /\ RowInv(rows[f]) /\ RowInv(rows[k])
  BY <1>1, RowsFollowTheBaseline
<1>3. /\ ~rows[f].inherited /\ Outcome(rows[k]) = Outcome(Base) /\ ForkPoint = None
      /\ recorded # 0 /\ CheckRouting(History, change, None)
  BY <1>1, <1>2 DEF RowInv, Forking
<1>4. rows # << >> /\ Base.ended = "done" /\ Base.planned = None
  BY <1>2, <1>3 DEF HistoryInv
<1>5. /\ c \in Agent!Classification
      /\ \A t \in RefundTypes : Reports(Base, Finish(case, "baseline", c, t, Fresh(case)))
  BY <1>4, BaselineReports
<1>6. \A t \in RefundTypes : Finish(case, change, c, t, Fresh(case)) = Finish(case, "baseline", c, t, Fresh(case))
  BY <1>2, <1>3, <1>4 DEF HistoryInv
<1>7. Origin("full") = Fresh(case)
  BY DEF Origin, Forking
<1>8. /\ rows[f].planned \in RefundTypes \cup {None}
      /\ \A t \in RefundTypes : rows[f].planned \in {None, t} => Reports(rows[f], Finish(case, change, c, t, Fresh(case)))
  BY <1>1, <1>2, <1>3, <1>5, <1>7, RowReports DEF Forking
<1>9. PICK t \in RefundTypes : rows[f].planned \in {None, t}
  <2>1. "full" \in RefundTypes
    BY DEF RefundTypes
  <2> QED
    BY <1>8, <2>1
<1>10. Reports(rows[f], Finish(case, "baseline", c, t, Fresh(case)))
  BY <1>6, <1>8, <1>9
<1> QED
  BY <1>3, <1>5, <1>10, SameReport

(* An arm that draws what the baseline drew ends as it did, but for the fast path. *)
LEMMA SameDrawsAgree ==
  ASSUME FunctionInv
  PROVE  SameDrawsSameOutcome
<1> SUFFICES ASSUME NEW i \in DOMAIN rows, Base.ended = "done", rows[i].arm \in {"full", "fork"},
                    rows[i].ended # "model_failed", rows[i].classify = Base.classify \/ rows[i].arm = "fork",
                    rows[i].planned = Base.planned
             PROVE  Outcome(rows[i]) = Outcome(Base) \/ "E:damaged_fast_path" \in rows[i].fired
  BY DEF SameDrawsSameOutcome
<1> DEFINE c == Base.classify
           v == rows[i].change
<1>1. HistoryInv /\ RowInv(rows[i]) /\ rows # << >>
  BY RowsFollowTheBaseline DEF HistoryInv
<1>2. CASE rows[i].inherited
  BY <1>1, <1>2 DEF RowInv
<1>3. CASE ~rows[i].inherited
  <2>1. /\ c \in Agent!Classification /\ Base.planned \in RefundTypes \cup {None}
        /\ \A t \in RefundTypes : Base.planned \in {None, t} => Reports(Base, Finish(case, "baseline", c, t, Fresh(case)))
    BY <1>1, BaselineReports
  <2>2. PICK t \in RefundTypes : Base.planned \in {None, t}
    <3>1. "full" \in RefundTypes
      BY DEF RefundTypes
    <3> QED
      BY <2>1, <3>1
  <2>3. v \in ChangesUnderTest
    BY <1>1 DEF RowInv
  <2>4. Reports(rows[i], Finish(case, v, c, t, Origin(rows[i].arm)))
    BY <1>1, <1>3, <2>1, <2>2, RowReports DEF Forking
  <2>5. Finish(case, v, c, t, Origin(rows[i].arm)) = Finish(case, v, c, t, Fresh(case))
    <3>1. CASE rows[i].arm = "full"
      BY <3>1 DEF Origin, Forking
    <3>2. CASE rows[i].arm = "fork"
      <4>1. ForkPoint # None
        BY <1>1, <1>3, <3>2 DEF RowInv, Forking
      <4> QED
        BY <1>1, <2>3, <3>2, <4>1, ForkOrigin
    <3> QED
      BY <3>1, <3>2
  <2>6. \/ Finish(case, v, c, t, Fresh(case)) = Finish(case, "baseline", c, t, Fresh(case))
        \/ "E:damaged_fast_path" \in Finish(case, v, c, t, Fresh(case)).fired
    BY <2>3, SameFinish
  <2>7. Reports(Base, Finish(case, "baseline", c, t, Fresh(case)))
    BY <2>1, <2>2
  <2>8. Reports(rows[i], Finish(case, v, c, t, Fresh(case)))
    BY <2>4, <2>5
  <2>9. rows[i].fired = Finish(case, v, c, t, Fresh(case)).fired
    BY <2>8 DEF Reports
  <2>10. CASE Finish(case, v, c, t, Fresh(case)) = Finish(case, "baseline", c, t, Fresh(case))
    BY <2>7, <2>8, <2>10, SameReport
  <2> QED
    BY <2>6, <2>9, <2>10
<1> QED
  BY <1>2, <1>3

(* A paired fork is a full rerun minus its upstream draws, for every case, list of changes and      *)
(* recursion limit (docs/fork-validity.md).                                                         *)
THEOREM PairedForksAreFullRuns == GroupSpec => []PairedForkIsFullRun
<1>1. PauseInv /\ FunctionInv => PairedForkIsFullRun
  BY PairedForkAgrees
<1> QED
  BY <1>1, ArmsAreFunctions, PTL

(* A fork arm that inherits the baseline's verdict under a routing check that holds has the verdict *)
(* of the full rerun (evals/runner_part2.py:17-19).                                                 *)
THEOREM InheritedVerdictsHold == GroupSpec => []InheritedVerdictHolds
<1>1. PauseInv /\ FunctionInv => InheritedVerdictHolds
  BY InheritedAgrees
<1> QED
  BY <1>1, ArmsAreFunctions, PTL

(* The no-op control drifts by what the model draws alone (evals/runner_part2.py:49-51).            *)
THEOREM SameDrawsEndAlike == GroupSpec => []SameDrawsSameOutcome
<1>1. PauseInv /\ FunctionInv => SameDrawsSameOutcome
  BY SameDrawsAgree
<1> QED
  BY <1>1, ArmsAreFunctions, PTL

-----------------------------------------------------------------------------
(* Refunds under ids that are d higher. *)
Renumbered(refunds, d) == [i \in DOMAIN refunds |-> [refunds[i] EXCEPT !.id = @ + d]]

(* Runs x and y make the same decisions on worlds that started as w0 and w1. *)
Twin(x, y, w0, w1, d) ==
  /\ Typed(x) /\ Typed(y)
  /\ y.next = x.next /\ y.phase = x.phase /\ y.steps = x.steps /\ y.nodes = x.nodes
  /\ y.st.order = x.st.order /\ y.st.order_id = x.st.order_id /\ y.st.approval = x.st.approval
  /\ y.st.refund_type = x.st.refund_type /\ y.st.refund_amount = x.st.refund_amount
  /\ y.world.refunds = w1.refunds \o Renumbered(x.world.refunds, d)
  /\ y.world.next_refund = x.world.next_refund + d
  /\ \E calls \in Seq(ToolCall) : x.world.log = w0.log \o calls /\ y.world.log = w1.log \o calls

FromPlanNodes == {"compute_refund", "request_approval", "issue_refund", "respond"}

(* What comes last in the second of two sequences comes last. *)
LEMMA ConcatAppend ==
  ASSUME NEW S, NEW a \in Seq(S), NEW b \in Seq(S), NEW e \in S
  PROVE  a \o Append(b, e) = Append(a \o b, e)
OBVIOUS

(* One more refund is renumbered as the earlier ones. *)
LEMMA RenumberedAppend ==
  ASSUME NEW refunds \in Seq(RefundRow), NEW row \in RefundRow, NEW d \in Int, NEW left \in Seq(RefundRow)
  PROVE  left \o Renumbered(Append(refunds, row), d)
           = Append(left \o Renumbered(refunds, d), [row EXCEPT !.id = @ + d])
<1> DEFINE S == [id: Int, order: OrderIds, type: RefundTypes, amount: Nat]
           R == Renumbered(refunds, d)
           e == [row EXCEPT !.id = @ + d]
           n == Len(refunds)
           A == Renumbered(Append(refunds, row), d)
<1>1. n \in Nat /\ DOMAIN refunds = 1..n
  OBVIOUS
<1>2. ASSUME NEW r \in RefundRow PROVE [r EXCEPT !.id = @ + d] \in S
  <2>1. r.id + d \in Int
    BY DEF RefundRow
  <2> QED
    BY <2>1 DEF RefundRow
<1>3. R \in [1..n -> S] /\ e \in S /\ left \in Seq(S)
  <2>1. \A r \in RefundRow : r \in S
    BY DEF RefundRow
  <2>2. left \in Seq(S)
    <3> HIDE DEF S
    <3> QED
      BY <2>1
  <2>3. \A i \in 1..n : refunds[i] \in RefundRow
    OBVIOUS
  <2>4. R = [i \in 1..n |-> [refunds[i] EXCEPT !.id = @ + d]]
    BY <1>1 DEF Renumbered
  <2> HIDE DEF S, R
  <2>5. R \in [1..n -> S]
    BY <1>2, <2>3, <2>4
  <2> QED
    BY <1>2, <2>2, <2>5
<1>4. A = Append(R, e)
  <2>1. Append(refunds, row) \in Seq(RefundRow) /\ DOMAIN Append(refunds, row) = 1..(n + 1)
    OBVIOUS
  <2>2. A = [i \in 1..(n + 1) |-> [Append(refunds, row)[i] EXCEPT !.id = @ + d]]
    BY <2>1 DEF Renumbered
  <2>3. \A i \in 1..n : Append(refunds, row)[i] = refunds[i]
    OBVIOUS
  <2>4. Append(refunds, row)[n + 1] = row
    OBVIOUS
  <2>5. R = [i \in 1..n |-> [refunds[i] EXCEPT !.id = @ + d]]
    BY <1>1 DEF Renumbered
  <2>6. \A i \in 1..n : A[i] = R[i]
    BY <1>1, <2>2, <2>3, <2>5
  <2>7. A[n + 1] = e
    BY <1>1, <2>2, <2>4
  <2> HIDE DEF A, R, e, n, S
  <2>8. R \in Seq(S) /\ Len(R) = n
    BY <1>1, <1>3
  <2>9. /\ DOMAIN Append(R, e) = 1..(n + 1) /\ Append(R, e) = [i \in 1..(n + 1) |-> Append(R, e)[i]]
        /\ \A i \in 1..(n + 1) : Append(R, e)[i] = IF i <= n THEN R[i] ELSE e
    <3>1. Append(R, e) \in Seq(S) /\ Len(Append(R, e)) = n + 1
          /\ (\A i \in 1..n : Append(R, e)[i] = R[i]) /\ Append(R, e)[n + 1] = e
      BY <1>3, <2>8, AppendProperties
    <3>2. DOMAIN Append(R, e) = 1..(n + 1) /\ Append(R, e) = [i \in 1..(n + 1) |-> Append(R, e)[i]]
      <4> DEFINE a == Append(R, e)
      <4>1. a \in Seq(S) /\ Len(a) = n + 1
        BY <3>1
      <4> HIDE DEF a
      <4>2. DOMAIN a = 1..(n + 1) /\ a = [i \in 1..(n + 1) |-> a[i]]
        BY <4>1
      <4> QED
        BY <4>2 DEF a
    <3>3. \A i \in 1..(n + 1) : (i <= n => i \in 1..n) /\ (~(i <= n) => i = n + 1)
      BY <1>1
    <3> QED
      BY <3>1, <3>2, <3>3
  <2>10. DOMAIN A = 1..(n + 1) /\ A = [i \in 1..(n + 1) |-> A[i]]
    BY <2>2
  <2>11. \A i \in 1..(n + 1) : A[i] = IF i <= n THEN R[i] ELSE e
    BY <1>1, <2>6, <2>7
  <2> QED
    BY <2>9, <2>10, <2>11
<1> HIDE DEF S, R, e, A, n
<1>5. R \in Seq(S)
  BY <1>1, <1>3
<1>6. left \o Append(R, e) = Append(left \o R, e)
  BY <1>3, <1>5, ConcatAppend
<1> QED
  BY <1>4, <1>6 DEF A, R, e

(* A superstep below the plan keeps runs with the same decisions alike. *)
LEMMA TwinPass ==
  ASSUME NEW k \in Case, NEW v \in ChangesUnderTest, NEW c, NEW t \in RefundTypes, NEW x, NEW y,
         NEW w0 \in World, NEW w1 \in World, NEW d \in Int, Twin(x, y, w0, w1, d), x.next \in FromPlanNodes
  PROVE  Twin(Pass(k, v, c, t, x), Pass(k, v, c, t, y), w0, w1, d)
<1> DEFINE p == Pass(k, v, c, t, x)
           q == Pass(k, v, c, t, y)
           s == Written(k, c, t, x)
           u == Written(k, c, t, y)
           Status(n, to) == IF n > RECURSION_LIMIT THEN "crashed" ELSE IF to = "END" THEN "done" ELSE "running"
           Budget(r) == IF r.next = "request_approval" THEN 1 ELSE r.steps + 1
<1>0. v \in {"baseline", "D", "E"}
  BY DEF ChangesUnderTest, CHANGES
<1>1. /\ p.st = s /\ p.world = Called(k, x) /\ p.next = Route(v, x.next, s) /\ p.nodes = Append(x.nodes, x.next)
      /\ p.steps = Budget(x) /\ p.phase = Status(Budget(x), Route(v, x.next, s))
      /\ q.st = u /\ q.world = Called(k, y) /\ q.next = Route(v, y.next, u) /\ q.nodes = Append(y.nodes, y.next)
      /\ q.steps = Budget(y) /\ q.phase = Status(Budget(y), Route(v, y.next, u))
  BY DEF Pass, Run
<1>2. Typed(x) /\ Typed(y) /\ y.next = x.next /\ x.next \in GroupNodes /\ x.next # "classify_request"
      /\ y.steps = x.steps /\ y.nodes = x.nodes
  BY DEF Twin, FromPlanNodes, GroupNodes, BeforePlan
<1>3. Typed(p) /\ Typed(q)
  BY <1>2, PassTyped
<1>4. x.st \in RefundState /\ y.st \in RefundState /\ x.world \in World /\ y.world \in World
  BY <1>2 DEF Typed
<1>5. PICK calls \in Seq(ToolCall) : x.world.log = w0.log \o calls /\ y.world.log = w1.log \o calls
  BY DEF Twin
<1>6. /\ y.st.order = x.st.order /\ y.st.order_id = x.st.order_id /\ y.st.approval = x.st.approval
      /\ y.st.refund_type = x.st.refund_type /\ y.st.refund_amount = x.st.refund_amount
      /\ y.world.refunds = w1.refunds \o Renumbered(x.world.refunds, d)
      /\ y.world.next_refund = x.world.next_refund + d
  BY DEF Twin
<1> HIDE DEF p, q, s, u, Status, Count
<1>7. /\ u.order = s.order /\ u.order_id = s.order_id /\ u.approval = s.approval
      /\ u.refund_type = s.refund_type /\ u.refund_amount = s.refund_amount
  <2>1. CASE x.next = "compute_refund"
    <3>1. /\ s = [x.st EXCEPT !.refund_type = t, !.refund_amount = RefundAmount(t, x.st.order.price)]
          /\ u = [y.st EXCEPT !.refund_type = t, !.refund_amount = RefundAmount(t, y.st.order.price)]
      BY <1>2, <2>1 DEF s, u, Written
    <3> QED
      BY <1>4, <1>6, <3>1 DEF RefundState
  <2>2. CASE x.next = "request_approval"
    <3>1. s = [x.st EXCEPT !.approval = Given(k)] /\ u = [y.st EXCEPT !.approval = Given(k)]
      BY <1>2, <2>2 DEF s, u, Written
    <3> QED
      BY <1>4, <1>6, <3>1 DEF RefundState
  <2>3. CASE x.next = "issue_refund"
    <3>1. IF Fails(k, "issue_refund")
          THEN s = [x.st EXCEPT !.error = "issue_refund"] /\ u = [y.st EXCEPT !.error = "issue_refund"]
          ELSE s = [x.st EXCEPT !.refund_id = x.world.next_refund] /\ u = [y.st EXCEPT !.refund_id = y.world.next_refund]
      BY <1>2, <2>3 DEF s, u, Written
    <3> QED
      BY <1>4, <1>6, <3>1 DEF RefundState
  <2>4. CASE x.next = "respond"
    <3>1. s = x.st /\ u = y.st
      BY <1>2, <2>4 DEF s, u, Written
    <3> QED
      BY <1>6, <3>1
  <2> QED
    BY <2>1, <2>2, <2>3, <2>4 DEF FromPlanNodes
<1>8. Route(v, y.next, u) = Route(v, x.next, s)
  BY <1>0, <1>2, <1>7 DEF Route, AfterCompute, AfterApproval, FromPlanNodes
<1>9. q.next = p.next /\ q.phase = p.phase /\ q.steps = p.steps /\ q.nodes = p.nodes
  BY <1>1, <1>2, <1>8 DEF Count
<1>10. /\ q.world.refunds = w1.refunds \o Renumbered(p.world.refunds, d)
       /\ q.world.next_refund = p.world.next_refund + d
       /\ \E more \in Seq(ToolCall) : p.world.log = w0.log \o more /\ q.world.log = w1.log \o more
  <2>1. CASE x.next # "issue_refund"
    <3>1. p.world = x.world /\ q.world = y.world
      BY <1>1, <1>2, <2>1 DEF Called, FromPlanNodes
    <3> QED
      BY <1>5, <1>6, <3>1
  <2>2. CASE x.next = "issue_refund"
    <3> DEFINE e == [name |-> "issue_refund", ok |-> ~Fails(k, "issue_refund")]
               more == Append(calls, e)
               row(r) == [id |-> r.world.next_refund, order |-> r.st.order_id,
                          type |-> r.st.refund_type, amount |-> r.st.refund_amount]
    <3>1. /\ p.world = AfterIssue(x.world, k, x.st.order_id, x.st.refund_type, x.st.refund_amount)
          /\ q.world = AfterIssue(y.world, k, y.st.order_id, y.st.refund_type, y.st.refund_amount)
      BY <1>1, <1>2, <2>2 DEF Called
    <3>2. /\ p.world.log = Append(x.world.log, e) /\ q.world.log = Append(y.world.log, e)
          /\ p.world.next_refund = (IF Fails(k, "issue_refund") THEN x.world.next_refund ELSE x.world.next_refund + 1)
          /\ q.world.next_refund = (IF Fails(k, "issue_refund") THEN y.world.next_refund ELSE y.world.next_refund + 1)
          /\ p.world.refunds = (IF Fails(k, "issue_refund") THEN x.world.refunds ELSE Append(x.world.refunds, row(x)))
          /\ q.world.refunds = (IF Fails(k, "issue_refund") THEN y.world.refunds ELSE Append(y.world.refunds, row(y)))
      BY <1>4, <3>1 DEF AfterIssue, Logged, World
    <3>3. e \in ToolCall /\ more \in Seq(ToolCall)
      <4>1. e \in ToolCall
        BY DEF ToolCall, ToolNames
      <4> HIDE DEF e
      <4> QED
        BY <4>1
    <3>4. w0.log \o more = Append(w0.log \o calls, e) /\ w1.log \o more = Append(w1.log \o calls, e)
      <4>1. w0.log \in Seq(ToolCall) /\ w1.log \in Seq(ToolCall)
        BY DEF World
      <4> HIDE DEF e
      <4>2. e \in ToolCall /\ calls \in Seq(ToolCall)
        BY <1>5, <3>3
      <4>3. \A a \in Seq(ToolCall), b \in Seq(ToolCall), z \in ToolCall : a \o Append(b, z) = Append(a \o b, z)
        BY ConcatAppend
      <4>4. w0.log \o Append(calls, e) = Append(w0.log \o calls, e) /\ w1.log \o Append(calls, e) = Append(w1.log \o calls, e)
        BY <4>1, <4>2, <4>3
      <4> QED
        BY <4>4
    <3>5. /\ x.st.order_id \in OrderIds /\ x.st.refund_type \in RefundTypes /\ x.st.refund_amount \in Nat
      BY <1>2, <1>4, <2>2 DEF Typed, RefundState, GroupNodes, BeforePlan
    <3>6. row(x) \in RefundRow /\ x.world.refunds \in Seq(RefundRow) /\ w1.refunds \in Seq(RefundRow)
          /\ x.world.next_refund \in Nat
      BY <1>4, <3>5 DEF RefundRow, World
    <3>7. row(y) = [row(x) EXCEPT !.id = @ + d]
      BY <1>6, <3>6
    <3>8. w1.refunds \o Renumbered(Append(x.world.refunds, row(x)), d)
            = Append(w1.refunds \o Renumbered(x.world.refunds, d), row(y))
      <4> DEFINE mine == row(x)
                 its == row(y)
                 refunds == x.world.refunds
      <4>1. mine \in RefundRow /\ refunds \in Seq(RefundRow) /\ w1.refunds \in Seq(RefundRow)
        BY <3>6
      <4>2. its = [mine EXCEPT !.id = @ + d]
        BY <3>7
      <4> HIDE DEF mine, its, refunds
      <4>3. \A a \in Seq(RefundRow), b \in Seq(RefundRow), z \in RefundRow :
              a \o Renumbered(Append(b, z), d) = Append(a \o Renumbered(b, d), [z EXCEPT !.id = @ + d])
        BY RenumberedAppend
      <4>4. w1.refunds \o Renumbered(Append(refunds, mine), d) = Append(w1.refunds \o Renumbered(refunds, d), its)
        BY <4>1, <4>2, <4>3, Zenon
      <4> QED
        BY <4>4 DEF mine, its, refunds
    <3>9. q.world.refunds = w1.refunds \o Renumbered(p.world.refunds, d)
      <4> HIDE DEF row
      <4> QED
        BY <1>6, <3>2, <3>8
    <3>10. q.world.next_refund = p.world.next_refund + d
      BY <1>6, <3>2, <3>6
    <3> QED
      BY <1>5, <3>2, <3>3, <3>4, <3>9, <3>10
  <2> QED
    BY <2>1, <2>2
<1> QED
  BY <1>1, <1>3, <1>7, <1>9, <1>10 DEF Twin, p, q

(* From the plan on, runs with the same decisions stay alike. *)
LEMMA TwinFromPlan ==
  ASSUME NEW k \in Case, NEW v \in ChangesUnderTest, NEW c, NEW t \in RefundTypes, NEW x, NEW y,
         NEW w0 \in World, NEW w1 \in World, NEW d \in Int, Twin(x, y, w0, w1, d)
  PROVE  Twin(FromPlan(k, v, c, t, x), FromPlan(k, v, c, t, y), w0, w1, d)
<1> DEFINE At(node, r) == PassAt(node, k, v, c, t, r)
           Alike(p, q) == Twin(p, q, w0, w1, d)
<1>1. ASSUME NEW node \in FromPlanNodes, NEW p, NEW q, Alike(p, q)
      PROVE  Alike(At(node, p), At(node, q))
  <2>1. q.next = p.next /\ q.phase = p.phase
    BY <1>1 DEF Twin
  <2>2. CASE p.phase = "running" /\ p.next = node
    <3>1. Alike(Pass(k, v, c, t, p), Pass(k, v, c, t, q))
      BY <1>1, <2>2, TwinPass
    <3> QED
      BY <2>1, <2>2, <3>1 DEF PassAt
  <2>3. CASE ~(p.phase = "running" /\ p.next = node)
    <3>1. At(node, p) = p /\ At(node, q) = q
      BY <2>1, <2>3 DEF PassAt
    <3> QED
      BY <1>1, <3>1
  <2> QED
    BY <2>2, <2>3
<1>2. \A r : FromPlan(k, v, c, t, r)
               = At("respond", At("issue_refund", At("request_approval", At("compute_refund", r))))
  BY DEF FromPlan
<1>3. \A node \in {"compute_refund", "request_approval", "issue_refund", "respond"} : node \in FromPlanNodes
  BY DEF FromPlanNodes
<1>4. Alike(x, y)
  OBVIOUS
<1> HIDE DEF At, Alike
<1>5. Alike(At("compute_refund", x), At("compute_refund", y))
  BY <1>1, <1>3, <1>4
<1>6. Alike(At("request_approval", At("compute_refund", x)), At("request_approval", At("compute_refund", y)))
  BY <1>1, <1>3, <1>5
<1>7. Alike(At("issue_refund", At("request_approval", At("compute_refund", x))),
            At("issue_refund", At("request_approval", At("compute_refund", y))))
  BY <1>1, <1>3, <1>6
<1>8. Alike(At("respond", At("issue_refund", At("request_approval", At("compute_refund", x)))),
            At("respond", At("issue_refund", At("request_approval", At("compute_refund", y)))))
  BY <1>1, <1>3, <1>7
<1> QED
  BY <1>2, <1>8 DEF Alike

(* Above the plan nothing is refunded. *)
LEMMA UpstreamLedger ==
  ASSUME NEW k \in Case, NEW v \in ChangesUnderTest, NEW c \in Agent!Classification, NEW t \in RefundTypes,
         NEW r, Typed(r)
  PROVE  Typed(ToPlan(k, v, c, t, r)) /\ ToPlan(k, v, c, t, r).world.refunds = r.world.refunds
<1> DEFINE At(node, x) == PassAt(node, k, v, c, t, x)
           Alike(x) == Typed(x) /\ x.world.refunds = r.world.refunds
           Above == {"classify_request", "lookup_order", "get_refund_history", "check_eligibility"}
<1>1. ASSUME NEW node \in Above, NEW x, Alike(x)
      PROVE  Alike(At(node, x))
  <2>1. CASE ~(x.phase = "running" /\ x.next = node)
    BY <1>1, <2>1 DEF PassAt
  <2>2. CASE x.phase = "running" /\ x.next = node
    <3>1. At(node, x) = Pass(k, v, c, t, x) /\ x.next \in Above
      BY <2>2 DEF PassAt
    <3>2. x.next \in GroupNodes /\ c \in [intent: Intents, order_id: OrderIds \cup {None}]
      BY <3>1 DEF GroupNodes, BeforePlan, Agent!Classification, Agent!Intents, Intents
    <3>3. Typed(Pass(k, v, c, t, x))
      BY <1>1, <3>2, PassTyped
    <3>4. Pass(k, v, c, t, x).world = Called(k, x)
      BY DEF Pass, Run
    <3>5. Called(k, x).refunds = x.world.refunds
      <4>1. x.world \in World
        BY <1>1 DEF Typed
      <4>2. CASE x.next = "classify_request"
        BY <4>2 DEF Called
      <4>3. CASE x.next = "lookup_order"
        <5>1. x.st.order_id \in OrderIds
          BY <1>1, <4>3 DEF Typed, GroupNodes, BeforePlan, RefundState
        <5>2. Called(k, x) = AfterLookup(x.world, k, x.st.order_id)
          BY <4>3 DEF Called
        <5> QED
          BY <4>1, <5>1, <5>2, LookupFacts
      <4>4. CASE x.next \in {"get_refund_history", "check_eligibility"}
        <5>1. Called(k, x) = Logged(x.world, k, x.next) /\ x.next \in ToolNames
          BY <4>4 DEF Called, ToolNames
        <5> QED
          BY <4>1, <5>1, LoggedFacts
      <4> QED
        BY <3>1, <4>2, <4>3, <4>4
    <3> QED
      BY <1>1, <3>1, <3>3, <3>4, <3>5
  <2> QED
    BY <2>1, <2>2
<1>2. ToPlan(k, v, c, t, r) = At("check_eligibility", At("get_refund_history",
                                At("lookup_order", At("classify_request", r))))
  BY DEF ToPlan
<1>3. Alike(r)
  OBVIOUS
<1> HIDE DEF At, Kept
<1>4. Alike(At("classify_request", r))
  BY <1>1, <1>3
<1>5. Alike(At("lookup_order", At("classify_request", r)))
  BY <1>1, <1>4
<1>6. Alike(At("get_refund_history", At("lookup_order", At("classify_request", r))))
  BY <1>1, <1>5
<1>7. Alike(ToPlan(k, v, c, t, r))
  BY <1>1, <1>2, <1>6
<1> QED
  BY <1>7 DEF Alike

(* The fork point was before any refund. *)
LEMMA PointLedger ==
  ASSUME HistoryInv, ForkPoint # None
  PROVE  ForkPoint.snapshot \in World /\ ForkPoint.snapshot.refunds = << >>
<1> DEFINE f == Forked(ForkPoint, ForkPoint.snapshot, Base.nodes)
           c == Base.classify
<1>1. c \in Agent!Classification /\ Typed(f)
      /\ \A v \in ChangesUnderTest, t \in RefundTypes : f = ToPlan(case, v, c, t, Fresh(case))
  BY DEF HistoryInv, StopsAtPlan
<1>2. "baseline" \in ChangesUnderTest /\ "full" \in RefundTypes /\ case \in Case
  BY GroupAssumption DEF ChangesUnderTest, RefundTypes, HistoryInv
<1>3. f = ToPlan(case, "baseline", c, "full", Fresh(case))
  BY <1>1, <1>2
<1>4. f.world = ForkPoint.snapshot
  BY DEF Forked, Run
<1>5. Typed(Fresh(case)) /\ Fresh(case).world.refunds = << >>
  BY FreshTyped DEF Fresh, Run, SeedWorld, HistoryInv
<1>6. f.world.refunds = Fresh(case).world.refunds
  <2> HIDE DEF f, c
  <2> QED
    BY <1>1, <1>2, <1>3, <1>5, UpstreamLedger
<1> HIDE DEF f
<1> QED
  BY <1>1, <1>4, <1>5, <1>6 DEF Typed


(* The second of two sequences is what follows the first. *)
LEMMA SecondPart ==
  ASSUME NEW S, NEW a \in Seq(S), NEW b \in Seq(S)
  PROVE  SubSeq(a \o b, Len(a) + 1, Len(a \o b)) = b
<1> DEFINE m == Len(a)
           n == Len(b)
           u == a \o b
           r == SubSeq(u, m + 1, m + n)
<1>1. m \in Nat /\ n \in Nat /\ DOMAIN b = 1..n /\ b = [i \in 1..n |-> b[i]]
  OBVIOUS
<1>2. u \in Seq(S) /\ Len(u) = m + n /\ \A i \in 1..m + n : u[i] = IF i <= m THEN a[i] ELSE b[i - m]
  BY ConcatProperties
<1> HIDE DEF m, n, u
<1>3. /\ r = [i \in 1..(m + n) - (m + 1) + 1 |-> u[i + (m + 1) - 1]]
  BY <1>1, <1>2
<1>4. (m + n) - (m + 1) + 1 = n /\ \A i \in 1..n : i + (m + 1) - 1 = m + i /\ m + i \in 1..m + n /\ ~(m + i <= m) /\ (m + i) - m = i
  BY <1>1
<1>5. \A i \in 1..n : u[i + (m + 1) - 1] = b[i]
  BY <1>2, <1>4
<1> QED
  BY <1>1, <1>2, <1>3, <1>4, <1>5 DEF m, u, n

(* A naive fork that decides as the paired fork does adds the paired fork's effects to what the     *)
(* baseline left.                                                                                   *)
LEMMA NaiveForkAgrees ==
  ASSUME FunctionInv
  PROVE  NaiveForkAddsToWhatWasLeft
<1> SUFFICES ASSUME NEW change \in ChangesUnderTest, NEW k \in Of("fork", change), NEW n \in Of("fork_naive", change),
                    ~rows[k].inherited, rows[k].ended = "done", rows[n].ended = "done",
                    rows[k].planned = rows[n].planned
             PROVE  LET before == FindForkPoint(History, CHANGED_NODE[change]).snapshot
                        left   == Base.world
                        shift  == left.next_refund - before.next_refund
                        new    == [i \in DOMAIN rows[k].world.refunds |->
                                     [rows[k].world.refunds[i] EXCEPT !.id = @ + shift]]
                    IN /\ rows[n].world.refunds = left.refunds \o new
                       /\ rows[n].world.log =
                            left.log \o SubSeq(rows[k].world.log, Len(before.log) + 1, Len(rows[k].world.log))
                       /\ rows[n].nodes = rows[k].nodes
  BY DEF NaiveForkAddsToWhatWasLeft
<1> DEFINE c == Base.classify
           t == rows[k].planned
           p == ForkPoint
           before == p.snapshot
           left == Base.world
           d == left.next_refund - before.next_refund
           x == Forked(p, before, Base.nodes)
           y == Forked(p, left, Base.nodes)
           fx == Finish(case, change, c, t, x)
           fy == Finish(case, change, c, t, y)
<1>1. /\ k \in DOMAIN rows /\ rows[k].arm = "fork" /\ rows[k].change = change
      /\ n \in DOMAIN rows /\ rows[n].arm = "fork_naive" /\ rows[n].change = change
  BY DEF Of
<1>2. HistoryInv /\ RowInv(rows[k]) /\ RowInv(rows[n]) /\ case \in Case
  BY <1>1, RowsFollowTheBaseline, GroupAssumption DEF HistoryInv
<1>3. p # None /\ ~rows[n].inherited /\ t \in RefundTypes
  BY <1>1, <1>2 DEF RowInv, Forking
<1>4. /\ c \in Agent!Classification /\ Typed(x) /\ p.next = "compute_refund" /\ left \in World
      /\ before \in World /\ before.refunds = << >>
  BY <1>2, <1>3, PointLedger DEF HistoryInv, StopsAtPlan
<1>5. Origin("fork") = x /\ Origin("fork_naive") = y
  BY DEF Origin, Forking, ForkWorld
<1>6. Reports(rows[k], fx)
  BY <1>1, <1>2, <1>3, <1>4, <1>5, RowReports DEF Forking
<1>7. Reports(rows[n], fy)
  BY <1>1, <1>2, <1>3, <1>4, <1>5, RowReports DEF Forking
<1>8. d \in Int
  BY <1>4 DEF World
<1> HIDE DEF d
<1>9. Twin(x, y, before, left, d)
  <2>1. x.world = before /\ y.world = left /\ x.st = y.st /\ y.st = p.st /\ x.next = p.next /\ y.next = p.next
        /\ x.phase = y.phase /\ x.steps = y.steps /\ x.nodes = y.nodes
    BY DEF Forked, Run
  <2> HIDE DEF x, y, before, left, p
  <2>2. Typed(y)
    BY <1>4, <2>1 DEF Typed
  <2>3. left.refunds = left.refunds \o Renumbered(before.refunds, d)
    <3>1. Renumbered(<< >>, d) = << >>
      BY DEF Renumbered
    <3>2. left.refunds \in Seq(RefundRow)
      BY <1>4 DEF World
    <3> QED
      BY <1>4, <3>1, <3>2
  <2>4. left.next_refund = before.next_refund + d
    BY <1>4 DEF World, d
  <2>5. \E calls \in Seq(ToolCall) : before.log = before.log \o calls /\ left.log = left.log \o calls
    <3>1. before.log \in Seq(ToolCall) /\ left.log \in Seq(ToolCall)
      BY <1>4 DEF World
    <3>2. before.log = before.log \o << >> /\ left.log = left.log \o << >> /\ << >> \in Seq(ToolCall)
      BY <3>1
    <3> QED
      BY <3>2
  <2> QED
    BY <1>4, <2>1, <2>2, <2>3, <2>4, <2>5 DEF Twin
<1>10. Twin(fx, fy, before, left, d)
  <2>1. x.next = "compute_refund" /\ y.next = "compute_refund"
    BY <1>4 DEF Forked, Run
  <2> HIDE DEF x, y, c, t, before, left
  <2>2. ToPlan(case, change, c, t, x) = x /\ ToPlan(case, change, c, t, y) = y
    BY <2>1, AtThePlan
  <2>3. fx = FromPlan(case, change, c, t, x) /\ fy = FromPlan(case, change, c, t, y)
    BY <2>2 DEF Finish
  <2> HIDE DEF fx, fy
  <2> QED
    BY <1>2, <1>3, <1>4, <1>8, <1>9, <2>3, TwinFromPlan
<1> HIDE DEF fx, fy, x, y, before, left
<1>11. PICK calls \in Seq(ToolCall) : fx.world.log = before.log \o calls /\ fy.world.log = left.log \o calls
  BY <1>10 DEF Twin
<1>12. SubSeq(fx.world.log, Len(before.log) + 1, Len(fx.world.log)) = calls
  <2>1. before.log \in Seq(ToolCall) /\ calls \in Seq(ToolCall)
    BY <1>4, <1>11 DEF World
  <2>2. SubSeq(before.log \o calls, Len(before.log) + 1, Len(before.log \o calls)) = calls
    BY <2>1, SecondPart
  <2> QED
    BY <1>11, <2>2
<1>13. /\ rows[k].world = fx.world /\ rows[n].world = fy.world
       /\ rows[k].nodes = fx.nodes /\ rows[n].nodes = fy.nodes
  BY <1>6, <1>7 DEF Reports
<1>14. fy.world.refunds = left.refunds \o Renumbered(fx.world.refunds, d) /\ fy.nodes = fx.nodes
  BY <1>10 DEF Twin
<1>15. FindForkPoint(History, CHANGED_NODE[change]).snapshot = before
  BY PlanPoint DEF ForkPoint, before
<1> QED
  BY <1>11, <1>12, <1>13, <1>14, <1>15 DEF Renumbered, d, left

(* A naive fork shows the paired fork's effects on top of what the baseline left, for every case,   *)
(* list of changes and recursion limit (docs/fork-validity.md:26-28).                               *)
THEOREM NaiveForksAdd == GroupSpec => []NaiveForkAddsToWhatWasLeft
<1>1. PauseInv /\ FunctionInv => NaiveForkAddsToWhatWasLeft
  BY NaiveForkAgrees
<1> QED
  BY <1>1, ArmsAreFunctions, PTL

-----------------------------------------------------------------------------
(* A superstep removes no marker. *)
LEMMA PassAtFired ==
  ASSUME NEW node, NEW k, NEW v, NEW c, NEW t, NEW r
  PROVE  r.fired \subseteq PassAt(node, k, v, c, t, r).fired
BY DEF PassAt, Pass, Run

(* A run removes no marker. *)
LEMMA FiredGrows ==
  ASSUME NEW k, NEW v, NEW c, NEW t, NEW r
  PROVE  /\ r.fired \subseteq FromPlan(k, v, c, t, r).fired
         /\ r.fired \subseteq Finish(k, v, c, t, r).fired
<1>1. \A node, q : q.fired \subseteq PassAt(node, k, v, c, t, q).fired
  BY PassAtFired
<1>2. \A q : q.fired \subseteq FromPlan(k, v, c, t, q).fired
  <2> TAKE q
  <2> DEFINE a == PassAt("compute_refund", k, v, c, t, q)
             b == PassAt("request_approval", k, v, c, t, a)
             d == PassAt("issue_refund", k, v, c, t, b)
             e == PassAt("respond", k, v, c, t, d)
  <2>1. FromPlan(k, v, c, t, q) = e
    BY DEF FromPlan
  <2>2. q.fired \subseteq a.fired
    BY <1>1
  <2>3. a.fired \subseteq b.fired
    BY <1>1
  <2>4. b.fired \subseteq d.fired
    BY <1>1
  <2>5. d.fired \subseteq e.fired
    BY <1>1
  <2> HIDE DEF a, b, d, e
  <2> QED
    BY <2>1, <2>2, <2>3, <2>4, <2>5
<1>3. r.fired \subseteq ToPlan(k, v, c, t, r).fired
  <2> DEFINE a == PassAt("classify_request", k, v, c, t, r)
             b == PassAt("lookup_order", k, v, c, t, a)
             d == PassAt("get_refund_history", k, v, c, t, b)
             e == PassAt("check_eligibility", k, v, c, t, d)
  <2>1. ToPlan(k, v, c, t, r) = e
    BY DEF ToPlan
  <2>2. r.fired \subseteq a.fired
    BY <1>1
  <2>3. a.fired \subseteq b.fired
    BY <1>1
  <2>4. b.fired \subseteq d.fired
    BY <1>1
  <2>5. d.fired \subseteq e.fired
    BY <1>1
  <2> HIDE DEF a, b, d, e
  <2> QED
    BY <2>1, <2>2, <2>3, <2>4, <2>5
<1>4. Finish(k, v, c, t, r) = FromPlan(k, v, c, t, ToPlan(k, v, c, t, r))
  BY DEF Finish
<1> QED
  BY <1>2, <1>3, <1>4

(* The routers leave no marker at a node from the plan on. *)
LEMMA FromPlanMarks ==
  ASSUME NEW k, NEW v \in ChangesUnderTest, NEW c, NEW t, NEW r
  PROVE  FromPlan(k, v, c, t, r).fired = r.fired
<1>1. v \in {"baseline", "D", "E"}
  BY DEF ChangesUnderTest, CHANGES
<1>2. ASSUME NEW node \in {"compute_refund", "request_approval", "issue_refund", "respond"}, NEW q
      PROVE  PassAt(node, k, v, c, t, q).fired = q.fired
  <2>1. \A s : RouteMarks(v, node, s) = {}
    BY <1>1 DEF RouteMarks
  <2> QED
    BY <2>1 DEF PassAt, Pass, Run
<1> DEFINE a == PassAt("compute_refund", k, v, c, t, r)
           b == PassAt("request_approval", k, v, c, t, a)
           d == PassAt("issue_refund", k, v, c, t, b)
           e == PassAt("respond", k, v, c, t, d)
<1>3. FromPlan(k, v, c, t, r) = e
  BY DEF FromPlan
<1>4. a.fired = r.fired
  BY <1>2
<1>5. b.fired = a.fired
  BY <1>2
<1>6. d.fired = b.fired
  BY <1>2
<1>7. e.fired = d.fired
  BY <1>2
<1> HIDE DEF a, b, d, e
<1> QED
  BY <1>3, <1>4, <1>5, <1>6, <1>7

(* Every change but E routes as the baseline does. *)
LEMMA RoutesLikeTheBaseline ==
  ASSUME NEW v \in ChangesUnderTest \ {"E"}, NEW node \in GroupNodes, NEW s
  PROVE  Route(v, node, s) = Route("baseline", node, s)
<1>1. v \in {"baseline", "D"}
  BY DEF ChangesUnderTest, CHANGES
<1> QED
  BY <1>1 DEF GroupNodes, BeforePlan, Route, AfterClassify, AfterLookupNode, AfterHistory, AfterEligibility,
    AfterCompute, AfterApproval, EntersFastPath

(* Where E leaves the baseline's way, it enters its fast path. *)
LEMMA LeavesByFastPath ==
  ASSUME NEW node \in GroupNodes, NEW s, Route("E", node, s) # Route("baseline", node, s)
  PROVE  node = "check_eligibility" /\ FastPath \in RouteMarks("E", node, s)
<1>1. node = "check_eligibility" /\ EntersFastPath("E", s)
  BY DEF GroupNodes, BeforePlan, Route, AfterClassify, AfterLookupNode, AfterHistory, AfterEligibility,
    AfterCompute, AfterApproval, EntersFastPath
<1> QED
  BY <1>1 DEF RouteMarks, FastPath

(* A history that routes like the change does so up to any point of it. *)
LEMMA RoutesToThePoint ==
  ASSUME NEW h, NEW v, NEW u, CheckRouting(h, v, None)
  PROVE  CheckRouting(h, v, u)
BY DEF CheckRouting

-----------------------------------------------------------------------------
(* Appending a checkpoint no earlier than u leaves the check of the way to u as it is. *)
LEMMA CheckToThePointAppend ==
  ASSUME NEW S, NEW h \in Seq(S), h # << >>, NEW p, NEW v, NEW u, u # None, ~(Last(h).step < u.step),
         CheckRouting(h, v, u)
  PROVE  CheckRouting(Append(h, p), v, u)
<1> DEFINE g == Append(h, p)
<1>1. Len(h) \in Nat /\ Len(h) >= 1 /\ Len(g) = Len(h) + 1 /\ Last(h) = h[Len(h)]
  BY DEF Last
<1>2. \A i \in 1..Len(h) : g[i] = h[i]
  BY <1>1
<1> HIDE DEF g
<1>3. ASSUME NEW i \in 1..Len(g) - 1, g[i].step < u.step, g[i].next \in Routed
      PROVE  Route(v, g[i].next, g[i + 1].st) = g[i + 1].next
  <2>1. i \in 1..Len(h) /\ i # Len(h)
    BY <1>1, <1>2, <1>3
  <2>2. i \in 1..Len(h) - 1 /\ i + 1 \in 1..Len(h)
    BY <1>1, <2>1
  <2>3. g[i] = h[i] /\ g[i + 1] = h[i + 1]
    BY <1>2, <2>1, <2>2
  <2> QED
    BY <1>3, <2>2, <2>3 DEF CheckRouting
<1> QED
  BY <1>3 DEF CheckRouting, g

(* The baseline's thread goes on being a trace of it. *)
LEMMA TrackPass ==
  ASSUME ThreadInv, FunctionInv, FunctionInv', TrackInv, Superstep, Arm.arm = "baseline", IsPass
  PROVE  TrackInv'
<1>1. /\ queue # << >> /\ ControlInv /\ BaselineInv /\ BaselineInv' /\ Arm' = Arm
  BY DEF FunctionInv, Superstep, Arm
<1>2. UNCHANGED <<case, variant>> /\ variant = "baseline" /\ "baseline" \in ChangesUnderTest /\ "E" \in ChangesUnderTest
  <2>1. Arm.change = "baseline" /\ variant = Arm.change
    BY <1>1 DEF ControlInv
  <2> QED
    BY <1>1, <2>1, SuperstepKinds DEF ChangesUnderTest, CHANGES
<1> DEFINE p == Checkpoint(st', next', Len(nodes'), world')
<1>3. thread \in Seq(Checkpoints) /\ nodes \in Seq(GroupNodes)
  BY <1>1 DEF FunctionInv, ControlInv
<1>4. thread' = Append(thread, p) /\ nodes' = Append(nodes, next)
  BY DEF Superstep, IsPass
<1>5. p.st = st' /\ p.next = next' /\ p.step = Len(nodes') /\ p # None
  <2>1. thread' \in Seq(Checkpoints)
    BY DEF FunctionInv
  <2>2. thread'[Len(thread) + 1] = p /\ Len(thread) + 1 \in DOMAIN thread'
    BY <1>3, <1>4
  <2>3. p \in Checkpoints
    BY <2>1, <2>2
  <2> QED
    BY <2>3, CheckpointAssumption DEF Checkpoint
<1> HIDE DEF p
<1>6. /\ Len(nodes) \in Nat /\ Len(thread) = Len(nodes) + 2 /\ Len(nodes') = Len(nodes) + 1
      /\ Len(thread') = Len(thread) + 1 /\ thread # << >> /\ Last(thread) = thread[Len(thread)]
      /\ Last(thread).next = next
      /\ DOMAIN thread = 1..Len(thread) /\ DOMAIN thread' = 1..Len(thread) + 1
      /\ DOMAIN nodes = 1..Len(nodes) /\ DOMAIN nodes' = 1..Len(nodes) + 1
      /\ thread'[Len(thread) + 1] = p /\ (\A i \in 1..Len(thread) : thread'[i] = thread[i])
      /\ nodes'[Len(nodes) + 1] = next /\ (\A i \in 1..Len(nodes) : nodes'[i] = nodes[i])
  BY <1>1, <1>3, <1>4 DEF TrackInv, BaselineInv, Last
<1>7. /\ next' = Route("baseline", next, st') /\ next \in GroupNodes /\ phase = "running"
      /\ phase' = IF steps' > RECURSION_LIMIT THEN "crashed" ELSE IF next' = "END" THEN "done" ELSE "running"
  BY <1>1, <1>2, PassWrites DEF IsPass
<1>8. phase' = "done" => next' = "END"
  BY <1>7
<1>9. Len(thread') = Len(nodes') + 2 /\ thread'[1].next = "__start__"
  BY <1>6 DEF TrackInv
<1>10. ASSUME NEW j \in DOMAIN nodes' PROVE thread'[j + 1].next = nodes'[j]
  <2>1. CASE j = Len(nodes) + 1
    <3>1. j + 1 = Len(thread) /\ j + 1 \in 1..Len(thread)
      BY <1>6, <2>1
    <3> QED
      BY <1>6, <2>1, <3>1
  <2>2. CASE j \in 1..Len(nodes)
    <3>1. j + 1 \in 1..Len(thread) /\ j \in DOMAIN nodes
      BY <1>6, <2>2
    <3> QED
      BY <1>6, <2>2, <3>1 DEF TrackInv
  <2> QED
    BY <1>6, <2>1, <2>2
<1>11. ASSUME NEW j \in DOMAIN thread' PROVE thread'[j].step = j - 2
  <2>1. CASE j = Len(thread) + 1
    BY <1>5, <1>6, <2>1
  <2>2. CASE j \in 1..Len(thread)
    BY <1>6, <2>2 DEF TrackInv
  <2> QED
    BY <1>6, <2>1, <2>2
<1>12. \A v \in ChangesUnderTest :
         CheckRouting(thread', v, None)
           <=> CheckRouting(thread, v, None) /\ (next \in Routed => Route(v, next, st') = next')
  BY <1>3, <1>4, <1>5, <1>6, CheckRoutingAppend
<1>13. \A v \in ChangesUnderTest \ {"E"} : CheckRouting(thread', v, None)
  BY <1>7, <1>12, RoutesLikeTheBaseline DEF TrackInv
<1>14. ASSUME NEW i \in DOMAIN thread', thread'[i].next = "compute_refund", NEW v \in ChangesUnderTest
       PROVE  CheckRouting(thread', v, thread'[i])
  <2>1. CASE i = Len(thread) + 1
    <3>1. CheckRouting(thread', v, None)
      BY <1>1, <1>5, <1>6, <1>14, <2>1 DEF BaselineInv, BeforePlan
    <3> QED
      BY <3>1, RoutesToThePoint
  <2>2. CASE i \in 1..Len(thread)
    <3> DEFINE u == thread[i]
    <3>1. u = thread'[i] /\ CheckRouting(thread, v, u) /\ u # None
      <4>1. u \in Checkpoints
        BY <1>3, <1>6, <2>2
      <4> QED
        BY <1>6, <1>14, <2>2, <4>1, CheckpointAssumption DEF TrackInv
    <3>2. Last(thread).step = Len(thread) - 2 /\ u.step = i - 2 /\ ~(Last(thread).step < u.step)
      BY <1>6, <2>2 DEF TrackInv
    <3> HIDE DEF u
    <3> QED
      BY <1>3, <1>4, <1>6, <3>1, <3>2, CheckToThePointAppend
  <2> QED
    BY <1>6, <2>1, <2>2
<1>15. ASSUME ~CheckRouting(thread', "E", None), NEW c \in Agent!Classification, NEW t \in RefundTypes,
              MayDraw(c, t)'
       PROVE  FastPath \in Finish(case, "E", c, t, Fresh(case)).fired
  <2>1. MayDraw(c, t) /\ ThisRun' = Pass(case, "baseline", c, t, ThisRun)
    BY <1>1, <1>2, <1>7, <1>15, PassOf
  <2>2. CASE ~CheckRouting(thread, "E", None)
    BY <1>15, <2>1, <2>2 DEF TrackInv
  <2>3. CASE CheckRouting(thread, "E", None)
    <3>1. Route("E", next, st') # next'
      BY <1>2, <1>12, <1>15, <2>3
    <3>2. next = "check_eligibility" /\ FastPath \in RouteMarks("E", next, st')
      BY <1>7, <3>1, LeavesByFastPath
    <3>3. ToPlan(case, "E", c, t, ThisRun) = ToPlan(case, "E", c, t, Fresh(case))
      BY <1>1, <1>2, <1>7, <1>15, <2>1, <3>2 DEF BaselineInv, BeforePlan
    <3>4. ThisRun.phase = "running" /\ ThisRun.next = next
      BY <1>7, ThisRunFields
    <3>5. Finish(case, "E", c, t, Pass(case, "E", c, t, ThisRun)) = Finish(case, "E", c, t, Fresh(case))
      <4>1. Finish(case, "E", c, t, Pass(case, "E", c, t, ThisRun)) = Finish(case, "E", c, t, ThisRun)
        BY <1>2, <1>7, <3>4, FinishPass
      <4> QED
        BY <3>3, <4>1 DEF Finish
    <3>6. ThisRun'.st = st' /\ Pass(case, "baseline", c, t, ThisRun).st = Written(case, c, t, ThisRun)
      BY DEF ThisRun, Run, Pass
    <3>7. Pass(case, "E", c, t, ThisRun).fired = ThisRun.fired \cup RouteMarks("E", next, st')
      <4>1. Written(case, c, t, ThisRun) = st'
        BY <2>1, <3>6
      <4> QED
        BY <3>4, <4>1 DEF Pass, Run
    <3> QED
      BY <3>2, <3>5, <3>7, FiredGrows
  <2> QED
    BY <2>2, <2>3
<1> QED
  BY <1>2, <1>8, <1>9, <1>10, <1>11, <1>13, <1>14, <1>15 DEF TrackInv

(* A failed model call leaves the markers a run to its end would show. *)
LEMMA FailureKept ==
  ASSUME FunctionInv, FailureInv, Superstep
  PROVE  FailureInv'
<1>1. /\ queue # << >> /\ ControlInv /\ OnItsWay /\ Arm' = Arm /\ ~Agent!Over
  BY DEF FunctionInv, Superstep, Arm
<1>2. UNCHANGED <<case, variant>> /\ variant \in ChangesUnderTest
  BY <1>1, SuperstepKinds DEF ControlInv
<1>3. CASE IsPass
  <2>1. steps' \in Nat /\ RECURSION_LIMIT \in Nat
    BY <1>1, <1>3, GroupAssumption DEF IsPass, ControlInv
  <2>2. ~ModelFailed'
    BY <1>1, <1>2, <1>3, <2>1, PassWrites DEF ModelFailed
  <2> QED
    BY <2>2 DEF FailureInv
<1>4. CASE IsPause
  BY <1>4 DEF IsPause, ModelFailed, FailureInv
<1>5. CASE IsCrash
  <2>1. next' = next /\ fired' = fired /\ recording' = recording /\ st' = st /\ phase = "running"
        /\ next \in {"classify_request", "compute_refund", "respond"}
        /\ (next = "classify_request" => recording.classify = None)
    BY <1>5 DEF IsCrash
  <2>2. ASSUME ~Forking(Arm.arm), next # "classify_request", NEW c \in Agent!Classification, NEW t \in RefundTypes,
               MayDraw(c, t)'
        PROVE  fired = Finish(case, variant, c, t, Fresh(case)).fired
    <3>1. MayDraw(c, t)
      BY <1>1, <2>1, <2>2 DEF MayDraw
    <3>2. ~ModelFailed /\ Origin(Arm.arm) = Fresh(case)
      BY <2>1, <2>2 DEF ModelFailed, Origin
    <3>3. Finish(case, variant, c, t, ThisRun) = Finish(case, variant, c, t, Fresh(case))
      BY <1>1, <3>1, <3>2 DEF OnItsWay
    <3>4. ThisRun.next \notin BeforePlan \ {"compute_refund"} /\ ThisRun.fired = fired
      BY <2>1, <2>2, ThisRunFields DEF BeforePlan
    <3>5. ToPlan(case, variant, c, t, ThisRun) = ThisRun
      BY <3>4, AtThePlan
    <3>6. Finish(case, variant, c, t, ThisRun).fired = fired
      BY <1>2, <3>4, <3>5, FromPlanMarks DEF Finish
    <3> QED
      BY <3>3, <3>6
  <2> QED
    BY <1>1, <1>2, <2>1, <2>2 DEF FailureInv
<1> QED
  BY <1>1, <1>3, <1>4, <1>5, SuperstepKinds

(* A superstep keeps the trace of the group. *)
LEMMA SuperstepTrace ==
  ASSUME ThreadInv, FunctionInv, FunctionInv', TraceInv, Superstep
  PROVE  TraceInv'
<1>1. /\ queue # << >> /\ ControlInv /\ queue' = queue /\ rows' = rows /\ changes' = changes /\ Arm' = Arm
      /\ ~Agent!Over
  BY DEF FunctionInv, Superstep, Arm
<1>2. UNCHANGED <<case, variant>>
  BY <1>1, SuperstepKinds
<1>3. CoverInv'
  <2>1. AllArms(changes)' = AllArms(changes)
    BY DEF Superstep, AllArms, ArmsOf, ArmOrder
  <2> QED
    BY <1>1, <2>1 DEF TraceInv, CoverInv
<1>4. FailureInv'
  BY <1>1, FailureKept DEF TraceInv
<1>5. \A i \in DOMAIN rows : FlagInv(rows[i])'
  BY <1>1, <1>2 DEF TraceInv, FlagInv
<1>6. Arm.arm = "baseline" => TrackInv'
  <2> SUFFICES ASSUME Arm.arm = "baseline" PROVE TrackInv'
    OBVIOUS
  <2>1. TrackInv
    BY <1>1 DEF TraceInv
  <2>2. CASE IsPass
    BY <2>1, <2>2, TrackPass
  <2>3. CASE IsPause \/ IsCrash
    <3>1. phase' # "done" /\ UNCHANGED <<recording, st, next, nodes, thread>>
      BY <2>3 DEF IsPause, IsCrash
    <3>2. \A c, t : MayDraw(c, t)' = MayDraw(c, t)
      BY <1>1, <3>1 DEF MayDraw
    <3> QED
      BY <1>2, <2>1, <3>1, <3>2 DEF TrackInv
  <2> QED
    BY <1>1, <2>2, <2>3, SuperstepKinds
<1>7. Arm.arm # "baseline" => SeenInv'
  <2>1. /\ History' = History /\ ForkPoint' = ForkPoint /\ recorded' = recorded /\ Base' = Base
    BY <1>2, PastStays
  <2> QED
    BY <1>1, <1>2, <2>1 DEF TraceInv, SeenInv
<1> QED
  BY <1>1, <1>3, <1>4, <1>5, <1>6, <1>7 DEF TraceInv

-----------------------------------------------------------------------------
(* The rows and the queue go on being the arms of the group when an arm has ended. *)
LEMMA CoverKept ==
  ASSUME CoverInv, NEW prefix, NEW ok, NEW n, EndsWith(Row(prefix, ok), n), EndArm,
         queue \in Seq(AnArm), queue # << >>, rows \in Seq(Range(rows)), DOMAIN Base' = RowFields
  PROVE  CoverInv'
<1>1. PICK row : row = Row(prefix, ok)
  OBVIOUS
<1>2. row.arm = Arm.arm /\ row.change = Arm.change
  BY <1>1 DEF Row
<1>3. PICK all : all = AllArms(changes)
  OBVIOUS
<1>4. AllArms(changes)' = all /\ changes' = changes
  BY <1>3 DEF EndArm, AllArms, ArmsOf, ArmOrder
<1>5. PICK rest : rest = Tail(queue)
  OBVIOUS
<1>6. /\ Len(queue) \in Nat /\ Len(queue) >= 1 /\ rest \in Seq(AnArm) /\ Len(rest) = Len(queue) - 1
      /\ Len(rows) \in Nat /\ DOMAIN rows = 1..Len(rows) /\ Arm = queue[1] /\ DOMAIN queue = 1..Len(queue)
      /\ \A i \in 1..Len(rest) : rest[i] = queue[i + 1]
  BY <1>5 DEF Arm
<1>7. /\ Len(rows') = Len(rows) + 1 + n
      /\ \A i \in 1..Len(rows) : rows'[i] = rows[i]
      /\ rows'[Len(rows) + 1] = row
      /\ \A j \in 1..n : rows'[Len(rows) + 1 + j] = Inherited(Base', rest[j], SeenOk(rest[j].change))
      /\ rows' \in Seq(Range(rows'))
  BY <1>1, <1>5, <1>6, EndedRows
<1>8. n \in 0..Len(rest) /\ queue' = SubSeq(rest, n + 1, Len(rest))
  BY <1>1, <1>5 DEF EndsWith
<1>9. ASSUME NEW j \in 1..n
      PROVE  rows'[Len(rows) + 1 + j].arm = rest[j].arm /\ rows'[Len(rows) + 1 + j].change = rest[j].change
  <2>1. PICK base : base = Base'
    OBVIOUS
  <2>2. "arm" \in DOMAIN base /\ "change" \in DOMAIN base
    BY <2>1 DEF RowFields
  <2> QED
    BY <1>7, <2>1, <2>2 DEF Inherited
<1>10. /\ Len(queue') = Len(rest) - n
       /\ \A i \in 1..Len(queue') : queue'[i] = rest[n + i]
       /\ queue' \in Seq(AnArm)
  BY <1>6, <1>8, SubSeqProperties
<1>11. Len(rows') + Len(queue') = Len(all) /\ Len(all) = Len(rows) + Len(queue)
  <2>1. Len(all) = Len(rows) + Len(queue)
    BY <1>3 DEF CoverInv
  <2>2. /\ Len(rows') = Len(rows) + 1 + n /\ Len(queue') = Len(queue) - 1 - n /\ n \in Nat
        /\ Len(rows) \in Nat /\ Len(queue) \in Nat
    BY <1>6, <1>7, <1>8, <1>10
  <2> HIDE DEF EndsWith
  <2> QED
    BY <2>1, <2>2
<1>12. ASSUME NEW i \in DOMAIN rows'
       PROVE  rows'[i].arm = all[i].arm /\ rows'[i].change = all[i].change
  <2>1. i \in 1..Len(rows) + 1 + n /\ n \in Nat
    BY <1>6, <1>7, <1>8
  <2>2. CASE i \in 1..Len(rows)
    BY <1>3, <1>6, <1>7, <2>2 DEF CoverInv
  <2>3. CASE i = Len(rows) + 1
    <3>1. 1 \in DOMAIN queue
      BY <1>6
    <3>2. queue[1] = all[Len(rows) + 1]
      BY <1>3, <3>1 DEF CoverInv
    <3> QED
      BY <1>2, <1>6, <1>7, <2>3, <3>2
  <2>4. CASE i \notin 1..Len(rows) /\ i # Len(rows) + 1
    <3>1. i - (Len(rows) + 1) \in 1..n
      BY <1>6, <2>1, <2>4
    <3>2. PICK j \in 1..n : i = Len(rows) + 1 + j
      <4>1. i = Len(rows) + 1 + (i - (Len(rows) + 1))
        BY <1>6, <2>1
      <4> QED
        BY <3>1, <4>1
    <3>3. j \in 1..Len(rest) /\ j + 1 \in DOMAIN queue
      BY <1>6, <1>8
    <3>4. rest[j] = queue[j + 1] /\ queue[j + 1] = all[Len(rows) + (j + 1)]
      BY <1>3, <1>6, <3>3 DEF CoverInv
    <3>5. Len(rows) + (j + 1) = i
      BY <1>6, <3>2
    <3> QED
      BY <1>9, <3>2, <3>4, <3>5
  <2> QED
    BY <2>2, <2>3, <2>4
<1>13. ASSUME NEW i \in DOMAIN queue'
       PROVE  queue'[i] = all[Len(rows') + i]
  <2>1. i \in 1..Len(queue') /\ i \in Nat
    BY <1>10
  <2>2. n + i \in 1..Len(rest) /\ n + i + 1 \in DOMAIN queue
    BY <1>6, <1>8, <1>10, <2>1
  <2>3. queue'[i] = queue[n + i + 1] /\ queue[n + i + 1] = all[Len(rows) + (n + i + 1)]
    BY <1>3, <1>6, <1>10, <2>1, <2>2 DEF CoverInv
  <2>4. Len(rows) + (n + i + 1) = Len(rows') + i
    BY <1>6, <1>7, <1>8, <2>1
  <2> QED
    BY <2>3, <2>4
<1> QED
  BY <1>4, <1>11, <1>12, <1>13 DEF CoverInv

(* When the baseline has ended, history() has seen the trace of it. *)
LEMMA SeenBegins ==
  ASSUME ThreadInv, FunctionInv, TrackInv, EndArm, Arm.arm = "baseline", NEW ok,
         rows' # << >>, Base' = Row(<< >>, ok)
  PROVE  SeenInv'
<1>1. /\ queue # << >> /\ Agent!Over /\ case' = case /\ ControlInv /\ BaselineInv /\ ~Forking(Arm.arm)
  BY DEF EndArm, FunctionInv, Forking
<1>2. /\ Base'.ended = Ending /\ Base'.classify = recording.classify /\ Base'.planned = st.refund_type
      /\ Base'.nodes = (IF phase = "done" THEN nodes ELSE << >>)
  BY DEF Row
<1>3. /\ Seen \in Seq(Checkpoints) /\ recorded' = Len(Seen) /\ History' = Seen
      /\ ForkPoint' = FindForkPoint(Seen, "compute_refund")
      /\ Seen = IF phase = "done" THEN thread ELSE << >>
  BY EndHistory DEF Seen
<1>4. Base'.ended = "done" <=> phase = "done"
  BY <1>2 DEF Ending
<1>5. recorded' # 0 <=> phase = "done"
  <2>1. thread # << >> /\ thread \in Seq(Checkpoints)
    BY <1>1 DEF BaselineInv, FunctionInv
  <2> QED
    BY <1>3, <2>1
<1>6. CASE phase # "done"
  <2>1. Seen = << >> /\ DOMAIN Seen = {} /\ Len(Seen) = 0
    BY <1>3, <1>6
  <2>2. ForkPoint' = None
    BY <1>3, <2>1, ForkPointFacts
  <2>3. \A v : CheckRouting(History', v, None)
    BY <1>3, <2>1 DEF CheckRouting
  <2>4. DOMAIN Base'.nodes = {}
    BY <1>2, <1>6
  <2> QED
    BY <1>4, <1>5, <1>6, <2>2, <2>3, <2>4 DEF SeenInv
<1>7. CASE phase = "done"
  <2>1. Seen = thread /\ Base'.nodes = nodes /\ next = "END" /\ thread \in Seq(Checkpoints)
        /\ nodes \in Seq(GroupNodes) /\ Len(nodes) \in Nat /\ Len(thread) = Len(nodes) + 2
    BY <1>1, <1>2, <1>3, <1>7 DEF TrackInv, ControlInv
  <2>2. ForkPoint' # None <=> \E i \in DOMAIN nodes : nodes[i] = "compute_refund"
    <3>1. ASSUME NEW i \in DOMAIN nodes, nodes[i] = "compute_refund"
          PROVE  ForkPoint' # None
      <4>1. i + 1 \in DOMAIN thread /\ thread[i + 1].next = "compute_refund"
        BY <2>1, <3>1 DEF TrackInv
      <4> QED
        BY <1>3, <2>1, <4>1, ForkPointFacts
    <3>2. ASSUME ForkPoint' # None
          PROVE  \E i \in DOMAIN nodes : nodes[i] = "compute_refund"
      <4>1. PICK j \in DOMAIN thread : thread[j].next = "compute_refund"
        BY <1>3, <2>1, <3>2, ForkPointFacts
      <4>2. j # 1
        BY <4>1 DEF TrackInv
      <4>3. j # Len(thread)
        <5>1. Last(thread).next = "END"
          BY <1>1, <2>1 DEF BaselineInv
        <5> QED
          BY <2>1, <4>1, <5>1 DEF Last
      <4>4. j - 1 \in DOMAIN nodes /\ (j - 1) + 1 = j
        BY <2>1, <4>2, <4>3
      <4>5. nodes[j - 1] = "compute_refund"
        BY <4>1, <4>4 DEF TrackInv
      <4> QED
        BY <4>4, <4>5
    <3> QED
      BY <3>1, <3>2
  <2>3. ForkPoint' # None => \A v \in ChangesUnderTest : CheckRouting(thread, v, ForkPoint')
    <3> SUFFICES ASSUME ForkPoint' # None, NEW v \in ChangesUnderTest PROVE CheckRouting(thread, v, ForkPoint')
      OBVIOUS
    <3>1. PICK j \in DOMAIN thread : thread[j].next = "compute_refund" /\ ForkPoint' = thread[j]
      BY <1>3, <2>1, ForkPointFacts
    <3> QED
      BY <3>1 DEF TrackInv
  <2>4. ~CheckRouting(thread, "E", None) =>
          \A t \in RefundTypes : st.refund_type \in {None, t} =>
            FastPath \in Finish(case, "E", recording.classify, t, Fresh(case)).fired
    <3> SUFFICES ASSUME ~CheckRouting(thread, "E", None), NEW t \in RefundTypes, st.refund_type \in {None, t}
                 PROVE  FastPath \in Finish(case, "E", recording.classify, t, Fresh(case)).fired
      OBVIOUS
    <3>1. recording.classify \in Agent!Classification
      BY <1>1, <2>1 DEF ControlInv
    <3>2. MayDraw(recording.classify, t)
      BY <1>1 DEF MayDraw
    <3> QED
      BY <3>1, <3>2 DEF TrackInv
  <2>5. \A v \in ChangesUnderTest \ {"E"} : CheckRouting(thread, v, None)
    BY DEF TrackInv
  <2> QED
    BY <1>1, <1>2, <1>3, <1>4, <1>5, <1>7, <2>1, <2>2, <2>3, <2>4, <2>5 DEF SeenInv
<1> QED
  BY <1>6, <1>7

(* The row of an arm that ran says what the markers of its function say, and its flag is not raised. *)
LEMMA OwnFlag ==
  ASSUME FunctionInv, FailureInv, queue # << >>, Agent!Over, NEW prefix, NEW ok, NEW r, r = Row(prefix, ok),
         Forking(Arm.arm) => ok = TRUE, case' = case
  PROVE  FlagInv(r)'
<1>1. /\ r.arm = Arm.arm /\ r.change = Arm.change /\ r.ended = Ending /\ r.classify = recording.classify
      /\ r.planned = st.refund_type /\ r.fired = fired /\ r.routing_ok = ok
  BY DEF Row
<1>2. ControlInv /\ phase \in {"done", "crashed"} /\ variant = Arm.change
  BY DEF FunctionInv, Agent!Over, ControlInv
<1>3. ASSUME ~Forking(Arm.arm), recording.classify \in Agent!Classification, NEW t \in RefundTypes,
             st.refund_type \in {None, t}
      PROVE  fired = Finish(case, Arm.change, recording.classify, t, Fresh(case)).fired
  <2>1. CASE ModelFailed
    <3>1. next # "classify_request"
      BY <1>3, <2>1, CheckpointAssumption DEF FailureInv
    <3>2. MayDraw(recording.classify, t)
      BY <1>3 DEF MayDraw
    <3> QED
      BY <1>2, <1>3, <2>1, <3>1, <3>2 DEF FailureInv
  <2>2. CASE ~ModelFailed
    <3>1. Row(prefix, ok).ended # "model_failed"
      <4>1. steps \in Nat /\ RECURSION_LIMIT \in Nat
        BY <1>2, GroupAssumption DEF ControlInv
      <4> QED
        BY <1>1, <1>2, <2>2, <4>1 DEF Ending, ModelFailed
    <3>2. Finish(case, Arm.change, recording.classify, t, Origin(Arm.arm)) = ThisRun
      BY <1>1, <1>3, <3>1, EndedRow
    <3>3. Origin(Arm.arm) = Fresh(case)
      BY <1>3 DEF Origin
    <3> QED
      BY <3>2, <3>3, ThisRunFields
  <2> QED
    BY <2>1, <2>2
<1>4. st.refund_type \in RefundTypes \cup {None}
  BY <1>2 DEF ControlInv
<1> QED
  BY <1>1, <1>3, <1>4 DEF FlagInv

(* The end of an arm keeps the trace of the group. *)
LEMMA EndArmTrace ==
  ASSUME PauseInv, FunctionInv, FunctionInv', TraceInv, EndArm
  PROVE  TraceInv'
<1>1. PICK prefix, ok, n : /\ ~Forking(Arm.arm) => prefix = << >>
                           /\ Forking(Arm.arm) => ok = SeenOk(Arm.change)
                           /\ EndsWith(Row(prefix, ok), n)
  BY EndArmParts
<1>2. PICK row : row = Row(prefix, ok)
  OBVIOUS
<1>3. /\ queue # << >> /\ Agent!Over /\ UNCHANGED <<case, thread, changes>> /\ ThreadInv
      /\ CoverInv /\ FailureInv /\ (\A i \in DOMAIN rows : FlagInv(rows[i]))
  BY DEF EndArm, PauseInv, TraceInv
<1>4. ControlInv /\ rows \in Seq(Range(rows)) /\ (Forking(Arm.arm) => ForkPoint # None)
  BY <1>3 DEF FunctionInv
<1>5. queue \in Seq(AnArm) /\ Tail(queue) \in Seq(AnArm)
  BY <1>3 DEF PauseInv, QueueInv
<1>6. /\ rows' # << >> /\ Base' = Append(rows, row)[1]
      /\ Base' = IF rows = << >> THEN row ELSE Base
      /\ \A i \in DOMAIN rows' :
              \/ i \in DOMAIN rows /\ rows'[i] = rows[i]
              \/ rows'[i] = row
              \/ \E j \in 1..n : rows'[i] = Inherited(Base', Tail(queue)[j], SeenOk(Tail(queue)[j].change))
  <2>1. EndsWith(row, n)
    BY <1>1, <1>2
  <2> QED
    BY <1>4, <1>5, <2>1, EndedRows
<1>7. /\ Arm.arm = "baseline" => rows = << >> /\ ~Forking(Arm.arm)
      /\ Arm.arm # "baseline" => rows # << >>
  BY <1>3 DEF FunctionInv, BaselineInv, HistoryInv, Forking
<1>8. queue' # << >> => Arm'.arm # "baseline" /\ phase' = "running"
  BY <1>1 DEF EndsWith, Arm, BeginFull, BeginFork, BeginRun
<1>9. HistoryInv'
  BY <1>8 DEF FunctionInv
<1>10. CoverInv'
  BY <1>1, <1>3, <1>4, <1>5, <1>9, CoverKept DEF HistoryInv
<1>11. SeenInv'
  <2>1. CASE Arm.arm = "baseline"
    <3>1. Base' = Row(<< >>, ok) /\ TrackInv
      BY <1>1, <1>2, <1>3, <1>6, <1>7, <2>1 DEF TraceInv
    <3> QED
      BY <1>3, <1>6, <2>1, <3>1, SeenBegins
  <2>2. CASE Arm.arm # "baseline"
    <3>1. SeenInv /\ Base' = Base /\ History' = History /\ recorded' = recorded /\ ForkPoint' = ForkPoint
      BY <1>3, <1>6, <1>7, <2>2, EndHistory DEF TraceInv
    <3> QED
      BY <1>3, <3>1 DEF SeenInv
  <2> QED
    BY <2>1, <2>2
<1>12. FlagInv(row)'
  <2>1. Forking(Arm.arm) => ok = TRUE
    <3> SUFFICES ASSUME Forking(Arm.arm) PROVE ok = TRUE
      OBVIOUS
    <3>1. Arm.arm # "baseline" /\ SeenInv /\ ForkPoint # None /\ Seen = History /\ Arm.change \in ChangesUnderTest
      BY <1>3, <1>4, <1>7 DEF TraceInv, Seen, ControlInv
    <3>2. Seen # << >>
      <4>1. Seen \in Seq(Checkpoints)
        BY <1>3, EndHistory
      <4>2. \E i \in DOMAIN Seen : Seen[i].next = "compute_refund"
        BY <3>1, <4>1, ForkPointFacts DEF ForkPoint
      <4> QED
        BY <4>2
    <3>3. CheckRouting(Seen, Arm.change, FindForkPoint(Seen, CHANGED_NODE[Arm.change]))
      BY <3>1, PlanPoint DEF SeenInv, ForkPoint
    <3>4. SeenOk(Arm.change) = TRUE
      BY <3>2, <3>3 DEF SeenOk
    <3> QED
      BY <1>1, <3>4
  <2> QED
    BY <1>2, <1>3, <2>1, OwnFlag
<1>13. \A r : FlagInv(r) => FlagInv(r)'
  BY <1>3 DEF FlagInv
<1>14. ASSUME NEW j \in 1..n, NEW r, NEW base, base = Base',
              r = Inherited(base, Tail(queue)[j], SeenOk(Tail(queue)[j].change))
       PROVE  FlagInv(r)'
  <2>1. n \in 0..Len(Tail(queue)) /\ Forking(Tail(queue)[j].arm)
    BY <1>1 DEF EndsWith
  <2>2. DOMAIN base = RowFields
    BY <1>9, <1>14 DEF HistoryInv
  <2>3. r.arm = Tail(queue)[j].arm /\ r.inherited = TRUE
    BY <1>14, <2>2 DEF Inherited, RowFields
  <2>4. Forking(r.arm)
    BY <2>1, <2>3
  <2> QED
    BY <2>3, <2>4 DEF FlagInv, Forking
<1>15. ASSUME NEW i \in DOMAIN rows'
       PROVE  FlagInv(rows[i])'
  <2>1. CASE i \in DOMAIN rows /\ rows'[i] = rows[i]
    <3>1. \A r : r = rows[i] => FlagInv(r)'
      BY <1>3, <1>13, <2>1
    <3> QED
      BY <2>1, <3>1
  <2>2. CASE rows'[i] = row
    BY <1>12, <2>2
  <2>3. CASE \E j \in 1..n : rows'[i] = Inherited(Base', Tail(queue)[j], SeenOk(Tail(queue)[j].change))
    BY <1>14, <2>3
  <2> QED
    BY <1>6, <2>1, <2>2, <2>3
<1>16. queue' # << >> => FailureInv'
  BY <1>8 DEF FailureInv, ModelFailed
<1> QED
  BY <1>8, <1>10, <1>11, <1>15, <1>16 DEF TraceInv

(* A group starts with an empty trace. *)
LEMMA InitTrace ==
  ASSUME GroupInit
  PROVE  TraceInv
<1>1. /\ phase = "running" /\ nodes = << >> /\ rows = << >> /\ queue = AllArms(changes)
      /\ thread = <<Checkpoint(EmptyState, "__start__", -1, None),
                    Checkpoint(EmptyState, "classify_request", 0, None)>>
  BY DEF GroupInit, Agent!Start
<1>2. changes \in Seq(ChangesUnderTest)
  BY GroupAssumption DEF GroupInit
<1>3. queue \in Seq(AnArm) /\ Len(queue) >= 1 /\ queue[1].arm = "baseline"
  BY <1>1, <1>2, ArmsType
<1>4. queue # << >> /\ Arm.arm = "baseline"
  BY <1>3 DEF Arm
<1>5. CoverInv
  <2>1. \A i \in DOMAIN queue : i \in Nat
    BY <1>3
  <2>2. Len(rows) = 0 /\ DOMAIN rows = {}
    BY <1>1
  <2> QED
    BY <1>1, <1>2, <1>3, <2>1, <2>2 DEF CoverInv
<1>6. Len(thread) = 2 /\ DOMAIN thread = {1, 2} /\ Len(nodes) = 0 /\ DOMAIN nodes = {}
  BY <1>1
<1>7. /\ thread[1].next = "__start__" /\ thread[2].next = "classify_request"
      /\ thread[1].step = -1 /\ thread[2].step = 0
  BY <1>1 DEF Checkpoint
<1>8. \A v : CheckRouting(thread, v, None)
  <2>1. \A i \in 1..Len(thread) - 1 : i = 1
    BY <1>6
  <2>2. thread[1].next \notin Routed
    BY <1>7 DEF Routed
  <2> QED
    BY <2>1, <2>2 DEF CheckRouting
<1>9. TrackInv
  <2>1. \A j \in DOMAIN thread : thread[j].step = j - 2
    BY <1>6, <1>7
  <2> QED
    BY <1>1, <1>6, <1>7, <1>8, <2>1 DEF TrackInv
<1> QED
  BY <1>1, <1>4, <1>5, <1>9 DEF TraceInv, FailureInv, ModelFailed

(* The baseline's thread is a trace of it: it has a checkpoint for every node, every change but E   *)
(* routes as it went, and where E does not, a full rerun of E that classifies alike takes the fast  *)
(* path; and the rows are the arms of the group in their order.                                     *)
THEOREM TracesAreKept == GroupSpec => []TraceInv
<1>1. GroupInit => TraceInv
  BY InitTrace
<1>2. PauseInv /\ FunctionInv /\ (PauseInv /\ FunctionInv)' /\ TraceInv /\ [GroupNext]_groupVars => TraceInv'
  <2> SUFFICES ASSUME PauseInv, FunctionInv, FunctionInv', TraceInv, [GroupNext]_groupVars PROVE TraceInv'
    OBVIOUS
  <2>1. CASE GroupNext
    BY <2>1, SuperstepTrace, EndArmTrace DEF GroupNext, PauseInv
  <2>2. CASE UNCHANGED groupVars
    <3>1. UNCHANGED <<queue, phase, thread, recorded, next, st, case, changes, forks_first, variant, recording,
                      world, steps, fired, reply, nodes, rows>>
      BY <2>2 DEF groupVars, run
    <3>2. /\ Arm' = Arm /\ ForkPoint' = ForkPoint /\ History' = History /\ Base' = Base
          /\ ModelFailed' = ModelFailed /\ AllArms(changes)' = AllArms(changes)
      BY <3>1 DEF Arm, ForkPoint, History, Base, ModelFailed, AllArms, ArmsOf, ArmOrder
    <3>3. \A c, t : MayDraw(c, t)' = MayDraw(c, t)
      BY <3>1, <3>2 DEF MayDraw
    <3>4. TrackInv' = TrackInv /\ SeenInv' = SeenInv /\ FailureInv' = FailureInv
      BY <3>1, <3>2, <3>3 DEF TrackInv, SeenInv, FailureInv
    <3>5. CoverInv' = CoverInv /\ \A r : FlagInv(r)' = FlagInv(r)
      BY <3>1, <3>2 DEF CoverInv, FlagInv
    <3> QED
      BY <3>1, <3>2, <3>4, <3>5 DEF TraceInv
  <2> QED
    BY <2>1, <2>2
<1> QED
  BY <1>1, <1>2, ArmsAreFunctions, PTL DEF GroupSpec

-----------------------------------------------------------------------------
(* Run r went on from world w and the nodes of `path`: a refund written since needed a call of      *)
(* issue_refund that did not fail.                                                                  *)
Since(k, r, w, path) ==
  /\ Typed(r)
  /\ \E more \in Seq(GroupNodes) : r.nodes = path \o more
  /\ \E calls \in Seq(ToolCall) :
       /\ r.world.log = w.log \o calls
       /\ r.world.refunds # w.refunds =>
            ~Fails(k, "issue_refund") /\ \E i \in DOMAIN calls : calls[i].name = "issue_refund"

(* What a superstep's tool calls leave in the log, and that only issue_refund writes refunds. *)
LEMMA CalledLogs ==
  ASSUME NEW k \in Case, NEW r, r.world \in World, r.next \in GroupNodes
  PROVE  \/ Called(k, r) = r.world
         \/ \E e \in ToolCall :
              /\ Called(k, r).log = Append(r.world.log, e)
              /\ \/ Called(k, r).refunds = r.world.refunds
                 \/ e.name = "issue_refund" /\ ~Fails(k, "issue_refund")
<1> DEFINE w == r.world
           e(tool) == [name |-> tool, ok |-> ~Fails(k, tool)]
<1>1. \A tool \in ToolNames : e(tool) \in ToolCall
  BY DEF ToolCall, Fails
<1>2. \A tool : /\ Logged(w, k, tool).log = Append(w.log, e(tool)) /\ Logged(w, k, tool).refunds = w.refunds
                /\ DOMAIN Logged(w, k, tool) = DOMAIN w
  BY DEF Logged, World
<1>3. \A o : AfterLookup(w, k, o).log = Append(w.log, e("lookup_order")) /\ AfterLookup(w, k, o).refunds = w.refunds
  BY <1>2 DEF AfterLookup, World
<1>4. \A o, type, a :
        /\ AfterIssue(w, k, o, type, a).log = Append(w.log, e("issue_refund"))
        /\ Fails(k, "issue_refund") => AfterIssue(w, k, o, type, a).refunds = w.refunds
  BY <1>2 DEF AfterIssue, World
<1>5. {"lookup_order", "get_refund_history", "check_eligibility", "issue_refund"} \subseteq ToolNames
  BY DEF ToolNames
<1>6. CASE r.next = "lookup_order"
  <2>1. Called(k, r) = AfterLookup(w, k, r.st.order_id)
    BY <1>6 DEF Called
  <2> HIDE DEF w, e
  <2> QED
    BY <1>1, <1>3, <1>5, <2>1 DEF w
<1>7. CASE r.next \in {"get_refund_history", "check_eligibility"}
  <2>1. Called(k, r) = Logged(w, k, r.next)
    BY <1>7 DEF Called
  <2> HIDE DEF w, e
  <2> QED
    BY <1>1, <1>2, <1>5, <1>7, <2>1 DEF w
<1>8. CASE r.next = "issue_refund"
  <2>1. Called(k, r) = AfterIssue(w, k, r.st.order_id, r.st.refund_type, r.st.refund_amount)
    BY <1>8 DEF Called
  <2>2. e("issue_refund").name = "issue_refund"
    OBVIOUS
  <2> HIDE DEF w, e
  <2> QED
    BY <1>1, <1>4, <1>5, <2>1, <2>2 DEF w
<1>9. CASE r.next \in {"classify_request", "compute_refund", "request_approval", "respond"}
  BY <1>9 DEF Called
<1> QED
  BY <1>6, <1>7, <1>8, <1>9 DEF GroupNodes, BeforePlan

(* A superstep goes on from where the run was. *)
LEMMA SincePass ==
  ASSUME NEW k \in Case, NEW v \in ChangesUnderTest, NEW c \in Agent!Classification, NEW t \in RefundTypes, NEW r,
         NEW w \in World, NEW path \in Seq(GroupNodes), Since(k, r, w, path), r.next \in GroupNodes
  PROVE  Since(k, Pass(k, v, c, t, r), w, path)
<1> DEFINE q == Pass(k, v, c, t, r)
<1>1. q.world = Called(k, r) /\ q.nodes = Append(r.nodes, r.next)
  BY DEF Pass, Run
<1>2. Typed(r) /\ Typed(q)
  BY PassTyped DEF Since, Agent!Classification, Agent!Intents, Intents
<1> HIDE DEF q
<1>3. \E more \in Seq(GroupNodes) : q.nodes = path \o more
  <2>1. PICK more \in Seq(GroupNodes) : r.nodes = path \o more
    BY DEF Since
  <2>2. Append(more, r.next) \in Seq(GroupNodes) /\ path \o Append(more, r.next) = Append(path \o more, r.next)
    BY ConcatAppend
  <2> QED
    BY <1>1, <2>1, <2>2
<1>4. PICK calls \in Seq(ToolCall) :
        /\ r.world.log = w.log \o calls
        /\ r.world.refunds # w.refunds =>
             ~Fails(k, "issue_refund") /\ \E i \in DOMAIN calls : calls[i].name = "issue_refund"
  BY DEF Since
<1>5. r.world \in World
  BY <1>2 DEF Typed
<1>6. CASE Called(k, r) = r.world
  BY <1>1, <1>2, <1>3, <1>4, <1>6 DEF Since, q
<1>7. ASSUME NEW e \in ToolCall, Called(k, r).log = Append(r.world.log, e),
             \/ Called(k, r).refunds = r.world.refunds
             \/ e.name = "issue_refund" /\ ~Fails(k, "issue_refund")
      PROVE  Since(k, q, w, path)
  <2> DEFINE more == Append(calls, e)
  <2>1. /\ more \in Seq(ToolCall) /\ Len(calls) + 1 \in DOMAIN more /\ more[Len(calls) + 1] = e
        /\ \A i \in DOMAIN calls : i \in DOMAIN more /\ more[i] = calls[i]
    OBVIOUS
  <2>2. q.world.log = w.log \o more
    <3>1. w.log \in Seq(ToolCall)
      BY DEF World
    <3>2. w.log \o Append(calls, e) = Append(w.log \o calls, e)
      <4>1. \A x, y \in Seq(ToolCall), z \in ToolCall : x \o Append(y, z) = Append(x \o y, z)
        BY ConcatAppend
      <4> QED
        BY <3>1, <4>1
    <3>3. q.world.log = Append(r.world.log, e)
      BY <1>1, <1>7
    <3> QED
      BY <1>4, <3>2, <3>3
  <2> HIDE DEF more
  <2>3. q.world.refunds # w.refunds =>
          ~Fails(k, "issue_refund") /\ \E i \in DOMAIN more : more[i].name = "issue_refund"
    BY <1>1, <1>4, <1>7, <2>1
  <2> QED
    BY <1>2, <1>3, <2>1, <2>2, <2>3 DEF Since
<1> QED
  BY <1>5, <1>6, <1>7, CalledLogs DEF q

(* A run to its end goes on from where it started. *)
LEMMA SinceFinish ==
  ASSUME NEW k \in Case, NEW v \in ChangesUnderTest, NEW c \in Agent!Classification, NEW t \in RefundTypes, NEW r,
         NEW w \in World, NEW path \in Seq(GroupNodes), Since(k, r, w, path)
  PROVE  Since(k, Finish(k, v, c, t, r), w, path)
<1>1. \A q : \A node \in GroupNodes : Since(k, q, w, path) => Since(k, PassAt(node, k, v, c, t, q), w, path)
  BY SincePass DEF PassAt
<1> DEFINE a == PassAt("classify_request", k, v, c, t, r)
           b == PassAt("lookup_order", k, v, c, t, a)
           d == PassAt("get_refund_history", k, v, c, t, b)
           e == PassAt("check_eligibility", k, v, c, t, d)
           f == PassAt("compute_refund", k, v, c, t, e)
           g == PassAt("request_approval", k, v, c, t, f)
           h == PassAt("issue_refund", k, v, c, t, g)
           i == PassAt("respond", k, v, c, t, h)
<1>2. Finish(k, v, c, t, r) = i
  BY DEF Finish, FromPlan, ToPlan
<1>3. {"classify_request", "lookup_order", "get_refund_history", "check_eligibility", "compute_refund",
       "request_approval", "issue_refund", "respond"} \subseteq GroupNodes
  BY DEF GroupNodes, BeforePlan
<1>4. Since(k, a, w, path)
  BY <1>1, <1>3
<1>5. Since(k, b, w, path)
  <2> HIDE DEF a
  <2> QED
    BY <1>1, <1>3, <1>4
<1>6. Since(k, d, w, path)
  <2> HIDE DEF b
  <2> QED
    BY <1>1, <1>3, <1>5
<1>7. Since(k, e, w, path)
  <2> HIDE DEF d
  <2> QED
    BY <1>1, <1>3, <1>6
<1>8. Since(k, f, w, path)
  <2> HIDE DEF e
  <2> QED
    BY <1>1, <1>3, <1>7
<1>9. Since(k, g, w, path)
  <2> HIDE DEF f
  <2> QED
    BY <1>1, <1>3, <1>8
<1>10. Since(k, h, w, path)
  <2> HIDE DEF g
  <2> QED
    BY <1>1, <1>3, <1>9
<1>11. Since(k, i, w, path)
  <2> HIDE DEF h
  <2> QED
    BY <1>1, <1>3, <1>10
<1> QED
  BY <1>2, <1>11

(* The first of two sequences comes first. *)
LEMMA FirstPart ==
  ASSUME NEW S, NEW a \in Seq(S), NEW b \in Seq(S)
  PROVE  SubSeq(a \o b, 1, Len(a)) = a
<1> DEFINE both == a \o b
           part == SubSeq(both, 1, Len(a))
<1>1. /\ both \in Seq(S) /\ Len(both) = Len(a) + Len(b) /\ Len(a) \in Nat /\ Len(b) \in Nat
      /\ \A i \in 1..Len(a) + Len(b) : both[i] = IF i <= Len(a) THEN a[i] ELSE b[i - Len(a)]
  BY ConcatProperties
<1> HIDE DEF both
<1>2. /\ part \in Seq(S) /\ Len(part) = Len(a)
      /\ \A i \in 1..Len(a) : part[i] = both[i]
  BY <1>1, SubSeqProperties
<1> HIDE DEF part
<1>3. \A i \in 1..Len(a) : part[i] = a[i]
  BY <1>1, <1>2
<1>4. part = [i \in 1..Len(a) |-> part[i]] /\ a = [i \in 1..Len(a) |-> a[i]]
  BY <1>2
<1> QED
  BY <1>3, <1>4 DEF part, both

-----------------------------------------------------------------------------
(* The m-th arm of the j-th of n changes, among the arms of a group. *)
LEMMA ArmIndex ==
  ASSUME NEW n \in Nat, NEW j \in 1..n, NEW m \in 1..3, NEW i, i = 3 * (j - 1) + m + 1
  PROVE  /\ i \in 1..1 + 3 * n /\ i # 1
         /\ (i - 2) \div 3 + 1 = j /\ ((i - 2) % 3) + 1 = m
<1>1. i - 2 = 3 * (j - 1) + (m - 1) /\ i - 2 \in Nat /\ i # 1
  OBVIOUS
<1>2. i \in 1..1 + 3 * n
  <2>1. j <= n /\ j >= 1 /\ m <= 3 /\ m >= 1 /\ i >= 1 /\ i <= 1 + 3 * n /\ i \in Int
    OBVIOUS
  <2> QED
    BY <2>1
<1>3. CASE m = 1
  BY <1>1, <1>2, <1>3
<1>4. CASE m = 2
  BY <1>1, <1>2, <1>4
<1>5. CASE m = 3
  BY <1>1, <1>2, <1>5
<1> QED
  BY <1>3, <1>4, <1>5

(* Every arm of every change is one of the group's. *)
LEMMA ArmsCovered ==
  ASSUME NEW list \in Seq(ChangesUnderTest), NEW j \in DOMAIN list, NEW a \in {"full", "fork", "fork_naive"}
  PROVE  \E i \in 1..Len(AllArms(list)) : AllArms(list)[i] = [arm |-> a, change |-> list[j]]
<1>1. PICK m \in 1..3 : ArmOrder[m] = a
  <2>1. CASE forks_first
    <3>1. ArmOrder[1] = "fork" /\ ArmOrder[2] = "fork_naive" /\ ArmOrder[3] = "full"
      BY <2>1 DEF ArmOrder
    <3> QED
      BY <3>1
  <2>2. CASE ~forks_first
    <3>1. ArmOrder[1] = "full" /\ ArmOrder[2] = "fork" /\ ArmOrder[3] = "fork_naive"
      BY <2>2 DEF ArmOrder
    <3> QED
      BY <3>1
  <2> QED
    BY <2>1, <2>2
<1> DEFINE i == 3 * (j - 1) + m + 1
<1>2. Len(list) \in Nat /\ j \in 1..Len(list)
  OBVIOUS
<1>3. /\ i \in 1..1 + 3 * Len(list) /\ i # 1
      /\ (i - 2) \div 3 + 1 = j /\ ((i - 2) % 3) + 1 = m
  <2> PICK x : x = i
    OBVIOUS
  <2> HIDE DEF i
  <2>1. x = 3 * (j - 1) + m + 1
    BY DEF i
  <2>2. \A n \in Nat : \A p \in 1..n, q \in 1..3 : \A z : z = 3 * (p - 1) + q + 1 =>
           /\ z \in 1..1 + 3 * n /\ z # 1
           /\ (z - 2) \div 3 + 1 = p /\ ((z - 2) % 3) + 1 = q
    BY ArmIndex
  <2>3. m \in 1..3 /\ Len(list) \in Nat /\ j \in 1..Len(list)
    BY <1>1, <1>2
  <2>5. \A p \in 1..Len(list), q \in 1..3 : \A z : z = 3 * (p - 1) + q + 1 =>
           /\ z \in 1..1 + 3 * Len(list) /\ z # 1
           /\ (z - 2) \div 3 + 1 = p /\ ((z - 2) % 3) + 1 = q
    BY <2>2, <2>3
  <2>6. \A z : z = 3 * (j - 1) + m + 1 =>
           /\ z \in 1..1 + 3 * Len(list) /\ z # 1
           /\ (z - 2) \div 3 + 1 = j /\ ((z - 2) % 3) + 1 = m
    BY <2>3, <2>5
  <2>4. /\ x \in 1..1 + 3 * Len(list) /\ x # 1
        /\ (x - 2) \div 3 + 1 = j /\ ((x - 2) % 3) + 1 = m
    BY <2>1, <2>6
  <2> QED
    BY <2>4
<1> HIDE DEF i
<1>4. AllArms(list)[i] = ArmsOf(list[(i - 2) \div 3 + 1])[((i - 2) % 3) + 1]
  BY <1>3 DEF AllArms
<1>6. ArmsOf(list[j])[m] = [arm |-> a, change |-> list[j]]
  BY <1>1 DEF ArmsOf
<1>7. Len(AllArms(list)) = 1 + 3 * Len(list)
  BY ArmsType
<1> QED
  BY <1>3, <1>4, <1>6, <1>7

(* A finished group has a row of every arm of every change, and it is what the report reads. *)
LEMMA TheRowIs ==
  ASSUME FunctionInv, TraceInv, Finished, NEW change \in Changes, NEW a \in {"full", "fork", "fork_naive"}
  PROVE  /\ change \in ChangesUnderTest /\ rows # << >> /\ HistoryInv /\ SeenInv
         /\ \E i \in DOMAIN rows : i \in Of(a, change) /\ TheRow(a, change) = rows[i] /\ rows[i].arm = a
                                   /\ rows[i].change = change /\ RowInv(rows[i]) /\ FlagInv(rows[i])
<1>1. queue = << >> /\ HistoryInv /\ SeenInv /\ CoverInv /\ rows # << >>
  BY DEF Finished, FunctionInv, TraceInv, HistoryInv
<1>2. PICK j \in DOMAIN changes : change = changes[j]
  BY DEF Changes
<1>3. changes \in Seq(ChangesUnderTest) /\ change \in ChangesUnderTest
  BY <1>1, <1>2 DEF CoverInv
<1>4. PICK i \in 1..Len(AllArms(changes)) : AllArms(changes)[i] = [arm |-> a, change |-> changes[j]]
  BY <1>3, ArmsCovered
<1>5. i \in DOMAIN rows
  <2>1. Len(rows) = Len(AllArms(changes)) /\ DOMAIN rows = 1..Len(rows)
    <3>1. rows \in Seq(Range(rows)) /\ Len(queue) = 0
      BY <1>1 DEF FunctionInv
    <3>2. Len(rows) + Len(queue) = Len(AllArms(changes))
      BY <1>1 DEF CoverInv
    <3> QED
      BY <3>1, <3>2
  <2> QED
    BY <2>1
<1>6. i \in Of(a, change)
  <2>1. rows[i].arm = AllArms(changes)[i].arm /\ rows[i].change = AllArms(changes)[i].change
    BY <1>1, <1>5 DEF CoverInv
  <2> QED
    BY <1>2, <1>4, <1>5, <2>1 DEF Of
<1>7. PICK l \in Of(a, change) : TheRow(a, change) = rows[l]
  BY <1>6 DEF TheRow
<1>8. l \in DOMAIN rows /\ rows[l].arm = a /\ rows[l].change = change
  BY <1>7 DEF Of
<1>9. RowInv(rows[l]) /\ FlagInv(rows[l])
  BY <1>8 DEF FunctionInv, TraceInv
<1> QED
  BY <1>1, <1>3, <1>7, <1>8, <1>9

(* The forks of a change start where the changed node is about to run. *)
LEMMA PointIs ==
  ASSUME NEW change \in ChangesUnderTest
  PROVE  FindForkPoint(History, CHANGED_NODE[change]) = ForkPoint
BY PlanPoint DEF ForkPoint

(* A baseline's run shows no marker. *)
LEMMA BaselineMarks ==
  ASSUME NEW k, NEW c, NEW t, NEW r
  PROVE  Finish(k, "baseline", c, t, r).fired = r.fired
<1>1. ASSUME NEW node, NEW q PROVE PassAt(node, k, "baseline", c, t, q).fired = q.fired
  <2>1. \A m, s : RouteMarks("baseline", m, s) = {}
    BY DEF RouteMarks, EntersFastPath
  <2> QED
    BY <2>1 DEF PassAt, Pass, Run
<1>2. "baseline" \in ChangesUnderTest
  BY DEF ChangesUnderTest
<1>3. ToPlan(k, "baseline", c, t, r).fired = r.fired
  <2> DEFINE a == PassAt("classify_request", k, "baseline", c, t, r)
             b == PassAt("lookup_order", k, "baseline", c, t, a)
             d == PassAt("get_refund_history", k, "baseline", c, t, b)
             e == PassAt("check_eligibility", k, "baseline", c, t, d)
  <2>1. ToPlan(k, "baseline", c, t, r) = e
    BY DEF ToPlan
  <2>2. a.fired = r.fired /\ b.fired = a.fired /\ d.fired = b.fired /\ e.fired = d.fired
    <3> HIDE DEF a, b, d
    <3>1. a.fired = r.fired
      BY <1>1 DEF a
    <3>2. b.fired = a.fired
      BY <1>1 DEF b
    <3>3. d.fired = b.fired
      BY <1>1 DEF d
    <3>4. e.fired = d.fired
      BY <1>1
    <3> QED
      BY <3>1, <3>2, <3>3, <3>4
  <2> HIDE DEF a, b, d, e
  <2> QED
    BY <2>1, <2>2
<1> QED
  BY <1>2, <1>3, FromPlanMarks DEF Finish

(* What grading makes of an inherited verdict is what it makes of the baseline's. *)
LEMMA GradedAlike ==
  ASSUME NEW a, NEW b, Outcome(a) = Outcome(b), NEW g, NEW verdict
  PROVE  LET ga == Graded(a, g, verdict)
             gb == Graded(b, g, verdict)
         IN /\ ga.crashed = gb.crashed /\ ga.end_state_pass = gb.end_state_pass
            /\ ga.constraints_pass = gb.constraints_pass /\ ga.answer_pass = gb.answer_pass
            /\ ga.judge_score = gb.judge_score /\ ga.grading_error = gb.grading_error
            /\ Passes(ga, "three_artifact") = Passes(gb, "three_artifact")
<1>1. a.ended = b.ended /\ a.world.refunds = b.world.refunds /\ a.world.log = b.world.log /\ a.reply = b.reply
  BY DEF Outcome
<1> QED
  BY <1>1 DEF Graded, GradeRun, Passes, MATCH_MODES

-----------------------------------------------------------------------------
(* A forking run goes on from its fork point, and a full rerun that classifies alike comes past it. *)
LEMMA ForkGoesOn ==
  ASSUME HistoryInv, ForkPoint # None, NEW v \in ChangesUnderTest, NEW t \in RefundTypes
  PROVE  /\ Base.classify \in Agent!Classification /\ ForkPoint.snapshot \in World
         /\ ForkPoint.step \in 0..Len(Base.nodes) /\ SubSeq(Base.nodes, 1, ForkPoint.step) \in Seq(GroupNodes)
         /\ Finish(case, v, Base.classify, t, Fresh(case)) = Finish(case, v, Base.classify, t, Origin("fork"))
         /\ Since(case, Finish(case, v, Base.classify, t, Origin("fork")), ForkPoint.snapshot,
                  SubSeq(Base.nodes, 1, ForkPoint.step))
<1> DEFINE f == Forked(ForkPoint, ForkPoint.snapshot, Base.nodes)
           path == SubSeq(Base.nodes, 1, ForkPoint.step)
<1>1. /\ Base.classify \in Agent!Classification /\ Typed(f) /\ ForkPoint.step \in 0..Len(Base.nodes)
      /\ Base.nodes \in Seq(GroupNodes) /\ case \in Case
  BY GroupAssumption DEF HistoryInv, StopsAtPlan
<1>2. ForkPoint.snapshot \in World
  BY PointLedger
<1>3. Origin("fork") = f
  BY DEF Origin, Forking, ForkWorld
<1>4. f.nodes = path /\ f.world = ForkPoint.snapshot
  BY DEF Forked, Run
<1>5. path \in Seq(GroupNodes)
  BY <1>1
<1> HIDE DEF f, path
<1>6. Since(case, f, ForkPoint.snapshot, path)
  <2>1. path = path \o << >> /\ << >> \in Seq(GroupNodes)
    BY <1>5
  <2>2. ForkPoint.snapshot.log \in Seq(ToolCall)
    BY <1>2 DEF World
  <2>3. ForkPoint.snapshot.log = ForkPoint.snapshot.log \o << >> /\ << >> \in Seq(ToolCall)
    BY <2>2
  <2> QED
    BY <1>1, <1>4, <2>1, <2>3 DEF Since
<1>7. Finish(case, v, Base.classify, t, Fresh(case)) = Finish(case, v, Base.classify, t, Origin("fork"))
  BY ForkOrigin
<1>8. Since(case, Finish(case, v, Base.classify, t, f), ForkPoint.snapshot, path)
  BY <1>1, <1>2, <1>5, <1>6, SinceFinish
<1> QED
  BY <1>1, <1>2, <1>3, <1>5, <1>7, <1>8 DEF path

(* The difference of two equal scores is none. *)
LEMMA NoDelta ==
  ASSUME NEW ga, NEW gb, NEW score \in {"three_artifact", "judge_score"},
         ga.grading_error = gb.grading_error, ga.judge_score = gb.judge_score, ga.judge_score \in Int,
         Passes(ga, "three_artifact") = Passes(gb, "three_artifact")
  PROVE  PairedDelta(ga, gb, score) \in {0, None}
<1>1. Score(gb, score) = Score(ga, score) /\ Score(ga, score) \in Int
  BY DEF Score
<1>2. Score(gb, score) - Score(ga, score) = 0
  <2> HIDE DEF Score
  <2> QED
    BY <1>1
<1> QED
  BY <1>2 DEF PairedDelta

(* The report and the scripts speak of the same pairs. *)
LEMMA PairsAgree ==
  ASSUME FunctionInv, TraceInv
  PROVE  PairsAreOne
<1> SUFFICES ASSUME Finished, NEW change \in Changes, NEW point, point = FindForkPoint(History, CHANGED_NODE[change]),
                    NEW k, k = TheRow("fork", change), NEW f, f = TheRow("full", change)
             PROVE  /\ Forkable(k) <=> PassedChangedNode(Base)
                    /\ Forkable(k) /\ f.classify = Base.classify /\ f.ended = "done" =>
                         /\ SubSeq(f.nodes, 1, point.step) = SubSeq(Base.nodes, 1, point.step)
                         /\ SubSeq(f.world.log, 1, Len(point.snapshot.log)) = point.snapshot.log
                    /\ ~Forkable(k) =>
                         \A g \in Gradings, j \in SampleVerdicts, score \in {"three_artifact", "judge_score"} :
                           PairedDelta(Graded(Base, g, j), Graded(k, g, j), score) \in {0, None}
  BY DEF PairsAreOne
<1>1. /\ change \in ChangesUnderTest /\ rows # << >> /\ HistoryInv /\ SeenInv
      /\ k.arm = "fork" /\ k.change = change /\ RowInv(k) /\ FlagInv(k)
      /\ f.arm = "full" /\ f.change = change /\ RowInv(f) /\ FlagInv(f)
  BY TheRowIs
<1>2. point = ForkPoint
  BY <1>1, PointIs
<1>3. Forking(k.arm) /\ ~Forking(f.arm) /\ ~f.inherited /\ k.inherited \in BOOLEAN
  BY <1>1 DEF Forking, RowInv
<1>4. k.inherited <=> ForkPoint = None
  BY <1>1, <1>3 DEF RowInv
<1>5. Forkable(k) <=> PassedChangedNode(Base)
  BY <1>1, <1>4 DEF SeenInv, Forkable, PassedChangedNode
<1>6. ASSUME Forkable(k), f.classify = Base.classify, f.ended = "done"
      PROVE  /\ SubSeq(f.nodes, 1, point.step) = SubSeq(Base.nodes, 1, point.step)
             /\ SubSeq(f.world.log, 1, Len(point.snapshot.log)) = point.snapshot.log
  <2>1. ForkPoint # None
    BY <1>4, <1>6 DEF Forkable
  <2>2. Base.classify \in Agent!Classification /\ "full" \in RefundTypes
    BY <1>1, <2>1, ForkGoesOn DEF RefundTypes
  <2>3. PICK t \in RefundTypes : f.planned \in {None, t}
    <3>1. f.planned \in RefundTypes \cup {None}
      BY <1>1, <1>3 DEF FlagInv
    <3> QED
      BY <2>2, <3>1
  <2> DEFINE r == Finish(case, change, Base.classify, t, Fresh(case))
             path == SubSeq(Base.nodes, 1, ForkPoint.step)
  <2>4. Reports(f, r)
    <3>1. /\ \A x \in RefundTypes : f.planned \in {None, x} =>
               Reports(f, Finish(case, f.change, Base.classify, x, Origin(f.arm)))
      BY <1>1, <1>3, <1>6, <2>2, RowReports
    <3>2. Origin(f.arm) = Fresh(case)
      BY <1>3 DEF Origin
    <3> QED
      BY <1>1, <2>3, <3>1, <3>2
  <2>5. /\ ForkPoint.snapshot \in World /\ ForkPoint.step \in 0..Len(Base.nodes) /\ path \in Seq(GroupNodes)
        /\ Since(case, r, ForkPoint.snapshot, path)
    BY <1>1, <2>1, ForkGoesOn
  <2> HIDE DEF r
  <2>6. f.world = r.world /\ f.nodes = r.nodes
    BY <1>6, <2>4 DEF Reports
  <2>7. Len(path) = ForkPoint.step
    BY <1>1, <2>5 DEF HistoryInv
  <2> HIDE DEF path
  <2>8. SubSeq(f.nodes, 1, ForkPoint.step) = path
    <3>1. PICK more \in Seq(GroupNodes) : f.nodes = path \o more
      BY <2>5, <2>6 DEF Since
    <3>2. \A x, y \in Seq(GroupNodes) : SubSeq(x \o y, 1, Len(x)) = x
      BY FirstPart
    <3> QED
      BY <2>5, <2>7, <3>1, <3>2
  <2>9. SubSeq(f.world.log, 1, Len(ForkPoint.snapshot.log)) = ForkPoint.snapshot.log
    <3>1. PICK calls \in Seq(ToolCall) : f.world.log = ForkPoint.snapshot.log \o calls
      BY <2>5, <2>6 DEF Since
    <3>2. \A x, y \in Seq(ToolCall) : SubSeq(x \o y, 1, Len(x)) = x
      BY FirstPart
    <3>3. ForkPoint.snapshot.log \in Seq(ToolCall)
      BY <2>5 DEF World
    <3> QED
      BY <3>1, <3>2, <3>3
  <2> QED
    BY <1>2, <2>8, <2>9 DEF path
<1>7. ASSUME ~Forkable(k), NEW g \in Gradings, NEW j \in SampleVerdicts, NEW score \in {"three_artifact", "judge_score"}
      PROVE  PairedDelta(Graded(Base, g, j), Graded(k, g, j), score) \in {0, None}
  <2>1. Outcome(Base) = Outcome(k)
    BY <1>1, <1>7 DEF RowInv, Forkable
  <2>2. Graded(Base, g, j).judge_score \in Int
    BY DEF Graded, GradeRun, AnswerCheck, SampleVerdicts, Endorsed, JUDGE_PASS
  <2>3. PICK ga : ga = Graded(Base, g, j)
    OBVIOUS
  <2>4. PICK gb : gb = Graded(k, g, j)
    OBVIOUS
  <2>5. /\ ga.grading_error = gb.grading_error /\ ga.judge_score = gb.judge_score
        /\ Passes(ga, "three_artifact") = Passes(gb, "three_artifact")
    BY <2>1, <2>3, <2>4, GradedAlike
  <2> QED
    BY <2>2, <2>3, <2>4, <2>5, NoDelta
<1> QED
  BY <1>5, <1>6, <1>7

(* The report's pairs and those of the offline scripts are the same, the classification fixes what  *)
(* happens up to the fork point, and every other pair has delta 0 (evals/report_part2.py,           *)
(* scripts/upstream_state.py:6-10 and 86, scripts/paired_contrasts.py:91).                          *)
THEOREM PairsAreAlwaysOne == GroupSpec => []PairsAreOne
<1>1. PauseInv /\ FunctionInv /\ TraceInv => PairsAreOne
  BY PairsAgree
<1> QED
  BY <1>1, ArmsAreFunctions, TracesAreKept, PTL

-----------------------------------------------------------------------------
(* The routing check flags a change exactly where its full rerun takes the fast path. *)
LEMMA FlagsAgree ==
  ASSUME FunctionInv, TraceInv
  PROVE  RoutingFlagsExactly
<1> SUFFICES ASSUME Finished, NEW change \in Changes,
                    NEW k, k = TheRow("fork", change), NEW f, f = TheRow("full", change)
             PROVE  /\ Flagged(k, Base) => change = "E" /\ Base.ended = "done" /\ k.inherited
                    /\ change = "E" /\ f.classify = Base.classify /\ Base.ended = "done" =>
                         (Flagged(k, Base) <=> "E:damaged_fast_path" \in f.fired)
                    /\ \A g \in Gradings : \A j1, j2 \in SampleVerdicts :
                         LET gb == Graded(Base, g, j1)
                             gf == Graded(f, g, j2)
                             lists == RoutingChange(k, f, Base, Graded(IF k.inherited THEN Base ELSE k, g, j1), gf, gb)
                         IN k.inherited /\ f.classify = Base.classify /\ f.ended = "done"
                            /\ "hidden_by_fork" \in lists =>
                              \/ "routing_flagged" \in lists
                              \/ gf.end_state_pass /\ gf.constraints_pass /\ ~gf.answer_pass
  BY DEF RoutingFlagsExactly
<1>1. /\ change \in ChangesUnderTest /\ rows # << >> /\ HistoryInv /\ SeenInv
      /\ k.arm = "fork" /\ k.change = change /\ RowInv(k) /\ FlagInv(k)
      /\ f.arm = "full" /\ f.change = change /\ RowInv(f) /\ FlagInv(f)
      /\ \E i \in Of("fork", change) : k = rows[i]
      /\ \E i \in Of("full", change) : f = rows[i]
  BY TheRowIs
<1>2. Forking(k.arm) /\ ~Forking(f.arm) /\ ~f.inherited /\ k.inherited \in BOOLEAN
  BY <1>1 DEF Forking, RowInv
<1>3. k.inherited <=> ForkPoint = None
  BY <1>1, <1>2 DEF RowInv
<1>4. Base.ended = "done" <=> recorded # 0
  BY <1>1 DEF SeenInv
<1>5. ~k.inherited => k.routing_ok = TRUE
  BY <1>1, <1>2 DEF FlagInv
<1>6. k.inherited /\ Base.ended = "done" => (k.routing_ok <=> CheckRouting(History, change, None))
  BY <1>1, <1>4 DEF RowInv
<1>7. Flagged(k, Base) => change = "E" /\ Base.ended = "done" /\ k.inherited
  BY <1>1, <1>5, <1>6 DEF Flagged, SeenInv
<1>8. ASSUME change = "E", f.classify = Base.classify, Base.ended = "done"
      PROVE  Flagged(k, Base) <=> FastPath \in f.fired
  <2>1. Base.classify \in Agent!Classification
    BY <1>1, <1>8, BaselineReports
  <2>2. f.planned \in RefundTypes \cup {None} /\ "full" \in RefundTypes
    BY <1>1, <1>2 DEF FlagInv, RefundTypes
  <2>3. PICK t \in RefundTypes : f.planned \in {None, t}
    BY <2>2
  <2> DEFINE r == Finish(case, "E", Base.classify, t, Fresh(case))
  <2>4. f.fired = r.fired
    BY <1>1, <1>2, <1>8, <2>1, <2>3 DEF FlagInv
  <2>5. CASE k.inherited /\ ~CheckRouting(History, "E", None)
    <3>1. Base.planned = None
      BY <1>1, <1>3, <1>4, <1>8, <2>5 DEF HistoryInv
    <3>2. FastPath \in r.fired
      BY <1>1, <1>4, <1>8, <2>5, <3>1 DEF SeenInv
    <3> QED
      BY <1>6, <1>8, <2>4, <2>5, <3>2 DEF Flagged
  <2>6. CASE k.inherited /\ CheckRouting(History, "E", None)
    <3>1. Base.planned = None
      BY <1>1, <1>3, <1>4, <1>8, <2>6 DEF HistoryInv
    <3>2. r = Finish(case, "baseline", Base.classify, t, Fresh(case))
      BY <1>1, <1>4, <1>8, <2>6, <3>1 DEF HistoryInv
    <3>3. Fresh(case).fired = {}
      BY DEF Fresh, Run
    <3>4. r.fired = {}
      BY <3>2, <3>3, BaselineMarks
    <3> QED
      BY <1>6, <1>8, <2>4, <2>6, <3>4 DEF Flagged
  <2>7. CASE ~k.inherited
    <3> DEFINE p == Forked(ForkPoint, ForkPoint.snapshot, Base.nodes)
    <3>1. ForkPoint # None
      BY <1>3, <2>7
    <3>2. p = ToPlan(case, "E", Base.classify, t, Fresh(case))
      BY <1>1, <1>8, <3>1 DEF HistoryInv, StopsAtPlan
    <3>3. p.fired = {}
      BY DEF Forked, Run
    <3> HIDE DEF p
    <3>4. r.fired = p.fired
      BY <1>1, <1>8, <3>2, FromPlanMarks DEF Finish
    <3> QED
      BY <1>5, <2>4, <2>7, <3>3, <3>4 DEF Flagged
  <2> QED
    BY <2>5, <2>6, <2>7
<1>9. ASSUME NEW g \in Gradings, NEW j1 \in SampleVerdicts, NEW j2 \in SampleVerdicts,
             NEW gb, gb = Graded(Base, g, j1), NEW gf, gf = Graded(f, g, j2), NEW gk,
             NEW lists, lists = RoutingChange(k, f, Base, gk, gf, gb),
             k.inherited, f.classify = Base.classify, f.ended = "done", "hidden_by_fork" \in lists
      PROVE  \/ "routing_flagged" \in lists
             \/ gf.end_state_pass /\ gf.constraints_pass /\ ~gf.answer_pass
  <2>1. /\ Passes(gb, "three_artifact") /\ ~Passes(gf, "three_artifact")
        /\ Flagged(k, Base) => "routing_flagged" \in lists
    BY <1>9 DEF RoutingChange
  <2>2. gb.crashed <=> Base.ended # "done"
    BY <1>9 DEF Graded, GradeRun
  <2>3. Base.ended = "done" /\ gb.end_state_pass /\ gb.constraints_pass
    BY <2>1, <2>2 DEF Passes
  <2>4. CASE ~k.routing_ok
    BY <2>1, <2>3, <2>4 DEF Flagged
  <2>5. CASE k.routing_ok
    <3>1. Outcome(f) = Outcome(k)
      BY <1>1, <1>9, <2>5, InheritedAgrees DEF InheritedVerdictHolds
    <3>2. Outcome(k) = Outcome(Base)
      BY <1>1, <1>9 DEF RowInv
    <3>3. f.ended = Base.ended /\ f.world.refunds = Base.world.refunds /\ f.world.log = Base.world.log
      BY <3>1, <3>2 DEF Outcome
    <3>4. gf.end_state_pass = gb.end_state_pass /\ gf.constraints_pass = gb.constraints_pass /\ gf.crashed = gb.crashed
      BY <1>9, <3>3 DEF Graded, GradeRun
    <3>5. gf.end_state_pass /\ gf.constraints_pass /\ ~gf.crashed
      BY <1>9, <2>2, <2>3, <3>4
    <3>6. ~gf.answer_pass
      BY <2>1, <3>5 DEF Passes, MATCH_MODES
    <3> QED
      BY <3>5, <3>6
  <2> QED
    BY <2>4, <2>5
<1> QED
  BY <1>7, <1>8, <1>9 DEF FastPath

(* The routing check flags the fast path and nothing else (docs/variants.md, expectation 4; *)
(* evals/report_part2.py:19-21).                                                            *)
THEOREM FlagsAreExact == GroupSpec => []RoutingFlagsExactly
<1>1. PauseInv /\ FunctionInv /\ TraceInv => RoutingFlagsExactly
  BY FlagsAgree
<1> QED
  BY <1>1, ArmsAreFunctions, TracesAreKept, PTL


-----------------------------------------------------------------------------
(* No builder authors two refunds, and one that lets issue_refund succeed lets it be called once. *)
LEMMA IssuesOnce ==
  ASSUME NEW g \in Gradings, case \in Case
  PROVE  /\ \A e \in g.end_states : e.refund_count \in {0, 1}
         /\ \/ "issue_refund" \in g.forbidden
            \/ Fails(case, "issue_refund")
            \/ "issue_refund" \in DOMAIN g.max_calls /\ g.max_calls["issue_refund"] = 1
<1>1. PICK asked \in OrderIds \cup {None} : g \in Authored(case, asked)
  BY DEF Gradings
<1> DEFINE Once(x) == /\ \A e \in x.end_states : e.refund_count \in {0, 1}
                      /\ \/ "issue_refund" \in x.forbidden
                         \/ Fails(case, "issue_refund")
                         \/ "issue_refund" \in DOMAIN x.max_calls /\ x.max_calls["issue_refund"] = 1
<1>2. \A must, path : Once(StopsAtLookup(must, path))
  BY DEF StopsAtLookup, NoRefund
<1>3. \A path : Once(StopsAtCheck(path))
  BY DEF StopsAtCheck, NoRefund
<1>4. \A ends : (\A e \in ends : e.refund_count \in {0, 1}) => Once(Issues(ends, 1))
  BY DEF Issues
<1>5. \A types, price : Once(MixedReasonCase(types, price))
  BY <1>4 DEF MixedReasonCase, OneRefund
<1>6. \A t, price : Once(Issues({OneRefund(t, price)}, 1))
  BY <1>4 DEF OneRefund
<1>7. \A t, price, approval : Once(RefundCase(t, price, approval))
  <2> HIDE DEF Once
  <2> QED
    BY <1>3, <1>6 DEF RefundCase
<1>8. Once(NoIdCase) /\ Once(NotFoundCase) /\ Once(LookupFailureCase) /\ Once(IneligibleCase) /\ Once(ChangedOrderCase)
  <2> HIDE DEF Once
  <2> QED
    BY <1>2, <1>3 DEF NoIdCase, NotFoundCase, LookupFailureCase, IneligibleCase, ChangedOrderCase
<1>9. Fails(case, "issue_refund") => Once(RefundFailureCase)
  BY DEF RefundFailureCase, Issues, NoRefund
<1>10. Once(g)
  <2>1. \/ g \in {NoIdCase, NotFoundCase, LookupFailureCase, IneligibleCase, ChangedOrderCase}
        \/ g = RefundFailureCase /\ case.faults = {"issue_refund"}
        \/ \E t, price, approval : g = RefundCase(t, price, approval)
        \/ \E types, price : g = MixedReasonCase(types, price)
    BY <1>1 DEF Authored
  <2> HIDE DEF Once
  <2>2. case.faults = {"issue_refund"} => Fails(case, "issue_refund")
    BY DEF Fails
  <2> QED
    BY <1>5, <1>7, <1>8, <1>9, <2>1, <2>2
<1> QED
  BY <1>10

(* A tool called in both parts of a run is called twice. *)
LEMMA CalledTwice ==
  ASSUME NEW names, NEW tool, NEW n \in Nat, DOMAIN names = 1..n,
         NEW i \in 1..n, NEW j \in 1..n, i # j, names[i] = tool, names[j] = tool
  PROVE  Count(names, tool) \in Nat /\ Count(names, tool) > 1
<1> DEFINE there == {k \in DOMAIN names : names[k] = tool}
<1>1. IsFiniteSet(1..n)
  BY FS_Interval
<1>2. there \subseteq 1..n /\ {i, j} \subseteq there
  OBVIOUS
<1>3. IsFiniteSet(there)
  BY <1>1, <1>2, FS_Subset
<1>4. Cardinality({i, j}) = 2
  <2>1. IsFiniteSet({j}) /\ Cardinality({j}) = 1
    BY FS_Singleton
  <2>2. {i, j} = {j} \cup {i} /\ i \notin {j}
    OBVIOUS
  <2> QED
    <3>1. Cardinality({j} \cup {i}) = Cardinality({j}) + 1
      BY <2>1, <2>2, FS_AddElement
    <3>2. Cardinality({i, j}) = Cardinality({j} \cup {i})
      BY <2>2, Zenon
    <3>3. 1 + 1 = 2
      OBVIOUS
    <3> QED
      BY <2>1, <3>1, <3>2, <3>3, Zenon
<1>5. Cardinality({i, j}) <= Cardinality(there) /\ Cardinality(there) \in Nat
  BY <1>2, <1>3, FS_Subset, FS_CardinalityType
<1> QED
  BY <1>4, <1>5 DEF Count

(* Of a pair the report compares, the naive verdict differs from the paired one because of the      *)
(* world the baseline left.                                                                         *)
LEMMA NaiveVerdictsAgree ==
  ASSUME FunctionInv, TraceInv
  PROVE  NaiveVerdictsComeFromTheWorld
<1> SUFFICES ASSUME Finished, NEW change \in Changes, NEW g \in Gradings,
                    NEW p, p = TheRow("fork", change), NEW n, n = TheRow("fork_naive", change),
                    NEW gp, gp = Graded(p, g, Endorsed), NEW gn, gn = Graded(n, g, Endorsed),
                    NEW before, before = FindForkPoint(History, CHANGED_NODE[change]).snapshot,
                    Forkable(p),
                    WrongVerdict(p, n, gp, gn, "end_state") \in {"agree", "naive_fail_paired_pass", "naive_pass_paired_fail"}
             PROVE  /\ WrongVerdict(p, n, gp, gn, "end_state") # "agree" => Issued(Base)
                    /\ Issued(Base) /\ Issued(p) =>
                         /\ ~gn.end_state_pass
                         /\ gp.constraints_pass => WrongVerdict(p, n, gp, gn, "constraints") = "naive_fail_paired_pass"
                    /\ WrongVerdict(p, n, gp, gn, "end_state") = "naive_pass_paired_fail" =>
                         ~Issued(p) /\ Graded(Base, g, Endorsed).end_state_pass
                    /\ WrongVerdict(p, n, gp, gn, "constraints") # "agree" => Base.world.log # before.log
  BY DEF NaiveVerdictsComeFromTheWorld
<1> DEFINE ToolsOf(row) == [i \in DOMAIN row.world.log |-> row.world.log[i].name]
<1>1. /\ change \in ChangesUnderTest /\ rows # << >> /\ HistoryInv /\ SeenInv
      /\ p.arm = "fork" /\ p.change = change /\ RowInv(p)
      /\ n.arm = "fork_naive" /\ n.change = change /\ RowInv(n)
  BY TheRowIs
<1>2. PICK ip \in Of("fork", change), jn \in Of("fork_naive", change) : p = rows[ip] /\ n = rows[jn]
  BY TheRowIs
<1>3. before = ForkPoint.snapshot /\ case \in Case
  BY <1>1, PointIs, GroupAssumption DEF HistoryInv
(* The pair is compared. *)
<1>4. SameDecision(p, n) /\ ~(gp.grading_error \/ gn.grading_error)
  BY DEF WrongVerdict
<1>5. p.ended = "done" /\ n.ended = "done" /\ p.planned = n.planned /\ ~p.inherited
  BY <1>4 DEF SameDecision, Decision, Forkable
<1>6. /\ WrongVerdict(p, n, gp, gn, "end_state") =
           IF gp.end_state_pass = gn.end_state_pass THEN "agree"
           ELSE IF gp.end_state_pass THEN "naive_fail_paired_pass" ELSE "naive_pass_paired_fail"
      /\ WrongVerdict(p, n, gp, gn, "constraints") =
           IF gp.constraints_pass = gn.constraints_pass THEN "agree"
           ELSE IF gp.constraints_pass THEN "naive_fail_paired_pass" ELSE "naive_pass_paired_fail"
  BY <1>4 DEF WrongVerdict, Verdict
<1>7. ForkPoint # None
  BY <1>1, <1>5 DEF RowInv, Forking
<1>8. Base.ended = "done" /\ ~Base.inherited /\ Base.arm = "baseline" /\ Base.change = "baseline"
  <2>1. recorded # 0
    <3>1. DOMAIN History # {}
      BY <1>7 DEF ForkPoint, FindForkPoint
    <3>2. recorded = 0 => History = << >>
      BY DEF History
    <3> QED
      BY <3>1, <3>2
  <2> QED
    BY <1>1, <2>1 DEF HistoryInv
(* What each of the three runs left. *)
<1>9. PICK mine \in Seq(ToolCall) :
        /\ Base.world.log = mine /\ Base.world.refunds \in Seq(RefundRow)
        /\ Base.world.refunds # << >> =>
             ~Fails(case, "issue_refund") /\ \E i \in DOMAIN mine : mine[i].name = "issue_refund"
  <2>1. RowInv(Base) /\ FlagInv(Base) /\ "full" \in RefundTypes /\ "baseline" \in ChangesUnderTest
    <3>1. 1 \in DOMAIN rows
      BY <1>1 DEF FunctionInv
    <3> QED
      BY <3>1 DEF FunctionInv, TraceInv, Base, RefundTypes, ChangesUnderTest, HistoryInv
  <2>2. Base.classify \in Agent!Classification
    BY <1>1, <1>7 DEF HistoryInv, StopsAtPlan
  <2>3. PICK t \in RefundTypes : Base.planned \in {None, t}
    BY <1>8, <2>1 DEF FlagInv, Forking
  <2> DEFINE r == Finish(case, "baseline", Base.classify, t, Fresh(case))
  <2>4. Reports(Base, r)
    <3>1. \A x \in RefundTypes : Base.planned \in {None, x} =>
            Reports(Base, Finish(case, Base.change, Base.classify, x, Origin(Base.arm)))
      BY <1>8, <2>1, <2>2, RowReports
    <3>2. Origin(Base.arm) = Fresh(case)
      BY <1>8 DEF Origin, Forking
    <3> QED
      BY <1>8, <2>3, <3>1, <3>2
  <2>5. SeedWorld(case) \in World /\ SeedWorld(case).log = << >> /\ SeedWorld(case).refunds = << >>
    BY <1>1, FreshTyped DEF HistoryInv, Typed, Fresh, Run, SeedWorld
  <2>6. Since(case, Fresh(case), SeedWorld(case), << >>)
    <3>1. Fresh(case).nodes = << >> /\ Fresh(case).world = SeedWorld(case) /\ Typed(Fresh(case))
      BY <1>1, FreshTyped DEF HistoryInv, Fresh, Run
    <3>2. << >> \in Seq(GroupNodes) /\ << >> = << >> \o << >> /\ << >> \in Seq(ToolCall)
      OBVIOUS
    <3> QED
      BY <2>5, <3>1, <3>2 DEF Since
  <2>7. Since(case, r, SeedWorld(case), << >>)
    <3>1. << >> \in Seq(GroupNodes)
      OBVIOUS
    <3> QED
      BY <1>3, <2>1, <2>2, <2>5, <2>6, <3>1, SinceFinish
  <2> HIDE DEF r
  <2>8. Base.world = r.world
    BY <2>4 DEF Reports
  <2>9. PICK calls \in Seq(ToolCall) :
          /\ Base.world.log = << >> \o calls
          /\ Base.world.refunds # << >> =>
               ~Fails(case, "issue_refund") /\ \E i \in DOMAIN calls : calls[i].name = "issue_refund"
    BY <2>5, <2>7, <2>8 DEF Since
  <2>10. << >> \o calls = calls
    BY <2>9
  <2> QED
    BY <1>1, <2>9, <2>10 DEF HistoryInv, World
<1>10. before \in World /\ before.refunds = << >>
  BY <1>1, <1>3, <1>7, PointLedger
<1>11. PICK calls \in Seq(ToolCall) :
         /\ p.world \in World /\ p.world.log = before.log \o calls
         /\ p.world.refunds # << >> => \E i \in DOMAIN calls : calls[i].name = "issue_refund"
  <2>1. Base.classify \in Agent!Classification
    BY <1>1, <1>7 DEF HistoryInv, StopsAtPlan
  <2>2. p.planned \in RefundTypes
    BY <1>1, <1>5 DEF RowInv, Forking
  <2> DEFINE r == Finish(case, change, Base.classify, p.planned, Origin("fork"))
             path == SubSeq(Base.nodes, 1, ForkPoint.step)
  <2>3. Reports(p, r)
    <3>1. \A x \in RefundTypes : p.planned \in {None, x} =>
            Reports(p, Finish(case, p.change, Base.classify, x, Origin(p.arm)))
      BY <1>1, <1>5, <2>1, RowReports DEF Forking
    <3> QED
      BY <1>1, <2>2, <3>1
  <2>4. Since(case, r, ForkPoint.snapshot, path)
    BY <1>1, <1>7, <2>2, ForkGoesOn
  <2> HIDE DEF r, path
  <2>5. p.world = r.world
    BY <2>3 DEF Reports
  <2> QED
    BY <1>3, <1>10, <2>4, <2>5 DEF Since, Typed
<1> DEFINE shift == Base.world.next_refund - before.next_refund
           new   == [i \in DOMAIN p.world.refunds |-> [p.world.refunds[i] EXCEPT !.id = @ + shift]]
<1>12. n.world.refunds = Base.world.refunds \o new /\ n.world.log = mine \o calls
  <2>1. /\ n.world.refunds = Base.world.refunds \o new
        /\ n.world.log = Base.world.log \o SubSeq(p.world.log, Len(before.log) + 1, Len(p.world.log))
    BY <1>1, <1>2, <1>5, NaiveForkAgrees DEF NaiveForkAddsToWhatWasLeft
  <2>2. SubSeq(p.world.log, Len(before.log) + 1, Len(p.world.log)) = calls
    <3>1. \A x, y \in Seq(ToolCall) : SubSeq(x \o y, Len(x) + 1, Len(x \o y)) = y
      BY SecondPart
    <3>2. before.log \in Seq(ToolCall)
      BY <1>10 DEF World
    <3> QED
      BY <1>11, <3>1, <3>2
  <2> QED
    BY <1>9, <2>1, <2>2
<1>13. shift \in Int
  BY <1>1, <1>10 DEF World, HistoryInv
<1> HIDE DEF shift
<1> DEFINE AnyIdRow == [id: Int, order: OrderIds, type: RefundTypes, amount: Nat]
<1>14. /\ p.world.refunds \in Seq(AnyIdRow) /\ Base.world.refunds \in Seq(AnyIdRow) /\ new \in Seq(AnyIdRow)
       /\ Len(new) = Len(p.world.refunds)
       /\ \A i \in 1..Len(new) : new[i].type = p.world.refunds[i].type /\ new[i].amount = p.world.refunds[i].amount
  <2>1. p.world.refunds \in Seq(RefundRow)
    BY <1>11 DEF World
  <2>2. \A x \in RefundRow : x \in AnyIdRow
    BY DEF RefundRow
  <2>3. \A x \in RefundRow : LET y == [x EXCEPT !.id = @ + shift]
                             IN y \in AnyIdRow /\ y.type = x.type /\ y.amount = x.amount
    BY <1>13 DEF RefundRow
  <2> HIDE DEF AnyIdRow
  <2>4. \A x \in Seq(RefundRow) : x \in Seq(AnyIdRow)
    BY <2>2
  <2>5. DOMAIN new = 1..Len(p.world.refunds) /\ \A i \in 1..Len(p.world.refunds) :
          new[i] \in AnyIdRow /\ new[i].type = p.world.refunds[i].type /\ new[i].amount = p.world.refunds[i].amount
    BY <2>1, <2>3
  <2>6. new = [i \in 1..Len(p.world.refunds) |-> new[i]]
    BY <2>1
  <2> HIDE DEF new
  <2>7. new \in Seq(AnyIdRow) /\ Len(new) = Len(p.world.refunds)
    <3>1. Len(p.world.refunds) \in Nat
      BY <2>1
    <3>2. new \in [1..Len(p.world.refunds) -> AnyIdRow]
      BY <2>5, <2>6
    <3>3. \A m \in Nat : \A s \in [1..m -> AnyIdRow] : s \in Seq(AnyIdRow) /\ Len(s) = m
      OBVIOUS
    <3> QED
      BY <3>1, <3>2, <3>3
  <2> QED
    BY <1>9, <2>1, <2>4, <2>5, <2>7
<1> HIDE DEF new, AnyIdRow
(* What their grading says. *)
<1>15. /\ gp.end_state_pass = CheckEndState(p.world.refunds, g.end_states)
       /\ gn.end_state_pass = CheckEndState(n.world.refunds, g.end_states)
       /\ Graded(Base, g, Endorsed).end_state_pass = CheckEndState(Base.world.refunds, g.end_states)
       /\ gp.constraints_pass = CheckConstraints(ToolsOf(p), g)
       /\ gn.constraints_pass = CheckConstraints(ToolsOf(n), g)
  <2>1. \A row : row.ended = "done" =>
          /\ Graded(row, g, Endorsed).end_state_pass = CheckEndState(row.world.refunds, g.end_states)
          /\ Graded(row, g, Endorsed).constraints_pass = CheckConstraints(ToolsOf(row), g)
    <3> SUFFICES ASSUME NEW row, row.ended = "done"
                 PROVE  /\ Graded(row, g, Endorsed).end_state_pass = CheckEndState(row.world.refunds, g.end_states)
                        /\ Graded(row, g, Endorsed).constraints_pass = CheckConstraints(ToolsOf(row), g)
      OBVIOUS
    <3>1. CheckEndState(row.world.refunds, g.end_states) \in BOOLEAN /\ CheckConstraints(ToolsOf(row), g) \in BOOLEAN
      BY DEF CheckEndState, CheckConstraints
    <3>2. /\ Graded(row, g, Endorsed).end_state_pass = (CheckEndState(row.world.refunds, g.end_states) /\ ~(row.ended # "done"))
          /\ Graded(row, g, Endorsed).constraints_pass = (CheckConstraints(ToolsOf(row), g) /\ ~(row.ended # "done"))
      BY DEF Graded, GradeRun
    <3> HIDE DEF ToolsOf
    <3> QED
      BY <3>1, <3>2
  <2> QED
    BY <1>5, <1>8, <2>1
<1>16. ~Issued(Base) => gn.end_state_pass = gp.end_state_pass
  <2> SUFFICES ASSUME Base.world.refunds = << >>
               PROVE  gn.end_state_pass = gp.end_state_pass
    BY DEF Issued
  <2>1. n.world.refunds = new
    BY <1>12, <1>14
  <2>2. \A e : Matches(new, e) <=> Matches(p.world.refunds, e)
    BY <1>14 DEF Matches
  <2> QED
    BY <1>15, <2>1, <2>2 DEF CheckEndState
<1>17. ASSUME Issued(Base), Issued(p)
       PROVE  ~gn.end_state_pass /\ (gp.constraints_pass => ~gn.constraints_pass)
  <2>1. Len(Base.world.refunds) >= 1 /\ Len(new) >= 1
    <3>1. \A s \in Seq(AnyIdRow) : s # << >> => Len(s) >= 1
      OBVIOUS
    <3>2. p.world.refunds # << >> /\ Base.world.refunds # << >>
      BY <1>17 DEF Issued
    <3> QED
      BY <1>14, <3>1, <3>2
  <2>2. Len(n.world.refunds) >= 2 /\ Len(n.world.refunds) \in Nat
    <3>1. Len(n.world.refunds) = Len(Base.world.refunds) + Len(new)
      <4>1. \A x, y \in Seq(AnyIdRow) : Len(x \o y) = Len(x) + Len(y)
        BY ConcatProperties
      <4> QED
        BY <1>12, <1>14, <4>1
    <3>2. Len(Base.world.refunds) \in Nat /\ Len(new) \in Nat
      BY <1>14
    <3> QED
      BY <2>1, <3>1, <3>2
  <2>3. ~CheckEndState(n.world.refunds, g.end_states)
    <3>1. \A e \in g.end_states : e.refund_count \in {0, 1}
      BY <1>3, IssuesOnce
    <3> QED
      BY <2>2, <3>1 DEF CheckEndState, Matches
  <2>4. ASSUME CheckConstraints(ToolsOf(p), g)
        PROVE  ~CheckConstraints(ToolsOf(n), g)
    <3>1. PICK i \in DOMAIN mine : mine[i].name = "issue_refund"
      BY <1>9, <1>17 DEF Issued
    <3>2. ~Fails(case, "issue_refund")
      BY <1>9, <1>17 DEF Issued
    <3>3. PICK j \in DOMAIN calls : calls[j].name = "issue_refund"
      BY <1>11, <1>17 DEF Issued
    <3>4. before.log \in Seq(ToolCall)
      BY <1>10 DEF World
    <3>5. /\ i \in 1..Len(mine) /\ j \in 1..Len(calls) /\ Len(mine) \in Nat /\ Len(calls) \in Nat /\ Len(before.log) \in Nat
      BY <1>9, <1>11, <3>1, <3>3, <3>4
    <3>6. /\ DOMAIN p.world.log = 1..Len(before.log) + Len(calls)
          /\ p.world.log[Len(before.log) + j] = calls[j]
      BY <1>11, <3>4, <3>5, ConcatProperties
    <3>7. /\ DOMAIN n.world.log = 1..Len(mine) + Len(calls)
          /\ n.world.log[i] = mine[i] /\ n.world.log[Len(mine) + j] = calls[j]
      BY <1>9, <1>11, <1>12, <3>5, ConcatProperties
    <3>8. "issue_refund" \in Names(ToolsOf(p))
      <4>1. Len(before.log) + j \in DOMAIN p.world.log
        BY <3>5, <3>6
      <4>2. DOMAIN ToolsOf(p) = DOMAIN p.world.log /\ ToolsOf(p)[Len(before.log) + j] = "issue_refund"
        BY <3>3, <3>6, <4>1
      <4> HIDE DEF ToolsOf
      <4> QED
        BY <4>1, <4>2 DEF Names
    <3>9. "issue_refund" \in DOMAIN g.max_calls /\ g.max_calls["issue_refund"] = 1
      <4>1. "issue_refund" \notin g.forbidden
        BY <2>4, <3>8 DEF CheckConstraints
      <4> QED
        BY <1>3, <3>2, <4>1, IssuesOnce
    <3>10. Count(ToolsOf(n), "issue_refund") \in Nat /\ Count(ToolsOf(n), "issue_refund") > 1
      <4>1. /\ i \in 1..Len(mine) + Len(calls) /\ Len(mine) + j \in 1..Len(mine) + Len(calls)
            /\ i # Len(mine) + j /\ Len(mine) + Len(calls) \in Nat
        BY <3>5
      <4>2. /\ DOMAIN ToolsOf(n) = 1..Len(mine) + Len(calls)
            /\ ToolsOf(n)[i] = "issue_refund" /\ ToolsOf(n)[Len(mine) + j] = "issue_refund"
        BY <3>1, <3>3, <3>7, <4>1
      <4> HIDE DEF ToolsOf
      <4> QED
        BY <4>1, <4>2, CalledTwice
    <3> HIDE DEF ToolsOf
    <3> QED
      BY <3>9, <3>10 DEF CheckConstraints
  <2> HIDE DEF ToolsOf
  <2> QED
    BY <1>15, <2>3, <2>4
<1>18. ASSUME gn.end_state_pass, ~gp.end_state_pass
       PROVE  ~Issued(p) /\ Graded(Base, g, Endorsed).end_state_pass
  <2>1. ~Issued(p)
    BY <1>16, <1>17, <1>18
  <2>2. new = << >>
    BY <1>14, <2>1 DEF Issued
  <2>3. n.world.refunds = Base.world.refunds
    BY <1>12, <1>14, <2>2
  <2> QED
    BY <1>15, <1>18, <2>1, <2>3
<1>19. ASSUME Base.world.log = before.log
       PROVE  gn.constraints_pass = gp.constraints_pass
  <2>1. n.world.log = p.world.log
    BY <1>9, <1>11, <1>12, <1>19
  <2> QED
    BY <1>15, <2>1
<1> HIDE DEF ToolsOf
<1>20. gp.end_state_pass \in BOOLEAN /\ gn.end_state_pass \in BOOLEAN
       /\ gp.constraints_pass \in BOOLEAN /\ gn.constraints_pass \in BOOLEAN
  BY <1>15 DEF CheckEndState, CheckConstraints
<1>21. WrongVerdict(p, n, gp, gn, "end_state") # "agree" => Issued(Base)
  BY <1>6, <1>16
<1>22. Issued(Base) /\ Issued(p) =>
         /\ ~gn.end_state_pass
         /\ gp.constraints_pass => WrongVerdict(p, n, gp, gn, "constraints") = "naive_fail_paired_pass"
  BY <1>6, <1>17, <1>20
<1>23. WrongVerdict(p, n, gp, gn, "end_state") = "naive_pass_paired_fail" =>
         ~Issued(p) /\ Graded(Base, g, Endorsed).end_state_pass
  BY <1>6, <1>18, <1>20
<1>24. WrongVerdict(p, n, gp, gn, "constraints") # "agree" => Base.world.log # before.log
  BY <1>6, <1>19
<1> QED
  BY <1>21, <1>22, <1>23, <1>24

(* A naive verdict is wrong because of the world the baseline left and of nothing else, under every *)
(* grading the builders author (evals/report_part2.py:10-16; docs/variants.md, expectation 3).      *)
THEOREM NaiveVerdictsAreTheWorlds == GroupSpec => []NaiveVerdictsComeFromTheWorld
<1>1. PauseInv /\ FunctionInv /\ TraceInv => NaiveVerdictsComeFromTheWorld
  BY NaiveVerdictsAgree
<1> QED
  BY <1>1, ArmsAreFunctions, TracesAreKept, PTL


-----------------------------------------------------------------------------
(* From the plan on, a run keeps the order and the plan it has. *)
LEMMA KeepsThePlan ==
  ASSUME NEW node \in {"request_approval", "issue_refund", "respond"}, NEW k, NEW v, NEW c, NEW t, NEW q,
         DOMAIN q.st = DOMAIN EmptyState
  PROVE  LET p == PassAt(node, k, v, c, t, q)
         IN DOMAIN p.st = DOMAIN EmptyState /\ p.st.order = q.st.order /\ p.st.refund_type = q.st.refund_type
<1>1. "order" \in DOMAIN q.st /\ "refund_type" \in DOMAIN q.st
  BY DEF EmptyState
<1>2. q.next = node => LET s == Written(k, c, t, q)
                       IN DOMAIN s = DOMAIN q.st /\ s.order = q.st.order /\ s.refund_type = q.st.refund_type
  BY <1>1 DEF Written
<1>3. Pass(k, v, c, t, q).st = Written(k, c, t, q)
  BY DEF Pass, Run
<1>4. PassAt(node, k, v, c, t, q) = IF q.phase = "running" /\ q.next = node THEN Pass(k, v, c, t, q) ELSE q
  BY DEF PassAt
<1>5. PICK p : p = PassAt(node, k, v, c, t, q)
  OBVIOUS
<1>6. IF q.phase = "running" /\ q.next = node THEN p.st = Written(k, c, t, q) ELSE p = q
  BY <1>3, <1>4, <1>5
<1>7. DOMAIN p.st = DOMAIN EmptyState /\ p.st.order = q.st.order /\ p.st.refund_type = q.st.refund_type
  BY <1>2, <1>6
<1> QED
  BY <1>5, <1>7

(* The order a run ends with is the one it comes to the plan with, and a run at the changed node *)
(* plans what the model plans.                                                                   *)
LEMMA PlansForItsOrder ==
  ASSUME NEW k, NEW v, NEW c, NEW t, NEW r, DOMAIN r.st = DOMAIN EmptyState
  PROVE  /\ FromPlan(k, v, c, t, r).st.order = r.st.order
         /\ r.phase = "running" /\ r.next = "compute_refund" => FromPlan(k, v, c, t, r).st.refund_type = t
<1> DEFINE a == PassAt("compute_refund", k, v, c, t, r)
           b == PassAt("request_approval", k, v, c, t, a)
           d == PassAt("issue_refund", k, v, c, t, b)
           e == PassAt("respond", k, v, c, t, d)
<1>1. FromPlan(k, v, c, t, r) = e
  BY DEF FromPlan
<1>2. DOMAIN a.st = DOMAIN EmptyState /\ a.st.order = r.st.order
      /\ (r.phase = "running" /\ r.next = "compute_refund" => a.st.refund_type = t)
  <2>1. "order" \in DOMAIN r.st /\ "refund_type" \in DOMAIN r.st
    BY DEF EmptyState
  <2>2. r.next = "compute_refund" => LET s == Written(k, c, t, r)
                                     IN DOMAIN s = DOMAIN r.st /\ s.order = r.st.order /\ s.refund_type = t
    BY <2>1 DEF Written
  <2>3. Pass(k, v, c, t, r).st = Written(k, c, t, r)
    BY DEF Pass, Run
  <2>4. a = IF r.phase = "running" /\ r.next = "compute_refund" THEN Pass(k, v, c, t, r) ELSE r
    BY DEF PassAt
  <2> HIDE DEF a
  <2>5. IF r.phase = "running" /\ r.next = "compute_refund" THEN a.st = Written(k, c, t, r) ELSE a = r
    BY <2>3, <2>4
  <2> QED
    BY <2>2, <2>5
<1>3. \A node \in {"request_approval", "issue_refund", "respond"} : \A q : DOMAIN q.st = DOMAIN EmptyState =>
         /\ DOMAIN PassAt(node, k, v, c, t, q).st = DOMAIN EmptyState
         /\ PassAt(node, k, v, c, t, q).st.order = q.st.order
         /\ PassAt(node, k, v, c, t, q).st.refund_type = q.st.refund_type
  BY KeepsThePlan
<1> HIDE DEF a
<1>4. DOMAIN b.st = DOMAIN EmptyState /\ b.st.order = a.st.order /\ b.st.refund_type = a.st.refund_type
  BY <1>2, <1>3
<1> HIDE DEF b
<1>5. DOMAIN d.st = DOMAIN EmptyState /\ d.st.order = b.st.order /\ d.st.refund_type = b.st.refund_type
  BY <1>3, <1>4
<1> HIDE DEF d
<1>6. e.st.order = d.st.order /\ e.st.refund_type = d.st.refund_type
  BY <1>3, <1>5
<1> HIDE DEF e
<1> QED
  BY <1>1, <1>2, <1>4, <1>5, <1>6

(* A run that is about to reply replies by its state. *)
LEMMA RepliesByItsState ==
  ASSUME NEW k, NEW v, NEW c, NEW t, NEW r, r.phase = "running", r.next = "respond"
  PROVE  Finish(k, v, c, t, r).reply = Rendered(r.st)
<1>1. ToPlan(k, v, c, t, r) = r
  BY AtThePlan DEF BeforePlan
<1>2. /\ PassAt("compute_refund", k, v, c, t, r) = r /\ PassAt("request_approval", k, v, c, t, r) = r
      /\ PassAt("issue_refund", k, v, c, t, r) = r
  BY DEF PassAt
<1>3. Finish(k, v, c, t, r) = Pass(k, v, c, t, r)
  BY <1>1, <1>2 DEF Finish, FromPlan, PassAt
<1> QED
  BY <1>3 DEF Pass, Run

(* Above the plan a run reads the same under every change and whatever will be planned. *)
LEMMA ReadsAlike ==
  ASSUME NEW k, NEW v \in ChangesUnderTest, NEW c, NEW t, NEW r
  PROVE  ToPlan(k, v, c, t, r).st = ToPlan(k, "baseline", c, "full", r).st
<1>1. v \in {"baseline", "D", "E"}
  BY DEF ChangesUnderTest, CHANGES
<1> DEFINE Mine(node, x) == PassAt(node, k, v, c, t, x)
           Its(node, x) == PassAt(node, k, "baseline", c, "full", x)
<1>2. \A x : x.next \in BeforePlan \ {"compute_refund"} => Written(k, c, t, x) = Written(k, c, "full", x)
  BY DEF Written, BeforePlan
<1>3. \A node \in {"classify_request", "lookup_order", "get_refund_history"} : \A s :
        Route(v, node, s) = Route("baseline", node, s) /\ RouteMarks(v, node, s) = RouteMarks("baseline", node, s)
  BY <1>1 DEF Route, RouteMarks, AfterClassify, AfterLookupNode, AfterHistory
<1>4. ASSUME NEW node \in {"classify_request", "lookup_order", "get_refund_history"}, NEW x
      PROVE  Mine(node, x) = Its(node, x)
  <2>1. x.next = node => Written(k, c, t, x) = Written(k, c, "full", x)
    BY <1>2 DEF BeforePlan
  <2>2. x.next = node => Pass(k, v, c, t, x) = Pass(k, "baseline", c, "full", x)
    BY <1>3, <2>1 DEF Pass
  <2> QED
    BY <2>2 DEF PassAt
<1>5. ASSUME NEW x
      PROVE  Mine("check_eligibility", x).st = Its("check_eligibility", x).st
  <2>1. x.next = "check_eligibility" => Written(k, c, t, x) = Written(k, c, "full", x)
    BY <1>2 DEF BeforePlan
  <2>2. x.next = "check_eligibility" => Pass(k, v, c, t, x).st = Pass(k, "baseline", c, "full", x).st
    BY <2>1 DEF Pass, Run
  <2> QED
    BY <2>2 DEF PassAt
<1>6. /\ ToPlan(k, v, c, t, r) = Mine("check_eligibility", Mine("get_refund_history",
                                       Mine("lookup_order", Mine("classify_request", r))))
      /\ ToPlan(k, "baseline", c, "full", r) = Its("check_eligibility", Its("get_refund_history",
                                       Its("lookup_order", Its("classify_request", r))))
  BY DEF ToPlan
<1> HIDE DEF Mine, Its
<1>7. Mine("classify_request", r) = Its("classify_request", r)
  BY <1>4
<1>8. Mine("lookup_order", Mine("classify_request", r)) = Its("lookup_order", Its("classify_request", r))
  BY <1>4, <1>7
<1>9. Mine("get_refund_history", Mine("lookup_order", Mine("classify_request", r)))
        = Its("get_refund_history", Its("lookup_order", Its("classify_request", r)))
  BY <1>4, <1>8
<1> QED
  BY <1>5, <1>6, <1>9

(* The order a run of any change ends with is the one its arm plans a refund of. *)
LEMMA EndsWithItsOrder ==
  ASSUME NEW arm, Typed(Origin(arm)), case \in Case, NEW v \in ChangesUnderTest,
         NEW c \in Agent!Classification, NEW t \in RefundTypes
  PROVE  Finish(case, v, c, t, Origin(arm)).st.order = OrderAt(arm, c)
<1> DEFINE q == ToPlan(case, v, c, t, Origin(arm))
<1>1. q.st \in RefundState
  BY UpstreamLedger DEF Typed
<1>2. DOMAIN q.st = DOMAIN EmptyState
  BY <1>1 DEF RefundState, EmptyState
<1>3. q.st = ToPlan(case, "baseline", c, "full", Origin(arm)).st
  BY ReadsAlike
<1> HIDE DEF q
<1>4. FromPlan(case, v, c, t, q).st.order = q.st.order
  BY <1>2, PlansForItsOrder
<1> QED
  BY <1>3, <1>4 DEF Finish, OrderAt, q


-----------------------------------------------------------------------------
(* A superstep keeps what is recorded, and records one decision for a prompt and a price. *)
LEMMA RecordingGrows ==
  ASSUME ControlInv, Superstep
  PROVE  /\ recording.classify # None => recording'.classify = recording.classify
         /\ recording.compute \subseteq recording'.compute /\ recording.text \subseteq recording'.text
         /\ OneEach(recording.compute) => OneEach(recording'.compute)
         /\ next = "compute_refund" =>
              IF phase' = "crashed" /\ steps' = steps
              THEN \A a \in recording.compute : ~(a.prompt = PromptOf(variant) /\ a.price = st.order.price)
              ELSE Decided(variant, st.order.price, st'.refund_type) \in recording'.compute
         /\ next = "respond" =>
              IF phase' = "crashed" /\ steps' = steps THEN Rendered(st) \notin recording.text
              ELSE reply' = Rendered(st) /\ reply' \in recording'.text
<1>0. variant \in {"baseline", "D", "E"} /\ steps \in Nat /\ DOMAIN recording = {"classify", "compute", "text"}
      /\ DOMAIN st = DOMAIN EmptyState
  BY DEF ControlInv, ChangesUnderTest, CHANGES, Agent!EmptyRecording
<1>1. DOMAIN st = {"intent", "order_id", "order", "prior_refunds", "eligibility",
                   "refund_type", "refund_amount", "approval", "refund_id", "error"}
  BY <1>0 DEF EmptyState
<1>2. Agent!Next /\ ~Agent!Over /\ (phase \in {"running", "paused"} => next \in GroupNodes)
      /\ phase \in {"running", "paused"}
  BY DEF Superstep, ControlInv, Agent!Over
<1>3. /\ ~Agent!FetchContext /\ ~Agent!SpeculationFails /\ ~Agent!IssueStopped
  BY <1>0 DEF Agent!FetchContext, Agent!SpeculationFails, Agent!Speculating, Agent!IssueStopped,
         Agent!RereadFails, Agent!OrderChanged
<1>4. /\ ~Agent!Gate /\ ~Agent!DiscardPlan /\ ~Agent!AuthorizationRefused
      /\ ~Agent!AuthorizeAndIssue /\ ~Agent!Reconcile
  BY <1>2 DEF Agent!Gate, Agent!DiscardPlan, Agent!AuthorizationRefused, Agent!AuthorizeAndIssue,
         Agent!Reconcile, Agent!At, GroupNodes, BeforePlan
<1>5. CASE Agent!ClassifyRequest
  <2>1. next = "classify_request"
    BY <1>5 DEF Agent!ClassifyRequest, Agent!At
  <2>2. PICK c \in Agent!Classification :
          recording.classify \in {None, c} /\ recording' = [recording EXCEPT !.classify = c]
    BY <1>5 DEF Agent!ClassifyRequest
  <2>3. recording'.classify = c /\ recording'.compute = recording.compute /\ recording'.text = recording.text
    BY <1>0, <2>2
  <2> QED
    BY <2>1, <2>2, <2>3
<1>6. CASE Agent!ComputeRefund
  <2>1. next = "compute_refund"
    BY <1>6 DEF Agent!ComputeRefund, Agent!At
  <2>2. PICK t \in RefundTypes :
          LET decision == [prompt |-> Agent!ComputePrompt, price |-> st.order.price, type |-> t]
          IN /\ Agent!Recorded \subseteq {decision}
             /\ recording' = [recording EXCEPT !.compute = @ \cup {decision}]
             /\ Agent!Step("compute_refund",
                   [st EXCEPT !.refund_type = t, !.refund_amount = Agent!PlannedAmount(t, st.order.price)],
                   Agent!AfterPrelude, Agent!PreludeMarks \cup Agent!AmountMarks(t, st.order.price))
    BY <1>6, SameTools DEF Agent!ComputeRefund
  <2>9. /\ st' = [st EXCEPT !.refund_type = t, !.refund_amount = Agent!PlannedAmount(t, st.order.price)]
        /\ steps' = steps + 1
    BY <2>2 DEF Agent!Step
  <2> DEFINE decision == Decided(variant, st.order.price, t)
  <2>3. [prompt |-> Agent!ComputePrompt, price |-> st.order.price, type |-> t] = decision
    BY DEF Agent!ComputePrompt, Decided, PromptOf, CHANGES, Agent!CHANGES
  <2>4. \A a \in recording.compute : a.prompt = decision.prompt /\ a.price = decision.price => a = decision
    BY <2>2, <2>3 DEF Agent!Recorded, Decided, Agent!ComputePrompt, PromptOf, CHANGES, Agent!CHANGES
  <2>5. recording'.classify = recording.classify /\ recording'.compute = recording.compute \cup {decision}
        /\ recording'.text = recording.text
    BY <1>0, <2>2, <2>3
  <2>6. st'.refund_type = t
    BY <1>1, <2>9
  <2> HIDE DEF decision
  <2>7. OneEach(recording.compute) => OneEach(recording'.compute)
    BY <2>4, <2>5 DEF OneEach
  <2>8. steps' # steps
    BY <1>0, <2>9
  <2> QED
    BY <2>1, <2>5, <2>6, <2>7, <2>8 DEF decision
<1>7. CASE Agent!Respond
  <2>1. next = "respond" /\ recording' = [recording EXCEPT !.text = @ \cup {Agent!RenderFacts}]
        /\ reply' = Agent!RenderFacts /\ steps' = steps + 1
    BY <1>7 DEF Agent!Respond, Agent!At, Agent!Step
  <2>2. recording'.classify = recording.classify /\ recording'.compute = recording.compute
        /\ recording'.text = recording.text \cup {Agent!RenderFacts}
    BY <1>0, <2>1
  <2>3. Agent!RenderFacts = Rendered(st)
    BY <1>0 DEF Agent!RenderFacts, Agent!FalseSuccess, Rendered
  <2>4. steps' # steps
    BY <1>0, <2>1
  <2> QED
    BY <2>1, <2>2, <2>3, <2>4
<1>8. CASE Agent!ClassifyCrashes
  BY <1>8 DEF Agent!ClassifyCrashes, Agent!Crash, Agent!At
<1>9. CASE Agent!ComputeCrashes
  <2>1. next = "compute_refund" /\ phase' = "crashed" /\ steps' = steps /\ recording' = recording /\ Agent!Recorded = {}
    BY <1>9 DEF Agent!ComputeCrashes, Agent!Crash, Agent!At
  <2>2. \A a \in recording.compute : ~(a.prompt = PromptOf(variant) /\ a.price = st.order.price)
    BY <2>1 DEF Agent!Recorded, Agent!ComputePrompt, PromptOf, CHANGES, Agent!CHANGES
  <2> QED
    BY <2>1, <2>2
<1>10. CASE Agent!RespondCrashes
  <2>1. next = "respond" /\ phase' = "crashed" /\ steps' = steps /\ recording' = recording
        /\ Agent!RenderFacts \notin recording.text
    BY <1>10 DEF Agent!RespondCrashes, Agent!Crash, Agent!At
  <2>2. Agent!RenderFacts = Rendered(st)
    BY <1>0 DEF Agent!RenderFacts, Agent!FalseSuccess, Rendered
  <2> QED
    BY <2>1, <2>2
<1>11. CASE \/ Agent!LookupOrderFails \/ Agent!LookupOrderAnswers \/ Agent!HistoryFails \/ Agent!HistoryAnswers
            \/ Agent!EligibilityFails \/ Agent!EligibilityAnswers \/ Agent!RequestApproval
            \/ Agent!IssueRefund \/ Agent!IssueFails
  <2>1. recording' = recording /\ next \notin {"compute_refund", "respond"}
    BY <1>11 DEF Agent!LookupOrderFails, Agent!LookupOrderAnswers, Agent!HistoryFails, Agent!HistoryAnswers,
         Agent!EligibilityFails, Agent!EligibilityAnswers, Agent!RequestApproval, Agent!IssueRefund,
         Agent!IssueFails, Agent!Quiet, Agent!At
  <2> QED
    BY <2>1
<1>12. CASE Agent!Interrupt \/ Agent!Resume
  <2>1. recording' = recording
    BY <1>12 DEF Agent!Interrupt, Agent!Resume
  <2>2. next \notin {"compute_refund", "respond"}
    BY <1>2, <1>12 DEF ControlInv, Agent!Interrupt, Agent!Resume, Agent!NeedsApproval, Agent!At
  <2> QED
    BY <2>1, <2>2
<1> QED
  BY <1>2, <1>3, <1>4, <1>5, <1>6, <1>7, <1>8, <1>9, <1>10, <1>11, <1>12 DEF Agent!Next

(* What the run in progress has decided so far is recorded for the order its arm plans a refund of. *)
LEMMA PlansAtItsOrder ==
  ASSUME FunctionInv, queue # << >>, ~ModelFailed, NEW c \in Agent!Classification, NEW t \in RefundTypes,
         MayDraw(c, t), next \notin BeforePlan \ {"compute_refund"}
  PROVE  /\ st.order = OrderAt(Arm.arm, c)
         /\ next = "compute_refund" /\ phase = "running" =>
              Finish(case, variant, c, t, Origin(Arm.arm)).st.refund_type = t
         /\ next = "respond" /\ phase = "running" =>
              Finish(case, variant, c, t, Origin(Arm.arm)).reply = Rendered(st)
<1>1. ControlInv /\ OnItsWay /\ variant \in ChangesUnderTest /\ case \in Case
  BY GroupAssumption DEF FunctionInv, ControlInv
<1>2. Finish(case, variant, c, t, ThisRun) = Finish(case, variant, c, t, Origin(Arm.arm))
  BY <1>1 DEF OnItsWay
<1>3. ToPlan(case, variant, c, t, ThisRun) = ThisRun
  BY ThisRunFields, AtThePlan
<1>4. Finish(case, variant, c, t, ThisRun) = FromPlan(case, variant, c, t, ThisRun)
  BY <1>3 DEF Finish
<1>5. DOMAIN ThisRun.st = DOMAIN EmptyState
  BY <1>1, ThisRunFields DEF ControlInv
<1>6. Typed(Origin(Arm.arm))
  <2>1. CASE ~Forking(Arm.arm)
    BY <1>1, <2>1, FreshTyped DEF Origin, ControlInv
  <2>2. CASE Forking(Arm.arm)
    <3>1. HistoryInv /\ ForkPoint # None
      BY <2>2 DEF FunctionInv, Forking
    <3>2. /\ Typed(Forked(ForkPoint, ForkPoint.snapshot, Base.nodes)) /\ Base.world \in World /\ ForkPoint.snapshot \in World
      BY <3>1, PointLedger DEF HistoryInv, StopsAtPlan
    <3>3. ForkWorld(Arm.arm, ForkPoint, Base.world) \in World
      BY <3>2 DEF ForkWorld
    <3>4. Typed(Forked(ForkPoint, ForkWorld(Arm.arm, ForkPoint, Base.world), Base.nodes))
      BY <3>2, <3>3 DEF Typed, Forked, Run
    <3> QED
      BY <2>2, <3>4 DEF Origin
  <2> QED
    BY <2>1, <2>2
<1>7. Finish(case, variant, c, t, Origin(Arm.arm)).st.order = OrderAt(Arm.arm, c)
  BY <1>1, <1>6, EndsWithItsOrder
<1>8. /\ FromPlan(case, variant, c, t, ThisRun).st.order = st.order
      /\ ThisRun.phase = "running" /\ ThisRun.next = "compute_refund" =>
           FromPlan(case, variant, c, t, ThisRun).st.refund_type = t
  BY <1>5, ThisRunFields, PlansForItsOrder
<1>9. ThisRun.phase = "running" /\ ThisRun.next = "respond" =>
        Finish(case, variant, c, t, ThisRun).reply = Rendered(st)
  BY ThisRunFields, RepliesByItsState
<1> QED
  BY <1>2, <1>4, <1>7, <1>8, <1>9, ThisRunFields

(* A reply is not None. *)
LEMMA RepliesAreFacts ==
  ASSUME NEW s \in RefundState
  PROVE  Rendered(s) \in Agent!Facts /\ Rendered(s) # None
<1>1. Rendered(s) \in Agent!Facts
  BY DEF Rendered, RefundState, Agent!Facts, Reasons, OrderRow, Agent!Reasons, Agent!RefundTypes, RefundTypes,
         Agent!Errors, Errors, Agent!ToolNames, ToolNames
<1> QED
  BY <1>1, CheckpointAssumption


-----------------------------------------------------------------------------
(* The order an arm plans a refund of is settled before the arm starts. *)
LEMMA OrdersStay ==
  ASSUME ThreadInv, Superstep, case' = case
  PROVE  \A arm, c : OrderAt(arm, c)' = OrderAt(arm, c)
BY PastStays DEF OrderAt

(* A run draws what its namespace holds and records what it decides, superstep by superstep. *)
LEMMA DrawsKept ==
  ASSUME ThreadInv, FunctionInv, DrawsInv, Superstep
  PROVE  DrawsInv'
<1>1. /\ queue # << >> /\ ControlInv /\ Arm' = Arm /\ cache' = cache
  BY DEF FunctionInv, Superstep, Arm
<1>2. UNCHANGED <<case, variant>> /\ variant \in ChangesUnderTest
  BY <1>1, SuperstepKinds DEF ControlInv
<1> DEFINE drawn == cache[Namespace(Arm.arm, Arm.change)]
<1>3. drawn' = drawn
  BY <1>1
<1>4. \A c : OrderAt(Arm.arm, c)' = OrderAt(Arm.arm, c)
  BY <1>1, <1>2, OrdersStay
<1>5. /\ drawn.classify # None => recording.classify = drawn.classify
      /\ drawn.compute \subseteq recording.compute /\ drawn.text \subseteq recording.text
      /\ OneEach(recording.compute)
      /\ \A c \in Agent!Classification : MayDraw(c, st.refund_type) /\ st.refund_type # None =>
           Decided(variant, OrderAt(Arm.arm, c).price, st.refund_type) \in recording.compute
      /\ reply # None => reply \in recording.text
  BY DEF DrawsInv
<1> HIDE DEF drawn
<1>6. /\ drawn.classify # None => recording'.classify = drawn.classify
      /\ drawn.compute \subseteq recording'.compute /\ drawn.text \subseteq recording'.text
      /\ OneEach(recording'.compute)
  BY <1>1, <1>5, RecordingGrows
<1>7. SUFFICES /\ \A c \in Agent!Classification : MayDraw(c, st.refund_type)' /\ st'.refund_type # None =>
                    Decided(variant, OrderAt(Arm.arm, c).price, st'.refund_type) \in recording'.compute
               /\ reply' # None => reply' \in recording'.text
  <2>1. OneEach(recording.compute)' = OneEach(recording'.compute)
    BY DEF OneEach
  <2> QED
    BY <1>1, <1>2, <1>3, <1>4, <1>6, <1>7, <2>1 DEF DrawsInv, drawn
<1>8. CASE IsPass
  <2>1. steps' # steps
    BY <1>1, <1>8 DEF IsPass, ControlInv
  <2>2. reply' # None => reply' \in recording'.text
    BY <1>1, <1>2, <1>5, <1>8, <2>1, PassWrites, RecordingGrows
  <2>3. ASSUME NEW c \in Agent!Classification, MayDraw(c, st.refund_type)', st'.refund_type # None
        PROVE  Decided(variant, OrderAt(Arm.arm, c).price, st'.refund_type) \in recording'.compute
    <3>1. PICK u : u = st'.refund_type
      OBVIOUS
    <3>2. next' = Route(variant, next, st')
      BY <1>1, <1>2, <1>8, PassWrites
    <3>4. MayDraw(c, u)'
      BY <2>3, <3>1 DEF MayDraw
    <3>5. MayDraw(c, u)
      BY <1>1, <1>2, <1>8, <3>2, <3>4, PassOf
    <3>6. CASE next = "compute_refund"
      <4>1. u \in RefundTypes /\ u = st'.refund_type
        BY <1>8, <3>1, <3>6 DEF IsPass
      <4>2. ~ModelFailed
        BY <1>8 DEF IsPass, ModelFailed
      <4>3. st.order = OrderAt(Arm.arm, c)
        BY <1>1, <3>5, <3>6, <4>1, <4>2, PlansAtItsOrder
      <4>4. Decided(variant, st.order.price, st'.refund_type) \in recording'.compute
        BY <1>1, <2>1, <3>6, RecordingGrows
      <4> QED
        BY <4>3, <4>4
    <3>7. CASE next # "compute_refund"
      <4>1. st'.refund_type = st.refund_type
        BY <1>8, <3>7 DEF IsPass
      <4>2. Decided(variant, OrderAt(Arm.arm, c).price, st.refund_type) \in recording.compute
        BY <1>5, <2>3, <3>1, <3>5, <4>1
      <4> QED
        BY <1>1, <4>1, <4>2, RecordingGrows
    <3> QED
      BY <3>6, <3>7
  <2> QED
    BY <2>2, <2>3
<1>9. CASE IsPause \/ IsCrash
  <2>1. UNCHANGED <<recording, st, next, reply>>
    BY <1>9 DEF IsPause, IsCrash
  <2>2. \A c : MayDraw(c, st.refund_type)' = MayDraw(c, st.refund_type)
    BY <1>1, <2>1 DEF MayDraw
  <2> QED
    BY <1>5, <2>1, <2>2
<1> QED
  BY <1>1, <1>8, <1>9, SuperstepKinds

(* A model call fails for good on a prompt that nothing recorded answers. *)
LEMMA StuckKept ==
  ASSUME ThreadInv, FunctionInv, Superstep
  PROVE  StuckInv'
<1>1. /\ queue # << >> /\ ControlInv /\ Arm' = Arm /\ ~Agent!Over
  BY DEF FunctionInv, Superstep, Arm
<1>2. UNCHANGED <<case, variant>> /\ variant \in ChangesUnderTest
  BY <1>1, SuperstepKinds DEF ControlInv
<1>3. CASE IsPass
  <2>1. steps' \in Nat /\ RECURSION_LIMIT \in Nat
    BY <1>1, <1>3, GroupAssumption DEF IsPass, ControlInv
  <2>2. ~ModelFailed'
    BY <1>1, <1>2, <1>3, <2>1, PassWrites DEF ModelFailed
  <2> QED
    BY <2>2 DEF StuckInv
<1>4. CASE IsPause
  BY <1>4 DEF IsPause, ModelFailed, StuckInv
<1>5. CASE IsCrash
  <2>1. /\ next' = next /\ recording' = recording /\ st' = st /\ steps' = steps /\ phase = "running" /\ phase' = "crashed"
        /\ next \in {"classify_request", "compute_refund", "respond"}
    BY <1>5 DEF IsCrash
  <2>2. ~ModelFailed
    BY <2>1 DEF ModelFailed
  <2>3. ASSUME next # "classify_request", NEW c \in Agent!Classification, NEW t \in RefundTypes, MayDraw(c, t),
               NEW r, r = Finish(case, variant, c, t, Origin(Arm.arm))
        PROVE  \/ /\ next = "compute_refund" /\ r.st.refund_type = t
                  /\ \A a \in recording.compute :
                       ~(a.prompt = PromptOf(variant) /\ a.price = OrderAt(Arm.arm, c).price)
               \/ /\ next = "respond" /\ r.reply # None /\ r.reply \notin recording.text
                  /\ Forking(Arm.arm) => st.refund_type # None
    <3>1. next \notin BeforePlan \ {"compute_refund"}
      BY <2>1, <2>3 DEF BeforePlan
    <3>2. /\ st.order = OrderAt(Arm.arm, c)
          /\ next = "compute_refund" => r.st.refund_type = t
          /\ next = "respond" => r.reply = Rendered(st)
      BY <1>1, <2>1, <2>2, <2>3, <3>1, PlansAtItsOrder
    <3>3. st \in RefundState
      BY <1>1, ThisRunFields DEF ControlInv, Typed
    <3>4. Forking(Arm.arm) /\ next = "respond" => st.refund_type # None
      BY <1>1, <2>2 DEF ControlInv
    <3> QED
      BY <1>1, <2>1, <2>3, <3>2, <3>3, <3>4, RecordingGrows, RepliesAreFacts
  <2>4. \A c, t : MayDraw(c, t)' = MayDraw(c, t)
    BY <1>1, <2>1 DEF MayDraw
  <2>5. \A c, t : Finish(case, variant, c, t, Origin(Arm.arm))' = Finish(case, variant, c, t, Origin(Arm.arm))
    BY <1>1, <1>2, PastStays
  <2>6. \A c : OrderAt(Arm.arm, c)' = OrderAt(Arm.arm, c)
    BY <1>1, <1>2, OrdersStay
  <2> QED
    BY <1>1, <1>2, <2>1, <2>3, <2>4, <2>5, <2>6 DEF StuckInv
<1> QED
  BY <1>1, <1>3, <1>4, <1>5, SuperstepKinds

(* A superstep keeps the recorded draws of the group. *)
LEMMA SuperstepReplay ==
  ASSUME ThreadInv, FunctionInv, ReplayInv, Superstep
  PROVE  ReplayInv'
<1>1. /\ queue # << >> /\ ControlInv /\ queue' = queue /\ rows' = rows /\ cache' = cache /\ changes' = changes
  BY DEF FunctionInv, Superstep
<1>2. case' = case
  BY <1>1, SuperstepKinds
<1>3. DrawsInv' /\ StuckInv'
  BY <1>1, DrawsKept, StuckKept DEF ReplayInv
<1>4. (\A n \in Namespaces : OneEach(cache[n].compute))'
  BY <1>1 DEF ReplayInv, OneEach
<1>5. \A i \in DOMAIN rows : DrawnInv(rows[i])'
  <2>1. \A arm : Origin(arm)' = Origin(arm)
    BY <1>2, PastStays
  <2>2. \A arm, c : OrderAt(arm, c)' = OrderAt(arm, c)
    BY <1>2, OrdersStay
  <2>3. ASSUME NEW i \in DOMAIN rows, NEW row, row = rows[i]
        PROVE  DrawnInv(row)'
    <3>1. DrawnInv(row)
      BY <2>3 DEF ReplayInv
    <3> QED
      BY <1>1, <1>2, <2>1, <2>2, <3>1 DEF DrawnInv
  <2> QED
    BY <1>1, <2>3 DEF DrawnInv
<1>6. \A i, j \in DOMAIN rows : i < j => Follows(rows[i], rows[j])'
  BY <1>1 DEF ReplayInv, Follows
<1> QED
  BY <1>1, <1>3, <1>4, <1>5, <1>6 DEF ReplayInv


-----------------------------------------------------------------------------
(* A run of a change other than E ends as the baseline's does. *)
LEMMA PlainFinish ==
  ASSUME NEW k, NEW v \in ChangesUnderTest \ {"E"}, NEW c, NEW t, NEW r
  PROVE  Finish(k, v, c, t, r) = Finish(k, "baseline", c, t, r)
<1> DEFINE Mine(node, x) == PassAt(node, k, v, c, t, x)
           Its(node, x) == PassAt(node, k, "baseline", c, t, x)
<1>1. ASSUME NEW node \in GroupNodes, NEW x PROVE Mine(node, x) = Its(node, x)
  <2>1. \A s : /\ Route(v, node, s) = Route("baseline", node, s)
               /\ RouteMarks(v, node, s) = {} /\ RouteMarks("baseline", node, s) = {}
    BY RoutesLikeTheBaseline, MarksAgree DEF ChangesUnderTest
  <2>2. x.next = node => Pass(k, v, c, t, x) = Pass(k, "baseline", c, t, x)
    BY <2>1 DEF Pass
  <2> QED
    BY <2>2 DEF PassAt
<1>2. /\ Finish(k, v, c, t, r) = Mine("respond", Mine("issue_refund", Mine("request_approval",
           Mine("compute_refund", Mine("check_eligibility", Mine("get_refund_history",
           Mine("lookup_order", Mine("classify_request", r))))))))
      /\ Finish(k, "baseline", c, t, r) = Its("respond", Its("issue_refund", Its("request_approval",
           Its("compute_refund", Its("check_eligibility", Its("get_refund_history",
           Its("lookup_order", Its("classify_request", r))))))))
  BY DEF Finish, ToPlan, FromPlan
<1>3. \A node \in {"classify_request", "lookup_order", "get_refund_history", "check_eligibility",
                   "compute_refund", "request_approval", "issue_refund", "respond"} : node \in GroupNodes
  BY DEF GroupNodes, BeforePlan
<1> HIDE DEF Mine, Its
<1> QED
  BY <1>1, <1>2, <1>3

(* Every arm of every change has a namespace. *)
LEMMA NamespaceOf ==
  ASSUME NEW arm \in {"baseline", "full", "fork", "fork_naive"}, NEW change \in ChangesUnderTest
  PROVE  Namespace(arm, change) \in Namespaces
<1>1. \E b \in {"baseline", "full", "fork"} : Namespace(arm, change) = Namespace(b, change)
  BY DEF Namespace
<1> QED
  BY <1>1 DEF Namespaces

(* What the arm in progress has recorded is what its namespace holds from its end on. *)
LEMMA CacheGrows ==
  ASSUME CacheInv, ControlInv, DrawsInv, EndArm, NEW n \in Namespaces
  PROVE  /\ cache[n].classify # None => cache'[n].classify = cache[n].classify
         /\ cache[n].compute \subseteq cache'[n].compute /\ cache[n].text \subseteq cache'[n].text
         /\ OneEach(cache[n].compute) => OneEach(cache'[n].compute)
<1>1. cache' = [cache EXCEPT ![Namespace(Arm.arm, Arm.change)] = recording]
  BY DEF EndArm
<1>2. cache'[n] = IF n = Namespace(Arm.arm, Arm.change) THEN recording ELSE cache[n]
  BY <1>1 DEF CacheInv
<1> QED
  BY <1>2 DEF DrawsInv

(* The row of an arm that has ended shows what its namespace holds from then on. *)
LEMMA OwnDraws ==
  ASSUME FunctionInv, DrawsInv, queue # << >>, EndArm, NEW prefix, NEW ok, NEW r, r = Row(prefix, ok),
         NEW arm, arm = Arm.arm, Origin(arm)' = Origin(arm)
  PROVE  DrawnInv(r)'
<1>1. /\ r.arm = arm /\ r.change = Arm.change /\ r.ended = Ending /\ r.classify = recording.classify
      /\ r.planned = st.refund_type /\ r.reply = reply /\ r.inherited = FALSE
  BY DEF Row
<1>2. ControlInv /\ CacheInv /\ Agent!Over /\ case' = case /\ variant = Arm.change
  BY DEF FunctionInv, EndArm, ControlInv
<1>3. phase \in {"done", "crashed"}
  BY <1>2 DEF Agent!Over
<1>4. cache'[Namespace(arm, r.change)] = recording
  <2>1. Namespace(arm, Arm.change) \in DOMAIN cache
    BY <1>2, NamespaceOf DEF ControlInv, CacheInv
  <2>2. cache' = [cache EXCEPT ![Namespace(Arm.arm, Arm.change)] = recording]
    BY DEF EndArm
  <2> QED
    BY <1>1, <2>1, <2>2
<1>5. \A c : OrderAt(arm, c)' = OrderAt(arm, c)
  BY <1>2 DEF OrderAt
<1>6. ASSUME st.refund_type # None, NEW c \in Agent!Classification, Forking(arm) \/ recording.classify = c
      PROVE  Decided(r.change, OrderAt(arm, c).price, st.refund_type) \in recording.compute
  <2>1. MayDraw(c, st.refund_type)
    BY <1>6 DEF MayDraw
  <2> QED
    BY <1>1, <1>2, <1>6, <2>1 DEF DrawsInv
<1>7. ASSUME r.ended # "model_failed", st.refund_type = None, NEW t \in RefundTypes
      PROVE  Finish(case, r.change, r.classify, t, Origin(arm)).st.refund_type = None
  <2>1. /\ r.classify \in Agent!Classification
        /\ Finish(case, Arm.change, r.classify, t, Origin(arm)) = ThisRun
    BY <1>1, <1>2, <1>7, EndedRow, NoneAssumption
  <2> QED
    BY <1>1, <1>7, <2>1, ThisRunFields
<1>8. reply # None => reply \in recording.text
  BY DEF DrawsInv
<1>9. PICK R : R = recording
  OBVIOUS
<1>10. /\ r.classify # None => R.classify = r.classify
       /\ r.reply # None => r.reply \in R.text
       /\ r.planned # None =>
            \A c \in Agent!Classification : Forking(r.arm) \/ r.classify = c =>
              Decided(r.change, OrderAt(arm, c).price, r.planned) \in R.compute
       /\ r.ended # "model_failed" /\ r.planned = None =>
            \A t \in RefundTypes : Finish(case, r.change, r.classify, t, Origin(arm)).st.refund_type = None
  BY <1>1, <1>6, <1>7, <1>8, <1>9
<1> QED
  BY <1>1, <1>2, <1>4, <1>5, <1>9, <1>10 DEF DrawnInv

(* A recorded row shows no less when the arm in progress ends. *)
LEMMA EarlierDraws ==
  ASSUME FunctionInv, DrawsInv, queue # << >>, EndArm, NEW r, RowInv(r), DrawnInv(r),
         Origin(r.arm)' = Origin(r.arm)
  PROVE  DrawnInv(r)'
<1>1. ControlInv /\ CacheInv /\ case' = case
  BY DEF FunctionInv, EndArm
<1>2. PICK n \in Namespaces : n = Namespace(r.arm, r.change)
  BY NamespaceOf DEF RowInv
<1>3. /\ cache[n].classify # None => cache'[n].classify = cache[n].classify
      /\ cache[n].compute \subseteq cache'[n].compute /\ cache[n].text \subseteq cache'[n].text
  BY <1>1, CacheGrows
<1>4. \A c : OrderAt(r.arm, c)' = OrderAt(r.arm, c)
  BY <1>1 DEF OrderAt
<1> QED
  BY <1>1, <1>2, <1>3, <1>4 DEF DrawnInv


-----------------------------------------------------------------------------
(* The row with which an arm of E ends replays that of D's arm. *)
LEMMA OwnReplays ==
  ASSUME FunctionInv, FailureInv, DrawsInv, StuckInv, queue # << >>, Agent!Over, Arm.arm # "baseline",
         NEW d, RowInv(d), DrawnInv(d), NEW prefix, NEW ok, NEW e, e = Row(prefix, ok)
  PROVE  Replays(d, e)
<1>1. /\ e.arm = Arm.arm /\ e.change = Arm.change /\ e.ended = Ending /\ e.classify = recording.classify
      /\ e.planned = st.refund_type /\ e.reply = reply /\ e.fired = fired
  BY DEF Row
<1> SUFFICES ASSUME d.arm = e.arm, d.arm \in {"full", "fork"}, d.change = "D", e.change = "E",
                    ~d.inherited, d.ended # "model_failed"
             PROVE  IF e.ended = "model_failed" THEN FastPath \in e.fired
                    ELSE /\ ~Forking(d.arm) => e.classify = d.classify
                         /\ None \in {d.planned, e.planned} \/ d.planned = e.planned
  BY DEF Replays
<1> DEFINE arm == Arm.arm
           drawn == cache[Namespace(arm, "D")]
<1>2. ControlInv /\ OnItsWay /\ variant = "E" /\ HistoryInv /\ (Forking(arm) => ForkPoint # None)
      /\ phase \in {"done", "crashed"} /\ "D" \in ChangesUnderTest /\ "E" \in ChangesUnderTest
  BY <1>1 DEF FunctionInv, ControlInv, Agent!Over, ChangesUnderTest, CHANGES
<1>3. Namespace(d.arm, d.change) = Namespace(arm, "D") /\ Namespace(arm, Arm.change) = Namespace(arm, "D")
  BY <1>1 DEF Namespace
<1>4. /\ drawn.classify # None => recording.classify = drawn.classify
      /\ drawn.compute \subseteq recording.compute /\ drawn.text \subseteq recording.text
      /\ OneEach(recording.compute)
  BY <1>3 DEF DrawsInv
<1>5. /\ ~Forking(arm) => d.classify \in Agent!Classification
      /\ d.planned \in RefundTypes \/ (d.planned = None /\ ~Forking(arm))
      /\ \A c \in Agent!Classification, t \in RefundTypes :
           (Forking(arm) \/ d.classify = c) /\ d.planned \in {None, t}
           => Reports(d, Finish(case, "D", c, t, Origin(arm)))
  BY <1>1 DEF RowInv
<1>6. /\ d.classify # None => drawn.classify = d.classify
      /\ d.reply # None => d.reply \in drawn.text
      /\ d.planned # None =>
            \A c \in Agent!Classification : Forking(arm) \/ d.classify = c =>
              Decided("D", OrderAt(arm, c).price, d.planned) \in drawn.compute
      /\ d.planned = None =>
            \A t \in RefundTypes : Finish(case, "D", d.classify, t, Origin(arm)).st.refund_type = None
  BY <1>1, <1>3 DEF DrawnInv
<1> HIDE DEF drawn
<1>7. ~Forking(arm) => recording.classify = d.classify
  BY <1>4, <1>5, <1>6, CheckpointAssumption
<1>8. PICK c \in Agent!Classification : Forking(arm) \/ (recording.classify = c /\ d.classify = c)
  <2>1. CASE Forking(arm)
    BY <1>2, <2>1 DEF HistoryInv, StopsAtPlan
  <2>2. CASE ~Forking(arm)
    BY <1>5, <1>7, <2>2
  <2> QED
    BY <2>1, <2>2
<1>9. \A u : st.refund_type \in {None, u} => MayDraw(c, u)
  BY <1>8 DEF MayDraw
<1>10. PromptOf("E") = PromptOf("D")
  BY DEF PromptOf, CHANGES
<1>11. d.planned # None => Decided("D", OrderAt(arm, c).price, d.planned) \in recording.compute
  BY <1>4, <1>6, <1>8
<1>12. None \in {d.planned, st.refund_type} \/ d.planned = st.refund_type
  <2> SUFFICES ASSUME d.planned # None, st.refund_type # None PROVE d.planned = st.refund_type
    OBVIOUS
  <2>1. Decided("E", OrderAt(arm, c).price, st.refund_type) \in recording.compute
    BY <1>2, <1>9 DEF DrawsInv
  <2> DEFINE p == OrderAt(arm, c).price
  <2>2. Decided("D", p, d.planned) \in recording.compute /\ Decided("E", p, st.refund_type) \in recording.compute
    BY <1>11, <2>1
  <2> HIDE DEF p
  <2>3. /\ Decided("D", p, d.planned).prompt = Decided("E", p, st.refund_type).prompt
        /\ Decided("D", p, d.planned).price = Decided("E", p, st.refund_type).price
        /\ Decided("D", p, d.planned).type = d.planned /\ Decided("E", p, st.refund_type).type = st.refund_type
    BY <1>10 DEF Decided
  <2> QED
    BY <1>4, <2>2, <2>3 DEF OneEach
<1>13. CASE e.ended # "model_failed"
  BY <1>1, <1>7, <1>12, <1>13
<1>14. CASE e.ended = "model_failed"
  <2>1. ModelFailed
    <3>1. steps \in Nat /\ RECURSION_LIMIT \in Nat
      BY <1>2, GroupAssumption DEF ControlInv
    <3> QED
      BY <1>1, <1>2, <1>14, <3>1 DEF Ending, ModelFailed
  <2>2. next # "classify_request"
    <3>1. Forking(arm) => next # "classify_request"
      BY <1>2 DEF ControlInv, BeforePlan
    <3>2. ~Forking(arm) => recording.classify # None
      BY <1>5, <1>7, CheckpointAssumption
    <3> QED
      BY <2>1, <3>1, <3>2 DEF FailureInv
  <2>3. PICK t \in RefundTypes : st.refund_type \in {None, t} /\ d.planned \in {None, t}
    <3>1. st.refund_type \in RefundTypes \cup {None} /\ "full" \in RefundTypes
      BY <1>2 DEF ControlInv, RefundTypes
    <3> QED
      BY <1>5, <1>12, <3>1
  <2>4. MayDraw(c, t)
    BY <1>9, <2>3
  <2>5. PICK r : r = Finish(case, "E", c, t, Origin(arm))
    OBVIOUS
  <2>6. PICK q : q = Finish(case, "D", c, t, Origin(arm))
    OBVIOUS
  <2>7. r = q \/ FastPath \in r.fired
    <3>1. q = Finish(case, "baseline", c, t, Origin(arm))
      BY <1>2, <2>6, PlainFinish
    <3> QED
      BY <1>2, <2>5, <3>1, SameFinish DEF FastPath
  <2>8. Reports(d, q)
    BY <1>5, <1>8, <2>3, <2>6
  <2>9. CASE r = q
    <3>1. \/ /\ next = "compute_refund" /\ r.st.refund_type = t
             /\ \A a \in recording.compute : ~(a.prompt = PromptOf("E") /\ a.price = OrderAt(arm, c).price)
          \/ next = "respond" /\ r.reply # None /\ r.reply \notin recording.text
      BY <1>2, <2>1, <2>2, <2>4, <2>5 DEF StuckInv
    <3>2. CASE next = "respond" /\ r.reply # None /\ r.reply \notin recording.text
      <4>1. d.reply = r.reply
        BY <2>8, <2>9 DEF Reports
      <4> QED
        BY <1>4, <1>6, <3>2, <4>1
    <3>3. CASE /\ r.st.refund_type = t
               /\ \A a \in recording.compute : ~(a.prompt = PromptOf("E") /\ a.price = OrderAt(arm, c).price)
      <4>1. CASE d.planned # None
        <5>1. /\ Decided("D", OrderAt(arm, c).price, d.planned).prompt = PromptOf("E")
              /\ Decided("D", OrderAt(arm, c).price, d.planned).price = OrderAt(arm, c).price
          BY <1>10 DEF Decided
        <5> QED
          BY <1>11, <3>3, <4>1, <5>1
      <4>2. CASE d.planned = None
        <5>1. ~Forking(arm) /\ d.classify = c
          BY <1>5, <1>8, <4>2, NoneAssumption
        <5>2. q.st.refund_type = None
          BY <1>6, <2>6, <4>2, <5>1
        <5> QED
          BY <2>9, <3>3, <5>2, NoneAssumption
      <4> QED
        BY <4>1, <4>2
    <3> QED
      BY <3>1, <3>2, <3>3
  <2>10. CASE FastPath \in r.fired
    <3>1. CASE ~Forking(arm)
      <4>1. fired = Finish(case, "E", c, t, Fresh(case)).fired
        BY <1>2, <2>1, <2>2, <2>4, <3>1 DEF FailureInv
      <4>2. Origin(arm) = Fresh(case)
        BY <3>1 DEF Origin
      <4> QED
        BY <1>1, <1>14, <2>5, <2>10, <4>1, <4>2
    <3>2. CASE Forking(arm)
      <4>1. PICK o : o = Origin(arm)
        OBVIOUS
      <4>2. o.next = "compute_refund" /\ o.fired = {}
        BY <1>2, <3>2, <4>1 DEF HistoryInv, Origin, Forked, Run
      <4>3. ToPlan(case, "E", c, t, o) = o
        BY <4>2, AtThePlan
      <4>4. Finish(case, "E", c, t, o).fired = {}
        BY <1>2, <4>2, <4>3, FromPlanMarks DEF Finish
      <4> QED
        BY <2>5, <2>10, <4>1, <4>4
    <3> QED
      BY <3>1, <3>2
  <2> QED
    BY <2>7, <2>9, <2>10
<1> QED
  BY <1>13, <1>14

(* The two forks of a change plan a refund of the same order. *)
LEMMA OneForkPoint ==
  ASSUME NEW c, ForkPoint.next = "compute_refund"
  PROVE  OrderAt("fork", c) = OrderAt("fork_naive", c)
<1>1. \A arm \in {"fork", "fork_naive"} :
         Origin(arm).next = "compute_refund" /\ Origin(arm).st = ForkPoint.st
  BY DEF Origin, Forking, Forked, Run
<1>2. \A arm \in {"fork", "fork_naive"} : ToPlan(case, "baseline", c, "full", Origin(arm)) = Origin(arm)
  <2> SUFFICES ASSUME NEW arm \in {"fork", "fork_naive"}, NEW o, o = Origin(arm)
               PROVE  ToPlan(case, "baseline", c, "full", o) = o
    OBVIOUS
  <2>1. o.next \notin BeforePlan \ {"compute_refund"}
    BY <1>1
  <2> QED
    BY <2>1, AtThePlan
<1> QED
  BY <1>1, <1>2 DEF OrderAt

(* A naive fork that has ended decided what fork k of its change before it decided: it draws from   *)
(* the namespace that holds the decision, and asks for the same.                                    *)
LEMMA OwnPlan ==
  ASSUME FunctionInv, DrawsInv, StuckInv, queue # << >>, Agent!Over, Arm.arm = "fork_naive",
         NEW k, RowInv(k), DrawnInv(k), k.arm = "fork", k.change = Arm.change, ~k.inherited, k.planned # None
  PROVE  st.refund_type = k.planned
<1>1. ControlInv /\ HistoryInv /\ ForkPoint # None /\ variant = Arm.change /\ Forking(Arm.arm)
  BY DEF FunctionInv, ControlInv, Forking
<1>2. ForkPoint.next = "compute_refund" /\ Base.classify \in Agent!Classification
  BY <1>1 DEF HistoryInv, StopsAtPlan
<1>3. PICK c \in Agent!Classification : c = Base.classify
  BY <1>2
<1>4. PICK price : price = OrderAt("fork", c).price /\ price = OrderAt("fork_naive", c).price
  BY <1>2, OneForkPoint
<1>5. \A t : st.refund_type \in {None, t} => MayDraw(c, t)
  BY <1>1 DEF MayDraw
<1>6. PICK a : a = Decided(variant, price, k.planned)
  OBVIOUS
<1>7. a.prompt = PromptOf(variant) /\ a.price = price /\ a.type = k.planned
  BY <1>6 DEF Decided
<1>8. a \in recording.compute
  <2>1. Namespace("fork", Arm.change) = Namespace("fork_naive", Arm.change)
    BY DEF Namespace
  <2>2. a \in cache[Namespace("fork", Arm.change)].compute
    BY <1>1, <1>4, <1>6 DEF DrawnInv, Forking
  <2> QED
    BY <2>1, <2>2 DEF DrawsInv
<1>9. CASE st.refund_type # None
  <2>1. PICK b : b = Decided(variant, price, st.refund_type)
    OBVIOUS
  <2>2. b.prompt = PromptOf(variant) /\ b.price = price /\ b.type = st.refund_type
    BY <2>1 DEF Decided
  <2>3. b \in recording.compute /\ OneEach(recording.compute)
    BY <1>4, <1>5, <1>9, <2>1 DEF DrawsInv
  <2> QED
    BY <1>7, <1>8, <2>2, <2>3 DEF OneEach
<1>10. CASE st.refund_type = None
  <2>1. ModelFailed
    BY <1>1, <1>10 DEF ControlInv, Agent!Over
  <2>2. next # "classify_request"
    BY <1>1 DEF ControlInv, BeforePlan
  <2>3. "full" \in RefundTypes
    BY DEF RefundTypes
  <2>4. MayDraw(c, "full")
    BY <1>5, <1>10
  <2>5. \A b \in recording.compute : ~(b.prompt = PromptOf(variant) /\ b.price = price)
    BY <1>1, <1>4, <1>10, <2>1, <2>2, <2>3, <2>4 DEF StuckInv
  <2> QED
    BY <1>7, <1>8, <2>5
<1> QED
  BY <1>9, <1>10

(* Where every list runs D before E, so do the arms of every group. *)
LEMMA DArmsFirst ==
  ASSUME DFirst, NEW list \in ChangeLists, NEW i \in DOMAIN AllArms(list), NEW j \in DOMAIN AllArms(list),
         AllArms(list)[i].change = "D", AllArms(list)[j].change = "E"
  PROVE  i < j
<1>1. list \in Seq(ChangesUnderTest)
  BY GroupAssumption
<1>2. PICK n \in Nat : n = Len(list) /\ DOMAIN list = 1..n /\ DOMAIN AllArms(list) = 1..1 + 3 * n
  BY <1>1 DEF AllArms
<1>3. ASSUME NEW k \in 1..1 + 3 * n, k # 1
      PROVE  /\ (k - 2) \div 3 + 1 \in 1..n
             /\ AllArms(list)[k].change = list[(k - 2) \div 3 + 1]
  <2>1. (k - 2) \div 3 + 1 \in 1..n /\ ((k - 2) % 3) + 1 \in 1..3
    BY <1>3
  <2>2. AllArms(list)[k] = ArmsOf(list[(k - 2) \div 3 + 1])[((k - 2) % 3) + 1]
    BY <1>2, <1>3 DEF AllArms
  <2> QED
    BY <2>1, <2>2 DEF ArmsOf
<1>4. AllArms(list)[1].change = "baseline"
  BY <1>2 DEF AllArms
<1>5. PICK a \in 1..n : a = (i - 2) \div 3 + 1 /\ list[a] = "D"
  BY <1>2, <1>3, <1>4
<1>6. PICK b \in 1..n : b = (j - 2) \div 3 + 1 /\ list[b] = "E"
  BY <1>2, <1>3, <1>4
<1>7. a < b
  BY <1>2, <1>5, <1>6 DEF DFirst
<1>8. i \in Int /\ j \in Int
  BY <1>2
<1>9. (i - 2) \div 3 < (j - 2) \div 3
  BY <1>5, <1>6, <1>7, <1>8
<1> HIDE DEF DFirst
<1> QED
  BY <1>8, <1>9


-----------------------------------------------------------------------------
(* The arm that starts draws what its namespace holds and has decided nothing yet. *)
LEMMA DrawsBegin ==
  ASSUME ThreadInv, FunctionInv, FunctionInv', EndArm, Arm'.arm # "baseline", queue' # << >>, NEW row, NEW n, EndsWith(row, n),
         \A m \in Namespaces : OneEach(cache'[m].compute)
  PROVE  DrawsInv' /\ StuckInv'
<1>1. PICK a : a = queue'[1]
  OBVIOUS
<1>2. Arm' = a /\ a \in AnArm /\ (a.arm = "full" => BeginFull(a, Drawn))
      /\ (a.arm # "full" => BeginFork(a, Drawn, FindForkPoint(Seen, "compute_refund"), Append(rows, row)[1]))
  BY <1>1 DEF EndsWith, Arm
<1>3. recording' = Drawn[Namespace(a.arm, a.change)] /\ phase' = "running" /\ reply' = None
  BY <1>2 DEF BeginFull, BeginFork, BeginRun
<1>4. cache' = Drawn
  BY DEF EndArm, Drawn
<1>5. PICK N \in Namespaces : N = Namespace(a.arm, a.change)
  BY <1>2, NamespaceOf DEF AnArm, ArmNames
<1>6. recording' = cache'[N] /\ OneEach(cache'[N].compute)
  BY <1>3, <1>4, <1>5
<1>7. ControlInv' /\ HistoryInv' /\ (Forking(a.arm) => ForkPoint' # None)
  BY <1>2 DEF FunctionInv
<1>8. st'.refund_type = None
  <2>1. a.arm = "full" => next' = "classify_request"
    BY <1>2 DEF BeginFull
  <2>2. a.arm # "full" => next' = "compute_refund"
    <3> SUFFICES ASSUME a.arm # "full" PROVE next' = "compute_refund"
      OBVIOUS
    <3>1. Forking(a.arm)
      BY <1>2 DEF AnArm, ArmNames, Forking
    <3>2. FindForkPoint(Seen, "compute_refund") # None
      BY <1>1, <3>1 DEF EndsWith
    <3>3. Seen \in Seq(Checkpoints)
      BY EndHistory
    <3>4. FindForkPoint(Seen, "compute_refund").next = "compute_refund"
      BY <3>2, <3>3, ForkPointNext
    <3> QED
      BY <1>2, <3>4 DEF BeginFork
  <2> QED
    BY <1>7, <2>1, <2>2 DEF ControlInv, BeforePlan
<1>9. OneEach(recording'.compute)
  BY <1>6
<1>10. DrawsInv'
  <2>1. cache'[Namespace(Arm.arm, Arm.change)'] = recording'
    BY <1>2, <1>5, <1>6
  <2> QED
    BY <1>3, <1>8, <1>9, <2>1 DEF DrawsInv, OneEach
<1> QED
  BY <1>3, <1>10 DEF StuckInv, ModelFailed

(* The end of an arm keeps the recorded draws of the group, and the replays of D by E where every *)
(* list runs D before E.                                                                          *)
LEMMA EndArmReplay ==
  ASSUME PauseInv, FunctionInv, FunctionInv', TraceInv, TraceInv', ReplayInv, EndArm
  PROVE  ReplayInv' /\ (DFirst /\ PairsReplay => PairsReplay')
<1>1. PICK prefix, ok, n : EndsWith(Row(prefix, ok), n)
  BY EndArmParts
<1>2. PICK row : row = Row(prefix, ok)
  OBVIOUS
<1>3. /\ queue # << >> /\ Agent!Over /\ UNCHANGED <<case, changes>> /\ ThreadInv
      /\ DrawsInv /\ StuckInv /\ FailureInv /\ CoverInv /\ changes \in ChangeLists
      /\ \A i \in DOMAIN rows : DrawnInv(rows[i])
  BY DEF EndArm, PauseInv, ReplayInv, TraceInv
<1>4. ControlInv /\ CacheInv /\ rows \in Seq(Range(rows)) /\ (\A i \in DOMAIN rows : RowInv(rows[i]))
  BY <1>3 DEF FunctionInv
<1>5. queue \in Seq(AnArm) /\ Tail(queue) \in Seq(AnArm)
  BY <1>3 DEF PauseInv, QueueInv
<1>6. /\ rows' # << >>
      /\ Base' = IF rows = << >> THEN row ELSE Base
      /\ \A i \in DOMAIN rows' :
              \/ i \in DOMAIN rows /\ rows'[i] = rows[i]
              \/ rows'[i] = row
              \/ \E j \in 1..n : rows'[i] = Inherited(Base', Tail(queue)[j], SeenOk(Tail(queue)[j].change))
      /\ rows' \in Seq(Range(rows')) /\ Len(rows') = Len(rows) + 1 + n
      /\ \A i \in 1..Len(rows) : rows'[i] = rows[i]
      /\ rows'[Len(rows) + 1] = row
      /\ \A j \in 1..n :
           rows'[Len(rows) + 1 + j] = Inherited(Base', Tail(queue)[j], SeenOk(Tail(queue)[j].change))
  <2>1. EndsWith(row, n)
    BY <1>1, <1>2
  <2> QED
    BY <1>4, <1>5, <2>1, EndedRows
<1>7. /\ Arm.arm = "baseline" => rows = << >>
      /\ Arm.arm # "baseline" => rows # << >>
  BY <1>3 DEF FunctionInv, BaselineInv, HistoryInv
<1>8. queue' # << >> => Arm'.arm # "baseline"
  BY <1>1 DEF EndsWith, Arm
<1>9. HistoryInv'
  BY <1>8 DEF FunctionInv
<1>10. \A m \in Namespaces : OneEach(cache'[m].compute)
  BY <1>3, <1>4, CacheGrows DEF ReplayInv
<1>11. queue' # << >> => DrawsInv' /\ StuckInv'
  BY <1>1, <1>3, <1>8, <1>10, DrawsBegin
<1>12. Arm.arm # "baseline" => \A arm : Origin(arm)' = Origin(arm)
  <2> SUFFICES ASSUME Arm.arm # "baseline" PROVE \A arm : Origin(arm)' = Origin(arm)
    OBVIOUS
  <2>1. History' = History /\ ForkPoint' = ForkPoint /\ Base' = Base
    BY <1>3, <1>6, <1>7, EndHistory
  <2> QED
    BY <1>3, <2>1 DEF Origin
<1>13. DrawnInv(row)'
  <2>1. PICK arm : arm = Arm.arm
    OBVIOUS
  <2>2. Origin(arm)' = Origin(arm)
    BY <1>3, <1>12, <2>1 DEF Origin, Forking
  <2> QED
    BY <1>2, <1>3, <2>1, <2>2, OwnDraws
<1>14. ASSUME NEW i \in DOMAIN rows, NEW r, r = rows[i]
       PROVE  DrawnInv(r)' /\ DrawnInv(r) /\ RowInv(r) /\ Arm.arm # "baseline"
  <2>1. Arm.arm # "baseline"
    BY <1>7
  <2>2. RowInv(r) /\ DrawnInv(r)
    BY <1>3, <1>4, <1>14
  <2> QED
    BY <1>3, <1>12, <2>1, <2>2, EarlierDraws
<1>15. ASSUME NEW j \in 1..n, NEW r, NEW base, base = Base',
              r = Inherited(base, Tail(queue)[j], SeenOk(Tail(queue)[j].change))
       PROVE  r.inherited = TRUE
  <2>1. DOMAIN base = RowFields
    BY <1>9, <1>15 DEF HistoryInv
  <2> QED
    BY <1>15, <2>1 DEF Inherited, RowFields
<1>16. row.inherited = FALSE /\ row.change = Arm.change
  BY <1>2 DEF Row
<1>17. ASSUME NEW i \in DOMAIN rows', NEW r, r = rows'[i]
       PROVE  DrawnInv(r)'
  <2>1. CASE i \in DOMAIN rows /\ rows'[i] = rows[i]
    BY <1>14, <1>17, <2>1
  <2>2. CASE rows'[i] = row
    BY <1>13, <1>17, <2>2
  <2>3. CASE \E j \in 1..n : rows'[i] = Inherited(Base', Tail(queue)[j], SeenOk(Tail(queue)[j].change))
    <3>1. r.inherited = TRUE
      BY <1>15, <1>17, <2>3
    <3> QED
      BY <3>1 DEF DrawnInv
  <2> QED
    BY <1>6, <2>1, <2>2, <2>3
<1>18. ASSUME DFirst, PairsReplay,
              NEW i \in DOMAIN rows', NEW j \in DOMAIN rows', NEW d, NEW e, d = rows'[i], e = rows'[j]
       PROVE  Replays(d, e)
  <2> SUFFICES ASSUME ~d.inherited, ~e.inherited, d.change = "D", e.change = "E"
               PROVE  Replays(d, e)
    BY DEF Replays
  <2>1. (i \in DOMAIN rows /\ d = rows[i]) \/ d = row
    BY <1>6, <1>15, <1>18
  <2>2. (j \in DOMAIN rows /\ e = rows[j]) \/ e = row
    BY <1>6, <1>15, <1>18
  <2>3. CASE i \in DOMAIN rows /\ d = rows[i] /\ j \in DOMAIN rows /\ e = rows[j]
    BY <1>18, <2>3 DEF PairsReplay
  <2>4. CASE i \in DOMAIN rows /\ d = rows[i] /\ e = row
    <3>1. DrawnInv(d) /\ RowInv(d) /\ Arm.arm # "baseline"
      BY <1>14, <2>4
    <3> QED
      BY <1>2, <1>3, <2>4, <3>1, OwnReplays
  <2>5. CASE d = row /\ j \in DOMAIN rows /\ e = rows[j]
    <3>1. Arm = AllArms(changes)[Len(rows) + 1]
      BY <1>3, <1>5 DEF CoverInv, Arm
    <3>2. Len(rows) \in Nat /\ Len(queue) \in Nat /\ Len(queue) >= 1 /\ j \in 1..Len(rows)
      BY <1>3, <1>4, <1>5, <2>5
    <3>3. Len(AllArms(changes)) = Len(rows) + Len(queue)
          /\ AllArms(changes)[j].change = "E" /\ AllArms(changes)[Len(rows) + 1].change = "D"
      BY <1>3, <1>16, <2>5, <3>1 DEF CoverInv
    <3>4. AllArms(changes) \in Seq(AnArm)
      BY <1>3, ArmsType, GroupAssumption
    <3>5. j \in DOMAIN AllArms(changes) /\ Len(rows) + 1 \in DOMAIN AllArms(changes)
      BY <3>2, <3>3, <3>4
    <3>6. Len(rows) + 1 < j
      BY <1>3, <1>18, <3>3, <3>5, DArmsFirst
    <3> QED
      BY <3>2, <3>6
  <2>6. CASE d = row /\ e = row
    BY <2>6
  <2> QED
    BY <2>1, <2>2, <2>3, <2>4, <2>5, <2>6
<1>19. changes' \in ChangeLists
  BY <1>3
<1>20. \A i \in DOMAIN rows' : DrawnInv(rows[i])'
  BY <1>17
<1>21. DFirst /\ PairsReplay => \A i, j \in DOMAIN rows' : Replays(rows'[i], rows'[j])
  BY <1>18
<1>22. (\A m \in Namespaces : OneEach(cache[m].compute))'
  BY <1>10 DEF OneEach
<1>23. ASSUME NEW i \in DOMAIN rows', NEW j \in DOMAIN rows', i < j, NEW k, NEW e, k = rows'[i], e = rows'[j]
       PROVE  Follows(k, e)
  <2> SUFFICES ASSUME k.arm = "fork", e.arm = "fork_naive", e.change = k.change, ~k.inherited, k.planned # None
               PROVE  e.planned = k.planned
    BY DEF Follows
  <2>1. /\ i \in 1..Len(rows) + 1 + n /\ j \in 1..Len(rows) + 1 + n /\ Len(rows) \in Nat /\ n \in Nat
        /\ DOMAIN rows = 1..Len(rows)
    BY <1>1, <1>4, <1>6 DEF EndsWith
  <2>2. CASE j <= Len(rows)
    <3>1. i \in DOMAIN rows /\ j \in DOMAIN rows /\ k = rows[i] /\ e = rows[j]
      BY <1>6, <1>23, <2>1, <2>2
    <3> QED
      BY <1>23, <3>1 DEF ReplayInv, Follows
  <2>3. CASE j = Len(rows) + 1
    <3>1. i \in DOMAIN rows /\ k = rows[i] /\ e = row
      BY <1>6, <1>23, <2>1, <2>3
    <3>2. DrawnInv(k) /\ RowInv(k)
      BY <1>14, <3>1
    <3>3. Arm.arm = "fork_naive" /\ Arm.change = k.change /\ row.planned = st.refund_type
      BY <1>2, <3>1 DEF Row
    <3> QED
      BY <1>3, <3>1, <3>2, <3>3, OwnPlan
  <2>4. CASE j > Len(rows) + 1
    <3>1. PICK m \in 1..n : j = Len(rows) + 1 + m
      <4> DEFINE late == j - (Len(rows) + 1)
      <4>1. late \in 1..n /\ j = Len(rows) + 1 + late
        BY <2>1, <2>4
      <4> HIDE DEF late
      <4> QED
        BY <4>1
    <3>2. e.inherited = TRUE
      BY <1>6, <1>15, <1>23, <3>1
    <3>3. RowInv(k)' /\ RowInv(e)'
      BY <1>23 DEF FunctionInv
    <3> QED
      BY <3>2, <3>3 DEF RowInv, Forking
  <2> QED
    BY <2>1, <2>2, <2>3, <2>4
<1>24. \A i, j \in DOMAIN rows' : i < j => Follows(rows'[i], rows'[j])
  BY <1>23
<1>25. DFirst /\ PairsReplay => PairsReplay'
  BY <1>21 DEF PairsReplay, Replays
<1> QED
  BY <1>11, <1>19, <1>20, <1>22, <1>24, <1>25 DEF ReplayInv, Follows

(* A group starts with nothing recorded. *)
LEMMA InitReplay ==
  ASSUME GroupInit
  PROVE  ReplayInv /\ PairsReplay
<1>1. /\ phase = "running" /\ rows = << >> /\ queue = AllArms(changes) /\ changes \in ChangeLists
      /\ recording = Agent!EmptyRecording /\ st = EmptyState /\ reply = None
      /\ cache = [m \in Namespaces |-> Agent!EmptyRecording]
  BY SameTools DEF GroupInit, Agent!Start
<1>2. queue \in Seq(AnArm) /\ Len(queue) >= 1 /\ queue[1].arm = "baseline" /\ queue[1] \in AnArm
  <2>1. queue \in Seq(AnArm) /\ Len(queue) = 1 + 3 * Len(changes) /\ queue[1].arm = "baseline" /\ Len(changes) \in Nat
    BY <1>1, ArmsType, GroupAssumption
  <2> QED
    BY <2>1
<1>3. Arm \in AnArm
  BY <1>2 DEF Arm
<1>4. Namespace(Arm.arm, Arm.change) \in Namespaces
  BY <1>3, NamespaceOf DEF AnArm, ArmNames
<1>5. /\ Agent!EmptyRecording.classify = None /\ Agent!EmptyRecording.compute = {} /\ Agent!EmptyRecording.text = {}
      /\ EmptyState.refund_type = None
  BY DEF Agent!EmptyRecording, EmptyState
<1>6. DrawsInv
  <2>1. cache[Namespace(Arm.arm, Arm.change)] = Agent!EmptyRecording
    BY <1>1, <1>4
  <2> QED
    BY <1>1, <1>5, <2>1 DEF DrawsInv, OneEach
<1>7. \A m \in Namespaces : OneEach(cache[m].compute)
  BY <1>1, <1>5 DEF OneEach
<1>8. DOMAIN rows = {}
  BY <1>1
<1> QED
  BY <1>1, <1>6, <1>7, <1>8 DEF ReplayInv, PairsReplay, StuckInv, ModelFailed


(* Rows of D and E in the same arm, whose runs decided alike, show the same outcome, or E's shows *)
(* its fast path.                                                                                 *)
LEMMA ReplaysAgree ==
  ASSUME FunctionInv, PairsReplay
  PROVE  EReplaysD
<1> SUFFICES ASSUME NEW arm \in {"full", "fork"}, NEW i \in Of(arm, "D"), NEW j \in Of(arm, "E"),
                    rows[i].ended # "model_failed"
             PROVE  SameAsD(i, j)
  BY DEF EReplaysD
<1>1. PICK d : d = rows[i]
  OBVIOUS
<1>2. PICK e : e = rows[j]
  OBVIOUS
<1>3. /\ d.arm = arm /\ d.change = "D" /\ e.arm = arm /\ e.change = "E" /\ d.ended # "model_failed"
      /\ i \in DOMAIN rows /\ j \in DOMAIN rows
  BY <1>1, <1>2 DEF Of
<1>4. HistoryInv /\ RowInv(d) /\ RowInv(e)
  BY <1>1, <1>2, <1>3, RowsFollowTheBaseline
<1>5. SUFFICES FastPath \in e.fired \/ Outcome(e) = Outcome(d)
  BY <1>1, <1>2 DEF SameAsD, FastPath
<1>6. CASE d.inherited /\ e.inherited
  BY <1>4, <1>6 DEF RowInv
<1>7. CASE ~d.inherited /\ ~e.inherited
  <2>1. IF e.ended = "model_failed" THEN FastPath \in e.fired
        ELSE /\ ~Forking(d.arm) => e.classify = d.classify
             /\ None \in {d.planned, e.planned} \/ d.planned = e.planned
    <3>1. Replays(d, e)
      BY <1>1, <1>2, <1>3 DEF PairsReplay
    <3> QED
      BY <1>3, <1>7, <3>1 DEF Replays
  <2>2. CASE e.ended = "model_failed"
    BY <2>1, <2>2
  <2>3. CASE e.ended # "model_failed"
    <3>1. PICK c \in Agent!Classification : Forking(arm) \/ (d.classify = c /\ e.classify = c)
      <4>1. CASE Forking(arm)
        BY <1>3, <1>4, <1>7, <4>1 DEF RowInv, HistoryInv, StopsAtPlan
      <4>2. CASE ~Forking(arm)
        BY <1>3, <1>4, <1>7, <2>1, <2>3, <4>2 DEF RowInv
      <4> QED
        BY <4>1, <4>2
    <3>2. d.planned \in RefundTypes \cup {None} /\ e.planned \in RefundTypes \cup {None}
      BY <1>3, <1>4, <1>7, <2>3, <3>1, RowReports
    <3>3. PICK t \in RefundTypes : d.planned \in {None, t} /\ e.planned \in {None, t}
      BY <2>1, <2>3, <3>2 DEF RefundTypes
    <3>4. "D" \in ChangesUnderTest \ {"E"} /\ "E" \in ChangesUnderTest
      BY DEF ChangesUnderTest, CHANGES
    <3>5. PICK q : q = Finish(case, "D", c, t, Origin(arm))
      OBVIOUS
    <3>6. PICK r : r = Finish(case, "E", c, t, Origin(arm))
      OBVIOUS
    <3>7. Reports(d, q) /\ Reports(e, r)
      BY <1>3, <1>4, <1>7, <2>3, <3>1, <3>3, <3>5, <3>6, RowReports
    <3>8. r = q \/ FastPath \in r.fired
      <4>1. q = Finish(case, "baseline", c, t, Origin(arm))
        BY <3>4, <3>5, PlainFinish
      <4> QED
        BY <3>4, <3>6, <4>1, SameFinish DEF FastPath
    <3> QED
      BY <3>7, <3>8, SameReport DEF Reports
  <2> QED
    BY <2>2, <2>3
<1>8. ~(d.inherited /\ ~e.inherited) /\ ~(~d.inherited /\ e.inherited)
  BY <1>3, <1>4 DEF RowInv
<1>9. d.inherited \in BOOLEAN /\ e.inherited \in BOOLEAN
  BY <1>4 DEF RowInv
<1> QED
  BY <1>6, <1>7, <1>8, <1>9

(* The draws of a group are kept: each namespace has one plan for a prompt and a price, and a naive *)
(* fork decides as the fork before it did.                                                          *)
LEMMA DrawsAreKept == GroupSpec => []ReplayInv
<1>1. GroupInit => ReplayInv
  BY InitReplay
<1>2. PauseInv /\ FunctionInv /\ TraceInv /\ FunctionInv' /\ TraceInv' /\ ReplayInv /\ [GroupNext]_groupVars
      => ReplayInv'
  <2> SUFFICES ASSUME PauseInv, FunctionInv, TraceInv, FunctionInv', TraceInv', ReplayInv, [GroupNext]_groupVars
               PROVE  ReplayInv'
    OBVIOUS
  <2>1. CASE Superstep
    BY <2>1, SuperstepReplay DEF PauseInv
  <2>2. CASE EndArm
    BY <2>2, EndArmReplay
  <2>3. CASE UNCHANGED groupVars
    BY <2>3 DEF groupVars, run, ReplayInv, DrawsInv, StuckInv, DrawnInv, Follows, ModelFailed, MayDraw, Origin,
      ForkPoint, History, Base, OrderAt, OneEach, Arm
  <2> QED
    BY <2>1, <2>2, <2>3 DEF GroupNext
<1> QED
  BY <1>1, <1>2, ArmsAreFunctions, TracesAreKept, PTL DEF GroupSpec

(* Where every list of changes runs D before E, E's runs decide as D's did as far as both ask. *)
LEMMA PairsAreReplayed ==
  ASSUME DFirst
  PROVE  GroupSpec => []PairsReplay
<1>1. GroupInit => PairsReplay
  BY InitReplay
<1>2. PauseInv /\ FunctionInv /\ TraceInv /\ ReplayInv /\ FunctionInv' /\ TraceInv' /\ PairsReplay
      /\ [GroupNext]_groupVars => PairsReplay'
  <2> SUFFICES ASSUME PauseInv, FunctionInv, TraceInv, ReplayInv, FunctionInv', TraceInv', PairsReplay,
                      [GroupNext]_groupVars
               PROVE  PairsReplay'
    OBVIOUS
  <2>1. CASE Superstep
    BY <2>1 DEF Superstep, PairsReplay, Replays
  <2>2. CASE EndArm
    BY <2>2, EndArmReplay
  <2>3. CASE UNCHANGED groupVars
    BY <2>3 DEF groupVars, PairsReplay, Replays
  <2> QED
    BY <2>1, <2>2, <2>3 DEF GroupNext
<1> QED
  BY <1>1, <1>2, ArmsAreFunctions, TracesAreKept, DrawsAreKept, PTL DEF GroupSpec

(* E replays D's draws: where every list of changes runs D before E, an arm of E ends as the arm of *)
(* D does that the model answered to its end, unless E takes its fast path.                         *)
THEOREM EReplaysDraws ==
  ASSUME DFirst
  PROVE  GroupSpec => []EReplaysD
<1>1. FunctionInv /\ PairsReplay => EReplaysD
  BY ReplaysAgree
<1> QED
  BY <1>1, ArmsAreFunctions, PairsAreReplayed, PTL

(* Every naive fork decides what the paired fork before it decided, whatever the lists of changes, *)
(* on whatever world, in either order of the arms, and although model calls of either may fail.    *)
THEOREM NaiveForksReplay == GroupSpec => []NaiveReplaysItsPair
<1>1. FunctionInv /\ ReplayInv => NaiveReplaysItsPair
  BY DEF ReplayInv, Follows, NaiveReplaysItsPair, Of
<1> QED
  BY <1>1, ArmsAreFunctions, DrawsAreKept, PTL
=============================================================================
