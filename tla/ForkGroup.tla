----------------------------- MODULE ForkGroup -----------------------------
(***************************************************************************)
(* One (case, trial) group of the fork evaluation (evals/runner_part2.py,  *)
(* run_group, over the primitives of evals/fork.py): a recorded baseline,  *)
(* then, for each change, a full rerun, a fork from the checkpoint before  *)
(* the changed node on the world as it was there, and the same fork on the *)
(* world the baseline left behind.  The arms run one after the other, each *)
(* superstep of the arm in progress being a step of RefundAgent.           *)
(***************************************************************************)
EXTENDS AgentRouting, SequencesExt

CONSTANTS
  Cases, RECURSION_LIMIT,
  ChangeLists          \* the lists of changes a group may be run for

ChangesUnderTest == {"baseline"} \cup CHANGES

ASSUME GroupAssumption ==
  /\ ChangeLists \subseteq Seq(ChangesUnderTest)
  /\ \A c \in Cases : c \in Case
  /\ RECURSION_LIMIT \in Nat \ {0}

VARIABLES
  case, changes,
  forks_first,         \* which arm of a change runs first (the parity of trial and case id)
  queue,               \* the arms still to run, the one in progress first
  variant, recording, st, world, next, phase, answer, steps, fired, reply,  \* the run in progress
  nodes,               \* its node sequence
  thread,              \* the checkpoints of the baseline's saver, in the order they were written
  recorded,            \* how many of them history() saw; 0 before the baseline ends and if it crashed
  cache,               \* what each cache namespace has recorded
  rows                 \* the finished arms

run == <<variant, recording, st, world, next, phase, answer, steps, fired, reply>>
groupVars == <<case, changes, forks_first, queue, run, nodes, thread, recorded, cache, rows>>

Agent == INSTANCE RefundAgent WITH Variants <- ChangesUnderTest

-----------------------------------------------------------------------------
(* Mutant: a change that starts at a node that pauses. *)
ChangedNodePauses == [c \in ChangesUnderTest |-> "request_approval"]

(* Mutant: a change that starts at the write. *)
ChangedNodeWrites == [c \in ChangesUnderTest |-> "issue_refund"]

CHANGED_NODE == [c \in ChangesUnderTest |-> "compute_refund"]

(* Mutant: E draws its own replies. *)
NamespaceOfItsOwn(arm, change) ==
  IF arm = "baseline" THEN <<"">>
  ELSE <<IF arm = "full" THEN "p2-full" ELSE "p2-fork", change>>

(* Mutant: the naive fork draws where the full rerun does. *)
NamespaceOfPairedForks(arm, change) ==
  IF arm = "baseline" THEN <<"">>
  ELSE <<IF arm = "fork" THEN "p2-fork" ELSE "p2-full", IF change = "E" THEN "D" ELSE change>>

(* E draws from D's namespaces, and the naive fork from the paired fork's. *)
Namespace(arm, change) ==
  IF arm = "baseline" THEN <<"">>
  ELSE <<IF arm = "full" THEN "p2-full" ELSE "p2-fork", IF change = "E" THEN "D" ELSE change>>

Namespaces == {Namespace(a, c) : a \in {"baseline", "full", "fork"}, c \in ChangesUnderTest}

ArmOrder == IF forks_first THEN <<"fork", "fork_naive", "full">> ELSE <<"full", "fork", "fork_naive">>

ArmsOf(change) == [i \in 1..3 |-> [arm |-> ArmOrder[i], change |-> change]]

AllArms(list) ==
  [i \in 1..1 + 3 * Len(list) |->
     IF i = 1 THEN [arm |-> "baseline", change |-> "baseline"]
     ELSE ArmsOf(list[(i - 2) \div 3 + 1])[((i - 2) % 3) + 1]]

(* A checkpoint: the channels, the node it is about to run, and the step that produced it.  A world *)
(* snapshot is taken when a step streams its update, so the input's and __start__'s have none.       *)
Checkpoint(state, node, step, snapshot) ==
  [st |-> state, next |-> node, step |-> step, snapshot |-> snapshot]

Checkpoints ==
  [st: RefundState, next: Nodes \cup {"__start__", "END"}, step: Int, snapshot: World \cup {None}]

ASSUME CheckpointAssumption == None \notin Checkpoints \cup Agent!Classification \cup Agent!Facts

(* history(): the checkpoints of the baseline, oldest first, read before any fork adds branches. *)
History == SubSeq(thread, 1, recorded)

FindForkPoint(hist, node) ==
  LET about == {i \in DOMAIN hist : hist[i].next = node}
  IN IF about = {} THEN None ELSE hist[CHOOSE i \in about : \A j \in about : i <= j]

(* The nodes with a router; check_routing skips the others. *)
Routed == {"classify_request", "lookup_order", "get_refund_history", "check_eligibility",
           "compute_refund", "request_approval"}

(* Mutant: only the way to a fork point is replayed. *)
CheckRoutingToForkPoint(hist, change, until) ==
  \A i \in 1..Len(hist) - 1 :
    until # None /\ hist[i].step < until.step /\ hist[i].next \in Routed
    => Route(change, hist[i].next, hist[i + 1].st) = hist[i + 1].next

(* check_routing: on every step, up to the fork point if there is one, the change routes as the *)
(* baseline went.                                                                               *)
CheckRouting(hist, change, until) ==
  \A i \in 1..Len(hist) - 1 :
    (until # None => hist[i].step < until.step) /\ hist[i].next \in Routed
    => Route(change, hist[i].next, hist[i + 1].st) = hist[i + 1].next

(* Mutant: a fork starts with a fresh budget. *)
FreshLimit(limit, fork_step) == limit

CarriedLimit(limit, fork_step) == limit - (fork_step + 1)

(* Mutants: the thread is restored and the world is not; both forks get the recorded world. *)
WorldLeftBehind(arm, point, behind) == behind

WorldOfThePoint(arm, point, behind) == point.snapshot

(* The world a fork arm runs on: as it was at the fork point, or as the baseline left it. *)
ForkWorld(arm, point, behind) == IF arm = "fork" THEN point.snapshot ELSE behind

-----------------------------------------------------------------------------
Arm == Head(queue)

Forking(arm) == arm \in {"fork", "fork_naive"}

GroupInit ==
  /\ case \in Cases /\ changes \in ChangeLists /\ forks_first \in BOOLEAN
  /\ queue = AllArms(changes)
  /\ variant = "baseline" /\ recording = Agent!EmptyRecording
  /\ Agent!Start
  /\ nodes = << >>
  /\ thread = <<Checkpoint(EmptyState, "__start__", -1, None), Checkpoint(EmptyState, "classify_request", 0, None)>>
  /\ recorded = 0
  /\ cache = [n \in Namespaces |-> Agent!EmptyRecording]
  /\ rows = << >>

(* A step of the arm in progress.  The full rerun has a checkpointer of its own. *)
Superstep ==
  /\ queue # << >> /\ ~Agent!Over
  /\ Agent!Next
  /\ IF steps' = steps + 1
     THEN /\ nodes' = Append(nodes, next)
          /\ thread' = IF Arm.arm = "full" THEN thread
                       ELSE Append(thread, Checkpoint(st', next', Len(nodes'), world'))
     ELSE UNCHANGED <<nodes, thread>>
  /\ UNCHANGED <<changes, forks_first, queue, recorded, cache, rows>>

(* How the run in progress ended. *)
Ending ==
  IF phase = "done" THEN "done" ELSE IF steps > RECURSION_LIMIT THEN "out_of_steps" ELSE "model_failed"

(* The record of a finished arm; `prefix` is what a crashed run still reports as its nodes. *)
Row(prefix, routing_ok) ==
  [arm |-> Arm.arm, change |-> Arm.change, ended |-> Ending,
   classify |-> recording.classify, planned |-> st.refund_type,
   world |-> world, reply |-> reply, fired |-> fired,
   nodes |-> IF phase = "done" THEN nodes ELSE prefix,
   inherited |-> FALSE, routing_ok |-> routing_ok]

(* Without a fork point a fork arm inherits the baseline's verdict. *)
Inherited(base, arm, routing_ok) ==
  [base EXCEPT !.arm = arm.arm, !.change = arm.change, !.inherited = TRUE, !.routing_ok = routing_ok]

(* The next arm's run: its own variant, replies, thread and markers. *)
BeginRun(arm, drawn) ==
  /\ variant' = arm.change
  /\ recording' = drawn[Namespace(arm.arm, arm.change)]
  /\ phase' = "running" /\ answer' = None /\ fired' = {} /\ reply' = None

BeginFull(arm, drawn) ==
  /\ BeginRun(arm, drawn)
  /\ st' = EmptyState /\ world' = SeedWorld(case) /\ next' = "classify_request" /\ steps' = 1
  /\ nodes' = << >>

(* fork_run's first invocation has the budget the baseline had left at the fork point. *)
BeginFork(arm, drawn, point, base) ==
  /\ BeginRun(arm, drawn)
  /\ st' = point.st /\ next' = point.next
  /\ world' = ForkWorld(arm.arm, point, base.world)
  /\ steps' = RECURSION_LIMIT - CarriedLimit(RECURSION_LIMIT, point.step)
  /\ nodes' = SubSeq(base.nodes, 1, point.step)

(* The arm's row is recorded, its replies stay cached, fork arms without a fork point inherit, and *)
(* the next arm starts.  history() and the fork points are read from the baseline's thread alone.  *)
EndArm ==
  /\ queue # << >> /\ Agent!Over
  /\ LET hist     == IF Arm.arm # "baseline" THEN History ELSE IF phase = "done" THEN thread ELSE << >>
         Point(c) == FindForkPoint(hist, CHANGED_NODE[c])
         Ok(c)    == hist # << >> /\ CheckRouting(hist, c, Point(c))
         prefix   == IF Forking(Arm.arm) THEN SubSeq(rows[1].nodes, 1, Point(Arm.change).step) ELSE << >>
         ended    == Append(rows, Row(prefix, IF Forking(Arm.arm) THEN Ok(Arm.change) ELSE None))
         drawn    == [cache EXCEPT ![Namespace(Arm.arm, Arm.change)] = recording]
         Runs(a)  == ~Forking(a.arm) \/ Point(a.change) # None
         rest     == Tail(queue)
         skipped  == LET first == SelectInSeq(rest, Runs) IN IF first = 0 THEN Len(rest) ELSE first - 1
     IN /\ rows' = ended \o [i \in 1..skipped |-> Inherited(ended[1], rest[i], Ok(rest[i].change))]
        /\ cache' = drawn
        /\ recorded' = Len(hist)
        /\ queue' = SubSeq(rest, skipped + 1, Len(rest))
        /\ IF queue' = << >> THEN UNCHANGED <<run, nodes>>
           ELSE IF queue'[1].arm = "full" THEN BeginFull(queue'[1], drawn)
           ELSE BeginFork(queue'[1], drawn, Point(queue'[1].change), ended[1])
  /\ UNCHANGED <<case, changes, forks_first, thread>>

GroupNext == Superstep \/ EndArm

GroupSpec == GroupInit /\ [][GroupNext]_groupVars /\ WF_groupVars(GroupNext)

-----------------------------------------------------------------------------
(* What the checks see of an arm: everything but the markers and the flags. *)
Outcome(r) == <<r.ended, r.world.refunds, r.world.log, r.reply, IF r.ended = "done" THEN r.nodes ELSE << >>>>

Base == rows[1]

Of(arm, change) == {i \in DOMAIN rows : rows[i].arm = arm /\ rows[i].change = change}

(* A paired fork is a full rerun minus its upstream draws (docs/fork-validity.md): whenever the     *)
(* full rerun's model classifies as the baseline's did and both plan the same refund, the two end   *)
(* alike - the same refunds, the same tool log, the same reply, the same nodes, and out of steps    *)
(* together - although the fork starts in the middle, on a restored world and a carried budget.     *)
PairedForkIsFullRun ==
  \A change \in ChangesUnderTest : \A f \in Of("full", change), k \in Of("fork", change) :
    /\ ~rows[k].inherited
    /\ rows[f].classify = Base.classify
    /\ rows[f].planned = rows[k].planned
    /\ "model_failed" \notin {rows[f].ended, rows[k].ended}
    => Outcome(rows[f]) = Outcome(rows[k]) /\ rows[f].fired = rows[k].fired

(* When the routing check says an inherited verdict is valid, it is (evals/runner_part2.py:17-19):  *)
(* a full rerun of the change that classifies alike ends as the baseline did.                       *)
InheritedVerdictHolds ==
  \A change \in ChangesUnderTest : \A f \in Of("full", change), k \in Of("fork", change) :
    /\ rows[k].inherited /\ rows[k].routing_ok
    /\ rows[f].classify = Base.classify
    /\ rows[f].ended # "model_failed"
    => Outcome(rows[f]) = Outcome(rows[k])

(* What a naive fork that made the paired fork's decision shows is the paired fork on top of what   *)
(* the baseline left (docs/fork-validity.md:26-28): its rows after the baseline's, under the next   *)
(* ids, its calls after the baseline's calls, and the same nodes.                                   *)
NaiveForkAddsToWhatWasLeft ==
  \A change \in ChangesUnderTest : \A k \in Of("fork", change), n \in Of("fork_naive", change) :
    /\ ~rows[k].inherited
    /\ rows[k].ended = "done" /\ rows[n].ended = "done"
    /\ rows[k].planned = rows[n].planned
    => LET before == FindForkPoint(History, CHANGED_NODE[change]).snapshot
           left   == Base.world
           shift  == left.next_refund - before.next_refund
           new    == [i \in DOMAIN rows[k].world.refunds |->
                        [rows[k].world.refunds[i] EXCEPT !.id = @ + shift]]
       IN /\ rows[n].world.refunds = left.refunds \o new
          /\ rows[n].world.log =
               left.log \o SubSeq(rows[k].world.log, Len(before.log) + 1, Len(rows[k].world.log))
          /\ rows[n].nodes = rows[k].nodes

(* The naive fork replays the decision of its pair, whichever order the arms run in, what else has  *)
(* drawn from the namespace and although it runs on another world (evals/runner_part2.py:147-151):  *)
(* once the paired fork has decided, the naive fork after it decides the same, whether or not a     *)
(* later reply fails either of them.                                                               *)
NaiveReplaysItsPair ==
  \A change \in ChangesUnderTest : \A k \in Of("fork", change), n \in Of("fork_naive", change) :
    k < n /\ ~rows[k].inherited /\ rows[k].planned # None => rows[n].planned = rows[k].planned

(* The no-op control measures drift (evals/runner_part2.py:49-51): an arm that draws the replies    *)
(* the baseline drew ends as the baseline did, for D and E as well, but for E's own fast path.      *)
SameDrawsSameOutcome ==
  \A i \in DOMAIN rows :
    /\ Base.ended = "done"
    /\ rows[i].arm \in {"full", "fork"} /\ rows[i].ended # "model_failed"
    /\ rows[i].classify = Base.classify \/ rows[i].arm = "fork"
    /\ rows[i].planned = Base.planned
    => Outcome(rows[i]) = Outcome(Base) \/ "E:damaged_fast_path" \in rows[i].fired

(* A resume targets the thread's latest checkpoint, which is this fork's pause (evals/fork.py:      *)
(* 116-118), although the baseline and every earlier fork wrote to the same thread.                 *)
ResumeIsOwnPause ==
  phase = "paused" /\ Arm.arm # "full" =>
    /\ Last(thread).st = st
    /\ Last(thread).next = next

SameAsD(d, e) ==
  "E:damaged_fast_path" \in rows[e].fired \/ Outcome(rows[e]) = Outcome(rows[d])

(* E replays D's draws, so it differs from D by its routing change alone, for every arm of D that   *)
(* the model answered to its end (evals/runner_part2.py:51-53).                                     *)
EReplaysD ==
  \A arm \in {"full", "fork"} : \A d \in Of(arm, "D"), e \in Of(arm, "E") :
    rows[d].ended # "model_failed" => SameAsD(d, e)

(* The same as the docstring has it, without the exception: "any E-versus-D difference comes from   *)
(* the routing change alone" (evals/runner_part2.py:52-53).                                         *)
EDiffersOnlyByRouting ==
  \A arm \in {"full", "fork"} : \A d \in Of(arm, "D"), e \in Of(arm, "E") : SameAsD(d, e)

(* Every group ends with a row for every arm of every change (evals/runner_part2.py:163-182), after *)
(* crashes, pauses and skipped forks.                                                               *)
EveryArmGetsItsRow ==
  <>(queue = << >> /\ Len(rows) = 1 + 3 * Len(changes)
     /\ \A i \in DOMAIN changes, a \in {"full", "fork", "fork_naive"} : Of(a, changes[i]) # {})
=============================================================================
