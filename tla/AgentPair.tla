----------------------------- MODULE AgentPair -----------------------------
(***************************************************************************)
(* The measured comparison: the baseline runs a case, then a variant runs  *)
(* the same case in a fresh world and on a fresh thread, over the same     *)
(* recording of model replies (the cache of agent/llm.py makes a call with *)
(* the same key return the same reply).  What differs between the two runs *)
(* is the variant alone (evals/runner.py, run_case).                       *)
(***************************************************************************)
EXTENDS AuthoredCases, SequencesExt

CONSTANTS Variants, Cases, RECURSION_LIMIT

(* Part 1 pairs none of Part 2's changes (agent/graph.py:39-41); None is not a classification. *)
ASSUME PairAssumption ==
  /\ Variants \subseteq ALL_VARIANTS \ CHANGES
  /\ \A c \in Cases : c \in Case
  /\ None \notin [intent: Intents, order_id: OrderIds \cup {None}]

VARIABLES
  case, recording,     \* shared by the two runs
  variant,             \* the second run's variant; "baseline" until it starts
  st1, world1, next1, phase1, answer1, steps1, fired1, reply1,
  st2, world2, next2, phase2, answer2, steps2, fired2, reply2

run1 == <<st1, world1, next1, phase1, answer1, steps1, fired1, reply1>>
run2 == <<st2, world2, next2, phase2, answer2, steps2, fired2, reply2>>
pairVars == <<case, recording, variant, run1, run2>>

Base == INSTANCE RefundAgent WITH
          variant <- "baseline", st <- st1, world <- world1, next <- next1, phase <- phase1,
          answer <- answer1, steps <- steps1, fired <- fired1, reply <- reply1

Other == INSTANCE RefundAgent WITH
          st <- st2, world <- world2, next <- next2, phase <- phase2,
          answer <- answer2, steps <- steps2, fired <- fired2, reply <- reply2

(* None is not a reply. *)
ASSUME ReplyAssumption == None \notin Base!Facts

PairInit ==
  /\ case \in Cases
  /\ recording = Base!EmptyRecording
  /\ variant = "baseline"
  /\ Base!Start /\ Other!Start

RunBaseline ==
  /\ ~Base!Over /\ Base!Next
  /\ UNCHANGED <<variant, run2>>

(* run_case for the next variant: create_db, a fresh Tools and a fresh thread. *)
StartVariant ==
  /\ Base!Over /\ variant = "baseline"
  /\ variant' \in Variants \ {"baseline"}
  /\ UNCHANGED <<case, recording, run1, run2>>

RunVariant ==
  /\ variant # "baseline"
  /\ ~Other!Over /\ Other!Next
  /\ UNCHANGED run1

PairNext == RunBaseline \/ StartVariant \/ RunVariant

PairSpec == PairInit /\ [][PairNext]_pairVars
-----------------------------------------------------------------------------
BothDone == phase1 = "done" /\ variant # "baseline" /\ phase2 = "done"

Called(w, tool) == \E i \in DOMAIN w.log : w.log[i].name = tool

(* An alternate implementation is a valid one because nobody downstream can tell: over the same   *)
(* replies it pays the same refund, and, unless it stops on an error the baseline meets later or   *)
(* not at all, it tells the customer the same facts.  V1-V6 (agent/graph.py:182-229, 274-364) and  *)
(* the cost mutants C, C1, C2 and M7 leave no other trace; alt_verify may stop on a changed price. *)
SameOutcome ==
  BothDone =>
    /\ variant \in INDEPENDENT_VALID \cup {"C", "C1", "C2", "M7", "alt_recheck"} =>
         world2.refunds = world1.refunds /\ reply2 = reply1
    /\ variant = "alt_history_early" =>
         /\ world2.refunds = world1.refunds
         /\ reply2 # reply1 => reply2.error = "get_refund_history" /\ reply1.error # None
    /\ variant = "alt_verify" =>
         \/ world2.refunds = world1.refunds /\ reply2 = reply1
         \/ world2.refunds = << >> /\ reply2.error = "order_changed" /\ case.reprice # None

RepeatsLast(log) == Len(log) > 1 /\ log[Len(log)] = log[Len(log) - 1]

(* What the trajectory checks see of each alternate (docs/part-1.3-preregistration.md, "Tool calls *)
(* differ from the baseline on"): nothing of V4, V5 and V6, although V4 computes before it is      *)
(* known whether a refund is due; of V1, V2 and V3 one more call at the end of the log, exactly    *)
(* when their marker fired.                                                                        *)
SameTraffic ==
  BothDone =>
    /\ variant \in {"V4", "V5", "V6"} => world2.log = world1.log
    /\ variant \in {"V1", "V2", "V3"} =>
         \/ fired2 = {} /\ world2.log = world1.log
         \/ fired2 # {} /\ Front(world2.log) = world1.log
    /\ variant = "V1" => (fired2 # {} <=> RepeatsLast(world2.log))
    /\ variant = "V3" => (fired2 # {} <=> Called(world1, "issue_refund"))
-----------------------------------------------------------------------------
Calls(w) == [i \in DOMAIN w.log |-> w.log[i].name]

(* The gradings under which the variant's run ends as its case wants it to; the case is the one    *)
(* whose customer asked about the order the run was classified with (grade_run, evals/runner.py).  *)
RightEnd == {g \in Authored(case, st2.order_id) : CheckEndState(world2.refunds, g.end_states)}

Accepts(mode, w, g) == MatchTrajectory(Calls(w), g.reference, mode)

(* The constraints as authored reject no valid path whose outcome is right, however it reads       *)
(* (docs/part-1.3-preregistration.md, expectation 2; README.md:585), and neither does superset.     *)
ValidPathsAccepted ==
  BothDone /\ variant \in VALID_VARIANTS \cup INDEPENDENT_VALID =>
    \A g \in RightEnd : CheckConstraints(Calls(world2), g) /\ Accepts("superset", world2, g)

(* What the four modes can tell apart (docs/part-1.2-preregistration.md and part-1.3): a path that *)
(* adds a call is rejected by all but superset; M2's reordering and the valid one of               *)
(* alt_history_early are seen by strict alone, so that no mode separates them; and an error in the *)
(* reply (M8) is seen by none.                                                                     *)
ModesSeeDirections ==
  BothDone =>
    \A g \in RightEnd :
      /\ variant \in {"V1", "V2", "V3"} /\ fired2 # {} =>
           {m \in MATCH_MODES : Accepts(m, world2, g)} = {"superset"}
      /\ \/ variant = "M2" /\ world2.refunds # << >>
         \/ variant = "alt_history_early" /\ Called(world2, "check_eligibility")
         => {m \in MATCH_MODES : Accepts(m, world2, g)} = MATCH_MODES \ {"strict"}
      /\ variant = "M8" => \A m \in MATCH_MODES : Accepts(m, world2, g) <=> Accepts(m, world1, g)
=============================================================================
