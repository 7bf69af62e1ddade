---------------------------- MODULE PairAnalysis ----------------------------
(***************************************************************************)
(* The Part 1 analyses over a finished pair: what the pre-registrations    *)
(* predict of each mutant and each alternate, whatever the model replied,  *)
(* and that the scripts count the pair alike.                              *)
(***************************************************************************)
EXTENDS AgentPair, Part1Analysis

(* The run as run_case hands it to grade_run: a crash leaves no final message. *)
Finished(v, w, phase, marks, reply) ==
  [variant |-> v, crashed |-> phase = "crashed", refunds |-> w.refunds, calls |-> Calls(w),
   fired |-> marks, final |-> IF phase = "crashed" THEN None ELSE reply]

Graded1(g, verdict) == GradeRun(Finished("baseline", world1, phase1, fired1, reply1), g, verdict)

Graded2(g, verdict) == GradeRun(Finished(variant, world2, phase2, fired2, reply2), g, verdict)

(* A judge that endorses, one that does not quite, and one that raises. *)
Endorsed == [strings |-> TRUE, score |-> JUDGE_PASS]

SampleVerdicts == {Endorsed, [strings |-> TRUE, score |-> JUDGE_PASS - 1], None}

BothOver == variant # "baseline" /\ phase1 \in {"done", "crashed"} /\ phase2 \in {"done", "crashed"}

Gradings == Authored(case, st2.order_id)

-----------------------------------------------------------------------------
(* The direction set predicts every mode's verdict on every run, valid or not                   *)
(* (docs/part-1.2-preregistration.md, expectation 1; part-1.3, expectation 1).                  *)
DirectionTablePredicts ==
  BothOver =>
    \A g \in Gradings, m \in MATCH_MODES :
      LET r == Graded2(g, Endorsed)
      IN r.mode_pass[m] <=> Predicted(m, EditDirections(r.calls, g.reference))

Rejecting(r) == {name \in MATCH_MODES \cup DOMAIN RULES : ~AlternateCheck(r, name)}

SamePath == {"strict", "unordered", "subset"}

(* The table of predictions for the alternates (docs/part-1.3-preregistration.md:56-64), by check, *)
(* for the runs whose end state and answer pass: which checks reject V1, V2 and V3 where they      *)
(* fired, and that whatever did not fire is judged as the baseline is.  alt_recheck's re-read is   *)
(* the one repeat all three rules were written to allow, and alt_verify's is last when it stops.   *)
AlternatesAsPredicted ==
  BothDone =>
    \A g \in Gradings :
      LET r == Graded2(g, Endorsed)
      IN r.end_state_pass =>
         /\ variant \in INDEPENDENT_VALID =>
              Rejecting(r) = IF fired2 = {} \/ variant = "V4" THEN Rejecting(Graded1(g, Endorsed))
                             ELSE CASE variant = "V1" -> SamePath \cup {"lookup_only", "any_read"}
                                    [] variant = "V2" -> SamePath
                                    [] variant = "V3" -> SamePath \cup {"any_read"}
         /\ variant = "alt_recheck" => Rejecting(r) \cap DOMAIN RULES = {}
         /\ variant = "alt_verify" => "any_read_or_stop" \notin Rejecting(r)

(* What the constraints as authored catch of the mutants that fired, where they accept the         *)
(* baseline (docs/part-1.2-preregistration.md, expectation 3), and what the position rules add     *)
(* (expectation 5): all three for M3 on another customer's order, and nothing for the others.      *)
ConstraintsAsPredicted ==
  BothDone /\ fired2 # {} =>
    \A g \in Gradings :
      LET r == Graded2(g, Endorsed)
          Adds(rule) == r.constraints_pass /\ ~RuleOk(r, rule)
      IN Graded1(g, Endorsed).constraints_pass =>
         /\ variant \in {"A", "M2", "M4"} => ~r.constraints_pass
         /\ variant = "M1" => (r.constraints_pass <=> ~Called(world2, "issue_refund"))
         /\ variant = "M3" => (r.constraints_pass <=> ~Called(world2, "check_eligibility"))
         /\ variant = "C" => (r.constraints_pass <=> st2.refund_type = None)
         /\ variant \in {"B", "C1", "C2", "M6", "M7", "M8"} => r.constraints_pass
         /\ variant = "M5" /\ st2.approval = st1.approval => r.constraints_pass
         /\ variant \in INDEPENDENT_MUTANTS \ {"M3"} => \A rule \in DOMAIN RULES : ~Adds(rule)
         /\ variant = "M3" /\ case.orders[st2.order_id] # None =>
              \A rule \in DOMAIN RULES \ {"none"} : ~RuleOk(r, rule)

(* The end state catches every mutant on the runs where it changes what is paid, and only the      *)
(* answer can tell a B or an M8 from the baseline (expectation 4).  The exception is what a        *)
(* mixed-reason case accepts on purpose: M6's full refund for a decided partial one.               *)
OutcomeFaultsCaught ==
  BothDone =>
    \A g \in Gradings :
      LET r == Graded2(g, Endorsed)
          base == Graded1(g, Endorsed)
      IN base.end_state_pass =>
         /\ world2.refunds # world1.refunds =>
              ~r.end_state_pass \/ (variant = "M6" /\ Cardinality(g.end_states) > 1)
         /\ variant \in {"B", "M8"} =>
              \A name \in MATCH_MODES \cup {"three_artifact"} : Passes(r, name) <=> Passes(base, name)

(* The three scripts read one log alike, whatever the judge says of the two runs: the re-grade's    *)
(* rule "none" and the independent mutants' constraints harness count every fired pair alike; the   *)
(* report counts a mutant as surviving on the same pairs, and a pair that it counts they count as   *)
(* it does (evals/report.py:125-127, scripts/regrade_position_rule.py:78-85); and the report's      *)
(* brittle fails are the rejections of the re-grade (evals/report.py:141-144, its lines 87-93).     *)
ReportsAgree ==
  BothOver =>
    \A g \in Gradings : \A j1, j2 \in SampleVerdicts :
      LET r        == Graded2(g, j2)
          base     == Graded1(g, j1)
          report   == ConditionalSurvival(r, base, "three_artifact")
          regraded == RegradedSurvival(r, base, "none")
      IN /\ regraded = IndependentSurvival(r, base, "none")
         /\ regraded = "success" <=> report = "success"
         /\ report # "out" => regraded = report
         /\ BrittleFail(r, "constraints") = RegradedRejection(r, "none")

(* "`none` reproduces the three-artifact harness as measured" (scripts/regrade_position_rule.py:    *)
(* 113-114): the re-grade without a rule has the report's rate of the same log for every mutant     *)
(* they both report.                                                                               *)
NoneReproducesTheReport ==
  BothOver /\ variant \in MUTANTS =>
    \A g \in Gradings : \A j1, j2 \in SampleVerdicts :
      RegradedSurvival(Graded2(g, j2), Graded1(g, j1), "none") =
        ConditionalSurvival(Graded2(g, j2), Graded1(g, j1), "three_artifact")
=============================================================================
