----------------------------- MODULE GradedRuns -----------------------------
(***************************************************************************)
(* A finished run under every check layer, and what the Part 1 report      *)
(* counts of it (evals/runner.py, grade_run; evals/checks/answer.py;       *)
(* evals/report.py).  The judge is a model and the reply a text, so what   *)
(* either comes to is given: a verdict of the string check and a score, or *)
(* None where the judge raises.                                            *)
(***************************************************************************)
EXTENDS AuthoredCases

JUDGE_PASS == 4

Verdicts == [strings: BOOLEAN, score: 1..5] \cup {None}

(* answer_check under grade_run's try: without a final message the judge is not asked, and a judge *)
(* that raises leaves score 0 and a grading error.                                                 *)
AnswerCheck(final, verdict) ==
  IF final = None THEN [answer_pass |-> FALSE, judge_score |-> 1, grading_error |-> FALSE]
  ELSE IF verdict = None THEN [answer_pass |-> FALSE, judge_score |-> 0, grading_error |-> TRUE]
  ELSE [answer_pass |-> verdict.strings /\ verdict.score >= JUDGE_PASS,
        judge_score |-> verdict.score, grading_error |-> FALSE]

(* A run that crashed passes no layer, although its match modes are recorded all the same. *)
GradeRun(run, g, verdict) ==
  LET answer == AnswerCheck(run.final, verdict)
  IN [variant |-> run.variant, crashed |-> run.crashed, calls |-> run.calls, fired |-> run.fired,
      end_state_pass |-> CheckEndState(run.refunds, g.end_states) /\ ~run.crashed,
      constraints_pass |-> CheckConstraints(run.calls, g) /\ ~run.crashed,
      mode_pass |-> [m \in MATCH_MODES |-> MatchTrajectory(run.calls, g.reference, m)],
      answer_pass |-> answer.answer_pass /\ ~run.crashed,
      judge_score |-> answer.judge_score, grading_error |-> answer.grading_error]

-----------------------------------------------------------------------------
(* passes: a harness is the answer alone, the three layers, or a match mode instead of the *)
(* constraints.                                                                            *)
Passes(r, harness) ==
  /\ ~r.crashed /\ r.answer_pass
  /\ harness # "answer_only" => r.end_state_pass
  /\ harness = "three_artifact" => r.constraints_pass
  /\ harness \in MATCH_MODES => r.mode_pass[harness]

LayerOk(r, layer) == IF layer = "constraints" THEN r.constraints_pass ELSE r.mode_pass[layer]

(* A marker begins with the name of the one variant that leaves it, so the report's prefix test *)
(* asks whether any marker fired.                                                               *)
Fired(r) == r.fired # {}

(* What a rate makes of a run: outside it, or a success or a failure in it. *)
InRate(counts, success) == IF ~counts THEN "out" ELSE IF success THEN "success" ELSE "failure"

(* summarize leaves rows with a grading error out, a baseline's too. *)
Kept(r) == ~r.grading_error

(* Mutant: a fired pair counts whatever its baseline run came to. *)
UnconditionalSurvival(r, base, harness) ==
  InRate(Kept(r) /\ Kept(base) /\ Fired(r), Passes(r, harness))

(* _conditional_survival: a fired pair counts where its baseline run passes the same harness. *)
ConditionalSurvival(r, base, harness) ==
  InRate(Kept(r) /\ Kept(base) /\ Fired(r) /\ Passes(base, harness), Passes(r, harness))

(* _brittle: the layer rejects a run whose world and reply are right. *)
BrittleFail(r, layer) ==
  InRate(Kept(r) /\ ~r.crashed /\ r.end_state_pass /\ r.answer_pass, ~LayerOk(r, layer))
=============================================================================
