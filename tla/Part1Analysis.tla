--------------------------- MODULE Part1Analysis ---------------------------
(***************************************************************************)
(* The offline analyses of the Part 1 runs: the direction of a             *)
(* trajectory's edit (scripts/direction_table.py), the verdict it predicts *)
(* (independent_mutants.py), the position rules (regrade_position_rule.py) *)
(* and the counts each script takes of a fired pair.                       *)
(***************************************************************************)
EXTENDS GradedRuns

READ_TOOLS == {"lookup_order", "get_refund_history"}

RULES == [none             |-> {},
          lookup_only      |-> {"lookup_order"},
          any_read         |-> READ_TOOLS,
          any_read_or_stop |-> READ_TOOLS]

-----------------------------------------------------------------------------
(* Mutant: the directions are taken of sets of names. *)
EditDirectionsOfSets(observed, reference) ==
  LET counts == {d \in {"omission"} : ~WithinAsSet(reference, observed)}
                \cup {d \in {"insertion"} : ~WithinAsSet(observed, reference)}
  IN counts \cup {d \in {"reordering"} : counts = {} /\ observed # reference}

EditDirections(observed, reference) ==
  LET counts == {d \in {"omission"} : ~Within(reference, observed)}
                \cup {d \in {"insertion"} : ~Within(observed, reference)}
  IN counts \cup {d \in {"reordering"} : counts = {} /\ observed # reference}

Predicted(mode, directions) ==
  CASE mode = "strict"    -> directions = {}
    [] mode = "unordered" -> directions \subseteq {"reordering"}
    [] mode = "subset"    -> "insertion" \notin directions
    [] mode = "superset"  -> "omission" \notin directions

-----------------------------------------------------------------------------
(* Mutant: the last call of a run has nothing after it to be wrong. *)
RepeatsBeforeRefundOrLast(calls, tools, allow_last) ==
  \A i \in DOMAIN calls :
    calls[i] \in tools /\ (\E j \in 1 .. i - 1 : calls[j] = calls[i]) /\ i < Len(calls)
    => calls[i + 1] = "issue_refund"

(* A repeat of one of the tools comes directly before the refund, or last where that is allowed. *)
RepeatsOnlyBeforeRefund(calls, tools, allow_last) ==
  \A i \in DOMAIN calls :
    calls[i] \in tools /\ (\E j \in 1 .. i - 1 : calls[j] = calls[i])
    => IF i = Len(calls) THEN allow_last ELSE calls[i + 1] = "issue_refund"

RuleOk(r, rule) == RepeatsOnlyBeforeRefund(r.calls, RULES[rule], rule = "any_read_or_stop")

(* The harness of the re-grade: the three layers and the rule. *)
PassesWithRule(r, rule) ==
  ~r.crashed /\ r.answer_pass /\ r.end_state_pass /\ r.constraints_pass /\ RuleOk(r, rule)

(* regrade: how a fired mutant pair counts, and a valid variant's run. *)
RegradedSurvival(r, base, rule) ==
  InRate(Fired(r) /\ PassesWithRule(base, rule), PassesWithRule(r, rule))

RegradedRejection(r, rule) ==
  InRate(~r.crashed /\ r.answer_pass /\ r.end_state_pass, ~(r.constraints_pass /\ RuleOk(r, rule)))

-----------------------------------------------------------------------------
(* harnesses: every harness of the independent mutants asks for an uncrashed run without a grading *)
(* error; the match modes and the rules come on top of the world and the answer.                   *)
IndependentHarness(r, name) ==
  /\ ~r.crashed /\ ~r.grading_error /\ r.answer_pass
  /\ name \in MATCH_MODES => r.end_state_pass /\ r.mode_pass[name]
  /\ name \in DOMAIN RULES => r.end_state_pass /\ r.constraints_pass /\ RuleOk(r, name)

IndependentSurvival(r, base, name) ==
  InRate(Fired(r) /\ IndependentHarness(base, name), IndependentHarness(r, name))

(* checks: what each trajectory check says of an alternate's run. *)
AlternateCheck(r, name) ==
  IF name \in MATCH_MODES THEN r.mode_pass[name] ELSE r.constraints_pass /\ RuleOk(r, name)
=============================================================================
