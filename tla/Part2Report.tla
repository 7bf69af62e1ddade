---------------------------- MODULE Part2Report ----------------------------
(***************************************************************************)
(* What the Part 2 report and its offline scripts read off a finished      *)
(* group (evals/report_part2.py, scripts/upstream_state.py,                *)
(* scripts/paired_contrasts.py): a pair is the group's rows of one change, *)
(* graded under one grading and one verdict of the judge for each run.     *)
(***************************************************************************)
EXTENDS ForkGroup, GradedRuns

LAYERS == {"end_state", "constraints", "answer", "three_artifact"}

(* A judge that endorses, one that does not, one that raises. *)
Endorsed == [strings |-> TRUE, score |-> JUDGE_PASS]

SampleVerdicts == {Endorsed, [strings |-> TRUE, score |-> JUDGE_PASS - 1], None}

Verdict(r, layer) ==
  CASE layer = "end_state"      -> r.end_state_pass
    [] layer = "constraints"    -> r.constraints_pass
    [] layer = "answer"         -> r.answer_pass
    [] layer = "three_artifact" -> Passes(r, "three_artifact")

Score(r, score) ==
  IF score = "judge_score" THEN r.judge_score ELSE IF Passes(r, "three_artifact") THEN 1 ELSE 0

(* The row of an arm as graded; an inherited one has the record of the baseline's grading. *)
Graded(row, g, verdict) ==
  GradeRun([variant |-> row.change, crashed |-> row.ended # "done", refunds |-> row.world.refunds,
            calls |-> [i \in DOMAIN row.world.log |-> row.world.log[i].name],
            fired |-> row.fired, final |-> IF row.ended = "done" THEN row.reply ELSE None],
           g, verdict)

(* The decision an arm made at compute_refund, which a crashed one does not report. *)
Decision(row) == IF row.ended = "done" THEN row.planned ELSE None

Forkable(row) == ~row.inherited

(* upstream_state's forkable: the baseline's nodes name the changed one. *)
PassedChangedNode(base) == \E i \in DOMAIN base.nodes : base.nodes[i] = "compute_refund"

-----------------------------------------------------------------------------
SameDecision(paired, naive) ==
  /\ paired.ended = "done" /\ naive.ended = "done"
  /\ Decision(paired) # None /\ Decision(paired) = Decision(naive)

(* wrong_verdicts: how a layer counts a forkable pair of rows p and n, graded as gp and gn. *)
WrongVerdict(p, n, gp, gn, layer) ==
  IF gp.grading_error \/ gn.grading_error THEN "skipped"
  ELSE IF ~SameDecision(p, n) THEN "excluded"
  ELSE IF Verdict(gp, layer) = Verdict(gn, layer) THEN "agree"
  ELSE IF Verdict(gp, layer) THEN "naive_fail_paired_pass"
  ELSE "naive_pass_paired_fail"

(* Mutant: a pair whose baseline crashed counts as flagged. *)
FlaggedWhenever(row, base) == ~row.routing_ok

Flagged(row, base) == ~row.routing_ok /\ base.ended = "done"

(* routing_change: the lists a pair enters. *)
RoutingChange(row, full, base, gk, gf, gb) ==
  LET full_reg == Passes(gb, "three_artifact") /\ ~Passes(gf, "three_artifact")
      fork_ok  == Passes(gk, "three_artifact")
      hidden   == full_reg /\ fork_ok
  IN IF gk.grading_error \/ gf.grading_error \/ gb.grading_error THEN {}
     ELSE {l \in {"full_regression"} : full_reg}
          \cup {l \in {"fork_regression"} : Passes(gb, "three_artifact") /\ ~fork_ok}
          \cup {l \in {"hidden_by_fork"} : hidden}
          \cup {l \in {"hidden_by_fast_path"} : hidden /\ "E:damaged_fast_path" \in full.fired}
          \cup {l \in {"routing_flagged"} : Flagged(row, base)}

(* paired_delta, and diff of the contrasts: None where the report has no unit. *)
PairedDelta(gb, g, score) ==
  IF gb.grading_error \/ g.grading_error THEN None ELSE Score(g, score) - Score(gb, score)

-----------------------------------------------------------------------------
Finished == queue = << >>

Gradings == UNION {Authored(case, asked) : asked \in OrderIds \cup {None}}

TheRow(arm, change) == rows[CHOOSE i \in Of(arm, change) : TRUE]

Changes == {changes[i] : i \in DOMAIN changes}

Issued(row) == row.world.refunds # << >>

(* A naive verdict is wrong because of the world and of nothing else (evals/report_part2.py:10-16; *)
(* docs/variants.md, expectation 3).  Over the compared pairs: an end state that disagrees is one  *)
(* the baseline's own refund spoilt or lent; where both the baseline and the fork refund, the naive *)
(* fork fails whatever is authored, on the constraints too where the paired fork passes them; and  *)
(* constraints disagree only over calls the baseline made after the fork point.                    *)
NaiveVerdictsComeFromTheWorld ==
  Finished =>
    \A change \in Changes, g \in Gradings :
      LET p  == TheRow("fork", change)
          n  == TheRow("fork_naive", change)
          gp == Graded(p, g, Endorsed)
          gn == Graded(n, g, Endorsed)
          Counted(layer) == WrongVerdict(p, n, gp, gn, layer)
          before == FindForkPoint(History, CHANGED_NODE[change]).snapshot
      IN Forkable(p) /\ Counted("end_state") \in {"agree", "naive_fail_paired_pass", "naive_pass_paired_fail"} =>
         /\ Counted("end_state") # "agree" => Issued(Base)
         /\ Issued(Base) /\ Issued(p) =>
              /\ ~gn.end_state_pass
              /\ gp.constraints_pass => Counted("constraints") = "naive_fail_paired_pass"
         /\ Counted("end_state") = "naive_pass_paired_fail" =>
              ~Issued(p) /\ Graded(Base, g, Endorsed).end_state_pass
         /\ Counted("constraints") # "agree" => Base.world.log # before.log

(* The routing check flags exactly the fast path (docs/variants.md, expectation 4), as far as the   *)
(* full rerun classified as the baseline did: D and the control never, and E where the rerun took   *)
(* the fast path.  A regression the fork hides is then flagged, unless only the answer's draw       *)
(* differs; and a baseline that crashed is never flagged (evals/report_part2.py:19-21).             *)
RoutingFlagsExactly ==
  Finished =>
    \A change \in Changes :
      LET k == TheRow("fork", change)
          f == TheRow("full", change)
          alike == f.classify = Base.classify
      IN /\ Flagged(k, Base) => change = "E" /\ Base.ended = "done" /\ k.inherited
         /\ change = "E" /\ alike /\ Base.ended = "done" =>
              (Flagged(k, Base) <=> "E:damaged_fast_path" \in f.fired)
         /\ \A g \in Gradings : \A j1, j2 \in SampleVerdicts :
              LET gb == Graded(Base, g, j1)
                  gf == Graded(f, g, j2)
                  lists == RoutingChange(k, f, Base, Graded(IF k.inherited THEN Base ELSE k, g, j1), gf, gb)
              IN k.inherited /\ alike /\ f.ended = "done" /\ "hidden_by_fork" \in lists =>
                   \/ "routing_flagged" \in lists
                   \/ gf.end_state_pass /\ gf.constraints_pass /\ ~gf.answer_pass

(* The two scripts and the report speak of the same pairs: those whose baseline passed the changed  *)
(* node (scripts/upstream_state.py:86) are those whose forks did not inherit.  Up to the fork point *)
(* the classification fixes everything (upstream_state.py:6-10): a full rerun of any change that    *)
(* classified alike took the same nodes and made the same calls.  Every other pair has delta 0,     *)
(* whatever the judge says (paired_contrasts.py:91).                                                *)
PairsAreOne ==
  Finished =>
    \A change \in Changes :
      LET k == TheRow("fork", change)
          f == TheRow("full", change)
          point == FindForkPoint(History, CHANGED_NODE[change])
      IN /\ Forkable(k) <=> PassedChangedNode(Base)
         /\ Forkable(k) /\ f.classify = Base.classify /\ f.ended = "done" =>
              /\ SubSeq(f.nodes, 1, point.step) = SubSeq(Base.nodes, 1, point.step)
              /\ SubSeq(f.world.log, 1, Len(point.snapshot.log)) = point.snapshot.log
         /\ ~Forkable(k) =>
              \A g \in Gradings, j \in SampleVerdicts, score \in {"three_artifact", "judge_score"} :
                PairedDelta(Graded(Base, g, j), Graded(k, g, j), score) \in {0, None}
=============================================================================
