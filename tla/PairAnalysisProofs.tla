------------------------- MODULE PairAnalysisProofs -------------------------
(***************************************************************************)
(* Proofs about the offline analyses of the paired runs.  First, of any    *)
(* two runs: the direction table predicts every match mode, and the report *)
(* and the two scripts count a fired pair alike.  Then, of the runs that   *)
(* end in the table of AgentPairProofs, under every grading the builders   *)
(* can author: the end state catches every wrong outcome, the valid paths  *)
(* are accepted, and each mode, constraint and position rule says of every *)
(* variant what the two pre-registrations predict.                         *)
(***************************************************************************)
EXTENDS PairAnalysis, AgentPairProofs

(* The tools by name, as the gradings list them. *)
Tools == {"lookup_order", "get_refund_history", "check_eligibility", "issue_refund"}

-----------------------------------------------------------------------------
(* A list of calls holds itself, counted with multiplicity. *)
LEMMA WithinItself ==
  ASSUME NEW calls \in Seq(Tools)
  PROVE  Within(calls, calls)
<1> SUFFICES ASSUME NEW tool PROVE Count(calls, tool) <= Count(calls, tool)
  BY DEF Within
<1> DEFINE at == {i \in DOMAIN calls : calls[i] = tool}
<1>1. IsFiniteSet(1..Len(calls)) /\ at \subseteq 1..Len(calls)
  BY FS_Interval
<1>2. Cardinality(at) \in Nat
  BY <1>1, FS_Subset, FS_CardinalityType
<1> QED
  BY <1>2 DEF Count

(* What a trajectory differs from its reference in decides every match mode. *)
LEMMA DirectionsDecide ==
  ASSUME NEW observed, NEW reference \in Seq(Tools), NEW mode \in MATCH_MODES
  PROVE  MatchTrajectory(observed, reference, mode)
           <=> Predicted(mode, EditDirections(observed, reference))
<1> DEFINE directions == EditDirections(observed, reference)
<1>1. "omission" \in directions <=> ~Within(reference, observed)
  BY DEF EditDirections
<1>2. "insertion" \in directions <=> ~Within(observed, reference)
  BY DEF EditDirections
<1>3. directions \subseteq {"omission", "insertion", "reordering"}
  BY DEF EditDirections
<1>4. "reordering" \in directions
        <=> Within(reference, observed) /\ Within(observed, reference) /\ observed # reference
  BY DEF EditDirections
<1>5. observed = reference => Within(observed, reference)
  BY WithinItself
<1> HIDE DEF directions
<1>6. directions = {} <=> observed = reference
  BY <1>1, <1>2, <1>3, <1>4, <1>5
<1>7. directions \subseteq {"reordering"} <=> Within(observed, reference) /\ Within(reference, observed)
  BY <1>1, <1>2, <1>3
<1>8. CASE mode = "strict"
  BY <1>6, <1>8 DEF MatchTrajectory, Predicted, directions
<1>9. CASE mode = "unordered"
  BY <1>7, <1>9 DEF MatchTrajectory, Predicted, directions
<1>10. CASE mode = "subset"
  BY <1>2, <1>10 DEF MatchTrajectory, Predicted, directions
<1>11. CASE mode = "superset"
  BY <1>1, <1>11 DEF MatchTrajectory, Predicted, directions
<1> QED
  BY <1>8, <1>9, <1>10, <1>11 DEF MATCH_MODES

(* Every reference the builders author is a list of tool calls. *)
LEMMA AuthoredReference ==
  ASSUME NEW c, NEW asked, NEW g \in Authored(c, asked)
  PROVE  g.reference \in Seq(Tools)
<1>1. /\ REFUND_PATH \in Seq(Tools) /\ CHECKED_PATH \in Seq(Tools) /\ << >> \in Seq(Tools)
      /\ <<"lookup_order">> \in Seq(Tools) /\ Append(CHECKED_PATH, "lookup_order") \in Seq(Tools)
  BY DEF REFUND_PATH, CHECKED_PATH, Tools
<1> DEFINE Paths == {REFUND_PATH, CHECKED_PATH, << >>, <<"lookup_order">>, Append(CHECKED_PATH, "lookup_order")}
<1>2. /\ \A must : \A path \in Paths : StopsAtLookup(must, path).reference \in Paths
      /\ \A path \in Paths : StopsAtCheck(path).reference \in Paths
      /\ \A ends, issues : Issues(ends, issues).reference \in Paths
  BY DEF StopsAtLookup, StopsAtCheck, Issues
<1>3. /\ NoIdCase.reference \in Paths /\ NotFoundCase.reference \in Paths
      /\ LookupFailureCase.reference \in Paths
  BY <1>2 DEF NoIdCase, NotFoundCase, LookupFailureCase
<1>4. /\ IneligibleCase.reference \in Paths /\ ChangedOrderCase.reference \in Paths
      /\ RefundFailureCase.reference \in Paths
  BY <1>2 DEF IneligibleCase, ChangedOrderCase, RefundFailureCase
<1>5. /\ \A type, price, approval : RefundCase(type, price, approval).reference \in Paths
      /\ \A types, price : MixedReasonCase(types, price).reference \in Paths
  BY <1>2 DEF RefundCase, MixedReasonCase
<1>6. g.reference \in Paths
  <2> HIDE DEF Paths
  <2> QED
    BY <1>3, <1>4, <1>5 DEF Authored
<1> QED
  BY <1>1, <1>6

(* The direction table predicts every match mode's verdict on every run, crashed runs and mutants  *)
(* included (scripts/direction_table.py; docs/part-1.2-preregistration.md, expectation 1).          *)
THEOREM DirectionTable == PairSpec => []DirectionTablePredicts
<1>1. DirectionTablePredicts
  <2> SUFFICES ASSUME NEW g \in Gradings, NEW m \in MATCH_MODES
               PROVE  LET r == Graded2(g, Endorsed)
                      IN r.mode_pass[m] <=> Predicted(m, EditDirections(r.calls, g.reference))
    BY DEF DirectionTablePredicts
  <2> DEFINE r == Graded2(g, Endorsed)
             calls == Calls(world2)
  <2>1. r.calls = calls /\ r.mode_pass = [mode \in MATCH_MODES |-> MatchTrajectory(calls, g.reference, mode)]
    BY DEF Graded2, Finished, GradeRun
  <2>2. g.reference \in Seq(Tools)
    BY AuthoredReference DEF Gradings
  <2> HIDE DEF r, calls
  <2>3. r.mode_pass[m] = MatchTrajectory(calls, g.reference, m)
    BY <2>1
  <2>4. MatchTrajectory(calls, g.reference, m) <=> Predicted(m, EditDirections(calls, g.reference))
    BY <2>2, DirectionsDecide
  <2> QED
    BY <2>1, <2>3, <2>4 DEF r
<1> QED
  BY <1>1, PTL

-----------------------------------------------------------------------------
(* No position rule is also a rule: under "none" nothing is a repeat. *)
LEMMA NoRule ==
  ASSUME NEW r
  PROVE  RuleOk(r, "none")
BY DEF RuleOk, RULES, RepeatsOnlyBeforeRefund

(* A run that the judge could not grade has no passing answer, and a crashed one passes no layer. *)
LEMMA GradedRow ==
  ASSUME NEW run, NEW g, NEW verdict, run.crashed \in BOOLEAN
  PROVE  LET r == GradeRun(run, g, verdict)
         IN /\ r.grading_error => ~r.answer_pass
            /\ r.crashed => ~r.answer_pass /\ ~r.end_state_pass /\ ~r.constraints_pass
<1>1. AnswerCheck(run.final, verdict).grading_error => ~AnswerCheck(run.final, verdict).answer_pass
  BY DEF AnswerCheck
<1> QED
  BY <1>1 DEF GradeRun

(* The re-grade without a rule and the independent mutants' constraints harness count every fired    *)
(* pair alike; the report counts a mutant as surviving on the same pairs, and the pairs it counts as  *)
(* they do; its brittle fails are the re-grade's rejections (evals/report.py:125-127, 141-144;        *)
(* scripts/regrade_position_rule.py:78-93; scripts/independent_mutants.py).                           *)
THEOREM ReportsCountAlike == PairSpec => []ReportsAgree
<1>1. ReportsAgree
  <2> SUFFICES ASSUME NEW g \in Gradings, NEW j1 \in SampleVerdicts, NEW j2 \in SampleVerdicts
               PROVE  LET r        == Graded2(g, j2)
                          base     == Graded1(g, j1)
                          report   == ConditionalSurvival(r, base, "three_artifact")
                          regraded == RegradedSurvival(r, base, "none")
                      IN /\ regraded = IndependentSurvival(r, base, "none")
                         /\ regraded = "success" <=> report = "success"
                         /\ report # "out" => regraded = report
                         /\ BrittleFail(r, "constraints") = RegradedRejection(r, "none")
    BY DEF ReportsAgree
  <2> DEFINE r == Graded2(g, j2)
             base == Graded1(g, j1)
  <2>1. /\ r.grading_error => ~r.answer_pass
        /\ r.crashed => ~r.answer_pass /\ ~r.end_state_pass /\ ~r.constraints_pass
    <3> DEFINE run == Finished(variant, world2, phase2, fired2, reply2)
    <3>1. run.crashed \in BOOLEAN
      BY DEF Finished
    <3> HIDE DEF run
    <3> QED
      BY <3>1, GradedRow DEF Graded2, run
  <2>2. /\ base.grading_error => ~base.answer_pass
        /\ base.crashed => ~base.answer_pass /\ ~base.end_state_pass /\ ~base.constraints_pass
    <3> DEFINE run == Finished("baseline", world1, phase1, fired1, reply1)
    <3>1. run.crashed \in BOOLEAN
      BY DEF Finished
    <3> HIDE DEF run
    <3> QED
      BY <3>1, GradedRow DEF Graded1, run
  <2>3. RuleOk(r, "none") /\ RuleOk(base, "none")
    BY NoRule
  <2>4. "none" \notin MATCH_MODES /\ "three_artifact" \notin MATCH_MODES /\ "none" \in DOMAIN RULES
    BY DEF MATCH_MODES, RULES
  <2> HIDE DEF r, base
  <2>5. PassesWithRule(r, "none") <=> Passes(r, "three_artifact")
    BY <2>3, <2>4 DEF PassesWithRule, Passes
  <2>6. PassesWithRule(base, "none") <=> Passes(base, "three_artifact")
    BY <2>3, <2>4 DEF PassesWithRule, Passes
  <2>7. IndependentHarness(r, "none") <=> PassesWithRule(r, "none")
    BY <2>1, <2>3, <2>4 DEF PassesWithRule, IndependentHarness
  <2>8. IndependentHarness(base, "none") <=> PassesWithRule(base, "none")
    BY <2>2, <2>3, <2>4 DEF PassesWithRule, IndependentHarness
  <2>9. RegradedSurvival(r, base, "none") = IndependentSurvival(r, base, "none")
    BY <2>7, <2>8 DEF RegradedSurvival, IndependentSurvival, InRate
  <2>10. LET report   == ConditionalSurvival(r, base, "three_artifact")
             regraded == RegradedSurvival(r, base, "none")
         IN /\ regraded = "success" <=> report = "success"
            /\ report # "out" => regraded = report
    BY <2>1, <2>2, <2>5, <2>6 DEF RegradedSurvival, ConditionalSurvival, InRate, Kept, Passes
  <2>11. BrittleFail(r, "constraints") = RegradedRejection(r, "none")
    BY <2>1, <2>3 DEF BrittleFail, RegradedRejection, InRate, Kept, LayerOk
  <2> QED
    BY <2>9, <2>10, <2>11 DEF r, base
<1> QED
  BY <1>1, PTL

-----------------------------------------------------------------------------
(* What a grading accepts as an end: no refund, or one refund of one of some types at its amount, in  *)
(* a case whose order was found and is never repriced.                                               *)
PaidEnds(types, price) == {OneRefund(t, price) : t \in types}

LEMMA AuthoredEnds ==
  ASSUME NEW k, NEW o, NEW g \in Authored(k, o)
  PROVE  \/ g.end_states = {NoRefund}
         \/ /\ o # None /\ k.reprice = None
            /\ \E types \in SUBSET RefundTypes : \E price : g.end_states = PaidEnds(types, price)
<1>1. /\ NoIdCase.end_states = {NoRefund} /\ NotFoundCase.end_states = {NoRefund}
      /\ LookupFailureCase.end_states = {NoRefund}
  BY DEF NoIdCase, NotFoundCase, LookupFailureCase, StopsAtLookup
<1>2. /\ IneligibleCase.end_states = {NoRefund} /\ ChangedOrderCase.end_states = {NoRefund}
      /\ RefundFailureCase.end_states = {NoRefund}
  BY DEF IneligibleCase, ChangedOrderCase, RefundFailureCase, StopsAtCheck, Issues
<1>3. \A t, price, approval : \/ RefundCase(t, price, approval).end_states = {NoRefund}
                              \/ RefundCase(t, price, approval).end_states = PaidEnds({t}, price)
  <2> SUFFICES ASSUME NEW t, NEW price, NEW approval
               PROVE  \/ RefundCase(t, price, approval).end_states = {NoRefund}
                      \/ RefundCase(t, price, approval).end_states = PaidEnds({t}, price)
    OBVIOUS
  <2>1. PaidEnds({t}, price) = {OneRefund(t, price)}
    BY DEF PaidEnds
  <2>2. StopsAtCheck(CHECKED_PATH).end_states = {NoRefund}
    BY DEF StopsAtCheck
  <2>3. Issues({OneRefund(t, price)}, 1).end_states = {OneRefund(t, price)}
    BY DEF Issues
  <2> QED
    BY <2>1, <2>2, <2>3 DEF RefundCase
<1>4. \A types, price : MixedReasonCase(types, price).end_states = PaidEnds(types, price)
  BY DEF MixedReasonCase, Issues, PaidEnds
<1>5. CASE g \in {NoIdCase, NotFoundCase, IneligibleCase, LookupFailureCase, RefundFailureCase, ChangedOrderCase}
  BY <1>1, <1>2, <1>5
<1>6. CASE g \notin {NoIdCase, NotFoundCase, IneligibleCase, LookupFailureCase, RefundFailureCase, ChangedOrderCase}
  <2>1. /\ o # None /\ k.reprice = None
        /\ \E price : \/ \E t \in RefundTypes : g = RefundCase(t, price, k.approval)
                      \/ \E types \in SUBSET RefundTypes : g = MixedReasonCase(types, price)
    BY <1>6 DEF Authored
  <2>2. PICK price : \/ \E t \in RefundTypes : g = RefundCase(t, price, k.approval)
                     \/ \E types \in SUBSET RefundTypes : g = MixedReasonCase(types, price)
    BY <2>1
  <2>3. CASE \E t \in RefundTypes : g = RefundCase(t, price, k.approval)
    <3>1. PICK t \in RefundTypes : g = RefundCase(t, price, k.approval)
      BY <2>3
    <3>2. {t} \in SUBSET RefundTypes
      OBVIOUS
    <3>3. g.end_states = {NoRefund} \/ g.end_states = PaidEnds({t}, price)
      BY <1>3, <3>1
    <3> QED
      BY <2>1, <3>2, <3>3
  <2>4. CASE \E types \in SUBSET RefundTypes : g = MixedReasonCase(types, price)
    BY <1>4, <2>1, <2>4
  <2> QED
    BY <2>2, <2>3, <2>4
<1> QED
  BY <1>5, <1>6

(* A ledger ends as wanted without a refund when it is empty. *)
LEMMA EndsUnpaid ==
  ASSUME NEW rows
  PROVE  CheckEndState(rows, {NoRefund}) <=> Len(rows) = 0
BY DEF CheckEndState, Matches, NoRefund

(* It ends as wanted with one when it has one row, of an accepted type and of its amount. *)
LEMMA EndsPaid ==
  ASSUME NEW rows, NEW types, NEW price
  PROVE  CheckEndState(rows, PaidEnds(types, price))
           <=> Len(rows) = 1 /\ rows[1].type \in types /\ rows[1].amount = RefundAmount(rows[1].type, price)
<1>1. \A t : /\ OneRefund(t, price).refund_count = 1 /\ OneRefund(t, price).refund_type = t
             /\ OneRefund(t, price).amount = RefundAmount(t, price)
  BY DEF OneRefund
<1>2. 1 # 0
  OBVIOUS
<1>3. \A t : Matches(rows, OneRefund(t, price))
               <=> Len(rows) = 1 /\ rows[1].type = t /\ rows[1].amount = RefundAmount(t, price)
  BY <1>1, <1>2 DEF Matches
<1>4. CheckEndState(rows, PaidEnds(types, price)) <=> \E t \in types : Matches(rows, OneRefund(t, price))
  BY DEF CheckEndState, PaidEnds
<1> QED
  BY <1>3, <1>4

(* Where the order is never repriced and the baseline finds it, every variant that finds an order     *)
(* sees the same one.                                                                                 *)
LEMMA SeesTheSame ==
  ASSUME NEW v, NEW k, NEW c, Found("baseline", k, c)
  PROVE  Seen(v, k, c.order_id) = Seen("baseline", k, c.order_id)
<1>1. OwnRow(k, c.order_id) # None
  BY DEF Found, Seen, OwnRow
<1>2. SelectOrder(SeedWorld(k), c.order_id, v # "M3") = SelectOrder(SeedWorld(k), c.order_id, TRUE)
  BY <1>1 DEF SelectOrder, OwnRow
<1> QED
  BY <1>1, <1>2 DEF Seen, OwnRow

(* Two distinct accepted types make two acceptable ends. *)
LEMMA TwoEnds ==
  ASSUME NEW types \in SUBSET RefundTypes, NEW price, NEW t \in types, NEW u \in types, t # u
  PROVE  Cardinality(PaidEnds(types, price)) > 1
<1> DEFINE S == PaidEnds(types, price)
<1>1. \A x, y, z : IsFiniteSet({x, y, z})
  <2> SUFFICES ASSUME NEW x, NEW y, NEW z PROVE IsFiniteSet({x, y, z})
    OBVIOUS
  <2>1. IsFiniteSet({x})
    BY FS_Singleton
  <2>2. IsFiniteSet({x} \cup {y})
    BY <2>1, FS_AddElement
  <2>3. IsFiniteSet(({x} \cup {y}) \cup {z})
    BY <2>2, FS_AddElement
  <2>4. {x, y, z} = ({x} \cup {y}) \cup {z}
    OBVIOUS
  <2> QED
    BY <2>3, <2>4
<1>2. IsFiniteSet(S)
  <2> DEFINE all == {OneRefund("full", price), OneRefund("partial", price), OneRefund("store_credit", price)}
  <2>1. S \subseteq all
    BY DEF PaidEnds, RefundTypes
  <2>2. IsFiniteSet(all)
    BY <1>1
  <2> HIDE DEF S, all
  <2> QED
    BY <2>1, <2>2, FS_Subset
<1>3. OneRefund(t, price) # OneRefund(u, price)
  <2>1. OneRefund(t, price).refund_type = t /\ OneRefund(u, price).refund_type = u
    BY DEF OneRefund
  <2> QED
    BY <2>1
<1> DEFINE T == {OneRefund(t, price), OneRefund(u, price)}
<1>4. T \subseteq S
  BY DEF PaidEnds
<1>5. Cardinality(T) = 2
  <2> DEFINE x == OneRefund(t, price)
             y == OneRefund(u, price)
  <2> HIDE DEF x, y
  <2>1. IsFiniteSet({x}) /\ Cardinality({x}) = 1
    BY FS_Singleton
  <2>2. Cardinality({x} \cup {y}) = Cardinality({x}) + 1
    BY <1>3, <2>1, FS_AddElement DEF x, y
  <2>3. {x} \cup {y} = {x, y}
    OBVIOUS
  <2> QED
    BY <2>1, <2>2, <2>3 DEF x, y
<1> HIDE DEF S, T
<1>6. Cardinality(T) <= Cardinality(S) /\ Cardinality(S) \in Nat
  BY <1>2, <1>4, FS_Subset, FS_CardinalityType
<1> QED
  BY <1>5, <1>6 DEF S

(* A pair that pays differently, under a grading that accepts the baseline, fails its end state; only *)
(* M6's full refund can be one of several accepted.                                                   *)
LEMMA PaidApart ==
  ASSUME NEW v, NEW k, NEW r1, NEW r2, FinishedPair(v, k, r1, r2), NEW o, NEW g \in Authored(k, o),
         CheckEndState(r1.world.refunds, g.end_states), r2.world.refunds # r1.world.refunds
  PROVE  ~CheckEndState(r2.world.refunds, g.end_states) \/ (v = "M6" /\ Cardinality(g.end_states) > 1)
<1> DEFINE c == Class(r1.st)
           b == "baseline"
           t == r1.st.refund_type
           u == r2.st.refund_type
<1>1. /\ r1.world.refunds = IF Pays(b, k, c, t) THEN <<Paid(b, r1.st)>> ELSE << >>
      /\ r2.world.refunds = IF Pays(v, k, c, u) THEN <<Paid(v, r2.st)>> ELSE << >>
  BY Ledgers
<1>2. \A row : Len(<<row>>) = 1 /\ <<row>>[1] = row
  OBVIOUS
<1>3. Len(<< >>) = 0 /\ 0 # 1
  OBVIOUS
<1> DEFINE paid1 == Paid(b, r1.st)
           paid2 == Paid(v, r2.st)
<1> HIDE DEF paid1, paid2
<1>4. CASE g.end_states = {NoRefund}
  <2>1. Len(r1.world.refunds) = 0
    BY <1>4, EndsUnpaid
  <2>2. r1.world.refunds = << >>
    BY <1>1, <1>2, <1>3, <2>1
  <2>3. Len(r2.world.refunds) = 1
    BY <1>1, <1>2, <2>2
  <2> QED
    BY <1>3, <1>4, <2>3, EndsUnpaid
<1>5. CASE /\ o # None /\ k.reprice = None
           /\ \E types \in SUBSET RefundTypes : \E price : g.end_states = PaidEnds(types, price)
  <2>1. PICK types \in SUBSET RefundTypes : \E price : g.end_states = PaidEnds(types, price)
    BY <1>5
  <2>2. PICK price : g.end_states = PaidEnds(types, price)
    BY <2>1
  <2>3. /\ Len(r1.world.refunds) = 1 /\ r1.world.refunds[1].type \in types
        /\ r1.world.refunds[1].amount = RefundAmount(r1.world.refunds[1].type, price)
    BY <2>2, EndsPaid
  <2>4. Pays(b, k, c, t) /\ r1.world.refunds = <<paid1>>
    BY <1>1, <1>3, <2>3 DEF paid1
  <2>5. /\ paid1.type = t /\ paid1.order = r1.st.order_id /\ paid1.amount = r1.st.refund_amount
        /\ paid1 = [id |-> 1, order |-> r1.st.order_id, type |-> t, amount |-> r1.st.refund_amount]
    BY DEF paid1, Paid
  <2>6. t \in types /\ r1.st.refund_amount = RefundAmount(t, price)
    BY <1>2, <2>3, <2>4, <2>5
  <2> SUFFICES ASSUME CheckEndState(r2.world.refunds, g.end_states)
               PROVE  v = "M6" /\ Cardinality(g.end_states) > 1
    OBVIOUS
  <2>7. /\ Len(r2.world.refunds) = 1 /\ r2.world.refunds[1].type \in types
        /\ r2.world.refunds[1].amount = RefundAmount(r2.world.refunds[1].type, price)
    BY <2>2, EndsPaid
  <2>8. Pays(v, k, c, u) /\ r2.world.refunds = <<paid2>>
    BY <1>1, <1>3, <2>7 DEF paid2
  <2>9. paid2.type \in types /\ paid2.amount = RefundAmount(paid2.type, price)
    BY <1>2, <2>7, <2>8
  <2>10. Plans(b, k, c) /\ Found(b, k, c) /\ Plans(v, k, c) /\ Found(v, k, c)
    BY <2>4, <2>8, Ladder
  <2>11. Seen(v, k, c.order_id) = Seen(b, k, c.order_id)
    BY <2>10, SeesTheSame
  <2>12. u = t
    BY <2>10, <2>11, SamePlan
  <2>13. r2.st.order_id = r1.st.order_id
    BY DEF FinishedPair, Class
  <2>14. paid2 = [id |-> 1, order |-> r1.st.order_id, type |-> IF v = "M6" THEN "full" ELSE t, amount |-> r2.st.refund_amount]
    BY <2>12, <2>13 DEF paid2, Paid
  <2>15. paid2.type = (IF v = "M6" THEN "full" ELSE t) /\ paid2.amount = r2.st.refund_amount
    BY <2>14
  <2>16. paid2 # paid1
    BY <2>4, <2>8
  <2>17. ~(paid2.type = t /\ paid2.amount = r1.st.refund_amount)
    BY <2>5, <2>14, <2>15, <2>16
  <2>18. paid2.type # t
    BY <2>6, <2>9, <2>17
  <2>19. v = "M6" /\ paid2.type = "full" /\ t # "full"
    BY <2>15, <2>18
  <2> QED
    BY <2>2, <2>6, <2>9, <2>19, TwoEnds
<1> QED
  BY <1>4, <1>5, AuthoredEnds

(* B and M8 make the calls of the baseline. *)
LEMMA SpokenFaultsCall ==
  ASSUME NEW v \in {"B", "M8"}, NEW k, NEW c, NEW t
  PROVE  EndCalls(v, k, c, t) = EndCalls("baseline", k, c, t)
<1> DEFINE b == "baseline"
<1>1. SameCourse(v, k, c, t)
  BY Courses DEF ALIKE
<1>2. v \notin {"V1", "V2", "V3", "M2", "M3", "M7", "A", "C", "C1", "C2", "alt_history_early", "alt_recheck", "alt_verify"}
  OBVIOUS
<1>3. LookedCalls(v, k, c) = LookedCalls(b, k, c) /\ ReadCalls(v, k, c) = ReadCalls(b, k, c)
  BY <1>2 DEF LookedCalls, ReadCalls
<1>4. CheckedCalls(v, k, c) = CheckedCalls(b, k, c)
  BY <1>2 DEF CheckedCalls, Skips
<1>5. WriteCalls(v, k, c) = WriteCalls(b, k, c) /\ PlannedCalls(v, k, c) = PlannedCalls(b, k, c)
  BY <1>2, <1>4 DEF WriteCalls, PlannedCalls
<1>6. TriedCalls(v, k, c) = TriedCalls(b, k, c)
  BY <1>2, <1>5 DEF TriedCalls
<1>7. /\ Found(v, k, c) <=> Found(b, k, c)
      /\ Plans(v, k, c) <=> Plans(b, k, c)
      /\ Goes(v, k, c, t) <=> Goes(b, k, c, t)
      /\ Tries(v, k, c, t) <=> Tries(b, k, c, t)
  BY <1>1 DEF SameCourse
<1> QED
  BY <1>2, <1>3, <1>4, <1>5, <1>6, <1>7 DEF EndCalls

(* They leave the world of the baseline's run: what they say is all that is wrong with them. *)
LEMMA SpokenFaults ==
  ASSUME NEW v \in {"B", "M8"}, NEW k, NEW r1, NEW r2, FinishedPair(v, k, r1, r2)
  PROVE  r2.world.refunds = r1.world.refunds /\ r2.world.log = r1.world.log
<1> DEFINE c == Class(r1.st)
           t == r1.st.refund_type
<1>1. SameCourse(v, k, c, t)
  BY Courses DEF ALIKE
<1>2. r2.st = r1.st
  BY <1>1, SameEnds
<1>3. Pays(v, k, c, t) <=> Pays("baseline", k, c, t)
  BY <1>1 DEF SameCourse
<1>4. Paid(v, r1.st) = Paid("baseline", r1.st)
  BY DEF Paid
<1>5. r2.world.refunds = r1.world.refunds
  BY <1>2, <1>3, <1>4, Ledgers
<1>6. /\ r1.world.log = LogOf(k, EndCalls("baseline", k, c, t))
      /\ r2.world.log = LogOf(k, EndCalls(v, k, c, t))
  BY <1>2 DEF FinishedPair, Settled
<1> QED
  BY <1>5, <1>6, SpokenFaultsCall

(* A run that is over has said something. *)
LEMMA RepliesAreFacts ==
  ASSUME NEW v, NEW s \in RefundState
  PROVE  FactsOf(v, s) # None
<1> DEFINE false  == v = "B" /\ s.error # None /\ s.refund_amount # None /\ s.refund_id = None
           issued == false \/ s.refund_id # None
           price == IF s.order = None THEN None ELSE s.order.price
           ineligible == IF s.eligibility = "within policy" THEN None ELSE s.eligibility
           type == IF s.refund_amount = None THEN None ELSE s.refund_type
           amount == IF v = "M8" /\ s.refund_amount # None /\ s.order # None THEN s.order.price ELSE s.refund_amount
           status == IF issued THEN "issued" ELSE "not issued"
           error == IF issued THEN None ELSE s.error
           asked == s.order_id # None
           rejected == s.approval = "reject"
<1>1. /\ s.order \in OrderRow \cup {None} /\ s.eligibility \in Reasons \cup {None}
      /\ s.refund_type \in RefundTypes \cup {None} /\ s.refund_amount \in Nat \cup {None}
      /\ s.refund_id \in Nat \cup {None} /\ s.error \in Errors \cup {None}
  BY DEF RefundState
<1>2. s.order # None => s.order.price \in Nat
  BY <1>1 DEF OrderRow
<1>3. price \in Nat \cup {None} /\ ineligible \in Reasons \cup {None} /\ type \in RefundTypes \cup {None}
  BY <1>1, <1>2
<1>4. amount \in Nat \cup {None} /\ status \in {"issued", "not issued"} /\ error \in Errors \cup {None}
  BY <1>1, <1>2
<1>5. asked \in BOOLEAN /\ rejected \in BOOLEAN
  OBVIOUS
<1>6. FactsOf(v, s) = [has_order_id |-> asked, price |-> price, ineligible |-> ineligible, plan_type |-> type,
                       plan_amount |-> amount, rejected |-> rejected, status |-> status,
                       refund_id |-> s.refund_id, error |-> error]
  BY DEF FactsOf
<1> HIDE DEF price, ineligible, type, amount, status, error, asked, rejected
<1>7. FactsOf(v, s) \in Base!Facts
  <2>1. [has_order_id |-> asked, price |-> price, ineligible |-> ineligible, plan_type |-> type,
         plan_amount |-> amount, rejected |-> rejected, status |-> status,
         refund_id |-> s.refund_id, error |-> error] \in Base!Facts
    <3>1. Base!Reasons = Reasons /\ Base!RefundTypes = RefundTypes /\ Base!Errors = Errors
      BY DEF Base!Reasons, Reasons, Base!RefundTypes, RefundTypes, Base!Errors, Errors, Base!ToolNames, ToolNames
    <3>2. s.refund_id \in Nat \cup {None}
      BY <1>1
    <3> QED
      BY <1>3, <1>4, <1>5, <3>1, <3>2 DEF Base!Facts
  <2> QED
    BY <1>6, <2>1
<1> QED
  BY <1>7, ReplyAssumption

(* What the judge that endorses a reply says of it. *)
Endorses == IF Endorsed = None THEN FALSE ELSE Endorsed.strings /\ Endorsed.score >= JUDGE_PASS

(* What a grading says of a finished run that has replied, under that judge. *)
LEMMA GradedRun ==
  ASSUME NEW v, NEW w, NEW marks, NEW said, said # None, NEW g
  PROVE  LET r == GradeRun(Finished(v, w, "done", marks, said), g, Endorsed)
         IN /\ r.calls = Calls(w) /\ r.fired = marks /\ ~r.crashed
            /\ r.end_state_pass <=> CheckEndState(w.refunds, g.end_states)
            /\ r.constraints_pass <=> CheckConstraints(Calls(w), g)
            /\ r.mode_pass = [m \in MATCH_MODES |-> MatchTrajectory(Calls(w), g.reference, m)]
            /\ r.answer_pass <=> Endorses
<1> DEFINE run == Finished(v, w, "done", marks, said)
           answer == AnswerCheck(run.final, Endorsed)
           r == GradeRun(run, g, Endorsed)
<1>1. /\ run.variant = v /\ run.crashed = FALSE /\ run.refunds = w.refunds /\ run.calls = Calls(w)
      /\ run.fired = marks /\ run.final = said
  BY DEF Finished
<1>2. answer.answer_pass <=> Endorses
  <2>1. CASE Endorsed = None
    BY <1>1, <2>1 DEF AnswerCheck, Endorses
  <2>2. CASE Endorsed # None
    <3>1. answer.answer_pass = (Endorsed.strings /\ Endorsed.score >= JUDGE_PASS)
      BY <1>1, <2>2 DEF AnswerCheck
    <3> QED
      BY <2>2, <3>1 DEF Endorses
  <2> QED
    BY <2>1, <2>2
<1>3. /\ r.calls = run.calls /\ r.fired = run.fired /\ r.crashed = run.crashed
      /\ r.end_state_pass = (CheckEndState(run.refunds, g.end_states) /\ ~run.crashed)
      /\ r.constraints_pass = (CheckConstraints(run.calls, g) /\ ~run.crashed)
      /\ r.mode_pass = [m \in MATCH_MODES |-> MatchTrajectory(run.calls, g.reference, m)]
      /\ r.answer_pass = (answer.answer_pass /\ ~run.crashed)
  BY Zenon DEF GradeRun
<1> HIDE DEF run, answer, r
<1>4. /\ r.calls = Calls(w) /\ r.fired = marks /\ ~r.crashed
      /\ r.mode_pass = [m \in MATCH_MODES |-> MatchTrajectory(Calls(w), g.reference, m)]
  BY <1>1, <1>3, Zenon
<1>5. r.end_state_pass <=> CheckEndState(w.refunds, g.end_states)
  BY <1>1, <1>3, Zenon
<1>6. r.constraints_pass <=> CheckConstraints(Calls(w), g)
  BY <1>1, <1>3, Zenon
<1>7. r.answer_pass <=> Endorses
  BY <1>1, <1>2, <1>3, Zenon
<1> QED
  BY <1>4, <1>5, <1>6, <1>7 DEF r, run

(* The two runs of a finished pair as the grading of the pair sees them. *)
LEMMA PairGraded ==
  ASSUME PairInv, BothDone, NEW g
  PROVE  LET r == Graded2(g, Endorsed)
             base == Graded1(g, Endorsed)
         IN /\ r.calls = Calls(world2) /\ base.calls = Calls(world1)
            /\ r.fired = fired2 /\ ~r.crashed /\ ~base.crashed
            /\ r.end_state_pass <=> CheckEndState(world2.refunds, g.end_states)
            /\ base.end_state_pass <=> CheckEndState(world1.refunds, g.end_states)
            /\ r.constraints_pass <=> CheckConstraints(Calls(world2), g)
            /\ base.constraints_pass <=> CheckConstraints(Calls(world1), g)
            /\ r.mode_pass = [m \in MATCH_MODES |-> MatchTrajectory(Calls(world2), g.reference, m)]
            /\ base.mode_pass = [m \in MATCH_MODES |-> MatchTrajectory(Calls(world1), g.reference, m)]
            /\ r.answer_pass <=> Endorses
            /\ base.answer_pass <=> Endorses
<1>1. FinishedPair(variant, case, Run1, Run2)
  BY PairEnds
<1>2. reply1 = Run1.reply /\ reply2 = Run2.reply
  BY DEF Run1, Run2, RunOf
<1>3. Run1.st \in RefundState /\ Run2.st \in RefundState
  BY <1>1 DEF FinishedPair, Typed
<1>4. reply1 # None /\ reply2 # None
  BY <1>1, <1>2, <1>3, RepliesAreFacts DEF FinishedPair
<1>5. phase1 = "done" /\ phase2 = "done"
  BY DEF BothDone
<1>6. LET base == Graded1(g, Endorsed)
      IN /\ base.calls = Calls(world1) /\ ~base.crashed
         /\ base.end_state_pass <=> CheckEndState(world1.refunds, g.end_states)
         /\ base.constraints_pass <=> CheckConstraints(Calls(world1), g)
         /\ base.mode_pass = [m \in MATCH_MODES |-> MatchTrajectory(Calls(world1), g.reference, m)]
         /\ base.answer_pass <=> Endorses
  <2> DEFINE base == GradeRun(Finished("baseline", world1, "done", fired1, reply1), g, Endorsed)
  <2>1. Graded1(g, Endorsed) = base
    BY <1>5 DEF Graded1
  <2>2. /\ base.calls = Calls(world1) /\ base.fired = fired1 /\ ~base.crashed
        /\ base.end_state_pass <=> CheckEndState(world1.refunds, g.end_states)
        /\ base.constraints_pass <=> CheckConstraints(Calls(world1), g)
        /\ base.mode_pass = [m \in MATCH_MODES |-> MatchTrajectory(Calls(world1), g.reference, m)]
        /\ base.answer_pass <=> Endorses
    BY <1>4, GradedRun
  <2> HIDE DEF base
  <2> QED
    BY <2>1, <2>2
<1>7. LET r == Graded2(g, Endorsed)
      IN /\ r.calls = Calls(world2) /\ r.fired = fired2 /\ ~r.crashed
         /\ r.end_state_pass <=> CheckEndState(world2.refunds, g.end_states)
         /\ r.constraints_pass <=> CheckConstraints(Calls(world2), g)
         /\ r.mode_pass = [m \in MATCH_MODES |-> MatchTrajectory(Calls(world2), g.reference, m)]
         /\ r.answer_pass <=> Endorses
  <2> DEFINE r == GradeRun(Finished(variant, world2, "done", fired2, reply2), g, Endorsed)
  <2>1. Graded2(g, Endorsed) = r
    BY <1>5 DEF Graded2
  <2>2. /\ r.calls = Calls(world2) /\ r.fired = fired2 /\ ~r.crashed
        /\ r.end_state_pass <=> CheckEndState(world2.refunds, g.end_states)
        /\ r.constraints_pass <=> CheckConstraints(Calls(world2), g)
        /\ r.mode_pass = [m \in MATCH_MODES |-> MatchTrajectory(Calls(world2), g.reference, m)]
        /\ r.answer_pass <=> Endorses
    BY <1>4, GradedRun
  <2> HIDE DEF r
  <2> QED
    BY <2>1, <2>2
<1> QED
  BY <1>6, <1>7

(* Nothing tells two runs apart that leave the same world and both reply. *)
LEMMA PassAlike ==
  ASSUME NEW r, NEW base, NEW name,
         r.crashed <=> base.crashed, r.answer_pass <=> base.answer_pass, r.end_state_pass <=> base.end_state_pass,
         r.constraints_pass <=> base.constraints_pass, r.mode_pass = base.mode_pass
  PROVE  Passes(r, name) <=> Passes(base, name)
BY DEF Passes

(* The end state catches every mutant on the runs where it changes what is paid, but for M6's full    *)
(* refund where a mixed-reason case accepts it; B and M8 pass every harness the baseline passes       *)
(* (docs/part-1.2-preregistration.md, expectation 4).                                                 *)
THEOREM EndStateCatches == PairSpec => []OutcomeFaultsCaught
<1>1. PairInv => OutcomeFaultsCaught
  <2> SUFFICES ASSUME PairInv, BothDone, NEW g \in Gradings
               PROVE  LET r == Graded2(g, Endorsed)
                          base == Graded1(g, Endorsed)
                      IN base.end_state_pass =>
                         /\ world2.refunds # world1.refunds =>
                              ~r.end_state_pass \/ (variant = "M6" /\ Cardinality(g.end_states) > 1)
                         /\ variant \in {"B", "M8"} =>
                              \A name \in MATCH_MODES \cup {"three_artifact"} : Passes(r, name) <=> Passes(base, name)
    BY DEF OutcomeFaultsCaught
  <2> DEFINE r == Graded2(g, Endorsed)
             base == Graded1(g, Endorsed)
  <2>1. FinishedPair(variant, case, Run1, Run2)
    BY PairEnds
  <2>2. Run1.world = world1 /\ Run2.world = world2 /\ g \in Authored(case, st2.order_id)
    BY DEF Run1, Run2, RunOf, Gradings
  <2>3. /\ r.calls = Calls(world2) /\ base.calls = Calls(world1)
        /\ ~r.crashed /\ ~base.crashed
        /\ r.end_state_pass <=> CheckEndState(world2.refunds, g.end_states)
        /\ base.end_state_pass <=> CheckEndState(world1.refunds, g.end_states)
        /\ r.constraints_pass <=> CheckConstraints(Calls(world2), g)
        /\ base.constraints_pass <=> CheckConstraints(Calls(world1), g)
        /\ r.mode_pass = [m \in MATCH_MODES |-> MatchTrajectory(Calls(world2), g.reference, m)]
        /\ base.mode_pass = [m \in MATCH_MODES |-> MatchTrajectory(Calls(world1), g.reference, m)]
        /\ r.answer_pass <=> Endorses
        /\ base.answer_pass <=> Endorses
    BY PairGraded
  <2> HIDE DEF r, base
  <2>4. ASSUME base.end_state_pass, world2.refunds # world1.refunds
        PROVE  ~r.end_state_pass \/ (variant = "M6" /\ Cardinality(g.end_states) > 1)
    <3>1. CheckEndState(Run1.world.refunds, g.end_states) /\ Run2.world.refunds # Run1.world.refunds
      BY <2>2, <2>3, <2>4
    <3>2. ~CheckEndState(Run2.world.refunds, g.end_states) \/ (variant = "M6" /\ Cardinality(g.end_states) > 1)
      BY <2>1, <2>2, <3>1, PaidApart
    <3> QED
      BY <2>2, <2>3, <3>2
  <2>5. ASSUME variant \in {"B", "M8"}, NEW name
        PROVE  Passes(r, name) <=> Passes(base, name)
    <3>1. world2.refunds = world1.refunds /\ world2.log = world1.log
      BY <2>1, <2>2, <2>5, SpokenFaults
    <3>2. Calls(world2) = Calls(world1)
      BY <3>1 DEF Calls
    <3> QED
      BY <2>3, <3>1, <3>2, PassAlike
  <2> QED
    BY <2>4, <2>5 DEF r, base
<1> QED
  BY <1>1, RunsAreAsTabled, PTL

-----------------------------------------------------------------------------
(* What the trajectory checks ask of a list of calls, as it grows by a call: how often each tool is    *)
(* called, what comes before what, and which reads are repeated.                                       *)
LEMMA AppendElements ==
  ASSUME NEW l \in Seq(ToolNames), NEW x \in ToolNames
  PROVE  LET m == Append(l, x)
             n == Len(l)
         IN /\ m \in Seq(ToolNames) /\ n \in Nat /\ Len(m) = n + 1 /\ m[n + 1] = x
            /\ DOMAIN l = 1..n /\ DOMAIN m = 1..(n + 1)
            /\ \A i \in 1..n : m[i] = l[i] /\ l[i] \in ToolNames
  OBVIOUS

(* One call more. *)
LEMMA CountAppend ==
  ASSUME NEW l \in Seq(ToolNames), NEW x \in ToolNames, NEW tool
  PROVE  /\ Count(l, tool) \in Nat
         /\ Count(Append(l, x), tool) = IF x = tool THEN Count(l, tool) + 1 ELSE Count(l, tool)
<1> DEFINE m == Append(l, x)
           n == Len(l)
           S == {i \in DOMAIN l : l[i] = tool}
           T == {i \in DOMAIN m : m[i] = tool}
<1>1. /\ n \in Nat /\ m[n + 1] = x /\ DOMAIN l = 1..n /\ DOMAIN m = 1..(n + 1)
      /\ \A i \in 1..n : m[i] = l[i]
  BY AppendElements
<1> HIDE DEF m
<1>2. IsFiniteSet(S) /\ Cardinality(S) \in Nat
  <2>1. IsFiniteSet(1..n)
    BY <1>1, FS_Interval
  <2>2. S \subseteq 1..n
    BY <1>1
  <2> HIDE DEF S
  <2> QED
    BY <2>1, <2>2, FS_Subset, FS_CardinalityType
<1>3. n + 1 \notin S
  BY <1>1
<1>4. T = IF x = tool THEN S \cup {n + 1} ELSE S
  <2>1. 1..(n + 1) = (1..n) \cup {n + 1} /\ n + 1 \notin 1..n
    BY <1>1
  <2> QED
    BY <1>1, <2>1
<1>5. Cardinality(S \cup {n + 1}) = Cardinality(S) + 1
  BY <1>2, <1>3, FS_AddElement
<1>6. Cardinality(T) = IF x = tool THEN Cardinality(S) + 1 ELSE Cardinality(S)
  BY <1>4, <1>5
<1> QED
  BY <1>2, <1>6 DEF Count, m

(* No calls. *)
LEMMA CountNone ==
  ASSUME NEW tool
  PROVE  Count(<< >>, tool) = 0
<1>1. {i \in DOMAIN << >> : << >>[i] = tool} = {}
  OBVIOUS
<1> QED
  BY <1>1, FS_EmptySet DEF Count

(* A tool is among the names of a list when the list calls it. *)
LEMMA NamesCount ==
  ASSUME NEW l \in Seq(ToolNames), NEW tool
  PROVE  Count(l, tool) \in Nat /\ (tool \in Names(l) <=> Count(l, tool) >= 1) /\ Names(l) \subseteq ToolNames
<1> DEFINE S == {i \in DOMAIN l : l[i] = tool}
<1>1. DOMAIN l = 1..Len(l) /\ Len(l) \in Nat /\ \A i \in DOMAIN l : l[i] \in ToolNames
  OBVIOUS
<1>2. IsFiniteSet(S) /\ Cardinality(S) \in Nat
  <2>1. IsFiniteSet(1..Len(l))
    BY <1>1, FS_Interval
  <2>2. S \subseteq 1..Len(l)
    BY <1>1
  <2> HIDE DEF S
  <2> QED
    BY <2>1, <2>2, FS_Subset, FS_CardinalityType
<1>3. tool \in Names(l) <=> S # {}
  BY DEF Names
<1>4. Cardinality(S) = 0 <=> S = {}
  <2> HIDE DEF S
  <2> QED
    BY <1>2, FS_EmptySet
<1>5. Cardinality(S) # 0 <=> Cardinality(S) >= 1
  <2> HIDE DEF S
  <2> QED
    BY <1>2
<1>6. Names(l) \subseteq ToolNames
  BY <1>1 DEF Names
<1> QED
  BY <1>2, <1>3, <1>4, <1>5, <1>6 DEF Count

(* One tool comes before another in a list with one call more, if it did, and comes before that call.  *)
LEMMA PrecedesAppend ==
  ASSUME NEW l \in Seq(ToolNames), NEW x \in ToolNames, NEW b, NEW a
  PROVE  Precedes(Append(l, x), b, a) <=> Precedes(l, b, a) /\ (x = a => Count(l, b) >= 1)
<1> DEFINE m == Append(l, x)
           n == Len(l)
<1>1. /\ n \in Nat /\ m[n + 1] = x /\ DOMAIN l = 1..n /\ DOMAIN m = 1..(n + 1)
      /\ \A i \in 1..n : m[i] = l[i]
  BY AppendElements
<1> HIDE DEF m
<1>2. b \in Names(l) <=> \E i \in 1..n : l[i] = b
  BY <1>1 DEF Names
<1>3. 1..(n + 1) = (1..n) \cup {n + 1} /\ (n + 1) - 1 = n
  BY <1>1
<1>4. \A j \in 1..n : (\E i \in 1..(j - 1) : m[i] = b) <=> (\E i \in 1..(j - 1) : l[i] = b)
  BY <1>1
<1>5. (\E i \in 1..((n + 1) - 1) : m[i] = b) <=> b \in Names(l)
  BY <1>1, <1>2, <1>3
<1>6. Precedes(m, b, a) <=> /\ \A j \in 1..n : m[j] = a => \E i \in 1..(j - 1) : m[i] = b
                            /\ m[n + 1] = a => \E i \in 1..((n + 1) - 1) : m[i] = b
  BY <1>1, <1>3 DEF Precedes
<1>7. Precedes(l, b, a) <=> \A j \in 1..n : l[j] = a => \E i \in 1..(j - 1) : l[i] = b
  BY <1>1 DEF Precedes
<1>8. Precedes(m, b, a) <=> Precedes(l, b, a) /\ (x = a => b \in Names(l))
  BY <1>1, <1>4, <1>5, <1>6, <1>7
<1> QED
  BY <1>8, NamesCount DEF m

(* The last call is one of a tool already called. *)
LastRepeats(l, tools) == Len(l) >= 1 /\ l[Len(l)] \in tools /\ \E j \in 1..(Len(l) - 1) : l[j] = l[Len(l)]

(* No read is repeated but before a refund, if that call is not the last one. *)
LEMMA RepeatsAppend ==
  ASSUME NEW l \in Seq(ToolNames), NEW x \in ToolNames, NEW tools
  PROVE  LET m == Append(l, x)
         IN /\ LastRepeats(m, tools) <=> x \in tools /\ Count(l, x) >= 1
            /\ RepeatsOnlyBeforeRefund(m, tools, TRUE)
                 <=> RepeatsOnlyBeforeRefund(l, tools, TRUE) /\ (LastRepeats(l, tools) => x = Issue)
<1> DEFINE m == Append(l, x)
           n == Len(l)
           Repeats1(s, i) == s[i] \in tools /\ \E j \in 1..(i - 1) : s[j] = s[i]
<1>1. /\ n \in Nat /\ m[n + 1] = x /\ DOMAIN l = 1..n /\ DOMAIN m = 1..(n + 1) /\ Len(m) = n + 1
      /\ \A i \in 1..n : m[i] = l[i]
  BY AppendElements
<1> HIDE DEF m
<1>2. x \in Names(l) <=> \E i \in 1..n : l[i] = x
  BY <1>1 DEF Names
<1>3. 1..(n + 1) = (1..n) \cup {n + 1} /\ (n + 1) - 1 = n /\ n + 1 >= 1
  BY <1>1
<1>4. \A i \in 1..n : Repeats1(m, i) <=> Repeats1(l, i)
  BY <1>1
<1>5. LastRepeats(m, tools) <=> x \in tools /\ \E j \in 1..n : m[j] = x
  BY <1>1, <1>3 DEF LastRepeats
<1>6. LastRepeats(m, tools) <=> x \in tools /\ Count(l, x) >= 1
  BY <1>1, <1>2, <1>5, NamesCount
<1>7. LastRepeats(l, tools) <=> n >= 1 /\ Repeats1(l, n)
  BY <1>1 DEF LastRepeats
<1>8. RepeatsOnlyBeforeRefund(m, tools, TRUE) <=> \A i \in 1..n : Repeats1(m, i) => m[i + 1] = Issue
  <2>1. RepeatsOnlyBeforeRefund(m, tools, TRUE)
          <=> \A i \in 1..(n + 1) : Repeats1(m, i) => IF i = n + 1 THEN TRUE ELSE m[i + 1] = Issue
    BY <1>1 DEF RepeatsOnlyBeforeRefund, Issue
  <2>2. \A i \in 1..n : i # n + 1
    BY <1>1
  <2> HIDE DEF Repeats1
  <2> QED
    BY <1>3, <2>1, <2>2
<1>9. RepeatsOnlyBeforeRefund(l, tools, TRUE) <=> \A i \in 1..n : Repeats1(l, i) => IF i = n THEN TRUE ELSE l[i + 1] = Issue
  BY <1>1 DEF RepeatsOnlyBeforeRefund, Issue
<1> HIDE DEF Repeats1
<1>10. \A i \in 1..n : i # n => i + 1 \in 1..n /\ m[i + 1] = l[i + 1]
  <2> SUFFICES ASSUME NEW i \in 1..n, i # n PROVE i + 1 \in 1..n /\ m[i + 1] = l[i + 1]
    OBVIOUS
  <2>1. i + 1 \in 1..n
    <3>1. \A p \in Nat : \A j \in 1..p : j # p => j + 1 \in 1..p
      OBVIOUS
    <3> QED
      BY <1>1, <3>1
  <2> QED
    BY <1>1, <2>1
<1>11. n >= 1 => n \in 1..n /\ m[n + 1] = x
  BY <1>1
<1>12. RepeatsOnlyBeforeRefund(m, tools, TRUE)
         <=> RepeatsOnlyBeforeRefund(l, tools, TRUE) /\ (LastRepeats(l, tools) => x = Issue)
  <2>1. ASSUME RepeatsOnlyBeforeRefund(m, tools, TRUE)
        PROVE  RepeatsOnlyBeforeRefund(l, tools, TRUE) /\ (LastRepeats(l, tools) => x = Issue)
    <3>1. \A i \in 1..n : Repeats1(l, i) => m[i + 1] = Issue
      BY <1>4, <1>8, <2>1
    <3>2. RepeatsOnlyBeforeRefund(l, tools, TRUE)
      BY <1>9, <1>10, <3>1
    <3>3. LastRepeats(l, tools) => x = Issue
      BY <1>7, <1>11, <3>1
    <3> QED
      BY <3>2, <3>3
  <2>2. ASSUME RepeatsOnlyBeforeRefund(l, tools, TRUE), LastRepeats(l, tools) => x = Issue
        PROVE  RepeatsOnlyBeforeRefund(m, tools, TRUE)
    <3> SUFFICES ASSUME NEW i \in 1..n, Repeats1(l, i) PROVE m[i + 1] = Issue
      BY <1>4, <1>8
    <3>1. CASE i = n
      <4>1. n >= 1 /\ Repeats1(l, n)
        BY <1>1, <3>1
      <4> QED
        BY <1>7, <1>11, <2>2, <3>1, <4>1
    <3>2. CASE i # n
      BY <1>9, <1>10, <2>2, <3>2
    <3> QED
      BY <3>1, <3>2
  <2> QED
    BY <2>1, <2>2
<1> QED
  BY <1>6, <1>12 DEF m

(* Where the last call may not be a repeat either. *)
LEMMA RepeatsLastToo ==
  ASSUME NEW l \in Seq(ToolNames), NEW tools
  PROVE  RepeatsOnlyBeforeRefund(l, tools, FALSE) <=> RepeatsOnlyBeforeRefund(l, tools, TRUE) /\ ~LastRepeats(l, tools)
<1> DEFINE n == Len(l)
           Repeats1(i) == l[i] \in tools /\ \E j \in 1..(i - 1) : l[j] = l[i]
<1>1. DOMAIN l = 1..n /\ n \in Nat
  OBVIOUS
<1>2. \A last \in BOOLEAN : RepeatsOnlyBeforeRefund(l, tools, last)
                              <=> \A i \in 1..n : Repeats1(i) => IF i = n THEN last ELSE l[i + 1] = Issue
  BY <1>1 DEF RepeatsOnlyBeforeRefund, Issue
<1>3. LastRepeats(l, tools) <=> n >= 1 /\ Repeats1(n)
  BY <1>1 DEF LastRepeats
<1> HIDE DEF Repeats1
<1>4. n >= 1 <=> n \in 1..n
  BY <1>1
<1> QED
  BY <1>2, <1>3, <1>4

(* List l has so many lookups, history reads, checks and writes. *)
Counted(l, a, b, d, e) ==
  /\ l \in Seq(ToolNames) /\ a \in Nat /\ b \in Nat /\ d \in Nat /\ e \in Nat
  /\ Count(l, Lookup) = a /\ Count(l, History) = b /\ Count(l, Check) = d /\ Count(l, Issue) = e

(* The four tools are all there are, and four different ones. *)
LEMMA FourNames ==
  /\ ToolNames = {Lookup, History, Check, Issue}
  /\ Lookup # History /\ Lookup # Check /\ Lookup # Issue /\ History # Check /\ History # Issue /\ Check # Issue
BY DEF ToolNames, Lookup, History, Check, Issue

(* Every list of calls has such counts, and the empty one none. *)
LEMMA CountedStart ==
  Counted(<< >>, 0, 0, 0, 0)
<1>1. << >> \in Seq(ToolNames)
  OBVIOUS
<1> QED
  BY <1>1, CountNone DEF Counted

(* One call more, counted. *)
LEMMA CountedAppend ==
  ASSUME NEW l, NEW a, NEW b, NEW d, NEW e, Counted(l, a, b, d, e)
  PROVE  /\ Counted(Append(l, Lookup), a + 1, b, d, e) /\ Counted(Append(l, History), a, b + 1, d, e)
         /\ Counted(Append(l, Check), a, b, d + 1, e) /\ Counted(Append(l, Issue), a, b, d, e + 1)
<1>1. /\ l \in Seq(ToolNames) /\ a \in Nat /\ b \in Nat /\ d \in Nat /\ e \in Nat
      /\ Count(l, Lookup) = a /\ Count(l, History) = b /\ Count(l, Check) = d /\ Count(l, Issue) = e
  BY DEF Counted
<1>2. \A x \in ToolNames : Append(l, x) \in Seq(ToolNames)
  BY <1>1, AppendElements
<1>3. \A x \in ToolNames : \A tool : Count(Append(l, x), tool) = IF x = tool THEN Count(l, tool) + 1 ELSE Count(l, tool)
  BY <1>1, CountAppend
<1>4. a + 1 \in Nat /\ b + 1 \in Nat /\ d + 1 \in Nat /\ e + 1 \in Nat
  BY <1>1
<1>5. Counted(Append(l, Lookup), a + 1, b, d, e)
  BY <1>1, <1>2, <1>3, <1>4, FourTools, FourNames DEF Counted
<1>6. Counted(Append(l, History), a, b + 1, d, e)
  BY <1>1, <1>2, <1>3, <1>4, FourTools, FourNames DEF Counted
<1>7. Counted(Append(l, Check), a, b, d + 1, e)
  BY <1>1, <1>2, <1>3, <1>4, FourTools, FourNames DEF Counted
<1>8. Counted(Append(l, Issue), a, b, d, e + 1)
  BY <1>1, <1>2, <1>3, <1>4, FourTools, FourNames DEF Counted
<1> QED
  BY <1>5, <1>6, <1>7, <1>8

(* The order every grading beyond the lookup asks for. *)
Ordered(l) == Precedes(l, Lookup, Check) /\ Precedes(l, History, Check) /\ Precedes(l, Check, Issue)

(* The check once the order and the history are read, the write once the check is done. *)
LEMMA OrderedAppend ==
  ASSUME NEW l, NEW a, NEW b, NEW d, NEW e, Counted(l, a, b, d, e)
  PROVE  /\ Ordered(Append(l, Lookup)) <=> Ordered(l)
         /\ Ordered(Append(l, History)) <=> Ordered(l)
         /\ Ordered(Append(l, Check)) <=> Ordered(l) /\ a >= 1 /\ b >= 1
         /\ Ordered(Append(l, Issue)) <=> Ordered(l) /\ d >= 1
<1>1. /\ l \in Seq(ToolNames) /\ Count(l, Lookup) = a /\ Count(l, History) = b /\ Count(l, Check) = d
  BY DEF Counted
<1>2. \A x \in ToolNames : \A p, q : Precedes(Append(l, x), p, q) <=> Precedes(l, p, q) /\ (x = q => Count(l, p) >= 1)
  BY <1>1, PrecedesAppend
<1>3. Ordered(Append(l, Lookup)) <=> Ordered(l)
  BY <1>2, FourTools, FourNames DEF Ordered
<1>4. Ordered(Append(l, History)) <=> Ordered(l)
  BY <1>2, FourTools, FourNames DEF Ordered
<1>5. Ordered(Append(l, Check)) <=> Ordered(l) /\ a >= 1 /\ b >= 1
  <2>1. /\ Precedes(Append(l, Check), Lookup, Check) <=> Precedes(l, Lookup, Check) /\ a >= 1
        /\ Precedes(Append(l, Check), History, Check) <=> Precedes(l, History, Check) /\ b >= 1
        /\ Precedes(Append(l, Check), Check, Issue) <=> Precedes(l, Check, Issue)
    BY <1>1, <1>2, FourTools, FourNames
  <2> QED
    BY <2>1 DEF Ordered
<1>6. Ordered(Append(l, Issue)) <=> Ordered(l) /\ d >= 1
  <2>1. /\ Precedes(Append(l, Issue), Lookup, Check) <=> Precedes(l, Lookup, Check)
        /\ Precedes(Append(l, Issue), History, Check) <=> Precedes(l, History, Check)
        /\ Precedes(Append(l, Issue), Check, Issue) <=> Precedes(l, Check, Issue) /\ d >= 1
    BY <1>1, <1>2, FourTools, FourNames
  <2> QED
    BY <2>1 DEF Ordered
<1> QED
  BY <1>3, <1>4, <1>5, <1>6

(* Nothing is out of order where nothing is called. *)
LEMMA OrderedStart ==
  Ordered(<< >>)
<1>1. \A p, q : Precedes(<< >>, p, q)
  BY DEF Precedes
<1> QED
  BY <1>1 DEF Ordered

(* One list holds another, tool by tool. *)
LEMMA WithinCounts ==
  ASSUME NEW few, NEW many, NEW a, NEW b, NEW d, NEW e, NEW f, NEW g, NEW h, NEW i,
         Counted(few, a, b, d, e), Counted(many, f, g, h, i)
  PROVE  Within(few, many) <=> a <= f /\ b <= g /\ d <= h /\ e <= i
<1>1. /\ few \in Seq(ToolNames) /\ a \in Nat /\ b \in Nat /\ d \in Nat /\ e \in Nat
      /\ Count(few, Lookup) = a /\ Count(few, History) = b /\ Count(few, Check) = d /\ Count(few, Issue) = e
  BY DEF Counted
<1>2. /\ many \in Seq(ToolNames) /\ f \in Nat /\ g \in Nat /\ h \in Nat /\ i \in Nat
      /\ Count(many, Lookup) = f /\ Count(many, History) = g /\ Count(many, Check) = h /\ Count(many, Issue) = i
  BY DEF Counted
<1>3. \A tool : tool \in Names(few) <=> tool \in ToolNames /\ Count(few, tool) >= 1
  BY <1>1, NamesCount
<1>4. \A tool \in ToolNames : Count(many, tool) \in Nat /\ Count(few, tool) \in Nat
  BY <1>1, <1>2, NamesCount
<1>5. Within(few, many) <=> \A tool \in ToolNames : Count(few, tool) <= Count(many, tool)
  <2>1. ASSUME Within(few, many), NEW tool \in ToolNames PROVE Count(few, tool) <= Count(many, tool)
    <3>1. CASE tool \in Names(few)
      BY <2>1, <3>1 DEF Within
    <3>2. CASE tool \notin Names(few)
      BY <1>3, <1>4, <3>2
    <3> QED
      BY <3>1, <3>2
  <2>2. ASSUME \A tool \in ToolNames : Count(few, tool) <= Count(many, tool) PROVE Within(few, many)
    BY <1>3, <2>2 DEF Within
  <2> QED
    BY <2>1, <2>2
<1> QED
  BY <1>1, <1>2, <1>5, FourNames

(* What the constraints of each kind of case ask of a list. *)
LEMMA ConstraintsCounted ==
  ASSUME NEW l, NEW a, NEW b, NEW d, NEW e, Counted(l, a, b, d, e)
  PROVE  /\ CheckConstraints(l, NoIdCase) <=> d = 0 /\ e = 0
         /\ CheckConstraints(l, NotFoundCase) <=> a >= 1 /\ d = 0 /\ e = 0
         /\ \A path : CheckConstraints(l, StopsAtCheck(path)) <=> a \in 1..2 /\ d >= 1 /\ e = 0 /\ Ordered(l)
         /\ \A ends : \A n \in Nat : CheckConstraints(l, Issues(ends, n))
                                       <=> a \in 1..2 /\ d >= 1 /\ e \in 1..n /\ Ordered(l)
<1>1. /\ l \in Seq(ToolNames) /\ a \in Nat /\ b \in Nat /\ d \in Nat /\ e \in Nat
      /\ Count(l, Lookup) = a /\ Count(l, History) = b /\ Count(l, Check) = d /\ Count(l, Issue) = e
  BY DEF Counted
<1>2. /\ Lookup \in Names(l) <=> a >= 1
      /\ Check \in Names(l) <=> d >= 1
      /\ Issue \in Names(l) <=> e >= 1
  BY <1>1, NamesCount
<1>3. (Check \notin Names(l) <=> d = 0) /\ (Issue \notin Names(l) <=> e = 0)
  BY <1>1, <1>2
<1>4. (\A pair \in ORDERING : Precedes(l, pair[1], pair[2])) <=> Ordered(l)
  <2>1. ORDERING = {<<Lookup, Check>>, <<History, Check>>, <<Check, Issue>>}
    BY DEF ORDERING, Lookup, History, Check, Issue
  <2>2. \A p, q : <<p, q>>[1] = p /\ <<p, q>>[2] = q
    OBVIOUS
  <2> QED
    BY <2>1, <2>2 DEF Ordered
<1>5. \A S : (S \cap {Check, Issue}) = (IF Check \in S THEN {Check} ELSE {}) \cup (IF Issue \in S THEN {Issue} ELSE {})
  OBVIOUS
<1>6. CheckConstraints(l, NoIdCase) <=> d = 0 /\ e = 0
  <2> DEFINE g == NoIdCase
  <2>1. g.required = {} /\ g.forbidden = {Check, Issue} /\ g.ordering = {} /\ g.max_calls = << >>
    BY DEF NoIdCase, StopsAtLookup, Check, Issue
  <2>2. DOMAIN << >> = {}
    OBVIOUS
  <2>3. {Check, Issue} \cap Names(l) = {} <=> Check \notin Names(l) /\ Issue \notin Names(l)
    OBVIOUS
  <2> HIDE DEF g
  <2>4. CheckConstraints(l, g) <=> {Check, Issue} \cap Names(l) = {}
    BY <2>1, <2>2 DEF CheckConstraints
  <2> QED
    BY <1>3, <2>3, <2>4 DEF g
<1>7. CheckConstraints(l, NotFoundCase) <=> a >= 1 /\ d = 0 /\ e = 0
  <2> DEFINE g == NotFoundCase
  <2>1. g.required = {Lookup} /\ g.forbidden = {Check, Issue} /\ g.ordering = {} /\ g.max_calls = << >>
    BY DEF NotFoundCase, StopsAtLookup, Lookup, Check, Issue
  <2>2. DOMAIN << >> = {}
    OBVIOUS
  <2>3. {Check, Issue} \cap Names(l) = {} <=> Check \notin Names(l) /\ Issue \notin Names(l)
    OBVIOUS
  <2> HIDE DEF g
  <2>4. CheckConstraints(l, g) <=> Lookup \in Names(l) /\ {Check, Issue} \cap Names(l) = {}
    BY <2>1, <2>2 DEF CheckConstraints
  <2> QED
    BY <1>2, <1>3, <2>3, <2>4 DEF g
<1>8. ASSUME NEW path
      PROVE  CheckConstraints(l, StopsAtCheck(path)) <=> a \in 1..2 /\ d >= 1 /\ e = 0 /\ Ordered(l)
  <2> DEFINE g == StopsAtCheck(path)
             most == [lookup_order |-> 2]
  <2>1. /\ g.required = {Lookup, Check} /\ g.forbidden = {Issue} /\ g.ordering = ORDERING /\ g.max_calls = most
    BY DEF StopsAtCheck, Lookup, Check, Issue
  <2>2. DOMAIN most = {Lookup} /\ most[Lookup] = 2
    BY DEF Lookup
  <2>3. {Issue} \cap Names(l) = {} <=> Issue \notin Names(l)
    OBVIOUS
  <2> HIDE DEF g, most
  <2>4. CheckConstraints(l, g) <=> /\ Lookup \in Names(l) /\ Check \in Names(l) /\ {Issue} \cap Names(l) = {}
                                   /\ \A pair \in ORDERING : Precedes(l, pair[1], pair[2])
                                   /\ Count(l, Lookup) <= 2
    BY <2>1, <2>2 DEF CheckConstraints
  <2>5. a >= 1 /\ a <= 2 <=> a \in 1..2
    BY <1>1
  <2> QED
    BY <1>1, <1>2, <1>3, <1>4, <2>3, <2>4, <2>5 DEF g
<1>9. ASSUME NEW ends, NEW n \in Nat
      PROVE  CheckConstraints(l, Issues(ends, n)) <=> a \in 1..2 /\ d >= 1 /\ e \in 1..n /\ Ordered(l)
  <2> DEFINE g == Issues(ends, n)
             most == [lookup_order |-> 2, issue_refund |-> n]
  <2>1. /\ g.required = {Lookup, Check, Issue} /\ g.forbidden = {} /\ g.ordering = ORDERING /\ g.max_calls = most
    BY DEF Issues, Lookup, Check, Issue
  <2>2. DOMAIN most = {Lookup, Issue} /\ most[Lookup] = 2 /\ most[Issue] = n
    BY DEF Lookup, Issue
  <2> HIDE DEF g, most
  <2>4. CheckConstraints(l, g) <=> /\ Lookup \in Names(l) /\ Check \in Names(l) /\ Issue \in Names(l)
                                   /\ \A pair \in ORDERING : Precedes(l, pair[1], pair[2])
                                   /\ Count(l, Lookup) <= 2 /\ Count(l, Issue) <= n
    BY <2>1, <2>2 DEF CheckConstraints
  <2>5. (a >= 1 /\ a <= 2 <=> a \in 1..2) /\ (e >= 1 /\ e <= n <=> e \in 1..n)
    BY <1>1
  <2> QED
    BY <1>1, <1>2, <1>4, <2>4, <2>5 DEF g
<1> QED
  BY <1>6, <1>7, <1>8, <1>9

-----------------------------------------------------------------------------
(* The lists the runs begin with, counted, and whether they keep the order. *)
LEMMA FirstLists ==
  /\ Counted(<< >>, 0, 0, 0, 0) /\ Ordered(<< >>)
  /\ Counted(<<Lookup>>, 1, 0, 0, 0) /\ Ordered(<<Lookup>>)
  /\ Counted(<<History>>, 0, 1, 0, 0) /\ Ordered(<<History>>)
  /\ Counted(<<Lookup, Lookup>>, 2, 0, 0, 0) /\ Ordered(<<Lookup, Lookup>>)
  /\ Counted(<<Lookup, History>>, 1, 1, 0, 0) /\ Ordered(<<Lookup, History>>)
  /\ Counted(<<Lookup, Check>>, 1, 0, 1, 0) /\ ~Ordered(<<Lookup, Check>>)
  /\ Counted(<<History, Lookup>>, 1, 1, 0, 0) /\ Ordered(<<History, Lookup>>)
<1>1. Counted(<< >>, 0, 0, 0, 0) /\ Ordered(<< >>)
  BY CountedStart, OrderedStart
<1>2. Counted(<<Lookup>>, 1, 0, 0, 0) /\ Ordered(<<Lookup>>)
  <2> DEFINE l == << >>
  <2>1. Append(l, Lookup) = <<Lookup>>
    BY ShortLists, Zenon
  <2>2. Counted(l, 0, 0, 0, 0) /\ Ordered(l)
    BY <1>1, Zenon
  <2> HIDE DEF l
  <2>3. Counted(Append(l, Lookup), 1, 0, 0, 0) /\ Ordered(Append(l, Lookup))
    BY <2>2, CountedAppend, OrderedAppend
  <2> QED
    BY <2>1, <2>3, Zenon
<1>3. Counted(<<History>>, 0, 1, 0, 0) /\ Ordered(<<History>>)
  <2> DEFINE l == << >>
  <2>1. Append(l, History) = <<History>>
    BY ShortLists, Zenon
  <2>2. Counted(l, 0, 0, 0, 0) /\ Ordered(l)
    BY <1>1, Zenon
  <2> HIDE DEF l
  <2>3. Counted(Append(l, History), 0, 1, 0, 0) /\ Ordered(Append(l, History))
    BY <2>2, CountedAppend, OrderedAppend
  <2> QED
    BY <2>1, <2>3, Zenon
<1>4. Counted(<<Lookup, Lookup>>, 2, 0, 0, 0) /\ Ordered(<<Lookup, Lookup>>)
  <2> DEFINE l == <<Lookup>>
  <2>1. Append(l, Lookup) = <<Lookup, Lookup>>
    BY ShortLists, Zenon
  <2>2. Counted(l, 1, 0, 0, 0) /\ Ordered(l)
    BY <1>2, Zenon
  <2> HIDE DEF l
  <2>3. Counted(Append(l, Lookup), 2, 0, 0, 0) /\ Ordered(Append(l, Lookup))
    BY <2>2, CountedAppend, OrderedAppend
  <2> QED
    BY <2>1, <2>3, Zenon
<1>5. Counted(<<Lookup, History>>, 1, 1, 0, 0) /\ Ordered(<<Lookup, History>>)
  <2> DEFINE l == <<Lookup>>
  <2>1. Append(l, History) = <<Lookup, History>>
    BY ShortLists, Zenon
  <2>2. Counted(l, 1, 0, 0, 0) /\ Ordered(l)
    BY <1>2, Zenon
  <2> HIDE DEF l
  <2>3. Counted(Append(l, History), 1, 1, 0, 0) /\ Ordered(Append(l, History))
    BY <2>2, CountedAppend, OrderedAppend
  <2> QED
    BY <2>1, <2>3, Zenon
<1>6. Counted(<<Lookup, Check>>, 1, 0, 1, 0) /\ ~Ordered(<<Lookup, Check>>)
  <2> DEFINE l == <<Lookup>>
  <2>1. Append(l, Check) = <<Lookup, Check>>
    BY ShortLists, Zenon
  <2>2. Counted(l, 1, 0, 0, 0) /\ Ordered(l)
    BY <1>2, Zenon
  <2> HIDE DEF l
  <2>3. Counted(Append(l, Check), 1, 0, 1, 0) /\ ~Ordered(Append(l, Check))
    BY <2>2, CountedAppend, OrderedAppend
  <2> QED
    BY <2>1, <2>3, Zenon
<1>7. Counted(<<History, Lookup>>, 1, 1, 0, 0) /\ Ordered(<<History, Lookup>>)
  <2> DEFINE l == <<History>>
  <2>1. Append(l, Lookup) = <<History, Lookup>>
    BY ShortLists, Zenon
  <2>2. Counted(l, 0, 1, 0, 0) /\ Ordered(l)
    BY <1>3, Zenon
  <2> HIDE DEF l
  <2>3. Counted(Append(l, Lookup), 1, 1, 0, 0) /\ Ordered(Append(l, Lookup))
    BY <2>2, CountedAppend, OrderedAppend
  <2> QED
    BY <2>1, <2>3, Zenon
<1> QED
  BY <1>1, <1>2, <1>3, <1>4, <1>5, <1>6, <1>7, Zenon

(* Those of the runs that stop about the check. *)
LEMMA MiddleLists ==
  /\ Counted(<<Lookup, History, Check>>, 1, 1, 1, 0) /\ Ordered(<<Lookup, History, Check>>)
  /\ Counted(<<History, Lookup, Check>>, 1, 1, 1, 0) /\ Ordered(<<History, Lookup, Check>>)
  /\ Counted(<<Lookup, Check, History>>, 1, 1, 1, 0) /\ ~Ordered(<<Lookup, Check, History>>)
  /\ Counted(<<Lookup, Lookup, History>>, 2, 1, 0, 0) /\ Ordered(<<Lookup, Lookup, History>>)
  /\ Counted(<<Lookup, History, Lookup>>, 2, 1, 0, 0) /\ Ordered(<<Lookup, History, Lookup>>)
  /\ Counted(<<Lookup, History, History>>, 1, 2, 0, 0) /\ Ordered(<<Lookup, History, History>>)
<1>1. Counted(<<Lookup, History, Check>>, 1, 1, 1, 0) /\ Ordered(<<Lookup, History, Check>>)
  <2> DEFINE l == <<Lookup, History>>
  <2>1. Append(l, Check) = <<Lookup, History, Check>>
    BY LongerLists, Zenon
  <2>2. Counted(l, 1, 1, 0, 0) /\ Ordered(l)
    BY FirstLists, Zenon
  <2> HIDE DEF l
  <2>3. Counted(Append(l, Check), 1, 1, 1, 0) /\ Ordered(Append(l, Check))
    BY <2>2, CountedAppend, OrderedAppend
  <2> QED
    BY <2>1, <2>3, Zenon
<1>2. Counted(<<History, Lookup, Check>>, 1, 1, 1, 0) /\ Ordered(<<History, Lookup, Check>>)
  <2> DEFINE l == <<History, Lookup>>
  <2>1. Append(l, Check) = <<History, Lookup, Check>>
    BY LongerLists, Zenon
  <2>2. Counted(l, 1, 1, 0, 0) /\ Ordered(l)
    BY FirstLists, Zenon
  <2> HIDE DEF l
  <2>3. Counted(Append(l, Check), 1, 1, 1, 0) /\ Ordered(Append(l, Check))
    BY <2>2, CountedAppend, OrderedAppend
  <2> QED
    BY <2>1, <2>3, Zenon
<1>3. Counted(<<Lookup, Check, History>>, 1, 1, 1, 0) /\ ~Ordered(<<Lookup, Check, History>>)
  <2> DEFINE l == <<Lookup, Check>>
  <2>1. Append(l, History) = <<Lookup, Check, History>>
    BY LongerLists, Zenon
  <2>2. Counted(l, 1, 0, 1, 0) /\ ~Ordered(l)
    BY FirstLists, Zenon
  <2> HIDE DEF l
  <2>3. Counted(Append(l, History), 1, 1, 1, 0) /\ ~Ordered(Append(l, History))
    BY <2>2, CountedAppend, OrderedAppend
  <2> QED
    BY <2>1, <2>3, Zenon
<1>4. Counted(<<Lookup, Lookup, History>>, 2, 1, 0, 0) /\ Ordered(<<Lookup, Lookup, History>>)
  <2> DEFINE l == <<Lookup, Lookup>>
  <2>1. Append(l, History) = <<Lookup, Lookup, History>>
    BY LongerLists, Zenon
  <2>2. Counted(l, 2, 0, 0, 0) /\ Ordered(l)
    BY FirstLists, Zenon
  <2> HIDE DEF l
  <2>3. Counted(Append(l, History), 2, 1, 0, 0) /\ Ordered(Append(l, History))
    BY <2>2, CountedAppend, OrderedAppend
  <2> QED
    BY <2>1, <2>3, Zenon
<1>5. Counted(<<Lookup, History, Lookup>>, 2, 1, 0, 0) /\ Ordered(<<Lookup, History, Lookup>>)
  <2> DEFINE l == <<Lookup, History>>
  <2>1. Append(l, Lookup) = <<Lookup, History, Lookup>>
    BY LongerLists, Zenon
  <2>2. Counted(l, 1, 1, 0, 0) /\ Ordered(l)
    BY FirstLists, Zenon
  <2> HIDE DEF l
  <2>3. Counted(Append(l, Lookup), 2, 1, 0, 0) /\ Ordered(Append(l, Lookup))
    BY <2>2, CountedAppend, OrderedAppend
  <2> QED
    BY <2>1, <2>3, Zenon
<1>6. Counted(<<Lookup, History, History>>, 1, 2, 0, 0) /\ Ordered(<<Lookup, History, History>>)
  <2> DEFINE l == <<Lookup, History>>
  <2>1. Append(l, History) = <<Lookup, History, History>>
    BY LongerLists, Zenon
  <2>2. Counted(l, 1, 1, 0, 0) /\ Ordered(l)
    BY FirstLists, Zenon
  <2> HIDE DEF l
  <2>3. Counted(Append(l, History), 1, 2, 0, 0) /\ Ordered(Append(l, History))
    BY <2>2, CountedAppend, OrderedAppend
  <2> QED
    BY <2>1, <2>3, Zenon
<1> QED
  BY <1>1, <1>2, <1>3, <1>4, <1>5, <1>6, Zenon

(* Those with a redundant read, and those of the write. *)
LEMMA StoppedLists ==
  /\ Counted(<<Lookup, History, Lookup, Check>>, 2, 1, 1, 0) /\ Ordered(<<Lookup, History, Lookup, Check>>)
  /\ Counted(<<Lookup, History, History, Check>>, 1, 2, 1, 0) /\ Ordered(<<Lookup, History, History, Check>>)
  /\ Counted(<<Lookup, Lookup, History, Check>>, 2, 1, 1, 0) /\ Ordered(<<Lookup, Lookup, History, Check>>)
  /\ Counted(<<Lookup, History, Check, Issue>>, 1, 1, 1, 1) /\ Ordered(<<Lookup, History, Check, Issue>>)
  /\ Counted(<<Lookup, History, Check, Lookup>>, 2, 1, 1, 0) /\ Ordered(<<Lookup, History, Check, Lookup>>)
  /\ Counted(<<History, Lookup, Check, Issue>>, 1, 1, 1, 1) /\ Ordered(<<History, Lookup, Check, Issue>>)
  /\ Counted(<<Lookup, Check, History, Issue>>, 1, 1, 1, 1) /\ ~Ordered(<<Lookup, Check, History, Issue>>)
<1>1. Counted(<<Lookup, History, Lookup, Check>>, 2, 1, 1, 0) /\ Ordered(<<Lookup, History, Lookup, Check>>)
  <2> DEFINE l == <<Lookup, History, Lookup>>
  <2>1. Append(l, Check) = <<Lookup, History, Lookup, Check>>
    BY LongLists, Zenon
  <2>2. Counted(l, 2, 1, 0, 0) /\ Ordered(l)
    BY MiddleLists, Zenon
  <2> HIDE DEF l
  <2>3. Counted(Append(l, Check), 2, 1, 1, 0) /\ Ordered(Append(l, Check))
    BY <2>2, CountedAppend, OrderedAppend
  <2> QED
    BY <2>1, <2>3, Zenon
<1>2. Counted(<<Lookup, History, History, Check>>, 1, 2, 1, 0) /\ Ordered(<<Lookup, History, History, Check>>)
  <2> DEFINE l == <<Lookup, History, History>>
  <2>1. Append(l, Check) = <<Lookup, History, History, Check>>
    BY LongLists, Zenon
  <2>2. Counted(l, 1, 2, 0, 0) /\ Ordered(l)
    BY MiddleLists, Zenon
  <2> HIDE DEF l
  <2>3. Counted(Append(l, Check), 1, 2, 1, 0) /\ Ordered(Append(l, Check))
    BY <2>2, CountedAppend, OrderedAppend
  <2> QED
    BY <2>1, <2>3, Zenon
<1>3. Counted(<<Lookup, Lookup, History, Check>>, 2, 1, 1, 0) /\ Ordered(<<Lookup, Lookup, History, Check>>)
  <2> DEFINE l == <<Lookup, Lookup, History>>
  <2>1. Append(l, Check) = <<Lookup, Lookup, History, Check>>
    BY LongLists, Zenon
  <2>2. Counted(l, 2, 1, 0, 0) /\ Ordered(l)
    BY MiddleLists, Zenon
  <2> HIDE DEF l
  <2>3. Counted(Append(l, Check), 2, 1, 1, 0) /\ Ordered(Append(l, Check))
    BY <2>2, CountedAppend, OrderedAppend
  <2> QED
    BY <2>1, <2>3, Zenon
<1>4. Counted(<<Lookup, History, Check, Issue>>, 1, 1, 1, 1) /\ Ordered(<<Lookup, History, Check, Issue>>)
  <2> DEFINE l == <<Lookup, History, Check>>
  <2>1. Append(l, Issue) = <<Lookup, History, Check, Issue>>
    BY LongLists, Zenon
  <2>2. Counted(l, 1, 1, 1, 0) /\ Ordered(l)
    BY MiddleLists, Zenon
  <2> HIDE DEF l
  <2>3. Counted(Append(l, Issue), 1, 1, 1, 1) /\ Ordered(Append(l, Issue))
    BY <2>2, CountedAppend, OrderedAppend
  <2> QED
    BY <2>1, <2>3, Zenon
<1>5. Counted(<<Lookup, History, Check, Lookup>>, 2, 1, 1, 0) /\ Ordered(<<Lookup, History, Check, Lookup>>)
  <2> DEFINE l == <<Lookup, History, Check>>
  <2>1. Append(l, Lookup) = <<Lookup, History, Check, Lookup>>
    BY LongLists, Zenon
  <2>2. Counted(l, 1, 1, 1, 0) /\ Ordered(l)
    BY MiddleLists, Zenon
  <2> HIDE DEF l
  <2>3. Counted(Append(l, Lookup), 2, 1, 1, 0) /\ Ordered(Append(l, Lookup))
    BY <2>2, CountedAppend, OrderedAppend
  <2> QED
    BY <2>1, <2>3, Zenon
<1>6. Counted(<<History, Lookup, Check, Issue>>, 1, 1, 1, 1) /\ Ordered(<<History, Lookup, Check, Issue>>)
  <2> DEFINE l == <<History, Lookup, Check>>
  <2>1. Append(l, Issue) = <<History, Lookup, Check, Issue>>
    BY LongLists, Zenon
  <2>2. Counted(l, 1, 1, 1, 0) /\ Ordered(l)
    BY MiddleLists, Zenon
  <2> HIDE DEF l
  <2>3. Counted(Append(l, Issue), 1, 1, 1, 1) /\ Ordered(Append(l, Issue))
    BY <2>2, CountedAppend, OrderedAppend
  <2> QED
    BY <2>1, <2>3, Zenon
<1>7. Counted(<<Lookup, Check, History, Issue>>, 1, 1, 1, 1) /\ ~Ordered(<<Lookup, Check, History, Issue>>)
  <2> DEFINE l == <<Lookup, Check, History>>
  <2>1. Append(l, Issue) = <<Lookup, Check, History, Issue>>
    BY LongLists, Zenon
  <2>2. Counted(l, 1, 1, 1, 0) /\ ~Ordered(l)
    BY MiddleLists, Zenon
  <2> HIDE DEF l
  <2>3. Counted(Append(l, Issue), 1, 1, 1, 1) /\ ~Ordered(Append(l, Issue))
    BY <2>2, CountedAppend, OrderedAppend
  <2> QED
    BY <2>1, <2>3, Zenon
<1> QED
  BY <1>1, <1>2, <1>3, <1>4, <1>5, <1>6, <1>7, Zenon

(* Those with one call more. *)
LEMMA WrittenLists ==
  /\ Counted(Append(<<Lookup, History, Lookup, Check>>, Issue), 2, 1, 1, 1) /\ Ordered(Append(<<Lookup, History, Lookup, Check>>, Issue))
  /\ Counted(Append(<<Lookup, History, Lookup, Check>>, Lookup), 3, 1, 1, 0) /\ Ordered(Append(<<Lookup, History, Lookup, Check>>, Lookup))
  /\ Counted(Append(<<Lookup, History, History, Check>>, Issue), 1, 2, 1, 1) /\ Ordered(Append(<<Lookup, History, History, Check>>, Issue))
  /\ Counted(Append(<<Lookup, Lookup, History, Check>>, Issue), 2, 1, 1, 1) /\ Ordered(Append(<<Lookup, Lookup, History, Check>>, Issue))
  /\ Counted(Append(<<Lookup, History, Check, Lookup>>, Issue), 2, 1, 1, 1) /\ Ordered(Append(<<Lookup, History, Check, Lookup>>, Issue))
  /\ Counted(Append(<<Lookup, History, Check, Issue>>, History), 1, 2, 1, 1) /\ Ordered(Append(<<Lookup, History, Check, Issue>>, History))
  /\ Counted(Append(<<Lookup, History, Check, Issue>>, Issue), 1, 1, 1, 2) /\ Ordered(Append(<<Lookup, History, Check, Issue>>, Issue))
<1>1. Counted(Append(<<Lookup, History, Lookup, Check>>, Issue), 2, 1, 1, 1) /\ Ordered(Append(<<Lookup, History, Lookup, Check>>, Issue))
  <2> DEFINE l == <<Lookup, History, Lookup, Check>>
  <2>1. Counted(l, 2, 1, 1, 0) /\ Ordered(l)
    BY StoppedLists, Zenon
  <2> HIDE DEF l
  <2>2. Counted(Append(l, Issue), 2, 1, 1, 1) /\ Ordered(Append(l, Issue))
    BY <2>1, CountedAppend, OrderedAppend
  <2> QED
    BY <2>2, Zenon DEF l
<1>2. Counted(Append(<<Lookup, History, Lookup, Check>>, Lookup), 3, 1, 1, 0) /\ Ordered(Append(<<Lookup, History, Lookup, Check>>, Lookup))
  <2> DEFINE l == <<Lookup, History, Lookup, Check>>
  <2>1. Counted(l, 2, 1, 1, 0) /\ Ordered(l)
    BY StoppedLists, Zenon
  <2> HIDE DEF l
  <2>2. Counted(Append(l, Lookup), 3, 1, 1, 0) /\ Ordered(Append(l, Lookup))
    BY <2>1, CountedAppend, OrderedAppend
  <2> QED
    BY <2>2, Zenon DEF l
<1>3. Counted(Append(<<Lookup, History, History, Check>>, Issue), 1, 2, 1, 1) /\ Ordered(Append(<<Lookup, History, History, Check>>, Issue))
  <2> DEFINE l == <<Lookup, History, History, Check>>
  <2>1. Counted(l, 1, 2, 1, 0) /\ Ordered(l)
    BY StoppedLists, Zenon
  <2> HIDE DEF l
  <2>2. Counted(Append(l, Issue), 1, 2, 1, 1) /\ Ordered(Append(l, Issue))
    BY <2>1, CountedAppend, OrderedAppend
  <2> QED
    BY <2>2, Zenon DEF l
<1>4. Counted(Append(<<Lookup, Lookup, History, Check>>, Issue), 2, 1, 1, 1) /\ Ordered(Append(<<Lookup, Lookup, History, Check>>, Issue))
  <2> DEFINE l == <<Lookup, Lookup, History, Check>>
  <2>1. Counted(l, 2, 1, 1, 0) /\ Ordered(l)
    BY StoppedLists, Zenon
  <2> HIDE DEF l
  <2>2. Counted(Append(l, Issue), 2, 1, 1, 1) /\ Ordered(Append(l, Issue))
    BY <2>1, CountedAppend, OrderedAppend
  <2> QED
    BY <2>2, Zenon DEF l
<1>5. Counted(Append(<<Lookup, History, Check, Lookup>>, Issue), 2, 1, 1, 1) /\ Ordered(Append(<<Lookup, History, Check, Lookup>>, Issue))
  <2> DEFINE l == <<Lookup, History, Check, Lookup>>
  <2>1. Counted(l, 2, 1, 1, 0) /\ Ordered(l)
    BY StoppedLists, Zenon
  <2> HIDE DEF l
  <2>2. Counted(Append(l, Issue), 2, 1, 1, 1) /\ Ordered(Append(l, Issue))
    BY <2>1, CountedAppend, OrderedAppend
  <2> QED
    BY <2>2, Zenon DEF l
<1>6. Counted(Append(<<Lookup, History, Check, Issue>>, History), 1, 2, 1, 1) /\ Ordered(Append(<<Lookup, History, Check, Issue>>, History))
  <2> DEFINE l == <<Lookup, History, Check, Issue>>
  <2>1. Counted(l, 1, 1, 1, 1) /\ Ordered(l)
    BY StoppedLists, Zenon
  <2> HIDE DEF l
  <2>2. Counted(Append(l, History), 1, 2, 1, 1) /\ Ordered(Append(l, History))
    BY <2>1, CountedAppend, OrderedAppend
  <2> QED
    BY <2>2, Zenon DEF l
<1>7. Counted(Append(<<Lookup, History, Check, Issue>>, Issue), 1, 1, 1, 2) /\ Ordered(Append(<<Lookup, History, Check, Issue>>, Issue))
  <2> DEFINE l == <<Lookup, History, Check, Issue>>
  <2>1. Counted(l, 1, 1, 1, 1) /\ Ordered(l)
    BY StoppedLists, Zenon
  <2> HIDE DEF l
  <2>2. Counted(Append(l, Issue), 1, 1, 1, 2) /\ Ordered(Append(l, Issue))
    BY <2>1, CountedAppend, OrderedAppend
  <2> QED
    BY <2>2, Zenon DEF l
<1> QED
  BY <1>1, <1>2, <1>3, <1>4, <1>5, <1>6, <1>7, Zenon

-----------------------------------------------------------------------------
(* The names a run's log shows are the calls the table lists. *)
LEMMA CallsOfLog ==
  ASSUME NEW k, NEW w, NEW calls \in Seq(ToolNames), w.log = LogOf(k, calls)
  PROVE  Calls(w) = calls /\ \A tool : Called(w, tool) <=> Count(calls, tool) >= 1
<1>1. /\ DOMAIN w.log = DOMAIN calls /\ DOMAIN calls = 1..Len(calls) /\ Len(calls) \in Nat
      /\ \A i \in DOMAIN calls : w.log[i].name = calls[i]
  BY LogIsSeq
<1>2. Calls(w) = [i \in DOMAIN calls |-> calls[i]]
  BY <1>1 DEF Calls
<1>3. calls = [i \in DOMAIN calls |-> calls[i]]
  OBVIOUS
<1>4. \A tool : Called(w, tool) <=> tool \in Names(calls)
  BY <1>1 DEF Called, Names
<1> QED
  BY <1>2, <1>3, <1>4, NamesCount

(* The refunds in the customer's window are some of those on file. *)
LEMMA PriorsCount ==
  ASSUME NEW k \in Case
  PROVE  Prior(k) \in Nat /\ Prior(k) <= Len(k.priors) /\ Len(k.priors) \in Nat
<1> DEFINE S == {i \in DOMAIN k.priors : k.priors[i].mine /\ k.priors[i].age <= HISTORY_WINDOW_DAYS}
           n == Len(k.priors)
<1>1. k.priors \in Seq(PriorRow)
  BY DEF Case
<1>2. n \in Nat /\ DOMAIN k.priors = 1..n
  BY <1>1
<1>3. IsFiniteSet(1..n) /\ Cardinality(1..n) = n
  <2>1. Cardinality(1..n) = IF 1 > n THEN 0 ELSE n - 1 + 1
    BY <1>2, FS_Interval
  <2>2. IsFiniteSet(1..n)
    BY <1>2, FS_Interval
  <2> QED
    BY <1>2, <2>1, <2>2
<1>4. S \subseteq 1..n
  BY <1>2
<1>5. Prior(k) = Cardinality(S) + 0
  <2>1. SeedWorld(k).refunds = << >>
    BY DEF SeedWorld
  <2>2. Len(<< >>) = 0
    OBVIOUS
  <2> QED
    BY <2>1, <2>2 DEF Prior, RefundHistory
<1> HIDE DEF S
<1>6. IsFiniteSet(S) /\ Cardinality(S) <= n /\ Cardinality(S) \in Nat
  BY <1>3, <1>4, FS_Subset, FS_CardinalityType
<1> QED
  BY <1>2, <1>5, <1>6

(* Fewer than too few are too few. *)
LEMMA FewerStill ==
  \A few, some, limit \in Nat : few <= some /\ ~(some >= limit) => ~(few >= limit)
OBVIOUS

(* The kinds of gradings, by what the builders ask of the environment: nothing was asked about, ...  *)
GradedNoId(k, o, g) == o = None /\ g = NoIdCase

(* ... the order is not found or cannot be looked up, ...  *)
GradedNotFound(k, o, g) ==
  o # None /\ g = NotFoundCase /\ k.faults \subseteq {Lookup} /\ (OwnRow(k, o) = None \/ Fails(k, Lookup))

(* ... no refund is due, or it is refused, ... *)
GradedStop(k, o, g) == o # None /\ g = StopsAtCheck(CHECKED_PATH) /\ k.faults = {} /\ OwnRow(k, o) # None

(* (a refund that is due to anybody who reads the customer's history, and needs no approval) *)
DueCheaply(k, o) ==
  /\ o # None /\ OwnRow(k, o) # None /\ OwnRow(k, o).price <= APPROVAL_THRESHOLD
  /\ Eligibility(OwnRow(k, o), Prior(k), REFUND_WINDOW_DAYS) = "within policy"

(* ... the order changes before the write, the write fails, ... *)
GradedChanged(k, o, g) ==
  g = StopsAtCheck(Append(CHECKED_PATH, "lookup_order")) /\ k.faults = {} /\ DueCheaply(k, o)

GradedFailure(k, o, g) ==
  g = Issues({NoRefund}, 2) /\ k.faults = {Issue} /\ k.reprice = None /\ DueCheaply(k, o)

(* ... or a refund is paid. *)
GradedRefund(k, o, g) ==
  /\ o # None /\ k.faults = {} /\ k.reprice = None /\ OwnRow(k, o) # None
  /\ \E types \in SUBSET RefundTypes : \E price : g = Issues(PaidEnds(types, price), 1)

(* Every grading is of one of the kinds. *)
LEMMA GradingKinds ==
  ASSUME NEW k \in Case, NEW o \in OrderIds \cup {None}, NEW g \in Authored(k, o)
  PROVE  \/ GradedNoId(k, o, g) \/ GradedNotFound(k, o, g) \/ GradedStop(k, o, g)
         \/ GradedChanged(k, o, g) \/ GradedFailure(k, o, g) \/ GradedRefund(k, o, g)
<1> DEFINE row == IF o = None THEN None ELSE k.orders[o]
           found == row # None /\ row.mine
           due == found /\ Eligibility(row, Len(k.priors), REFUND_WINDOW_DAYS) = "within policy"
           cheap == found /\ row.price <= APPROVAL_THRESHOLD
           still == k.approval = None
           calm == k.faults = {} /\ k.reprice = None
<1>1. o # None => OwnRow(k, o) = IF row # None /\ row.mine THEN row ELSE None
  BY DEF OwnRow, SelectOrder, SeedWorld
<1>2. found => o # None /\ OwnRow(k, o) = row /\ OwnRow(k, o) # None
  BY <1>1
<1>3. o # None /\ ~found => OwnRow(k, o) = None
  BY <1>1
<1>4. due => Eligibility(row, Prior(k), REFUND_WINDOW_DAYS) = "within policy"
  <2> SUFFICES ASSUME due PROVE Eligibility(row, Prior(k), REFUND_WINDOW_DAYS) = "within policy"
    OBVIOUS
  <2>1. /\ row.age # None /\ ~row.excluded /\ ~(row.age > REFUND_WINDOW_DAYS)
        /\ ~(Len(k.priors) >= MAX_PRIOR_REFUNDS)
    BY DEF Eligibility
  <2>2. ~(Prior(k) >= MAX_PRIOR_REFUNDS)
    <3>1. Prior(k) \in Nat /\ Prior(k) <= Len(k.priors) /\ Len(k.priors) \in Nat
      BY PriorsCount
    <3>2. ~(Len(k.priors) >= MAX_PRIOR_REFUNDS) /\ MAX_PRIOR_REFUNDS \in Nat
      BY <2>1, PolicyAssumption
    <3> QED
      BY <3>1, <3>2, FewerStill, Zenon
  <2> QED
    BY <2>1, <2>2 DEF Eligibility
<1>5. due /\ cheap => DueCheaply(k, o)
  BY <1>2, <1>4 DEF DueCheaply
<1>6. \/ g = NoIdCase /\ o = None
      \/ g = NotFoundCase /\ o # None /\ ~found /\ calm
      \/ g = IneligibleCase /\ found /\ calm
      \/ g = LookupFailureCase /\ found /\ k.faults = {"lookup_order"}
      \/ g = RefundFailureCase /\ due /\ cheap /\ k.faults = {"issue_refund"} /\ k.reprice = None
      \/ g = ChangedOrderCase /\ due /\ cheap /\ k.faults = {}
      \/ /\ due /\ calm
         /\ \/ \E t \in RefundTypes : g = RefundCase(t, row.price, k.approval)
            \/ \E types \in SUBSET RefundTypes : g = MixedReasonCase(types, row.price)
  BY DEF Authored
<1> HIDE DEF row, found, due, cheap, still
<1>7. CASE g = NoIdCase /\ o = None
  BY <1>7 DEF GradedNoId
<1>8. CASE g = NotFoundCase /\ o # None /\ ~found /\ calm
  BY <1>3, <1>8 DEF GradedNotFound
<1>9. CASE g = IneligibleCase /\ found /\ calm
  BY <1>2, <1>9 DEF GradedStop, IneligibleCase
<1>10. CASE g = LookupFailureCase /\ found /\ k.faults = {"lookup_order"}
  BY <1>2, <1>10 DEF GradedNotFound, LookupFailureCase, Fails, Lookup
<1>11. CASE g = RefundFailureCase /\ due /\ cheap /\ k.faults = {"issue_refund"} /\ k.reprice = None
  BY <1>5, <1>11 DEF GradedFailure, RefundFailureCase, Issue
<1>12. CASE g = ChangedOrderCase /\ due /\ cheap /\ k.faults = {}
  BY <1>5, <1>12 DEF GradedChanged, ChangedOrderCase
<1>13. CASE due /\ calm /\ \E t \in RefundTypes : g = RefundCase(t, row.price, k.approval)
  <2>1. PICK t \in RefundTypes : g = RefundCase(t, row.price, k.approval)
    BY <1>13
  <2>2. g = StopsAtCheck(CHECKED_PATH) \/ g = Issues({OneRefund(t, row.price)}, 1)
    BY <2>1 DEF RefundCase
  <2>3. {OneRefund(t, row.price)} = PaidEnds({t}, row.price) /\ {t} \in SUBSET RefundTypes
    BY DEF PaidEnds
  <2>4. found
    BY <1>13 DEF due
  <2> QED
    BY <1>2, <1>13, <2>2, <2>3, <2>4 DEF GradedStop, GradedRefund
<1>14. CASE due /\ calm /\ \E types \in SUBSET RefundTypes : g = MixedReasonCase(types, row.price)
  <2>1. PICK types \in SUBSET RefundTypes : g = MixedReasonCase(types, row.price)
    BY <1>14
  <2>2. g = Issues(PaidEnds(types, row.price), 1)
    BY <2>1 DEF MixedReasonCase, PaidEnds
  <2>3. found
    BY <1>14 DEF due
  <2> QED
    BY <1>2, <1>14, <2>2, <2>3 DEF GradedRefund
<1> QED
  BY <1>6, <1>7, <1>8, <1>9, <1>10, <1>11, <1>12, <1>13, <1>14

-----------------------------------------------------------------------------
(* Half of a price, rounded, is no more than the price. *)
LEMMA HalfIsLess ==
  ASSUME NEW price \in Nat
  PROVE  HalfOf(price) \in Nat /\ HalfOf(price) <= price
<1>1. price \div 2 \in Nat /\ price % 2 \in 0..1 /\ price = 2 * (price \div 2) + (price % 2)
  OBVIOUS
<1> DEFINE h == price \div 2
           m == price % 2
           up == IF m = 1 /\ price \in RoundsUp THEN 1 ELSE 0
<1>2. HalfOf(price) = h + up
  BY DEF HalfOf
<1>3. up \in Nat /\ up <= m
  BY <1>1
<1> HIDE DEF h, m, up
<1>4. h \in Nat /\ m \in Nat /\ price = 2 * h + m
  BY <1>1 DEF h, m
<1> QED
  BY <1>2, <1>3, <1>4

(* The customer's own order is the one every variant reads. *)
LEMMA SeenOwn ==
  ASSUME NEW v, NEW k, NEW o
  PROVE  /\ OwnRow(k, o) # None => Seen(v, k, o) = OwnRow(k, o)
         /\ v # "M3" => Seen(v, k, o) = OwnRow(k, o)
<1>1. OwnRow(k, o) # None => SelectOrder(SeedWorld(k), o, v # "M3") = OwnRow(k, o)
  BY DEF SelectOrder, OwnRow
<1>2. v # "M3" => SelectOrder(SeedWorld(k), o, v # "M3") = OwnRow(k, o)
  BY DEF OwnRow
<1> QED
  BY <1>1, <1>2 DEF Seen

(* A refund of a cheap order needs no approval. *)
LEMMA CheapUnasked ==
  ASSUME NEW v, v # "M5", NEW k \in Case, NEW c \in Classes, NEW t, DueCheaply(k, c.order_id)
  PROVE  ~MustAsk(v, k, c, t)
<1> DEFINE o == c.order_id
           price == OwnRow(k, o).price
<1>1. o # None /\ OwnRow(k, o) # None /\ price <= APPROVAL_THRESHOLD
  BY DEF DueCheaply
<1>2. o \in OrderIds
  BY <1>1 DEF Classes
<1>3. k.orders[o] \in OrderRow \cup {None} /\ OwnRow(k, o) = k.orders[o]
  BY <1>1, <1>2 DEF Case, OwnRow, SelectOrder, SeedWorld
<1>4. price \in Nat
  BY <1>1, <1>3 DEF OrderRow
<1>5. Amount(v, k, c, t) = RefundAmount(t, price)
  BY <1>1, SeenOwn DEF Amount
<1> HIDE DEF price
<1>6. RefundAmount(t, price) \in Nat /\ RefundAmount(t, price) <= price
  BY <1>4, HalfIsLess DEF RefundAmount
<1>7. \A a, p, n \in Nat : a <= p /\ p <= n => ~(a > n)
  OBVIOUS
<1>8. APPROVAL_THRESHOLD \in Nat
  BY RoutingAssumption
<1>9. ~(Amount(v, k, c, t) > APPROVAL_THRESHOLD)
  BY <1>1, <1>4, <1>5, <1>6, <1>7, <1>8 DEF price
<1> QED
  BY <1>9 DEF MustAsk

(* A due refund is planned by every variant whose policy is the baseline's. *)
LEMMA DuePlans ==
  ASSUME NEW v, v \notin {"A", "M1", "M2"}, NEW k, NEW c, DueCheaply(k, c.order_id),
         ~Fails(k, Lookup), ~Fails(k, History), ~Fails(k, Check)
  PROVE  Plans(v, k, c)
<1>1. c.order_id # None /\ OwnRow(k, c.order_id) # None
  BY DEF DueCheaply
<1>2. Seen(v, k, c.order_id) = OwnRow(k, c.order_id)
  BY <1>1, SeenOwn
<1>3. Found(v, k, c) /\ ~Skips(v, c)
  BY <1>1, <1>2 DEF Found, Asked, Skips
<1>4. Verdict(v, k, c) = "within policy"
  BY <1>2 DEF Verdict, DueCheaply
<1>5. Clears(v, k, c)
  BY <1>3, <1>4 DEF Clears, Answers, Checks
<1>6. Reads(v, k, c)
  BY <1>1, <1>3 DEF Reads, Asked
<1> QED
  BY <1>5, <1>6 DEF Plans

(* The calls of a run that found no order, where the history answers. *)
LEMMA UnfoundCalls ==
  ASSUME NEW v, NEW k, NEW c, NEW t, Asked(c), ~Found(v, k, c), ~Fails(k, History)
  PROVE  EndCalls(v, k, c, t) = LookedCalls(v, k, c)
BY DEF EndCalls

(* The calls of a run that found one, where the other reads and the check answer. *)
LEMMA FoundCalls ==
  ASSUME NEW v, v # "M2", NEW k, NEW c, NEW t, Found(v, k, c), ~Fails(k, History), ~Fails(k, Check)
  PROVE  /\ ~Plans(v, k, c) => EndCalls(v, k, c, t) = CheckedCalls(v, k, c)
         /\ Plans(v, k, c) /\ ~Goes(v, k, c, t) => EndCalls(v, k, c, t) = PlannedCalls(v, k, c)
         /\ Goes(v, k, c, t) /\ ~Tries(v, k, c, t) => EndCalls(v, k, c, t) = WriteCalls(v, k, c)
         /\ Tries(v, k, c, t) => EndCalls(v, k, c, t) = TriedCalls(v, k, c)
<1>1. Asked(c) /\ (Goes(v, k, c, t) => Plans(v, k, c)) /\ (Tries(v, k, c, t) => Goes(v, k, c, t))
  BY Ladder
<1> QED
  BY <1>1 DEF EndCalls

(* The variants that call what the baseline calls once the order is found. *)
PLAIN == {"baseline", "B", "M1", "M4", "M5", "M6", "M8", "V1", "V2", "V4", "V5", "V6"}

LEMMA PlainCalls ==
  ASSUME NEW v \in PLAIN, NEW k, NEW c, NEW t, Found(v, k, c), ~Fails(k, History), ~Fails(k, Check)
  PROVE  EndCalls(v, k, c, t) = IF Tries(v, k, c, t) THEN <<Lookup, History, Check, Issue>> ELSE <<Lookup, History, Check>>
<1>1. v \notin {"A", "M2", "M3", "M7", "C", "C1", "C2", "V3", "alt_history_early", "alt_recheck", "alt_verify"}
  BY DEF PLAIN
<1>2. CheckedCalls(v, k, c) = <<Lookup, History, Check>>
  BY <1>1 DEF CheckedCalls, Skips
<1>3. PlannedCalls(v, k, c) = <<Lookup, History, Check>> /\ WriteCalls(v, k, c) = <<Lookup, History, Check>>
  BY <1>1, <1>2 DEF PlannedCalls, WriteCalls
<1>4. TriedCalls(v, k, c) = <<Lookup, History, Check, Issue>>
  <2>1. Append(<<Lookup, History, Check>>, Issue) = <<Lookup, History, Check, Issue>>
    BY LongLists, Zenon
  <2> QED
    BY <1>1, <1>3, <2>1 DEF TriedCalls
<1> DEFINE e == EndCalls(v, k, c, t)
           l == <<Lookup, History, Check>>
           l2 == <<Lookup, History, Check, Issue>>
<1>5. /\ ~Plans(v, k, c) => e = CheckedCalls(v, k, c)
      /\ Plans(v, k, c) /\ ~Goes(v, k, c, t) => e = PlannedCalls(v, k, c)
      /\ Goes(v, k, c, t) /\ ~Tries(v, k, c, t) => e = WriteCalls(v, k, c)
      /\ Tries(v, k, c, t) => e = TriedCalls(v, k, c)
  BY <1>1, FoundCalls
<1>6. /\ CheckedCalls(v, k, c) = l /\ PlannedCalls(v, k, c) = l /\ WriteCalls(v, k, c) = l
      /\ TriedCalls(v, k, c) = l2
  BY <1>2, <1>3, <1>4
<1>7. (Goes(v, k, c, t) => Plans(v, k, c)) /\ (Tries(v, k, c, t) => Goes(v, k, c, t))
  BY Ladder
<1> HIDE DEF e, l, l2
<1>8. e = IF Tries(v, k, c, t) THEN l2 ELSE l
  BY <1>5, <1>6, <1>7
<1> QED
  BY <1>8 DEF e, l, l2

(* The alternates that read once more, or in another order. *)
LEMMA AlternateCalls ==
  ASSUME NEW v \in {"V3", "alt_history_early", "alt_recheck", "alt_verify"}, NEW k, NEW c, NEW t, Found(v, k, c),
         ~Fails(k, History), ~Fails(k, Check)
  PROVE  LET e == EndCalls(v, k, c, t)
             checked == IF v = "alt_history_early" THEN <<History, Lookup, Check>> ELSE <<Lookup, History, Check>>
         IN /\ ~Goes(v, k, c, t) => e = checked
            /\ Goes(v, k, c, t) /\ ~Tries(v, k, c, t) => v = "alt_verify" /\ e = <<Lookup, History, Check, Lookup>>
            /\ Tries(v, k, c, t) /\ v = "V3" => e = Append(<<Lookup, History, Check, Issue>>, History)
            /\ Tries(v, k, c, t) /\ v = "alt_history_early" => e = <<History, Lookup, Check, Issue>>
            /\ Tries(v, k, c, t) /\ v \in {"alt_recheck", "alt_verify"} =>
                 e = Append(<<Lookup, History, Check, Lookup>>, Issue)
<1> DEFINE e == EndCalls(v, k, c, t)
           checked == IF v = "alt_history_early" THEN <<History, Lookup, Check>> ELSE <<Lookup, History, Check>>
<1>1. v \notin {"A", "M2", "M3", "M7", "C", "C1", "C2"}
  OBVIOUS
<1>2. CheckedCalls(v, k, c) = checked
  BY <1>1 DEF CheckedCalls, Skips
<1>3. PlannedCalls(v, k, c) = checked
  BY <1>1, <1>2 DEF PlannedCalls
<1>4. WriteCalls(v, k, c) = IF v \in {"alt_recheck", "alt_verify"} THEN Append(checked, Lookup) ELSE checked
  BY <1>1, <1>3 DEF WriteCalls
<1>5. /\ ~Plans(v, k, c) => e = CheckedCalls(v, k, c)
      /\ Plans(v, k, c) /\ ~Goes(v, k, c, t) => e = PlannedCalls(v, k, c)
      /\ Goes(v, k, c, t) /\ ~Tries(v, k, c, t) => e = WriteCalls(v, k, c)
      /\ Tries(v, k, c, t) => e = TriedCalls(v, k, c)
  BY <1>1, FoundCalls
<1>6. /\ Append(<<Lookup, History, Check>>, Lookup) = <<Lookup, History, Check, Lookup>>
      /\ Append(<<Lookup, History, Check>>, Issue) = <<Lookup, History, Check, Issue>>
      /\ Append(<<History, Lookup, Check>>, Issue) = <<History, Lookup, Check, Issue>>
  BY LongLists, Zenon
<1>7. TriedCalls(v, k, c) = IF v = "V3" THEN Append(Append(WriteCalls(v, k, c), Issue), History)
                            ELSE Append(WriteCalls(v, k, c), Issue)
  BY <1>1 DEF TriedCalls
<1>8. Goes(v, k, c, t) /\ ~Tries(v, k, c, t) => v = "alt_verify"
  BY DEF Tries, Stale
<1>9. ~Goes(v, k, c, t) => e = checked
  BY <1>2, <1>3, <1>5, Ladder
<1>10. Goes(v, k, c, t) /\ ~Tries(v, k, c, t) => v = "alt_verify" /\ e = <<Lookup, History, Check, Lookup>>
  <2> SUFFICES ASSUME Goes(v, k, c, t), ~Tries(v, k, c, t) PROVE v = "alt_verify" /\ e = <<Lookup, History, Check, Lookup>>
    OBVIOUS
  <2>1. v = "alt_verify" /\ e = WriteCalls(v, k, c)
    BY <1>5, <1>8
  <2>2. checked = <<Lookup, History, Check>>
    BY <2>1
  <2> HIDE DEF e, checked
  <2>3. e = Append(checked, Lookup)
    BY <1>4, <2>1
  <2> QED
    BY <1>6, <2>1, <2>2, <2>3, Zenon
<1>11. ASSUME Tries(v, k, c, t)
       PROVE  /\ v = "V3" => e = Append(<<Lookup, History, Check, Issue>>, History)
              /\ v = "alt_history_early" => e = <<History, Lookup, Check, Issue>>
              /\ v \in {"alt_recheck", "alt_verify"} => e = Append(<<Lookup, History, Check, Lookup>>, Issue)
  <2>1. e = TriedCalls(v, k, c)
    BY <1>5, <1>11
  <2>2. CASE v = "V3"
    <3>1. checked = <<Lookup, History, Check>>
      BY <2>2
    <3> HIDE DEF e, checked
    <3>2. e = Append(Append(checked, Issue), History)
      BY <1>4, <1>7, <2>1, <2>2
    <3>3. e = Append(<<Lookup, History, Check, Issue>>, History)
      BY <1>6, <3>1, <3>2, Zenon
    <3>4. v \notin {"alt_history_early", "alt_recheck", "alt_verify"}
      BY <2>2
    <3> QED
      BY <3>3, <3>4 DEF e
  <2>3. CASE v = "alt_history_early"
    <3>1. checked = <<History, Lookup, Check>>
      BY <2>3
    <3> HIDE DEF e, checked
    <3>2. e = Append(checked, Issue)
      BY <1>4, <1>7, <2>1, <2>3
    <3>3. e = <<History, Lookup, Check, Issue>>
      BY <1>6, <3>1, <3>2, Zenon
    <3>4. v \notin {"V3", "alt_recheck", "alt_verify"}
      BY <2>3
    <3> QED
      BY <3>3, <3>4 DEF e
  <2>4. CASE v \in {"alt_recheck", "alt_verify"}
    <3>1. checked = <<Lookup, History, Check>>
      BY <2>4
    <3> HIDE DEF e, checked
    <3>2. e = Append(Append(checked, Lookup), Issue)
      BY <1>4, <1>7, <2>1, <2>4
    <3>3. e = Append(<<Lookup, History, Check, Lookup>>, Issue)
      BY <1>6, <3>1, <3>2, Zenon
    <3>4. v \notin {"V3", "alt_history_early"}
      BY <2>4
    <3> QED
      BY <3>3, <3>4 DEF e
  <2> QED
    BY <2>2, <2>3, <2>4
<1> HIDE DEF e
<1> QED
  BY <1>9, <1>10, <1>11 DEF e

-----------------------------------------------------------------------------
(* The valid alternates and the baseline. *)
VALID == VALID_VARIANTS \cup INDEPENDENT_VALID

LEMMA ValidNames ==
  ASSUME NEW v \in VALID
  PROVE  /\ v \in PLAIN \/ v \in {"V3", "alt_history_early", "alt_recheck", "alt_verify"}
         /\ v \notin {"A", "B", "C", "C1", "C2", "M1", "M2", "M3", "M4", "M5", "M6", "M7", "M8"}
BY DEF VALID, VALID_VARIANTS, INDEPENDENT_VALID, PLAIN

(* What the four tools' faults are in each kind of case. *)
LEMMA KindFaults ==
  ASSUME NEW k, NEW o, NEW g
  PROVE  /\ GradedNotFound(k, o, g) => ~Fails(k, History) /\ ~Fails(k, Check) /\ ~Fails(k, Issue)
         /\ GradedStop(k, o, g) \/ GradedChanged(k, o, g) \/ GradedRefund(k, o, g) => \A tool : ~Fails(k, tool)
         /\ GradedFailure(k, o, g) => Fails(k, Issue) /\ ~Fails(k, Lookup) /\ ~Fails(k, History) /\ ~Fails(k, Check)
         /\ GradedStop(k, o, g) \/ GradedChanged(k, o, g) \/ GradedFailure(k, o, g) \/ GradedRefund(k, o, g) =>
              o # None /\ OwnRow(k, o) # None
<1>1. GradedNotFound(k, o, g) => ~Fails(k, History) /\ ~Fails(k, Check) /\ ~Fails(k, Issue)
  BY FourNames DEF GradedNotFound, Fails
<1>2. GradedStop(k, o, g) \/ GradedChanged(k, o, g) \/ GradedRefund(k, o, g) => \A tool : ~Fails(k, tool)
  BY DEF GradedStop, GradedChanged, GradedRefund, Fails
<1>3. GradedFailure(k, o, g) => Fails(k, Issue) /\ ~Fails(k, Lookup) /\ ~Fails(k, History) /\ ~Fails(k, Check)
  BY FourNames DEF GradedFailure, Fails
<1>4. GradedStop(k, o, g) \/ GradedChanged(k, o, g) \/ GradedFailure(k, o, g) \/ GradedRefund(k, o, g) =>
        o # None /\ OwnRow(k, o) # None
  BY DEF GradedStop, GradedChanged, GradedFailure, GradedRefund, DueCheaply
<1> QED
  BY <1>1, <1>2, <1>3, <1>4

(* What a ledger of at most one row says of a case's ends. *)
LEMMA RightEnds ==
  ASSUME NEW k, NEW o, NEW g, NEW paid, NEW row, CheckEndState(IF paid THEN <<row>> ELSE << >>, g.end_states)
  PROVE  /\ \/ GradedNoId(k, o, g) \/ GradedNotFound(k, o, g) \/ GradedStop(k, o, g)
            \/ GradedChanged(k, o, g) \/ GradedFailure(k, o, g)
            => ~paid
         /\ GradedRefund(k, o, g) => paid
<1> DEFINE rows == IF paid THEN <<row>> ELSE << >>
<1>1. (paid => Len(rows) = 1) /\ (~paid => Len(rows) = 0)
  OBVIOUS
<1> HIDE DEF rows
<1>2. ASSUME \/ GradedNoId(k, o, g) \/ GradedNotFound(k, o, g) \/ GradedStop(k, o, g)
             \/ GradedChanged(k, o, g) \/ GradedFailure(k, o, g)
      PROVE  ~paid
  <2>1. g.end_states = {NoRefund}
    <3>1. NoIdCase.end_states = {NoRefund} /\ NotFoundCase.end_states = {NoRefund}
      BY DEF NoIdCase, NotFoundCase, StopsAtLookup
    <3>2. \A path : StopsAtCheck(path).end_states = {NoRefund}
      BY DEF StopsAtCheck
    <3>3. Issues({NoRefund}, 2).end_states = {NoRefund}
      BY DEF Issues
    <3> QED
      BY <1>2, <3>1, <3>2, <3>3 DEF GradedNoId, GradedNotFound, GradedStop, GradedChanged, GradedFailure
  <2>2. Len(rows) = 0
    BY <2>1, EndsUnpaid DEF rows
  <2> QED
    BY <1>1, <2>2
<1>3. ASSUME GradedRefund(k, o, g) PROVE paid
  <2>1. PICK types \in SUBSET RefundTypes : \E price : g = Issues(PaidEnds(types, price), 1)
    BY <1>3 DEF GradedRefund
  <2>2. PICK price : g = Issues(PaidEnds(types, price), 1)
    BY <2>1
  <2>3. g.end_states = PaidEnds(types, price)
    BY <2>2 DEF Issues
  <2>4. Len(rows) = 1
    BY <2>3, EndsPaid DEF rows
  <2> QED
    BY <1>1, <2>4
<1> QED
  BY <1>2, <1>3

(* A valid alternate finds the order when it is there and the lookup answers. *)
LEMMA ValidFinds ==
  ASSUME NEW v, v # "M3", NEW k, NEW c, c.order_id # None, ~Fails(k, History)
  PROVE  Asked(c) /\ (Found(v, k, c) <=> ~Fails(k, Lookup) /\ OwnRow(k, c.order_id) # None)
<1>1. Seen(v, k, c.order_id) = OwnRow(k, c.order_id)
  BY SeenOwn
<1> QED
  BY <1>1 DEF Found, Asked

(* The calls of a valid path that found no order, ... *)
LEMMA ValidUnfound ==
  ASSUME NEW v \in VALID, NEW k, NEW c, NEW t, Asked(c), ~Found(v, k, c), ~Fails(k, History)
  PROVE  EndCalls(v, k, c, t) = IF v = "V1" /\ Fails(k, Lookup) THEN <<Lookup, Lookup>>
                                ELSE IF v = "V2" THEN <<Lookup, History>>
                                ELSE IF v = "alt_history_early" THEN <<History, Lookup>> ELSE <<Lookup>>
<1>1. EndCalls(v, k, c, t) = LookedCalls(v, k, c)
  BY UnfoundCalls
<1>2. v # "M3"
  BY ValidNames
<1>3. LookedCalls(v, k, c) = IF v = "V1" /\ Fails(k, Lookup) THEN <<Lookup, Lookup>>
                             ELSE IF v = "V2" THEN <<Lookup, History>>
                             ELSE IF v = "alt_history_early" THEN <<History, Lookup>> ELSE <<Lookup>>
  <2>1. CASE v = "V1"
    BY <2>1 DEF LookedCalls
  <2>2. CASE v = "V2"
    BY <2>2 DEF LookedCalls
  <2>3. CASE v = "alt_history_early"
    BY <2>3 DEF LookedCalls
  <2>4. CASE v \notin {"V1", "V2", "alt_history_early"}
    BY <1>2, <2>4 DEF LookedCalls
  <2> QED
    BY <2>1, <2>2, <2>3, <2>4
<1> QED
  BY <1>1, <1>3, Zenon

(* ... of one that stops without a write, ... *)
LEMMA ValidStops ==
  ASSUME NEW v \in VALID, NEW k, NEW c, NEW t, Found(v, k, c), ~Fails(k, History), ~Fails(k, Check), ~Tries(v, k, c, t)
  PROVE  /\ ~Goes(v, k, c, t) => EndCalls(v, k, c, t) = IF v = "alt_history_early" THEN <<History, Lookup, Check>>
                                                        ELSE <<Lookup, History, Check>>
         /\ Goes(v, k, c, t) => v = "alt_verify" /\ EndCalls(v, k, c, t) = <<Lookup, History, Check, Lookup>>
<1>1. CASE v \in PLAIN
  <2>1. EndCalls(v, k, c, t) = <<Lookup, History, Check>>
    BY <1>1, PlainCalls
  <2>2. v # "alt_verify" /\ v # "alt_history_early"
    BY <1>1 DEF PLAIN
  <2>3. ~Goes(v, k, c, t)
    BY <2>2 DEF Tries, Stale
  <2> QED
    BY <2>1, <2>2, <2>3, Zenon
<1>2. CASE v \in {"V3", "alt_history_early", "alt_recheck", "alt_verify"}
  BY <1>2, AlternateCalls, ZenonT(60)
<1> QED
  BY <1>1, <1>2, ValidNames

(* ... and of one that writes. *)
LEMMA ValidWrites ==
  ASSUME NEW v \in VALID, NEW k, NEW c, NEW t, Tries(v, k, c, t), ~Fails(k, Check)
  PROVE  EndCalls(v, k, c, t) = IF v = "V3" THEN Append(<<Lookup, History, Check, Issue>>, History)
                                ELSE IF v = "alt_history_early" THEN <<History, Lookup, Check, Issue>>
                                ELSE IF v \in {"alt_recheck", "alt_verify"} THEN Append(<<Lookup, History, Check, Lookup>>, Issue)
                                ELSE <<Lookup, History, Check, Issue>>
<1>1. Found(v, k, c) /\ Reads(v, k, c)
  BY Ladder
<1>2. ~Fails(k, History)
  BY <1>1 DEF Reads
<1> DEFINE e == EndCalls(v, k, c, t)
           l3 == Append(<<Lookup, History, Check, Issue>>, History)
           le == <<History, Lookup, Check, Issue>>
           lr == Append(<<Lookup, History, Check, Lookup>>, Issue)
           l == <<Lookup, History, Check, Issue>>
<1>3. CASE v \in PLAIN
  <2>1. e = l
    BY <1>1, <1>2, <1>3, PlainCalls
  <2>2. v \notin {"V3", "alt_history_early", "alt_recheck", "alt_verify"}
    BY <1>3 DEF PLAIN
  <2> HIDE DEF e, l, l3, le, lr
  <2>3. e = IF v = "V3" THEN l3 ELSE IF v = "alt_history_early" THEN le
            ELSE IF v \in {"alt_recheck", "alt_verify"} THEN lr ELSE l
    BY <2>1, <2>2
  <2> QED
    BY <2>3 DEF e, l, l3, le, lr
<1>4. CASE v \in {"V3", "alt_history_early", "alt_recheck", "alt_verify"}
  <2>1. /\ v = "V3" => e = l3
        /\ v = "alt_history_early" => e = le
        /\ v \in {"alt_recheck", "alt_verify"} => e = lr
    BY <1>1, <1>2, <1>4, AlternateCalls
  <2> HIDE DEF e, l, l3, le, lr
  <2>2. e = IF v = "V3" THEN l3 ELSE IF v = "alt_history_early" THEN le
            ELSE IF v \in {"alt_recheck", "alt_verify"} THEN lr ELSE l
    BY <1>4, <2>1
  <2> QED
    BY <2>2 DEF e, l, l3, le, lr
<1> QED
  BY <1>3, <1>4, ValidNames

(* A reference, counted. *)
LEMMA References ==
  /\ NoIdCase.reference = << >>
  /\ NotFoundCase.reference = <<Lookup>>
  /\ StopsAtCheck(CHECKED_PATH).reference = <<Lookup, History, Check>>
  /\ StopsAtCheck(Append(CHECKED_PATH, "lookup_order")).reference = <<Lookup, History, Check, Lookup>>
  /\ \A ends, n : Issues(ends, n).reference = <<Lookup, History, Check, Issue>>
<1>1. CHECKED_PATH = <<Lookup, History, Check>> /\ REFUND_PATH = <<Lookup, History, Check, Issue>>
  BY DEF CHECKED_PATH, REFUND_PATH, Lookup, History, Check, Issue
<1>2. Append(CHECKED_PATH, "lookup_order") = <<Lookup, History, Check, Lookup>>
  <2>1. Append(<<Lookup, History, Check>>, Lookup) = <<Lookup, History, Check, Lookup>>
    BY LongLists, Zenon
  <2>2. "lookup_order" = Lookup
    BY DEF Lookup
  <2> QED
    BY <1>1, <2>1, <2>2, Zenon
<1>3. NoIdCase.reference = << >> /\ NotFoundCase.reference = <<"lookup_order">>
  BY DEF NoIdCase, NotFoundCase, StopsAtLookup
<1>4. \A path : StopsAtCheck(path).reference = path
  BY DEF StopsAtCheck
<1>5. \A ends, n : Issues(ends, n).reference = REFUND_PATH
  BY DEF Issues
<1>6. <<"lookup_order">> = <<Lookup>>
  BY DEF Lookup
<1>7. NotFoundCase.reference = <<Lookup>>
  BY <1>3, <1>6, Zenon
<1>8. \A ends, n : Issues(ends, n).reference = <<Lookup, History, Check, Issue>>
  BY <1>1, <1>5, Zenon
<1> QED
  BY <1>1, <1>2, <1>3, <1>4, <1>7, <1>8, Zenon

-----------------------------------------------------------------------------
(* The lists of a valid path: without an order, stopped, and with the write. *)
UnfoundList(v, k) ==
  IF v = "V1" /\ Fails(k, Lookup) THEN <<Lookup, Lookup>>
  ELSE IF v = "V2" THEN <<Lookup, History>>
  ELSE IF v = "alt_history_early" THEN <<History, Lookup>> ELSE <<Lookup>>

StoppedList(v, late) ==
  IF late THEN <<Lookup, History, Check, Lookup>>
  ELSE IF v = "alt_history_early" THEN <<History, Lookup, Check>> ELSE <<Lookup, History, Check>>

WrittenList(v) ==
  IF v = "V3" THEN Append(<<Lookup, History, Check, Issue>>, History)
  ELSE IF v = "alt_history_early" THEN <<History, Lookup, Check, Issue>>
  ELSE IF v \in {"alt_recheck", "alt_verify"} THEN Append(<<Lookup, History, Check, Lookup>>, Issue)
  ELSE <<Lookup, History, Check, Issue>>

(* A valid path whose outcome is right: it has come as far as its case wants, and it stops late only  *)
(* because alt_verify sees the order changed.                                                         *)
RightRun(v, k, c, t, g) ==
  LET o == c.order_id
      e == EndCalls(v, k, c, t)
  IN \/ GradedNoId(k, o, g) /\ ~Asked(c) /\ e = << >>
     \/ GradedNotFound(k, o, g) /\ Asked(c) /\ ~Found(v, k, c) /\ e = UnfoundList(v, k)
     \/ GradedStop(k, o, g) /\ ~Goes(v, k, c, t) /\ e = StoppedList(v, FALSE)
     \/ GradedStop(k, o, g) /\ Goes(v, k, c, t) /\ ~Tries(v, k, c, t) /\ v = "alt_verify" /\ e = StoppedList(v, TRUE)
     \/ GradedChanged(k, o, g) /\ Goes(v, k, c, t) /\ ~Tries(v, k, c, t) /\ v = "alt_verify" /\ e = StoppedList(v, TRUE)
     \/ (GradedFailure(k, o, g) \/ GradedRefund(k, o, g)) /\ Tries(v, k, c, t) /\ e = WrittenList(v)

LEMMA RightRuns ==
  ASSUME NEW v \in VALID, NEW k \in Case, NEW c \in Classes, NEW t, NEW row, NEW g \in Authored(k, c.order_id),
         CheckEndState(IF Pays(v, k, c, t) THEN <<row>> ELSE << >>, g.end_states)
  PROVE  RightRun(v, k, c, t, g)
<1> DEFINE o == c.order_id
           paid == Pays(v, k, c, t)
           e == EndCalls(v, k, c, t)
<1>1. v # "M3" /\ v # "M5" /\ v \notin {"A", "M1", "M2", "M4"}
  BY ValidNames
<1>2. o \in OrderIds \cup {None}
  BY DEF Classes
<1>3. /\ \/ GradedNoId(k, o, g) \/ GradedNotFound(k, o, g) \/ GradedStop(k, o, g)
         \/ GradedChanged(k, o, g) \/ GradedFailure(k, o, g)
         => ~paid
      /\ GradedRefund(k, o, g) => paid
  <2> HIDE DEF paid, o
  <2>1. CheckEndState(IF paid THEN <<row>> ELSE << >>, g.end_states)
    BY DEF paid
  <2> QED
    BY <2>1, RightEnds
<1> HIDE DEF e
<1>4. CASE GradedNoId(k, o, g)
  <2>1. ~Asked(c)
    BY <1>4 DEF GradedNoId, Asked
  <2>2. e = << >>
    BY <2>1 DEF e, EndCalls
  <2> QED
    BY <1>4, <2>1, <2>2 DEF RightRun, e
<1>5. CASE GradedNotFound(k, o, g)
  <2>1. ~Fails(k, History) /\ o # None /\ (OwnRow(k, o) = None \/ Fails(k, Lookup))
    BY <1>5, KindFaults DEF GradedNotFound
  <2>2. Asked(c) /\ ~Found(v, k, c)
    BY <1>1, <2>1, ValidFinds
  <2>3. e = UnfoundList(v, k)
    BY <2>1, <2>2, ValidUnfound DEF e, UnfoundList
  <2> QED
    BY <1>5, <2>2, <2>3 DEF RightRun, e
<1>6. CASE GradedStop(k, o, g) \/ GradedChanged(k, o, g)
  <2>1. \A tool : ~Fails(k, tool)
    BY <1>6, KindFaults
  <2>2. o # None /\ OwnRow(k, o) # None
    BY <1>6, KindFaults
  <2>3. Found(v, k, c)
    BY <1>1, <2>1, <2>2, ValidFinds
  <2>4. ~Tries(v, k, c, t)
    BY <1>3, <1>6, <2>1 DEF Pays
  <2>5. /\ ~Goes(v, k, c, t) => e = StoppedList(v, FALSE)
        /\ Goes(v, k, c, t) => v = "alt_verify" /\ e = StoppedList(v, TRUE)
    BY <2>1, <2>3, <2>4, ValidStops DEF e, StoppedList
  <2>6. GradedChanged(k, o, g) => Goes(v, k, c, t)
    <3> SUFFICES ASSUME GradedChanged(k, o, g) PROVE Goes(v, k, c, t)
      OBVIOUS
    <3>1. DueCheaply(k, o)
      BY DEF GradedChanged
    <3>2. Plans(v, k, c)
      BY <1>1, <2>1, <3>1, DuePlans
    <3>3. ~MustAsk(v, k, c, t)
      BY <1>1, <3>1, CheapUnasked
    <3> QED
      BY <3>2, <3>3 DEF Goes
  <2> QED
    BY <1>6, <2>4, <2>5, <2>6 DEF RightRun, e
<1>7. CASE GradedFailure(k, o, g) \/ GradedRefund(k, o, g)
  <2>1. ~Fails(k, Lookup) /\ ~Fails(k, History) /\ ~Fails(k, Check)
    BY <1>7, KindFaults
  <2>2. Tries(v, k, c, t)
    <3>1. CASE GradedRefund(k, o, g)
      BY <1>3, <3>1 DEF Pays
    <3>2. CASE GradedFailure(k, o, g)
      <4>1. DueCheaply(k, o) /\ k.reprice = None
        BY <3>2 DEF GradedFailure
      <4>2. Plans(v, k, c)
        BY <1>1, <2>1, <4>1, DuePlans
      <4>3. ~MustAsk(v, k, c, t)
        BY <1>1, <4>1, CheapUnasked
      <4> QED
        BY <4>1, <4>2, <4>3 DEF Tries, Goes, Stale
    <3> QED
      BY <1>7, <3>1, <3>2
  <2>3. e = WrittenList(v)
    BY <2>1, <2>2, ValidWrites DEF e, WrittenList
  <2> QED
    BY <1>7, <2>2, <2>3 DEF RightRun, e
<1> QED
  BY <1>2, <1>4, <1>5, <1>6, <1>7, GradingKinds

(* Those lists, counted. *)
LEMMA ValidCounts ==
  ASSUME NEW v, NEW k
  PROVE  /\ \/ Counted(UnfoundList(v, k), 1, 0, 0, 0) \/ Counted(UnfoundList(v, k), 2, 0, 0, 0)
            \/ Counted(UnfoundList(v, k), 1, 1, 0, 0)
         /\ Counted(StoppedList(v, FALSE), 1, 1, 1, 0) /\ Ordered(StoppedList(v, FALSE))
         /\ Counted(StoppedList(v, TRUE), 2, 1, 1, 0) /\ Ordered(StoppedList(v, TRUE))
         /\ \/ Counted(WrittenList(v), 1, 1, 1, 1) \/ Counted(WrittenList(v), 2, 1, 1, 1)
            \/ Counted(WrittenList(v), 1, 2, 1, 1)
         /\ Ordered(WrittenList(v))
<1>1. \/ Counted(UnfoundList(v, k), 1, 0, 0, 0) \/ Counted(UnfoundList(v, k), 2, 0, 0, 0)
      \/ Counted(UnfoundList(v, k), 1, 1, 0, 0)
  BY FirstLists, Zenon DEF UnfoundList
<1>2. Counted(StoppedList(v, FALSE), 1, 1, 1, 0) /\ Ordered(StoppedList(v, FALSE))
  BY MiddleLists, Zenon DEF StoppedList
<1>3. Counted(StoppedList(v, TRUE), 2, 1, 1, 0) /\ Ordered(StoppedList(v, TRUE))
  BY StoppedLists, Zenon DEF StoppedList
<1>4. \/ Counted(WrittenList(v), 1, 1, 1, 1) \/ Counted(WrittenList(v), 2, 1, 1, 1)
      \/ Counted(WrittenList(v), 1, 2, 1, 1)
  BY StoppedLists, WrittenLists, Zenon DEF WrittenList
<1>5. Ordered(WrittenList(v))
  BY StoppedLists, WrittenLists, Zenon DEF WrittenList
<1> QED
  BY <1>1, <1>2, <1>3, <1>4, <1>5

(* A right run of a valid path is within its constraints and has all of the reference's calls. *)
LEMMA RightRunAccepted ==
  ASSUME NEW v, NEW k, NEW c, NEW t, NEW g, RightRun(v, k, c, t, g)
  PROVE  LET e == EndCalls(v, k, c, t)
         IN e \in Seq(ToolNames) /\ CheckConstraints(e, g) /\ Within(g.reference, e)
<1> DEFINE o == c.order_id
           e == EndCalls(v, k, c, t)
<1>1. \/ GradedNoId(k, o, g) /\ e = << >>
      \/ GradedNotFound(k, o, g) /\ e = UnfoundList(v, k)
      \/ GradedStop(k, o, g) /\ e = StoppedList(v, FALSE)
      \/ GradedStop(k, o, g) /\ e = StoppedList(v, TRUE)
      \/ GradedChanged(k, o, g) /\ e = StoppedList(v, TRUE)
      \/ (GradedFailure(k, o, g) \/ GradedRefund(k, o, g)) /\ e = WrittenList(v)
  BY DEF RightRun
<1> HIDE DEF e, o
<1>2. CASE GradedNoId(k, o, g) /\ e = << >>
  <2>1. g = NoIdCase /\ Counted(e, 0, 0, 0, 0) /\ g.reference = e
    BY <1>2, FirstLists, References, Zenon DEF GradedNoId
  <2>2. e \in Seq(ToolNames)
    BY <2>1 DEF Counted
  <2>3. CheckConstraints(e, g)
    BY <2>1, ConstraintsCounted
  <2>4. Within(g.reference, e)
    BY <2>1, WithinCounts
  <2> QED
    BY <2>2, <2>3, <2>4 DEF e
<1>3. CASE GradedNotFound(k, o, g) /\ e = UnfoundList(v, k)
  <2>1. g = NotFoundCase /\ g.reference = <<Lookup>>
    BY <1>3, References, Zenon DEF GradedNotFound
  <2> DEFINE l == <<Lookup>>
  <2>2. Counted(l, 1, 0, 0, 0) /\ g.reference = l
    BY <2>1, FirstLists, Zenon
  <2> HIDE DEF l
  <2>3. PICK a, b \in Nat : a >= 1 /\ Counted(e, a, b, 0, 0)
    <3>1. Counted(e, 1, 0, 0, 0) \/ Counted(e, 2, 0, 0, 0) \/ Counted(e, 1, 1, 0, 0)
      BY <1>3, ValidCounts, Zenon
    <3> QED
      BY <3>1
  <2>4. e \in Seq(ToolNames)
    BY <2>3 DEF Counted
  <2>5. CheckConstraints(e, g)
    BY <2>1, <2>3, ConstraintsCounted
  <2>6. Within(l, e)
    <3>1. Within(l, e) <=> 1 <= a /\ 0 <= b /\ 0 <= 0 /\ 0 <= 0
      BY <2>2, <2>3, WithinCounts
    <3> QED
      BY <2>3, <3>1
  <2> QED
    BY <2>2, <2>4, <2>5, <2>6 DEF e
<1>4. CASE GradedStop(k, o, g) /\ e \in {StoppedList(v, FALSE), StoppedList(v, TRUE)}
  <2>1. g = StopsAtCheck(CHECKED_PATH) /\ g.reference = <<Lookup, History, Check>>
    BY <1>4, References, Zenon DEF GradedStop
  <2> DEFINE l == <<Lookup, History, Check>>
  <2>2. Counted(l, 1, 1, 1, 0) /\ g.reference = l
    BY <2>1, MiddleLists, Zenon
  <2> HIDE DEF l
  <2>3. PICK a \in 1..2 : Counted(e, a, 1, 1, 0)
    <3>1. Counted(e, 1, 1, 1, 0) \/ Counted(e, 2, 1, 1, 0)
      BY <1>4, ValidCounts, Zenon
    <3> QED
      BY <3>1
  <2>4. e \in Seq(ToolNames) /\ Ordered(e)
    BY <1>4, <2>3, ValidCounts DEF Counted
  <2>5. CheckConstraints(e, g)
    BY <2>1, <2>3, <2>4, ConstraintsCounted
  <2>6. Within(l, e)
    <3>1. Within(l, e) <=> 1 <= a /\ 1 <= 1 /\ 1 <= 1 /\ 0 <= 0
      BY <2>2, <2>3, WithinCounts
    <3> QED
      BY <2>3, <3>1
  <2> QED
    BY <2>2, <2>4, <2>5, <2>6 DEF e
<1>5. CASE GradedChanged(k, o, g) /\ e = StoppedList(v, TRUE)
  <2> DEFINE l == <<Lookup, History, Check, Lookup>>
  <2>1. g = StopsAtCheck(Append(CHECKED_PATH, "lookup_order")) /\ g.reference = l
    BY <1>5, References, Zenon DEF GradedChanged
  <2>2. Counted(l, 2, 1, 1, 0)
    BY StoppedLists, Zenon
  <2> HIDE DEF l
  <2>3. Counted(e, 2, 1, 1, 0) /\ Ordered(e)
    BY <1>5, ValidCounts, Zenon
  <2>4. e \in Seq(ToolNames)
    BY <2>3 DEF Counted
  <2>5. CheckConstraints(e, g)
    <3>1. 2 \in 1..2 /\ 1 >= 1
      OBVIOUS
    <3> QED
      BY <2>1, <2>3, <3>1, ConstraintsCounted
  <2>6. Within(l, e)
    BY <2>2, <2>3, WithinCounts
  <2> QED
    BY <2>1, <2>4, <2>5, <2>6 DEF e
<1>6. CASE (GradedFailure(k, o, g) \/ GradedRefund(k, o, g)) /\ e = WrittenList(v)
  <2> DEFINE l == <<Lookup, History, Check, Issue>>
  <2>1. PICK n \in 1..2 : \E ends : g = Issues(ends, n)
    BY <1>6 DEF GradedFailure, GradedRefund
  <2>2. PICK ends : g = Issues(ends, n)
    BY <2>1
  <2>3. g.reference = l /\ Counted(l, 1, 1, 1, 1)
    BY <2>2, References, StoppedLists, Zenon
  <2> HIDE DEF l
  <2>4. PICK a \in 1..2 : \E b \in 1..2 : Counted(e, a, b, 1, 1)
    <3>1. Counted(e, 1, 1, 1, 1) \/ Counted(e, 2, 1, 1, 1) \/ Counted(e, 1, 2, 1, 1)
      BY <1>6, ValidCounts, Zenon
    <3> QED
      BY <3>1
  <2>5. PICK b \in 1..2 : Counted(e, a, b, 1, 1)
    BY <2>4
  <2>6. e \in Seq(ToolNames) /\ Ordered(e)
    BY <1>6, <2>5, ValidCounts DEF Counted
  <2>7. CheckConstraints(e, g)
    <3>1. 1 \in 1..n /\ 1 >= 1 /\ n \in Nat
      BY <2>1
    <3>2. CheckConstraints(e, g) <=> a \in 1..2 /\ 1 >= 1 /\ 1 \in 1..n /\ Ordered(e)
      BY <2>2, <2>5, <3>1, ConstraintsCounted
    <3> QED
      BY <2>4, <2>6, <3>1, <3>2
  <2>8. Within(l, e)
    <3>1. Within(l, e) <=> 1 <= a /\ 1 <= b /\ 1 <= 1 /\ 1 <= 1
      BY <2>3, <2>5, WithinCounts
    <3> QED
      BY <2>4, <2>5, <3>1
  <2> QED
    BY <2>3, <2>6, <2>7, <2>8 DEF e
<1> QED
  BY <1>1, <1>2, <1>3, <1>4, <1>5, <1>6

-----------------------------------------------------------------------------
(* The calls of the two runs of a finished pair are those of the table. *)
PairCalls(r, v, k, c, calls) ==
  calls = EndCalls(v, k, c, r.st.refund_type) /\ (calls \in Seq(ToolNames) => Calls(r.world) = calls)

LEMMA PairListed ==
  ASSUME NEW v, NEW k, NEW r1, NEW r2, FinishedPair(v, k, r1, r2)
  PROVE  /\ PairCalls(r1, "baseline", k, Class(r1.st), EndCalls("baseline", k, Class(r1.st), r1.st.refund_type))
         /\ PairCalls(r2, v, k, Class(r1.st), EndCalls(v, k, Class(r1.st), r2.st.refund_type))
<1> DEFINE c == Class(r1.st)
           e1 == EndCalls("baseline", k, c, r1.st.refund_type)
           e2 == EndCalls(v, k, c, r2.st.refund_type)
<1>1. r1.world.log = LogOf(k, e1) /\ r2.world.log = LogOf(k, e2)
  BY DEF FinishedPair, Settled
<1>2. (e1 \in Seq(ToolNames) => Calls(r1.world) = e1) /\ (e2 \in Seq(ToolNames) => Calls(r2.world) = e2)
  <2> HIDE DEF e1, e2
  <2> QED
    BY <1>1, CallsOfLog
<1> QED
  BY <1>2 DEF PairCalls

(* A valid path of a finished pair that ends right is one of those listed. *)
LEMMA PairRightRun ==
  ASSUME NEW v \in VALID, NEW k, NEW r1, NEW r2, FinishedPair(v, k, r1, r2),
         NEW g \in Authored(k, r2.st.order_id), CheckEndState(r2.world.refunds, g.end_states)
  PROVE  LET c == Class(r1.st)
             e == EndCalls(v, k, c, r2.st.refund_type)
         IN RightRun(v, k, c, r2.st.refund_type, g) /\ e \in Seq(ToolNames) /\ Calls(r2.world) = e
<1> DEFINE c == Class(r1.st)
           u == r2.st.refund_type
           e == EndCalls(v, k, c, u)
<1>1. k \in Case /\ c \in Classes /\ Class(r2.st) = c
  BY DEF FinishedPair
<1>2. c.order_id = r2.st.order_id
  <2>1. Class(r2.st).order_id = r2.st.order_id
    BY DEF Class
  <2> QED
    BY <1>1, <2>1
<1>3. r2.world.refunds = IF Pays(v, k, c, u) THEN <<Paid(v, r2.st)>> ELSE << >>
  BY DEF FinishedPair, Settled
<1> DEFINE row == Paid(v, r2.st)
<1>4. CheckEndState(IF Pays(v, k, c, u) THEN <<row>> ELSE << >>, g.end_states)
  BY <1>3
<1> HIDE DEF row, c, u
<1>5. RightRun(v, k, c, u, g)
  BY <1>1, <1>2, <1>4, RightRuns
<1>6. e \in Seq(ToolNames)
  BY <1>5, RightRunAccepted
<1>7. PairCalls(r2, v, k, c, e)
  BY PairListed DEF c, u
<1> QED
  BY <1>5, <1>6, <1>7 DEF PairCalls, c, u

(* The constraints as authored and the superset mode reject no valid path whose outcome is right      *)
(* (docs/part-1.3-preregistration.md, expectation 2).                                                 *)
THEOREM ValidPathsPass == PairSpec => []ValidPathsAccepted
<1>1. PairInv => ValidPathsAccepted
  <2> SUFFICES ASSUME PairInv, BothDone, variant \in VALID_VARIANTS \cup INDEPENDENT_VALID, NEW g \in RightEnd
               PROVE  CheckConstraints(Calls(world2), g) /\ Accepts("superset", world2, g)
    BY DEF ValidPathsAccepted
  <2> DEFINE c == Class(Run1.st)
             u == Run2.st.refund_type
             e == EndCalls(variant, case, c, u)
  <2>1. FinishedPair(variant, case, Run1, Run2)
    BY PairEnds
  <2>2. Run2.st = st2 /\ Run2.world = world2
    BY DEF Run2, RunOf
  <2>3. g \in Authored(case, Run2.st.order_id) /\ CheckEndState(Run2.world.refunds, g.end_states) /\ variant \in VALID
    BY <2>2 DEF RightEnd, VALID
  <2>4. RightRun(variant, case, c, u, g) /\ Calls(Run2.world) = e
    BY <2>1, <2>3, PairRightRun
  <2> HIDE DEF c, u
  <2>5. CheckConstraints(e, g) /\ Within(g.reference, e)
    BY <2>4, RightRunAccepted
  <2> HIDE DEF e
  <2>6. MatchTrajectory(e, g.reference, "superset") <=> Within(g.reference, e)
    BY DEF MatchTrajectory
  <2> QED
    BY <2>2, <2>4, <2>5, <2>6 DEF Accepts
<1> QED
  BY <1>1, RunsAreAsTabled, PTL

-----------------------------------------------------------------------------
(* The modes that accept a list with a call too many, and one in another order. *)
LEMMA ModesOfMore ==
  ASSUME NEW e, NEW reference, Within(reference, e), ~Within(e, reference)
  PROVE  {m \in MATCH_MODES : MatchTrajectory(e, reference, m)} = {"superset"}
<1>1. e # reference
  OBVIOUS
<1>2. /\ ~MatchTrajectory(e, reference, "strict") /\ ~MatchTrajectory(e, reference, "unordered")
      /\ ~MatchTrajectory(e, reference, "subset") /\ MatchTrajectory(e, reference, "superset")
  BY <1>1 DEF MatchTrajectory
<1> QED
  BY <1>2 DEF MATCH_MODES

LEMMA ModesOfOrder ==
  ASSUME NEW e, NEW reference, Within(reference, e), Within(e, reference), e # reference
  PROVE  {m \in MATCH_MODES : MatchTrajectory(e, reference, m)} = MATCH_MODES \ {"strict"}
<1>1. /\ ~MatchTrajectory(e, reference, "strict") /\ MatchTrajectory(e, reference, "unordered")
      /\ MatchTrajectory(e, reference, "subset") /\ MatchTrajectory(e, reference, "superset")
  BY DEF MatchTrajectory
<1> QED
  BY <1>1 DEF MATCH_MODES

(* In a right run V1 fires on a failed lookup, V2 on a missing order and V3 after the write. *)
FiredList(v, g, e) ==
  \/ v = "V1" /\ g = NotFoundCase /\ e = <<Lookup, Lookup>>
  \/ v = "V2" /\ g = NotFoundCase /\ e = <<Lookup, History>>
  \/ /\ v = "V3" /\ \E n \in 1..2 : \E ends : g = Issues(ends, n)
     /\ e = Append(<<Lookup, History, Check, Issue>>, History)

LEMMA RightRunFires ==
  ASSUME NEW v \in {"V1", "V2", "V3"}, NEW k, NEW c, NEW t, NEW g, RightRun(v, k, c, t, g), Fires(v, k, c, t)
  PROVE  FiredList(v, g, EndCalls(v, k, c, t))
<1> DEFINE o == c.order_id
           e == EndCalls(v, k, c, t)
<1>1. \/ GradedNoId(k, o, g) /\ ~Asked(c)
      \/ GradedNotFound(k, o, g) /\ Asked(c) /\ ~Found(v, k, c) /\ e = UnfoundList(v, k)
      \/ (GradedStop(k, o, g) \/ GradedChanged(k, o, g)) /\ ~Tries(v, k, c, t)
      \/ (GradedFailure(k, o, g) \/ GradedRefund(k, o, g)) /\ Tries(v, k, c, t) /\ e = WrittenList(v)
  BY Ladder DEF RightRun
<1>2. /\ v = "V1" => Error(v, k, c, t) \in {Lookup, History, Check}
      /\ v = "V2" => Asked(c) /\ ~Found(v, k, c)
      /\ v = "V3" => Tries(v, k, c, t)
  <2>1. v \in PAIRED
    BY DEF PAIRED, ALL_VARIANTS, INDEPENDENT_VALID, CHANGES
  <2> QED
    BY <2>1, Firing
<1> HIDE DEF e, o
<1>3. CASE GradedNoId(k, o, g) /\ ~Asked(c)
  <2>1. ~Tries(v, k, c, t) /\ Error(v, k, c, t) = None
    BY <1>3, Ladder DEF Error
  <2> QED
    BY <1>2, <1>3, <2>1, FourTools
<1>4. CASE GradedNotFound(k, o, g) /\ Asked(c) /\ ~Found(v, k, c) /\ e = UnfoundList(v, k)
  <2>1. ~Tries(v, k, c, t)
    BY <1>4, Ladder
  <2>2. g = NotFoundCase /\ ~Fails(k, History)
    BY <1>4, KindFaults DEF GradedNotFound
  <2>3. v = "V1" => Fails(k, Lookup)
    <3> SUFFICES ASSUME v = "V1", ~Fails(k, Lookup) PROVE FALSE
      OBVIOUS
    <3>1. Seen(v, k, c.order_id) = None
      BY <1>4 DEF Found
    <3>2. Error(v, k, c, t) = "no_order"
      BY <1>4, <3>1 DEF Error
    <3>3. "no_order" \notin {Lookup, History, Check}
      BY DEF Lookup, History, Check
    <3> QED
      BY <1>2, <3>2, <3>3
  <2>4. v = "V1" => e = <<Lookup, Lookup>>
    BY <1>4, <2>3, Zenon DEF UnfoundList
  <2>5. v = "V2" => e = <<Lookup, History>>
    <3>1. "V2" # "V1"
      OBVIOUS
    <3> QED
      BY <1>4, <3>1, Zenon DEF UnfoundList
  <2>6. v # "V3"
    BY <1>2, <2>1
  <2> QED
    BY <2>2, <2>4, <2>5, <2>6, Zenon DEF e, FiredList
<1>5. CASE /\ \/ (GradedStop(k, o, g) \/ GradedChanged(k, o, g)) /\ ~Tries(v, k, c, t)
              \/ (GradedFailure(k, o, g) \/ GradedRefund(k, o, g)) /\ Tries(v, k, c, t) /\ e = WrittenList(v)
  <2>1. o # None /\ OwnRow(k, o) # None /\ ~Fails(k, Lookup) /\ ~Fails(k, History) /\ ~Fails(k, Check)
    BY <1>5, KindFaults
  <2>2. Asked(c) /\ Found(v, k, c)
    BY <2>1, ValidFinds DEF o
  <2>3. Error(v, k, c, t) \notin {Lookup, History, Check}
    <3>1. Seen(v, k, c.order_id) # None
      BY <2>2 DEF Found
    <3>2. Error(v, k, c, t) \in {"order_changed", Issue, None}
      BY <2>1, <2>2, <3>1 DEF Error
    <3>3. "order_changed" \notin {Lookup, History, Check} /\ Issue \notin {Lookup, History, Check}
      BY DEF Lookup, History, Check, Issue
    <3> QED
      BY <3>2, <3>3, FourTools
  <2>4. v = "V3" /\ Tries(v, k, c, t)
    BY <1>2, <2>2, <2>3
  <2>5. e = Append(<<Lookup, History, Check, Issue>>, History)
    BY <1>5, <2>4, Zenon DEF WrittenList
  <2>6. \E n \in 1..2 : \E ends : g = Issues(ends, n)
    BY <1>5, <2>4 DEF GradedFailure, GradedRefund
  <2> QED
    BY <2>4, <2>5, <2>6, Zenon DEF e, FiredList
<1> QED
  BY <1>1, <1>3, <1>4, <1>5

(* Such a run has a call that its reference has not. *)
LEMMA FiredAddsCall ==
  ASSUME NEW v \in {"V1", "V2", "V3"}, NEW k, NEW c, NEW t, NEW g, RightRun(v, k, c, t, g), Fires(v, k, c, t)
  PROVE  ~Within(EndCalls(v, k, c, t), g.reference)
<1> DEFINE e == EndCalls(v, k, c, t)
<1>0. FiredList(v, g, e)
  BY RightRunFires
<1> HIDE DEF e
<1>1. \/ g = NotFoundCase /\ e = <<Lookup, Lookup>>
      \/ g = NotFoundCase /\ e = <<Lookup, History>>
      \/ (\E n \in 1..2 : \E ends : g = Issues(ends, n)) /\ e = Append(<<Lookup, History, Check, Issue>>, History)
  BY <1>0, Zenon DEF FiredList
<1> DEFINE l == <<Lookup>>
           l4 == <<Lookup, History, Check, Issue>>
<1>2. /\ Counted(l, 1, 0, 0, 0) /\ Counted(<<Lookup, Lookup>>, 2, 0, 0, 0) /\ Counted(<<Lookup, History>>, 1, 1, 0, 0)
      /\ Counted(l4, 1, 1, 1, 1) /\ Counted(Append(l4, History), 1, 2, 1, 1)
  BY FirstLists, StoppedLists, WrittenLists, Zenon
<1>3. NotFoundCase.reference = l /\ \A ends, n : Issues(ends, n).reference = l4
  BY References, Zenon
<1> HIDE DEF e, l
<1>4. CASE g = NotFoundCase /\ e = <<Lookup, Lookup>>
  <2>1. g.reference = l /\ Counted(e, 2, 0, 0, 0)
    BY <1>2, <1>3, <1>4, Zenon
  <2> QED
    BY <1>2, <2>1, WithinCounts DEF e
<1>5. CASE g = NotFoundCase /\ e = <<Lookup, History>>
  <2>1. g.reference = l /\ Counted(e, 1, 1, 0, 0)
    BY <1>2, <1>3, <1>5, Zenon
  <2> QED
    BY <1>2, <2>1, WithinCounts DEF e
<1>6. CASE (\E n \in 1..2 : \E ends : g = Issues(ends, n)) /\ e = Append(l4, History)
  <2>1. g.reference = l4 /\ Counted(e, 1, 2, 1, 1)
    BY <1>2, <1>3, <1>6, Zenon
  <2> HIDE DEF l4
  <2> QED
    BY <1>2, <2>1, WithinCounts DEF e
<1> QED
  BY <1>1, <1>4, <1>5, <1>6

(* M2 has called what the reference has when it pays, with the check before the history. *)
LEMMA ReorderedCalls ==
  ASSUME NEW k, NEW c, NEW t, Tries("M2", k, c, t)
  PROVE  EndCalls("M2", k, c, t) = <<Lookup, Check, History, Issue>>
<1> DEFINE v == "M2"
<1>1. Goes(v, k, c, t) /\ Plans(v, k, c) /\ Found(v, k, c) /\ Reads(v, k, c) /\ Asked(c)
  BY Ladder
<1>2. ~Fails(k, History) /\ Clears(v, k, c) /\ ~Skips(v, c)
  BY <1>1 DEF Reads, Skips
<1>3. CheckedCalls(v, k, c) = <<Lookup, Check, History>>
  BY <1>2 DEF CheckedCalls
<1>4. WriteCalls(v, k, c) = CheckedCalls(v, k, c)
  BY DEF WriteCalls, PlannedCalls
<1>5. TriedCalls(v, k, c) = Append(WriteCalls(v, k, c), Issue)
  BY DEF TriedCalls
<1>6. EndCalls(v, k, c, t) = TriedCalls(v, k, c)
  BY <1>1, <1>2 DEF EndCalls
<1>7. Append(<<Lookup, Check, History>>, Issue) = <<Lookup, Check, History, Issue>>
  BY LongLists, Zenon
<1> QED
  BY <1>3, <1>4, <1>5, <1>6, <1>7, Zenon

(* The lists in another order than their reference are other lists. *)
LEMMA OtherOrder ==
  /\ <<Lookup, Check, History, Issue>> # <<Lookup, History, Check, Issue>>
  /\ <<History, Lookup, Check>> # <<Lookup, History, Check>>
  /\ <<History, Lookup, Check, Issue>> # <<Lookup, History, Check, Issue>>
<1>1. <<Lookup, Check, History, Issue>> # <<Lookup, History, Check, Issue>>
  BY StoppedLists, Zenon
<1>2. Lookup \in ToolNames /\ History \in ToolNames /\ Check \in ToolNames /\ Issue \in ToolNames /\ Lookup # History
  BY FourTools, FourNames
<1>3. <<History, Lookup, Check>>[1] = History /\ <<Lookup, History, Check>>[1] = Lookup
  BY <1>2, ListElements, Zenon
<1>4. <<History, Lookup, Check, Issue>>[1] = History /\ <<Lookup, History, Check, Issue>>[1] = Lookup
  BY <1>2, ListElements, Zenon
<1>5. <<History, Lookup, Check>> # <<Lookup, History, Check>>
  BY <1>2, <1>3, Zenon
<1>6. <<History, Lookup, Check, Issue>> # <<Lookup, History, Check, Issue>>
  BY <1>2, <1>4, Zenon
<1> QED
  BY <1>1, <1>5, <1>6, Zenon

(* A right run of alt_history_early that comes to the check makes the reference's calls in another order. *)
LEMMA EarlyReorders ==
  ASSUME NEW k, NEW c, NEW t, NEW g, RightRun("alt_history_early", k, c, t, g),
         Count(EndCalls("alt_history_early", k, c, t), Check) >= 1
  PROVE  LET e == EndCalls("alt_history_early", k, c, t)
         IN Within(e, g.reference) /\ e # g.reference
<1> DEFINE v == "alt_history_early"
           o == c.order_id
           e == EndCalls(v, k, c, t)
           s == <<Lookup, History, Check>>
           l == <<Lookup, History, Check, Issue>>
           s1 == <<History, Lookup, Check>>
           l1 == <<History, Lookup, Check, Issue>>
<1>1. \/ e = << >> \/ e = UnfoundList(v, k)
      \/ GradedStop(k, o, g) /\ e = StoppedList(v, FALSE)
      \/ (GradedFailure(k, o, g) \/ GradedRefund(k, o, g)) /\ e = WrittenList(v)
  BY DEF RightRun
<1>2. UnfoundList(v, k) = <<History, Lookup>> /\ StoppedList(v, FALSE) = s1 /\ WrittenList(v) = l1
  <2>1. v # "V1" /\ v # "V2" /\ v # "V3"
    OBVIOUS
  <2> QED
    BY <2>1, Zenon DEF UnfoundList, StoppedList, WrittenList
<1>3. s1 # s /\ l1 # l
  BY OtherOrder, Zenon
<1>4. /\ Counted(s, 1, 1, 1, 0) /\ Counted(l, 1, 1, 1, 1) /\ Counted(s1, 1, 1, 1, 0) /\ Counted(l1, 1, 1, 1, 1)
      /\ Counted(<< >>, 0, 0, 0, 0) /\ Counted(<<History, Lookup>>, 1, 1, 0, 0)
  BY FirstLists, MiddleLists, StoppedLists, Zenon
<1>5. StopsAtCheck(CHECKED_PATH).reference = s /\ \A ends, n : Issues(ends, n).reference = l
  BY References, Zenon
<1>6. e # << >> /\ e # UnfoundList(v, k)
  <2>1. Count(<< >>, Check) = 0 /\ Count(<<History, Lookup>>, Check) = 0
    BY <1>4 DEF Counted
  <2>2. ~(0 >= 1)
    OBVIOUS
  <2>3. Count(e, Check) >= 1
    OBVIOUS
  <2> HIDE DEF e
  <2> QED
    BY <1>2, <2>1, <2>2, <2>3, Zenon
<1> HIDE DEF e, s, l, s1, l1
<1>7. \/ e = s1 /\ g.reference = s
      \/ e = l1 /\ g.reference = l
  BY <1>1, <1>2, <1>5, <1>6 DEF GradedStop, GradedFailure, GradedRefund
<1>8. Within(s1, s) /\ Within(l1, l)
  BY <1>4, WithinCounts
<1> QED
  BY <1>3, <1>7, <1>8 DEF e

-----------------------------------------------------------------------------
(* The modes that accept a right run of V1, V2 or V3 which fired, ... *)
LEMMA FiredModes ==
  ASSUME NEW v \in {"V1", "V2", "V3"}, NEW k, NEW r1, NEW r2, FinishedPair(v, k, r1, r2), r2.fired # {},
         NEW g \in Authored(k, r2.st.order_id), CheckEndState(r2.world.refunds, g.end_states)
  PROVE  {m \in MATCH_MODES : MatchTrajectory(Calls(r2.world), g.reference, m)} = {"superset"}
<1> DEFINE c == Class(r1.st)
           u == r2.st.refund_type
           e == EndCalls(v, k, c, u)
<1>1. v \in VALID /\ v # "V4"
  BY DEF VALID, INDEPENDENT_VALID
<1>2. RightRun(v, k, c, u, g) /\ e \in Seq(ToolNames) /\ Calls(r2.world) = e
  BY <1>1, PairRightRun
<1>3. Fires(v, k, c, u)
  BY <1>1 DEF FinishedPair
<1> HIDE DEF c, u
<1>4. ~Within(e, g.reference)
  BY <1>2, <1>3, FiredAddsCall
<1>5. Within(g.reference, e)
  BY <1>2, RightRunAccepted
<1> HIDE DEF e
<1>6. {m \in MATCH_MODES : MatchTrajectory(e, g.reference, m)} = {"superset"}
  BY <1>4, <1>5, ModesOfMore
<1> QED
  BY <1>2, <1>6, Zenon

(* ... one of alt_history_early which came to the check, ... *)
LEMMA EarlyModes ==
  ASSUME NEW k, NEW r1, NEW r2, FinishedPair("alt_history_early", k, r1, r2), Called(r2.world, "check_eligibility"),
         NEW g \in Authored(k, r2.st.order_id), CheckEndState(r2.world.refunds, g.end_states)
  PROVE  {m \in MATCH_MODES : MatchTrajectory(Calls(r2.world), g.reference, m)} = MATCH_MODES \ {"strict"}
<1> DEFINE v == "alt_history_early"
           c == Class(r1.st)
           u == r2.st.refund_type
           e == EndCalls(v, k, c, u)
<1>1. v \in VALID
  BY DEF VALID, VALID_VARIANTS
<1>2. RightRun(v, k, c, u, g) /\ e \in Seq(ToolNames) /\ Calls(r2.world) = e
  BY <1>1, PairRightRun
<1>3. Count(e, Check) >= 1
  <2>1. r2.world.log = LogOf(k, e)
    BY DEF FinishedPair, Settled
  <2> HIDE DEF e
  <2>2. Called(r2.world, Check) <=> Count(e, Check) >= 1
    BY <1>2, <2>1, CallsOfLog
  <2> QED
    BY <2>2 DEF Check
<1> HIDE DEF c, u
<1>4. Within(e, g.reference) /\ e # g.reference
  BY <1>2, <1>3, EarlyReorders
<1>5. Within(g.reference, e)
  BY <1>2, RightRunAccepted
<1> HIDE DEF e
<1>6. {m \in MATCH_MODES : MatchTrajectory(e, g.reference, m)} = MATCH_MODES \ {"strict"}
  BY <1>4, <1>5, ModesOfOrder
<1> QED
  BY <1>2, <1>6, Zenon

(* ... and one of M2 which paid. *)
LEMMA ReorderedModes ==
  ASSUME NEW k, NEW r1, NEW r2, FinishedPair("M2", k, r1, r2), r2.world.refunds # << >>,
         NEW g \in Authored(k, r2.st.order_id), CheckEndState(r2.world.refunds, g.end_states)
  PROVE  {m \in MATCH_MODES : MatchTrajectory(Calls(r2.world), g.reference, m)} = MATCH_MODES \ {"strict"}
<1> DEFINE c == Class(r1.st)
           u == r2.st.refund_type
           o == r2.st.order_id
           e == EndCalls("M2", k, c, u)
           paid == Pays("M2", k, c, u)
           row == Paid("M2", r2.st)
           l == <<Lookup, History, Check, Issue>>
           l2 == <<Lookup, Check, History, Issue>>
<1>1. k \in Case /\ c \in Classes /\ Class(r2.st) = c
  BY DEF FinishedPair
<1>2. o \in OrderIds \cup {None}
  <2>1. c.order_id = o
    <3>1. Class(r2.st).order_id = r2.st.order_id
      BY DEF Class
    <3> QED
      BY <1>1, <3>1
  <2> HIDE DEF c, o
  <2> QED
    BY <1>1, <2>1 DEF Classes
<1>3. /\ paid
      /\ CheckEndState(IF paid THEN <<row>> ELSE << >>, g.end_states)
  <2>1. r2.world.refunds = IF paid THEN <<row>> ELSE << >>
    BY DEF FinishedPair, Settled
  <2> QED
    BY <2>1
<1>4. Tries("M2", k, c, u)
  BY <1>3, Ladder
<1>5. e = l2
  BY <1>4, ReorderedCalls
<1>6. PairCalls(r2, "M2", k, c, e)
  BY PairListed
<1> HIDE DEF c, u, e, row, paid
<1>7. GradedRefund(k, o, g)
  <2>1. \/ GradedNoId(k, o, g) \/ GradedNotFound(k, o, g) \/ GradedStop(k, o, g)
        \/ GradedChanged(k, o, g) \/ GradedFailure(k, o, g) \/ GradedRefund(k, o, g)
    BY <1>1, <1>2, GradingKinds
  <2> HIDE DEF o
  <2>2. ~(\/ GradedNoId(k, o, g) \/ GradedNotFound(k, o, g) \/ GradedStop(k, o, g)
          \/ GradedChanged(k, o, g) \/ GradedFailure(k, o, g))
    BY <1>3, RightEnds
  <2> QED
    BY <2>1, <2>2
<1> HIDE DEF o
<1>8. g.reference = l
  <2>1. PICK ends : g = Issues(ends, 1)
    BY <1>7 DEF GradedRefund
  <2> QED
    BY <2>1, References, Zenon
<1>9. Counted(l, 1, 1, 1, 1) /\ Counted(l2, 1, 1, 1, 1) /\ l2 # l
  BY StoppedLists, OtherOrder, Zenon
<1> HIDE DEF l, l2
<1>10. Within(l, l2) /\ Within(l2, l)
  BY <1>9, WithinCounts
<1>11. l2 \in Seq(ToolNames)
  BY <1>9 DEF Counted
<1>12. Calls(r2.world) = l2
  BY <1>5, <1>6, <1>11 DEF PairCalls
<1>13. {m \in MATCH_MODES : MatchTrajectory(l2, l, m)} = MATCH_MODES \ {"strict"}
  BY <1>9, <1>10, ModesOfOrder
<1> QED
  BY <1>8, <1>12, <1>13, Zenon

(* The mode decides which kind of path is rejected, whatever its end state: an added call by all but   *)
(* superset, another order by strict alone, and words by none (docs/part-1.2-preregistration.md).      *)
THEOREM ModesTellEdits == PairSpec => []ModesSeeDirections
<1>1. PairInv => ModesSeeDirections
  <2> SUFFICES ASSUME PairInv, BothDone, NEW g \in RightEnd
               PROVE  /\ variant \in {"V1", "V2", "V3"} /\ fired2 # {} =>
                           {m \in MATCH_MODES : Accepts(m, world2, g)} = {"superset"}
                      /\ \/ variant = "M2" /\ world2.refunds # << >>
                         \/ variant = "alt_history_early" /\ Called(world2, "check_eligibility")
                         => {m \in MATCH_MODES : Accepts(m, world2, g)} = MATCH_MODES \ {"strict"}
                      /\ variant = "M8" => \A m \in MATCH_MODES : Accepts(m, world2, g) <=> Accepts(m, world1, g)
    BY DEF ModesSeeDirections
  <2>1. FinishedPair(variant, case, Run1, Run2)
    BY PairEnds
  <2>2. Run2.st = st2 /\ Run2.world = world2 /\ Run2.fired = fired2 /\ Run1.world = world1
    BY DEF Run1, Run2, RunOf
  <2>3. g \in Authored(case, Run2.st.order_id) /\ CheckEndState(Run2.world.refunds, g.end_states)
    BY <2>2 DEF RightEnd
  <2>4. {m \in MATCH_MODES : Accepts(m, world2, g)} = {m \in MATCH_MODES : MatchTrajectory(Calls(Run2.world), g.reference, m)}
    BY <2>2 DEF Accepts
  <2>5. ASSUME variant \in {"V1", "V2", "V3"}, fired2 # {}
        PROVE  {m \in MATCH_MODES : Accepts(m, world2, g)} = {"superset"}
    <3>1. {m \in MATCH_MODES : MatchTrajectory(Calls(Run2.world), g.reference, m)} = {"superset"}
      BY <2>1, <2>2, <2>3, <2>5, FiredModes
    <3> QED
      BY <2>4, <3>1, Zenon
  <2>6. ASSUME variant = "M2", world2.refunds # << >>
        PROVE  {m \in MATCH_MODES : Accepts(m, world2, g)} = MATCH_MODES \ {"strict"}
    <3>1. {m \in MATCH_MODES : MatchTrajectory(Calls(Run2.world), g.reference, m)} = MATCH_MODES \ {"strict"}
      BY <2>1, <2>2, <2>3, <2>6, ReorderedModes
    <3> QED
      BY <2>4, <3>1, Zenon
  <2>7. ASSUME variant = "alt_history_early", Called(world2, "check_eligibility")
        PROVE  {m \in MATCH_MODES : Accepts(m, world2, g)} = MATCH_MODES \ {"strict"}
    <3>1. {m \in MATCH_MODES : MatchTrajectory(Calls(Run2.world), g.reference, m)} = MATCH_MODES \ {"strict"}
      BY <2>1, <2>2, <2>3, <2>7, EarlyModes
    <3> QED
      BY <2>4, <3>1, Zenon
  <2>8. ASSUME variant = "M8" PROVE \A m \in MATCH_MODES : Accepts(m, world2, g) <=> Accepts(m, world1, g)
    <3>1. world2.log = world1.log
      BY <2>1, <2>2, <2>8, SpokenFaults
    <3>2. Calls(world2) = Calls(world1)
      BY <3>1 DEF Calls
    <3> QED
      BY <3>2 DEF Accepts
  <2> QED
    BY <2>5, <2>6, <2>7, <2>8
<1> QED
  BY <1>1, RunsAreAsTabled, PTL

-----------------------------------------------------------------------------
(* A call made once is no repeat. *)
LEMMA OnceIsNoRepeat ==
  ASSUME NEW l \in Seq(ToolNames), NEW tool, Count(l, tool) <= 1, NEW i \in DOMAIN l, l[i] = tool
  PROVE  ~\E j \in 1..(i - 1) : l[j] = tool
<1> SUFFICES ASSUME NEW j \in 1..(i - 1), l[j] = tool PROVE FALSE
  OBVIOUS
<1> DEFINE n == Len(l)
           S == {x \in DOMAIN l : l[x] = tool}
<1>1. n \in Nat /\ DOMAIN l = 1..n
  OBVIOUS
<1>2. j \in 1..n /\ i \in 1..n /\ j # i
  BY <1>1
<1>3. {j, i} \subseteq S
  BY <1>1, <1>2
<1>4. IsFiniteSet(1..n) /\ S \subseteq 1..n
  BY <1>1, FS_Interval
<1>5. Count(l, tool) = Cardinality(S)
  BY DEF Count
<1> HIDE DEF S
<1>6. IsFiniteSet(S)
  BY <1>4, FS_Subset
<1>7. Cardinality({j, i}) <= Cardinality(S) /\ Cardinality(S) \in Nat
  BY <1>3, <1>6, FS_Subset, FS_CardinalityType
<1>8. Cardinality({j, i}) = 2
  <2>1. IsFiniteSet({j}) /\ Cardinality({j}) = 1
    BY FS_Singleton
  <2>2. Cardinality({j} \cup {i}) = Cardinality({j}) + 1
    BY <1>2, <2>1, FS_AddElement
  <2>3. {j, i} = {j} \cup {i}
    OBVIOUS
  <2> QED
    BY <2>1, <2>2, <2>3
<1> QED
  BY <1>5, <1>7, <1>8

(* No rule objects to a list with no read of its tools twice. *)
LEMMA RareReads ==
  ASSUME NEW l \in Seq(ToolNames), NEW tools, \A tool \in tools : Count(l, tool) <= 1, NEW last
  PROVE  RepeatsOnlyBeforeRefund(l, tools, last)
<1> SUFFICES ASSUME NEW i \in DOMAIN l, l[i] \in tools, \E j \in 1..(i - 1) : l[j] = l[i] PROVE FALSE
  BY DEF RepeatsOnlyBeforeRefund
<1> QED
  BY OnceIsNoRepeat

(* What each of the rules asks of a run's calls. *)
LEMMA Rules ==
  ASSUME NEW r
  PROVE  /\ DOMAIN RULES = {"none", "lookup_only", "any_read", "any_read_or_stop"}
         /\ RuleOk(r, "none")
         /\ RuleOk(r, "lookup_only") <=> RepeatsOnlyBeforeRefund(r.calls, {Lookup}, FALSE)
         /\ RuleOk(r, "any_read") <=> RepeatsOnlyBeforeRefund(r.calls, {Lookup, History}, FALSE)
         /\ RuleOk(r, "any_read_or_stop") <=> RepeatsOnlyBeforeRefund(r.calls, {Lookup, History}, TRUE)
<1>1. DOMAIN RULES = {"none", "lookup_only", "any_read", "any_read_or_stop"}
  BY DEF RULES
<1>2. /\ RULES["none"] = {} /\ RULES["lookup_only"] = {Lookup} /\ RULES["any_read"] = {Lookup, History}
      /\ RULES["any_read_or_stop"] = {Lookup, History}
  BY DEF RULES, READ_TOOLS, Lookup, History
<1>3. ("none" = "any_read_or_stop") = FALSE /\ ("lookup_only" = "any_read_or_stop") = FALSE
      /\ ("any_read" = "any_read_or_stop") = FALSE /\ ("any_read_or_stop" = "any_read_or_stop") = TRUE
  OBVIOUS
<1>4. RuleOk(r, "none")
  BY <1>2 DEF RuleOk, RepeatsOnlyBeforeRefund
<1>5. RuleOk(r, "lookup_only") <=> RepeatsOnlyBeforeRefund(r.calls, {Lookup}, FALSE)
  BY <1>2, <1>3, Zenon DEF RuleOk
<1>6. RuleOk(r, "any_read") <=> RepeatsOnlyBeforeRefund(r.calls, {Lookup, History}, FALSE)
  BY <1>2, <1>3, Zenon DEF RuleOk
<1>7. RuleOk(r, "any_read_or_stop") <=> RepeatsOnlyBeforeRefund(r.calls, {Lookup, History}, TRUE)
  BY <1>2, <1>3, Zenon DEF RuleOk
<1> QED
  BY <1>1, <1>4, <1>5, <1>6, <1>7

(* A list with no read twice breaks no rule. *)
LEMMA RareReadsRuled ==
  ASSUME NEW r, NEW a, NEW b, NEW d, NEW e, Counted(r.calls, a, b, d, e), a <= 1, b <= 1, NEW rule \in DOMAIN RULES
  PROVE  RuleOk(r, rule)
<1> DEFINE l == r.calls
<1>1. l \in Seq(ToolNames) /\ Count(l, Lookup) <= 1 /\ Count(l, History) <= 1
  BY DEF Counted
<1> HIDE DEF l
<1>2. \A tools : tools \subseteq {Lookup, History} => \A tool \in tools : Count(l, tool) <= 1
  BY <1>1
<1>3. \A last : RepeatsOnlyBeforeRefund(l, {Lookup}, last) /\ RepeatsOnlyBeforeRefund(l, {Lookup, History}, last)
  BY <1>1, <1>2, RareReads
<1> QED
  BY <1>3, Rules DEF l

(* A second lookup is a repeat when it is the last call, ... *)
LEMMA RepeatRuled ==
  ASSUME NEW r, r.calls = <<Lookup, Lookup>>
  PROVE  ~RuleOk(r, "lookup_only") /\ ~RuleOk(r, "any_read") /\ RuleOk(r, "any_read_or_stop")
<1> DEFINE l == <<Lookup>>
           m == Append(l, Lookup)
<1>1. r.calls = m
  <2>1. Append(l, Lookup) = <<Lookup, Lookup>>
    BY ShortLists, Zenon
  <2> QED
    BY <2>1, Zenon
<1>2. Counted(l, 1, 0, 0, 0)
  BY FirstLists, Zenon
<1>3. m \in Seq(ToolNames)
  <2> HIDE DEF l
  <2>1. Counted(Append(l, Lookup), 1 + 1, 0, 0, 0)
    BY <1>2, CountedAppend
  <2> QED
    BY <2>1 DEF Counted
<1> HIDE DEF l
<1>4. l \in Seq(ToolNames) /\ Count(l, Lookup) >= 1 /\ \A tool \in {Lookup, History} : Count(l, tool) <= 1
  BY <1>2 DEF Counted
<1>5. \A tools : Lookup \in tools => LastRepeats(m, tools)
  <2>1. \A tools : LastRepeats(Append(l, Lookup), tools) <=> Lookup \in tools /\ Count(l, Lookup) >= 1
    BY <1>4, RepeatsAppend, FourTools
  <2> QED
    BY <1>4, <2>1
<1>6. \A tools : ~LastRepeats(l, tools)
  <2>1. l = <<Lookup>> /\ Len(<<Lookup>>) = 1
    BY DEF l
  <2>2. Len(l) = 1
    BY <2>1, Zenon
  <2> QED
    BY <2>2 DEF LastRepeats
<1>7. RepeatsOnlyBeforeRefund(l, {Lookup, History}, TRUE)
  BY <1>4, RareReads
<1>8. RepeatsOnlyBeforeRefund(m, {Lookup, History}, TRUE)
  BY <1>4, <1>6, <1>7, RepeatsAppend, FourTools
<1>9. ~RepeatsOnlyBeforeRefund(m, {Lookup}, FALSE) /\ ~RepeatsOnlyBeforeRefund(m, {Lookup, History}, FALSE)
  BY <1>3, <1>5, RepeatsLastToo
<1> HIDE DEF m
<1> QED
  BY <1>1, <1>8, <1>9, Rules

(* ... a second history read after the write is one for the rule on any read, ... *)
LEMMA LateReadRuled ==
  ASSUME NEW r, r.calls = Append(<<Lookup, History, Check, Issue>>, History)
  PROVE  RuleOk(r, "lookup_only") /\ ~RuleOk(r, "any_read") /\ RuleOk(r, "any_read_or_stop")
<1> DEFINE l == <<Lookup, History, Check>>
           l4 == Append(l, Issue)
           m == Append(l4, History)
<1>1. r.calls = m
  <2>1. Append(<<Lookup, History, Check>>, Issue) = <<Lookup, History, Check, Issue>>
    BY LongLists, Zenon
  <2> QED
    BY <2>1, Zenon
<1>2. Counted(l, 1, 1, 1, 0)
  BY MiddleLists, Zenon
<1> HIDE DEF l
<1>3. Counted(l4, 1, 1, 1, 1)
  <2>1. Counted(Append(l, Issue), 1, 1, 1, 0 + 1)
    BY <1>2, CountedAppend
  <2> QED
    BY <2>1
<1>4. ~LastRepeats(l4, {Lookup, History})
  <2>1. l \in Seq(ToolNames)
    BY <1>2 DEF Counted
  <2>2. \A tools : LastRepeats(Append(l, Issue), tools) <=> Issue \in tools /\ Count(l, Issue) >= 1
    BY <2>1, RepeatsAppend, FourTools
  <2> QED
    BY <2>2, FourNames
<1> HIDE DEF l4
<1>5. Counted(m, 1, 1 + 1, 1, 1)
  BY <1>3, CountedAppend
<1>6. l4 \in Seq(ToolNames) /\ Count(l4, History) >= 1 /\ \A tool \in {Lookup, History} : Count(l4, tool) <= 1
  BY <1>3 DEF Counted
<1>7. m \in Seq(ToolNames) /\ \A tool \in {Lookup} : Count(m, tool) <= 1
  BY <1>5 DEF Counted
<1>8. LastRepeats(m, {Lookup, History})
  <2>1. \A tools : LastRepeats(Append(l4, History), tools) <=> History \in tools /\ Count(l4, History) >= 1
    BY <1>6, RepeatsAppend, FourTools
  <2> QED
    BY <1>6, <2>1
<1>9. RepeatsOnlyBeforeRefund(l4, {Lookup, History}, TRUE)
  BY <1>6, RareReads
<1>10. RepeatsOnlyBeforeRefund(m, {Lookup, History}, TRUE)
  BY <1>4, <1>6, <1>9, RepeatsAppend, FourTools
<1>11. ~RepeatsOnlyBeforeRefund(m, {Lookup, History}, FALSE)
  BY <1>7, <1>8, RepeatsLastToo
<1>12. RepeatsOnlyBeforeRefund(m, {Lookup}, FALSE)
  BY <1>7, RareReads
<1> HIDE DEF m
<1> QED
  BY <1>1, <1>10, <1>11, <1>12, Rules

(* ... and a second lookup after the check is one, unless the run stops there or writes next. *)
LEMMA RereadRuled ==
  ASSUME NEW r
  PROVE  /\ r.calls = <<Lookup, History, Check, Lookup>> => RuleOk(r, "any_read_or_stop")
         /\ r.calls = Append(<<Lookup, History, Check, Lookup>>, Issue) => \A rule \in DOMAIN RULES : RuleOk(r, rule)
<1> DEFINE l == <<Lookup, History, Check>>
           l4 == Append(l, Lookup)
           m == Append(l4, Issue)
<1>1. l4 = <<Lookup, History, Check, Lookup>> /\ m = Append(<<Lookup, History, Check, Lookup>>, Issue)
  <2>1. Append(<<Lookup, History, Check>>, Lookup) = <<Lookup, History, Check, Lookup>>
    BY LongLists, Zenon
  <2> QED
    BY <2>1, Zenon
<1>2. Counted(l, 1, 1, 1, 0)
  BY MiddleLists, Zenon
<1>3. \A tools : tools \subseteq {Lookup, History} => ~LastRepeats(l, tools)
  <2>1. Append(<<Lookup, History>>, Check) = <<Lookup, History, Check>>
    BY LongerLists, Zenon
  <2> DEFINE k == <<Lookup, History>>
  <2>2. Append(k, Check) = l /\ Counted(k, 1, 1, 0, 0)
    BY <2>1, FirstLists, Zenon
  <2> HIDE DEF k, l
  <2>3. k \in Seq(ToolNames)
    BY <2>2 DEF Counted
  <2>4. \A tools : LastRepeats(Append(k, Check), tools) <=> Check \in tools /\ Count(k, Check) >= 1
    BY <2>3, RepeatsAppend, FourTools
  <2> QED
    BY <2>2, <2>4, FourNames
<1> HIDE DEF l
<1>4. l \in Seq(ToolNames) /\ Count(l, Lookup) <= 1 /\ Count(l, History) <= 1
  BY <1>2 DEF Counted
<1>5. \A tools : tools \subseteq {Lookup, History} => RepeatsOnlyBeforeRefund(l, tools, TRUE)
  BY <1>4, RareReads
<1>6. \A tools : tools \subseteq {Lookup, History} => RepeatsOnlyBeforeRefund(l4, tools, TRUE)
  BY <1>3, <1>4, <1>5, RepeatsAppend, FourTools
<1>7. Counted(l4, 1 + 1, 1, 1, 0)
  BY <1>2, CountedAppend
<1> HIDE DEF l4
<1>8. l4 \in Seq(ToolNames)
  BY <1>7 DEF Counted
<1>9. Counted(m, 1 + 1, 1, 1, 0 + 1)
  BY <1>7, CountedAppend
<1>10. m \in Seq(ToolNames)
  BY <1>9 DEF Counted
<1>11. \A tools : tools \subseteq {Lookup, History} => RepeatsOnlyBeforeRefund(m, tools, TRUE) /\ ~LastRepeats(m, tools)
  BY <1>6, <1>8, RepeatsAppend, FourTools, FourNames
<1> HIDE DEF m
<1>12. \A tools : tools \subseteq {Lookup, History} => RepeatsOnlyBeforeRefund(m, tools, FALSE)
  BY <1>10, <1>11, RepeatsLastToo
<1>13. r.calls = l4 => RuleOk(r, "any_read_or_stop")
  BY <1>6, Rules
<1>14. r.calls = m => \A rule \in DOMAIN RULES : RuleOk(r, rule)
  BY <1>11, <1>12, Rules
<1> QED
  BY <1>1, <1>13, <1>14, Zenon

-----------------------------------------------------------------------------
(* Runs with the same calls and the same verdicts on them are rejected by the same checks. *)
LEMMA RejectsAlike ==
  ASSUME NEW r, NEW base, r.mode_pass = base.mode_pass, r.constraints_pass <=> base.constraints_pass, r.calls = base.calls
  PROVE  Rejecting(r) = Rejecting(base)
<1>1. \A name : RuleOk(r, name) <=> RuleOk(base, name)
  BY DEF RuleOk
<1>2. \A name : AlternateCheck(r, name) <=> AlternateCheck(base, name)
  BY <1>1 DEF AlternateCheck
<1> QED
  BY <1>2 DEF Rejecting

(* A run within its constraints with a call too many is rejected by three modes and the rules it breaks. *)
LEMMA RejectsMore ==
  ASSUME NEW r, {m \in MATCH_MODES : r.mode_pass[m]} = {"superset"}, r.constraints_pass
  PROVE  Rejecting(r) = SamePath \cup {rule \in DOMAIN RULES : ~RuleOk(r, rule)}
<1>1. MATCH_MODES = {"strict", "unordered", "subset", "superset"}
  BY DEF MATCH_MODES
<1>2. \A name \in DOMAIN RULES : name \notin MATCH_MODES
  BY <1>1, Rules
<1>3. \A m \in MATCH_MODES : ~AlternateCheck(r, m) <=> m \in SamePath
  <2>1. \A m \in MATCH_MODES : r.mode_pass[m] <=> m = "superset"
    OBVIOUS
  <2>2. \A m \in MATCH_MODES : m \in SamePath <=> m # "superset"
    BY <1>1 DEF SamePath
  <2> QED
    BY <2>1, <2>2 DEF AlternateCheck
<1>4. \A name \in DOMAIN RULES : ~AlternateCheck(r, name) <=> ~RuleOk(r, name)
  BY <1>2 DEF AlternateCheck
<1>5. SamePath \subseteq MATCH_MODES
  BY <1>1 DEF SamePath
<1> QED
  BY <1>2, <1>3, <1>4, <1>5 DEF Rejecting

(* The rules that reject a right run of V1, V2 or V3 which fired. *)
LEMMA FiredRuled ==
  ASSUME NEW v \in {"V1", "V2", "V3"}, NEW g, NEW r, FiredList(v, g, r.calls)
  PROVE  {rule \in DOMAIN RULES : ~RuleOk(r, rule)} =
           CASE v = "V1" -> {"lookup_only", "any_read"} [] v = "V2" -> {} [] v = "V3" -> {"any_read"}
<1> DEFINE broken == {rule \in DOMAIN RULES : ~RuleOk(r, rule)}
<1>1. CASE v = "V1"
  <2>1. r.calls = <<Lookup, Lookup>>
    <3>1. "V1" # "V2" /\ "V1" # "V3"
      OBVIOUS
    <3> QED
      BY <1>1, <3>1, Zenon DEF FiredList
  <2>2. ~RuleOk(r, "lookup_only") /\ ~RuleOk(r, "any_read") /\ RuleOk(r, "any_read_or_stop")
    BY <2>1, RepeatRuled
  <2>3. broken = {"lookup_only", "any_read"}
    BY <2>2, Rules
  <2> QED
    BY <1>1, <2>3
<1>2. CASE v = "V2"
  <2>1. r.calls = <<Lookup, History>>
    <3>1. "V2" # "V1" /\ "V2" # "V3"
      OBVIOUS
    <3> QED
      BY <1>2, <3>1, Zenon DEF FiredList
  <2>2. Counted(r.calls, 1, 1, 0, 0)
    BY <2>1, FirstLists, Zenon
  <2>3. \A rule \in DOMAIN RULES : RuleOk(r, rule)
    BY <2>2, RareReadsRuled
  <2>4. broken = {}
    BY <2>3
  <2> QED
    BY <1>2, <2>4
<1>3. CASE v = "V3"
  <2>1. r.calls = Append(<<Lookup, History, Check, Issue>>, History)
    <3>1. "V3" # "V1" /\ "V3" # "V2"
      OBVIOUS
    <3> QED
      BY <1>3, <3>1, Zenon DEF FiredList
  <2>2. RuleOk(r, "lookup_only") /\ ~RuleOk(r, "any_read") /\ RuleOk(r, "any_read_or_stop")
    BY <2>1, LateReadRuled
  <2>3. broken = {"any_read"}
    BY <2>2, Rules
  <2> QED
    BY <1>3, <2>3
<1> QED
  BY <1>1, <1>2, <1>3

(* The re-read before the write breaks no rule, the one that stops the run only those without the stop. *)
LEMMA RereadsRuled ==
  ASSUME NEW v \in {"alt_recheck", "alt_verify"}, NEW k, NEW c, NEW t, NEW g, RightRun(v, k, c, t, g),
         NEW r, r.calls = EndCalls(v, k, c, t)
  PROVE  RuleOk(r, "any_read_or_stop") /\ (v = "alt_recheck" => \A rule \in DOMAIN RULES : RuleOk(r, rule))
<1> DEFINE e == EndCalls(v, k, c, t)
           every == \A rule \in DOMAIN RULES : RuleOk(r, rule)
<1>1. \/ e = << >> \/ e = <<Lookup>> \/ e = <<Lookup, History, Check>>
      \/ e = <<Lookup, History, Check, Lookup>> /\ v = "alt_verify"
      \/ e = Append(<<Lookup, History, Check, Lookup>>, Issue)
  <2>1. \/ e = << >> \/ e = UnfoundList(v, k) \/ e = StoppedList(v, FALSE)
        \/ e = StoppedList(v, TRUE) /\ v = "alt_verify"
        \/ e = WrittenList(v)
    BY DEF RightRun
  <2>2. v # "V1" /\ v # "V2" /\ v # "V3" /\ v # "alt_history_early"
    OBVIOUS
  <2>3. /\ UnfoundList(v, k) = <<Lookup>> /\ StoppedList(v, FALSE) = <<Lookup, History, Check>>
        /\ StoppedList(v, TRUE) = <<Lookup, History, Check, Lookup>>
        /\ WrittenList(v) = Append(<<Lookup, History, Check, Lookup>>, Issue)
    BY <2>2, Zenon DEF UnfoundList, StoppedList, WrittenList
  <2> HIDE DEF e
  <2> QED
    BY <2>1, <2>3, Zenon
<1>2. r.calls = e /\ "any_read_or_stop" \in DOMAIN RULES
  BY Rules
<1> HIDE DEF e
<1>3. CASE e = << >> \/ e = <<Lookup>> \/ e = <<Lookup, History, Check>>
  <2>1. Counted(e, 0, 0, 0, 0) \/ Counted(e, 1, 0, 0, 0) \/ Counted(e, 1, 1, 1, 0)
    BY <1>3, FirstLists, MiddleLists, Zenon
  <2>2. PICK a \in 0..1, b \in 0..1, d \in 0..1 : Counted(e, a, b, d, 0)
    BY <2>1
  <2>3. Counted(r.calls, a, b, d, 0) /\ a <= 1 /\ b <= 1
    BY <1>2, <2>2
  <2>4. every
    BY <2>3, RareReadsRuled
  <2> QED
    BY <1>2, <2>4
<1>4. CASE e = <<Lookup, History, Check, Lookup>> /\ v = "alt_verify"
  <2>1. RuleOk(r, "any_read_or_stop")
    BY <1>2, <1>4, RereadRuled, Zenon
  <2>2. v # "alt_recheck"
    BY <1>4
  <2> QED
    BY <2>1, <2>2
<1>5. CASE e = Append(<<Lookup, History, Check, Lookup>>, Issue)
  <2>1. every
    BY <1>2, <1>5, RereadRuled, Zenon
  <2> QED
    BY <1>2, <2>1
<1> QED
  BY <1>1, <1>3, <1>4, <1>5

(* The predictions for the alternates hold of every case and every model                              *)
(* (docs/part-1.3-preregistration.md:56-64).                                                          *)
THEOREM AlternatesPredicted == PairSpec => []AlternatesAsPredicted
<1>1. PairInv => AlternatesAsPredicted
  <2> SUFFICES ASSUME PairInv, BothDone, NEW g \in Gradings
               PROVE  LET r == Graded2(g, Endorsed)
                      IN r.end_state_pass =>
                         /\ variant \in INDEPENDENT_VALID =>
                              Rejecting(r) = IF fired2 = {} \/ variant = "V4" THEN Rejecting(Graded1(g, Endorsed))
                                             ELSE CASE variant = "V1" -> SamePath \cup {"lookup_only", "any_read"}
                                                    [] variant = "V2" -> SamePath
                                                    [] variant = "V3" -> SamePath \cup {"any_read"}
                         /\ variant = "alt_recheck" => Rejecting(r) \cap DOMAIN RULES = {}
                         /\ variant = "alt_verify" => "any_read_or_stop" \notin Rejecting(r)
    BY DEF AlternatesAsPredicted
  <2> DEFINE r == Graded2(g, Endorsed)
             base == Graded1(g, Endorsed)
             c == Class(Run1.st)
             u == Run2.st.refund_type
             e == EndCalls(variant, case, c, u)
  <2>1. FinishedPair(variant, case, Run1, Run2)
    BY PairEnds
  <2>2. Run2.st = st2 /\ Run2.world = world2 /\ Run2.fired = fired2 /\ Run1.world = world1
    BY DEF Run1, Run2, RunOf
  <2>3. /\ r.calls = Calls(world2) /\ base.calls = Calls(world1)
        /\ r.end_state_pass <=> CheckEndState(world2.refunds, g.end_states)
        /\ r.constraints_pass <=> CheckConstraints(Calls(world2), g)
        /\ base.constraints_pass <=> CheckConstraints(Calls(world1), g)
        /\ r.mode_pass = [m \in MATCH_MODES |-> MatchTrajectory(Calls(world2), g.reference, m)]
        /\ base.mode_pass = [m \in MATCH_MODES |-> MatchTrajectory(Calls(world1), g.reference, m)]
    BY PairGraded
  <2> HIDE DEF r, base
  <2> SUFFICES ASSUME r.end_state_pass
               PROVE  /\ variant \in INDEPENDENT_VALID =>
                           Rejecting(r) = IF fired2 = {} \/ variant = "V4" THEN Rejecting(base)
                                          ELSE CASE variant = "V1" -> SamePath \cup {"lookup_only", "any_read"}
                                                 [] variant = "V2" -> SamePath
                                                 [] variant = "V3" -> SamePath \cup {"any_read"}
                      /\ variant = "alt_recheck" => Rejecting(r) \cap DOMAIN RULES = {}
                      /\ variant = "alt_verify" => "any_read_or_stop" \notin Rejecting(r)
    BY DEF r, base
  <2>4. g \in Authored(case, Run2.st.order_id) /\ CheckEndState(Run2.world.refunds, g.end_states)
    BY <2>2, <2>3 DEF Gradings
  <2>5. variant \in VALID => RightRun(variant, case, c, u, g) /\ e \in Seq(ToolNames) /\ Calls(Run2.world) = e
    BY <2>1, <2>4, PairRightRun
  <2>6. variant # "V4" => (fired2 # {} <=> Fires(variant, case, c, u))
    BY <2>1, <2>2 DEF FinishedPair
  <2>7. variant \in INDEPENDENT_VALID \cup {"alt_recheck", "alt_verify"} => variant \in VALID
    BY DEF VALID, VALID_VARIANTS
  <2>8. INDEPENDENT_VALID = {"V1", "V2", "V3", "V4", "V5", "V6"}
    BY DEF INDEPENDENT_VALID
  <2>9. \A m \in MATCH_MODES : r.mode_pass[m] = MatchTrajectory(Calls(Run2.world), g.reference, m)
    BY <2>2, <2>3
  <2> HIDE DEF c, u
  <2>10. variant \in VALID => r.constraints_pass /\ r.calls = e
    <3>1. variant \in VALID => CheckConstraints(e, g)
      BY <2>5, RightRunAccepted
    <3> HIDE DEF e
    <3> QED
      BY <2>2, <2>3, <2>5, <3>1
  <2>11. ASSUME variant \in INDEPENDENT_VALID, fired2 = {} \/ variant = "V4" PROVE Rejecting(r) = Rejecting(base)
    <3>1. world2.log = world1.log
      <4>1. CASE variant \in {"V4", "V5", "V6"}
        BY <2>1, <2>2, <4>1, PairTraffic
      <4>2. CASE variant \in {"V1", "V2", "V3"}
        <5>1. \/ Run2.fired = {} /\ Run2.world.log = Run1.world.log
              \/ Run2.fired # {} /\ Front(Run2.world.log) = Run1.world.log
          BY <2>1, <4>2, PairTraffic
        <5>2. fired2 = {}
          BY <2>11, <4>2
        <5> QED
          BY <2>2, <5>1, <5>2
      <4> QED
        BY <2>8, <2>11, <4>1, <4>2
    <3>2. Calls(world2) = Calls(world1)
      BY <3>1 DEF Calls
    <3> QED
      BY <2>3, <3>2, RejectsAlike
  <2>12. ASSUME variant \in INDEPENDENT_VALID, fired2 # {}, variant # "V4"
         PROVE  Rejecting(r) = CASE variant = "V1" -> SamePath \cup {"lookup_only", "any_read"}
                                 [] variant = "V2" -> SamePath
                                 [] variant = "V3" -> SamePath \cup {"any_read"}
    <3>1. Fires(variant, case, c, u) /\ variant \in PAIRED
      BY <2>1, <2>6, <2>12 DEF FinishedPair
    <3>2. variant \in {"V1", "V2", "V3"}
      BY <2>8, <2>12, <3>1, Firing
    <3>3. FiredList(variant, g, e)
      BY <2>5, <2>7, <2>12, <3>1, <3>2, RightRunFires
    <3>4. {m \in MATCH_MODES : MatchTrajectory(Calls(Run2.world), g.reference, m)} = {"superset"}
      <4>1. Run2.fired # {}
        BY <2>2, <2>12
      <4> QED
        BY <2>1, <2>4, <3>2, <4>1, FiredModes
    <3>5. {m \in MATCH_MODES : r.mode_pass[m]} = {"superset"}
      BY <2>9, <3>4
    <3>6. FiredList(variant, g, r.calls) /\ r.constraints_pass
      BY <2>7, <2>10, <2>12, <3>3
    <3> HIDE DEF e
    <3> DEFINE broken == {rule \in DOMAIN RULES : ~RuleOk(r, rule)}
    <3>7. Rejecting(r) = SamePath \cup broken
      BY <3>5, <3>6, RejectsMore
    <3>8. broken = CASE variant = "V1" -> {"lookup_only", "any_read"} [] variant = "V2" -> {} [] variant = "V3" -> {"any_read"}
      BY <3>2, <3>6, FiredRuled
    <3> HIDE DEF broken
    <3> QED
      BY <3>2, <3>7, <3>8
  <2>13. ASSUME variant = "alt_recheck" PROVE Rejecting(r) \cap DOMAIN RULES = {}
    <3>1. \A rule \in DOMAIN RULES : RuleOk(r, rule)
      BY <2>5, <2>7, <2>10, <2>13, RereadsRuled
    <3>2. \A name \in DOMAIN RULES : name \notin MATCH_MODES
      BY Rules DEF MATCH_MODES
    <3> QED
      BY <2>7, <2>10, <2>13, <3>1, <3>2 DEF Rejecting, AlternateCheck
  <2>14. ASSUME variant = "alt_verify" PROVE "any_read_or_stop" \notin Rejecting(r)
    <3>1. RuleOk(r, "any_read_or_stop")
      BY <2>5, <2>7, <2>10, <2>14, RereadsRuled
    <3>2. "any_read_or_stop" \notin MATCH_MODES
      BY DEF MATCH_MODES
    <3> QED
      BY <2>7, <2>10, <2>14, <3>1, <3>2 DEF Rejecting, AlternateCheck
  <2> QED
    BY <2>11, <2>12, <2>13, <2>14
<1> QED
  BY <1>1, RunsAreAsTabled, PTL

-----------------------------------------------------------------------------
(* A run whose order is there and whose reads and check answer. *)
CalmReads(k, c) ==
  /\ Asked(c) /\ OwnRow(k, c.order_id) # None
  /\ ~Fails(k, Lookup) /\ ~Fails(k, History) /\ ~Fails(k, Check)

(* The baseline stops about the check where its case wants that, ... *)
BaseStops(k, c, t, g) ==
  CalmReads(k, c) /\ ~Tries("baseline", k, c, t) /\ \E path : g = StopsAtCheck(path)

(* ... and writes where its case wants that, of which a failed write may be tried twice. *)
BaseRefunds(k, c, t, g) ==
  /\ CalmReads(k, c) /\ Tries("baseline", k, c, t)
  /\ \E n \in 1..2 : \E ends : g = Issues(ends, n) /\ (Fails(k, Issue) => n = 2)

(* The order is found by every variant. *)
LEMMA CalmFinds ==
  ASSUME NEW v, NEW k, NEW c, CalmReads(k, c)
  PROVE  Found(v, k, c) /\ Seen(v, k, c.order_id) = OwnRow(k, c.order_id)
<1>1. Seen(v, k, c.order_id) = OwnRow(k, c.order_id)
  BY SeenOwn DEF CalmReads
<1> QED
  BY <1>1 DEF Found, CalmReads

(* Where the constraints accept the baseline's run, it has done what its case wants. *)
LEMMA BaseAccepted ==
  ASSUME NEW k \in Case, NEW c \in Classes, NEW t, NEW g \in Authored(k, c.order_id),
         CheckConstraints(EndCalls("baseline", k, c, t), g)
  PROVE  \/ GradedNoId(k, c.order_id, g) \/ GradedNotFound(k, c.order_id, g)
         \/ BaseStops(k, c, t, g) \/ BaseRefunds(k, c, t, g)
<1> DEFINE b == "baseline"
           o == c.order_id
           e == EndCalls(b, k, c, t)
           l == <<Lookup, History, Check>>
           l2 == <<Lookup, History, Check, Issue>>
<1>1. o \in OrderIds \cup {None}
  BY DEF Classes
<1>2. \/ GradedNoId(k, o, g) \/ GradedNotFound(k, o, g) \/ GradedStop(k, o, g)
      \/ GradedChanged(k, o, g) \/ GradedFailure(k, o, g) \/ GradedRefund(k, o, g)
  BY <1>1, GradingKinds
<1>3. SUFFICES ASSUME GradedStop(k, o, g) \/ GradedChanged(k, o, g) \/ GradedFailure(k, o, g) \/ GradedRefund(k, o, g)
               PROVE  BaseStops(k, c, t, g) \/ BaseRefunds(k, c, t, g)
  BY <1>2
<1>4. CalmReads(k, c)
  BY <1>3, KindFaults DEF CalmReads, Asked
<1>5. Found(b, k, c) /\ b \in PLAIN
  BY <1>4, CalmFinds DEF PLAIN
<1>6. e = IF Tries(b, k, c, t) THEN l2 ELSE l
  BY <1>4, <1>5, PlainCalls DEF CalmReads
<1>7. Counted(l, 1, 1, 1, 0) /\ Counted(l2, 1, 1, 1, 1)
  BY MiddleLists, StoppedLists, Zenon
<1> HIDE DEF e, l, l2, b
<1>8. CASE GradedStop(k, o, g) \/ GradedChanged(k, o, g)
  <2>1. PICK path : g = StopsAtCheck(path)
    BY <1>8 DEF GradedStop, GradedChanged
  <2>2. ~CheckConstraints(l2, g)
    <3>1. 1 # 0
      OBVIOUS
    <3> QED
      BY <1>7, <2>1, <3>1, ConstraintsCounted
  <2>3. CheckConstraints(e, g)
    BY DEF e, b
  <2>4. ~Tries(b, k, c, t)
    BY <1>6, <2>2, <2>3
  <2> QED
    BY <1>4, <2>1, <2>4 DEF BaseStops, b
<1>9. CASE GradedFailure(k, o, g) \/ GradedRefund(k, o, g)
  <2>1. PICK n \in 1..2 : \E ends : g = Issues(ends, n) /\ (Fails(k, Issue) => n = 2)
    <3>1. CASE GradedFailure(k, o, g)
      BY <3>1 DEF GradedFailure
    <3>2. CASE GradedRefund(k, o, g)
      <4>1. ~Fails(k, Issue)
        BY <3>2, KindFaults
      <4> QED
        BY <3>2, <4>1 DEF GradedRefund
    <3> QED
      BY <1>9, <3>1, <3>2
  <2>2. ~CheckConstraints(l, g)
    <3>1. ~(0 \in 1..n) /\ n \in Nat
      BY <2>1
    <3> QED
      BY <1>7, <2>1, <3>1, ConstraintsCounted
  <2>3. CheckConstraints(e, g)
    BY DEF e, b
  <2>4. Tries(b, k, c, t)
    BY <1>6, <2>2, <2>3
  <2> QED
    BY <1>4, <2>1, <2>4 DEF BaseRefunds, b
<1> QED
  BY <1>3, <1>8, <1>9

(* What the constraints then say of another list. *)
LEMMA JudgedBeside ==
  ASSUME NEW k, NEW c, NEW t, NEW g, NEW l, NEW a, NEW b, NEW d, NEW e, Counted(l, a, b, d, e)
  PROVE  /\ BaseStops(k, c, t, g) => (CheckConstraints(l, g) <=> a \in 1..2 /\ d >= 1 /\ e = 0 /\ Ordered(l))
         /\ BaseRefunds(k, c, t, g) /\ CheckConstraints(l, g) => a \in 1..2 /\ d >= 1 /\ e >= 1 /\ Ordered(l)
         /\ BaseRefunds(k, c, t, g) /\ a \in 1..2 /\ d >= 1 /\ e = 1 /\ Ordered(l) => CheckConstraints(l, g)
         /\ BaseRefunds(k, c, t, g) /\ Fails(k, Issue) /\ a \in 1..2 /\ d >= 1 /\ e = 2 /\ Ordered(l) => CheckConstraints(l, g)
<1>1. BaseStops(k, c, t, g) => (CheckConstraints(l, g) <=> a \in 1..2 /\ d >= 1 /\ e = 0 /\ Ordered(l))
  BY ConstraintsCounted DEF BaseStops
<1>2. ASSUME BaseRefunds(k, c, t, g)
      PROVE  \E n \in 1..2 : /\ Fails(k, Issue) => n = 2
                             /\ CheckConstraints(l, g) <=> a \in 1..2 /\ d >= 1 /\ e \in 1..n /\ Ordered(l)
  <2>1. PICK n \in 1..2 : \E ends : g = Issues(ends, n) /\ (Fails(k, Issue) => n = 2)
    BY <1>2 DEF BaseRefunds
  <2>2. n \in Nat
    BY <2>1
  <2>3. CheckConstraints(l, g) <=> a \in 1..2 /\ d >= 1 /\ e \in 1..n /\ Ordered(l)
    BY <2>1, <2>2, ConstraintsCounted
  <2> QED
    BY <2>1, <2>3
<1> QED
  BY <1>1, <1>2

(* A mutant other than M3 fires only once it has found an order, so that one is there. *)
LEMMA FiredFinds ==
  ASSUME NEW v \in MUTANTS \cup INDEPENDENT_MUTANTS, v # "M3", NEW k, NEW c, NEW t, Fires(v, k, c, t)
  PROVE  Found(v, k, c) /\ c.order_id # None /\ ~Fails(k, Lookup) /\ OwnRow(k, c.order_id) # None
<1>1. v \in PAIRED /\ v \in {"A", "B", "C", "C1", "C2", "M1", "M2", "M4", "M5", "M6", "M7", "M8"}
  BY DEF PAIRED, ALL_VARIANTS, MUTANTS, INDEPENDENT_MUTANTS, CHANGES
<1>2. \/ Reads(v, k, c) \/ Tries(v, k, c, t) \/ Checks(v, k, c) \/ MustAsk(v, k, c, t) \/ Plans(v, k, c)
      \/ Goes(v, k, c, t)
  BY <1>1, Firing
<1>3. Reads(v, k, c) => Found(v, k, c)
  BY <1>1 DEF Reads
<1>4. Found(v, k, c)
  BY <1>2, <1>3, Ladder
<1>5. Seen(v, k, c.order_id) = OwnRow(k, c.order_id)
  BY SeenOwn
<1> QED
  BY <1>4, <1>5 DEF Found, Asked

(* So its case wants at least the check of the baseline. *)
LEMMA FiredBase ==
  ASSUME NEW v \in MUTANTS \cup INDEPENDENT_MUTANTS, v # "M3", NEW k \in Case, NEW c \in Classes, NEW t, NEW u,
         NEW g \in Authored(k, c.order_id), CheckConstraints(EndCalls("baseline", k, c, t), g), Fires(v, k, c, u)
  PROVE  (BaseStops(k, c, t, g) \/ BaseRefunds(k, c, t, g)) /\ CalmReads(k, c)
<1>1. c.order_id # None /\ ~Fails(k, Lookup) /\ OwnRow(k, c.order_id) # None
  BY FiredFinds
<1>2. ~GradedNoId(k, c.order_id, g) /\ ~GradedNotFound(k, c.order_id, g)
  BY <1>1 DEF GradedNoId, GradedNotFound
<1>3. BaseStops(k, c, t, g) \/ BaseRefunds(k, c, t, g)
  BY <1>2, BaseAccepted
<1> QED
  BY <1>3 DEF BaseStops, BaseRefunds

-----------------------------------------------------------------------------
(* A run that calls what the baseline may is accepted when it writes as the baseline does, and repeats no read. *)
LEMMA PlainJudged ==
  ASSUME NEW v \in PLAIN, NEW k, NEW c, NEW t, NEW u, NEW g, BaseStops(k, c, t, g) \/ BaseRefunds(k, c, t, g)
  PROVE  LET e == EndCalls(v, k, c, u)
         IN /\ CheckConstraints(e, g) <=> (Tries(v, k, c, u) <=> Tries("baseline", k, c, t))
            /\ Count(e, Issue) >= 1 <=> Tries(v, k, c, u)
            /\ \E d : \E i : Counted(e, 1, 1, d, i)
<1> DEFINE e == EndCalls(v, k, c, u)
           l == <<Lookup, History, Check>>
           l2 == <<Lookup, History, Check, Issue>>
           tries == Tries(v, k, c, u)
           base == Tries("baseline", k, c, t)
<1>1. CalmReads(k, c)
  BY DEF BaseStops, BaseRefunds
<1>2. e = IF tries THEN l2 ELSE l
  BY <1>1, CalmFinds, PlainCalls DEF CalmReads
<1>3. Counted(l, 1, 1, 1, 0) /\ Counted(l2, 1, 1, 1, 1) /\ Ordered(l) /\ Ordered(l2)
  BY MiddleLists, StoppedLists, Zenon
<1>4. (BaseStops(k, c, t, g) => ~base) /\ (BaseRefunds(k, c, t, g) => base)
  BY DEF BaseStops, BaseRefunds
<1> HIDE DEF e, l, l2, tries, base
<1>5. 1 \in 1..2 /\ 1 >= 1 /\ ~(0 >= 1) /\ 1 # 0
  OBVIOUS
<1>6. CASE tries
  <2>1. e = l2
    BY <1>2, <1>6
  <2>2. BaseStops(k, c, t, g) => ~CheckConstraints(e, g)
    BY <1>3, <1>5, <2>1, JudgedBeside
  <2>3. BaseRefunds(k, c, t, g) => CheckConstraints(e, g)
    BY <1>3, <1>5, <2>1, JudgedBeside
  <2>4. Count(e, Issue) >= 1 /\ Counted(e, 1, 1, 1, 1)
    BY <1>3, <1>5, <2>1 DEF Counted
  <2> QED
    BY <1>4, <1>6, <2>2, <2>3, <2>4 DEF e, tries, base
<1>7. CASE ~tries
  <2>1. e = l
    BY <1>2, <1>7
  <2>2. BaseStops(k, c, t, g) => CheckConstraints(e, g)
    BY <1>3, <1>5, <2>1, JudgedBeside
  <2>3. BaseRefunds(k, c, t, g) => ~CheckConstraints(e, g)
    BY <1>3, <1>5, <2>1, JudgedBeside
  <2>4. ~(Count(e, Issue) >= 1) /\ Counted(e, 1, 1, 1, 0)
    BY <1>3, <1>5, <2>1 DEF Counted
  <2> QED
    BY <1>4, <1>7, <2>2, <2>3, <2>4 DEF e, tries, base
<1> QED
  BY <1>6, <1>7

(* A skips the check that every case with an order wants, ... *)
LEMMA SkipRejected ==
  ASSUME NEW k, NEW c, NEW t, NEW u, NEW g, BaseStops(k, c, t, g) \/ BaseRefunds(k, c, t, g), Skips("A", c)
  PROVE  ~CheckConstraints(EndCalls("A", k, c, u), g)
<1> DEFINE v == "A"
           e == EndCalls(v, k, c, u)
           l == <<Lookup, History>>
           l2 == Append(l, Issue)
<1>1. CalmReads(k, c)
  BY DEF BaseStops, BaseRefunds
<1>2. Found(v, k, c) /\ v # "M2" /\ ~Fails(k, History) /\ ~Fails(k, Check)
  BY <1>1, CalmFinds DEF CalmReads
<1>3. CheckedCalls(v, k, c) = l
  BY DEF CheckedCalls
<1>4. PlannedCalls(v, k, c) = l /\ WriteCalls(v, k, c) = l
  BY <1>3 DEF PlannedCalls, WriteCalls
<1>5. TriedCalls(v, k, c) = l2
  BY <1>4 DEF TriedCalls
<1>6. Counted(l, 1, 1, 0, 0)
  BY FirstLists, Zenon
<1>7. e \in {l, l2}
  <2>1. /\ ~Plans(v, k, c) => e = CheckedCalls(v, k, c)
        /\ Plans(v, k, c) /\ ~Goes(v, k, c, u) => e = PlannedCalls(v, k, c)
        /\ Goes(v, k, c, u) /\ ~Tries(v, k, c, u) => e = WriteCalls(v, k, c)
        /\ Tries(v, k, c, u) => e = TriedCalls(v, k, c)
    BY <1>2, FoundCalls
  <2> HIDE DEF e, l, l2, v
  <2> QED
    BY <1>3, <1>4, <1>5, <2>1
<1> HIDE DEF l
<1>8. Counted(l2, 1, 1, 0, 0 + 1)
  BY <1>6, CountedAppend
<1> HIDE DEF e, l2
<1>9. ~(0 >= 1)
  OBVIOUS
<1>10. ~CheckConstraints(l, g)
  BY <1>6, <1>9, JudgedBeside
<1>11. ~CheckConstraints(l2, g)
  BY <1>8, <1>9, JudgedBeside
<1> QED
  BY <1>7, <1>10, <1>11 DEF e

(* ... and M2 makes it before the read that must come first. *)
LEMMA EarlyCheckRejected ==
  ASSUME NEW k, NEW c, NEW t, NEW u, NEW g, BaseStops(k, c, t, g) \/ BaseRefunds(k, c, t, g)
  PROVE  ~CheckConstraints(EndCalls("M2", k, c, u), g)
<1> DEFINE v == "M2"
           e == EndCalls(v, k, c, u)
           l == <<Lookup, Check>>
           l2 == <<Lookup, Check, History>>
           l3 == <<Lookup, Check, History, Issue>>
<1>1. CalmReads(k, c)
  BY DEF BaseStops, BaseRefunds
<1>2. Found(v, k, c) /\ Asked(c) /\ ~Fails(k, History)
  BY <1>1, CalmFinds DEF CalmReads
<1>3. CheckedCalls(v, k, c) = l2
  BY DEF CheckedCalls, Skips
<1>4. PlannedCalls(v, k, c) = l2 /\ WriteCalls(v, k, c) = l2
  BY <1>3 DEF PlannedCalls, WriteCalls
<1>5. Append(l2, Issue) = l3
  BY LongLists, Zenon
<1>6. TriedCalls(v, k, c) = Append(WriteCalls(v, k, c), Issue)
  BY DEF TriedCalls
<1>7. \/ e = l \/ e = CheckedCalls(v, k, c) \/ e = PlannedCalls(v, k, c) \/ e = WriteCalls(v, k, c) \/ e = TriedCalls(v, k, c)
  BY <1>2 DEF EndCalls
<1>8. /\ Counted(l, 1, 0, 1, 0) /\ ~Ordered(l)
      /\ Counted(l2, 1, 1, 1, 0) /\ ~Ordered(l2)
      /\ Counted(l3, 1, 1, 1, 1) /\ ~Ordered(l3)
  BY FirstLists, MiddleLists, StoppedLists, Zenon
<1> HIDE DEF e, l, l2, l3, v
<1>9. e \in {l, l2, l3}
  BY <1>3, <1>4, <1>5, <1>6, <1>7
<1>10. ~CheckConstraints(l, g)
  BY <1>8, JudgedBeside
<1>11. ~CheckConstraints(l2, g)
  BY <1>8, JudgedBeside
<1>12. ~CheckConstraints(l3, g)
  BY <1>8, JudgedBeside
<1> QED
  BY <1>9, <1>10, <1>11, <1>12 DEF e, v

(* C makes too many lookups as soon as it computes a refund. *)
LEMMA ManyLookupsRejected ==
  ASSUME NEW k, NEW c, NEW t, NEW u, NEW g, BaseStops(k, c, t, g) \/ BaseRefunds(k, c, t, g),
         Tries("baseline", k, c, t) => Plans("C", k, c)
  PROVE  CheckConstraints(EndCalls("C", k, c, u), g) <=> ~Plans("C", k, c)
<1> DEFINE v == "C"
           e == EndCalls(v, k, c, u)
           l == <<Lookup, History, Lookup, Check>>
           l2 == Append(l, Lookup)
           l3 == Append(l2, Lookup)
           l4 == Append(l3, Issue)
<1>1. CalmReads(k, c)
  BY DEF BaseStops, BaseRefunds
<1>2. Found(v, k, c) /\ v # "M2" /\ ~Fails(k, History) /\ ~Fails(k, Check)
  BY <1>1, CalmFinds DEF CalmReads
<1>3. CheckedCalls(v, k, c) = l
  BY DEF CheckedCalls, Skips
<1>4. PlannedCalls(v, k, c) = l2 /\ WriteCalls(v, k, c) = l3
  BY <1>3 DEF PlannedCalls, WriteCalls
<1>5. TriedCalls(v, k, c) = l4
  BY <1>4 DEF TriedCalls
<1>6. Counted(l, 2, 1, 1, 0) /\ Ordered(l)
  BY StoppedLists, Zenon
<1>7. (~Plans(v, k, c) => e = l) /\ (Plans(v, k, c) => e \in {l2, l3, l4})
  <2>1. /\ ~Plans(v, k, c) => e = CheckedCalls(v, k, c)
        /\ Plans(v, k, c) /\ ~Goes(v, k, c, u) => e = PlannedCalls(v, k, c)
        /\ Goes(v, k, c, u) /\ ~Tries(v, k, c, u) => e = WriteCalls(v, k, c)
        /\ Tries(v, k, c, u) => e = TriedCalls(v, k, c)
    BY <1>2, FoundCalls
  <2>2. (Tries(v, k, c, u) => Goes(v, k, c, u)) /\ (Goes(v, k, c, u) => Plans(v, k, c))
    BY Ladder
  <2> HIDE DEF e, l, l2, l3, l4, v
  <2> QED
    BY <1>3, <1>4, <1>5, <2>1, <2>2
<1> HIDE DEF l
<1>8. Counted(l2, 2 + 1, 1, 1, 0)
  BY <1>6, CountedAppend
<1> HIDE DEF l2
<1>9. Counted(l3, (2 + 1) + 1, 1, 1, 0)
  BY <1>8, CountedAppend
<1> HIDE DEF l3
<1>10. Counted(l4, (2 + 1) + 1, 1, 1, 0 + 1)
  BY <1>9, CountedAppend
<1> HIDE DEF e, l4, v
<1>11. 2 \in 1..2 /\ 2 + 1 \notin 1..2 /\ (2 + 1) + 1 \notin 1..2 /\ 1 >= 1
  OBVIOUS
<1>12. ~CheckConstraints(l2, g)
  BY <1>8, <1>11, JudgedBeside
<1>13. ~CheckConstraints(l3, g)
  BY <1>9, <1>11, JudgedBeside
<1>14. ~CheckConstraints(l4, g)
  BY <1>10, <1>11, JudgedBeside
<1>15. ASSUME ~Plans(v, k, c) PROVE CheckConstraints(l, g)
  <2>1. BaseStops(k, c, t, g)
    BY <1>15 DEF BaseRefunds, v
  <2> QED
    BY <1>6, <1>11, <2>1, JudgedBeside
<1> QED
  BY <1>7, <1>12, <1>13, <1>14, <1>15 DEF e, v

(* C1 and C2 read once too often, and M7 writes twice, within what the constraints allow. *)
LEMMA CostsAccepted ==
  ASSUME NEW v \in {"C1", "C2", "M7"}, NEW k, NEW c, NEW t, NEW u, NEW g, BaseStops(k, c, t, g) \/ BaseRefunds(k, c, t, g),
         Tries(v, k, c, u) <=> Tries("baseline", k, c, t)
  PROVE  CheckConstraints(EndCalls(v, k, c, u), g) /\ (v = "M7" => \E d : \E i : Counted(EndCalls(v, k, c, u), 1, 1, d, i))
<1> DEFINE e == EndCalls(v, k, c, u)
           l == CheckedCalls(v, k, c)
           l2 == Append(l, Issue)
           l3 == Append(l2, Issue)
           tries == Tries(v, k, c, u)
<1>1. CalmReads(k, c)
  BY DEF BaseStops, BaseRefunds
<1>2. Found(v, k, c) /\ v # "M2" /\ ~Fails(k, History) /\ ~Fails(k, Check)
  BY <1>1, CalmFinds DEF CalmReads
<1>3. /\ v = "C1" => l = <<Lookup, History, Lookup, Check>>
      /\ v = "C2" => l = <<Lookup, History, History, Check>>
      /\ v = "M7" => l = <<Lookup, History, Check>>
  BY DEF CheckedCalls, Skips
<1>4. /\ v = "C1" => Counted(l, 2, 1, 1, 0)
      /\ v = "C2" => Counted(l, 1, 2, 1, 0)
      /\ v = "M7" => Counted(l, 1, 1, 1, 0)
      /\ Ordered(l)
  <2>1. v = "C1" => Counted(l, 2, 1, 1, 0) /\ Ordered(l)
    BY <1>3, StoppedLists, Zenon
  <2>2. v = "C2" => Counted(l, 1, 2, 1, 0) /\ Ordered(l)
    BY <1>3, StoppedLists, Zenon
  <2>3. v = "M7" => Counted(l, 1, 1, 1, 0) /\ Ordered(l)
    BY <1>3, MiddleLists, Zenon
  <2> QED
    BY <2>1, <2>2, <2>3
<1>5. PICK a \in 1..2, b \in Nat : Counted(l, a, b, 1, 0) /\ (v = "M7" => a = 1 /\ b = 1)
  <2>1. \/ v # "M7" /\ Counted(l, 2, 1, 1, 0)
        \/ v # "M7" /\ Counted(l, 1, 2, 1, 0)
        \/ Counted(l, 1, 1, 1, 0)
    BY <1>4
  <2> QED
    BY <2>1
<1>6. PlannedCalls(v, k, c) = l /\ WriteCalls(v, k, c) = l
  BY DEF PlannedCalls, WriteCalls
<1>7. TriedCalls(v, k, c) = IF v = "M7" /\ Fails(k, Issue) THEN l3 ELSE l2
  <2> HIDE DEF l
  <2> QED
    BY <1>6 DEF TriedCalls
<1>8. e = IF tries THEN TriedCalls(v, k, c) ELSE l
  <2>1. /\ ~Plans(v, k, c) => e = CheckedCalls(v, k, c)
        /\ Plans(v, k, c) /\ ~Goes(v, k, c, u) => e = PlannedCalls(v, k, c)
        /\ Goes(v, k, c, u) /\ ~Tries(v, k, c, u) => e = WriteCalls(v, k, c)
        /\ Tries(v, k, c, u) => e = TriedCalls(v, k, c)
    BY <1>2, FoundCalls
  <2>2. (Tries(v, k, c, u) => Goes(v, k, c, u)) /\ (Goes(v, k, c, u) => Plans(v, k, c))
    BY Ladder
  <2> HIDE DEF e
  <2> QED
    BY <1>6, <2>1, <2>2
<1> HIDE DEF l
<1>9. Counted(l2, a, b, 1, 0 + 1) /\ Ordered(l2)
  <2>1. Ordered(Append(l, Issue)) <=> Ordered(l) /\ 1 >= 1
    BY <1>5, OrderedAppend
  <2> QED
    BY <1>4, <1>5, <2>1, CountedAppend
<1> HIDE DEF l2
<1>10. Counted(l3, a, b, 1, (0 + 1) + 1) /\ Ordered(l3)
  <2>1. Ordered(Append(l2, Issue)) <=> Ordered(l2) /\ 1 >= 1
    BY <1>9, OrderedAppend
  <2> QED
    BY <1>9, <2>1, CountedAppend
<1>11. 0 + 1 = 1 /\ (0 + 1) + 1 = 2 /\ 1 >= 1
  OBVIOUS
<1>12. Counted(l2, a, b, 1, 1) /\ Counted(l3, a, b, 1, 2)
  BY <1>9, <1>10, <1>11
<1> HIDE DEF l3, e, tries
<1>13. CASE tries
  <2>1. BaseRefunds(k, c, t, g)
    BY <1>13 DEF BaseStops, tries
  <2>2. CASE v = "M7" /\ Fails(k, Issue)
    <3>1. e = l3
      BY <1>7, <1>8, <1>13, <2>2
    <3>2. CheckConstraints(l3, g)
      BY <1>5, <1>10, <1>11, <1>12, <2>1, <2>2, JudgedBeside
    <3> QED
      BY <1>5, <1>12, <3>1, <3>2 DEF e
  <2>3. CASE ~(v = "M7" /\ Fails(k, Issue))
    <3>1. e = l2
      BY <1>7, <1>8, <1>13, <2>3
    <3>2. CheckConstraints(l2, g)
      BY <1>5, <1>9, <1>11, <1>12, <2>1, JudgedBeside
    <3> QED
      BY <1>5, <1>12, <3>1, <3>2 DEF e
  <2> QED
    BY <2>2, <2>3
<1>14. CASE ~tries
  <2>1. BaseStops(k, c, t, g)
    BY <1>14 DEF BaseRefunds, tries
  <2>2. e = l
    BY <1>8, <1>14
  <2>3. CheckConstraints(l, g)
    BY <1>4, <1>5, <1>11, <2>1, JudgedBeside
  <2> QED
    BY <1>5, <2>2, <2>3 DEF e
<1> QED
  BY <1>13, <1>14

-----------------------------------------------------------------------------
(* A repeated lookup before the history read breaks every rule, whatever follows. *)
LEMMA EarlyRepeatRuled ==
  ASSUME NEW r, \/ r.calls = <<Lookup, Lookup, History, Check>>
                \/ r.calls = Append(<<Lookup, Lookup, History, Check>>, Issue)
  PROVE  \A rule \in DOMAIN RULES \ {"none"} : ~RuleOk(r, rule)
<1> DEFINE l1 == <<Lookup>>
           l2 == Append(l1, Lookup)
           l3 == Append(l2, History)
           l4 == Append(l3, Check)
           l5 == Append(l4, Issue)
<1>1. r.calls \in {l4, l5}
  <2>1. /\ Append(<<Lookup>>, Lookup) = <<Lookup, Lookup>>
        /\ Append(<<Lookup, Lookup>>, History) = <<Lookup, Lookup, History>>
        /\ Append(<<Lookup, Lookup, History>>, Check) = <<Lookup, Lookup, History, Check>>
    BY ShortLists, LongerLists, LongLists, Zenon
  <2>2. l2 = <<Lookup, Lookup>>
    BY <2>1, Zenon
  <2>3. l3 = <<Lookup, Lookup, History>>
    BY <2>1, <2>2, Zenon
  <2>4. l4 = <<Lookup, Lookup, History, Check>>
    BY <2>1, <2>3, Zenon
  <2> QED
    BY <2>4, Zenon
<1>2. Counted(l1, 1, 0, 0, 0)
  BY FirstLists, Zenon
<1> HIDE DEF l1
<1>3. l1 \in Seq(ToolNames) /\ Count(l1, Lookup) >= 1
  BY <1>2 DEF Counted
<1>4. \A tools : Lookup \in tools => LastRepeats(l2, tools)
  <2>1. \A tools : LastRepeats(Append(l1, Lookup), tools) <=> Lookup \in tools /\ Count(l1, Lookup) >= 1
    BY <1>3, RepeatsAppend, FourTools
  <2> QED
    BY <1>3, <2>1
<1>5. l2 \in Seq(ToolNames)
  BY <1>3, AppendElements, FourTools
<1> HIDE DEF l2
<1>6. \A tools : Lookup \in tools => ~RepeatsOnlyBeforeRefund(l3, tools, TRUE)
  <2>1. \A tools : RepeatsOnlyBeforeRefund(Append(l2, History), tools, TRUE)
                     <=> RepeatsOnlyBeforeRefund(l2, tools, TRUE) /\ (LastRepeats(l2, tools) => History = Issue)
    BY <1>5, RepeatsAppend, FourTools
  <2> QED
    BY <1>4, <2>1, FourNames
<1>7. l3 \in Seq(ToolNames)
  BY <1>5, AppendElements, FourTools
<1> HIDE DEF l3
<1>8. \A tools : Lookup \in tools => ~RepeatsOnlyBeforeRefund(l4, tools, TRUE)
  BY <1>6, <1>7, RepeatsAppend, FourTools
<1>9. l4 \in Seq(ToolNames)
  BY <1>7, AppendElements, FourTools
<1> HIDE DEF l4
<1>10. \A tools : Lookup \in tools => ~RepeatsOnlyBeforeRefund(l5, tools, TRUE)
  BY <1>8, <1>9, RepeatsAppend, FourTools
<1>11. l5 \in Seq(ToolNames)
  BY <1>9, AppendElements, FourTools
<1> HIDE DEF l5
<1>12. \A tools : Lookup \in tools => ~RepeatsOnlyBeforeRefund(r.calls, tools, TRUE)
                                      /\ ~RepeatsOnlyBeforeRefund(r.calls, tools, FALSE)
  BY <1>1, <1>8, <1>9, <1>10, <1>11, RepeatsLastToo
<1> QED
  BY <1>12, Rules

(* M3's second lookup finds another customer's order, when there is one, and goes on to the check. *)
LEMMA OwnerlessJudged ==
  ASSUME NEW k \in Case, NEW c \in Classes, NEW t, NEW u, NEW g \in Authored(k, c.order_id),
         CheckConstraints(EndCalls("baseline", k, c, t), g), Fires("M3", k, c, u), NEW r, r.calls = EndCalls("M3", k, c, u)
  PROVE  /\ r.calls \in Seq(ToolNames)
         /\ CheckConstraints(r.calls, g) <=> ~(Count(r.calls, Check) >= 1)
         /\ k.orders[c.order_id] # None => \A rule \in DOMAIN RULES \ {"none"} : ~RuleOk(r, rule)
<1> DEFINE v == "M3"
           o == c.order_id
           e == EndCalls(v, k, c, u)
           l == <<Lookup, Lookup>>
           l4 == <<Lookup, Lookup, History, Check>>
           l5 == Append(l4, Issue)
<1>1. Asked(c) /\ ~Fails(k, Lookup) /\ OwnRow(k, o) = None
  <2>1. v \in PAIRED
    BY DEF PAIRED, ALL_VARIANTS, INDEPENDENT_MUTANTS, CHANGES
  <2> QED
    BY <2>1, Firing
<1>2. GradedNotFound(k, o, g)
  <2>1. ~GradedNoId(k, o, g) /\ ~CalmReads(k, c)
    BY <1>1 DEF GradedNoId, CalmReads, Asked
  <2> QED
    BY <2>1, BaseAccepted DEF BaseStops, BaseRefunds
<1>3. g = NotFoundCase /\ ~Fails(k, History) /\ ~Fails(k, Check)
  BY <1>2, KindFaults DEF GradedNotFound
<1>4. Found(v, k, c) <=> Seen(v, k, o) # None
  BY <1>1 DEF Found
<1>5. k.orders[o] # None => Seen(v, k, o) # None
  <2> SUFFICES ASSUME k.orders[o] # None PROVE Seen(v, k, o) # None
    OBVIOUS
  <2>1. o \in OrderIds /\ k.orders[o] \in OrderRow
    BY <1>1 DEF Asked, Classes, Case
  <2>2. CASE k.reprice = None
    BY <2>2 DEF Seen, SelectOrder, SeedWorld
  <2>3. CASE k.reprice # None
    <3>1. k.reprice \in Nat
      BY <2>3 DEF Case
    <3>2. [k.orders[o] EXCEPT !.price = k.reprice] \in OrderRow
      BY <2>1, <3>1 DEF OrderRow
    <3>3. Seen(v, k, o) = [k.orders[o] EXCEPT !.price = k.reprice]
      BY <1>1, <2>3 DEF Seen
    <3> QED
      BY <3>2, <3>3, NoneAssumption
  <2> QED
    BY <2>2, <2>3
<1>6. ~Found(v, k, c) => e = l
  <2>1. v # "V1"
    OBVIOUS
  <2>2. LookedCalls(v, k, c) = l
    BY <1>1, <2>1, Zenon DEF LookedCalls
  <2> QED
    BY <1>1, <1>3, <2>2, UnfoundCalls, Zenon
<1>7. Found(v, k, c) => e = l4 \/ e = l5
  <2>1. CheckedCalls(v, k, c) = l4
    BY <1>1 DEF CheckedCalls, Skips
  <2>2. PlannedCalls(v, k, c) = CheckedCalls(v, k, c) /\ WriteCalls(v, k, c) = CheckedCalls(v, k, c)
    BY DEF PlannedCalls, WriteCalls
  <2>3. TriedCalls(v, k, c) = Append(WriteCalls(v, k, c), Issue)
    BY DEF TriedCalls
  <2>4. Found(v, k, c) =>
          /\ ~Plans(v, k, c) => e = CheckedCalls(v, k, c)
          /\ Plans(v, k, c) /\ ~Goes(v, k, c, u) => e = PlannedCalls(v, k, c)
          /\ Goes(v, k, c, u) /\ ~Tries(v, k, c, u) => e = WriteCalls(v, k, c)
          /\ Tries(v, k, c, u) => e = TriedCalls(v, k, c)
    BY <1>3, FoundCalls
  <2> HIDE DEF e, l4, v
  <2> QED
    BY <2>1, <2>2, <2>3, <2>4
<1>8. Counted(l, 2, 0, 0, 0) /\ Counted(l4, 2, 1, 1, 0) /\ Counted(l5, 2, 1, 1, 1)
  BY FirstLists, StoppedLists, WrittenLists, Zenon
<1>9. Found(v, k, c) => \A rule \in DOMAIN RULES \ {"none"} : ~RuleOk(r, rule)
  <2> SUFFICES ASSUME Found(v, k, c) PROVE \A rule \in DOMAIN RULES \ {"none"} : ~RuleOk(r, rule)
    OBVIOUS
  <2>1. r.calls = l4 \/ r.calls = l5
    BY <1>7
  <2> QED
    BY <2>1, EarlyRepeatRuled
<1>10. r.calls = e
  OBVIOUS
<1> HIDE DEF e, l, l4, l5, v, o
<1>11. 2 >= 1 /\ 1 # 0 /\ 1 >= 1 /\ ~(0 >= 1)
  OBVIOUS
<1>12. /\ l \in Seq(ToolNames) /\ Count(l, Check) = 0
       /\ l4 \in Seq(ToolNames) /\ Count(l4, Check) = 1
       /\ l5 \in Seq(ToolNames) /\ Count(l5, Check) = 1
  BY <1>8 DEF Counted
<1>13. CheckConstraints(l, g)
  BY <1>3, <1>8, <1>11, ConstraintsCounted
<1>14. ~CheckConstraints(l4, g)
  BY <1>3, <1>8, <1>11, ConstraintsCounted
<1>15. ~CheckConstraints(l5, g)
  BY <1>3, <1>8, <1>11, ConstraintsCounted
<1> QED
  BY <1>4, <1>5, <1>6, <1>7, <1>9, <1>10, <1>11, <1>12, <1>13, <1>14, <1>15 DEF o

(* M4 and M5 plan what the baseline plans. *)
LEMMA PlansAlike ==
  ASSUME NEW v \in {"M4", "M5"}, NEW k, NEW c
  PROVE  (Plans(v, k, c) <=> Plans("baseline", k, c)) /\ Seen(v, k, c.order_id) = Seen("baseline", k, c.order_id)
<1> DEFINE b == "baseline"
<1>1. v \notin {"A", "M1", "M2", "M3", "alt_history_early"}
  OBVIOUS
<1>2. Seen(v, k, c.order_id) = Seen(b, k, c.order_id)
  BY <1>1 DEF Seen
<1>3. Found(v, k, c) <=> Found(b, k, c)
  BY <1>1, <1>2 DEF Found
<1>4. Checks(v, k, c) <=> Checks(b, k, c)
  BY <1>1, <1>3 DEF Checks, Skips
<1>5. Verdict(v, k, c) = Verdict(b, k, c)
  BY <1>1, <1>2 DEF Verdict
<1>6. Clears(v, k, c) <=> Clears(b, k, c)
  BY <1>4, <1>5 DEF Clears, Answers
<1>7. Reads(v, k, c) <=> Reads(b, k, c)
  BY <1>1, <1>3 DEF Reads
<1>8. ~Skips(v, c) /\ ~Skips(b, c)
  BY <1>1 DEF Skips
<1> QED
  BY <1>2, <1>6, <1>7, <1>8 DEF Plans

(* Where M1 fires the baseline finds the order out of the window. *)
LEMMA LateOrderStops ==
  ASSUME NEW k \in Case, NEW c \in Classes, NEW t, NEW u, Fires("M1", k, c, u), OwnRow(k, c.order_id) # None
  PROVE  ~Tries("baseline", k, c, t)
<1> DEFINE b == "baseline"
           row == OwnRow(k, c.order_id)
<1>1. Seen("M1", k, c.order_id) = row /\ Seen(b, k, c.order_id) = row
  BY SeenOwn
<1>2. row.age = REFUND_WINDOW_DAYS + 1
  <2>1. "M1" \in PAIRED
    BY DEF PAIRED, ALL_VARIANTS, INDEPENDENT_MUTANTS, CHANGES
  <2> QED
    BY <1>1, <2>1, Firing
<1>3. Eligibility(row, Prior(k), REFUND_WINDOW_DAYS) # "within policy"
  <2>1. row.age > REFUND_WINDOW_DAYS
    BY <1>2, PolicyAssumption
  <2> HIDE DEF row
  <2> QED
    BY <2>1 DEF Eligibility
<1>4. Verdict(b, k, c) # "within policy"
  BY <1>1, <1>3 DEF Verdict
<1>5. ~Skips(b, c)
  BY DEF Skips
<1>6. ~Plans(b, k, c)
  BY <1>4, <1>5 DEF Plans, Clears
<1> QED
  BY <1>6, Ladder

-----------------------------------------------------------------------------
(* The calls of a run that is over are calls of the tools. *)
LEMMA EndCallsListed ==
  ASSUME NEW v, NEW k, NEW c, NEW t
  PROVE  EndCalls(v, k, c, t) \in Seq(ToolNames)
<1>1. \A a, b, d, e \in ToolNames : <<a>> \in Seq(ToolNames) /\ <<a, b>> \in Seq(ToolNames)
                                    /\ <<a, b, d>> \in Seq(ToolNames) /\ <<a, b, d, e>> \in Seq(ToolNames)
  OBVIOUS
<1>2. <<Lookup, History, History>> \in Seq(ToolNames) /\ <<Lookup, History, Check, Check>> \in Seq(ToolNames)
  BY <1>1, FourTools
<1>3. /\ << >> \in Seq(ToolNames) /\ <<History>> \in Seq(ToolNames) /\ <<Lookup, Check>> \in Seq(ToolNames)
      /\ LookedCalls(v, k, c) \in Seq(ToolNames) /\ ReadCalls(v, k, c) \in Seq(ToolNames)
      /\ CheckedCalls(v, k, c) \in Seq(ToolNames) /\ PlannedCalls(v, k, c) \in Seq(ToolNames)
      /\ WriteCalls(v, k, c) \in Seq(ToolNames)
  BY ToolLists
<1>4. \A l \in Seq(ToolNames) : \A x \in ToolNames : Append(l, x) \in Seq(ToolNames)
  BY AppendElements
<1>5. TriedCalls(v, k, c) \in Seq(ToolNames)
  BY <1>3, <1>4, FourTools DEF TriedCalls
<1> QED
  BY <1>2, <1>3, <1>5 DEF EndCalls

(* What is predicted of a mutant's run whose marker fired, where the constraints accept the baseline's. *)
PredictedOf(v, k, r2, approved, r, accepted) ==
  /\ v \in {"A", "M2", "M4"} => ~accepted
  /\ v = "M1" => (accepted <=> ~Called(r2.world, "issue_refund"))
  /\ v = "M3" => (accepted <=> ~Called(r2.world, "check_eligibility"))
  /\ v = "C" => (accepted <=> r2.st.refund_type = None)
  /\ v \in {"B", "C1", "C2", "M6", "M7", "M8"} => accepted
  /\ v = "M5" /\ r2.st.approval = approved => accepted
  /\ v \in INDEPENDENT_MUTANTS \ {"M3"} => \A rule \in DOMAIN RULES : ~(accepted /\ ~RuleOk(r, rule))
  /\ v = "M3" /\ k.orders[r2.st.order_id] # None => \A rule \in DOMAIN RULES \ {"none"} : ~RuleOk(r, rule)

(* M5 asks for approval when the baseline does where both were approved alike. *)
LEMMA AskedAlike ==
  ASSUME NEW k \in Case, NEW r1, NEW r2, FinishedPair("M5", k, r1, r2), r2.st.approval = r1.st.approval
  PROVE  LET c == Class(r1.st)
         IN Tries("M5", k, c, r2.st.refund_type) <=> Tries("baseline", k, c, r1.st.refund_type)
<1> DEFINE c == Class(r1.st)
           t == r1.st.refund_type
           u == r2.st.refund_type
<1>1. /\ r1.st.approval = (IF MustAsk("baseline", k, c, t) THEN Given(k) ELSE None)
      /\ r2.st.approval = (IF MustAsk("M5", k, c, u) THEN Given(k) ELSE None)
  BY DEF FinishedPair, Ended, Holds
<1>2. Given(k) # None
  <2>1. "reject" # None
    BY NoneAssumption
  <2> QED
    BY <2>1 DEF Given
<1> HIDE DEF c, t, u
<1>3. MustAsk("baseline", k, c, t) <=> MustAsk("M5", k, c, u)
  BY <1>1, <1>2
<1>4. Plans("M5", k, c) <=> Plans("baseline", k, c)
  BY PlansAlike
<1>5. Goes("M5", k, c, u) <=> Goes("baseline", k, c, t)
  BY <1>3, <1>4 DEF Goes
<1>6. ~Stale("M5", k, c) /\ ~Stale("baseline", k, c)
  BY DEF Stale
<1>7. Tries("M5", k, c, u) <=> Tries("baseline", k, c, t)
  BY <1>5, <1>6 DEF Tries
<1> QED
  BY <1>7 DEF c, t, u

(* M4 writes where the baseline was refused. *)
LEMMA RefusalIgnored ==
  ASSUME NEW k \in Case, NEW r1, NEW r2, FinishedPair("M4", k, r1, r2), Fires("M4", k, Class(r1.st), r2.st.refund_type)
  PROVE  LET c == Class(r1.st)
         IN Tries("M4", k, c, r2.st.refund_type) /\ ~Tries("baseline", k, c, r1.st.refund_type)
<1> DEFINE c == Class(r1.st)
           t == r1.st.refund_type
           u == r2.st.refund_type
<1>1. MustAsk("M4", k, c, u) /\ Given(k) = "reject"
  <2>1. "M4" \in PAIRED
    BY DEF FinishedPair
  <2> QED
    BY <2>1, Firing
<1>2. Plans("M4", k, c) <=> Plans("baseline", k, c)
  BY PlansAlike
<1>3. Seen("M4", k, c.order_id) = Seen("baseline", k, c.order_id)
  BY PlansAlike
<1>4. u = t
  BY <1>2, <1>3, SamePlan
<1> HIDE DEF c, t, u
<1>5. Plans("M4", k, c)
  BY <1>1, Ladder
<1>6. Goes("M4", k, c, u)
  BY <1>5 DEF Goes
<1>7. Tries("M4", k, c, u)
  BY <1>6 DEF Tries, Stale
<1>8. Amount("M4", k, c, u) = Amount("baseline", k, c, t)
  BY <1>3, <1>4 DEF Amount
<1>9. MustAsk("baseline", k, c, t)
  BY <1>1, <1>2, <1>8 DEF MustAsk
<1>10. ~Goes("baseline", k, c, t)
  BY <1>1, <1>9 DEF Goes
<1>11. ~Tries("baseline", k, c, t)
  BY <1>10 DEF Tries
<1> QED
  BY <1>7, <1>11 DEF c, t, u

(* B, C, C1, C2, M6, M7 and M8 plan and write what the baseline does. *)
LEMMA WritesAlike ==
  ASSUME NEW v \in {"B", "C", "C1", "C2", "M6", "M7", "M8"}, NEW k, NEW r1, NEW r2, FinishedPair(v, k, r1, r2)
  PROVE  LET c == Class(r1.st)
         IN /\ Tries(v, k, c, r2.st.refund_type) <=> Tries("baseline", k, c, r1.st.refund_type)
            /\ Plans(v, k, c) <=> Plans("baseline", k, c)
<1> DEFINE c == Class(r1.st)
           t == r1.st.refund_type
<1>1. SameCourse(v, k, c, t)
  BY Courses DEF ALIKE
<1>2. r2.st.refund_type = t
  BY <1>1, SamePlan DEF SameCourse
<1> QED
  BY <1>1, <1>2 DEF SameCourse

(* Of a fired pair whose baseline met a case's constraints, every prediction holds: the finished     *)
(* calls settle the verdict, mutant by mutant.                                                       *)
LEMMA FiredPair ==
  ASSUME NEW v \in MUTANTS \cup INDEPENDENT_MUTANTS, NEW k, NEW r1, NEW r2, FinishedPair(v, k, r1, r2), r2.fired # {},
         NEW g \in Authored(k, r2.st.order_id), CheckConstraints(Calls(r1.world), g), NEW r, r.calls = Calls(r2.world)
  PROVE  PredictedOf(v, k, r2, r1.st.approval, r, CheckConstraints(Calls(r2.world), g))
<1> DEFINE b == "baseline"
           c == Class(r1.st)
           t == r1.st.refund_type
           u == r2.st.refund_type
           e == EndCalls(v, k, c, u)
           accepted == CheckConstraints(e, g)
<1>1. k \in Case /\ c \in Classes /\ Class(r2.st) = c
  BY DEF FinishedPair
<1>2. r2.st.order_id = c.order_id
  <2>1. Class(r2.st).order_id = r2.st.order_id
    BY DEF Class
  <2> QED
    BY <1>1, <2>1
<1>3. Fires(v, k, c, u)
  <2>1. v # "V4"
    BY DEF MUTANTS, INDEPENDENT_MUTANTS
  <2> QED
    BY <2>1 DEF FinishedPair
<1>4. Calls(r1.world) = EndCalls(b, k, c, t)
  <2>1. PairCalls(r1, b, k, c, EndCalls(b, k, c, t)) /\ EndCalls(b, k, c, t) \in Seq(ToolNames)
    BY PairListed, EndCallsListed
  <2> QED
    BY <2>1 DEF PairCalls
<1>5. Calls(r2.world) = e /\ e \in Seq(ToolNames)
  <2>1. PairCalls(r2, v, k, c, e) /\ e \in Seq(ToolNames)
    BY PairListed, EndCallsListed
  <2> QED
    BY <2>1 DEF PairCalls
<1>6. \A tool : Called(r2.world, tool) <=> Count(e, tool) >= 1
  <2>1. r2.world.log = LogOf(k, e)
    BY DEF FinishedPair, Settled
  <2> HIDE DEF e
  <2> QED
    BY <1>5, <2>1, CallsOfLog
<1>7. CheckConstraints(EndCalls(b, k, c, t), g)
  BY <1>4
<1>8. r.calls = e
  BY <1>5
<1>9. MUTANTS \cup INDEPENDENT_MUTANTS = {"A", "B", "C", "C1", "C2", "M1", "M2", "M3", "M4", "M5", "M6", "M7", "M8"}
  BY DEF MUTANTS, INDEPENDENT_MUTANTS
<1>10. INDEPENDENT_MUTANTS = {"M1", "M2", "M3", "M4", "M5", "M6", "M7", "M8"}
  BY DEF INDEPENDENT_MUTANTS
<1>11. SUFFICES PredictedOf(v, k, r2, r1.st.approval, r, accepted)
  BY <1>5
<1>12. v # "M3" => BaseStops(k, c, t, g) \/ BaseRefunds(k, c, t, g)
  BY <1>1, <1>2, <1>3, <1>7, FiredBase
<1>13. u = None <=> ~Plans(v, k, c)
  BY DEF FinishedPair, Ended
<1>14. \A d, i : Counted(e, 1, 1, d, i) => \A rule \in DOMAIN RULES : RuleOk(r, rule)
  <2>1. 1 <= 1
    OBVIOUS
  <2> HIDE DEF e
  <2> QED
    BY <1>8, <2>1, RareReadsRuled
<1>15. /\ v \in {"B", "C", "C1", "C2", "M6", "M7", "M8"} =>
             (Tries(v, k, c, u) <=> Tries(b, k, c, t)) /\ (Plans(v, k, c) <=> Plans(b, k, c))
       /\ v = "M4" => Tries(v, k, c, u) /\ ~Tries(b, k, c, t)
       /\ v = "M5" /\ r2.st.approval = r1.st.approval => (Tries(v, k, c, u) <=> Tries(b, k, c, t))
  <2>1. v \in {"B", "C", "C1", "C2", "M6", "M7", "M8"} =>
             (Tries(v, k, c, u) <=> Tries(b, k, c, t)) /\ (Plans(v, k, c) <=> Plans(b, k, c))
    BY WritesAlike
  <2>2. v = "M4" => Tries(v, k, c, u) /\ ~Tries(b, k, c, t)
    BY <1>1, <1>3, RefusalIgnored
  <2>3. v = "M5" /\ r2.st.approval = r1.st.approval => (Tries(v, k, c, u) <=> Tries(b, k, c, t))
    BY <1>1, AskedAlike
  <2> QED
    BY <2>1, <2>2, <2>3
<1> DEFINE approved == r1.st.approval
<1> HIDE DEF b, c, t, u, e, approved
<1>16. v \in {"M1", "M4", "M5", "M6", "M8", "B"} =>
         /\ accepted <=> (Tries(v, k, c, u) <=> Tries(b, k, c, t))
         /\ Count(e, Issue) >= 1 <=> Tries(v, k, c, u)
         /\ \E d : \E i : Counted(e, 1, 1, d, i)
  <2> SUFFICES ASSUME v \in {"M1", "M4", "M5", "M6", "M8", "B"}
               PROVE  /\ accepted <=> (Tries(v, k, c, u) <=> Tries(b, k, c, t))
                      /\ Count(e, Issue) >= 1 <=> Tries(v, k, c, u)
                      /\ \E d : \E i : Counted(e, 1, 1, d, i)
    OBVIOUS
  <2>1. v \in PLAIN /\ v # "M3"
    BY DEF PLAIN
  <2> QED
    BY <1>12, <2>1, PlainJudged DEF e, b
<1>17. CASE v = "A"
  <2>1. Skips("A", c)
    <3>1. v \in PAIRED
      BY <1>17 DEF PAIRED, ALL_VARIANTS, MUTANTS, CHANGES
    <3> QED
      BY <1>3, <1>17, <3>1, Firing
  <2>2. ~accepted
    BY <1>12, <1>17, <2>1, SkipRejected DEF e
  <2> QED
    BY <1>10, <1>17, <2>2 DEF PredictedOf
<1>18. CASE v = "M2"
  <2>1. ~accepted
    BY <1>12, <1>18, EarlyCheckRejected DEF e
  <2> QED
    BY <1>18, <2>1 DEF PredictedOf
<1>19. CASE v = "C"
  <2>1. Tries(b, k, c, t) => Plans(v, k, c)
    BY <1>15, <1>19, Ladder
  <2>2. accepted <=> ~Plans(v, k, c)
    BY <1>12, <1>19, <2>1, ManyLookupsRejected DEF e, b
  <2>3. accepted <=> r2.st.refund_type = None
    BY <1>13, <2>2 DEF u
  <2> HIDE DEF accepted
  <2> QED
    BY <1>10, <1>19, <2>3 DEF PredictedOf
<1>20. CASE v \in {"C1", "C2", "M7"}
  <2>1. accepted /\ (v = "M7" => \E d : \E i : Counted(e, 1, 1, d, i))
    BY <1>12, <1>15, <1>20, CostsAccepted DEF e, b
  <2>2. v = "M7" => \A rule \in DOMAIN RULES : RuleOk(r, rule)
    BY <1>14, <2>1
  <2> HIDE DEF accepted
  <2> QED
    BY <1>10, <1>20, <2>1, <2>2 DEF PredictedOf
<1>21. CASE v \in {"M4", "M5", "M6", "M8", "B"}
  <2>1. \A rule \in DOMAIN RULES : RuleOk(r, rule)
    BY <1>14, <1>16, <1>21
  <2>2. v = "M4" => ~accepted
    BY <1>15, <1>16
  <2>3. v \in {"M6", "M8", "B"} => accepted
    BY <1>15, <1>16
  <2>4. v = "M5" /\ r2.st.approval = approved => accepted
    BY <1>15, <1>16 DEF approved
  <2>5. v = "M5" /\ r2.st.approval = r1.st.approval => accepted
    BY <2>4 DEF approved
  <2> HIDE DEF accepted
  <2> QED
    BY <1>10, <1>21, <2>1, <2>2, <2>3, <2>5 DEF PredictedOf
<1>22. CASE v = "M1"
  <2>1. ~Tries(b, k, c, t)
    <3>1. OwnRow(k, c.order_id) # None
      BY <1>12, <1>22 DEF BaseStops, BaseRefunds, CalmReads
    <3> QED
      BY <1>1, <1>3, <1>22, <3>1, LateOrderStops DEF b
  <2>2. accepted <=> ~Called(r2.world, Issue)
    BY <1>6, <1>16, <1>22, <2>1
  <2>3. \A rule \in DOMAIN RULES : RuleOk(r, rule)
    BY <1>14, <1>16, <1>22
  <2>4. accepted <=> ~Called(r2.world, "issue_refund")
    BY <2>2 DEF Issue
  <2> HIDE DEF accepted
  <2> QED
    BY <1>22, <2>3, <2>4 DEF PredictedOf
<1>23. CASE v = "M3"
  <2>1. /\ CheckConstraints(r.calls, g) <=> ~(Count(r.calls, Check) >= 1)
        /\ k.orders[c.order_id] # None => \A rule \in DOMAIN RULES \ {"none"} : ~RuleOk(r, rule)
    BY <1>1, <1>2, <1>3, <1>7, <1>8, <1>23, OwnerlessJudged DEF e, b
  <2>2. accepted <=> ~Called(r2.world, Check)
    BY <1>6, <1>8, <2>1
  <2>3. accepted <=> ~Called(r2.world, "check_eligibility")
    BY <2>2 DEF Check
  <2> HIDE DEF accepted
  <2> QED
    BY <1>2, <1>23, <2>1, <2>3 DEF PredictedOf
<1> QED
  BY <1>9, <1>17, <1>18, <1>19, <1>20, <1>21, <1>22, <1>23 DEF approved

(* The predictions for the mutants' constraints and rules hold of every case and every model           *)
(* (docs/part-1.2-preregistration.md, expectations 3 and 5).                                          *)
THEOREM MutantsPredicted == PairSpec => []ConstraintsAsPredicted
<1>1. PairInv => ConstraintsAsPredicted
  <2> SUFFICES ASSUME PairInv, BothDone, fired2 # {}, NEW g \in Gradings
               PROVE  LET r == Graded2(g, Endorsed)
                          Adds(rule) == r.constraints_pass /\ ~RuleOk(r, rule)
                      IN Graded1(g, Endorsed).constraints_pass =>
                         /\ variant \in {"A", "M2", "M4"} => ~r.constraints_pass
                         /\ variant = "M1" => (r.constraints_pass <=> ~Called(world2, "issue_refund"))
                         /\ variant = "M3" => (r.constraints_pass <=> ~Called(world2, "check_eligibility"))
                         /\ variant = "C" => (r.constraints_pass <=> st2.refund_type = None)
                         /\ variant \in {"B", "C1", "C2", "M6", "M7", "M8"} => r.constraints_pass
                         /\ variant = "M5" /\ st2.approval = st1.approval => r.constraints_pass
                         /\ variant \in INDEPENDENT_MUTANTS \ {"M3"} => \A rule \in DOMAIN RULES : ~Adds(rule)
                         /\ variant = "M3" /\ case.orders[st2.order_id] # None =>
                              \A rule \in DOMAIN RULES \ {"none"} : ~RuleOk(r, rule)
    BY DEF ConstraintsAsPredicted
  <2> DEFINE r == Graded2(g, Endorsed)
             base == Graded1(g, Endorsed)
             accepted == CheckConstraints(Calls(Run2.world), g)
  <2>1. FinishedPair(variant, case, Run1, Run2)
    BY PairEnds
  <2>2. /\ Run2.st = st2 /\ Run2.world = world2 /\ Run2.fired = fired2
        /\ Run1.world = world1 /\ Run1.st = st1
    BY DEF Run1, Run2, RunOf
  <2>3. /\ r.calls = Calls(world2) /\ base.calls = Calls(world1)
        /\ r.constraints_pass <=> CheckConstraints(Calls(world2), g)
        /\ base.constraints_pass <=> CheckConstraints(Calls(world1), g)
    BY PairGraded
  <2> HIDE DEF r, base
  <2>4. r.constraints_pass <=> accepted
    BY <2>2, <2>3
  <2>5. ASSUME base.constraints_pass, variant \in MUTANTS \cup INDEPENDENT_MUTANTS
        PROVE  PredictedOf(variant, case, Run2, Run1.st.approval, r, accepted)
    <3>1. Run2.fired # {} /\ g \in Authored(case, Run2.st.order_id) /\ CheckConstraints(Calls(Run1.world), g)
          /\ r.calls = Calls(Run2.world)
      BY <2>2, <2>3, <2>5 DEF Gradings
    <3> QED
      BY <2>1, <2>5, <3>1, FiredPair
  <2> HIDE DEF accepted
  <2>6. ASSUME base.constraints_pass
        PROVE  /\ variant \in {"A", "M2", "M4"} => ~r.constraints_pass
               /\ variant = "M1" => (r.constraints_pass <=> ~Called(world2, "issue_refund"))
               /\ variant = "M3" => (r.constraints_pass <=> ~Called(world2, "check_eligibility"))
               /\ variant = "C" => (r.constraints_pass <=> st2.refund_type = None)
               /\ variant \in {"B", "C1", "C2", "M6", "M7", "M8"} => r.constraints_pass
               /\ variant = "M5" /\ st2.approval = st1.approval => r.constraints_pass
               /\ variant \in INDEPENDENT_MUTANTS \ {"M3"} => \A rule \in DOMAIN RULES : ~(r.constraints_pass /\ ~RuleOk(r, rule))
               /\ variant = "M3" /\ case.orders[st2.order_id] # None =>
                    \A rule \in DOMAIN RULES \ {"none"} : ~RuleOk(r, rule)
    <3>1. CASE variant \in MUTANTS \cup INDEPENDENT_MUTANTS
      <4>1. PredictedOf(variant, case, Run2, st1.approval, r, accepted)
        BY <2>2, <2>5, <2>6, <3>1
      <4> QED
        BY <2>2, <2>4, <4>1, Zenon DEF PredictedOf
    <3>2. CASE variant \notin MUTANTS \cup INDEPENDENT_MUTANTS
      BY <3>2 DEF MUTANTS, INDEPENDENT_MUTANTS
    <3> QED
      BY <3>1, <3>2
  <2> QED
    BY <2>6 DEF r, base
<1> QED
  BY <1>1, RunsAreAsTabled, PTL
=============================================================================
