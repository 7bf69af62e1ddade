------------------------------ MODULE Graders ------------------------------
(***************************************************************************)
(* The layers that grade a finished run without a model: the refund rows   *)
(* it left (evals/checks/end_state.py), the names of the tools it called   *)
(* against the case's constraints and against its reference trajectory     *)
(* (evals/checks/trajectory.py).                                           *)
(***************************************************************************)
EXTENDS Naturals, Sequences, FiniteSets

MATCH_MODES == {"strict", "unordered", "subset", "superset"}

Count(calls, tool) == Cardinality({i \in DOMAIN calls : calls[i] = tool})

Names(calls) == {calls[i] : i \in DOMAIN calls}

-----------------------------------------------------------------------------
(* Mutant: the plain-set comparison that docs/matcher-semantics.md says came first. *)
WithinAsSet(few, many) == Names(few) \subseteq Names(many)

(* Counter(few) - Counter(many) is empty: no tool is called more often in few than in many. *)
Within(few, many) == \A tool \in Names(few) : Count(few, tool) <= Count(many, tool)

MatchTrajectory(observed, reference, mode) ==
  CASE mode = "strict"    -> observed = reference
    [] mode = "unordered" -> Within(observed, reference) /\ Within(reference, observed)
    [] mode = "subset"    -> Within(observed, reference)
    [] mode = "superset"  -> Within(reference, observed)

-----------------------------------------------------------------------------
(* Mutant: every call of the one comes before every call of the other. *)
EveryPrecedes(calls, before, after) ==
  \A i, j \in DOMAIN calls : calls[i] = before /\ calls[j] = after => i < j

(* Where the one is called at all, the other was called before its first call. *)
Precedes(calls, before, after) ==
  \A j \in DOMAIN calls : calls[j] = after => \E i \in 1 .. j - 1 : calls[i] = before

CheckConstraints(calls, c) ==
  /\ c.required \subseteq Names(calls)
  /\ c.forbidden \cap Names(calls) = {}
  /\ \A pair \in c.ordering : Precedes(calls, pair[1], pair[2])
  /\ \A tool \in DOMAIN c.max_calls : Count(calls, tool) <= c.max_calls[tool]

-----------------------------------------------------------------------------
(* Mutant: the amount is not compared. *)
MatchesType(observed, expected) ==
  /\ Len(observed) = expected.refund_count
  /\ expected.refund_count # 0 => observed[1].type = expected.refund_type

(* _matches: as many refunds as expected and, if any, the first of the type and amount expected. *)
Matches(observed, expected) ==
  /\ Len(observed) = expected.refund_count
  /\ expected.refund_count # 0 =>
       observed[1].type = expected.refund_type /\ observed[1].amount = expected.amount

CheckEndState(observed, acceptable) == \E expected \in acceptable : Matches(observed, expected)
=============================================================================
