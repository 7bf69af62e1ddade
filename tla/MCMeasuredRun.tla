--------------------------- MODULE MCMeasuredRun ---------------------------
(***************************************************************************)
(* Two units, and launches that differ in what the guard compares.         *)
(***************************************************************************)
EXTENDS MeasuredRun

Launched(commit, models, changes, dirty) ==
  [commit |-> commit, models |-> models, changes |-> changes, dirty |-> dirty, allow_dirty |-> TRUE]

TwoUnits == <<"H01/t0", "H02/t0">>

MCLaunches ==
  {Launched("c1", "m1", <<"D">>, FALSE), Launched("c1", "m1", <<"D">>, TRUE),
   Launched("c2", "m1", <<"D">>, FALSE), Launched("c1", "m2", <<"D">>, FALSE),
   Launched("c1", "m1", <<"D", "E">>, FALSE),
   [Launched("c1", "m1", <<"D">>, TRUE) EXCEPT !.allow_dirty = FALSE]}
=============================================================================
