---------------------------- MODULE MeasuredRun ----------------------------
(***************************************************************************)
(* A measured run and its resumes (scripts/run_part1.py, run_part2.py and  *)
(* provenance.py): processes that follow one another on one results        *)
(* directory, each guarded by metadata.json and each appending to          *)
(* runs.jsonl, any of them killed at any point, also inside a write.       *)
(*                                                                         *)
(* A unit is what one write appends: in Part 1 the row of a (case,         *)
(* variant, trial), in Part 2 the rows of a (case, trial) group.           *)
(***************************************************************************)
EXTENDS Integers, Sequences, FiniteSets, SequencesExt

CONSTANTS
  None,
  Junk,          \* a line that json.loads rejects
  Parts,         \* which of the two scripts: 1, 2 or both
  Units,         \* the units, in the order of the loops
  Launches,      \* the ways the script is started
  MaxSessions    \* bound: how many processes are started

(* What metadata.json records of a launch. *)
Described(l) == [commit |-> l.commit, models |-> l.models, changes |-> l.changes, dirty |-> l.dirty]

ASSUME MeasuredAssumption ==
  /\ Parts \subseteq {1, 2}
  /\ MaxSessions \in Nat
  /\ None # Junk
  /\ Units \in Seq(Range(Units)) /\ \A i, j \in DOMAIN Units : Units[i] = Units[j] => i = j
  /\ \A l \in Launches :
       /\ {"commit", "models", "changes", "dirty", "allow_dirty"} \subseteq DOMAIN l
       /\ Len(l.changes) \in Nat
       /\ Described(l) \notin {None, Junk}

VARIABLES
  part,       \* the script this directory is measured with
  runs,       \* runs.jsonl: its lines, and whether the last one lacks its newline
  meta,       \* metadata.json: None, Junk, or what it records
  bak,        \* runs.jsonl.bak
  pc,         \* where the process is; "off" between processes
  session,    \* the process: its number, its launch, whether a group of it failed
  done,       \* the units its loop skips
  at,         \* the next unit of its loop
  summary     \* the rows the last summary was made from

measuredVars == <<part, runs, meta, bak, pc, session, done, at, summary>>

-----------------------------------------------------------------------------
(* runs.jsonl as text: text appended to an unfinished line becomes part of it. *)
Written(text, lines) ==
  IF lines = << >> THEN text
  ELSE [lines |-> IF text.open THEN Front(text.lines) \o <<Junk>> \o Tail(lines) ELSE text.lines \o lines,
        open |-> FALSE]

(* A write cut short: after a whole line, inside one, or between a line and its newline. *)
Torn(text, lines) ==
  UNION {{Written(text, SubSeq(lines, 1, n))}
         \cup {[Written(text, Append(SubSeq(lines, 1, n), piece)) EXCEPT !.open = TRUE] :
                 piece \in {Junk, lines[n + 1]}} : n \in 0..Len(lines) - 1}

(* Where the rows of a unit are. *)
LinesOf(text, unit) ==
  {i \in DOMAIN text.lines : text.lines[i] # Junk /\ text.lines[i].unit = unit}

(* How many rows a unit has: 1 + 3 * len(changes) in Part 2. *)
PerUnit(changes) == IF part = 1 THEN 1 ELSE 1 + 3 * Len(changes)

(* Mutant: a unit with any row at all counts as done. *)
AnyRow(text, unit, changes) == LinesOf(text, unit) # {}

Whole(text, unit, changes) == Cardinality(LinesOf(text, unit)) = PerUnit(changes)

HasJunk(text) == \E i \in DOMAIN text.lines : text.lines[i] = Junk

(* The rows one measurement of a unit produces, labelled with where they come from. *)
RowsOf(unit) ==
  [arm \in 1..PerUnit(session.changes) |->
     [unit |-> unit, arm |-> arm, session |-> session.id, commit |-> session.commit,
      models |-> session.models, changes |-> session.changes, dirty |-> session.dirty]]

-----------------------------------------------------------------------------
(* Mutant: the commit is not compared. *)
GuardAnyCommit(l) ==
  /\ l.dirty => l.allow_dirty
  /\ IF meta = None THEN runs.lines = << >>
     ELSE meta # Junk /\ meta.models = l.models /\ (part = 2 => meta.changes = l.changes)

(* Mutant: metadata that does not parse is taken for absent. *)
GuardForgetsTorn(l) ==
  /\ l.dirty => l.allow_dirty
  /\ IF meta \in {None, Junk} THEN runs.lines = << >>
     ELSE /\ meta.commit = l.commit /\ meta.models = l.models
          /\ part = 2 => meta.changes = l.changes

(* provenance.guard: a start that it refuses, or whose metadata does not parse, changes nothing. *)
Guard(l) ==
  /\ l.dirty => l.allow_dirty
  /\ IF meta = None THEN runs.lines = << >>
     ELSE /\ meta # Junk
          /\ meta.commit = l.commit /\ meta.models = l.models
          /\ part = 2 => meta.changes = l.changes

Init ==
  /\ part \in Parts
  /\ runs = [lines |-> << >>, open |-> FALSE] /\ meta = None /\ bak = None
  /\ pc = "off" /\ session = [id |-> 0] /\ done = {} /\ at = 1 /\ summary = None

Launch ==
  /\ pc = "off" /\ session.id < MaxSessions
  /\ \E l \in Launches :
       /\ Guard(l)
       /\ session' = [id |-> session.id + 1, commit |-> l.commit, models |-> l.models,
                      changes |-> l.changes, dirty |-> l.dirty, failed |-> FALSE]
  /\ pc' = "describing"
  /\ UNCHANGED <<part, runs, meta, bak, done, at, summary>>

Metadata == Described(session)

WriteMetadata ==
  /\ pc = "describing"
  /\ meta' = Metadata
  /\ pc' = "loading"
  /\ UNCHANGED <<part, runs, bak, session, done, at, summary>>

(* Mutant: what is on disk is taken for the first units of the loop. *)
DoneByCount ==
  LET n == Cardinality({unit \in Range(Units) : Whole(runs, unit, session.changes)})
  IN {Units[i] : i \in 1..n}

(* The units _load_done returns. *)
WholeUnits == {unit \in Range(Units) : Whole(runs, unit, session.changes)}

(* Part 1 reads every row back, and skips the units of the rows; a row that does not parse ends the *)
(* process.                                                                                         *)
LoadPart1 ==
  /\ pc = "loading" /\ part = 1
  /\ IF HasJunk(runs) THEN pc' = "off" /\ UNCHANGED <<done, at>>
     ELSE /\ pc' = "measuring" /\ at' = 1
          /\ done' = {unit \in Range(Units) : LinesOf(runs, unit) # {}}
  /\ UNCHANGED <<part, runs, meta, bak, session, summary>>

(* _load_done: if a line does not parse or a group is partial, the file is rewritten. *)
LoadDone ==
  /\ pc = "loading" /\ part = 2
  /\ done' = WholeUnits /\ at' = 1
  /\ pc' = IF \/ HasJunk(runs)
              \/ \E unit \in Range(Units) :
                   LinesOf(runs, unit) # {} /\ ~Whole(runs, unit, session.changes)
           THEN "saving" ELSE "measuring"
  /\ UNCHANGED <<part, runs, meta, bak, session, summary>>

SaveBackup ==
  /\ pc = "saving"
  /\ bak' = runs
  /\ pc' = "replacing"
  /\ UNCHANGED <<part, runs, meta, session, done, at, summary>>

(* The rows of whole groups among the first n lines, in their order. *)
Surviving ==
  LET kept[n \in 0..Len(runs.lines)] ==
        IF n = 0 THEN << >>
        ELSE IF runs.lines[n] # Junk /\ Whole(runs, runs.lines[n].unit, session.changes)
        THEN Append(kept[n - 1], runs.lines[n])
        ELSE kept[n - 1]
  IN kept[Len(runs.lines)]

(* Mutant: the surviving groups are written over runs.jsonl in place. *)
ReplaceInPlace ==
  /\ pc = "replacing"
  /\ \/ runs' = [lines |-> Surviving, open |-> FALSE] /\ pc' = "measuring"
     \/ runs' \in Torn([lines |-> << >>, open |-> FALSE], Surviving) /\ pc' = "off"
  /\ UNCHANGED <<part, meta, bak, session, done, at, summary>>

(* os.replace: the surviving groups, in the order in which each first appeared. *)
ReplaceRuns ==
  /\ pc = "replacing"
  /\ runs' = [lines |-> Surviving, open |-> FALSE]
  /\ pc' = "measuring"
  /\ UNCHANGED <<part, meta, bak, session, done, at, summary>>

(* The units the loop has still to measure, and the first of them. *)
Ahead == {i \in at..Len(Units) : Units[i] \notin done}

Due(i) == i \in Ahead /\ \A j \in Ahead : i <= j

MeasureUnit ==
  /\ pc = "measuring"
  /\ \E i \in DOMAIN Units : Due(i) /\ runs' = Written(runs, RowsOf(Units[i])) /\ at' = i + 1
  /\ UNCHANGED <<part, meta, bak, pc, session, done, summary>>

(* Part 2 goes on after a group that raised, without its rows. *)
GroupError ==
  /\ pc = "measuring" /\ part = 2
  /\ \E i \in DOMAIN Units : Due(i) /\ at' = i + 1
  /\ session' = [session EXCEPT !.failed = TRUE]
  /\ UNCHANGED <<part, runs, meta, bak, pc, done, summary>>

(* The loop is over: the metadata is written again, with when it finished. *)
Finish ==
  /\ pc = "measuring" /\ Ahead = {}
  /\ meta' = Metadata
  /\ pc' = "reading"
  /\ UNCHANGED <<part, runs, bak, session, done, at, summary>>

(* Every row is read back for the summary; a line that does not parse ends the process. *)
Summarise ==
  /\ pc = "reading"
  /\ summary' = IF HasJunk(runs) THEN summary ELSE runs.lines
  /\ pc' = "off"
  /\ UNCHANGED <<part, runs, meta, bak, session, done, at>>

(* The process is killed: between two steps, inside a write of metadata.json, or inside an append. *)
Kill == pc # "off" /\ pc' = "off" /\ UNCHANGED <<part, session, done, at, summary>>

KilledBetweenSteps == Kill /\ UNCHANGED <<runs, meta, bak>>

KilledInMetadata ==
  /\ pc = "describing" \/ (pc = "measuring" /\ Ahead = {})
  /\ Kill /\ meta' = Junk /\ UNCHANGED <<runs, bak>>

KilledInBackup == pc = "saving" /\ Kill /\ bak' = Junk /\ UNCHANGED <<runs, meta>>

KilledInAppend ==
  /\ pc = "measuring" /\ Kill
  /\ \E i \in DOMAIN Units : Due(i) /\ runs' \in Torn(runs, RowsOf(Units[i]))
  /\ UNCHANGED <<meta, bak>>

Next ==
  \/ Launch \/ WriteMetadata \/ LoadPart1 \/ LoadDone \/ SaveBackup \/ ReplaceRuns
  \/ MeasureUnit \/ GroupError \/ Finish \/ Summarise
  \/ KilledBetweenSteps \/ KilledInMetadata \/ KilledInBackup \/ KilledInAppend

Spec == Init /\ [][Next]_measuredVars

-----------------------------------------------------------------------------
(* A summary never mixes two measurements of a unit (scripts/run_part2.py:5-8): each unit in it has *)
(* exactly its rows, one of each arm, all of one process - partial groups are dropped, not resumed. *)
SummaryTrustsWholeUnits ==
  summary # None =>
    \A unit \in Range(Units) :
      LET mine == {i \in DOMAIN summary : summary[i].unit = unit}
      IN mine # {} =>
           /\ Cardinality(mine) = PerUnit(session.changes)
           /\ {summary[i].arm : i \in mine} = 1..PerUnit(session.changes)
           /\ Cardinality({summary[i].session : i \in mine}) = 1

(* A results directory holds rows of one commit and one pair of models (scripts/provenance.py:3-5), *)
(* in Part 2 of one list of changes: those its metadata names, and none before there is metadata.   *)
OneProvenance ==
  \A i \in DOMAIN runs.lines :
    /\ meta # None
    /\ meta # Junk /\ runs.lines[i] # Junk =>
         /\ runs.lines[i].commit = meta.commit /\ runs.lines[i].models = meta.models
         /\ part = 2 => runs.lines[i].changes = meta.changes

(* A resume measures what is missing (scripts/run_part1.py:3): a process that reaches its summary   *)
(* without a failed group has every unit exactly once, whichever units the processes before it      *)
(* measured, cut short or skipped, as long as every line of the log parses: on one that does not,   *)
(* the process raises instead of reporting.                                                         *)
ResumeCompletes ==
  pc = "reading" /\ ~session.failed /\ ~HasJunk(runs) =>
    \A unit \in Range(Units) : Whole(runs, unit, session.changes)

(* No step loses a unit that is whole on disk, a kill included, as long as its last line has its    *)
(* newline (scripts/run_part2.py:54-59): what was measured is never measured again.                 *)
WholeUnitsStay ==
  [][\A unit \in Range(Units) :
       LET mine == LinesOf(runs, unit)
           kept == LinesOf(runs', unit)
       IN /\ \E i \in mine : Cardinality(mine) = PerUnit(runs.lines[i].changes)
          /\ runs.open => Len(runs.lines) \notin mine
          => /\ Cardinality(kept) = Cardinality(mine)
             /\ {runs'.lines[i] : i \in kept} = {runs.lines[i] : i \in mine}]_measuredVars

(* metadata.json is overwritten in place at both ends of a process, so a kill there loses what the *)
(* rows were measured with.  No process goes on then: whatever is started after it, the rows stay   *)
(* as they are and are given no other provenance (scripts/provenance.py, guard; run_part2.py:145).  *)
TornMetadataFreezes ==
  [][meta = Junk => UNCHANGED <<runs, meta, bak, summary>>]_measuredVars

(* "a line that fails to parse is dropped as torn (this can only happen on a crash mid-write, and   *)
(* only to the last line)" (scripts/run_part2.py:32-33).                                            *)
TornOnlyAtTheEnd ==
  \A i \in DOMAIN runs.lines : runs.lines[i] = Junk => i = Len(runs.lines)

(* "Resumable: re-running appends only missing (case, variant, trial) rows" (scripts/run_part1.py:3): *)
(* a resume that passes the guard can read its own log.                                               *)
ResumeReadsItsLog == pc = "loading" => ~HasJunk(runs)

(* "Every metadata.json records the git commit, whether the tree was dirty" (README.md:200-201): *)
(* rows of uncommitted code stand under metadata that says so.                                    *)
DirtyIsRecorded ==
  \A i \in DOMAIN runs.lines :
    runs.lines[i] # Junk /\ runs.lines[i].dirty /\ meta \notin {None, Junk} => meta.dirty
=============================================================================
