# A TLA+ model of langgraph-agent-evals

This directory models the refund agent of this repository and the harness that evaluates it:
what a run of the agent does to the world, in each of its 25 variants; what a checkpoint fork
measures; what survives when a measured run is killed and resumed; how the model client retries,
meters and replays; what the graders can tell apart; and what the reports and the analysis scripts
count. TLC checks each model on small instances; TLAPS proves the theorems listed below for every
value of the constants.

## The system

| Part | Source | State it keeps | Operations | Modelled by |
|---|---|---|---|---|
| Tools and database | `agent/tools.py`, `env/db.py`, `env/fixtures.py` | orders, refund rows, id counter, lookup counter, call log | `lookup_order`, `get_refund_history`, `check_eligibility`, `issue_refund`, `snapshot`, `restored` | `RefundWorld` |
| Routing | `agent/graph.py:80-165, 424-506` | none (markers only) | one router per node, fixed edges | `AgentRouting` |
| Agent | `agent/graph.py`, `agent/state.py` | the graph state, the checkpoint's next node, the interrupt, the step budget | one node per step, interrupt, resume | `RefundAgent` |
| Case runner | `evals/runner.py` | a fresh world and thread per run | `run_case`, `grade_run` | `RefundAgent.Start`, `AgentPair`, `GradedRuns` |
| Fork evaluation | `evals/fork.py`, `evals/runner_part2.py` | the baseline's thread and snapshots, one cache per namespace, the rows | record, find the fork point, check the routing, fork, inherit | `ForkGroup` |
| Measured-run drivers | `scripts/run_part1.py`, `scripts/run_part2.py`, `scripts/provenance.py` | `runs.jsonl`, `metadata.json`, `.bak` | guard, load, repair, append, summarise | `MeasuredRun` |
| LLM client | `agent/llm.py` | the replay cache, the usage counters | lookup, call with retries, store, meter | `LLMClient`; as recordings in `RefundAgent`, `AgentPair` and `ForkGroup` |
| Graders | `evals/checks/`, `evals/schema.py` | none | end state, constraints, trajectory modes, answer | `Graders`, `GradedRuns` |
| Case builder | `evals/cases/build_cases.py` | none | what each kind of case is graded by | `AuthoredCases` |
| Reports | `evals/report.py`, `evals/report_part2.py` | none | which rows and pairs count, and as what | `GradedRuns`, `Part2Report`, `LLMClient.MeteredRow` |
| Analysis scripts | the other `scripts/*.py` | none | edit directions, position rules, harnesses, contrasts | `Part1Analysis`, `PairAnalysis`, `Part2Report` |

The agent's nodes call the tools, which change the database, and the LLM client, which answers
from its cache when it has seen the same prompt. The graph engine (LangGraph) runs one node per
superstep, writes a checkpoint after it, raises when the recursion limit is exceeded, and abandons
a superstep that calls `interrupt()` without an answer. The driver starts a run, resumes it once,
and records it. The fork harness runs several such runs on one thread. The measured-run scripts
call the runner for every case and append what it returns to a file, which the reports and the
scripts read.

What is hard here: 25 variants share node bodies that rely on what earlier nodes wrote; an
interrupted node runs again from its top; the order can be repriced between two reads; a tool or a
model call can fail anywhere; forks restore a thread, a world and a budget that must belong
together, on a thread that other forks also write to; a cache decides which arms see the same
replies; a process can be killed inside a write; and several programs count the same rows by rules
of their own. `PROJECT.json` lists each hazard at its line.

## The modules

**RefundWorld.** The world outside the checkpoints as one record, and each tool as a pure operator
from a world and a case to the world after the call. A faulted call is logged and changes nothing
else (`Tools._enter`). Money is whole cents and dates are ages in days. `round(price * 0.5, 2)` of
an odd number of cents goes up or down depending on the double: `RoundsUp` is the set of prices
for which it goes up, so the model and the proofs cover both.

**AgentRouting.** The variants, the nodes, the graph state (`None` stands for an absent key) and
the routers, which are pure: the same operators route a run and replay a recorded one. Of the four
intents the code tells only `damaged` apart.

**RefundAgent.** One run. Each action is one superstep: the node's body with every call it makes,
its writes, and the edge evaluated on the state it leaves. `Step` is the superstep's frame; a
`steps` counter above `RECURSION_LIMIT` ends the run in the superstep that exceeds it. `Interrupt`
abandons a superstep, `Resume` is the driver's second and last `stream`. The replies of the model
are chosen by the environment and kept in `recording`, keyed by what the prompt depends on; a call
whose reply is recorded cannot fail, any other may (`...Crashes`).

**RefundPromise.** The abstract specification: a refund desk that grants at most one refund, only
one that is due in the world the case seeded, tells the customer exactly what it granted, and
always ends. `RefundAgentProperties` holds the refinement mapping (`Payments`, `Told`, `Over`),
the invariants, and the inductive invariant of the proofs. The mapping is of every variant: the run
of a variant that is faulty on purpose is shown to the promise as one that granted nothing and
told so, since its wrong refunds are the subject of `FaultsAreMarked` instead.

**AgentPair.** The baseline and then a variant on the same case and the same recording.

**Graders, AuthoredCases, GradedRuns.** Pure operators. `Graders` is the end-state check, the
constraints and the four trajectory modes over the names of the calls a run made. `AuthoredCases`
is, for an environment and the order its customer asks about, the set of gradings the builder
functions can write beside it; a run is graded under the case whose customer asked about the order
the run was classified with, since a misread request is a wrong answer and no concern of the
trajectory layer. `GradedRuns` is `grade_run`: the row of a finished run under all layers, where
what the string check and the judge say of a reply is given (`Verdicts`; `None` is a judge that
raises), and what `evals/report.py` makes of that row in each of its rates.

**Part1Analysis, PairAnalysis.** The offline scripts of Part 1 as operators on graded rows: the
direction of a trajectory's edit, the verdict it predicts, the position rules, the harnesses of the
re-grade and of the independent mutants. `PairAnalysis` grades the two runs of an `AgentPair` and
states what the two pre-registrations predict of them.

**ForkGroup, Part2Report.** One (case, trial) group: the baseline, then the arms of each change in
either order. The run in progress is a `RefundAgent` run; what the group adds is what `run_group`
and `fork.py` do between runs. `thread` is the checkpoints the baseline's saver holds, each with
the world snapshot taken after the step that produced it; `cache` is one recording per namespace;
`rows` is the arms that are over, in the order they ran. `Part2Report` grades the rows of a
finished group and takes from them what the Part 2 report and its scripts take: the wrong verdicts
of the naive fork, the routing lists, the deltas.

**MeasuredRun.** Processes that follow one another on a results directory. `runs` is
`runs.jsonl` as lines, of which the last may lack its newline; text appended to an unfinished
line becomes part of it. A process carries the code's own locals: `done`, the units its loop is to
skip, and `at`, its position in the loop over the units. A kill can happen between any two steps, in the middle of a write of
`metadata.json` (opened by truncating; the guard then raises for good), of the backup copy, and of
an append. `part` is the script the directory is measured with: Part 1 appends single rows and
reads them all back on resume; Part 2 appends groups and repairs the file first.

**LLMClient.** The clients of a process, one request at a time. A request is looked up, and on a
miss tried up to three times when the model is hosted, once when it is local. An attempt ends in an
answer (metered, stored, returned), in a reply that does not parse (metered, not stored), in an
error worth a retry, or in one that is not. `Restart` puts new clients, with counters at zero, on
the same cache file. Tokens and seconds are left out: what the model keeps is whether a reply
reported usage, which is what decides whether a row enters the report's cost table (`MeteredRow`).

**ReplyRecording.** The abstract specification of the cache, and what the agent's modules take it
for: the reply of a key is drawn once and replayed from then on. `LLMClient` implements it
(`KeepsRecording`), with `recorded` the replies in the cache and `given` those handed out.

**Proof modules.** `RefundWorldLemmas` and `RefundAgentProofs` about the agent; `AgentPairProofs`,
`PairAnalysisProofs`, `ForkGroupProofs`, `MeasuredRunProofs` and `LLMClientProofs` about the modules
they are named for; and `NaturalLemmas`, smallest elements and induction for sets of naturals.

## What each run checks

| Run | Instance | Shows |
|---|---|---|
| `refund_agent` | every variant; one order on each side of every policy rule, an id that names no order, each single tool fault, with and without a reprice and an approval | no node meets a missing input, one interrupt is enough, ledger and log agree, no wrong outcome goes unmarked, `alt_verify` pays the current price, the proofs' invariant holds, every run ends, and every variant that is to keep it implements `RefundPromise`, liveness included |
| `agent_pair` | every variant but D and E against the baseline, up to two tools failing at once, both answers to the approval or none, a customer at the refund limit | the alternates pay and reply alike and make exactly the tool calls announced; every layer, mode and position rule sees of every variant what the pre-registrations predict (`AlternatesAsPredicted`, `ConstraintsAsPredicted`, `OutcomeFaultsCaught`, `DirectionTablePredicts`); the re-grade and the independent harness count every fired pair alike, and the report every pair it keeps (`ReportsAgree`) |
| `fork_group` | the control change, and D followed by E; due and overdue orders, a failing write, with and without an approval; both arm orders; a recursion limit of 7 | the forks measure what the full reruns measure, also where both run out of steps; a naive fork replays its pair's decision; naive verdicts are wrong because of the world and nothing else; the routing check flags exactly the fast path; report and scripts speak of the same pairs; every arm gets its row |
| `llm_client` | two hosted clients in different namespaces and a third in the first's, a local one; two replies, three requests | every attempt is accounted for, one reply per key, own draws per namespace, failures leave the cache alone, and the client implements `ReplyRecording` |
| `measured_run` | both scripts; two units, four processes, launches that differ in each thing the guard compares | summaries hold whole units of one process, one provenance per directory, torn metadata freezes the directory, resumes complete, no whole unit is lost |

The prices are chosen so that a full refund is over the approval threshold and half of it is not,
one half rounds up to just over the threshold, the ages are the window and a day more, and the
refund count is the limit and one less: every comparison of the policy is met on both sides and on
its edge. Runs are at most ten supersteps long, so the limit of 25 is never met. `fork_group` has the
limit 7, because the budget a fork carries over matters only where a run can outgrow it: a refund
without an approval does, both halves of one with an approval do not, so the instance has complete
and exhausted arms. Its theorems hold for every limit. Two units are
enough for a torn write of one to meet the append of another, and four processes for a repair of a
repair. `MaxSessions` and `MaxRequests` are the only bounds on otherwise unbounded counters; three
requests are what a lost one, a retried one and its replay after a restart take. The analyses are
checked under every grading the builders can author for the world and for three verdicts of the
judge of each run: one that endorses, one that does not, one that raises.

The runs expected to find a violation state a sentence of the repository that the code does not
keep; each is a finding in `PROJECT.json`:

- `m1_marker`: M1's marker is recorded before the check is called, so it also fires on runs in
  which no 31-day-old delivery is let through.
- `e_versus_d`: a model call of D that failed is not cached, so E draws a reply of its own there and
  differs from D without any routing change.
- `torn_line`: a process killed between a row and its newline leaves a file that `_load_done`
  takes for sound; the next group is appended to the unfinished line, which damages two groups
  in the middle of the file and makes the final read raise. The next resume repairs it.
- `resume_part1`: Part 1 does not repair its log, so after a torn write every resume raises.
- `dirty_rows`: a resume overwrites `dirty`, so rows of uncommitted code (`--allow-dirty`) end up
  under metadata that says the tree was clean.
- `regrade_none`: the re-grade of the position rules says that its rule `none` reproduces the
  three-artifact harness as measured. A fired mutant's row with a grading error counts as caught in
  it, while the report leaves such rows out of every rate.
- `metered_rows`: an attempt that raised is a call that is neither a cache hit nor a reply without
  usage, so `metered` takes the costs of its row for complete and sums the lost tokens as zero.

What the predictions had to be read as, so that they hold of the code:

- The routing check flags "exactly those cases" of E (`docs/variants.md:102-103`) as far as the
  full rerun classifies as the baseline did. A rerun that draws another classification can take
  the fast path on its own, and the regression it shows is hidden by the fork and not flagged.
- M3's marker also fires for an id that names no order at all. There the second lookup finds nothing
  either, `any_read_or_stop` accepts it as a stop and the constraints cap nothing: the prediction
  that the position rules add M3 is about another customer's order, as the results note for
  N01-N03 (`docs/part-1.2-results.md`).
- The constraints reject C exactly when it planned a refund: only then does it look up a third time.
- A naive fork replays the decision of its paired fork (`NaiveReplaysItsPair`), so `SameDecision`
  excludes a pair only when one of the two crashed.

**Deadlock** is not checked: runs, groups, processes and the bounded requests are meant to stop.

**Fairness.** `RefundAgent` and `ForkGroup` assume weak fairness of their next-state relation. The
driver is a sequential program that calls the next superstep until the graph ends, and each call
returns or raises: model calls have bounded attempts (`agent/llm.py:340`) and tools are local
SQLite statements. `AgentPair`, `MeasuredRun` and `LLMClient` state safety only and assume no
fairness: nothing in the repository restarts a killed process.

## What is proved

The assumptions are the named `ASSUME`s of the modules: `None` is not a datum, the policy constants
are naturals, `Variants`, `Cases`, `Launches` and `ChangeLists` hold what their names say, the
recursion limit is at least one, no checkpoint, classification, reply or set of reply facts is
`None` (`ClientAssumption`, `ReplyAssumption`: a run without a reply is told from one that replied),
and no two units of a measurement are the same, since a suite with two cases of one id does not load
(`evals/schema.py:67-69`).

**The agent** (`RefundWorldLemmas`, `RefundAgentProofs`), for every set of
cases, every policy constant, every recursion limit and every subset of the variants: all the
invariants of `refund_agent`, and the safety part of the refinement.

- `AgentInvariant`, and from it `TypeCorrect`, `InputsReady` and `FaultsMarked`: no refund that is
  not due and no untrue reply, except in a faulty variant whose marker has fired.
  `FaultsAreMarked` is not inductive, since nothing in it says how a run gets to a bad refund.
  `AgentInv` adds which nodes a variant visits and what each of them can rely on (`PathInv`), that
  the ledger is empty until the state names a refund (`LedgerInv`), that what the state holds is
  what the seeded world has (`FaithfulInv` - the world's own price may have moved since, which is
  why it speaks of the *first* read), which checks have passed where money moves (`GuardInv`), and
  that the reply tells the ledger (`ReplyInv`); each part is either true or already marked by the
  variant's fault. There is one lemma per action, one step per conjunct, and the tools' effects are
  lemmas of `RefundWorldLemmas`.
- `LogsAgree`: the refund rows are as many as the successful writes in the tool log (`LogInv`),
  which every action keeps because it writes either none of both or one of each (`LedgerSteps`).
- `AmountVerified`: what `alt_verify` pays is worth the price the order had when it was last read
  (`PriceInv`), and no read comes after the payment.
- `OneInterrupt`: a node's `Rank` bounds the supersteps a run still has before it, every superstep
  lowers it, and an interrupt that has been answered is never met again (`BudgetInv`). Hence no
  invocation takes more than ten supersteps and no run needs a second resume.
- `ImplementsPromise`: the initial states map to initial states of `RefundPromise` and every step to
  a step of it or a stutter, if the recursion limit is at least ten; under a smaller limit the
  superstep that grants the refund can be the one that ends the run. Of the faulty variants this
  says no more than that they end: the mapping hides what they pay.

**The client** (`LLMClientProofs`), for every set of clients, models, namespaces, prompts and
replies and any bound on the requests: `ClientInvariant`, and from it `CountersAddUp`, `SameReply`,
`DrawsAreOwn`, `OnlyReplies` and `ImplementsRecording`: all of the run's properties. The counters' equation is
inductive by itself. The cache's promises are not: `SameKeySameReply` speaks of replies only, so
the invariant adds that what was given out is what is stored (`GivenIsStored`), that an entry was
drawn by a client its key belongs to (`StoredByOwner`), and that the key of a request in progress
has no entry yet (`StillMissing`), so that storing its reply overwrites nothing. The last one rests
on requests being made one at a time, as the drivers do. It is also what the refinement of
`ReplyRecording` needs: a hit is a replay, an answer a draw - of a key that has no reply, although
the store is an `INSERT OR REPLACE` - and everything else a stutter. This is why the models of the
agent and of the pairs may keep a recording in place of the client.

**The measured run** (`MeasuredRunProofs`), for any launches, any list of units and any number of
processes: all of the run's properties.

- `RowsOfOneProvenance` and `TornMetadataIsFinal`. `OneProvenance` speaks of rows and metadata, and
  a process writes both from what it was launched with; the invariant adds that the process past
  the guard agrees with the metadata it found (`Guarded`), that metadata that does not parse is only
  met when there is no process, and that there are no rows before there is metadata. The lines
  themselves are arbitrary: an append, cut short anywhere, and the repair keep every set of lines
  closed (`WrittenLines`, `TornLines`, `SurvivingLines`).
- `SummariesAreOfWholeUnits`, `ResumesComplete` and `WholeUnitsAreKept`. A resume takes a unit for
  done when it has as many rows as it has arms, so what has to be shown is that a count can be
  trusted. `Tidy` is why: the rows of a unit that the log holds are of one measurement and have
  distinct arms, so that the unit is whole exactly when every arm has a row. `LoopInv` adds what the
  process knows of the log: while it rewrites the file, which units will stay; in the loop, that
  nothing of the units ahead of it is there and that those behind are whole unless one failed; and
  that no unit is partial, where every line parses. `SummaryInv` adds that a summary was made of
  whole units and outlives its process. An append adds the rows of the unit
  at the position, a torn one a prefix of them and then a line that no row is read from, and the
  repair drops the rows of the units that are not whole, all of them (`SurvivingSteps`,
  `AppendTidy`).

**The fork group** (`ForkGroupProofs`), for any cases, any lists of changes and any recursion limit:
all safety properties of `fork_group`.

- `ResumesOwnPause`. Between a fork's start and its first superstep the latest checkpoint is some
  other arm's, so the property is not inductive; `LatestIsOwn` excepts the changed node, where every
  fork starts (`ForkPointNext`) and which does not pause.
- `ArmsAreFunctions`: the invariant the comparisons rest on, `FunctionInv`. Two arms of
  a group share the thread, the snapshots and a cache and nothing runs them in step, so a simulation
  between them has no second run to refer to. Instead each arm is compared with a function (`Finish`,
  a composition of the supersteps of `RefundAgent`): whatever point of it the group has reached, running `Finish` from there gives what running it from the
  arm's origin gives (`OnItsWay`), for every classification and plan the arm may still draw. Every
  action preserves this because it is one pass of the function. While the baseline runs, the
  invariant adds that the full rerun of every change passes through the baseline's fork point with
  that state, world and budget (`StopsAtPlan`), as long as the recorded path routes like the change.
- From it, by comparing two finished rows with the same function: `PairedForksAreFullRuns`,
  `InheritedVerdictsHold` and `SameDrawsEndAlike`; and `NaiveForksAdd`, where the fork starts in the
  world the baseline left.
- `TracesAreKept`: the invariant about what the routing check sees (`TraceInv`): the thread has a
  checkpoint for each node the baseline visited, only E's router can differ from the recorded path,
  and where it does the full rerun takes the fast path; the rows and the queue are the arms of the
  group in their order. From it `PairsAreAlwaysOne` and `FlagsAreExact`; and, with what the case
  builders can author, `NaiveVerdictsAreTheWorlds`: a naive fork's verdict differs from the paired
  one's because of the refund the baseline left and of nothing else.
- `NaiveForksReplay`: what the caches hold is what the arms have drawn, with one plan for each
  request (`ReplayInv`). The two forks of a change start at one point with one price
  (`OneForkPoint`), so the request of the naive one is in the cache, and it must get the plan drawn
  for the paired one (`OwnPlan`); nor can it stop before it (`StuckInv`).
- `EReplaysDraws`: by the same invariant E's arms replay the draws of D's (`PairsReplay`). The theorem assumes that D comes before E in every list of changes (`DFirst`), as
  it does by default (`scripts/run_part2.py:85`); for a list with E first TLC refutes the property.

**The pairs and their analyses** (`AgentPairProofs`, `PairAnalysisProofs`), for every case, every set of variants of
Part 1 and every policy constant:

- `DirectionTable` and `ReportsCountAlike` hold of any two runs, since they are about the definitions
  of the scripts: the lemmas state them for any trajectory and any graded rows.
- `RunsAreAsTabled`: what the comparisons rest on. The two runs of a pair take different routes and
  meet only at their ends, so there is no step-by-step relation between them to keep. Instead every
  run is compared with a table in closed form: how far a variant gets in a case under a
  classification and a plan (`Asked`, `Found`, `Checks`, `Clears`, `Plans`, `Goes`, `Tries`,
  `Pays`), and from that the state, the ledger, the calls and the marker it has before each node
  (`InTable`). Every superstep of every variant keeps the table, one lemma per action; `PairInv` adds
  that both runs have drawn from one recording, which has one plan for each prompt (`OneEach`).
- `AlternatesEndAlike` and `AlternatesLookAlike`: two finished runs that have the same classification
  and, where both came to plan at the same price, the same plan (`SamePlan`) are compared by their
  entries in the table: a valid alternate gets as far as the baseline (`SameCourse`), and its calls
  are the baseline's, or those and one more.
- `EndStateCatches`: an accepted baseline paid what the case's author expects (`AuthoredEnds`), and
  what a run pays follows from its table (`EndsPaid`). Two runs that ended with different ledgers are
  therefore two of the author's end states (`TwoEnds`), and only a mixed-reason case has two. B and M8
  write what the baseline writes, so their rows have its calls and its ledger.
- `ValidPathsPass`: which builder can have written the grading depends on the case alone
  (`GradingKinds`), and a right end state fixes which calls a valid variant made: `RightRun` lists
  them. What a check says of a list follows from how often each tool is in it and whether the check
  comes before the write, so the lists enter the argument only as `Counted` and `Ordered`.
- `ModesTellEdits` and `AlternatesPredicted`: the list of a fired V1, V2 or V3 is a list of the
  baseline and one read more, that of a reordered run the same calls in another order (`FiredList`).
  The modes compare those counts with the reference (`ModesOfMore`, `ModesOfOrder`), and the position
  rules look only at reads that come back after the first of each (`RepeatsAppend`,
  `RareReadsRuled`).
- `MutantsPredicted`: constraints that accept the baseline say where it ended, stopped about the
  check or with a write (`BaseAccepted`, `BaseStops`, `BaseRefunds`); beside it, each mutant's list
  decides whether the same constraints accept it, which is whether it wrote exactly when the baseline
  did, with one lemma for each mutant where that is not the whole answer (`PlainJudged`,
  `SkipRejected`, `EarlyCheckRejected`, `ManyLookupsRejected`, `OwnerlessJudged`, `CostsAccepted`).

The table assumes what Part 1 pairs (`PairAssumption`): its variants, not the changes of Part 2.

Only model-checked is the liveness, which is out of the prover's reach: `RunEnds`,
`EveryArmGetsItsRow` and the liveness of the promise. Every safety property of a passing run is a
theorem. The invariants of the proofs were checked by TLC on the instances of the runs before they
were proved.

## Plan

Done: the world, the agent and its promise, pairs, graders and authored cases, graded rows and what
the reports and scripts count of them, fork groups, measured runs, the LLM client; the proofs above.

Left: no safety property of a passing run is without a theorem. What remains, in this order:

1. that the recordings of `AgentPair` and of each namespace of `ForkGroup` are a `ReplyRecording`, so
   that the client's refinement composes with them by a theorem and not only by reading;
2. the loading of a suite (`evals/schema.py:62-70`), which the measured runs assume to have no
   two cases of one id.

Not modelled, and why:

- bootstrap and Wilson intervals, the variance ratio, cost sums, rates of identical replies and all
  rendering: arithmetic on finished rows without state, in floating point;
- the string check on a reply's text, how JSON is found in a reply (`_balanced_json_objects`), the
  prompts' wording: text; what they come to is given by the environment;
- the recovery of a classification from the cache file (`scripts/upstream_state.py`): it parses the
  prompts that were used as keys;
- the 60-odd concrete cases: the builders are modelled as functions, the worlds of the runs stand
  for the cases;
- argument parsing and `--summarize-only`: the latter is `Summarise` on its own;
- SQLite and LangGraph themselves, which appear as what the code relies on them for.
