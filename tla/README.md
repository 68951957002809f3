# EDA-Copilot in TLA+

A verification development for EDA-Copilot, the autonomous data-preparation
agent whose source is under `src/`: TLA+ modules translated from the Python
code, TLC configurations that model-check them on small instances, and theorems
that TLAPS proves for every value of the constants. Every reference of the form
`file:line` is to a file under `src/`.

`PROJECT.json` is the index: components, runs, the lines each definition stands
for (`map`), hazards, findings and theorems.

## 1. The system

A user uploads a data set in a Streamlit session. The session's orchestrator
queues a job; the job is one `MetaAgent`, an asyncio coroutine that walks a
thirteen-state machine: ingest and fingerprint the data, run signal rules, build
a signal graph, have an LLM plan and a second LLM review the plan, perhaps ask a
human, optimize, simulate, refine, validate, execute, and write the results and
a registry record that later jobs may reuse.

| Component | State it keeps | Operations | Talks to |
|---|---|---|---|
| Orchestrator (`control/orchestrator.py`) | `_jobs`, `_tasks`, the semaphore, `_started` | start, stop, submit_job, cancel_job, get_status, list_jobs; the task body `_run_job` and its done callback | one MetaAgent per job; called from the UI's event-loop thread |
| MetaAgent (`core/agent/meta_agent.py`) | state, plan, optimized plan and version, reports, counters, feedback | one handler per state; `_apply_overrides`, `_finalize` | every component below |
| AnomalyDetector, ConfidenceTracker (`observability/`) | escalated uuids; the trend of scores | check; record, get_trend | MetaAgent |
| HITL gate and store (`core/hitl/`), review page (`app/pages/3_hitl_review`, `app/utils/api_client.py`) | the SQLite table `hitl_requests`, shared by all sessions; the page's session state | request_approval (write, poll, clear); get_hitl_payload, submit_hitl_decision | MetaAgent on one side, a human on the other; only the table between them |
| RiskEngine (`core/hitl/hitl.py`) | none | assess, requires_hitl | MetaAgent |
| BudgetController (`control/budget_controller.py`) | usage and start time per job | register, record_usage, assert_budget_available | MetaAgent |
| Result cache (`core/cache/`, `core/execution/state_manager.py`) | one JSON file per state_uuid | lookup, save, mark_failed, find_one, find_many, write, read | MetaAgent; the directory is shared by all jobs |
| Ingestion (`core/ingestion/`) | none beyond a call | ingest, profile each column, order the columns, fingerprint | MetaAgent, PERCEIVING |
| Signal rules, scoring, compression (`signals/`, `scoring/`) | none beyond a call | run every rule, rank, cut to the token budget | MetaAgent, SIGNALING |
| SignalGraphBuilder (`core/intelligence/`) | nodes and edges of one job | build_graph | MetaAgent, MODELING |
| PlannerAgent (`core/agent/agent.py`) | the index into the model pool, shared by planner and reviewer | generate_plan, review_plan, fallback | LLM services; MetaAgent, PLANNING and REVIEWING |
| PlanNormalizer (`core/execution/plan_normalizer.py`) | none | normalize | MetaAgent after review |
| PlanOptimizer, GlobalStateSimulator, PlanRefiner (`core/intelligence/`) | none beyond a call | optimize, simulate, refine | MetaAgent, OPTIMIZING to REFINING |
| Validation (`core/validation/`) | none beyond a call | run | MetaAgent, VALIDATING |
| DAG execution (`core/execution/`) | frame, checkpoints, log | translate, build, run, rollback | MetaAgent, EXECUTING |
| Outputs (`core/output/`) | files | write, export, generate | `_finalize` |
| Traces, step sequence, token ledger | append-only logs | log, next, record | everyone writes, no control flow reads |
| Confidence router (`core/routing/`) | none | route | its unit tests only |
| Factory and UI (`app/`) | `st.session_state` | wiring and rendering | everyone |

### What is hard, and what makes each part correct

* **Orchestrator.** Tasks wait for a semaphore while they may be cancelled,
  timed out or stopped; `asyncio.wait_for` lets an agent's end, a timeout and one
  or two cancellations race. Correct means: no permit is lost or invented, never
  more jobs RUNNING than slots, no slot idle while a job waits, a final status that
  tells how the agent ended, no agent left running behind a verdict (only a second
  cancellation leaves one behind, and that one no longer counts as a job), every
  submitted job settled in the end.
* **MetaAgent.** Three nested loops (replan after rejection, review after an
  anomaly, refine after simulation or validation) share counters that are read
  with different comparisons, and every attribute may be stale by the time a
  later handler reads it. Correct means: the loops end and respect the limits,
  what is executed is what was validated, an approval belongs to the plan it was
  given for, a record in the registry never points at missing artifacts.
* **HITL.** Two processes meet only in a table row: a polling loop that may be
  cancelled at any statement, and a human whose screen may be stale. Correct
  means: a gate reads its own row, a decision reaches it from nowhere but a page that
  looks for the gate's key, no row is left behind, every request ends.
* **Cache.** Concurrent readers and writers of the same file, one of whom deletes
  what it cannot parse. Correct means: a reader sees all of a record or none, no
  good record is deleted, a hit is a complete result for that data set.
* **The data's way: rules, graph, optimizer, refiner, executor.** Sequential code whose
  difficulty is in how far its stages are apart: a rule's threshold decides whether
  the graph can be built, a conflict seen by the builder must still hold after
  merging, an action's type has to be known to three different maps, and every order
  comes out of a set. Correct means: a plan is never at odds with itself, refining
  neither loses nor adds work and comes to an end, what was selected is done exactly
  once in whatever order, and the graph of a job fails to be built only over the tables
  known for it. (Later stages have failures of their own: validation over a target
  accuracy is not defined for, the refiner over a wide or heavy table, the executor over
  a dropped column, an empty plan.)
* **Model rotation.** One index serves two roles and survives every call: each model
  is asked at most once per call wherever the index stands, and a call fails only when
  all have refused.

The hazards are listed one by one, with their lines, in `PROJECT.json`.

## 2. The modules

| Module | Models | Theorems in |
|---|---|---|
| `Orchestrator` | `control/orchestrator.py`, with `asyncio.Semaphore`, `asyncio.wait_for` and done callbacks as `_run_job` uses them | `Orchestrator_proofs`, `OrchestratorSafety_proofs` |
| `JobLifecycle` | what the job queue promises its callers: the abstract specification `Orchestrator` implements | (the refinement is in `Orchestrator_proofs`) |
| `MetaAgent` | `core/agent/meta_agent.py`, with the checks of `AnomalyDetector`, `RiskEngine` and `BudgetController` that route it | `MetaAgent_proofs` |
| `HitlGate` | `core/hitl/hitl.py`, `core/hitl/hitl_store.py` and the review page | `HitlGate_proofs` |
| `Cache` | `core/cache/` and `core/execution/state_manager.py`: the shared directory of records | `Cache_proofs` |
| `ModelRotation` | `core/agent/agent.py`: the pool of models as planner and reviewer take turns on it | `ModelRotation_proofs` |
| `DataProfile` | `core/ingestion/`: the profile of a column and the canonical order (operators) | |
| `SignalRules` | `signals/` and `scoring/`: rules, ranking, compression (operators); extends `DataProfile` | |
| `ActionGraph` | `core/intelligence/signal_graph_builder.py` (operators); extends `SignalRules` | (lemmas in `ActionGraph_proofs`) |
| `Pipeline` | one job's data through all stages, with the optimizer, simulator, refiner, validation, executor and outputs; extends `ActionGraph` and implements `MetaAgent` | `Pipeline_proofs` |
| `MC*` | the instances TLC checks | |

Definitions whose name ends in `_Something` (`Release_PermitLost`,
`_validate_SkipsOnLimit`, ...) are variants of the definition that follows them,
each with one plausible bug. No behaviour uses them; `PROJECT.json` names, for
every property, the variant that TLC finds it to reject.

### Orchestrator

The event loop runs one task at a time, so an action is what one task does
between two awaits. `Acquire` is the first step of `_run_job`'s task: it ends it
when it was cancelled before it began, queues it, or enters the body. `Resume` is
the return from the semaphore's future, `AgentAnswered`, `CancelAgent` and
`AgentReaped` are the returns from `wait_for`, and `on_task_done` is the done
callback, which the loop runs one iteration after the task has ended. `stop` and
`stop_returns` are the two halves of `stop()` around its `gather`.

The standard library is external and is modelled from Python 3.10, the version
`README.md:290` asks for. Three of its details decide what can happen here:

* `Semaphore.release` adds a permit and `_wake_up_next` takes it off again for
  the first waiter that is not cancelled; a waiter that is cancelled after the
  grant passes its permit on. `ahead` records the queue as the set of those who
  were already waiting.
* `wait_for` returns the inner task's result when it has already ended, even if
  its own task has been cancelled in the meantime; otherwise it cancels the inner
  task and waits for it, and a second cancellation during that wait abandons it.
* `Task.cancel` only sets a flag that is thrown at the task's next step.

The agent is what `wait_for` can see of it: it runs, ends in one of three ways,
or, when cancelled, ends or survives (its own `wait_for` in `_review` can swallow
the cancellation for the same reason).

`JobLifecycle` is the life of a `JobStatus` record as `get_status` shows it. The
refinement mapping takes `status` as it is, `settled` from the done callback and
`begun` from the phase of the task.

### MetaAgent

One action per handler of `run()`: the handler's awaits are calls to functions of
the job's own objects, so nothing but a cancellation and the clock can interleave
with them, and those are actions of their own. `_finalize` writes files in worker
threads, so it takes one action per file. What a handler hands on is kept only as
far as something routes on it or a property speaks of it:

* the LLM's plan is whether it holds a high-risk action;
* the optimized plan is its version number, and the impact and validation reports
  are the version they were made from;
* the trend of confidence scores is its last two entries, all that the detector
  reads;
* why the state is FAILED, what the planner was told and whether a human signed
  the plan off are kept as history variables.

`Raise` is an exception anywhere: `run()` catches it and fails the job. What the
handler had assigned before it raised is dropped; nothing reads it in FAILED.
`Cancel` is a `CancelledError`, which `run()` does not catch, and `OrphanWrites`
is the worker thread a cancelled `to_thread` leaves behind.

Two constants choose a configuration. `RiskKey` is the field of an action that the
risk engine looks at: `"operation"` is the engine the factory wires in, which
never finds that field in a plan (`findings`). No property is claimed of an engine that
would; the full run sets `"action_type"` only so that the human path of `_review`, which
the shipped engine never opens, is taken as well, and its properties do not speak of
risk.
`CanHit` is whether the registry may hold a record that counts as a hit; the
shipped lookup never finds one, and the model covers both.

### HitlGate

Each SQL statement is one action (`hitl_store._LOCK` and one transaction), and
anything may happen between two of them. `request_approval`, `write_request`,
`poll` and `clear` are the gate's side. `Cancel` stands for all that can end the
coroutine from outside: cancel_job, the job's timeout, and the
`wait_for(..., 1800)` that `_review` puts around the gate. That one fires before
the gate's own 600 polls of 3 s plus the time of each statement have been counted,
so the clear at `hitl.py:153` is in practice skipped and a PENDING row remains;
the model keeps both outcomes. A statement under way when the coroutine is
cancelled is still carried out by its thread (`lateWriting`, `lateClearing`).

On the other side `Open`, `Click` and `write_decision` are the page: rendered, the
script rerun by a click, the decision written. `st.session_state.job_id` is set in
the session that uploaded the file, so each job has one viewer. `Uuid` and
`JobKey` are constants because the two sides compute their keys apart: `Uuid[j]`
is the data set's `state_uuid`, `JobKey[j]` the orchestrator's `uuid4`, and the two are
never equal in the program, so that no shipped gate is ever answered
(`NoGateIsAnswered`). What does not depend on the page, whose row a gate polls and when
it is cleared, is checked on a mixed instance: the page of one job uses the shipped key,
the other's the key of its gate, since without such a page nobody could click at all.

### Cache

All jobs share one directory, one file per `state_uuid`, and use it from worker
threads without a lock, so an action is one call to the file system. `read` is
`exists`, `open` (which reads the whole file, replaced or not, since it holds the
inode) and `remove`, the purge; `find_one` and `find_many` call it and differ in what
they do with an exception, which is `Raised`. `write` is `dump` into a temporary file
and `replace`. A file holds a whole record, named by the job that saved it, or
something `json.load` cannot parse. Where that comes from is outside the program
(`Damage`): a disk, an editor, or a power failure, as nothing is flushed before the
rename. `Crash` is the end of the process with all its threads.

No record `save` writes has a `dag` or a `fingerprint` at its top level, so `lookup`
ends in a miss whatever it reads, and that is how it is modelled.

### ModelRotation

The pool of models belongs to a `PlannerAgent`, and the factory gives a job one such
object as planner and as reviewer. `Call` begins a call with the index where the last
one left it; `Refuse`, `Wake` and `Rotated` are a rate limit, the 10 s of sleep and the
step to the next model; `Break` is any other error or an answer that cannot be parsed,
which ends the job without trying another model. Which call comes next is the dialogue
of `MetaAgent`: replan after a rejection, a second review after an anomaly.

### Pipeline and the modules under it

`Pipeline` is what `MetaAgent` leaves out: the data. Its state is what the handlers
pass from one to the next (`signal_bag`, `signal_graph`, `optimized_plan`, the two
reports, the DAG, the frame), its actions are the stages. Three things take several
steps each, because the order or the place of a failure matters: the optimizer picks
one action at a time (`Pick`), the executor runs one node at a time (`RunNode`), and
`Finalize` writes one file at a time.

What data is abstracted to:

* a table is a sequence of columns, a column what pandas would say of it: dtype,
  distinct values, missing values, mean text length, skew, variance. The rules and
  thresholds are the code's, over these;
* what the rules ask of the table as a whole is a few facts of the job: duplicate rows,
  pairs of correlated numbers, dates, a name or value that tells of images;
* a signal is its action, severity, type and columns: what scoring, the graph and the
  compressor read;
* scores are integers with the code's weights, exact where the code uses floats;
* a plan is a set of actions. Every list of it comes from a topological sort that
  starts from a Python set, so each order is possible, and `RunNode` may begin any
  action that has not been run;
* the frame is, for each column it has, what was done to it.

Three stages turn out to have no effect, and the model shows them so: the LLM's plan
and its review do not reach the optimizer, the simulator and the sample tester apply
no transform, and no action depends on another (`depends_on` is always empty).

`Machine` in `Pipeline.tla` is the refinement mapping: counters and versions as they
are, the trend of scores from the job's score and whether it has been refined, the
exported pipeline from its script (the pickle is written first and stands for
nothing). A job of `Pipeline` always misses the cache, is approved by its reviewer and
reports one score; the choices that drops are `MetaAgent`'s to check.

### How they fit together

The orchestrator's `AgentReturns` is the end of a MetaAgent run, and its
`CancelAgent` the `Cancel` of `MetaAgent`, of `ModelRotation` while an LLM is asked,
and of `HitlGate` while the agent waits for a human. `HumanRejects` and
`ReviewerApproves` in `MetaAgent` are the answers `HitlGate` and `ModelRotation`
produce. `_perceive` is where `Cache`'s lookup runs and the last file of `_finalize` its
save. These are checked apart: they share the task that is cancelled and nothing else.
`Pipeline` and `MetaAgent` are the same handlers seen twice, and the refinement ties
them together.

## 3. What the runs check

A state space is small enough to be finite because each job is submitted once and
every counter has a bound that is either the code's own or a named constant
marked BOUND.

| Run | Instance | Shows |
|---|---|---|
| `orchestrator_safety` | 3 jobs, 1 slot, symmetric | permits conserved, slots respected, no idle slot, no orphan behind a verdict, truthful final status, stop leaves only jobs it could not have seen |
| `orchestrator_progress` | 2 jobs, 1 slot, fair | every job settles; `JobLifecycle` is implemented |
| `orchestrator_cancel` | 2 jobs, 1 slot | *violation*: CANCELLED can turn into COMPLETED |
| `meta_agent_full` | limits 3 and 3, budget 4, scores {2, 4, 6, 9}, `RiskKey` action_type, hits possible | the run ends; what is executed was validated; refinements are bounded; staleness, the record |
| `meta_agent_high_risk` | limits 1 and 2, budget 2, shipped `RiskKey`, no hits | *violation*: high-risk plans are not held |
| `hitl_own` | 2 jobs on data sets of their own, one page with the shipped key and one with its gate's, 2 polls, 2 rounds | a gate polls its own row, decisions come by key, no leftovers, every request ends |
| `hitl_shared` | as shipped, 2 jobs on one data set | *violation*: "disappeared mid-poll" |
| `cache_shared` | 3 jobs on 2 data sets, 1 damaged file, crashes | saved records stay, lookups fail only over damage and end, temporary files are transient |
| `cache_purge` | the same | *violation*: the purge removes a good record |
| `pipeline` | every table of 3 columns of 10 kinds in each of 9 circumstances it can be in: 7432 jobs | plans without conflicts; refinement keeps the work and settles; the search is complete; selected work is done once and visible; which tables fail or lose a column; `MetaAgent` is implemented |
| `pipeline_target` | every table of 2 columns of these kinds | *violation*: the target column is encoded or dropped |
| `model_rotation` | 3 models, 3 rejections | every model once per call, the last winner first |

**Bounds.** With one slot and three jobs there is a holder, a waiter who may have
been granted the permit, and another waiter behind it, which is every role the
semaphore's code distinguishes; a second slot adds only holders, and the theorems
cover every number of both. `MaxIterations = 3` and `MaxReviews = 3` are what the
factory ships. Four scores put one on each side of the detector's thresholds (4
for one score, 5 for two in a row, a drop of 3), so that each check fires alone
and together. `MaxWall = 4` lets more humans reject than there are reviewer
rejections before the budget ends. Two rounds of two polls let a late click of the
first round meet the second round's row, before, at and after a timeout. In `Cache`
two jobs write one key while a third, whose own key is another, meets it in its scan;
more jobs or keys repeat these roles, and the theorems do not bound them.

In `Pipeline` the ten kinds of column lie on both sides of the thresholds that decide
what is done to a column: constant, few or many categories, two values, moderately and
mostly missing, both of these at once with an encoding or with nothing left to see,
long text, skewed within a tiny range. Two columns of one kind share a signal and three show the merging of two
actions beside a third; the names a, a_b and b are the shortest for which two sets of
columns spell one id. Rules and scores see 2000 rows. Two of the code's limits are made
smaller so that three columns can reach them: `Budget = 70` hundredths for 5.0, which
three columns never cost, and `TokenBudget = 14` signals and columns for 2000 tokens,
so that long lists of signals are cut. `MaxColumns = 100` is the refiner's default; the
98 dates of two circumstances put the table on its edge, before and after a drop, with
a sample that shows the values of the column to encode and with one that does not. The
other circumstances are a table with nothing special, duplicated rows, one strong and one
moderate correlation (of tables with two numbers that vary), images, a sample over the
refiner's memory threshold and a low confidence. A hub of
correlations takes four numbers, the sensor rule more than twenty, and the event rule a
column named for it: these three signals are covered by the theorems and not by the runs. `PoolSize = 3` is the shipped pool and `MaxReviews = 3` the shipped limit.

**Fairness.** `Orchestrator`: the event loop runs every task that is ready, a
timer that has been set fires, and a cancelled agent ends. Nothing is assumed of a
running agent, which may wait for an LLM or a human for ever. `MetaAgent`: each
handler returns or raises, since the LLM clients and the files do and the wait
for a human has its own timeout; that the human rejects only so often is not
assumed. `HitlGate`: the gate's own steps are taken; no human ever owes a click.
`Cache`: a thread that has begun a lookup goes on with it.

**Deadlock** is checked for the orchestrator, whose `start` is always possible.
It is not for the others: a run that has returned, a gate that has asked all its
rounds, a job that has saved its record and a dialogue that has ended have nothing left
to do.

## 4. What is proved

All theorems hold for every value of the constants that meets the module's
assumptions: a finite set of jobs and at least one slot; positive limits and
budget and scores in tenths; keys from a set and a positive timeout; a pool of at least
one model. Of a table it is assumed that its columns are profiles (`Column` in
`DataProfile`: percentages up to 100, counts that are not negative) and that no two
have one name, since pandas renames the later one when it reads the file; of their
number, their kinds and the budgets, nothing.

Every safety property that a passing run checks is proved, one of them (`PollsOwnRow`)
under a hypothesis on the keys that is named below, and so are both refinements.

* **Orchestrator** (`Orchestrator_proofs`): `TypeCorrect`, `PermitsAreConserved`,
  `SlotsAreRespected`, `Refinement`. The invariant is `TypeOK`, `PermitsConserved`
  and, for each job, `Shape(j)`: what the phase of the task says of its status,
  state, agent and cancel flag. Conservation alone is not inductive, because
  whether a task gives a permit back depends on its having one; the two lemmas
  `WakeUpNextKeepsTotal` and `ReleaseTotal` say what the semaphore's two functions
  do to `value` plus holders. `Shape` is also what the refinement needs: for
  instance that a job whose task has ended without entering the body has never
  been RUNNING.
* **How jobs end and who waits** (`OrchestratorSafety_proofs`): `OrphansAreCancelled`,
  `AttendedAgentsHaveSlots` (`SlotsAreRespected` counts the jobs shown as RUNNING; this one
  counts agents, all but those whose job was cancelled), `SettledStatusIsTrue`, `StopLeavesOnlyLate`, `NoSlotIsIdle`. Three invariants stand on
  the one above. `Outcomes` says of each finished task what its status and its agent have
  to do with each other; that no agent is alive there but of a CANCELLED job keeps the
  agent from moving afterwards. `SnapshotCovers` says that while `stop()` gathers, a live
  task is in its snapshot or came late. `QueueInv` adds to `NoIdleSlot` that `ahead` orders
  the waiters strictly (`QueueOrdered`): without it `release` might find waiters but
  nobody first. The lemma `SomebodyIsFirst` finds the waiter to grant, as the one with the
  fewest live waiters ahead of it, and `ReleaseServes` is what every way out of the
  semaphore and of the body relies on.
* **MetaAgent** (`MetaAgent_proofs`): types and six safety properties from one
  invariant.
  `CountShape` is the heart of it: after a refinement the detector has nothing
  left to report on the pair of scores `_simulate` will show it, because `_refine`
  has shown it the same score twice. `ReportShape` bounds how far the impact
  report lags behind the plan, and `OutputShape` is the order of the files.
* **HitlGate** (`HitlGate_proofs`): `TypeCorrect` (strengthened by `PollsInTime`),
  `NoLeftovers` and `AnswersComeByKey` for any keys; `GatesPollTheirOwnRow` and
  `RowsNeverDisappear` when no two jobs share a state_uuid. This hypothesis is the point:
  `hitl_shared` shows what happens without it. `RowsOwned` says when a row exists and
  whose plan it holds. `NoGateIsAnswered` puts `AnswersComeByKey` together with the
  program's own keys, which are never equal.
* **Cache** (`Cache_proofs`): `TypeCorrect`, `RecordsSurvive`, `LookupsFailOnlyOnDamage`,
  `TmpFilesAreTransient`, for any jobs, keys and damage. `OnlyDamageBreaks` is what makes
  them inductive: a thread that will purge a file, or that found one and has not yet
  opened it, does harm or comes to harm only over a key that was damaged.
* **Pipeline, the plan** (`Pipeline_proofs`): `TypeCorrect`, `PlansAreConsistent`,
  `RefinementKeepsWork`, `SearchIsComplete`, `WorkIsDoneOnce`,
  `RefinementIsIdempotent` and `SelectedWorkShows`, for any table and any budgets.
  Nothing is used of the scores: this holds for every selection they could lead to.
  The argument follows the plan. A node's conflicts are edges of the graph, and
  `Clear` looks at edges, so the selection is at peace (`SelectionPeace`, which needs
  that nodes have ids of their own, `NodesHaveOwnIds`). Merging happens only between
  actions of one type without a column in common, and whether two actions conflict
  depends on their types once they share a column (`ConflictByTypes`), so merged plans
  are at peace too. From there the executor's invariant `ExecutionShape` says that
  each unit of work is applied or pending and never both: two pending transforms with
  the same type and column would have to come from two actions at odds.
  `WorkIsDoneOnce` is the first half of `SelectedWorkIsDone`. For the second,
  `FrameShape` says that what has been applied shows in the frame, and
  `WorkStaysVisible` that a later transform takes away its own column only.
  `NamesApart` excludes the one way to undo another column's work: a dummy column that
  takes its name. An imputation shows only while its column is there, and one by
  neighbours only on numbers, as in the code. `RefinementIsIdempotent` needs that a
  merged plan is `Stable`: a group of actions of one type is either a single action,
  or was left apart because its columns overlap, and merging leaves it so.
* **From the table to the graph** (`ActionGraph_proofs`, `Pipeline_proofs`):
  `ColumnsAreKept` and `OnlyGappyCategoriesFail` are about the operators of `DataProfile`,
  `SignalRules` and `ActionGraph`, for any table, and `DataShape` is the invariant that
  hands them on: the signals are the compressed ranking of what the rules say, and the nodes
  are made of these. `RankedAreSignals` says that every place of the ranking is taken
  (`EveryRankIsTaken`, since the order is strict and total), `CompressedAreSignals` that
  what survives is among what was said. A prerequisite needs an imputation and an encoding
  of one column: `WarnedColumns` and `EncodedColumns` trace both back to the rules'
  conditions, so that the column is categorical, with missing values, and has few or many
  categories.
* **The choice between two imputations** (`Pipeline_proofs`): `MeanIsAlwaysFirst`, the
  one theorem about the weights. Whatever warnings are joined in the two imputations
  of a set of columns, these have one of three pairs of benefits (`ImputerPair`), and
  in two of the pairs the mean outscores the neighbours whatever has been selected. In
  the third, one severe warning's, it does so only while nothing risky is selected;
  `StrongFirst`, the strengthening, says that by the time something risky is, such a
  mean has been selected or is out of reach. It is inductive because nothing risky
  scores as high as a severe warning's mean (`PickTakesStrongFirst`, from the bound on
  joined benefits, `BenefitsBounded`) and because what the neighbours do not conflict
  with, the mean does not either (`MeanIsFeasible`).
* **Pipeline implements MetaAgent** (`Pipeline_proofs`): `Refinement`, one lemma
  per stage. Most of it is what is *not* disturbed; the two that think are
  `SimulateMapped` and `RefineMapped`, where a job that always reports one low score
  must be an anomaly exactly once.
* **ModelRotation** (`ModelRotation_proofs`): `TypeCorrect`, `WinnersComeFirst` and
  `EachModelOnce`, for pools of any size. The invariant says that the models a call has
  asked are the ones that follow its first, modulo the size of the pool.

Where a definition adds up along a list (`Spent`, `Join`, `Benefits`), a fact about every
list would need induction with the fact as a parameter, which these provers cannot
instantiate. Two ways around it are used: most proofs need only where the result comes
from and not what it is, and those that need a sum (`BenefitsBounded`, `PairedBenefits`)
are about the set of places where the fact holds: it contains the first and, with each
place, the next, and so all of them (`EveryPlace`).

Only model-checked: the liveness properties `EveryJobSettles`, `Terminates`,
`EveryRequestEnds` and `EveryLookupEnds`, since fairness and ENABLED are beyond the
provers. What the runs show and no theorem could is also that the hypotheses are met:
that there are jobs on both sides of each condition, failing, capped, conflicting, merged.

## 5. Where code and documents disagree

With a run that ends in the violation, and an entry in `PROJECT.json`:

1. CANCELLED is not final (`control/orchestrator.py:86`): an agent that ends in the
   loop iteration of its cancellation overwrites it.
2. High-risk plans are not held (`core/hitl/hitl.py:61`): the engine reads a field
   plans do not have.
3. Two jobs on one data set share a HITL row (`core/hitl/hitl.py:113`).
4. The purge of a corrupted record may delete a good one (`core/cache/json_storage.py:47`).
5. The target column is transformed (`core/execution/plan_translator.py:58`), which
   `app/pages/1_upload.py:117` says it never is.

Met while modelling, and too plain to need a run. About the plan and its approval:

* the page looks for a request under the job's id, the gate files it under the data
  set's `state_uuid` (`core/hitl/hitl.py:117`);
* the plan that is executed is built from the signal graph and not from the plan the
  LLM proposed and the reviewer approved (`_optimize`);
* the plan of the last refinement is executed without a simulation of it
  (`core/agent/meta_agent.py:660`);
* overrides fail the job: `_apply_overrides` (`core/agent/meta_agent.py:929`) looks for
  `action_id`, and actions have `id`;
* the planner is never told why its plan was rejected (`core/agent/meta_agent.py:333`),
  although its prompt announces it (`core/agent/agent.py:108`);
* a plan that did not pass validation is recorded as VALIDATION_PASSED when the
  iterations are used up (`core/agent/meta_agent.py:141` and `:721`);
* an anomaly is logged as "routing to HITL review" (`core/agent/meta_agent.py:620`)
  although the review it leads to asks a human only if the risk engine does.

About the data's way, all visible in the definitions of `Pipeline` and below it:

* a categorical column with more than a fifth of its values missing and few categories
  ends the job: imputing must precede encoding, and the prerequisite's edge asks a node
  for `node_id` (`core/intelligence/signal_graph_builder.py:145`);
* the rules' messages speak of 50% and 10% missing values, their conditions of 70% and
  20% (`signals/rules/data_quality/missing_data.py:23` and `:53`);
* BLOCK_ANALYSIS is rated CRITICAL, so the optimizer never selects it and nothing is
  blocked (`signals/rules/data_quality/deduplication.py:7`);
* KNN imputation is offered for every gap and never selected (`MeanIsAlwaysFirst`);
* the refiner's replacements lack an id, so a wide table with one-hot encoding or a
  heavy sample ends the job (`core/intelligence/plan_refiner.py:359`);
* a plan of actions the translator does not know runs no node and succeeds
  (`core/execution/plan_translator.py:53`); the exporter has another map, so that
  `label_encode` is exported and never executed, `drop` executed and not exported, and a
  plan without exportable steps fails after the data set has been written;
* validation compares two splits of one untransformed sample, and the simulator applies
  nothing, so neither depends on the plan;
* a JSON file that is one array, which the ingestor accepts, fails where the page and
  the target selector read its first line (`core/ingestion/target_variable_selector.py`).

Elsewhere: no one calls `record_usage` or `mark_failed`, the cache never hits, an LLM
answer that cannot be parsed fails the job without another model being tried, and the
client sleeps 10 s also after the last model has refused.

## 6. What is not modelled

* **Statistics and formatting**: the values that make up a profile, a correlation, a
  validation score; the contents of the artifacts; the text of prompts, signals and
  pages. A profile is an input of `Pipeline`, a verdict and an LLM's answer a choice.
* **File formats and fingerprints** of ingestion: encodings, delimiters, the hash that
  becomes `state_uuid` (the constant `Uuid` of `HitlGate`).
* **Operations that no plan can contain**: scaling, clipping, casting, text cleaning and
  deduplication in the executor; the refiner's filters on fields no action has; rules
  whose condition no context meets (R3.5, R3.7, R7.1).
* **PlanNormalizer** and the optimizer's speculative candidates: nothing behind the
  review reads what they make.
* **Token and cost budgets**: their counters stay at zero.
* **Traces, step sequence, token ledger**: logs that no decision reads. `core/routing`:
  only its tests call it.
* **Factory and pages**: wiring and rendering. A session shares one budget controller,
  HITL store and gate, compressor and cache manager between its jobs; none but the
  store and the cache, which are modelled, keeps state that two jobs could disagree on.

## 7. Plan

1. The theorems of `MetaAgent_proofs`, instantiated for `Pipeline` through the refinement:
   that what a job with data executes was validated, and the bound on its refinements.
2. The order of `Compressed`: that what is cut scores no higher than what is kept.
3. A session module: `_run_async` gives up after 30 s without cancelling
   (`app/utils/api_client.py:35`), so that a page may submit one file twice.
4. A composition of `Orchestrator`, `MetaAgent` and `HitlGate` in which one cancellation
   travels through all three.
