# A TLA+ development of the production-priority planner

The repository is a planning system for a job shop: it mirrors orders, operations
and machines from an ERP, ranks the orders, schedules their operations on the
machines, lets planners overrule the result, and hands an approved plan back to
the ERP. This directory holds its formal model: TLA+ modules translated from
`src/backend/app`, TLC configurations that check them on small instances, and
TLAPS proofs of what matters most for every size of instance. `PROJECT.json`
lists, for each definition, the lines it stands for; paths below are relative to
`src/backend/app/` unless they begin with `docs/`.

Contents:
1. the system, part by part
2. how the parts interact, and where it is hard
3. the modules
4. the runs, their bounds, and what they show
5. what is proved, and how
6. disagreements between the code and its documents
7. what is not modelled
8. the plan


## 1. The system, part by part

| part | state it keeps | operations | what makes it correct | module |
|---|---|---|---|---|
| **Schedule versions** `services/schedule_service.py`, `db/repositories/schedule.py` | `schedule_versions` rows: number, status, details with the writeback receipt | generate, approve, reject, publish | one plan is live at a time; statuses move only along `SCHEDULE_TRANSITIONS`; the ERP holds what is published | `ScheduleVersions` |
| **Writeback** `services/writeback_service.py`, `integration/writeback.py` | the receipt in the version's details; the ERP | publish in one of four modes | never PUBLISHED without the hand-over; a failure leaves the version APPROVED | `ScheduleVersions` |
| **Continuous replanning** `services/replanning_service.py`, `engines/replanning/` | none of its own: reads the version in force, writes candidates | evaluate: changes, candidate, stability, decision | an infeasible plan is replaced; what is about to start does not move by itself; a candidate that waits is replaced, not piled up | `Replanning`, `ScheduleVersions` |
| **ERP synchronisation** `integration/sync_service.py`, `normalizer.py`, `field_maps.py` | `sync_runs` rows (the watermark is `started_at` of the newest completed one), the mirrored tables | run (full, pruning or incremental), close or delete missing orders | no change is lost; a full run mirrors; slices and full runs agree | `ErpSync`, `Intake` |
| **Rule-based scheduler** `engines/scheduling/` | per run: a timeline per machine, entries by operation, completions, reasons | reproduce frozen entries, place orders, pull a same-setup order forward | no double booking, precedence, sufficient setups, every order answered, termination | `MachineTimeline`, `ListScheduler` |
| **CP-SAT scheduler** `engines/scheduling/cpsat.py` | per run: the entries of the machines it re-sequences | re-sequence the most loaded machines, keep or replace | the plan stays as sound as it was | `Resequencing` |
| **Planner overlays** `services/{override,lock,expedite}_service.py`, `db/repositories/overlays.py` | overrides, locks, expedites, each with a period | create, supersede, deactivate, expire; holds; conflict check | a decision that was replaced never returns; reserved windows do not overlap; one expedite per order | `Overlays`, `PlannerDesk` |
| **Configuration** `services/config_service.py`, `db/repositories/config.py` | numbered versions, one active | save a section, activate a version | one active version; a saved section is in force | `ConfigVersions` |
| **Alerts** `services/alert_service.py`, `db/repositories/alerts.py`, `analytics_service.py` | rows by key, acknowledgement | sweep, raise, acknowledge | the inbox follows the plant; sweeps spare waiting drafts; acknowledgements are kept | `Alerts` |
| **Constraints, readiness** `engines/constraints/` | pure | eligible machines, blockers | a blocked order has a reason, and says when it ends if that is known | `Readiness` |
| **Calendars** `engines/calendar/` | pure | shifts, holidays, overtime and downtime to working hours | exactly the hours the shifts mean | `Calendars` |
| **Priority engine** `engines/priority/` | pure | factors, adjustments, ranking | a total order; forced orders first; fair shares | `Priority` |
| **Data quality** `engines/data_quality/`, `services/data_quality_service.py` | the issues of the last run that had any | fifteen rules, the gate, the board | an order that is withheld has an issue that says why | `DataQuality` |
| **Planning pipeline** `engines/pipeline.py`, `scheduling/candidates.py`, `state.py`, `locks.py` | the plan before | gate, priorities, candidates, kept entries, scheduler, report | no order is lost on the way; what was promised stays | `Planning` |
| **Analytics and alert rules** `engines/analytics/`, `scheduling/metrics.py` | pure | risk, key figures, capacity, bottlenecks, alerts | the figures of different modules agree | `Analytics` |
| **Read services** `services/{order_query,machine_query,schedule_view}_service.py` | none | lists, day view, Gantt chart, machine pages | they tell what the dashboard tells | `Pages` |
| **What-if simulation** `engines/simulation/`, `services/simulation_service.py` | none: a study changes nothing | apply scenarios to a copy, plan both, compare | a scenario does what it says; the comparison adds up | `WhatIf` |
| **Worker** `workers/` | timers, one instance per job | sync, sweep, replan | a job that fails does not stop the next | fairness and `Fail` of `ErpSync`, `Alerts`, `Replanning` |
| **Users, audit, API, mappers, database models, seed data, frontend** | users; appended rows | see section 7 | | none |


## 2. How the parts interact, and where it is hard

**One transaction per request or job.** `core/db.py:session_scope` opens a session,
commits at the end and rolls back on any exception. Endpoints are plain functions,
so the web server runs each on a thread of its own; the worker is another process.
The database is PostgreSQL at its default level, READ COMMITTED. Nothing else
(no lock, no version column, no queue) keeps two requests apart, so the requests of
planners and the jobs of the worker interleave between any two SQL statements.
A SELECT sees what is committed and the session's own writes; an UPDATE waits for
the row's lock and then writes over what the row has become. That is the main
source of difficulty of the versions, of the synchronisation, of the
configuration and of the alerts, whose modules have one action per statement.

**Effects outside the transaction.** The gateway of the writeback is called before
the commit: a failure after it leaves the ERP with a plan that is not PUBLISHED here.

**A moving source.** The ERP changes while a run fetches feed after feed, records may
be malformed or repeat a line, runs fail and processes die with a `running` row committed.

**A long sequential algorithm with mutable state.** The scheduler recurses through
dependencies and prerequisites, back-fills gaps whose list is maintained slot by
slot, and reuses decisions (a slot's setup, the machine's tail state, entries of an
earlier plan) after the state they were taken in has changed.

**The same question answered twice.** Whether an order is open, on hold, scheduled, late,
or has a machine is decided in readiness, candidates, scheduler, risk, key figures,
alerts and pages, by code of their own and from states of different age.

**Data flow.** Synchronised rows + configuration + overlays -> snapshot -> gate and
priorities -> candidates -> schedule -> a DRAFT version (or a replan candidate) -> approve
-> publish -> ERP. Replanning reads the version in force as the `previous` schedule of
the next run, which closes the loop: what a planner published today is a frozen entry
tomorrow. Analytics, alerts, pages and studies read the version in force, which may be
older than the records they put next to it.

The hazards found while reading are in `PROJECT.json`, each at its line, with the
properties that would catch it going wrong.


## 3. The modules

| module | models | built on |
|---|---|---|
| `ScheduleVersions` | versions, replanning outcomes, writeback: one action per SQL statement | |
| `PlanLifecycle` | what the lifecycle promises: one atomic step per request | |
| `ErpSync` | the ERP, the mirror and the runs that synchronise them, statement by statement | |
| `Intake` | what a run makes of the records: feeds, normaliser, checks, upsert, grading | |
| `MachineTimeline` | a machine's calendar, slots, gaps and `find_slot` (operators only) | |
| `ListScheduler` | one run of the rule-based scheduler | `MachineTimeline` |
| `Resequencing` | that run followed by `CpSatScheduler` | `ListScheduler` |
| `Overlays` | overrides, locks, expedites | |
| `PlannerDesk` | what the overlays promise: one register per order and kind of decision | |
| `ConfigVersions` | configuration versions, statement by statement | |
| `Alerts` | the inbox: sweep, replanning alerts, acknowledgements, statement by statement | |
| `Replanning` | change detection, stability, decision, versions | |
| `Readiness` | hard constraints, eligible machines, blockers (operators) | |
| `Calendars` | working hours (operators) | |
| `Priority` | score and rank (operators) | `Readiness`, `Calendars` |
| `DataQuality` | rules, gate, file of issues (operators) | `Priority` |
| `Planning` | planning runs between changes of the ERP and decisions of planners | `DataQuality` |
| `Analytics` | what is computed from plan, records and priorities | `Planning` |
| `Pages` | what planners look at, and its agreement with the dashboard | `Analytics` |
| `WhatIf` | studies over the plan in force | `Analytics` |
| `...Proofs` | theorems of the module named | the module, TLAPS |
| `MC...` | constants, inputs and symmetry for TLC | the module named |

### 3.1 ScheduleVersions

| variable | code |
|---|---|
| `status[v]` | the committed `schedule_versions.status` of version number `v` |
| `replanned` | versions whose `details.trigger` starts with `replan` |
| `holder[v]`, `pending[s][v]` | PostgreSQL's row lock and the uncommitted row of session `s` |
| `pc[s]`, `op[s]`, `target[s]`, `todo[s]` | the statement a request issues next, its service method, its argument, the rows of a SELECT it still works through |
| `sent` | what the writeback gateway has handed to the ERP |

| actions | code |
|---|---|
| `Generate`, `InsertDraft`, `NumberTaken` | `next_version_number`, `create_version` and its unique index |
| `Approve`, `Reject`, `Publish` | the status checks at the head of the three methods |
| `ListVersions` | `_supersede`, `_supersede_pending_drafts` |
| `CheckStatus`, `UpdateStatus` | `set_status`: SELECT and test, then UPDATE by primary key |
| `SendToErp`, `StoreReceipt` | `WritebackService.publish`: gateway, then receipt (which takes the row lock) |
| `SelectOthers`, `SupersedeOther`, `OthersSuperseded` | `supersede_others`: one SELECT, one UPDATE per row |
| `Replan`, `Decide` | `ReplanningService.evaluate`; which outcome the thresholds choose is free |
| `Commit`, `Fail`, `DeadlockVictim` | `session_scope`, any exception or crash, PostgreSQL's deadlock detector |

`PlanLifecycle` is the abstract specification: five actions, no sessions, no locks.
`ScheduleVersions` implements it, with `replanned` restricted to committed rows as
refinement mapping, as long as requests do not overlap (run `versions_serial`).
Left out: audit, priority, data-quality and alert rows written in the same
transactions (no transition depends on them), the content of a schedule.

### 3.2 ErpSync and Intake

Two views of one service. `ErpSync` interleaves: a run's statements and the ERP's users.

| variable | code |
|---|---|
| `erp[o]`, `now` | the ERP's order and its operation by `updated_at`; the clock |
| `stored[o]` | the committed rows of the order: the update they come from, closed or not |
| `watermark` | `latest_successful_started_at` |
| `run[r]`, `existing[r]`, `writes[r]`, `missing[r]` | a run's parameters and batch, the rows its upsert has read, its uncommitted rows, the orders it is about to close |

Actions follow `SyncService.run`: `Start` (the `running` row), `FetchOrders`,
`FetchOperations`, `ReadExisting` (`_validate` and the upsert's SELECT), `Upsert`,
`SelectMissing`, `CloseMissing` (full runs), `Complete`, `Fail`. A record's content is its
`updated_at`; an order has one operation; the ERP and the application share a clock.

`Intake` has the content: a run is one step (`Sync(mode, prune)`), but it takes the eight feeds of the mock connector through `field_maps.py` (which field
comes from which, and what it falls back to), the identity of order lines and their
`-DUPn` copies, the references between records, the progress reports, the upsert, the
choice of the default calendar, closing and pruning, and the grades of the report. The ERP's rows
change, arrive, disappear and return, repeat a line, and lose or garble single fields (`Flaws`).
Rows are sets ordered by their id; `served` is the ERP, `store` the mirrored tables by the
identity the normaliser gives a row, `mark` the watermark, `doubt` what some run since the
last full one complained of. `RecordsAssumption` says what the tables of the ERP guarantee, because
`MockERPConnector.__init__` keeps them in dictionaries by id: rows have ids and, but for order
lines, identities of their own, and an operation belongs to one order for good.

### 3.3 MachineTimeline, ListScheduler and Resequencing

`MachineTimeline` has the calendar queries, `insert` and `find_slot` as operators.
A calendar is the set of the minutes a machine works in; the queries are stated by
what they compute (`WorkBetween` counts, `Ends` is the instant at which n minutes are
done), and the empty set stands for the error of a calendar that ends.

`ListScheduler` is one run. The Python call stack is the variable `stack`: a frame per
call of `process`, with the stage it is in, the operation it is at and the machines it
has touched; `work` is the work-list of `_lookahead_worklist`. `Init` takes any
snapshot of the constant `Inputs`.

| actions | code |
|---|---|
| `ReproduceEntry`, `Begin` | `reproduce_frozen_entries` |
| `NextOrder`, `ProcessDependency`, `ReleaseOrder`, `DependencyBlocks` | `run`, `process`, `_dependency_release` |
| `KeepFrozen`, `ProcessPrerequisite`, `PrerequisiteBlocks`, `NoMachine`, `NoCycleTime`, `CalendarEnds`, `PlaceOperation`, `OrderPlaced` | `_place_order`, `_prerequisite_release`, `_place_operation`, `record_entry` |
| `PullForward`, `NoPull` | `_batch_lookahead`, `pick_next` |
| `RunComplete` | the end of `run` |

`Resequencing` goes on where that run ends: `looked` are the machines it has considered,
most loaded first and at most `TopMachines`; `moved` is the plan as it is by then.
`Resequence` takes *any* order of the movable jobs that respects their releases and
deadlines (what OR-Tools may return), rebuilds the machine job by job as `_rebuild` does,
and keeps or replaces; `ResequencingFails` is the exception that leaves the rule-based plan.

Free choices, each a superset of what the code does: which usable machine ranks
first (`rank_machines` adds floating-point costs), whether a pull keeps the limits
on score gap, delay and due dates, which of several dependencies is processed first,
how far the lookahead sees, and whether the quality drops. A property that holds of all
choices holds of the code's. Minutes are whole; a setup depends on the family only, and
the family factor is the shipped 0; candidates and their order are an input (`Planning`
chooses them); operations already in progress are left out.

### 3.4 Overlays and PlannerDesk

`overrides`, `locks` and `expedites` are sets of rows that are switched off and never
deleted; `erpHeld` and `closed` are what the ERP says of orders. There is one action per
request of the three services (`SetPriority`, `ForceNext`, `Hold`, `Release`,
`LockAssignment`, `Move`, `CancelOverride`, `CreateLock`, `Unlock`, `ExpediteOrder`,
`CancelExpedite`, with their refusals as guards, supersession and companion locks as part
of the step), and time passes between them, so rows expire; `Close` and `ErpHold` are the ERP's. Every request takes an
instant of its own, which names the row it creates. A request is one action: two
sessions between whose SELECT and INSERT a third one commits are not interleaved.

`PlannerDesk` is the abstract specification: a register per order and kind of decision
that is empty or holds the decision in force; a planner writes a new one, or it lapses.
`DecisionsNeverReturn` is `Desk!Spec` under the refinement mapping of `Overlays`.

### 3.5 ConfigVersions and Alerts

Both are statement by statement over READ COMMITTED rows. In `ConfigVersions`, `rows` is
the table and `tx[s]` the transaction of session `s`: what it has copied, the number it
computed, the rows it listed, those it locked and updated. In `Alerts`, `rows` has a row
per key, `sweep` the stage of the one sweep there is with what it has loaded, listed and
is going to change, `ack[u]` an acknowledgement between its SELECT and its UPDATE, `raised`
what the rules find in the plant, and `version` the candidates that wait. Nothing keeps a
sweep, the commit of a candidate (`Propose`) and an acknowledgement apart: each statement of
the sweep (`Load`, `Flush`, `ListActive`, `Protect`, `Resolve`, `Commit`) is a step of its own,
and only a row the sweep has updated is locked until its commit. Which alert rules fire is
an input here; the rules are in `Analytics`.

Two history variables record what a property has to except: `overtaken` (`ConfigVersions`)
the saves past which another request has committed between their read and their number, `late`
(`Alerts`) the candidates committed after the sweep's list and before its last SELECT.

### 3.6 Replanning

`plant` is the state the snapshot is taken of, `version` what is draft, approved and
published (a plan with the snapshot it was drawn from), `job` an evaluation under way. An
evaluation reads plan and plant and detects the events (`Begin`); `generate` reads the plan in
force, the plant and the clock again and draws a candidate, which is judged by `Stability`, `HardEvents`,
`ShouldReplan` and `RequiresApproval` against the plan read first (`Draw`); the verdict is
committed (`Finish`). Managers approve, publish and reject at any point between. The
candidate is any plan the scheduler may draw (`Candidates`); the quality score is a free
Boolean.

### 3.7 Planning and what it is built on

`Readiness`, `Calendars`, `Priority` and `DataQuality` are operators over a snapshot `s`
and an instant `t`, translated rule by rule: nine hard constraints, seven kinds of
blockers, eleven factors, adjustments and ranking in whole percentages, fifteen
data-quality rules (a step's cycle time for one machine, `op.cycles`, is judged by them; a
duration is `op.cycle` on every machine), shifts over midnight in the plant's local time. What the code does by
recursion with a memo (`downstream_impact`, the search for cycles, the pipeline's loop over
candidates) is a recursive function that carries the memo along.

`Planning` has the state: `plant` (the snapshot), `plan`, `report` (who is left out and
why), `queue`, `ranking`, `filed` (issues). `Plan` is `PlanningPipeline.run` as a whole:
gate, priorities, `SelectCandidates`, `Kept`, the scheduler, `Withhold`. The scheduler
gives each candidate one of its machines, a free choice, from the first hours it has to
spare; it is `ListScheduler` that has its detail. `Synchronise`, `Decide`, `CheckData` and
`Tick` come between runs.

### 3.8 Analytics, Pages and WhatIf

A view `v` is what is looked at: snapshot, instant, plan in force, reason codes, issues,
priorities. `Analytics` has risk, key figures, delivery, capacity, bottlenecks and the
alert rules as operators over it; `Pages` the lists, charts and machine pages; both
look at the states of `Planning` (or of `WhatIf`), so the plan may be older than the records.

`WhatIf` adds `study`, the answer to the last request: `Simulate` plans the snapshot and
a copy the scenarios have been applied to, and `DiffSchedules` compares them. It has no
effect on anything else.


## 4. The runs, their bounds, and what they show

Every passing run is exhaustive within its bounds. Deadlock checking is off where the
model really stops: all versions are used up and decided, the clock, the changes or the
runs have reached their bound, the scheduler's run has ended. It is on in `overlays`,
`config_saves` and `alerts`, which never stop.

| run | instance | result |
|---|---|---|
| `versions_concurrent` | 2 sessions, 2 versions, mode WRITEBACK, failures at any statement, fair; 88 thousand states | one published version; PUBLISHED only from APPROVED; a DRAFT is a new row; PUBLISHED implies sent; every request ends |
| `versions_serial` | 1 session, 3 versions, mode CONTROLLED_AUTO; 49 thousand | implements `PlanLifecycle` |
| `sync_single` | 1 runner, 2 orders, 7 instants; 1.8 million | nothing lost; no operation lost; a quiet full run mirrors |
| `intake` | 9 rows of the ERP and 2 to come, 2 changes, 4 runs; 74 thousand | slices bring every change; a full run heals what slices got wrong; a quiet clean run can be trusted |
| `list_scheduler` | 1,227 snapshots of up to 4 orders on 2 machines, then re-sequencing; 52 thousand | no overlap, sufficient setups, precedence, an answer for every order, termination; the re-sequenced plan is sound |
| `overlays` | 2 orders, 1 machine, 4 events; 3.2 million | implements `PlannerDesk`; companion locks follow their moves; conflicts and overlaps arise only in the two ways named |
| `config_saves` | 3 sessions, 4 versions, 2 sections; 1.4 million | one active version; a section is put back only by a save that was overtaken |
| `replanning` | 2 orders, 1 machine, 2 changes, 2 instants, mode CONTROLLED_AUTO, fair; 705 thousand | stranded work forces a plan; work under way stays where it is in a plan no person accepted; failures are answered |
| `alerts` | 1 rule, 2 candidates, 1 user, fair; 57 thousand | sweeps spare the alerts of drafts; acknowledgements are kept; the inbox follows the plant |
| `planning` | 4 orders, 2 machines, 1 change, 2 runs, 4 instants; 52 thousand | calendars exact; every open order answered; promises kept; decisions first; shares fair |
| `what_if` | the same plant, ten requests, a plan that grows old; 6 thousand | dashboard, charts and lists agree; no demand lost; whoever is late is announced once; studies reconcile and scenarios take effect |
| `cycles_missed` | dependencies added one at a time | **violated**: an order that waits for itself is not found |

**Why the bounds are enough.**

- *Versions.* What can go wrong between requests concerns a pair of versions and the
  statements of two sessions. Two versions are needed for a supersession, three (in
  the serial run) for a supersession of a supersession by a replan. The theorems of
  section 5 lift the safety results to any number of both.
- *Synchronisation.* A loss takes a change, a run that misses it and a completed run
  that moves the watermark past it: with a creation before, that is four instants;
  seven leave room for two runs and a failed one around changes of two orders.
  Two orders let one be present in a response from which the other is missing, so
  that closing is not stopped by the empty-fetch rule.
- *Intake.* Two changes are a loss and a repair, or a line that is repeated and then
  told apart; four runs are a full one, slices that meet each change, and the full one that
  heals. There is a row in each of the master feeds, two order lines that may coincide, and
  an operation and a report that refer to them.
- *Scheduler.* `m1` stands still in the middle of the horizon, so jobs span idle time
  and gaps have less work than length. The snapshots of `MCListScheduler` come in groups:
  orders that wait for each other (cycles included), with a missing machine, cycle time or
  eligibility; kept entries with reserved windows and late releases, one of them so late
  that the calendar ends; locks, frozen machines and machines that return later; four orders
  of which the lookahead can pull two; and a machine whose calendar ends under the jobs the
  solver moves. Every order of a queue of three is tried, and one queue leaves an order out,
  so that others depend on an order that is no candidate.
- *Overlays.* A conflict takes two rows, and a superseded row that could come back takes a
  third event: four leave one for an expiry, a release or a cancellation between.
  Planners only sign rows; orders are interchangeable (symmetry).
- *Configuration.* Two overlapping saves compete for a number, the third commits between
  one's SELECT and its UPDATE; the fourth version makes every flag of an earlier one matter.
- *Alerts.* An alert that is raised, resolved and raised again, with an acknowledgement and
  a replanning alert between the sweep's statements, needs one rule, one user and the two
  candidates of which the second supersedes the first.
- *Replanning.* A machine fails under planned work while an order arrives or is late: two
  changes. The second instant lets work begin, or be over, by the time the decision is taken.
  An approved and a published plan, of which one replaces the other between `Begin` and `Draw`,
  are what `RunningWorkStays` takes; the lock window of one instant covers what is under way.
- *Planning and studies.* Four orders: one with a choice of machines, one that depends on
  another, two of one customer for the shares. A day has six hours, so shifts over
  midnight, a plant whose local date is not that of UTC, and weeks are all within four
  days. One change between two runs makes a promise meet every kind of change of its
  order; a plan two hours old is enough to be late in it.

**What some properties say beyond their names.**

- `AtMostOnePublished` is no consequence of `supersede_others` alone, which sees
  committed rows only: it depends on the receipt's UPDATE locking the target *before* the
  SELECT, and on the SELECT including APPROVED rows.
- `SetupsSuffice` looks at the job that is before a slot *now*, not when the slot was
  placed, for machines whose kept entries start when the machine is free or later
  (section 6 says why not for the others).
- `PlanStaysSound` is about the plan after re-sequencing: no double booking, reserved
  windows (of which `WindowsKept` is the part before re-sequencing), and the neighbours
  in a route; what the solver is not told of is in section 6.
- `DecisionsNeverReturn` is a refinement: each row of a table that only grows decides
  something, and switching off, expiring and superseding must never bring an older
  one back in force.
- `EveryOpenOrderAnswered` follows an order through gate, candidates, run limit,
  scheduler and relabelling: it has work or exactly one reason, and the data-quality
  board counts it when the reason is its data.
- `StrandedWorkIsHard` compares two pieces of code that never meet: change detection
  (two snapshots, most of it blind to what is not a change) and the pool of machines.
- `SavesKeepOtherSections` allows a lost section in one case only, another request that commits
  between a save's copy and its number. After that the unique index protects the save: whoever
  commits in between takes its number, so what was copied is still in force when the
  insert succeeds. Without the index the third session breaks it.
- `RunningWorkStays` needs the candidate to repeat the plan in force when it is *drawn*, not the
  one the evaluation began with; its mutant reads the plan once.
- `SweepsSpareDrafts` and `AcknowledgementsKept` say what the order of the sweep's statements
  and the columns its UPDATEs write are good for, with every other statement allowed in between.
- `FiguresAgree`, `DemandIsConserved` and `LateOrdersAnnounced` put numbers next to each
  other that different modules compute from a plan older than the records.
- `CalendarsExact` compares the day-by-day construction with the meaning of the shifts,
  hour by hour.

**Fairness.** `versions_concurrent` assumes strong fairness of a session's next statement:
a thread goes on, and PostgreSQL grants a row lock in the order of arrival, so a
waiting statement that is enabled again and again is executed; and weak fairness of
`DeadlockVictim`: the detector runs for every session that has waited `deadlock_timeout`.
`list_scheduler` assumes weak fairness of the whole next-state relation: a single thread
that does not stop in the middle. `replanning` assumes that the worker's timer starts an
evaluation again and again (weak) and that not every evaluation fails (strong);
`alerts` that sweeps are started and that no statement of them fails every time. Nothing is assumed about users, planners or the ERP: no request has to
be made, and no failure has to happen or stay away.

**Definitions no run checks.** `TypeOK` of the modules whose variables TLC bounds anyway,
`AtMostOneApproved` and `TransitionsAllowed` (serial requests; implied by
`ImplementsLifecycle`, and proved), `ClosedOnlyIfMissing` (holds where records are
well formed), `WindowsKept`, `GapsAreIdleTime`, `TailIsLastJob` and `RoutesInSequence`
are kept for the proofs and for section 6.


## 5. What is proved, and how

TLAPS checks these for every value of the constants: any number of orders, machines,
sessions, versions, rows and instants, and every input. The assumptions on constants that
the modules declare (`ASSUME`: types, a `None` that is no row or order) are always there;
the column names the others.

| theorem | says | assuming |
|---|---|---|
| `ScheduleVersionsProofs!TypeCorrect` | type invariant | - |
| `...!Inductive` | `IInv` holds always | not CONTROLLED_AUTO |
| `...!OnePlanPublished` | `AtMostOnePublished` | not CONTROLLED_AUTO |
| `...!PublishedOnlyFromApproved` | `PublishedFromApproved` | not CONTROLLED_AUTO |
| `...!DraftsAreNew` | `DraftIsNew` | - |
| `...!PublishedSent` | `PublishedWasSent` | - |
| `...!SerialRequestsImplementLifecycle` | `ImplementsLifecycle`: the refinement of `PlanLifecycle` | requests do not overlap |
| `...!SerialRequestsKeepOnePlan` | `AtMostOneApproved`, `AtMostOnePublished`, in every mode | requests do not overlap |
| `...!SerialRequestsFollowTransitions` | `TransitionsAllowed` | requests do not overlap |
| `ErpSyncProofs!TypeCorrect` | type invariant of the synchronisation | - |
| `...!NoChangeLost` | `NothingLost`, malformed records included | runs do not overlap |
| `...!NoOperationLost` | `OperationsNotLost` | runs do not overlap, records are readable |
| `...!FullRunsMirror` | `FullRunMirrors` | runs do not overlap |
| `...!IntakeIsSound` | `IntakeInv`, of the records and the store | - |
| `...!SlicesBringEverything` | `SlicesSuffice` | - |
| `...!BothPathsAgree` | `PathsAgree` | - |
| `...!TrustIsEarned` | `TrustedRuns` | - |
| `OverlaysProofs!TypeCorrect`, `...!Inductive` | type invariant; `IInv` | - |
| `...!CompanionsGoWithMoves` | `CompanionsFollowMoves` | - |
| `...!OnlyMovesConflict` | `ConflictsOnlyByMoves` | - |
| `...!OnlyDelayedOverlap` | `ExpeditesOverlapOnlyIfDelayed` | - |
| `...!RowsImplementDesk` | `DecisionsNeverReturn`: the refinement of `PlannerDesk` | - |
| `ConfigVersionsProofs!TypeCorrect` | type invariant | - |
| `...!SavesLoseNothingElse` | `SavesKeepOtherSections`, activations included | - |
| `...!OneVersionActive` | `OneActive` | activations do not overlap saves |
| `ReplanningProofs!TypeCorrect` | type invariant | - |
| `...!StrandedWorkForcesAPlan` | `StrandedWorkIsHard` | no downtime announces its end |
| `...!WorkUnderWayStays` | `RunningWorkStays`, decisions at any point of an evaluation | - |
| `AlertsProofs!TypeCorrect` | type invariant | - |
| `...!WaitingDraftsSpared` | `SweepsSpareDrafts` | - |
| `...!AcknowledgementsSurvive` | `AcknowledgementsKept` | - |
| `ListSchedulerProofs!TypeCorrect` | type invariant | - |
| `...!NeverBookedTwice` | `MachinesSingleBooked` | `JobsTakeTime`, `PreviousIsSound` |
| `...!EveryOrderIsAnswered` | `EveryOrderAnswered` | `CandidatesHaveWork` |
| `...!NothingStartsEarly` | `PrecedenceKept` | `CandidatesHaveWork`, `OperationsApart`, `PreviousIsSound`, `PreviousOnce`, `KeptInSequence` |
| `...!SetupsAlwaysSuffice` | `SetupsSuffice` | `JobsTakeTime`, `PreviousIsSound`, `JobsHaveFamilies`, `KeptSetupsSuffice` |
| `...!ReservedStaysFree` | `WindowsKept` | `JobsTakeTime`, `PreviousIsSound`, `WindowsApart` |
| `...!ResequencingIsSound` | `PlanStaysSound` | those three, `OperationsApart`, `OperationsRouted`, finitely many operations |
| `...!SolverRunsTheRules` | `CpSatSpec` implies `Spec` of `ListScheduler` | - |
| `PlanningProofs!DaysMakeCalendars` | `CalendarsExact` | `DaysAreCounted`, `RecordsStaySound`, `DecisionsAreOverlays` |
| `...!LatenessIsAnnounced` | `LateOrdersAnnounced` | `RecordsStaySound`, `DecisionsAreOverlays`, `None` is no integer |

Where an assumption restricts the concurrency ("do not overlap"), section 6 says
what TLC finds without it.

**One plan is published.** `AtMostOnePublished` is not inductive: a publication in
flight may have read the other versions long ago. `IInv` adds
- `MethodInv`, `LockInv`: statements belong to their methods; uncommitted writes are on
  locked rows; a publication holds its target's lock from the receipt on;
- `PublicationInv`: what a publication may have written, and that its target, seen
  APPROVED under the lock, still is when the status is written;
- `CoverInv`, the heart: a publication that has selected covers (will supersede, or has
  superseded) every other PUBLISHED version, *and of two publications that have both
  selected, one covers the other's target*. The later SELECT sees the earlier one's
  target, because it is APPROVED and committed, and APPROVED is among the statuses
  selected. So when the first commits, either it has superseded the second's target or
  the second is going to supersede the first's.

`CoverStep` has one step per action; `UniqueStep` derives the uniqueness of the
PUBLISHED version at a commit. With automatic publication the argument fails at one place only,
the candidate that is inserted, approved and published in a single transaction and that
no other session can select: exactly the counterexample of section 6.

**Serial requests are the life cycle.** The abstract module changes the whole table in one
step; the code does so in up to a dozen statements, whose effects nobody else sees before
the commit. `OriginInv` says where a statement of a method can come from, `WritesInv` that
the rows a transaction has written so far, and those it is still to write, are exactly what
its method makes of the committed table, and `ReplannedInv` the same for a replanning's candidate. A
commit is then one step of `PlanLifecycle`, and every other step a stutter. That at most one
version is APPROVED and one PUBLISHED, and that no transition is forbidden, follow from what a
commit writes (`SerialCommitWrites`).

**No change is lost.** The watermark is the *start* of the newest completed run. `IInv`
of `ErpSyncProofs` says: stamps are not ahead of the clock (`ClockInv`); a run asks for
everything after a watermark that does not move while it runs (`SinceInv`); each order
it answers for (not changed since it started) is in its batch if it asked for it
(`BatchInv`), and once upserted it is a current, open row that reconciliation does not
select (`UpsertInv`). An order that changes after the start of a run is newer than the
watermark the run will leave, so the next run asks for it again. The proof uses the
assumption of one runner where the store must not move between the SELECT of the upsert
and the commit. `OpsInv` says the same of operations, whose order must be in the batch
or stored already so that the validation drops none (`OrderKnown`); `MirrorInv` follows an ERP that stands still
through the three phases of a full run.

**Every record finds its row.** Of `Intake`, what a slice does not fetch must be there
already. `StoreMirrors` says so: a flawless row that is no younger than the watermark is stored as
it is, unless a run complained of it, or of its order line, since the last full one. That
needs `Clocks` (the watermark is behind the clock that stamps changes), `Tables` (an event moves
no operation to another order and gives no line another name, `EventsMove`), and
`SoundStore` (a stored step has its order, a stored order a status). A run then either
fetches a row (`OperationIs`, `MasterStored`, `OrderStored`: the report of its progress, which comes from
the same row, changes nothing) or leaves it alone (`UnchangedIs`); that the validation
dropped its step, or the normaliser its order, would have been an issue (`UndoubtedIs`).
`BothPathsAgree` compares the two consumers of a batch: `UpsertAll` drops, keeps and closes
around what is stored, `SnapshotFromRecords` looks at no store, and after a full run they agree
(`OrdersFollow`, `OperationsFollow`) whatever was stored before. `TrustIsEarned` is about
counts: without issues each row has a name of its own (`NothingIsLost`), all names are stored
(`EverythingIsStored`), so the difference that reconciliation grades is exactly the number of stale objects.

**Planners' rows.** Rows are named by the instant they were written. `Past` says that no
row is younger than the clock, so `Request` always takes an unused name; a companion lock
has the instant of its move; of two expedites of an order that have not run out, the older had not begun
when the younger was written (`PendingExpedites`); per order and kind one decision is in
force (`OneStanding`). These together are inductive (`IInv`). The refinement maps the tables
to the standing decisions of the abstract desk.

**One configuration.** Saves race for the next version number, and the unique index lets
one of them through. The invariant says that a save whose
number is still free is going to switch off every version that is active now
(`NumberedSavesCurrent`): one that became active since the save took its number would
be that of another save, and carry that number. An activation takes no number, hence the
assumption, under which it is alone (`ActivationsAlone`). `SavesLoseNothingElse` has no such
assumption: `CopiesCurrent` says that a save nothing has overtaken is a copy of the version in
force as long as its number is free, because every commit in between is either that of an
activation, which overtakes it, or that of a save, which takes the number.

**Stranded work and work under way.** A version books no machine that
its snapshot showed down (`VersionInv`), an evaluation has the events of exactly the two
plants it read (`JobInv`), and no downtime announces its end (`PlantInv`); so work
on a machine that is down was booked before the failure, which change detection sees. That a
machine returns by the mere passing of time is the one change detection is blind to. For
`WorkUnderWayStays`, `DrawnInv` keeps what was true at the drawing until the commit: a
candidate that was not rejected repeats what starts within the lock window of the plan in
force by then (`job.base`), for orders still open on machines able to run in the candidate's
own snapshot, and its instant is not ahead of the clock. Work under way at the commit,
within the lock window, is among that.

**Alerts.** `UnproposedInv`: a candidate has no alert before it is proposed. `KnownInv`: from
its list on the sweep knows of every active alert of a draft, first among `listed`, then among
`kept`, unless the candidate is `late`; so what it resolves is no draft's, or late (`GoneInv`).
A late candidate is no exception in the first step, because the list sees all that is
committed. `LoadedInv`: a row that the sweep found missing or resolved stays so until the sweep
writes it, for nobody else makes an alert of a rule active; an acknowledgement may come in between,
and the UPDATE keeps it, since the column has not changed for the sweep.

**The scheduler.** Four invariants, each of its own, on top of the types:
- *Machines.* `NumberedInv`: slots have distinct numbers below the next one. `BookedInv`: per
  machine, slots take time and are disjoint, a gap is idle, ends where a slot starts, and
  its stored work is the working minutes in it; the tail ends no earlier than any slot. `LeftInv`:
  previous entries still to be kept start after what is on the machine. The central lemma,
  `WorkFits`, says that a job that begins with a gap, and has no more minutes than the gap has
  working ones, ends with it at the latest: testing working minutes is enough.
- *Answers.* `StackInv`: a frame of the recursion has placed the operations before its
  next one, knows when the last of them ends, and is in progress at most once;
  `AnswerInv`: an order that is on no frame has all of its operations placed
  and its completion, or exactly one reason, or was not reached yet.
- *Precedence.* `KeptInv`: what is kept is placed as it was, and before the run begins nothing
  else; `WaitInv`: a call waits for the operations it has passed and for everything its
  order depends on, and all of an order has ended by its completion.
- *Setups.* `Prepared`: a gap lies between two slots that follow each other, or before the
  first; every recorded setup suffices, for the reason it was recorded with (`Enough`), after the
  slot it follows; the tail's family is that of the last slot. `FoundWellPut` shows that
  `SuccessorSetupHolds` decides by that reason what the slot after a gap needs, and
  `Neighbours` that an insertion changes what two slots follow and no more; `FrozenInv` ties
  the slots to the reproduced entries while these are put in.

What the scheduler's theorems assume of its input, and why the code justifies it:
- `JobsTakeTime`: a pending operation has a positive quantity (`readiness.py:183` blocks
  orders without) and a cycle time; data quality reports a cycle time of zero but lets it pass, and
  TLC finds no double booking with a job of zero minutes either (`Run <- ShortRun`).
- `PreviousIsSound`, `PreviousOnce`: the previous schedule is the outcome of a run, that is
  disjoint on each machine, which `NeverBookedTwice` shows of the rule-based part.
- `CandidatesHaveWork`: `run.py:174-175` makes up an operation for an order without any.
- `OperationsApart`: an operation belongs to one order and occurs once in its route.
- `KeptInSequence`: no operation is reproduced without those before it in its route. Without
  this `PrecedenceKept` is false (section 6).
- `JobsHaveFamilies`: without a setup family for every operation `SetupsSuffice` is false
  (section 6).
- `KeptSetupsSuffice`: the reproduced entries of a machine, where they start when it is free or
  later, were planned with setups that suffice after one another; the code
  takes them over as they are. It holds of every input of the run `list_scheduler`.

- `WindowsApart`: no window is reserved for another order at the very times of one's own on a
  machine where one has a reservation. The code tells its own windows from
  others' by their times alone (`_reserved_for_others`), so such a pair would be entered;
  two reservations of one machine with the same times are a conflict that `Overlays`
  refuses except for companion locks of moves.
- `OperationsRouted`: an operation is in the route of an order.

**The re-sequenced plan.** `Resequencing` runs the same scheduler first, so what is proved of
`ListScheduler!Spec` holds of every plan that the solver is given. To the invariants above it adds
that what is placed is a slot of its machine (`OnTimeline`) and lies outside
others' windows (`WindowsKept`), and of the jobs moved so far that they are on the machine the rules
gave them and none of them was kept (`MovedInv`). `_rebuild` is a recursive function
over the sequence the solver returns; `RebuiltAt` says what holds after i jobs: they follow one another, each
is clear of reservations and of fixed entries, starts no earlier than its release, and follows
its neighbour in the route if that one is in the sequence too. `RebuildsAre` proves it of every i by the least i
for which it fails. What makes routes keep their direction although several
machines are rebuilt one after another is that a job's release and deadline are read from the plan as it is by then
(`ReleaseIsAwaited`, `NeighboursAre`): the neighbour on the other machine is fixed while
this one is rebuilt.

**Calendars.** A stretch of the plan is a set of UTC hours, a shift a set of local hours of
a date, that may last over midnight. `HoursOfDate` says which hours the shifts of one date cover,
`DayIsExact` that, with shifts within a day and a zone at most a day from UTC, the local dates from
two before to one after a day of UTC have all that can reach into that day; `FewerDays` that
days further away add nothing. The invariant of the records, `SoundRecords(plant)`, is kept by
every synchronisation (`RecordsStaySound`, which the records of both runs satisfy), and
planners' decisions change no record (`DecisionsAreOverlays`).

**Lateness.** `Coded(filed)` says that every issue on file has a code the dashboard counts: it holds of what
`CheckData` files, and a study files nothing (`StudiesOnlyLook`). With it, `WhoIsAnnounced` takes the
two alert rules apart: "late" and "at risk" are decided from the same risk of an order
(`RiskOf`), and no order is in both; an order the dashboard counts has an issue (`IssuesAreCoded`)
from which `Announced` derives its alert.

**Only model-checked:**
- Liveness (`RequestsEnd`, `RunEnds`, `FailuresAnswered`, `InboxFollowsPlant`): fairness and
  ENABLED are out of the prover's reach.
- `FiguresAgree`, `DemandIsConserved`, `StudyReconciles`, `ScenariosTakeEffect`: sums over sets, by
  the folds of the community modules. That two sums agree is an induction over the sets, whose
  theorem takes an operator the installed provers cannot instantiate.
- `EveryOpenOrderAnswered`, `PromisesKept`, `DecisionsComeFirst`, `SharesAreFair`: the run of `Planning`
  sorts with TLC's `SortSeq` and hands its results on through a fold over the queue; both
  are opaque to the prover.
- `CyclesFound`, which does not hold, and `GapsAreIdleTime`, which no run checks.


## 6. Disagreements between the code and its documents

Shown by the run `cycles_missed`: `engines/data_quality/rules_routing.py:41-42` promises
"nodes that lie on at least one directed cycle", but a depth-first search that never
looks at finished nodes again misses some: with 1 waiting for 2 and 3, 2 for 1, and 3 for
2, order 3 is not found, is not withheld, and is reported as blocked by orders that can never be planned.

TLC finds the following with another value of a constant or another formula, named in brackets.

| the code | the text |
|---|---|
| a planner's publication and an automatic one overlap: both stay PUBLISHED (`AtMostOnePublished`, `WritebackMode = "CONTROLLED_AUTO"`, 2 sessions) | `services/schedule_service.py:22`: "the previously published/approved versions become SUPERSEDED" |
| `set_status` tests one status and overwrites another: REJECTED becomes APPROVED, PUBLISHED becomes REJECTED (`TransitionsAllowed`, 2 sessions) | `db/repositories/schedule.py:20`: "Allowed status transitions" |
| nothing keeps the worker's run and POST /sync/run apart; the older fetch may be committed last (`NothingLost`, 2 runners) | `docs/ERP_INTEGRATION.md:57`: "records changed while that run was fetching are picked up again rather than lost" |
| an order whose record the normaliser rejects is closed (`ClosedOnlyIfMissing`, `MalformedRecords = TRUE`); the next full run that can read it opens it again | `integration/sync_service.py:36`: orders "absent from the ERP's response" are closed |
| an entry that began before the machine is free leaves the tail's setup as it was (`TailIsLastJob`) | `engines/scheduling/state.py:12-14`: the fields "describe the state after that job" |
| a dropped operation is placed after its kept successor (`RoutesInSequence`), and an order that depends on theirs starts before the dropped one is finished (`PrecedenceKept`; a previous schedule that keeps only the second operation of o1) | `engines/scheduling/rule_based.py:12-13`: the run respects "operation sequence" |
| before the first frozen entry of a machine the successor rule compares a new job with nothing instead of with the machine's initial family (`timeline.py:247-251`): a job without setup family and material is put there, and the recorded setup of the entry no longer suffices (`SetupsSuffice`, an operation with `NoFamily`) | `engines/scheduling/timeline.py:32-34`: "only when the new job leaves the setup family and material the successor followed unchanged" |
| a save between the SELECT and the UPDATE of an activation leaves two active versions, two activations none (`OneActive`, `Overlapping = TRUE`) | `db/models/config.py:3-4`: "exactly one row is active" |
| a machine whose announced return passes strands its work without an event (`StrandedWorkIsHard`, `Returns = TRUE`) | `docs/SCHEDULING_ENGINE.md:568`: hard events make the plan infeasible |
| a plan that comes into force between the drawing of a candidate and its commit is replaced by one that was neither drawn from it nor compared with it, and moves work under way in it (`RunningWorkStays` without `Current = job.base`) | `services/replanning_service.py:9`: "evaluates the candidate against the active plan" |
| a sweep resolves the alert of a draft committed between its list and its last SELECT, and nothing raises it again (`SweepsSpareDrafts` without `v \in late`) | `services/analytics_service.py:20-22`: alerts no longer raised are resolved, "except \"plan awaiting approval\" alerts whose candidate version is still a draft" |
| an alert comes back acknowledged when the acknowledgement is committed between the sweep's SELECT of the resolved row and its UPDATE (`AcknowledgementsKept` without its last line) | `db/repositories/alerts.py:24-25`: "a resolved alert that re-occurs is re-activated (and un-acknowledged)" |

*CP-SAT* (`engines/scheduling/cpsat.py:13-15`: "verify every cross-machine precedence still
holds"). `_jobs` looks only at the same order's neighbouring operations: the release of an
order, the arrival of its material, dependencies between orders and prerequisites in
another order are not kept, and a job may move behind a fixed successor on its own machine
(`PlanStaysSound` excepts both). `_rebuild` begins with the machine's current family
although the fixed entries come first, while the solver's model begins after them.

Met while reading or modelling, without a run:

- *Configuration.* A save that another one commits past, between its copy of the configuration
  (`services/config_service.py:176`) and its number (`db/repositories/config.py:61`), puts the
  other's section back (`SavesKeepOtherSections` without `overtaken`). No document promises
  otherwise; the audit row, a difference from the copy, does not show it.
- *Versions.* `docs/ARCHITECTURE.md:136-137`: approval "only if no newer DRAFT supersedes it
  and the referenced snapshot still exists"; `approve` checks neither.
  `docs/ARCHITECTURE.md:141-143`: a failed writeback keeps the version PUBLISHED but flagged;
  the code rolls the publication back. `docs/USER_GUIDE.md:107-108`: the previously approved
  version is superseded; two overlapping approvals leave two. A replan candidate that is
  approved at once leaves an older pending one approvable (`services/replanning_service.py:183`).
- *Synchronisation.* `integration/sync_service.py:41-43`: an empty fetch closes nothing; with
  pruning it deletes every order. `:268-271`: a run that fails is always recorded; the commit
  of its `completed` row is outside the `try`. `docs/ERP_INTEGRATION.md:59`: records are
  de-duplicated by external id; the code does it by the identity their fields spell. A slice
  that brings only the second of two equal order lines overwrites the first
  (`normalizer.py:157`), and one that brings a changed calendar makes it the default of the
  plant (`sync_service.py:484`); `PathsAgree` says that the next full run heals both. An
  order that was malformed and is repaired comes back in a slice without its unchanged
  operations. A shift without weekdays returns as Monday to Friday (`parsers.py`). An unknown
  status falls back to NEW, an unreadable hold flag to false. Orders closed as missing
  still count as stored when later full runs grade the drift. A full run applies an
  older progress report over a newer operation row.
- *Data quality.* A run that finds nothing stores no rows, so board, headline and alerts keep
  the findings of the run before (`db/repositories/data_quality.py:44`, `docs/USER_GUIDE.md:50-56`).
  `rules_operations.py` withholds operations that `candidate_machines` would place by process.
- *Readiness and priorities.* A machine that is down with an unrelated downtime ahead counts
  as eligible and available now (`constraints/hard.py:263-288`). The rejection by an
  inoperable machine never says when it is resolved. Of nested holds the later one's expiry is given
  as the end of the hold while the older takes over. `snapshot_service.py:65`
  (`effective_hold`) "mirrors" readiness but ignores the status on_hold. The memoised search
  downstream is wrong on cyclic dependencies (`priority/context.py:205-220`). The cap on a
  customer's share changes ranks while the scheduler sorts by score (FR-24), and when the first places
  are not filled the demoted orders fill them. An overdue receipt date of material on
  order releases the order now.
- *Planning.* An order on hold inside the lock window stays in the plan and is also reported
  as unscheduled (`state.py:153-206`). Two sequence locks with an order in common can undo
  each other, and one can move an order in progress behind the limit of the run. Promised
  entries stay on a machine that is down (`state.py:153-218` looks at no calendar).
  `scheduling/locks.py:5-7`: a slot lock is for the next unplaced operation; as each
  operation is the next in its turn, it is applied to all of them (`SlotLocksOn`).
- *Analytics and pages.* An overdue open order whose planned end lies before its due date is
  neither late nor at risk (`analytics/risk.py:129-144`) though the key figures count it as overdue
  (`docs/USER_GUIDE.md:261`). `operation_tooling_ids` blames tools the hard constraint does not need.
  Stored results count as fresh until midnight UTC whatever planners decided
  (`analytics_service.py:175`). Of an order on several machines the list of orders shows the
  machine of its first entry, the machine options that with the least name
  (`order_query_service.py:388`, `:345`). The trend of deliveries counts an order that ends at
  midnight on the day whose chart does not show it. A Gantt chart of a group without
  machines loads the entries of all machines and shows none.
- *Studies.* A simulated breakdown of a machine already out of order without announced return gives it
  an end (`scenarios_resources.py:78-88`). Prioritising a customer revives the values of
  a rule that is switched off (`scenarios_priority.py:46-64`). The due date of an
  affected order comes from the snapshot before.
- *Users.* Two administrators can deactivate each other at the same moment
  (`user_service.py:65-71` forbids oneself only).


## 7. What is not modelled

- **Users, authentication and roles.** Tokens are stateless and role checks stand in front of
  handlers; neither changes what a handler does to the planning state. The rows of users
  are written by single statements.
- **Audit trail.** Rows are appended in the transaction of the change they describe.
- **API, schemas, mappers, database models, frontend.** Conversions without state.
- **Seed and demonstration data, migrations, scripts.** Not part of the running system.
- **The solver of CP-SAT, PostgreSQL, the ERP and the timer library** are outside the
  repository; their effect is modelled as far as the code relies on it.
- **Arithmetic.** Weighted means and costs in floating point that only rank machines or
  grade a schedule (`constraints/soft.py`, `scheduling/quality.py`) are free choices where
  something depends on them; priorities are computed in whole percentages.
- **Delivery of the past** (`analytics/otd.py:100-117`) needs the ends of finished
  operations, which no other module looks at; **stored results and snapshots**
  (`db/snapshot_codec.py`) are conversions.
- **Cycle times of single machines** (`machine_cycle_minutes`, `domain/models.py:243-247`) and a
  machine's efficiency: the data-quality rules judge the former, but an operation runs as
  long on every machine it may go to.
- **Summer time.** The offset of the plant's time zone is constant.
- **Overlapping overlay requests.** `Overlays` has one action per request; that two of them
  can both pass the conflict check follows from READ COMMITTED as in `ConfigVersions`.


## 8. The plan

The modules of the plan are written, and each state machine has its proofs. What is left to
prove: of `Planning` what needs no sorting, such as that an order is answered once.

Further models worth writing: `Overlays` statement by statement, a machine as a set of
disjoint bookings implemented by `MachineTimeline`, and a mirror that jumps to some state
the ERP was in, implemented by `ErpSync`.
