# Verification of trustalo in TLA+

trustalo is a compliance platform: an API (`apps/api`) that keeps the records of
its tenants, a collector (`apps/collector`) that runs integrations and evidence
checks on a schedule, a device agent (`apps/device-agent`) and a web front end
(`apps/web`). Most of the API validates a request and reads or writes rows of
one tenant. What is hard to get right is what runs by itself: timers, workers
and agents that read a row, wait, and write back what they decided, while users,
other processes and crashes change the row in between. These modules model
that part.

Paths below are relative to the repository, e.g. `apps/collector/src/runner/index.ts`.

## 1. The system

### 1.1 Components and their state

| Component | State | Operations | What makes it hard | What makes it correct |
|---|---|---|---|---|
| Collection pipeline: `scheduler/`, `runner/`, `routes/jobs.ts`, `routes/connections.ts` (collector) | `IntegrationConnection`, `CollectionJob`, `CollectionJobRun`, `CollectionRetry` rows; the counter `activeJobs` of the process | dispatch every minute, poll every 10 s, `executeJob`, trigger, run a check, cancel, test, (de)activate, delete | polls, executions, requests interleave at every await; the claim of a job is not conditional; a run updates run, job and connection one after the other | one execution per job, no leaked slot, statuses that agree with the runs, finished jobs stay finished, every job ends |
| Check health and coverage gaps: `runner/check-health.ts`, `runner/custom-checks.ts`, `scheduler/overdue-detector.ts` | `IntegrationCheck` health, failure count, expected next run; `EvidenceCoverageGap` rows | bookkeeping of a success, of a failure, of a custom run; overdue scan; `openOrExtendGap` | sweeps of one connection can overlap with each other and with the detector; each is a loop of statements that decide on an earlier query | health agrees with the failure count, a success closes the gaps, late runs are noticed and get a gap |
| Gap escalation: `scheduler/gap-escalator.ts`, `POST /internal/coverage-gaps/escalate` (API) | open gaps, `controlWeaknessId`, `lastEscalatedAt`; `ControlWeakness` rows of the API | hourly pass, outage detection, escalation request | two databases, an HTTP answer that may be lost, gaps that close meanwhile, throttling | a gap leads to one weakness, ripe gaps are escalated, material ones raised |
| Questionnaire import: `modules/questionnaires/import-worker.ts`, `import-job.ts`, `packages/queue` | `QuestionnaireImportJob`, `Questionnaire`, `Question` rows; an SQS queue | upload, publish, receive, run, finish, fail, stale sweep at start | at-least-once delivery, several API processes, runs longer than the visibility timeout, crashes half-way | imported once, imported whole, outcome final, no job forgotten |
| Binding reconciler: `integrations/binder/`, `scheduler/reconciler.ts`, `control-binding.ts` (API) | `IntegrationCheck` and `IntegrationCheckControl` rows, the manifest version of a connection; frameworks, assignments and controls of the API | connect and bind, confirm, pass (resolve, load, write) of hooks, users, the nightly timer and a new build | a pass resolves, loads and writes at three times; passes overlap, fail and are lost; two databases | bindings end up as the catalog says, a pass misses nothing but what changed under it, and one that has nothing to do does nothing |
| Notification evaluator: `modules/notifications/` | `AlertRule`, `NotificationChannel`, `NotificationDelivery` rows | tick of a tenant: seed, collect, dedupe, deliver, record; seeding and switching of rules, switching and deletion of channels | delivery before the row that deduplicates it; deliveries that fail; channels deleted under a tick; a rule's source that is down; defaults inserted from an earlier reading; several processes | a condition that persists is told or recorded as failed, by a process once; an occurrence is silenced by its own deliveries only; no administrator's choice is undone |
| Device enrolment: `modules/devices/`, `lib/device-auth.ts`, `apps/device-agent` | enrolment token, device, secret; the agent's credential file and the copy in its memory | enrol, sign in, check in, rotate, revoke, re-enrol | lost answers, find-then-create, two programs on one credential file, a token used up while it is revoked | a token lets in no more than it was made for, a running agent gets its device active, a revoked one falls silent |
| Device posture: `recordCheckIn`, `sweepStaleDevices`, `scheduler.ts` | posture, status and last report of a device; evidence | check-in, sweep, revoke, re-enrol | a comparison with a posture read before the transaction, evidence after it | the latest finding is the row's but for overlaps and lost reports, every silence is noticed and reported |
| Directory synchronisation and people: `modules/directory-sync/`, `people/service.ts`, login | configuration, runs, mappings of accounts, status of a person; the advisory lock | schedule, request, run account by account, suspend who is gone, admins' changes, login | a run of many statements over a directory read once; two timers; a configuration deleted under a run | one run in flight, nobody is suspended without a cause, who left is locked out |
| Connection secrets: `secret-vault/` with `routes/connections.ts` | vault rows | create, replace, delete with a connection | the vault write is outside the transaction | no vault row without an owner, no owner without a secret |
| Proposal bus: `db/pg-listener.ts` | the LISTEN session | reconnect, heartbeat, fan-out | notifications lost while disconnected | subscribers are told again |
| Pure algorithms: `lib/business-days.ts`, `computeReconcileDiff`, `topologicalSort`, `classify-error.ts` | none | | boundaries | agree with a reference definition |
| The rest of the API, packages and the web front end | rows of one tenant; tokens of external providers | request handlers | little concurrency of their own | |

`PROJECT.json` lists every component with its files and status.

### 1.2 Interactions

    scheduler --insert--> CollectionJob <--poll/claim-- runner --providers--> third parties
    routes/jobs, routes/connections --insert/cancel/delete--^      |
                                                                   +--evidence/bulk--> API
                                                                   +--bookkeeping--> IntegrationCheck, EvidenceCoverageGap
    overdue detector --flag, open gap--> IntegrationCheck, EvidenceCoverageGap
    gap escalator --read--> EvidenceCoverageGap --POST escalate--> API --create--> ControlWeakness
    POST /questionnaires --create--> QuestionnaireImportJob --publish--> SQS --> worker --> Questionnaire
    reconciler --resolve--> API (frameworks, controls); API --hooks--> reconciler --> IntegrationCheckControl
    device agent --enrol, check in--> API --> Device, evidence <--sweep-- timer of the API
    evaluator (timer of the API) --read--> records, collector --deliver--> channels, then NotificationDelivery
    directory timer, admins --enqueue under a lock--> run --fetch--> provider --> mappings, Person --> login

The collector is one Node process: code between two awaits is atomic, and
everything else interleaves. The API may run as several processes. All share
state only through database rows, HTTP answers and the queue.

## 2. Modules

| Module | Contents |
|---|---|
| `CollectionJobs` | jobs, connections, runner, scheduler and routes |
| `WorkPool` | the abstract pool `CollectionJobs` implements |
| `CheckHealth` | checks and gaps of one connection |
| `GapEscalation` | the escalator and the endpoint it calls |
| `ImportJob` | questionnaire imports over an at-least-once queue |
| `DeviceEnrolment` | enrolment token, devices, credentials and the agents that hold them |
| `DevicePosture` | check-ins, their evidence and the sweep of silent devices |
| `AlertEvaluator` | the tick of the alert rules in every API process |
| `BindingReconciler` | bindings of one connection: connect, confirm, reconcile |
| `DirectorySync` | runs of one directory configuration and the status of people |
| `MC*` | symmetry sets and constant functions for TLC |
| `NotificationProofs` | theorems about `GapEscalation` and `AlertEvaluator`, checked by TLAPS |
| other `*Proofs` | theorems about the component of that name |

Conventions: rows are functions from ids to records, an id that does not exist
has a status of its own (`absent`, `none`). An action is one stretch of code
between two awaits, i.e. usually one database statement or one call; the
program counters `pc`, `task` and the like name the await at which a function
waits. Definitions that begin with the comment `Broken:` are wrong variants of the
definition below or above them; `PROJECT.json` uses them to show that each property
can fail. Each module ends with its properties; those the code does not have come
last, under a heading that says so.

### 2.1 CollectionJobs

`conns`, `jobs`, `runs` are the three tables (`CollectionRetry` rows are a field
of a run), `delivered` counts the evidence submissions the API stored,
`activeJobs` is the counter of `runner/index.ts:16`, `exec` the invocations of
`executeJob`, `polling` the slots a poll computed before its query,
`dispatching` the connections a scheduler pass has still to serve, `req` the
requests between their read and their write. `Crash` clears all of those but the
tables.

`executeJob` is the path `claim -> lookup -> record -> collect -> submit ->
finish -> healthy`, and `unwind -> failing -> retryRow -> requeue | giveUp` for
its catch block. Each step reads the rows as they are at that moment and writes
by id, like the code: a cancelled job is revived, a deleted one makes the
statement throw. Only the submission does not look: it was given its connection
earlier, and evidence of a deleted one may still be stored. `StatementFails` is an
error of the database at any of them.
What a provider answers is free, with `MaxUpstreamFailures` the bound of
retriable failures per job. The status `queued` and the connection statuses
`disconnected` and `syncing` are written by no code.

Health bookkeeping (`markChecksHealthy`, `markChecksFailing`) appears as the
steps `healthy` and `failing`, whose rows are those of `CheckHealth`.

`PromptDatabase = TRUE` says that a statement takes less than the 10 s between
two polls, so that polls do not overlap and a claim is written before the next
poll asks. The code does not enforce it; the properties that need it name it.

### 2.2 CheckHealth

Sweeps (one for each run of the connection whose bookkeeping may overlap with
others: `DispatchOnlyWhenFree`, below, shows that two runs of one connection are
possible) and the overdue detector are actors with the same program: a query
(`Begin...`), a loop over its result (`VisitCheck`, `WriteCheck`), and
`openOrExtendGap` (`FindGap`, then `CreateGap` or `ExtendGap`). `WriteHealthy` is
the transaction of a success. The failure count saturates at
`FAILING_THRESHOLD`, beyond which it decides nothing. `gaps` maps an id to the
check whose open gap it is; the ids of closed gaps are used again, and that
there are enough ids is checked too, since `CreateGap` would otherwise deadlock.
`integration-check.prisma:78-80` calls 0 to 2 failures degraded; the code, and
the model, call 0 failures healthy.

### 2.3 GapEscalation

`BeginPass` reads the open gaps, computes `detectPlatformOutages` and the due
gaps; `Escalate` is the endpoint creating a weakness or not, and
`RecordEscalation` the update of the gap after its answer. The request, the answer, the update and
the process can fail. Time is two flags of a gap, `ripe` and `debounced`.

### 2.4 ImportJob

`handlers` are the message handlers, requests and fallback runs of all API
processes; the program of one is `publish` (a request), or `lookup -> read ->
start -> parse -> insert -> finish -> ack`. The CSV and the file path have the
same program. A message is hidden for `VisibilityTimeout` after a delivery
and comes back unless it is acknowledged; it may also come back early
(`Duplicate`). An acknowledgement with an old receipt may or may not delete
the message. Time advances in units of the visibility timeout (300 s,
`scripts/localstack-init.sh:17`): `STALE_RUNNING` is 3 units as in the source,
`STALE_PENDING` is the next larger number instead of 12, which keeps the order of the
thresholds. `PromptHandlers = TRUE` says a message is handled within one unit;
`Imports` does not assume it, `ImportStuck.cfg` does. The progress column is left out.

### 2.5 DeviceEnrolment

`devices` and `token` are the rows, `file` the credential file of a machine,
`loop` its heartbeat loop with the credential it holds in memory (`agent.Run`),
`login` its sign-in (`agent.Login`), and `requests` what the API works on. The
program of a request is `claim -> count -> exhaust -> find -> reuse | create` for
an enrolment with the token, the same from `find` for a sign-in, and `auth ->
store` for a check-in; its answer stays in the request until the agent reads it.
`GiveUp` is the agent's 30 s timeout: the request goes on with nobody to answer
to. `RequestFails` is a failed statement or the end of the API process. A secret
is named by its device and key id. The conditional update of `ClaimUse` is one
statement and one step; the read that follows it and the status it may write are
two more.

### 2.6 DevicePosture

`checkins` have the program `compare -> store -> emit` of `recordCheckIn`, for one
signal with a state of `Postures`; `fresh` is "reported within
`STALE_INTERVAL_FACTOR` intervals". `sweep` is `sweepStaleDevices`: a query, then
two statements for each silent device, in any order of the devices. `latest` is what
the latest evidence says of the signal; `reported` are the devices whose silence was
reported since they were last marked. Two histories say where the code makes no
promise: `muddled` are the devices whose check-ins overlapped, or whose report was
lost, until a check-in begins that has the device to itself and finds row and
finding agreed; `missed` are those whose last marking was followed by a failure of
the sweep. The sweep writes by id, so a device that checked in or was revoked after
the query becomes stale nonetheless.

### 2.7 AlertEvaluator

`conditions` are what the rules look at: broken or not, and an occurrence number
that a `Generational` rule has in its dedupe key (an expiry or due date, a
detection) and the others have not. `ticks` is the program of
`runTenantTick`, one for each process: `rules -> seed -> collect -> dedupe ->
deliver -> store`, the last four once for each enabled rule in order. `ensureAlertRules`
is three statements: a read, an insertion of what that read found missing
(`InsertDefaults`, which skips what has come since), and another read; the requests
for the rules run it too (`request`), and a `PATCH` then updates its row. A delivery is
accepted or fails (`Deliver`), and either way becomes a row of `ledger`, which
suppresses its key; `Store` writes the rows of a rule in one statement, and
`StoreFails` is the foreign key of a channel deleted since the tick began. The
evaluation of any rule may fail, at the cost of a fault, and that of a `Flaky` rule,
which reads the collector, at no cost and for ever. `attempts` counts what was sent,
`told` says whether a channel accepted the present occurrence, `chosen` what an
administrator chose last. `BeginTick` takes the channels as they are; a channel
switched off in the middle of a tick still gets its alerts, as in the code. A deleted
id is not used again. `MaxEdits` bounds what administrators change.

### 2.8 BindingReconciler

`enabled`, `applicable` and `assigned` are the catalog of the API as far as the
resolver reads it (`Resolved`, `ResolverReason`). `connect` is `POST
/connections` between its row and its binding, with the tenant's three modes.
`passes` are calls of `reconcileBindings`: `Resolve` asks the API, `Load` reads
the rows, `Apply` writes the loop's result in one transaction, or `RollBack` when a row that was
not there has come meanwhile. `Write` is the loop over the manifest and over the
loaded rows. (`computeReconcileDiff`, the function the unit tests call, is called
by no other code and not modelled.) `overtaken` is a history: for the passes of
`Followed`, the keys of which something a pass has read (what they resolve to, or
their rows) has changed since, through whatever. It is remembered by every step
(`Remember`) and decides none. `Restart` deploys another manifest; the start-up pass
runs only when the connection was bound to another version. If a key has several
references that resolve to nothing, the last of them gives the reason; the model
takes any.

### 2.9 DirectorySync

`requests` are calls of `enqueueDirectorySyncRun` by timers and users: `begin ->
check -> create` under the advisory lock, which is tried for and not waited for.
`exec` are calls of `executeDirectorySyncRun`: `start -> fetch`, for each account
`find -> write -> map`, then `findStale` and for each person `readStale ->
suspend`, then `finish -> stamp`, with `fail -> stampFailed` for the catch block.
`mapping` names the run that last saw an account, which stands for `lastSeenAt`.
`config.due` stands for the time since `lastSyncAt`. Deleting a configuration
deletes its runs and mappings, also under a run, whose next write by id then throws.
A finished run decides nothing, so its id is used again once its call has
returned.

## 3. Runs

| Run | Instance | What it shows | States |
|---|---|---|---|
| `JobsRequests` | 1 connection, 2 jobs, 2 executions, 1 request in flight, no fault | statuses agree with runs, a running job has an execution, finished jobs stay finished, whatever users do meanwhile | 817k |
| `JobsFaults` | 2 connections (one custom), 2 jobs, 1 fault | one execution per job, no leaked slot, evidence stored once and once more for the fault, orderly run history, `PoolSpec`, with a crash or a failed statement anywhere | 850k |
| `JobsLive` | 2 jobs, 1 slot, fair | the limit holds, every pending job ends | 296k |
| `HealthRaces` | 1 check, 2 sweeps, detector, 1 fault | health agrees with the count and a success closes the gaps under every interleaving | 419k |
| `HealthLive` | 1 custom check, fair, 1 fault | late runs are noticed, overdue checks get a gap | 19k |
| `GapLive` | 3 gaps, 2 tenants, 1 provider, fair, 2 faults | duplicates are bounded by losses, ripe gaps are escalated, material ones raised after an outage | 426k |
| `Imports` | 1 job, 2 processes, 2 handlers of any speed, 1 overlapping delivery, fair, 2 faults | imported once, and once more at most per overlapping delivery, whole, final, and never forgotten while something is left to finish it | 114k |
| `Enrolments` | 1 machine, 2 devices, 2 requests, 2 keys, a token for 1 use, fair, 1 fault | the token's limit holds, a beating agent makes its device active, a revoked one falls silent | 129k |
| `Postures` | 1 device, 2 check-ins, 3 postures, fair, 1 fault | the latest finding is the row's but after overlaps and lost reports, each silence is reported, silent devices become stale | @P |
| `Alerts` | 1 process, 1 request, 2 rules (one flaky, one generational), 2 occurrences, 1 channel, 2 edits, fair, 1 fault | alerts are not repeated, an occurrence is silenced by its own failed deliveries only, choices survive stale seeding, what stays broken is told or recorded as failed | 272k |
| `Bindings` | 1 key, 1 requirement, 1 control, the timer and 1 more pass, which is followed, fair, 1 fault | a pass misses only what changed under it, idle passes change nothing, drift is repaired | 550k |
| `DirectoryRuns` | 1 person, 1 account, 2 runs, 1 timer, 1 request, 1 change by an admin, fair, 1 fault | one run in flight, no suspension without a cause, leavers are locked out | 324k |

Four more instances ask of other bounds what a listed run asks, and are run by hand:
`AlertsPair.cfg` (two API processes; 487k states) and `AlertsDeleted.cfg` (two channels,
one of which may be deleted while the other goes on; 957k states), both for the safety
of `AlertEvaluator`; `BindingsOverlap.cfg` (both passes followed; 704k states); and
`DirectoryPair.cfg` (two accounts of one person; the safety of `DirectorySync`; 2.9M
states). To run one: `tlc -config AlertsPair.cfg MCAlertEvaluator.tla`.

The bounds. Two jobs and two executions suffice for every race between an
execution and another one, a poll, a request or the scheduler, since each of
these reads and writes the rows of one job and its connection; the slots need
two jobs for one slot (`JobsLive`). `MAX_RETRIES = 3` as in the source. Two
sweeps and the detector are all pairs of actors of `CheckHealth`; a
threshold of 3 leaves a degraded state between healthy and failing. Three gaps
of two tenants put a provider in an outage and take it out again. In `Imports`
two handlers are a run and the delivery beside it. In `Enrolments` two requests
are an enrolment or check-in and another one that overtakes it, two devices are
what a machine can get from them, and two keys a secret and the one that replaces
it. In `Postures` two check-ins are all a comparison can miss, and three postures
are the unknown one, the one it read and another. One process suffices for the
liveness of `Alerts`, where others only add rows; their safety is `AlertsPair.cfg`.
Two edits are what it takes to create a channel and then delete it under a tick, or to
switch a rule after a tick has read that it is missing.
In `Bindings` the timer and another pass are all pairs of passes; a binding is
decided by its own key and control, so that one of each shows every race, and what
several keys or references do to one control is left to the theorems.
`MaxChanges = 1` in `DirectoryRuns` also says that a configuration is not deleted and
created again while a request or run of the deleted one is at work: such a run
throws at its next write of its mapping or row.

`TypeOK` is checked by TLC in `JobsFaults` and in `DirectoryRuns`. It is proved for
every component (section 4), so the other runs leave it out.

`CHECK_DEADLOCK FALSE` stands in the runs of `CollectionJobs`, `GapEscalation`,
`DeviceEnrolment` and `AlertEvaluator`, where all jobs may be done, all gaps
closed, the keys and the faults used up or all rules switched off, and nothing is left to
do; the other runs check for deadlock. Ids are interchangeable, so safety
runs use symmetry where it pays; runs with liveness do not.

### 3.1 Fairness

The scheduler, the polls, the detector and the escalator are `setInterval`
timers of a process that lives, so their first steps are weakly fair; statements
and calls return, with an answer or an error, so the steps that follow one
are weakly fair as a disjunction of both. `JobsLive` has no fault and finitely
many upstream failures; in `Imports` a process that died is started again.
Users, providers, faults, the sync frequency of a connection and the runs
of a connection in `CheckHealth` have no fairness. The clock is fair where
debounce, ripening or the visibility timeout need it.

`DeviceEnrolment`: the API answers or fails and the agent reads the answer (weakly
fair, for each request); the ticker of a running loop fires although other
requests may take the few ids the model has for them, hence `SF` of `Beat`. Nobody
has to start an agent, sign in, or give up. `DevicePosture`: the sweep is a timer,
and the statements of a check-in return; agents need not report, and whether a
device falls silent is free. `AlertEvaluator`: the timer of each process and its
statements (`WF` of `Tick`); that a flaky rule's source ever answers, or that a
delivery ever succeeds, is not assumed.
`BindingReconciler`: the statements of each pass, and the nightly timer; a hook is a
request that may be lost, so it is not fair. `DirectorySync`: time passes
(`DueAgain`), timers tick, and statements return with a result or an error.

### 3.2 Disagreements

Modelling showed statements of comments, documents and tests that the code does not
keep. The modules state them as properties, and TLC finds them violated. None of
them is one of the listed runs, which all pass. First those that have a configuration of their own:

- `JobsRetryBudget.cfg`, `RetryBudget`: a job is retried for ever, since every
  execution counts its retries from zero (`runner/index.ts:313`,
  `docs/integrations.md:130`).
- `JobsStuck.cfg`, `RunningJobProgresses`: a job that a crash left running stays
  running (`runner/index.ts:83`, `routes/jobs.ts:47`).
- `HealthLostGap.cfg`, `OverdueHasGap`: after a crash between two statements an
  overdue check never gets its gap (`overdue-detector.ts:92`, `:10-14`).
- `GapThrottled.cfg`, `OutageCostsOnePass`: an escalation throttled by an outage
  costs a day, not an hour (`gap-escalator.ts:147`, `:33-34`).
- `ImportStuck.cfg`, `InterruptedIsFailed`: an interrupted import stays running
  although workers poll (`import-worker.ts:200`, `:22-25`).
- `JobsCancelGuard.cfg`, `CancelOnlyInFlight`: a job that completed between the
  read and the write of a cancel request becomes cancelled
  (`routes/jobs.ts:186`, `docs/api-reference.md:631`).
- `JobsCancelFinal.cfg`, `CancelledIsFinal`: an execution overwrites the cancelled
  status (`runner/index.ts:353`, `agents/integration-skill.md:257-260`).
- `JobsDispatch.cfg`, `DispatchOnlyWhenFree`: the scheduler inserts a job beside
  one that was triggered after its query (`scheduler/index.ts:75`,
  `docs/integrations.md:124`).
- `JobsOverlap.cfg`, `UpToLimitConcurrent`: without `PromptDatabase` two polls
  use the same free slots (`runner/index.ts:45`, `docs/integrations.md:125`).
- `HealthTwoGaps.cfg`, `OneOpenGapPerCheck`: two callers of `openOrExtendGap`
  create two gaps (`check-health.ts:160`, `overdue-detector.ts:13-14`).
- `HealthUnseenGap.cfg`, `SuccessClosesEveryGap`: a success resets checks enabled
  after its query and leaves their gaps open (`check-health.ts:57`, `:39-41`).
- `HealthStaleOverdue.cfg`, `OverdueOnlyWhenLate`: a check that succeeded after
  the detector's query is flagged (`overdue-detector.ts:92`, `:10-12`).
- `HealthNeverRan.cfg`, `SkippedChecksAreNoticed`: a check that never ran has no
  expected run and is never overdue (`overdue-detector.ts:67`,
  `integration-check.prisma:72-73`).
- `GapDuplicate.cfg`, `WeaknessReused`: a lost answer leads to a second weakness
  (`internal/router.ts:308`, `gap-escalator.ts:149-151`).

The others take the place of the properties in the configuration of their module:

| In place of the properties of | Property | What happens | Source |
|---|---|---|---|
| `Enrolments.cfg` | `RevokedUntilEnrolled` | a check-in that was authenticated before a revocation makes the device active again | `devices/service.ts:463` |
| `Enrolments.cfg` | `OneDevicePerMachine` | two enrolments of one hardware id both create a device | `devices/service.ts:299` |
| `Enrolments.cfg` | `TokenStaysRevoked` | the last use turns a token revoked meanwhile into a consumed one | `devices/service.ts:145` |
| `Enrolments.cfg` | `ValidCredentialIsKept` | a loop that is rejected clears the credential of a newer sign-in | `device-agent/internal/agent/agent.go:109` |
| `Postures.cfg` | `LatestEvidenceAgrees` | two overlapping check-ins report in the other order than they are stored, or the one stored last reports nothing: the row says fail, the latest finding pass | `devices/service.ts:439`, `:428-433` |
| `Postures.cfg` | `RevokedStaysRevoked` | the sweep, or a check-in in progress, overwrites a revocation | `devices/service.ts:463`, `:650` |
| `AlertsPair.cfg` | `AlertsOnce` | two processes send one alert | `notifications/evaluator.ts:600`, `docs/notifications.md:12` |
| `Alerts.cfg` | `FailedIsRetried` | an alert whose only delivery failed is never sent, though its condition persists | `notifications/evaluator.ts:599`, `docs/notifications.md:12` |
| `Alerts.cfg` | `RebrokenIsTold` | a failing-signal set that recovers and breaks again has its old key, and is suppressed | `docs/notifications.md:12` |
| `Bindings.cfg` | `LastPassRepairs` | the last pass to commit leaves wrong what a confirmation, or a pass with an older answer, wrote after it loaded | `binder/reconciler.ts:361` |
| `Bindings.cfg` | `UsersConfirm` | the next pass enables what waits for a user's confirmation | `binder/reconciler.ts:361`, `tenant.prisma:27-30` |
| `Bindings.cfg` | `ReasonIsTrue` | a disabled framework is recorded as a control that is not applicable | `control-binding.ts:163`, `integration-check.prisma:114-119` |
| `Bindings.cfg` | `ReasonIsKept` | of two passes that both disable a binding the later one's reason stays | `binder/reconciler.ts:361` |
| `Bindings.cfg` | `RemovedIsOff` | confirming enables bindings of an item the manifest no longer has | `routes/connections.ts:224` |
| `DirectoryRuns.cfg` | `OffboardedStaysOut` | a run gives an offboarded person the status of the account again | `people/checklists.ts:6-8` |
| `DirectoryRuns.cfg` | `SyncsRecur` | a run whose process died blocks every later one | `directory-sync/service.ee.ts:308`, `docs/auth-providers.md:217` |
| `DirectoryPair.cfg` | `ActiveAccountsKeepAccess` | a person with a new account is suspended for the old one | `directory-sync/service.ee.ts:449`, `docs/people.md:81` |

Two more are not modelled: progress events of an import are not awaited, so
they can arrive after the final snapshot, which `import-job.ts:392-393` rules
out; and the vault row of a connection is written outside its transaction
(`routes/connections.ts:66-69`).

## 4. Proofs

The theorems hold for every value of the constants that satisfies the
assumption each module states (`CollectionAssumption`, `HealthAssumption`,
`EscalationAssumption`, `ImportAssumption`, `EnrolmentAssumption`,
`PostureAssumption`, `AlertAssumption`, `BindingAssumption`,
`DirectoryAssumption`); TLC evaluates the assumptions in the runs.

Each argument is an inductive invariant stated at the head of the module, shown to
hold initially and to be kept by every action, one lemma for each action or for
each group that writes the same columns.

**`CollectionJobsProofs`.** `TypeOK` is not inductive: the slots a poll computes
from `activeJobs` are a natural number only if the counter counts something, and
an execution that writes its run finds the row only if its job is not deleted.
`CoreInv` adds both, `WellFormed` (what executions, jobs and requests refer to
exists) and `CountInv` (`activeJobs` is the number of busy executions, a finite
set). It gives `TypeCorrect` and `SlotsCorrect`: no path through `executeJob`,
no failed statement and no crash leaks a slot. `LimitRespected` and
`OneExecution` need `PromptDatabase` (a query answers before the next tick of the
timer); under it `PollInv` says that one poll is in progress at a time, that its
slots are free until it has filled them, that executions hold different jobs,
that a claimed job is not pending, and that every execution has claimed its job
before the next poll reads. Without `PromptDatabase` both properties are false
(`JobsOverlap.cfg`).

What runs, jobs and executions say of each other is `HistoryInv`. A job row, its last
run and the execution that holds the job are written by different statements, so the
three agree only up to the statement at which the execution is: `ExecutionHistory`
says, for each `pc`, which status the row may have (a cancellation changes it behind
the execution's back), which the last run has, and that the execution names the last
run. `JobHistory` says what follows for a row nobody holds. It needs `CoreInv` (runs
exist) and `PollInv` (nobody else holds the job) and gives `HistoryInOrder`,
`StatusMatchesRuns` and, as an action property, `FinishedStays`: a poll takes
pending jobs only, and an execution that may write has a job that is not finished.

`OwnedInv` (a running job is held by an execution that is past its claim and not yet
done) gives `RunningOwned` and needs no `PromptDatabase`: two executions of one job,
which overlapping polls can start, leave the row with an owner. It is of behaviours
without a fault so far, and so is what it concludes. `DeliveryInv` (what was stored of
a job that waits, or whose execution has not submitted in its attempt or is on its
way to a retry, faults account for) gives `DeliveredOnce`, in which every crash and
failed statement may cost one repetition. The case that needs care is `StatementFails` at a
deleted row, which is no fault: its execution does not lead to a retry. It needs
`PromptDatabase`, since two executions of one job deliver twice.

`PoolImplemented` is the refinement: initial states map to initial states, and every
step to `Take` (a poll), `Complete`, `GiveBack`, `LoseHolders` (a crash) or `Forget`
(a deletion) of `WorkPool`, or to a stutter. `PollInv` gives that the taken jobs
were not held, `HistoryInv` that they were not completed and that only the held
job's run becomes completed.

**`CheckHealthProofs`.** `HealthInv` is `TypeOK` and `HealthMatchesFailures`; it gives
`TypeCorrect` and `HealthIsClassified`, for any number of sweeps that overlap, each
of which writes a count it read earlier. `SuccessCloses` is an action property:
only two statements mark a check as collected (`CollectedBy`), and both close the
gaps of the checks their sweep knew.

**`NotificationProofs`, first part.** Of the gap escalator: that a gap has at most one
weakness and one more for each fault is not inductive: between the answer of the API and
the record of it, one weakness is unaccounted for. `EscalationInv` adds `Unrecorded` (a
gap with no recorded weakness has no more weaknesses than losses, but for the answer at
hand), `AskedOnce` (what the pass believes to be without a weakness is), `AnswerIsTrue`,
and that the current gap is not among those left. It gives `EscalationTypeCorrect`,
`DuplicatesAreBounded` and `NamedWeaknessExists`.

**`ImportJobProofs`.** That a job is imported once and once more for each overlapping
delivery is an argument about counts that the property does not mention. `ImportInv`
adds two: `Deliveries`, the handlers of a job and its waiting message together are
no more than one and the overlapping deliveries; and `Claims`, once a job is started its
imports and the handlers that found it pending are no more than that. `Deliveries`
becomes `Claims` at the step that starts the job. With no overlapping delivery there
is one handler at most (`OneHandler`), so nobody is left to overwrite an outcome
(`Settled`). The steps that import nothing are proved together, as instances of
`Quiet`; the request, the creation of the questionnaire, the insertion of the
questions and the outcome have a lemma each. It gives `TypeCorrect`,
`JobsAreImportedOnce`, `ImportsAreWhole` and, as an action property,
`OutcomesAreFinal`.

**`DeviceEnrolmentProofs`.** The limit of a token is a guard of one statement, but the
enrolments it let in are counted apart from its uses, and nothing else may change
either. `EnrolInv` is `TypeOK`, `GrantsAreUses` (the two counts agree, through
failures, revocation and the status that lags behind) and `ReusedIsFound` (an
enrolment that reuses a device holds one), which the type of `devices` needs. It
gives `TypeCorrect` and `TokenLimitHolds` for any number of machines, requests
and uses. Two theorems about secrets have no run of their own. `CredentialsOwn`: what a
machine holds, sends or is being sent is for a device of its own and no newer than the
row, where enrolments, sign-ins and rejections overtake each other and answers are lost.
`RotationsSupersede`, an action property: one increment of the key id shuts out every
credential of a device, wherever it is. The invariant adds that a row has a key
(`KeyedRows`: a reused device is found with it), and the step lemmas say where a
credential can come from (`Origin`: what the machine had, or what the step issues to it)
and that no step takes a row or a key back (`RowsStay`). TLC checked all three first with
two machines, two devices and two requests.

**`DevicePostureProofs`.** That the latest finding is the row's posture is not
inductive: a check-in whose posture equals what it read stores it and reports
nothing, after the row may have changed. `Settled` is the missing part: a device
that is not muddled has one check-in at most (`OneCheckIn`), and either row and finding agree and this
check-in compares with the row it will overwrite (`Agreed`), or it is about to report the row.
With `DevicesNamed` (who reports, reports of a device) it makes `PostureInv`
inductive, which gives `TypeCorrect`, `FindingsAgree` and `SilenceIsReported`.

**`NotificationProofs`, second part.** Of the alert evaluator: how often a process
sends follows from what the ledger and the tick hold together. `AlertInv` adds
`OnceUnlessWritten` (what is neither in the ledger nor in the rows of this tick was sent
at most once for every loss), where the losses of a process are the faults and the
deleted channels its tick does not hold: the tick that holds one loses its rows, and no
later tick reads it, so that a deletion costs a process one repetition. `RowsAreTrue` (a
row of a successful delivery means that a channel accepted the occurrence) needs
`KeysAreOld` (no key is of an occurrence to come). It gives `TypeCorrect`,
`AlertsAreBounded` and `SuppressionIsEarned`. `ChoicesAreKept` has an invariant of its own:
`ChoiceInv`, that a rule which was chosen for has its row, and that a request which has
seeded finds none missing, since its list, however old, holds all that is still missing
when it inserts: rows are not deleted, and an insertion touches nothing that exists. All hold for any
number of processes, rules and channels.

**`BindingReconcilerProofs`.** For every number of keys, requirements, controls and
passes, where TLC has few of each. `PassesRepair` says that a pass misses only what changed under it. Its
invariant `PassInv` is `TypeOK` with two parts: `Anchored`, that a control is bound only to a check that
exists, and what a pass binds its manifest declares; and `Viewed`, that what a pass in
progress holds of a key is what there is, unless the history has the key as overtaken.
One lemma shows that no step of anybody gets past the history, and the theorem is then
an argument about one transaction: what it makes of a key it holds rightly is right, and
a conflict is a key it does not hold rightly. `RightBindingsStay`: a pass that ends while
everything is settled changes no binding and no reason.

**`DirectorySyncProofs`.** `OneRunInFlight` is a matter of the lock. `LockInv` says that
who looks for runs or creates one holds it, and that between the look and the insert no
run is in flight: all other steps can only take runs out of flight (`LockKept`), and a
second request cannot get past the lock. It assumes nothing of how many timers and users
there are; that the owner of a lock is not confused with nobody is part of
`DirectoryAssumption`. `SuspensionHasCause` has two cases. A person who is written gets
`suspended` only from an account listed as disabled, since the default status is
`invited` or `active`. A person who is suspended as stale has an account the run did not
fetch: the run takes those accounts for stale whose mapping it did not write, so it must
have written all that it fetched when it looks (`Seen`, with `todo` empty), and nobody
may have written them after it. Executions of a deleted configuration are still at work
then, but a mapping is written only by a run whose row is `running` (`Row`), and two
such rows would both be in flight, which `LockInv` excludes (`Alone`). `Sound` carries
the conclusion to the statement that suspends. Every step of an execution is shown to
satisfy `Keeps`, from which one lemma derives the invariant for all other executions.
The module gives `TypeCorrect`, `ExecutionsAreSound` (the account at hand was fetched and
is still to be mapped, and whom a run is about to suspend has an account it did not
fetch), `RunsExclude` and, as an action property, `SuspensionsHaveCause`. Two more theorems have no run of their own. `WalksExclude`: of
the executions that still have a row, one walks through the directory at a time, though
the lock is gone by then. `OwnersAreSpared`: a run never touches an owner's row; it
decides that from a row or a mapping it read statements before it writes, and
`OwnersInv` follows the decision from the read to the write. TLC checked both first, on
an instance whose organisation has an owner; the invariant of the others it checked on
those of `DirectoryRuns` and `DirectoryPair`, and refuted its first form, in which an
execution in its catch block also had a running row: a statement that fails after the
row was finished takes it there.

Every safety property of every run is a theorem. Only model-checked is liveness
(`EveryJobSettles`, `LateRunsAreNoticed`, `OverdueOpensGap`, `RipeGapsAreEscalated`,
`MaterialGapsAreRaised`, `EveryImportSettles`, `BeatingDeviceIsActive`,
`RevokedAgentStops`, `SilentDevicesGoStale`, `BrokenIsTold`, `DriftIsRepaired`,
`LeaversLoseAccess`), since TLAPS does not reason about fairness and `ENABLED`.

## 5. Not modelled

Within the modelled components: text columns, audit logs, timestamps shown to users,
`escalationCount`, the evaluation of HTTP assertions, the configuration and
secrets of a connection, the `bulk` evidence endpoint beyond "stored or not",
the parsers and the structure agent, a statement that commits although its
answer is lost (except for the publish of an import, the escalation request and
the requests of an agent). Further:

- `DeviceEnrolment`: signatures, nonces and clock skew, the exchange of the browser
  sign-in's code, deletion of a device, agents that authenticate with the basic
  method.
- `DevicePosture`: snapshots, pruning of nonces, the settings of a tenant, signals
  beyond one (each is compared by itself).
- `AlertEvaluator`: test messages, the configuration of a rule, the audit log of a
  failed delivery, senders and their retries.
- `BindingReconciler`: several frameworks, deletion of a control, deactivation of a
  connection, custom checks, `lastReconciledAt`, `computeReconcileDiff`.
- `DirectorySync`: roles other than owner, group mappings, deletion of people, changes
  of an e-mail address, cloud users, counters, what offboarding does besides the
  status.

Components not modelled at all, with their reasons in `PROJECT.json`: most of the API
keeps records, i.e. validates a request and reads or writes rows of one tenant in a
statement or a transaction, and has no state or order of its own to check; the
web front end displays and sends such requests, which are the users' actions of the
modules; the Prisma and API clients are generated; providers, identity providers,
payment and language models are external services whose answers the modules take as
free choices. These are nine tenths of the source, and the reason why the
modules map a small share of it. What is left of the concurrent part is in section 6.

## 6. Plan

Done, in this order: `CollectionJobs` with `WorkPool`; `CheckHealth`;
`GapEscalation`; `ImportJob`; `DeviceEnrolment` and `DevicePosture`;
`AlertEvaluator`; `BindingReconciler`; `DirectorySync`; and the theorems of section 4.

Next:

1. Proofs: abstract specifications of the other components (a lock for `DirectorySync`,
   an at-most-once log for `ImportJob`), implemented step by step as `WorkPool` is.
2. `Collector`: `CollectionJobs`, `CheckHealth` and `GapEscalation` composed, with
   the executions of the first as the sweeps of the second; shown to implement
   each of them.
3. `ImportProgress` (events that are not awaited), `ConnectionSecrets` (vault rows
   beside a transaction) and the proposal bus (notifications missed while
   disconnected).
4. The pure algorithms (`lib/business-days.ts`, `topologicalSort`,
   `classify-error.ts`) against reference definitions over bounded inputs.

A new component gets one passing run that checks its safety and its liveness
together where the state space allows it.
