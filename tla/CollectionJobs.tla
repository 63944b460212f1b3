--------------------------- MODULE CollectionJobs ---------------------------
(***************************************************************************)
(* The collection pipeline of apps/collector: the scheduler that inserts   *)
(* CollectionJob rows, the HTTP routes that trigger and cancel them, and   *)
(* the runner that polls for pending jobs and executes them, with its      *)
(* retries, over the connection rows all three read and write.             *)
(*                                                                         *)
(* Rows of the collector's database are functions from ids to records; the *)
(* volatile state of the process (the executions in flight, the counter    *)
(* activeJobs, polls and HTTP requests that wait for a statement) is lost  *)
(* by Crash.  An action is one stretch of code between two awaits, so the  *)
(* interleavings are those of the event loop and the database.             *)
(***************************************************************************)
EXTENDS Integers, Sequences, FiniteSets

CONSTANTS
    Connections,          \* ids of IntegrationConnection rows
    CustomConnections,    \* those of the integration "custom" (HTTP checks)
    JobIds,               \* ids of CollectionJob rows
    Executions,           \* invocations of executeJob that may be in flight
    Ticks,                \* invocations of processJobs that may be in flight
    Requests,             \* HTTP requests that may be in flight
    None,                 \* stands for "no row"
    Priorities,           \* priorities a trigger request may ask for
    MAX_CONCURRENT_JOBS,
    MAX_RETRIES,
    MaxUpstreamFailures,  \* bound: retriable upstream failures of one job
    MaxFaults,            \* bound: crashes and failed statements
    PromptDatabase        \* TRUE: a statement takes less than a poll interval

ASSUME CollectionAssumption ==
    /\ CustomConnections \subseteq Connections
    /\ None \notin JobIds \cup Connections
    /\ Priorities \subseteq 0..10
    /\ MAX_CONCURRENT_JOBS \in Nat \ {0}
    /\ MAX_RETRIES \in Nat
    /\ MaxUpstreamFailures \in Nat
    /\ MaxFaults \in Nat
    /\ PromptDatabase \in BOOLEAN

VARIABLES
    conns,        \* IntegrationConnection rows
    jobs,         \* CollectionJob rows
    runs,         \* the CollectionJobRun rows of a job, oldest first
    delivered,    \* how often the evidence of a job was stored by the API
    exec,         \* executeJob invocations
    activeJobs,   \* the counter of runner/index.ts
    polling,      \* free slots a poll computed before its query; 0 = no poll
    dispatching,  \* connections the scheduler's pass has still to serve
    req,          \* HTTP requests between their read and their write
    faults        \* crashes and failed statements so far

vars == <<conns, jobs, runs, delivered, exec, activeJobs, polling,
          dispatching, req, faults>>

rows == <<conns, jobs, runs, delivered>>
runner == <<exec, activeJobs>>
-----------------------------------------------------------------------------
(***************************************************************************)
(* Rows and process state.                                                 *)
(***************************************************************************)
ConnectionStatus == {"absent", "pending_auth", "connected", "error", "deleted"}

\* due: lastSyncAt is null, or lastSyncAt + syncFrequencyMinutes has passed.
Connection == [status: ConnectionStatus, active: BOOLEAN, due: BOOLEAN]

\* "queued" is a value of the enum that no code writes.
JobStatus == {"absent", "pending", "queued", "running", "completed", "failed",
              "cancelled", "deleted"}

InFlight == {"pending", "queued", "running"}

\* ready: scheduledAt has passed.
Job == [conn: Connections \cup {None}, status: JobStatus, prio: Nat,
        ready: BOOLEAN]

\* retries: the number of CollectionRetry rows of this run.
Run == [number: Nat, status: {"running", "completed", "failed"}, retries: Nat]

\* Where an execution waits: before the statement or call the name says.
ExecPc == {"idle", "claim", "lookup", "record", "collect", "submit", "finish",
           "healthy", "unwind", "failing", "retryRow", "requeue", "giveUp"}

\* number: the run number read; run: position of the run row created;
\* retry: the error is retriable and, after unwind, shouldRetry.
Execution == [pc: ExecPc, job: JobIds \cup {None}, number: Nat, run: Nat,
              retry: BOOLEAN]

Request == [pc: {"idle", "create", "cancel"}, conn: Connections \cup {None},
            job: JobIds \cup {None}, prio: Nat]

TypeOK ==
    /\ conns \in [Connections -> Connection]
    /\ jobs \in [JobIds -> Job]
    /\ runs \in [JobIds -> Seq(Run)]
    /\ delivered \in [JobIds -> Nat]
    /\ exec \in [Executions -> Execution]
    /\ activeJobs \in Int
    /\ polling \in [Ticks -> 0..MAX_CONCURRENT_JOBS]
    /\ dispatching \subseteq Connections
    /\ req \in [Requests -> Request]
    /\ faults \in 0..MaxFaults

NoExecution == [pc |-> "idle", job |-> None, number |-> 0, run |-> 0,
                retry |-> FALSE]
NoRequest == [pc |-> "idle", conn |-> None, job |-> None, prio |-> 0]

Init ==
    /\ conns = [c \in Connections |->
                  [status |-> "absent", active |-> FALSE, due |-> FALSE]]
    /\ jobs = [j \in JobIds |-> [conn |-> None, status |-> "absent",
                                 prio |-> 0, ready |-> FALSE]]
    /\ runs = [j \in JobIds |-> <<>>]
    /\ delivered = [j \in JobIds |-> 0]
    /\ exec = [e \in Executions |-> NoExecution]
    /\ activeJobs = 0
    /\ polling = [t \in Ticks |-> 0]
    /\ dispatching = {}
    /\ req = [r \in Requests |-> NoRequest]
    /\ faults = 0

Exists(c) == conns[c].status \notin {"absent", "deleted"}

HasJobInFlight(c) ==
    \E j \in JobIds : jobs[j].conn = c /\ jobs[j].status \in InFlight

\* prisma.collectionJob.create of the scheduler and of the two routes.
CreateJob(j, c, prio) ==
    /\ jobs[j].status = "absent"
    /\ jobs' = [jobs EXCEPT ![j] = [conn |-> c, status |-> "pending",
                                    prio |-> prio, ready |-> TRUE]]
-----------------------------------------------------------------------------
(***************************************************************************)
(* Connections.  The routes below write the row by id without a condition, *)
(* so the read that precedes the write decides nothing but a 404.          *)
(***************************************************************************)

\* POST /connections
CreateConnection(c) ==
    /\ conns[c].status = "absent"
    /\ conns' = [conns EXCEPT ![c] = [status |-> "pending_auth",
                                      active |-> TRUE, due |-> TRUE]]
    /\ UNCHANGED <<jobs, runs, delivered, runner, polling, dispatching, req,
                   faults>>

\* POST /connections/:id/test, whichever way the connector answers.
TestConnection(c, answer) ==
    /\ Exists(c)
    /\ conns' = [conns EXCEPT ![c].status = answer]
    /\ UNCHANGED <<jobs, runs, delivered, runner, polling, dispatching, req,
                   faults>>

\* PUT /connections/:id with isActive
SetActive(c, active) ==
    /\ Exists(c)
    /\ conns' = [conns EXCEPT ![c].active = active]
    /\ UNCHANGED <<jobs, runs, delivered, runner, polling, dispatching, req,
                   faults>>

\* DELETE /connections/:id; jobs and runs go with it (onDelete: Cascade).
DeleteConnection(c) ==
    LET gone == {j \in JobIds : jobs[j].conn = c} IN
    /\ Exists(c)
    /\ conns' = [conns EXCEPT ![c] = [status |-> "deleted", active |-> FALSE,
                                      due |-> FALSE]]
    /\ jobs' = [j \in JobIds |-> IF j \in gone
                                 THEN [jobs[j] EXCEPT !.status = "deleted"]
                                 ELSE jobs[j]]
    /\ runs' = [j \in JobIds |-> IF j \in gone THEN <<>> ELSE runs[j]]
    /\ UNCHANGED <<delivered, runner, polling, dispatching, req, faults>>

\* syncFrequencyMinutes have passed since lastSyncAt.
DueAgain(c) ==
    /\ Exists(c)
    /\ ~conns[c].due
    /\ conns' = [conns EXCEPT ![c].due = TRUE]
    /\ UNCHANGED <<jobs, runs, delivered, runner, polling, dispatching, req,
                   faults>>
-----------------------------------------------------------------------------
(***************************************************************************)
(* Scheduler: checkAndDispatch reads every connection once, with its jobs  *)
(* in flight, and then creates one job after the other.  The flag running  *)
(* keeps passes from overlapping.                                          *)
(***************************************************************************)
IsConnectionDue(c) ==
    /\ conns[c].active
    /\ conns[c].status = "connected"
    /\ ~HasJobInFlight(c)
    /\ conns[c].due

SchedulerRead ==
    /\ dispatching = {}
    /\ \E c \in Connections : IsConnectionDue(c)
    /\ dispatching' = {c \in Connections : IsConnectionDue(c)}
    /\ UNCHANGED <<rows, runner, polling, req, faults>>

SchedulerCreate(c) ==
    /\ c \in dispatching
    /\ Exists(c)
    /\ \E j \in JobIds : CreateJob(j, c, 0)
    /\ dispatching' = dispatching \ {c}
    /\ UNCHANGED <<conns, runs, delivered, runner, polling, req, faults>>

\* The connection is gone: the insert breaks its foreign key and the error
\* leaves the loop.
SchedulerAbort(c) ==
    /\ c \in dispatching
    /\ ~Exists(c)
    /\ dispatching' = {}
    /\ UNCHANGED <<rows, runner, polling, req, faults>>
-----------------------------------------------------------------------------
(***************************************************************************)
(* Routes that trigger and cancel jobs: a read, then a write that does not *)
(* repeat the test the read made.                                          *)
(***************************************************************************)

\* POST /jobs/trigger, up to the create
TriggerRead(r, c, prio) ==
    /\ req[r].pc = "idle"
    /\ Exists(c)
    /\ conns[c].active
    /\ ~HasJobInFlight(c)
    /\ req' = [req EXCEPT ![r] = [pc |-> "create", conn |-> c, job |-> None,
                                  prio |-> prio]]
    /\ UNCHANGED <<rows, runner, polling, dispatching, faults>>

\* POST /connections/:id/checks/:checkId/run, up to the create: it does not
\* ask whether the connection is active, and its priority is 5.
RunCheckRead(r, c) ==
    /\ req[r].pc = "idle"
    /\ Exists(c)
    /\ ~HasJobInFlight(c)
    /\ req' = [req EXCEPT ![r] = [pc |-> "create", conn |-> c, job |-> None,
                                  prio |-> 5]]
    /\ UNCHANGED <<rows, runner, polling, dispatching, faults>>

\* The create of both routes; it fails when the connection is gone.
ManualCreate(r) ==
    /\ req[r].pc = "create"
    /\ \/ /\ Exists(req[r].conn)
          /\ \E j \in JobIds : CreateJob(j, req[r].conn, req[r].prio)
       \/ /\ ~Exists(req[r].conn)
          /\ UNCHANGED jobs
    /\ req' = [req EXCEPT ![r] = NoRequest]
    /\ UNCHANGED <<conns, runs, delivered, runner, polling, dispatching,
                   faults>>

\* POST /jobs/:id/cancel: the status it tests is the one it read.
CancelRead(r, j) ==
    /\ req[r].pc = "idle"
    /\ jobs[j].status \in InFlight
    /\ req' = [req EXCEPT ![r] = [pc |-> "cancel", conn |-> None, job |-> j,
                                  prio |-> 0]]
    /\ UNCHANGED <<rows, runner, polling, dispatching, faults>>

CancelWrite(r) ==
    /\ req[r].pc = "cancel"
    /\ IF jobs[req[r].job].status = "deleted"
       THEN UNCHANGED jobs
       ELSE jobs' = [jobs EXCEPT ![req[r].job].status = "cancelled"]
    /\ req' = [req EXCEPT ![r] = NoRequest]
    /\ UNCHANGED <<conns, runs, delivered, runner, polling, dispatching,
                   faults>>
-----------------------------------------------------------------------------
(***************************************************************************)
(* Runner, polling: processJobs computes its free slots, waits for the     *)
(* query, and starts every job the query returned.                         *)
(***************************************************************************)
Busy == {e \in Executions : exec[e].pc # "idle"}

\* Broken: every poll takes a full batch, whatever is in flight.
PollStartAllSlots(t) ==
    /\ polling[t] = 0
    /\ \A u \in Ticks : polling[u] = 0
    /\ \A e \in Executions : exec[e].pc # "claim"
    /\ polling' = [polling EXCEPT ![t] = MAX_CONCURRENT_JOBS]
    /\ UNCHANGED <<rows, runner, dispatching, req, faults>>

\* With a prompt database a poll and the claims of the previous one are
\* over when the timer fires again.
PollStart(t) ==
    /\ polling[t] = 0
    /\ activeJobs < MAX_CONCURRENT_JOBS
    /\ PromptDatabase =>
         /\ \A u \in Ticks : polling[u] = 0
         /\ \A e \in Executions : exec[e].pc # "claim"
    /\ polling' = [polling EXCEPT ![t] = MAX_CONCURRENT_JOBS - activeJobs]
    /\ UNCHANGED <<rows, runner, dispatching, req, faults>>

\* Broken: polls that also pick up running, failed or completed jobs.
ReadyAlsoRunning ==
    {j \in JobIds : jobs[j].status \in {"pending", "running"} /\ jobs[j].ready}
ReadyAlsoFailed ==
    {j \in JobIds : jobs[j].status \in {"pending", "failed"} /\ jobs[j].ready}
ReadyAlsoCompleted ==
    {j \in JobIds : jobs[j].status \in {"pending", "completed"} /\ jobs[j].ready}

Ready == {j \in JobIds : jobs[j].status = "pending" /\ jobs[j].ready}

\* orderBy priority desc, take slots; the order among equal priorities (by
\* scheduledAt) is left open.
Batches(slots) ==
    {b \in SUBSET Ready :
        /\ IsFiniteSet(b)
        /\ Cardinality(b) <= slots
        /\ b = Ready \/ Cardinality(b) = slots
        /\ \A j \in b, k \in Ready \ b : jobs[j].prio >= jobs[k].prio}

\* Every job of the batch starts in one idle execution.
PollFetch(t) ==
    /\ polling[t] > 0
    /\ \E b \in Batches(polling[t]) :
         \E load \in [Executions \ Busy -> b \cup {None}] :
            /\ \A j \in b : \E e \in Executions \ Busy : load[e] = j
            /\ \A e, f \in Executions \ Busy :
                  load[e] = load[f] => e = f \/ load[e] = None
            /\ exec' = [e \in Executions |->
                  IF e \in Busy \/ load[e] = None
                  THEN exec[e]
                  ELSE [NoExecution EXCEPT !.pc = "claim", !.job = load[e]]]
            /\ activeJobs' = activeJobs + Cardinality(b)
    /\ polling' = [polling EXCEPT ![t] = 0]
    /\ UNCHANGED <<rows, dispatching, req, faults>>

\* The retry's nextRetryAt has passed.
BackoffElapses(j) ==
    /\ jobs[j].status = "pending"
    /\ ~jobs[j].ready
    /\ jobs' = [jobs EXCEPT ![j].ready = TRUE]
    /\ UNCHANGED <<conns, runs, delivered, runner, polling, dispatching, req,
                   faults>>
-----------------------------------------------------------------------------
(***************************************************************************)
(* Runner, executeJob, from one await to the next.                         *)
(***************************************************************************)
JobOf(e) == exec[e].job
ConnOf(e) == jobs[JobOf(e)].conn
RowGone(e) == jobs[JobOf(e)].status = "deleted"

At(e, pc) == exec[e].pc = pc
Goto(e, pc) == exec' = [exec EXCEPT ![e].pc = pc]

\* Broken: a given-up job keeps its slot.
ReleaseLeaks(e) ==
    /\ exec' = [exec EXCEPT ![e] = NoExecution]
    /\ activeJobs' = IF At(e, "giveUp") THEN activeJobs ELSE activeJobs - 1

\* executeJob settles: the .finally of processJobs.
Release(e) ==
    /\ exec' = [exec EXCEPT ![e] = NoExecution]
    /\ activeJobs' = activeJobs - 1

\* The job row becomes "running", whatever it was.
Claim(e) ==
    /\ At(e, "claim")
    /\ ~RowGone(e)
    /\ jobs' = [jobs EXCEPT ![JobOf(e)].status = "running"]
    /\ Goto(e, "lookup")
    /\ UNCHANGED <<conns, runs, delivered, activeJobs, polling, dispatching,
                   req, faults>>

\* Broken: orderBy runNumber asc.
IsFirstRunNumber(j, n) ==
    LET numbers == {runs[j][i].number : i \in DOMAIN runs[j]} IN
    /\ n \in numbers \/ (numbers = {} /\ n = 0)
    /\ \A m \in numbers : m >= n

\* lastRun?.runNumber ?? 0
IsLastRunNumber(j, n) ==
    LET numbers == {runs[j][i].number : i \in DOMAIN runs[j]} IN
    /\ n \in numbers \/ (numbers = {} /\ n = 0)
    /\ \A m \in numbers : m <= n

LookupRun(e) ==
    /\ At(e, "lookup")
    /\ \E n \in {0} \cup {runs[JobOf(e)][i].number : i \in DOMAIN runs[JobOf(e)]} :
          /\ IsLastRunNumber(JobOf(e), n)
          /\ exec' = [exec EXCEPT ![e].number = n, ![e].pc = "record"]
    /\ UNCHANGED <<rows, activeJobs, polling, dispatching, req, faults>>

RecordRun(e) ==
    LET j == JobOf(e) IN
    /\ At(e, "record")
    /\ ~RowGone(e)
    /\ runs' = [runs EXCEPT ![j] = Append(@, [number |-> exec[e].number + 1,
                                              status |-> "running",
                                              retries |-> 0])]
    /\ exec' = [exec EXCEPT ![e].run = Len(runs[j]) + 1, ![e].pc = "collect"]
    /\ UNCHANGED <<conns, jobs, delivered, activeJobs, polling, dispatching,
                   req, faults>>

\* Vault, connect, testConnection, collectEvidence, disconnect, and the read
\* of the bindings; or the custom checks.  An error is classified.
Collect(e) ==
    /\ At(e, "collect")
    /\ \/ Goto(e, "submit")
       \/ exec' = [exec EXCEPT ![e].retry = FALSE, ![e].pc = "unwind"]
       \/ /\ Len(runs[JobOf(e)]) <= MaxUpstreamFailures
          /\ exec' = [exec EXCEPT ![e].retry = TRUE, ![e].pc = "unwind"]
    /\ UNCHANGED <<rows, activeJobs, polling, dispatching, req, faults>>

\* Broken: a refused batch is thrown, after the others were stored.
SubmitRethrows(e) ==
    /\ At(e, "submit")
    /\ delivered' = [delivered EXCEPT ![JobOf(e)] = @ + 1]
    /\ \/ Goto(e, "finish")
       \/ /\ Len(runs[JobOf(e)]) <= MaxUpstreamFailures
          /\ exec' = [exec EXCEPT ![e].retry = TRUE, ![e].pc = "unwind"]
    /\ UNCHANGED <<conns, jobs, runs, activeJobs, polling, dispatching, req,
                   faults>>

\* submitEvidence: a refused batch is only counted (submitErrors), and items
\* without a binding are not stored.  The bindings were read before: evidence
\* of a connection deleted in between is stored.
Submit(e) ==
    /\ At(e, "submit")
    /\ \/ UNCHANGED delivered
       \/ delivered' = [delivered EXCEPT ![JobOf(e)] = @ + 1]
    /\ Goto(e, "finish")
    /\ UNCHANGED <<conns, jobs, runs, activeJobs, polling, dispatching, req,
                   faults>>

\* The transaction that completes run and job and marks the connection.
Finish(e) ==
    LET j == JobOf(e) IN
    /\ At(e, "finish")
    /\ ~RowGone(e)
    /\ runs' = [runs EXCEPT ![j][exec[e].run].status = "completed"]
    /\ jobs' = [jobs EXCEPT ![j].status = "completed"]
    /\ conns' = [conns EXCEPT ![ConnOf(e)].status = "connected",
                              ![ConnOf(e)].due = FALSE]
    /\ IF ConnOf(e) \in CustomConnections
       THEN Release(e)
       ELSE Goto(e, "healthy") /\ UNCHANGED activeJobs
    /\ UNCHANGED <<delivered, polling, dispatching, req, faults>>

\* markChecksHealthy, whose errors are swallowed (its rows are CheckHealth's).
MarkHealthy(e) ==
    /\ At(e, "healthy")
    /\ Release(e)
    /\ UNCHANGED <<rows, polling, dispatching, req, faults>>

\* Broken: the run of a failed attempt is left open.
UnwindLeavesRun(e) ==
    LET retryCount == runs[JobOf(e)][exec[e].run].retries IN
    /\ At(e, "unwind")
    /\ ~RowGone(e)
    /\ exec' = [exec EXCEPT ![e].retry = @ /\ retryCount < MAX_RETRIES,
                            ![e].pc = "failing"]
    /\ UNCHANGED <<rows, activeJobs, polling, dispatching, req, faults>>

\* catch: the run fails, and the retries of this run are counted.
Unwind(e) ==
    LET j == JobOf(e)
        retryCount == runs[j][exec[e].run].retries IN
    /\ At(e, "unwind")
    /\ ~RowGone(e)
    /\ runs' = [runs EXCEPT ![j][exec[e].run].status = "failed"]
    /\ exec' = [exec EXCEPT ![e].retry = @ /\ retryCount < MAX_RETRIES,
                            ![e].pc = "failing"]
    /\ UNCHANGED <<conns, jobs, delivered, activeJobs, polling, dispatching,
                   req, faults>>

\* markChecksFailing, whose errors are swallowed (its rows are CheckHealth's).
MarkFailing(e) ==
    /\ At(e, "failing")
    /\ Goto(e, IF exec[e].retry THEN "retryRow" ELSE "giveUp")
    /\ UNCHANGED <<rows, activeJobs, polling, dispatching, req, faults>>

RecordRetry(e) ==
    /\ At(e, "retryRow")
    /\ ~RowGone(e)
    /\ runs' = [runs EXCEPT ![JobOf(e)][exec[e].run].retries = @ + 1]
    /\ Goto(e, "requeue")
    /\ UNCHANGED <<conns, jobs, delivered, activeJobs, polling, dispatching,
                   req, faults>>

\* Broken: only scheduledAt is written; and: the job is parked as "queued".
RequeueKeepsStatus(e) ==
    /\ At(e, "requeue")
    /\ ~RowGone(e)
    /\ jobs' = [jobs EXCEPT ![JobOf(e)].ready = FALSE]
    /\ Release(e)
    /\ UNCHANGED <<conns, runs, delivered, polling, dispatching, req, faults>>
RequeueAsQueued(e) ==
    /\ At(e, "requeue")
    /\ ~RowGone(e)
    /\ jobs' = [jobs EXCEPT ![JobOf(e)].status = "queued"]
    /\ Release(e)
    /\ UNCHANGED <<conns, runs, delivered, polling, dispatching, req, faults>>

\* The job row becomes "pending" again, whatever it was.
Requeue(e) ==
    /\ At(e, "requeue")
    /\ ~RowGone(e)
    /\ jobs' = [jobs EXCEPT ![JobOf(e)].status = "pending",
                            ![JobOf(e)].ready = FALSE]
    /\ Release(e)
    /\ UNCHANGED <<conns, runs, delivered, polling, dispatching, req, faults>>

\* Broken: job and connection get each other's status.
GiveUpSwapped(e) ==
    /\ At(e, "giveUp")
    /\ ~RowGone(e)
    /\ jobs' = [jobs EXCEPT ![JobOf(e)].status = "error"]
    /\ conns' = [conns EXCEPT ![ConnOf(e)].status = "failed"]
    /\ Release(e)
    /\ UNCHANGED <<runs, delivered, polling, dispatching, req, faults>>

GiveUp(e) ==
    /\ At(e, "giveUp")
    /\ ~RowGone(e)
    /\ jobs' = [jobs EXCEPT ![JobOf(e)].status = "failed"]
    /\ conns' = [conns EXCEPT ![ConnOf(e)].status = "error"]
    /\ Release(e)
    /\ UNCHANGED <<runs, delivered, polling, dispatching, req, faults>>

\* A statement of executeJob fails: its row is gone, or the database errs.
\* Inside the try block that leads to the catch block, anywhere else out of
\* executeJob.
StatementFails(e) ==
    /\ exec[e].pc \in {"claim", "lookup", "record", "finish", "unwind",
                       "retryRow", "requeue", "giveUp"}
    /\ \/ RowGone(e) /\ ~At(e, "lookup") /\ UNCHANGED faults
       \/ ~RowGone(e) /\ faults < MaxFaults /\ faults' = faults + 1
    /\ IF At(e, "finish")
       THEN /\ exec' = [exec EXCEPT ![e].retry = TRUE, ![e].pc = "unwind"]
            /\ UNCHANGED activeJobs
       ELSE Release(e)
    /\ UNCHANGED <<rows, polling, dispatching, req>>
-----------------------------------------------------------------------------
\* The process dies and starts again; index.ts restarts the timers.
Crash ==
    /\ faults < MaxFaults
    /\ faults' = faults + 1
    /\ exec' = [e \in Executions |-> NoExecution]
    /\ activeJobs' = 0
    /\ polling' = [t \in Ticks |-> 0]
    /\ dispatching' = {}
    /\ req' = [r \in Requests |-> NoRequest]
    /\ UNCHANGED rows

Step(e) ==
    \/ Claim(e) \/ LookupRun(e) \/ RecordRun(e) \/ Collect(e) \/ Submit(e)
    \/ Finish(e) \/ MarkHealthy(e) \/ Unwind(e) \/ MarkFailing(e)
    \/ RecordRetry(e) \/ Requeue(e) \/ GiveUp(e)

Next ==
    \/ \E c \in Connections :
         \/ CreateConnection(c) \/ DeleteConnection(c) \/ DueAgain(c)
         \/ \E answer \in {"connected", "error"} : TestConnection(c, answer)
         \/ \E active \in BOOLEAN : SetActive(c, active)
         \/ SchedulerCreate(c) \/ SchedulerAbort(c)
    \/ SchedulerRead
    \/ \E r \in Requests :
         \/ \E c \in Connections :
              \/ \E prio \in Priorities : TriggerRead(r, c, prio)
              \/ RunCheckRead(r, c)
         \/ ManualCreate(r)
         \/ \E j \in JobIds : CancelRead(r, j)
         \/ CancelWrite(r)
    \/ \E t \in Ticks : PollStart(t) \/ PollFetch(t)
    \/ \E j \in JobIds : BackoffElapses(j)
    \/ \E e \in Executions : Step(e) \/ StatementFails(e)
    \/ Crash

Spec == Init /\ [][Next]_vars

\* The timers keep firing and every statement and upstream call returns;
\* users, faults and the passing of the sync frequency promise nothing.
Fairness ==
    /\ WF_vars(SchedulerRead)
    /\ \A c \in Connections :
         WF_vars(SchedulerCreate(c) \/ SchedulerAbort(c))
    /\ \A t \in Ticks : WF_vars(PollStart(t)) /\ WF_vars(PollFetch(t))
    /\ \A j \in JobIds : WF_vars(BackoffElapses(j))
    /\ \A e \in Executions : WF_vars(Step(e) \/ StatementFails(e))

FairSpec == Spec /\ Fairness
-----------------------------------------------------------------------------
(***************************************************************************)
(* Properties.                                                             *)
(***************************************************************************)

\* No two executions work on the same job: what a poll returns was not handed
\* out before and is not handed out again while its execution lives, across
\* retries, cancellations, deletions and crashes (runner/index.ts, processJobs
\* and executeJob).  Needs a prompt database: the claim is not conditional.
OneExecutionPerJob ==
    PromptDatabase =>
        \A e, f \in Busy : exec[e].job = exec[f].job => e = f

\* The runner respects MAX_CONCURRENT_JOBS although it computes its free
\* slots before it waits for the query.
WithinConcurrencyLimit == PromptDatabase => activeJobs <= MAX_CONCURRENT_JOBS

\* The counter activeJobs is the number of executions in flight: no path out
\* of executeJob leaks a slot or returns it twice.
SlotsAccounted == activeJobs = Cardinality(Busy)

\* The runs of a job are numbered 1, 2, ... and only the last one may be
\* open or successful; every earlier one failed.
RunHistory ==
    PromptDatabase =>
        \A j \in JobIds : \A i \in DOMAIN runs[j] :
            /\ runs[j][i].number = i
            /\ i < Len(runs[j]) => runs[j][i].status = "failed"

\* The status of a job agrees with its last run: a job is completed or failed
\* only when that run is, and waits only when it never ran or its last run
\* failed.
StatusAgreesWithRuns ==
    PromptDatabase =>
        \A j \in JobIds :
            LET n == Len(runs[j]) IN
            /\ jobs[j].status \in {"completed", "failed"} =>
                 n > 0 /\ runs[j][n].status = jobs[j].status
            /\ jobs[j].status = "pending" =>
                 n = 0 \/ runs[j][n].status = "failed"

\* Unless something failed, a job marked running is in the hands of an
\* execution, so the JOB_ALREADY_RUNNING answer of the trigger is true.
RunningIsOwned ==
    faults = 0 =>
        \A j \in JobIds : jobs[j].status = "running" =>
            \E e \in Busy : exec[e].job = j

\* The evidence of one job is stored once, and once more at most for every
\* failure: a statement that fails after the submission has the whole job done
\* again, and that is all that has.  No refused batch, upstream error, trigger,
\* cancellation, deletion or crash sends evidence twice.
EvidenceOnce ==
    PromptDatabase => \A j \in JobIds : delivered[j] <= 1 + faults

\* A job that completed or failed is never executed again: only the late
\* write of a cancel request, or the deletion of its connection, changes it.
FinishedIsFinal ==
    [][PromptDatabase =>
         \A j \in JobIds :
            jobs[j].status \in {"completed", "failed"} =>
                jobs'[j].status \in {jobs[j].status, "cancelled", "deleted"}]_vars

\* The pool of executions implements WorkPool: a job is handed out to one
\* execution at a time and never again once one of its runs completed.
HeldJobs == {exec[e].job : e \in Busy}
CompletedJobs ==
    {j \in JobIds : \E i \in DOMAIN runs[j] : runs[j][i].status = "completed"}

Pool == INSTANCE WorkPool WITH
            Items <- JobIds, Limit <- MAX_CONCURRENT_JOBS,
            held <- HeldJobs, completed <- CompletedJobs

PoolSpec == Pool!Spec

\* Every pending job comes to an end, whatever its priority and however often
\* users trigger, cancel and test, if nothing fails and upstream recovers.
EveryJobSettles ==
    \A j \in JobIds :
        jobs[j].status = "pending" ~>
            jobs[j].status \in {"completed", "failed", "cancelled", "deleted"}

\* docs/integrations.md:130: three retries, "a 4th failure marks the
\* connection error": no job has more than MAX_RETRIES + 1 runs.
RetryBudget ==
    faults = 0 => \A j \in JobIds : Len(runs[j]) <= MAX_RETRIES + 1

\* docs/api-reference.md:631: cancel is "allowed only when status is one of
\* pending, queued, running".
CancelOnlyInFlight ==
    [][\A j \in JobIds :
         jobs'[j].status = "cancelled" /\ jobs[j].status # "cancelled" =>
            jobs[j].status \in InFlight]_vars

\* agents/integration-skill.md:257-259: cancelled is a final state of a job.
CancelledIsFinal ==
    [][\A j \in JobIds :
         jobs[j].status = "cancelled" =>
            jobs'[j].status \in {"cancelled", "deleted"}]_vars

\* docs/integrations.md:124: the scheduler inserts a job for an active
\* connection "with no in-flight job".
DispatchOnlyWhenFree ==
    [][\A c \in Connections :
         c \in dispatching /\ dispatching' = dispatching \ {c} /\ jobs' # jobs =>
            ~HasJobInFlight(c)]_vars

\* docs/integrations.md:125: "up to 3 concurrent jobs".
UpToLimitConcurrent == activeJobs <= MAX_CONCURRENT_JOBS

\* apps/collector/src/routes/jobs.ts:47: a job marked running "is already in
\* progress", so it comes to an end.
RunningJobProgresses ==
    \A j \in JobIds : jobs[j].status = "running" ~> jobs[j].status # "running"
=============================================================================
