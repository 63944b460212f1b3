------------------------------- MODULE ImportJob -------------------------------
(***************************************************************************)
(* The import of a questionnaire in apps/api: POST /questionnaires creates *)
(* a job and publishes its id, the worker of every API process receives    *)
(* it (import-worker.ts) and runs it (import-job.ts).  The queue hides a   *)
(* message it has delivered for a while and delivers it again unless it is *)
(* acknowledged; a job that a crash left running is not run again but      *)
(* failed, by a redelivery or by the sweep of a worker that starts.        *)
(*                                                                         *)
(* Every database statement of a handler is a step.  Time passes in units  *)
(* of the queue's visibility timeout (5 minutes).  The progress column,    *)
(* the error texts and the contents of a questionnaire are left out.       *)
(***************************************************************************)
EXTENDS Integers, FiniteSets, Functions

CONSTANTS
    Jobs,              \* ids of QuestionnaireImportJob rows
    Instances,         \* processes of apps/api
    Handlers,          \* concurrent requests and message handlers, of any one
    Questionnaires,    \* ids of Questionnaire rows
    None,
    MaxMessages,       \* messages a poll takes
    VisibilityTimeout,
    STALE_RUNNING,
    STALE_PENDING,
    PromptHandlers,    \* whether a message is handled before time passes
    MaxFaults,         \* bound: crashes and failed calls
    MaxRedeliveries    \* bound: deliveries of a message being handled

ASSUME ImportAssumption ==
    /\ IsFiniteSet(Questionnaires)
    /\ IsFiniteSet(Handlers)
    /\ None \notin Questionnaires \cup Jobs \cup Instances
    /\ {MaxMessages, VisibilityTimeout} \subseteq Nat \ {0}
    /\ {STALE_RUNNING, STALE_PENDING, MaxFaults, MaxRedeliveries} \subseteq Nat
    /\ STALE_RUNNING <= STALE_PENDING
    /\ PromptHandlers \in BOOLEAN

VARIABLES
    jobs,         \* QuestionnaireImportJob rows
    imported,     \* Questionnaire rows
    queue,        \* the message of a job
    workers,      \* the workers of the API processes
    handlers,
    redelivered,  \* deliveries of a job while another was being handled
    faults

vars == <<jobs, imported, queue, workers, handlers, redelivered, faults>>
-----------------------------------------------------------------------------
\* age: since createdAt of a pending job, since startedAt of a running one;
\* "none" is a row not created yet.
Job == [status: {"none", "pending", "running", "completed", "partial", "failed"},
        age: 0..STALE_PENDING + 1, questionnaire: Questionnaires \cup {None}]

\* whole: all questions are inserted.
Questionnaire == [job: Jobs \cup {None}, whole: BOOLEAN]

\* hidden: how long it still is; receiver: the handler it was delivered to.
Message == [place: {"absent", "visible", "hidden"},
            hidden: 0..VisibilityTimeout, receiver: Handlers \cup {None}]

\* message: it handles a message, and is not a request or a fallback run.
Handler == [pc: {"idle", "publish", "lookup", "failStuck", "read", "start",
                 "parse", "insert", "finish", "markFailed", "ack"},
            job: Jobs \cup {None}, instance: Instances \cup {None},
            message: BOOLEAN, questionnaire: Questionnaires \cup {None}]

TypeOK ==
    /\ jobs \in [Jobs -> Job]
    /\ imported \in [Questionnaires -> Questionnaire]
    /\ queue \in [Jobs -> Message]
    /\ workers \in [Instances -> {"down", "sweepRunning", "sweepPending", "up"}]
    /\ handlers \in [Handlers -> Handler]
    /\ redelivered \in [Jobs -> 0..MaxRedeliveries]
    /\ faults \in 0..MaxFaults

IdleHandler == [pc |-> "idle", job |-> None, instance |-> None,
                message |-> FALSE, questionnaire |-> None]

Init ==
    /\ jobs = [j \in Jobs |-> [status |-> "none", age |-> 0,
                               questionnaire |-> None]]
    /\ imported = [q \in Questionnaires |-> [job |-> None, whole |-> FALSE]]
    /\ queue = [j \in Jobs |-> [place |-> "absent", hidden |-> 0,
                                receiver |-> None]]
    /\ workers = [i \in Instances |-> "up"]
    /\ handlers = [h \in Handlers |-> IdleHandler]
    /\ redelivered = [j \in Jobs |-> 0]
    /\ faults = 0

Unfinished(j) == jobs[j].status \in {"pending", "running"}
ImportsOf(j) == {q \in Questionnaires : imported[q].job = j}
HandlersOf(j) == {h \in Handlers : handlers[h].job = j}
Goto(h, pc) == handlers' = [handlers EXCEPT ![h].pc = pc]
Leave(h) == handlers' = [handlers EXCEPT ![h] = IdleHandler]

\* A message delivered while its job is being handled; bounded.
Redelivery(j) ==
    /\ redelivered[j] < MaxRedeliveries
    /\ redelivered' = [redelivered EXCEPT ![j] = @ + 1]
-----------------------------------------------------------------------------
(***************************************************************************)
(* The request and the queue.                                              *)
(***************************************************************************)

\* POST /questionnaires creates the row.
Upload(j, i, h) ==
    /\ workers[i] # "down"
    /\ jobs[j].status = "none"
    /\ handlers[h].pc = "idle"
    /\ jobs' = [jobs EXCEPT ![j].status = "pending"]
    /\ handlers' = [handlers EXCEPT ![h] = [IdleHandler EXCEPT
                      !.pc = "publish", !.job = j, !.instance = i]]
    /\ UNCHANGED <<imported, queue, workers, redelivered, faults>>

\* enqueueImportJob.
Publish(h) ==
    /\ handlers[h].pc = "publish"
    /\ queue' = [queue EXCEPT ![handlers[h].job].place = "visible"]
    /\ Leave(h)
    /\ UNCHANGED <<jobs, imported, workers, redelivered, faults>>

\* The publish fails, or only its answer is lost: the job is run in process.
PublishFails(h) ==
    /\ handlers[h].pc = "publish"
    /\ faults < MaxFaults
    /\ \/ UNCHANGED <<queue, redelivered>>
       \/ /\ queue' = [queue EXCEPT ![handlers[h].job].place = "visible"]
          /\ Redelivery(handlers[h].job)
    /\ Goto(h, "read")
    /\ faults' = faults + 1
    /\ UNCHANGED <<jobs, imported, workers>>

\* A poll of subscribe, which waits until all messages of the last one are
\* handled.
Poll(i) ==
    /\ workers[i] = "up"
    /\ \A h \in Handlers : ~(handlers[h].instance = i /\ handlers[h].message)
    /\ \E batch \in SUBSET {j \in Jobs : queue[j].place = "visible"} :
         /\ batch # {}
         /\ Cardinality(batch) <= MaxMessages
         /\ \E to \in Injection(batch, {h \in Handlers : handlers[h].pc = "idle"}) :
              /\ handlers' = [h \in Handlers |->
                   IF \E j \in batch : to[j] = h
                   THEN [IdleHandler EXCEPT !.pc = "lookup", !.instance = i,
                           !.job = CHOOSE j \in batch : to[j] = h,
                           !.message = TRUE]
                   ELSE handlers[h]]
              /\ queue' = [j \in Jobs |->
                   IF j \in batch
                   THEN [place |-> "hidden", hidden |-> VisibilityTimeout,
                         receiver |-> to[j]]
                   ELSE queue[j]]
    /\ UNCHANGED <<jobs, imported, workers, redelivered, faults>>

\* At-least-once delivery: a message shows up again before its time.
Duplicate(j) ==
    /\ queue[j].place = "hidden"
    /\ HandlersOf(j) # {}
    /\ queue' = [queue EXCEPT ![j].place = "visible", ![j].hidden = 0]
    /\ Redelivery(j)
    /\ UNCHANGED <<jobs, imported, workers, handlers, faults>>

\* The rows of unfinished jobs age and hidden messages come back.
Older(j) == [jobs[j] EXCEPT !.age =
               IF Unfinished(j) /\ @ <= STALE_PENDING THEN @ + 1 ELSE @]
Expires(j) == queue[j].place = "hidden" /\ queue[j].hidden = 1
Sooner(j) == [queue[j] EXCEPT
                !.place = IF Expires(j) THEN "visible" ELSE @,
                !.hidden = IF queue[j].place = "hidden" THEN @ - 1 ELSE @]
Early(j) == Expires(j) /\ HandlersOf(j) # {}

Tick ==
    /\ PromptHandlers => \A h \in Handlers : handlers[h].pc = "idle"
    /\ jobs' = [j \in Jobs |-> Older(j)]
    /\ queue' = [j \in Jobs |-> Sooner(j)]
    /\ redelivered' = [j \in Jobs |-> redelivered[j] + IF Early(j) THEN 1 ELSE 0]
    /\ \A j \in Jobs : redelivered'[j] <= MaxRedeliveries
    /\ UNCHANGED <<imported, workers, handlers, faults>>
-----------------------------------------------------------------------------
(***************************************************************************)
(* handleImportJobMessage.                                                 *)
(***************************************************************************)

\* What the status read tells it to do.
Verdict(j) ==
    CASE jobs[j].status = "pending" -> "read"
      [] jobs[j].status = "running" /\ jobs[j].age > STALE_RUNNING -> "failStuck"
      [] OTHER -> "ack"

Lookup(h) ==
    /\ handlers[h].pc = "lookup"
    /\ Goto(h, Verdict(handlers[h].job))
    /\ UNCHANGED <<jobs, imported, queue, workers, redelivered, faults>>

\* Compare and set: only a job that is still running is failed.
Interrupted(j) ==
    IF jobs[j].status = "running" THEN [jobs[j] EXCEPT !.status = "failed"]
    ELSE jobs[j]

failStuckJob(h) ==
    /\ handlers[h].pc = "failStuck"
    /\ jobs' = [jobs EXCEPT ![handlers[h].job] = Interrupted(handlers[h].job)]
    /\ Goto(h, "ack")
    /\ UNCHANGED <<imported, queue, workers, redelivered, faults>>

\* The handler returned: the message is deleted, for sure if this was its
\* last receiver.  A run that handled no message just ends.
Acknowledge(h) ==
    LET j == handlers[h].job IN
    /\ handlers[h].pc = "ack"
    /\ \/ /\ handlers[h].message
          /\ queue' = [queue EXCEPT ![j] = [place |-> "absent", hidden |-> 0,
                                            receiver |-> None]]
       \/ /\ handlers[h].message => queue[j].receiver # h
          /\ UNCHANGED queue
    /\ Leave(h)
    /\ UNCHANGED <<jobs, imported, workers, redelivered, faults>>
-----------------------------------------------------------------------------
(***************************************************************************)
(* runImportJob.                                                           *)
(***************************************************************************)

\* It reads the status itself and goes on if it is pending.
ReadStatus(h) ==
    /\ handlers[h].pc = "read"
    /\ Goto(h, IF jobs[handlers[h].job].status = "pending" THEN "start" ELSE "ack")
    /\ UNCHANGED <<jobs, imported, queue, workers, redelivered, faults>>

\* Broken: the job is not marked as running.
StartUnmarked(h) ==
    /\ handlers[h].pc = "start"
    /\ jobs' = [jobs EXCEPT ![handlers[h].job].age = 0]
    /\ Goto(h, "parse")
    /\ UNCHANGED <<imported, queue, workers, redelivered, faults>>

Start(h) ==
    /\ handlers[h].pc = "start"
    /\ jobs' = [jobs EXCEPT ![handlers[h].job].status = "running",
                            ![handlers[h].job].age = 0]
    /\ Goto(h, "parse")
    /\ UNCHANGED <<imported, queue, workers, redelivered, faults>>

\* Broken: the catch block only logs.
FailSilently(h) ==
    /\ handlers[h].pc \in {"parse", "markFailed"}
    /\ Goto(h, "ack")
    /\ UNCHANGED <<jobs, imported, queue, workers, redelivered, faults>>

\* No question column, a file type or a structure it does not understand; or
\* markJobTerminalFailure.
Fail(h) ==
    /\ handlers[h].pc \in {"parse", "markFailed"}
    /\ jobs' = [jobs EXCEPT ![handlers[h].job].status = "failed"]
    /\ Goto(h, "ack")
    /\ UNCHANGED <<imported, queue, workers, redelivered, faults>>

\* Broken: the job is finished before the questions are inserted.
CreateAndFinish(h) ==
    /\ handlers[h].pc = "parse"
    /\ \E q \in Questionnaires :
         /\ imported[q].job = None
         /\ imported' = [imported EXCEPT ![q].job = handlers[h].job]
         /\ handlers' = [handlers EXCEPT ![h].pc = "finish",
                                         ![h].questionnaire = q]
    /\ UNCHANGED <<jobs, queue, workers, redelivered, faults>>

\* The file is parsed and the Questionnaire row created.
CreateQuestionnaire(h) ==
    /\ handlers[h].pc = "parse"
    /\ \E q \in Questionnaires :
         /\ imported[q].job = None
         /\ imported' = [imported EXCEPT ![q].job = handlers[h].job]
         /\ handlers' = [handlers EXCEPT ![h].pc = "insert",
                                         ![h].questionnaire = q]
    /\ UNCHANGED <<jobs, queue, workers, redelivered, faults>>

InsertQuestions(h) ==
    /\ handlers[h].pc = "insert"
    /\ imported' = [imported EXCEPT ![handlers[h].questionnaire].whole = TRUE]
    /\ Goto(h, "finish")
    /\ UNCHANGED <<jobs, queue, workers, redelivered, faults>>

\* partial: some sheets could not be understood.
Finish(h) ==
    /\ handlers[h].pc = "finish"
    /\ \E status \in {"completed", "partial"} :
         jobs' = [jobs EXCEPT
                    ![handlers[h].job].status = status,
                    ![handlers[h].job].questionnaire = handlers[h].questionnaire]
    /\ Goto(h, "ack")
    /\ UNCHANGED <<imported, queue, workers, redelivered, faults>>
-----------------------------------------------------------------------------
(***************************************************************************)
(* Failures, and the start of a worker.                                    *)
(***************************************************************************)

\* A statement of the run fails: the catch block records it.
RunFails(h) ==
    /\ handlers[h].pc \in {"parse", "insert", "finish"}
    /\ faults < MaxFaults
    /\ Goto(h, "markFailed")
    /\ faults' = faults + 1
    /\ UNCHANGED <<jobs, imported, queue, workers, redelivered>>

\* Elsewhere the handler throws, or the acknowledgement fails: the message
\* stays in the queue.
HandlerThrows(h) ==
    /\ handlers[h].pc \in {"lookup", "failStuck", "read", "start", "markFailed", "ack"}
    /\ faults < MaxFaults
    /\ Leave(h)
    /\ faults' = faults + 1
    /\ UNCHANGED <<jobs, imported, queue, workers, redelivered>>

\* The process dies, or is told to stop: it does not wait for its handlers.
Crash(i) ==
    /\ workers[i] # "down"
    /\ faults < MaxFaults
    /\ workers' = [workers EXCEPT ![i] = "down"]
    /\ handlers' = [h \in Handlers |-> IF handlers[h].instance = i
                                       THEN IdleHandler ELSE handlers[h]]
    /\ faults' = faults + 1
    /\ UNCHANGED <<jobs, imported, queue, redelivered>>

Boot(i) ==
    /\ workers[i] = "down"
    /\ workers' = [workers EXCEPT ![i] = "sweepRunning"]
    /\ UNCHANGED <<jobs, imported, queue, handlers, redelivered, faults>>

\* Broken: the sweep does not ask for the status.
SweptAny(status, threshold) ==
    [j \in Jobs |-> IF jobs[j].age > threshold
                    THEN [jobs[j] EXCEPT !.status = "failed"] ELSE jobs[j]]

\* sweepStaleImportJobs: one statement for each status.
Swept(status, threshold) ==
    [j \in Jobs |-> IF jobs[j].status = status /\ jobs[j].age > threshold
                    THEN [jobs[j] EXCEPT !.status = "failed"] ELSE jobs[j]]

Sweep(i) ==
    /\ \/ /\ workers[i] = "sweepRunning"
          /\ jobs' = Swept("running", STALE_RUNNING)
          /\ workers' = [workers EXCEPT ![i] = "sweepPending"]
       \/ /\ workers[i] = "sweepPending"
          /\ jobs' = Swept("pending", STALE_PENDING)
          /\ workers' = [workers EXCEPT ![i] = "up"]
    /\ UNCHANGED <<imported, queue, handlers, redelivered, faults>>

\* The worker subscribes all the same.
SweepFails(i) ==
    /\ workers[i] \in {"sweepRunning", "sweepPending"}
    /\ faults < MaxFaults
    /\ workers' = [workers EXCEPT ![i] = "up"]
    /\ faults' = faults + 1
    /\ UNCHANGED <<jobs, imported, queue, handlers, redelivered>>
-----------------------------------------------------------------------------
HandlerStep(h) ==
    \/ Publish(h) \/ Lookup(h) \/ failStuckJob(h) \/ Acknowledge(h)
    \/ ReadStatus(h) \/ Start(h) \/ Fail(h) \/ CreateQuestionnaire(h)
    \/ InsertQuestions(h) \/ Finish(h)

Next ==
    \/ \E j \in Jobs, i \in Instances, h \in Handlers : Upload(j, i, h)
    \/ \E h \in Handlers : HandlerStep(h) \/ PublishFails(h)
                           \/ RunFails(h) \/ HandlerThrows(h)
    \/ \E i \in Instances : Poll(i) \/ Crash(i) \/ Boot(i) \/ Sweep(i)
                            \/ SweepFails(i)
    \/ \E j \in Jobs : Duplicate(j)
    \/ Tick

Spec == Init /\ [][Next]_vars

\* Statements return, workers poll, a process that died is started again, and
\* time passes.  Users upload when they like, and nothing need fail.
Fairness ==
    /\ \A h \in Handlers : WF_vars(HandlerStep(h) \/ HandlerThrows(h))
    /\ \A i \in Instances : WF_vars(Poll(i)) /\ WF_vars(Boot(i) \/ Sweep(i))
    /\ WF_vars(Tick)

FairSpec == Spec /\ Fairness
-----------------------------------------------------------------------------
(***************************************************************************)
(* Properties.                                                             *)
(***************************************************************************)

\* A job is imported once, and once more at most for each time its message
\* was delivered while it was being handled: crashes, failed statements,
\* sweeps and redeliveries after a crash never import it again.
ImportedOnce ==
    \A j \in Jobs : Cardinality(ImportsOf(j)) <= 1 + redelivered[j]

\* A job that reads completed or partial names a questionnaire of its own
\* whose questions are all there, even if an earlier run died half-way.
ImportedIsWhole ==
    \A j \in Jobs : jobs[j].status \in {"completed", "partial"} =>
      \E q \in ImportsOf(j) : jobs[j].questionnaire = q /\ imported[q].whole

\* As long as no delivery overlaps with another, nothing overwrites the
\* outcome of a job that was imported: not the sweep of a worker that starts
\* meanwhile, nor the handler that found the job running for too long.
ImportedIsFinal ==
    [][\A j \in Jobs :
         jobs[j].status \in {"completed", "partial"} /\ redelivered[j] = 0
           => jobs'[j] = jobs[j]]_vars

\* No handler and no message is left to take the job further.
Orphan(j) == HandlersOf(j) = {} /\ queue[j].place = "absent"

\* Every job gets a definitive status, slow or redelivered as it may be, and
\* a crash or a failed call leaves it unfinished only when nothing is left
\* that could finish it.
EveryImportSettles ==
    \A j \in Jobs :
      Unfinished(j) ~> ~Unfinished(j) \/ (faults > 0 /\ Orphan(j))

\* An import that was interrupted, say by a crash, does not read running for
\* ever: a redelivery or the sweep of a starting worker fails it
\* (import-worker.ts:22-25).
InterruptedIsFailed ==
    \A j \in Jobs : jobs[j].status = "running" ~> jobs[j].status # "running"
=============================================================================
