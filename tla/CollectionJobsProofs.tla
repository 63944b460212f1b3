------------------------ MODULE CollectionJobsProofs ------------------------
(***************************************************************************)
(* Theorems about the collection pipeline, for every set of connections,   *)
(* jobs, executions, polls and requests and every value of the bounds.     *)
(*                                                                         *)
(* In this order: types and slots (CoreInv); polls and claims (PollInv);   *)
(* what rows and executions know of each other (HistoryInv); who owns a    *)
(* running job and what it delivered (OwnedInv, DeliveryInv); and the      *)
(* refinement of WorkPool.                                                 *)
(***************************************************************************)
EXTENDS CollectionJobs, FiniteSetTheorems, FunctionTheorems, SequenceTheorems,
        TLAPS

\* Writing one field of one run row leaves the other rows as they were.
LEMMA RunStatusUpdate ==
    ASSUME NEW s \in Seq(Run), NEW i \in 1..Len(s),
           NEW st \in {"running", "completed", "failed"}
    PROVE  /\ [s EXCEPT ![i].status = st] \in Seq(Run)
           /\ Len([s EXCEPT ![i].status = st]) = Len(s)
           /\ \A k \in 1..Len(s) :
                [s EXCEPT ![i].status = st][k] =
                    IF k = i THEN [s[i] EXCEPT !.status = st] ELSE s[k]
<1>1. s[i] \in Run
  BY ElementOfSeq
<1>2. [s[i] EXCEPT !.status = st] \in Run
  BY <1>1 DEF Run
<1>3. [s EXCEPT ![i].status = st] = [s EXCEPT ![i] = [s[i] EXCEPT !.status = st]]
  OBVIOUS
<1>4. QED
  BY <1>2, <1>3, ExceptSeq

\* Another retry of one run keeps the types of the runs.
LEMMA RunRetriesUpdate ==
    ASSUME NEW s \in Seq(Run), NEW i \in 1..Len(s)
    PROVE  /\ [s EXCEPT ![i].retries = @ + 1] \in Seq(Run)
           /\ Len([s EXCEPT ![i].retries = @ + 1]) = Len(s)
           /\ \A k \in 1..Len(s) :
                [s EXCEPT ![i].retries = @ + 1][k] =
                    IF k = i THEN [s[i] EXCEPT !.retries = @ + 1] ELSE s[k]
<1>1. s[i] \in Run
  BY ElementOfSeq
<1>2. [s[i] EXCEPT !.retries = @ + 1] \in Run
  BY <1>1 DEF Run
<1>3. [s EXCEPT ![i].retries = @ + 1] = [s EXCEPT ![i] = [s[i] EXCEPT !.retries = @ + 1]]
  OBVIOUS
<1>4. QED
  BY <1>2, <1>3, ExceptSeq

\* What an execution, a job row and a request refer to exists: a job and a
\* request name row ids, and an execution that recorded its run finds the run
\* row as long as its job was not deleted.
ExecutionWellFormed(e) ==
    /\ exec[e].pc # "idle" =>
         exec[e].job \in JobIds /\ jobs[exec[e].job].status # "absent"
    /\ exec[e].pc \notin {"idle", "claim", "lookup", "record"} =>
         \/ jobs[exec[e].job].status = "deleted"
         \/ exec[e].run \in 1..Len(runs[exec[e].job])

JobWellFormed(j) ==
    jobs[j].status \notin {"absent", "deleted"} => jobs[j].conn \in Connections

RequestWellFormed(r) ==
    /\ req[r].pc = "create" => req[r].conn \in Connections
    /\ req[r].pc = "cancel" =>
         req[r].job \in JobIds /\ jobs[req[r].job].status # "absent"

WellFormed ==
    /\ \A e \in Executions : ExecutionWellFormed(e)
    /\ \A j \in JobIds : JobWellFormed(j)
    /\ \A r \in Requests : RequestWellFormed(r)

\* The counter activeJobs counts a finite set; the slots a poll computes are
\* a number between 0 and the limit only because of this.
CountInv == IsFiniteSet(Busy) /\ SlotsAccounted

CoreInv == TypeOK /\ WellFormed /\ CountInv

\* The process starts without executions on well-formed rows.
LEMMA InitCoreInv == Init => CoreInv
<1> SUFFICES ASSUME Init PROVE CoreInv
  OBVIOUS
<1>1. TypeOK /\ WellFormed
  BY CollectionAssumption
  DEF Init, TypeOK, WellFormed, ExecutionWellFormed, JobWellFormed,
      RequestWellFormed, Connection, ConnectionStatus, Job, JobStatus, Run,
      Execution, ExecPc, Request, NoExecution, NoRequest
<1>2. Busy = {}
  BY DEF Init, Busy, NoExecution
<1>3. QED
  BY <1>1, <1>2, FS_EmptySet DEF CoreInv, CountInv, SlotsAccounted, Init

\* A row is created once and a deleted row never comes back.
JobsOnward ==
    \A j \in JobIds :
        /\ jobs[j].status = "deleted" => jobs'[j].status = "deleted"
        /\ jobs[j].status # "absent" => jobs'[j].status # "absent"

\* The steps of users, scheduler and time change rows and requests, never an
\* execution or a run row; only a deletion does, which comes below.
OutsideStep ==
    \/ \E c \in Connections :
         \/ CreateConnection(c) \/ DueAgain(c)
         \/ \E answer \in {"connected", "error"} : TestConnection(c, answer)
         \/ \E active \in BOOLEAN : SetActive(c, active)
         \/ SchedulerCreate(c) \/ SchedulerAbort(c)
    \/ SchedulerRead
    \/ \E r \in Requests :
         \/ \E c \in Connections :
              \/ \E prio \in Priorities : TriggerRead(r, c, prio)
              \/ RunCheckRead(r, c)
         \/ ManualCreate(r)
         \/ \E j \in JobIds : CancelRead(r, j)
         \/ CancelWrite(r)
    \/ \E t \in Ticks : PollStart(t)
    \/ \E j \in JobIds : BackoffElapses(j)

\* The rows and requests those steps write have the types of the schema.
LEMMA OutsideTypeOK == CoreInv /\ OutsideStep => TypeOK'
<1> SUFFICES ASSUME CoreInv, OutsideStep PROVE TypeOK'
  OBVIOUS
<1>1. ASSUME NEW c \in Connections, CreateConnection(c) PROVE TypeOK'
  BY <1>1, CollectionAssumption
  DEF CreateConnection, Connection, ConnectionStatus, TypeOK, CoreInv, rows,
      runner
<1>2. ASSUME NEW c \in Connections, DueAgain(c) PROVE TypeOK'
  BY <1>2, CollectionAssumption
  DEF DueAgain, Connection, TypeOK, CoreInv, rows, runner
<1>3. ASSUME NEW c \in Connections, NEW a \in {"connected", "error"},
             TestConnection(c, a)
      PROVE  TypeOK'
  BY <1>3, CollectionAssumption
  DEF TestConnection, Connection, ConnectionStatus, TypeOK, CoreInv, rows,
      runner
<1>4. ASSUME NEW c \in Connections, NEW a \in BOOLEAN,
             SetActive(c, a)
      PROVE  TypeOK'
  BY <1>4, CollectionAssumption
  DEF SetActive, Connection, TypeOK, CoreInv, rows, runner
<1>5. ASSUME NEW c \in Connections, SchedulerCreate(c) PROVE TypeOK'
  BY <1>5, CollectionAssumption
  DEF SchedulerCreate, CreateJob, Job, JobStatus, TypeOK, CoreInv, rows,
      runner
<1>6. ASSUME NEW c \in Connections, SchedulerAbort(c) PROVE TypeOK'
  BY <1>6, CollectionAssumption
  DEF SchedulerAbort, TypeOK, CoreInv, rows, runner
<1>7. CASE SchedulerRead
  BY <1>7, CollectionAssumption
  DEF SchedulerRead, TypeOK, CoreInv, rows, runner
<1>8. ASSUME NEW r \in Requests, NEW c \in Connections, NEW p \in Priorities,
             TriggerRead(r, c, p)
      PROVE  TypeOK'
  BY <1>8, CollectionAssumption
  DEF TriggerRead, Request, TypeOK, CoreInv, rows, runner
<1>9. ASSUME NEW r \in Requests, NEW c \in Connections,
             RunCheckRead(r, c)
      PROVE  TypeOK'
  BY <1>9, CollectionAssumption
  DEF RunCheckRead, Request, TypeOK, CoreInv, rows, runner
<1>10. ASSUME NEW r \in Requests, ManualCreate(r) PROVE TypeOK'
  <2> USE <1>10, CollectionAssumption
  <2>1. req' \in [Requests -> Request]
    BY DEF ManualCreate, NoRequest, Request, TypeOK, CoreInv
  <2>2. jobs' \in [JobIds -> Job]
    <3>1. CASE UNCHANGED jobs
      BY <3>1 DEF TypeOK, CoreInv
    <3>2. ASSUME Exists(req[r].conn), NEW j \in JobIds,
                 CreateJob(j, req[r].conn, req[r].prio)
          PROVE  jobs' \in [JobIds -> Job]
      <4>1. req[r].conn \in Connections /\ req[r].prio \in Nat
        BY DEF ManualCreate, CoreInv, WellFormed, RequestWellFormed, TypeOK, Request
      <4>2. QED
        BY <3>2, <4>1 DEF CreateJob, Job, JobStatus, TypeOK, CoreInv
    <3>3. QED
      BY <3>1, <3>2 DEF ManualCreate
  <2>3. QED
    BY <2>1, <2>2 DEF ManualCreate, TypeOK, CoreInv, runner
<1>11. ASSUME NEW r \in Requests, NEW j \in JobIds,
             CancelRead(r, j)
      PROVE  TypeOK'
  BY <1>11, CollectionAssumption
  DEF CancelRead, Request, TypeOK, CoreInv, rows, runner
<1>12. ASSUME NEW r \in Requests, CancelWrite(r) PROVE TypeOK'
  <2> USE <1>12, CollectionAssumption
  <2>1. req' \in [Requests -> Request]
    BY DEF CancelWrite, NoRequest, Request, TypeOK, CoreInv
  <2>2. req[r].job \in JobIds
    BY DEF CancelWrite, CoreInv, WellFormed, RequestWellFormed
  <2>3. jobs' \in [JobIds -> Job]
    <3>1. CASE UNCHANGED jobs
      BY <3>1 DEF TypeOK, CoreInv
    <3>2. CASE jobs' = [jobs EXCEPT ![req[r].job].status = "cancelled"]
      BY <2>2, <3>2 DEF Job, JobStatus, TypeOK, CoreInv
    <3>3. QED
      BY <3>1, <3>2 DEF CancelWrite
  <2>4. QED
    BY <2>1, <2>3 DEF CancelWrite, TypeOK, CoreInv, runner
<1>13. ASSUME NEW t \in Ticks, PollStart(t) PROVE TypeOK'
  <2>1. activeJobs \in Nat
    BY FS_CardinalityType DEF CoreInv, CountInv, SlotsAccounted
  <2>2. QED
    BY <1>13, <2>1, CollectionAssumption DEF PollStart, TypeOK, CoreInv, rows, runner
<1>14. ASSUME NEW j \in JobIds, BackoffElapses(j) PROVE TypeOK'
  BY <1>14, CollectionAssumption
  DEF BackoffElapses, Job, TypeOK, CoreInv, rows, runner
<1>15. QED
  BY <1>1, <1>2, <1>3, <1>4, <1>5, <1>6, <1>7, <1>8, <1>9, <1>10, <1>11, <1>12, <1>13, <1>14
  DEF OutsideStep

\* What executions and requests refer to still exists after those steps.
LEMMA OutsideWellFormed == CoreInv /\ OutsideStep => WellFormed'
<1> SUFFICES ASSUME CoreInv, OutsideStep PROVE WellFormed'
  OBVIOUS
<1>1. ASSUME NEW c \in Connections, CreateConnection(c) PROVE WellFormed'
  BY <1>1
  DEF CreateConnection, CoreInv, WellFormed, ExecutionWellFormed,
      JobWellFormed, RequestWellFormed, rows, runner
<1>2. ASSUME NEW c \in Connections, DueAgain(c) PROVE WellFormed'
  BY <1>2
  DEF DueAgain, CoreInv, WellFormed, ExecutionWellFormed, JobWellFormed,
      RequestWellFormed, rows, runner
<1>3. ASSUME NEW c \in Connections, NEW a \in {"connected", "error"},
             TestConnection(c, a)
      PROVE  WellFormed'
  BY <1>3
  DEF TestConnection, CoreInv, WellFormed, ExecutionWellFormed,
      JobWellFormed, RequestWellFormed, rows, runner
<1>4. ASSUME NEW c \in Connections, NEW a \in BOOLEAN,
             SetActive(c, a)
      PROVE  WellFormed'
  BY <1>4
  DEF SetActive, CoreInv, WellFormed, ExecutionWellFormed, JobWellFormed,
      RequestWellFormed, rows, runner
<1>5. ASSUME NEW c \in Connections, SchedulerCreate(c) PROVE WellFormed'
  BY <1>5
  DEF SchedulerCreate, CreateJob, CoreInv, TypeOK, WellFormed,
      ExecutionWellFormed, JobWellFormed, RequestWellFormed, rows, runner
<1>6. ASSUME NEW c \in Connections, SchedulerAbort(c) PROVE WellFormed'
  BY <1>6
  DEF SchedulerAbort, CoreInv, WellFormed, ExecutionWellFormed,
      JobWellFormed, RequestWellFormed, rows, runner
<1>7. CASE SchedulerRead
  BY <1>7
  DEF SchedulerRead, CoreInv, WellFormed, ExecutionWellFormed,
      JobWellFormed, RequestWellFormed, rows, runner
<1>8. ASSUME NEW r \in Requests, NEW c \in Connections, NEW p \in Priorities,
             TriggerRead(r, c, p)
      PROVE  WellFormed'
  BY <1>8
  DEF TriggerRead, CoreInv, TypeOK, WellFormed, ExecutionWellFormed,
      JobWellFormed, RequestWellFormed, rows, runner
<1>9. ASSUME NEW r \in Requests, NEW c \in Connections,
             RunCheckRead(r, c)
      PROVE  WellFormed'
  BY <1>9
  DEF RunCheckRead, CoreInv, TypeOK, WellFormed, ExecutionWellFormed,
      JobWellFormed, RequestWellFormed, rows, runner
<1>10. ASSUME NEW r \in Requests, ManualCreate(r) PROVE WellFormed'
  <2>0. JobsOnward
    BY <1>10 DEF ManualCreate, CreateJob, CoreInv, TypeOK, JobsOnward
  <2>1. \A j \in JobIds : JobWellFormed(j)'
    <3>1. CASE UNCHANGED jobs
      BY <3>1 DEF CoreInv, WellFormed, JobWellFormed
    <3>2. ASSUME NEW j \in JobIds, CreateJob(j, req[r].conn, req[r].prio)
          PROVE  \A k \in JobIds : JobWellFormed(k)'
      <4>1. req[r].conn \in Connections
        BY <1>10 DEF ManualCreate, CoreInv, WellFormed, RequestWellFormed
      <4>2. QED
        BY <3>2, <4>1 DEF CreateJob, CoreInv, TypeOK, WellFormed, JobWellFormed
    <3>3. QED
      BY <1>10, <3>1, <3>2 DEF ManualCreate
  <2>2. \A f \in Executions : ExecutionWellFormed(f)'
    BY <1>10, <2>0 DEF ManualCreate, CoreInv, WellFormed,
                       ExecutionWellFormed, JobsOnward, runner
  <2>3. \A q \in Requests : RequestWellFormed(q)'
    BY <1>10, <2>0 DEF ManualCreate, NoRequest, CoreInv, TypeOK, WellFormed,
                       RequestWellFormed, JobsOnward
  <2>4. QED
    BY <2>1, <2>2, <2>3 DEF WellFormed
<1>11. ASSUME NEW r \in Requests, NEW j \in JobIds,
             CancelRead(r, j)
      PROVE  WellFormed'
  BY <1>11
  DEF CancelRead, InFlight, CoreInv, TypeOK, WellFormed, ExecutionWellFormed,
      JobWellFormed, RequestWellFormed, rows, runner
<1>12. ASSUME NEW r \in Requests, CancelWrite(r) PROVE WellFormed'
  <2>1. req[r].job \in JobIds
    BY <1>12 DEF CancelWrite, CoreInv, WellFormed, RequestWellFormed
  <2>2. /\ \A j \in JobIds : JobWellFormed(j)'
        /\ JobsOnward
    <3>1. CASE UNCHANGED jobs
      BY <3>1 DEF CoreInv, WellFormed, JobWellFormed, JobsOnward
    <3>2. CASE /\ jobs[req[r].job].status # "deleted"
               /\ jobs' = [jobs EXCEPT ![req[r].job].status = "cancelled"]
      <4>1. jobs[req[r].job].status # "absent"
        BY <1>12 DEF CancelWrite, CoreInv, WellFormed, RequestWellFormed
      <4>2. QED
        BY <2>1, <3>2, <4>1 DEF CoreInv, TypeOK, Job, WellFormed, JobWellFormed, JobsOnward
    <3>3. QED
      BY <1>12, <3>1, <3>2 DEF CancelWrite
  <2>3. \A f \in Executions : ExecutionWellFormed(f)'
    BY <1>12, <2>2 DEF CancelWrite, CoreInv, WellFormed,
                       ExecutionWellFormed, JobsOnward, runner
  <2>4. \A q \in Requests : RequestWellFormed(q)'
    BY <1>12, <2>2 DEF CancelWrite, NoRequest, CoreInv, TypeOK, WellFormed,
                       RequestWellFormed, JobsOnward
  <2>5. QED
    BY <2>2, <2>3, <2>4 DEF WellFormed
<1>13. ASSUME NEW t \in Ticks, PollStart(t) PROVE WellFormed'
  BY <1>13
  DEF PollStart, CoreInv, WellFormed, ExecutionWellFormed, JobWellFormed,
      RequestWellFormed, rows, runner
<1>14. ASSUME NEW j \in JobIds, BackoffElapses(j) PROVE WellFormed'
  BY <1>14
  DEF BackoffElapses, CoreInv, TypeOK, WellFormed, ExecutionWellFormed,
      JobWellFormed, RequestWellFormed, rows, runner
<1>15. QED
  BY <1>1, <1>2, <1>3, <1>4, <1>5, <1>6, <1>7, <1>8, <1>9, <1>10, <1>11, <1>12, <1>13, <1>14
  DEF OutsideStep

\* The executions and their counter are not touched by those steps.
LEMMA OutsideCoreInv == CoreInv /\ OutsideStep => CoreInv'
<1> SUFFICES ASSUME CoreInv, OutsideStep PROVE CoreInv'
  OBVIOUS
<1>1. UNCHANGED <<exec, activeJobs>>
  BY DEF OutsideStep, CreateConnection, DueAgain, TestConnection, SetActive,
         SchedulerCreate, SchedulerAbort, SchedulerRead, TriggerRead,
         RunCheckRead, ManualCreate, CancelRead, CancelWrite, PollStart,
         BackoffElapses, runner
<1>2. CountInv'
  BY <1>1 DEF CoreInv, CountInv, SlotsAccounted, Busy
<1>3. QED
  BY <1>2, OutsideTypeOK, OutsideWellFormed DEF CoreInv

\* Deleting a connection empties the runs of its jobs, and only of those.
LEMMA DeleteCoreInv ==
    ASSUME CoreInv, NEW c \in Connections, DeleteConnection(c)
    PROVE  CoreInv'
<1>1. \A j \in JobIds :
        \/ jobs'[j] = jobs[j] /\ runs'[j] = runs[j]
        \/ /\ jobs'[j] = [jobs[j] EXCEPT !.status = "deleted"]
           /\ runs'[j] = <<>>
  BY DEF DeleteConnection, CoreInv, TypeOK
<1>2. jobs' \in [JobIds -> Job]
  <2>1. ASSUME NEW j \in JobIds PROVE jobs'[j] \in Job
    <3>1. jobs[j] \in Job
      BY DEF CoreInv, TypeOK
    <3>2. [jobs[j] EXCEPT !.status = "deleted"] \in Job
      BY <3>1 DEF Job, JobStatus
    <3>3. QED
      BY <1>1, <3>1, <3>2
  <2>2. QED
    BY <2>1 DEF DeleteConnection
<1>3. runs' \in [JobIds -> Seq(Run)]
  BY DEF DeleteConnection, CoreInv, TypeOK
<1>4. TypeOK'
  BY <1>2, <1>3 DEF DeleteConnection, CoreInv, TypeOK, Connection,
                    ConnectionStatus, runner
<1>5. ASSUME NEW j \in JobIds PROVE JobWellFormed(j)'
  <2>1. CASE jobs'[j] = jobs[j]
    BY <2>1 DEF CoreInv, WellFormed, JobWellFormed
  <2>2. CASE jobs'[j] = [jobs[j] EXCEPT !.status = "deleted"]
    <3>1. jobs'[j].status = "deleted"
      BY <2>2 DEF CoreInv, TypeOK, Job
    <3>2. QED
      BY <3>1 DEF JobWellFormed
  <2>3. QED
    BY <1>1, <2>1, <2>2
<1>6. \A e \in Executions : ExecutionWellFormed(e)'
  BY <1>1 DEF DeleteConnection, CoreInv, TypeOK, Job, Execution, WellFormed,
              ExecutionWellFormed, runner
<1>7. \A r \in Requests : RequestWellFormed(r)'
  BY <1>1 DEF DeleteConnection, CoreInv, TypeOK, Job, WellFormed,
              RequestWellFormed
<1>8. CountInv'
  BY DEF DeleteConnection, CoreInv, CountInv, SlotsAccounted, Busy, runner
<1>9. QED
  BY <1>4, <1>5, <1>6, <1>7, <1>8 DEF CoreInv, WellFormed

\* A poll hands every job of its batch to one idle execution, at "claim".
LEMMA PollFetchEffect ==
    ASSUME CoreInv, NEW t \in Ticks, PollFetch(t)
    PROVE  \E b \in SUBSET JobIds :
             /\ IsFiniteSet(b)
             /\ Cardinality(b) <= polling[t]
             /\ \A j \in b : jobs[j].status = "pending"
             /\ IsFiniteSet(Busy')
             /\ Cardinality(Busy') = Cardinality(Busy) + Cardinality(b)
             /\ activeJobs' = activeJobs + Cardinality(b)
             /\ exec' \in [Executions -> Execution]
             /\ \A e \in Executions :
                  \/ exec'[e] = exec[e]
                  \/ e \notin Busy /\ exec'[e].pc = "claim" /\ exec'[e].job \in b
             /\ \A e, f \in Executions :
                  /\ exec'[e] # exec[e]
                  /\ exec'[f] # exec[f]
                  /\ exec'[e].job = exec'[f].job
                  => e = f
             /\ \A j \in b :
                  \E e \in Executions : exec'[e].pc = "claim" /\ exec'[e].job = j
<1>1. PICK b \in Batches(polling[t]) :
        \E load \in [Executions \ Busy -> b \cup {None}] :
           /\ \A j \in b : \E e \in Executions \ Busy : load[e] = j
           /\ \A e, f \in Executions \ Busy :
                 load[e] = load[f] => e = f \/ load[e] = None
           /\ exec' = [e \in Executions |->
                 IF e \in Busy \/ load[e] = None
                 THEN exec[e]
                 ELSE [NoExecution EXCEPT !.pc = "claim", !.job = load[e]]]
           /\ activeJobs' = activeJobs + Cardinality(b)
  BY DEF PollFetch
<1>2. PICK load \in [Executions \ Busy -> b \cup {None}] :
           /\ \A j \in b : \E e \in Executions \ Busy : load[e] = j
           /\ \A e, f \in Executions \ Busy :
                 load[e] = load[f] => e = f \/ load[e] = None
           /\ exec' = [e \in Executions |->
                 IF e \in Busy \/ load[e] = None
                 THEN exec[e]
                 ELSE [NoExecution EXCEPT !.pc = "claim", !.job = load[e]]]
           /\ activeJobs' = activeJobs + Cardinality(b)
  BY <1>1
<1>3. /\ b \subseteq JobIds
      /\ IsFiniteSet(b)
      /\ Cardinality(b) <= polling[t]
      /\ \A j \in b : jobs[j].status = "pending"
      /\ None \notin b
  BY CollectionAssumption DEF Batches, Ready
<1> DEFINE chosen == {e \in Executions \ Busy : load[e] # None}
<1>4. \A e \in chosen : load[e] \in b
  BY <1>2
<1>5. \A e \in Executions :
        exec'[e] = IF e \in chosen
                   THEN [NoExecution EXCEPT !.pc = "claim", !.job = load[e]]
                   ELSE exec[e]
  BY <1>2
<1>6. ASSUME NEW e \in chosen
      PROVE  /\ exec'[e].pc = "claim"
             /\ exec'[e].job = load[e]
             /\ exec'[e] \in Execution
             /\ exec[e].pc = "idle"
  <2>1. exec'[e] = [NoExecution EXCEPT !.pc = "claim", !.job = load[e]]
    BY <1>5
  <2>2. load[e] \in JobIds
    BY <1>3, <1>4
  <2>3. NoExecution \in Execution
    BY DEF NoExecution, Execution, ExecPc
  <2>4. /\ exec'[e].pc = "claim"
        /\ exec'[e].job = load[e]
        /\ exec'[e] \in Execution
    BY <2>1, <2>2, <2>3 DEF Execution, ExecPc
  <2>5. exec[e].pc = "idle"
    BY DEF Busy
  <2>6. QED
    BY <2>4, <2>5
<1>7. exec' \in [Executions -> Execution]
  BY <1>2, <1>5, <1>6 DEF CoreInv, TypeOK
<1>8. Busy' = Busy \cup chosen
  BY <1>5, <1>6 DEF Busy
<1>9. IsFiniteSet(chosen) /\ Cardinality(chosen) = Cardinality(b)
  <2> DEFINE g == [e \in chosen |-> load[e]]
  <2>1. g \in Bijection(chosen, b)
    <3>1. g \in [chosen -> b]
      BY <1>4
    <3>2. \A e, f \in chosen : g[e] = g[f] => e = f
      BY <1>2
    <3>3. \A j \in b : \E e \in chosen : g[e] = j
      BY <1>2, <1>3
    <3>4. QED
      BY <3>1, <3>2, <3>3
      DEF Bijection, Injection, IsInjective, Surjection
  <2>2. ExistsBijection(b, chosen)
    BY <2>1, Fun_ExistsBijSymmetric DEF ExistsBijection
  <2>3. QED
    BY <1>3, <2>2, FS_Bijection
<1>10. /\ IsFiniteSet(Busy')
       /\ Cardinality(Busy') = Cardinality(Busy) + Cardinality(b)
  <2>1. Busy \cap chosen = {} /\ Cardinality(Busy \cap chosen) = 0
    BY FS_EmptySet
  <2>2. Cardinality(Busy) \in Nat /\ Cardinality(b) \in Nat
    BY <1>3, FS_CardinalityType DEF CoreInv, CountInv
  <2>3. QED
    <3> HIDE DEF chosen
    <3>1. IsFiniteSet(Busy)
      BY DEF CoreInv, CountInv
    <3>2. /\ IsFiniteSet(Busy \cup chosen)
          /\ Cardinality(Busy \cup chosen) =
               Cardinality(Busy) + Cardinality(chosen) - Cardinality(Busy \cap chosen)
      BY <1>9, <3>1, FS_Union
    <3>3. QED
      BY <1>8, <1>9, <2>1, <2>2, <3>2
<1>11. \A e \in Executions :
         \/ exec'[e] = exec[e]
         \/ e \notin Busy /\ exec'[e].pc = "claim" /\ exec'[e].job \in b
  BY <1>4, <1>5, <1>6
<1>12. \A e, f \in Executions :
         /\ exec'[e] # exec[e]
         /\ exec'[f] # exec[f]
         /\ exec'[e].job = exec'[f].job
         => e = f
  <2> SUFFICES ASSUME NEW e \in Executions, NEW f \in Executions,
                      exec'[e] # exec[e], exec'[f] # exec[f],
                      exec'[e].job = exec'[f].job
               PROVE  e = f
    OBVIOUS
  <2>1. e \in chosen /\ f \in chosen
    BY <1>5
  <2>2. load[e] = load[f]
    BY <1>6, <2>1
  <2>3. QED
    BY <1>2, <2>1, <2>2
<1>13. \A j \in b :
         \E e \in Executions : exec'[e].pc = "claim" /\ exec'[e].job = j
  <2> SUFFICES ASSUME NEW j \in b
               PROVE  \E e \in Executions : exec'[e].pc = "claim" /\ exec'[e].job = j
    OBVIOUS
  <2>1. PICK e \in Executions \ Busy : load[e] = j
    BY <1>2
  <2>2. e \in chosen
    BY <1>3, <2>1
  <2>3. QED
    BY <1>6, <2>1, <2>2
<1>14. QED
  BY <1>2, <1>3, <1>7, <1>10, <1>11, <1>12, <1>13

\* A poll that fetches jobs takes one slot for each execution it starts.
LEMMA PollFetchCoreInv ==
    ASSUME CoreInv, NEW t \in Ticks, PollFetch(t)
    PROVE  CoreInv'
<1>1. PICK b \in SUBSET JobIds :
        /\ IsFiniteSet(b)
        /\ IsFiniteSet(Busy')
        /\ Cardinality(Busy') = Cardinality(Busy) + Cardinality(b)
        /\ activeJobs' = activeJobs + Cardinality(b)
        /\ exec' \in [Executions -> Execution]
        /\ \A e \in Executions :
             \/ exec'[e] = exec[e]
             \/ e \notin Busy /\ exec'[e].pc = "claim" /\ exec'[e].job \in b
        /\ \A j \in b : jobs[j].status = "pending"
  BY PollFetchEffect
<1>2. UNCHANGED <<rows, dispatching, req, faults>>
  BY DEF PollFetch
<1>3. CountInv'
  BY <1>1 DEF CoreInv, CountInv, SlotsAccounted
<1>4. TypeOK'
  <2>1. activeJobs' \in Int
    BY <1>1, FS_CardinalityType DEF CoreInv, TypeOK
  <2>2. polling' \in [Ticks -> 0..MAX_CONCURRENT_JOBS]
    <3>1. polling' = [polling EXCEPT ![t] = 0]
      BY DEF PollFetch
    <3>2. 0 \in 0..MAX_CONCURRENT_JOBS
      BY CollectionAssumption
    <3>3. QED
      BY <3>1, <3>2 DEF CoreInv, TypeOK
  <2>3. QED
    BY <1>1, <1>2, <2>1, <2>2 DEF CoreInv, TypeOK, rows
<1>5. \A e \in Executions : ExecutionWellFormed(e)'
  BY <1>1, <1>2 DEF CoreInv, WellFormed, ExecutionWellFormed, rows
<1>6. QED
  BY <1>2, <1>3, <1>4, <1>5
  DEF CoreInv, WellFormed, JobWellFormed, RequestWellFormed, rows

\* Writing the status of a job that exists keeps every job row well formed.
LEMMA JobWrite ==
    ASSUME CoreInv, NEW j \in JobIds, jobs[j].status \notin {"absent", "deleted"},
           NEW st \in {"pending", "running", "completed", "failed"},
           \/ jobs' = [jobs EXCEPT ![j].status = st]
           \/ jobs' = [jobs EXCEPT ![j].status = st, ![j].ready = FALSE]
    PROVE  /\ jobs' \in [JobIds -> Job]
           /\ JobsOnward
           /\ \A k \in JobIds : JobWellFormed(k)'
<1>1. jobs \in [JobIds -> Job] /\ jobs[j] \in Job
  BY DEF CoreInv, TypeOK
<1>2. jobs'[j] \in Job /\ jobs'[j].status = st /\ jobs'[j].conn = jobs[j].conn
  BY <1>1 DEF Job, JobStatus
<1>3. \A k \in JobIds : k # j => jobs'[k] = jobs[k]
  BY <1>1
<1>4. jobs' \in [JobIds -> Job]
  BY <1>1, <1>2, <1>3
<1>5. JobsOnward
  BY <1>2, <1>3 DEF JobsOnward
<1>6. \A k \in JobIds : JobWellFormed(k)'
  BY <1>2, <1>3 DEF CoreInv, WellFormed, JobWellFormed
<1>7. QED
  BY <1>4, <1>5, <1>6

\* Run rows are appended and rewritten in place, or deleted with their job.
RunsOnward ==
    \A j \in JobIds :
        jobs'[j].status = "deleted" \/ Len(runs'[j]) >= Len(runs[j])

\* A step of one execution leaves the references of the others intact.
LEMMA OthersWellFormed ==
    ASSUME CoreInv, NEW e \in Executions, JobsOnward, RunsOnward,
           runs' \in [JobIds -> Seq(Run)],
           \A f \in Executions \ {e} : exec'[f] = exec[f],
           ExecutionWellFormed(e)', \A j \in JobIds : JobWellFormed(j)',
           UNCHANGED req
    PROVE  WellFormed'
<1>1. ASSUME NEW f \in Executions \ {e} PROVE ExecutionWellFormed(f)'
  <2>1. exec'[f] = exec[f] /\ exec[f] \in Execution
    BY DEF CoreInv, TypeOK
  <2>2. CASE exec[f].pc = "idle"
    BY <2>1, <2>2 DEF ExecutionWellFormed
  <2>3. CASE exec[f].pc # "idle"
    <3>1. exec[f].job \in JobIds /\ jobs[exec[f].job].status # "absent"
      BY <2>3 DEF CoreInv, WellFormed, ExecutionWellFormed
    <3>2. /\ Len(runs[exec[f].job]) \in Nat
          /\ Len(runs'[exec[f].job]) \in Nat
      BY <3>1, LenProperties DEF CoreInv, TypeOK
    <3>3. exec[f].run \in Nat
      BY <2>1 DEF Execution
    <3>4. QED
      BY <2>1, <3>1, <3>2, <3>3
      DEF JobsOnward, RunsOnward, CoreInv, WellFormed, ExecutionWellFormed
  <2>4. QED
    BY <2>2, <2>3
<1>2. ASSUME NEW r \in Requests PROVE RequestWellFormed(r)'
  BY DEF CoreInv, WellFormed, RequestWellFormed, JobsOnward
<1>3. QED
  BY <1>1, <1>2 DEF WellFormed

\* An execution that goes on keeps its slot.
LEMMA MoveCountInv ==
    ASSUME CoreInv, NEW e \in Executions, exec[e].pc # "idle",
           exec'[e].pc # "idle", \A f \in Executions \ {e} : exec'[f] = exec[f],
           UNCHANGED activeJobs
    PROVE  CountInv'
<1>1. Busy' = Busy
  BY DEF Busy
<1>2. QED
  BY <1>1 DEF CoreInv, CountInv, SlotsAccounted

\* An execution that settles gives its slot back.
LEMMA ReleaseCountInv ==
    ASSUME CoreInv, NEW e \in Executions, exec[e].pc # "idle", Release(e)
    PROVE  /\ CountInv'
           /\ exec' \in [Executions -> Execution]
           /\ activeJobs' \in Int
           /\ \A f \in Executions \ {e} : exec'[f] = exec[f]
           /\ exec'[e] = NoExecution
           /\ ExecutionWellFormed(e)'
<1>1. exec'[e] = NoExecution /\ \A f \in Executions \ {e} : exec'[f] = exec[f]
  BY DEF Release, CoreInv, TypeOK
<1>2. NoExecution \in Execution /\ NoExecution.pc = "idle"
  BY DEF NoExecution, Execution, ExecPc
<1>3. Busy' = Busy \ {e} /\ e \in Busy
  BY <1>1, <1>2 DEF Busy
<1>4. IsFiniteSet(Busy') /\ Cardinality(Busy') = Cardinality(Busy) - 1
  BY <1>3, FS_RemoveElement DEF CoreInv, CountInv
<1>5. CountInv'
  BY <1>4 DEF Release, CoreInv, CountInv, SlotsAccounted
<1>6. exec' \in [Executions -> Execution] /\ activeJobs' \in Int
  BY <1>2 DEF Release, CoreInv, TypeOK
<1>7. ExecutionWellFormed(e)'
  BY <1>1, <1>2 DEF ExecutionWellFormed
<1>8. QED
  BY <1>1, <1>5, <1>6, <1>7

\* What holds of the execution and the job a step is about.
LEMMA ExecutionFacts ==
    ASSUME CoreInv, NEW e \in Executions, exec[e].pc # "idle"
    PROVE  /\ exec[e] \in Execution
           /\ JobOf(e) \in JobIds
           /\ jobs[JobOf(e)] \in Job
           /\ jobs[JobOf(e)].status # "absent"
           /\ ~RowGone(e) => ConnOf(e) \in Connections
           /\ runs[JobOf(e)] \in Seq(Run)
           /\ Len(runs[JobOf(e)]) \in Nat
           /\ ~RowGone(e) /\ exec[e].pc \notin {"claim", "lookup", "record"} =>
                exec[e].run \in 1..Len(runs[JobOf(e)])
<1>1. exec[e] \in Execution
  BY DEF CoreInv, TypeOK
<1>2. JobOf(e) \in JobIds /\ jobs[JobOf(e)].status # "absent"
  BY DEF CoreInv, WellFormed, ExecutionWellFormed, JobOf
<1>3. jobs[JobOf(e)] \in Job /\ runs[JobOf(e)] \in Seq(Run)
  BY <1>2 DEF CoreInv, TypeOK
<1>4. Len(runs[JobOf(e)]) \in Nat
  BY <1>3, LenProperties
<1>5. ~RowGone(e) => ConnOf(e) \in Connections
  BY <1>2 DEF CoreInv, WellFormed, JobWellFormed, ConnOf, RowGone
<1>6. ~RowGone(e) /\ exec[e].pc \notin {"claim", "lookup", "record"} =>
        exec[e].run \in 1..Len(runs[JobOf(e)])
  BY DEF CoreInv, WellFormed, ExecutionWellFormed, RowGone, JobOf
<1>7. QED
  BY <1>1, <1>2, <1>3, <1>4, <1>5, <1>6

\* An execution that only moves on: no row changes.
LEMMA MoveCoreInv ==
    ASSUME CoreInv, NEW e \in Executions, exec[e].pc # "idle",
           NEW x \in Execution, exec' = [exec EXCEPT ![e] = x],
           x.pc # "idle", x.job = exec[e].job, x.run = exec[e].run,
           x.pc \in {"claim", "lookup", "record"} \/
           exec[e].pc \notin {"claim", "lookup", "record"},
           faults' \in 0..MaxFaults,
           UNCHANGED <<jobs, runs, conns, activeJobs, polling, dispatching, req>>,
           delivered' \in [JobIds -> Nat]
    PROVE  CoreInv'
<1>1. exec'[e] = x /\ \A f \in Executions \ {e} : exec'[f] = exec[f]
  BY DEF CoreInv, TypeOK
<1>2. CountInv'
  BY <1>1, MoveCountInv
<1>3. TypeOK'
  BY DEF CoreInv, TypeOK
<1>4. ExecutionWellFormed(e)'
  BY <1>1 DEF CoreInv, WellFormed, ExecutionWellFormed
<1>5. \A j \in JobIds : JobWellFormed(j)'
  BY DEF CoreInv, WellFormed, JobWellFormed
<1>6. JobsOnward /\ RunsOnward /\ runs' \in [JobIds -> Seq(Run)]
  <2>1. \A j \in JobIds : Len(runs[j]) \in Nat
    BY LenProperties DEF CoreInv, TypeOK
  <2>2. QED
    BY <2>1, <1>3 DEF JobsOnward, RunsOnward, TypeOK
<1>7. QED
  BY <1>1, <1>2, <1>3, <1>4, <1>5, <1>6, OthersWellFormed DEF CoreInv

\* An execution that settles without writing a row.
LEMMA SettleCoreInv ==
    ASSUME CoreInv, NEW e \in Executions, exec[e].pc # "idle", Release(e),
           faults' \in 0..MaxFaults,
           UNCHANGED <<rows, polling, dispatching, req>>
    PROVE  CoreInv'
<1>1. /\ CountInv'
      /\ exec' \in [Executions -> Execution]
      /\ activeJobs' \in Int
      /\ \A f \in Executions \ {e} : exec'[f] = exec[f]
      /\ ExecutionWellFormed(e)'
  BY ReleaseCountInv
<1>2. TypeOK'
  BY <1>1 DEF CoreInv, TypeOK, rows
<1>3. \A j \in JobIds : JobWellFormed(j)'
  BY DEF CoreInv, WellFormed, JobWellFormed, rows
<1>4. JobsOnward /\ RunsOnward /\ runs' \in [JobIds -> Seq(Run)]
  <2>1. \A j \in JobIds : Len(runs[j]) \in Nat
    BY LenProperties DEF CoreInv, TypeOK
  <2>2. QED
    BY <2>1, <1>2 DEF JobsOnward, RunsOnward, TypeOK, rows
<1>5. QED
  BY <1>1, <1>2, <1>3, <1>4, OthersWellFormed DEF CoreInv

\* Rewriting one run row in place keeps every run list and its length.
LEMMA RunWrite ==
    ASSUME CoreInv, NEW j \in JobIds, NEW s \in Seq(Run),
           runs' = [runs EXCEPT ![j] = s], Len(s) = Len(runs[j])
    PROVE  /\ runs' \in [JobIds -> Seq(Run)]
           /\ \A k \in JobIds : Len(runs'[k]) = Len(runs[k])
           /\ RunsOnward
<1>1. runs' \in [JobIds -> Seq(Run)]
  BY DEF CoreInv, TypeOK
<1>2. \A k \in JobIds : Len(runs'[k]) = Len(runs[k]) /\ Len(runs[k]) \in Nat
  BY LenProperties DEF CoreInv, TypeOK
<1>3. QED
  BY <1>1, <1>2 DEF RunsOnward

\* Every step of an execution, with the rows it writes.
LEMMA StepCoreInv ==
    ASSUME CoreInv, NEW e \in Executions, Step(e)
    PROVE  CoreInv'
<1>1. CASE Claim(e)
  <2> USE <1>1
  <2> DEFINE x == [exec[e] EXCEPT !.pc = "lookup"]
  <2>1. exec[e].pc = "claim" /\ ~RowGone(e)
    BY DEF Claim, At
  <2>2. exec[e] \in Execution /\ JobOf(e) \in JobIds
    BY <2>1, ExecutionFacts
  <2>3. x \in Execution /\ x.pc = "lookup" /\ x.job = exec[e].job
    BY <2>2 DEF Execution, ExecPc
  <2>4. exec' = [exec EXCEPT ![e] = x]
    BY DEF Claim, Goto
  <2>5. exec'[e] = x /\ \A f \in Executions \ {e} : exec'[f] = exec[f]
    BY <2>4 DEF CoreInv, TypeOK
  <2>6. jobs[JobOf(e)].status \notin {"absent", "deleted"}
    BY <2>1, ExecutionFacts DEF RowGone
  <2>7. jobs' = [jobs EXCEPT ![JobOf(e)].status = "running"]
    BY DEF Claim
  <2>8. /\ jobs' \in [JobIds -> Job]
        /\ JobsOnward
        /\ \A k \in JobIds : JobWellFormed(k)'
    BY <2>2, <2>6, <2>7, JobWrite
  <2>9. RunsOnward /\ runs' \in [JobIds -> Seq(Run)]
    BY LenProperties DEF Claim, CoreInv, TypeOK, RunsOnward
  <2>10. ExecutionWellFormed(e)'
    BY <2>2, <2>3, <2>5, <2>6, <2>8 DEF ExecutionWellFormed, JobsOnward, JobOf
  <2>11. WellFormed'
    BY <2>5, <2>8, <2>9, <2>10, OthersWellFormed DEF Claim
  <2>12. CountInv'
    BY <2>1, <2>3, <2>5, MoveCountInv DEF Claim
  <2>13. TypeOK'
    BY <2>3, <2>4, <2>8 DEF Claim, CoreInv, TypeOK
  <2>14. QED
    BY <2>11, <2>12, <2>13 DEF CoreInv
<1>2. CASE LookupRun(e)
  <2> USE <1>2
  <2>1. exec[e].pc = "lookup"
    BY DEF LookupRun, At
  <2>2. exec[e] \in Execution /\ runs[JobOf(e)] \in Seq(Run)
    BY <2>1, ExecutionFacts
  <2>3. PICK n \in {0} \cup {runs[JobOf(e)][i].number : i \in DOMAIN runs[JobOf(e)]} :
          exec' = [exec EXCEPT ![e].number = n, ![e].pc = "record"]
    BY DEF LookupRun
  <2>4. n \in Nat
    <3>1. \A i \in DOMAIN runs[JobOf(e)] : runs[JobOf(e)][i] \in Run
      BY <2>2, ElementOfSeq, LenProperties
    <3>2. QED
      BY <3>1 DEF Run
  <2> DEFINE x == [exec[e] EXCEPT !.number = n, !.pc = "record"]
  <2>5. /\ x \in Execution /\ x.pc = "record" /\ x.job = exec[e].job
        /\ x.run = exec[e].run
    BY <2>2, <2>4 DEF Execution, ExecPc
  <2>6. exec' = [exec EXCEPT ![e] = x]
    BY <2>3
  <2>7. /\ faults' \in 0..MaxFaults /\ delivered' \in [JobIds -> Nat]
        /\ UNCHANGED <<jobs, runs, conns, activeJobs, polling, dispatching, req>>
    BY DEF LookupRun, rows, CoreInv, TypeOK
  <2> HIDE DEF x
  <2>8. QED
    BY <2>1, <2>5, <2>6, <2>7, MoveCoreInv
<1>3. CASE RecordRun(e)
  <2> USE <1>3
  <2> DEFINE j == JobOf(e)
             row == [number |-> exec[e].number + 1, status |-> "running",
                     retries |-> 0]
             n == Len(runs[j]) + 1
             x == [exec[e] EXCEPT !.run = n, !.pc = "collect"]
  <2>1. exec[e].pc = "record" /\ ~RowGone(e)
    BY DEF RecordRun, At
  <2>2. /\ exec[e] \in Execution /\ j \in JobIds
        /\ runs[j] \in Seq(Run) /\ Len(runs[j]) \in Nat
    BY <2>1, ExecutionFacts
  <2>3. /\ x \in Execution /\ x.pc = "collect" /\ x.job = j
        /\ x.run = Len(runs[j]) + 1
    <3>1. n \in Nat
      BY <2>2
    <3> HIDE DEF n
    <3>2. x \in Execution /\ x.pc = "collect" /\ x.job = j /\ x.run = n
      BY <2>2, <3>1 DEF Execution, ExecPc, JobOf
    <3>3. QED
      BY <3>2 DEF n
  <2>4. exec' = [exec EXCEPT ![e] = x]
    BY DEF RecordRun
  <2>5. exec'[e] = x /\ \A f \in Executions \ {e} : exec'[f] = exec[f]
    BY <2>4 DEF CoreInv, TypeOK
  <2>6. row \in Run
    BY <2>2 DEF Execution, Run
  <2>7. Append(runs[j], row) \in Seq(Run) /\ Len(Append(runs[j], row)) = Len(runs[j]) + 1
    BY <2>2, <2>6, AppendProperties
  <2>8. runs' = [runs EXCEPT ![j] = Append(runs[j], row)]
    BY DEF RecordRun
  <2>9. runs' \in [JobIds -> Seq(Run)] /\ Len(runs'[j]) = Len(runs[j]) + 1
    BY <2>2, <2>7, <2>8 DEF CoreInv, TypeOK
  <2>10. RunsOnward
    <3>1. \A k \in JobIds : Len(runs[k]) \in Nat
      BY LenProperties DEF CoreInv, TypeOK
    <3>2. \A k \in JobIds : k # j => runs'[k] = runs[k]
      BY <2>8 DEF CoreInv, TypeOK
    <3> HIDE DEF j
    <3>3. QED
      BY <2>9, <3>1, <3>2 DEF RunsOnward
  <2>11. JobsOnward /\ \A k \in JobIds : JobWellFormed(k)'
    BY DEF RecordRun, JobsOnward, CoreInv, WellFormed, JobWellFormed
  <2>12. ExecutionWellFormed(e)'
    <3>1. jobs'[j].status # "absent"
      BY <2>1, ExecutionFacts DEF RecordRun
    <3>2. Len(runs[j]) + 1 \in 1..Len(runs'[j])
      BY <2>2, <2>9
    <3> HIDE DEF j, x
    <3>3. QED
      BY <2>2, <2>3, <2>5, <3>1, <3>2 DEF ExecutionWellFormed
  <2>13. WellFormed'
    BY <2>5, <2>9, <2>10, <2>11, <2>12, OthersWellFormed DEF RecordRun
  <2>14. CountInv'
    BY <2>1, <2>3, <2>5, MoveCountInv DEF RecordRun
  <2>15. TypeOK'
    BY <2>3, <2>4, <2>9 DEF RecordRun, CoreInv, TypeOK
  <2>16. QED
    BY <2>13, <2>14, <2>15 DEF CoreInv
<1>4. CASE Collect(e)
  <2> USE <1>4
  <2>1. exec[e].pc = "collect" /\ exec[e] \in Execution
    BY ExecutionFacts DEF Collect, At
  <2>2. \E x \in Execution :
          /\ exec' = [exec EXCEPT ![e] = x]
          /\ x.pc \in {"submit", "unwind"} /\ x.job = exec[e].job
          /\ x.run = exec[e].run
    <3>1. CASE exec' = [exec EXCEPT ![e].pc = "submit"]
      <4>1. [exec[e] EXCEPT !.pc = "submit"] \in Execution
        BY <2>1 DEF Execution, ExecPc
      <4>2. QED
        BY <2>1, <3>1, <4>1 DEF Execution
    <3>2. CASE exec' = [exec EXCEPT ![e].retry = FALSE, ![e].pc = "unwind"]
      <4>1. [exec[e] EXCEPT !.retry = FALSE, !.pc = "unwind"] \in Execution
        BY <2>1 DEF Execution, ExecPc
      <4>2. QED
        BY <2>1, <3>2, <4>1 DEF Execution
    <3>3. CASE exec' = [exec EXCEPT ![e].retry = TRUE, ![e].pc = "unwind"]
      <4>1. [exec[e] EXCEPT !.retry = TRUE, !.pc = "unwind"] \in Execution
        BY <2>1 DEF Execution, ExecPc
      <4>2. QED
        BY <2>1, <3>3, <4>1 DEF Execution
    <3>4. QED
      BY <3>1, <3>2, <3>3 DEF Collect, Goto
  <2>3. /\ faults' \in 0..MaxFaults /\ delivered' \in [JobIds -> Nat]
        /\ UNCHANGED <<jobs, runs, conns, activeJobs, polling, dispatching, req>>
    BY DEF Collect, rows, CoreInv, TypeOK
  <2>4. QED
    BY <2>1, <2>2, <2>3, MoveCoreInv
<1>5. CASE Submit(e)
  <2> USE <1>5
  <2> DEFINE x == [exec[e] EXCEPT !.pc = "finish"]
  <2>1. exec[e].pc = "submit" /\ exec[e] \in Execution
    BY ExecutionFacts DEF Submit, At
  <2>2. /\ x \in Execution /\ x.pc = "finish" /\ x.job = exec[e].job
        /\ x.run = exec[e].run
    BY <2>1 DEF Execution, ExecPc
  <2>3. exec' = [exec EXCEPT ![e] = x]
    BY DEF Submit, Goto
  <2>4. delivered' \in [JobIds -> Nat]
    <3>1. delivered \in [JobIds -> Nat]
      BY DEF CoreInv, TypeOK
    <3>2. \/ UNCHANGED delivered
          \/ delivered' = [delivered EXCEPT ![JobOf(e)] = @ + 1]
      BY DEF Submit
    <3>3. QED
      BY <3>1, <3>2
  <2>5. /\ faults' \in 0..MaxFaults
        /\ UNCHANGED <<jobs, runs, conns, activeJobs, polling, dispatching, req>>
    BY DEF Submit, CoreInv, TypeOK
  <2> HIDE DEF x
  <2>6. QED
    BY <2>1, <2>2, <2>3, <2>4, <2>5, MoveCoreInv
<1>6. CASE Finish(e)
  <2> USE <1>6
  <2> DEFINE j == JobOf(e)
             i == exec[e].run
             s == [runs[j] EXCEPT ![i].status = "completed"]
             x == [exec[e] EXCEPT !.pc = "healthy"]
  <2>1. exec[e].pc = "finish" /\ ~RowGone(e)
    BY DEF Finish, At
  <2>2. /\ exec[e] \in Execution /\ j \in JobIds /\ runs[j] \in Seq(Run)
        /\ i \in 1..Len(runs[j]) /\ ConnOf(e) \in Connections
        /\ jobs[j].status \notin {"absent", "deleted"}
    BY <2>1, ExecutionFacts DEF RowGone
  <2>3. s \in Seq(Run) /\ Len(s) = Len(runs[j])
    BY <2>2, RunStatusUpdate
  <2>4. runs' = [runs EXCEPT ![j] = s]
    BY DEF Finish
  <2>5. jobs' = [jobs EXCEPT ![j].status = "completed"]
    BY DEF Finish
  <2> HIDE DEF s
  <2>6. /\ runs' \in [JobIds -> Seq(Run)]
        /\ \A k \in JobIds : Len(runs'[k]) = Len(runs[k])
        /\ RunsOnward
    BY <2>2, <2>3, <2>4, RunWrite
  <2>7. /\ jobs' \in [JobIds -> Job]
        /\ JobsOnward
        /\ \A k \in JobIds : JobWellFormed(k)'
    BY <2>2, <2>5, JobWrite
  <2>8. conns' \in [Connections -> Connection]
    BY <2>2 DEF Finish, CoreInv, TypeOK, Connection, ConnectionStatus
  <2>9. CASE ConnOf(e) \in CustomConnections
    <3>1. Release(e)
      BY <2>9 DEF Finish
    <3>2. /\ CountInv'
          /\ exec' \in [Executions -> Execution]
          /\ activeJobs' \in Int
          /\ \A f \in Executions \ {e} : exec'[f] = exec[f]
          /\ ExecutionWellFormed(e)'
      BY <2>1, <3>1, ReleaseCountInv
    <3>3. TypeOK'
      BY <2>6, <2>7, <2>8, <3>2 DEF Finish, CoreInv, TypeOK
    <3>4. WellFormed'
      BY <2>6, <2>7, <3>2, OthersWellFormed DEF Finish
    <3>5. QED
      BY <3>2, <3>3, <3>4 DEF CoreInv
  <2>10. CASE ConnOf(e) \notin CustomConnections
    <3>1. exec' = [exec EXCEPT ![e] = x] /\ UNCHANGED activeJobs
      BY <2>10 DEF Finish, Goto
    <3>2. /\ x \in Execution /\ x.pc = "healthy" /\ x.job = j /\ x.run = i
      BY <2>2 DEF Execution, ExecPc, JobOf
    <3> HIDE DEF x, j, i
    <3>3. exec'[e] = x /\ \A f \in Executions \ {e} : exec'[f] = exec[f]
      BY <3>1 DEF CoreInv, TypeOK
    <3>4. CountInv'
      BY <2>1, <3>1, <3>2, <3>3, MoveCountInv
    <3>5. TypeOK'
      BY <2>6, <2>7, <2>8, <3>1, <3>2 DEF Finish, CoreInv, TypeOK
    <3>6. ExecutionWellFormed(e)'
      BY <2>2, <2>6, <2>7, <3>2, <3>3 DEF ExecutionWellFormed, JobsOnward
    <3>7. WellFormed'
      BY <2>6, <2>7, <3>3, <3>6, OthersWellFormed DEF Finish
    <3>8. QED
      BY <3>4, <3>5, <3>7 DEF CoreInv
  <2>11. QED
    BY <2>9, <2>10
<1>7. CASE MarkHealthy(e)
  <2>1. exec[e].pc = "healthy" /\ Release(e)
    BY <1>7 DEF MarkHealthy, At
  <2>2. faults' \in 0..MaxFaults /\ UNCHANGED <<rows, polling, dispatching, req>>
    BY <1>7 DEF MarkHealthy, CoreInv, TypeOK
  <2>3. QED
    BY <2>1, <2>2, SettleCoreInv
<1>8. CASE Unwind(e)
  <2> USE <1>8
  <2> DEFINE j == JobOf(e)
             i == exec[e].run
             s == [runs[j] EXCEPT ![i].status = "failed"]
             y == exec[e].retry /\ runs[j][i].retries < MAX_RETRIES
             x == [exec[e] EXCEPT !.retry = y, !.pc = "failing"]
  <2>1. exec[e].pc = "unwind" /\ ~RowGone(e)
    BY DEF Unwind, At
  <2>2. /\ exec[e] \in Execution /\ j \in JobIds /\ runs[j] \in Seq(Run)
        /\ i \in 1..Len(runs[j])
        /\ jobs[j].status \notin {"absent", "deleted"}
    BY <2>1, ExecutionFacts DEF RowGone
  <2>3. s \in Seq(Run) /\ Len(s) = Len(runs[j])
    BY <2>2, RunStatusUpdate
  <2>4. runs' = [runs EXCEPT ![j] = s]
    BY DEF Unwind
  <2>5. /\ runs' \in [JobIds -> Seq(Run)]
        /\ \A k \in JobIds : Len(runs'[k]) = Len(runs[k])
        /\ RunsOnward
    <3> HIDE DEF s
    <3>1. QED
      BY <2>2, <2>3, <2>4, RunWrite
  <2>6. exec' = [exec EXCEPT ![e] = x]
    BY DEF Unwind
  <2>7. y \in BOOLEAN
    BY <2>2 DEF Execution
  <2> HIDE DEF y, s
  <2>8. x \in Execution /\ x.pc = "failing" /\ x.job = j /\ x.run = i
    BY <2>2, <2>7 DEF Execution, ExecPc, JobOf
  <2> HIDE DEF x, i
  <2>9. exec'[e] = x /\ \A f \in Executions \ {e} : exec'[f] = exec[f]
    BY <2>6 DEF CoreInv, TypeOK
  <2>10. JobsOnward /\ \A k \in JobIds : JobWellFormed(k)'
    BY DEF Unwind, JobsOnward, CoreInv, WellFormed, JobWellFormed
  <2>11. ExecutionWellFormed(e)'
    <3> HIDE DEF j
    <3>1. QED
      BY <2>2, <2>5, <2>8, <2>9, <2>10 DEF ExecutionWellFormed, JobsOnward
  <2>12. WellFormed'
    BY <2>5, <2>9, <2>10, <2>11, OthersWellFormed DEF Unwind
  <2>13. CountInv'
    BY <2>1, <2>8, <2>9, MoveCountInv DEF Unwind
  <2>14. TypeOK'
    BY <2>5, <2>6, <2>8 DEF Unwind, CoreInv, TypeOK
  <2>15. QED
    BY <2>12, <2>13, <2>14 DEF CoreInv
<1>9. CASE MarkFailing(e)
  <2> USE <1>9
  <2> DEFINE to == IF exec[e].retry THEN "retryRow" ELSE "giveUp"
             x == [exec[e] EXCEPT !.pc = to]
  <2>1. exec[e].pc = "failing" /\ exec[e] \in Execution
    BY ExecutionFacts DEF MarkFailing, At
  <2>2. to \in {"retryRow", "giveUp"}
    OBVIOUS
  <2>3. exec' = [exec EXCEPT ![e] = x]
    BY DEF MarkFailing, Goto
  <2> HIDE DEF to
  <2>4. /\ x \in Execution /\ x.pc \in {"retryRow", "giveUp"}
        /\ x.job = exec[e].job /\ x.run = exec[e].run
    BY <2>1, <2>2 DEF Execution, ExecPc
  <2>5. /\ faults' \in 0..MaxFaults /\ delivered' \in [JobIds -> Nat]
        /\ UNCHANGED <<jobs, runs, conns, activeJobs, polling, dispatching, req>>
    BY DEF MarkFailing, rows, CoreInv, TypeOK
  <2> HIDE DEF x
  <2>6. QED
    BY <2>1, <2>3, <2>4, <2>5, MoveCoreInv
<1>10. CASE RecordRetry(e)
  <2> USE <1>10
  <2> DEFINE j == JobOf(e)
             i == exec[e].run
             s == [runs[j] EXCEPT ![i].retries = @ + 1]
             x == [exec[e] EXCEPT !.pc = "requeue"]
  <2>1. exec[e].pc = "retryRow" /\ ~RowGone(e)
    BY DEF RecordRetry, At
  <2>2. /\ exec[e] \in Execution /\ j \in JobIds /\ runs[j] \in Seq(Run)
        /\ i \in 1..Len(runs[j])
        /\ jobs[j].status \notin {"absent", "deleted"}
    BY <2>1, ExecutionFacts DEF RowGone
  <2>3. s \in Seq(Run) /\ Len(s) = Len(runs[j])
    BY <2>2, RunRetriesUpdate
  <2>4. runs' = [runs EXCEPT ![j] = s]
    BY DEF RecordRetry
  <2>5. exec' = [exec EXCEPT ![e] = x]
    BY DEF RecordRetry, Goto
  <2> HIDE DEF s
  <2>6. /\ runs' \in [JobIds -> Seq(Run)]
        /\ \A k \in JobIds : Len(runs'[k]) = Len(runs[k])
        /\ RunsOnward
    BY <2>2, <2>3, <2>4, RunWrite
  <2>7. x \in Execution /\ x.pc = "requeue" /\ x.job = j /\ x.run = i
    BY <2>2 DEF Execution, ExecPc, JobOf
  <2> HIDE DEF x, i
  <2>8. exec'[e] = x /\ \A f \in Executions \ {e} : exec'[f] = exec[f]
    BY <2>5 DEF CoreInv, TypeOK
  <2>9. JobsOnward /\ \A k \in JobIds : JobWellFormed(k)'
    BY DEF RecordRetry, JobsOnward, CoreInv, WellFormed, JobWellFormed
  <2>10. ExecutionWellFormed(e)'
    <3> HIDE DEF j
    <3>1. QED
      BY <2>2, <2>6, <2>7, <2>8, <2>9 DEF ExecutionWellFormed, JobsOnward
  <2>11. WellFormed'
    BY <2>6, <2>8, <2>9, <2>10, OthersWellFormed DEF RecordRetry
  <2>12. CountInv'
    BY <2>1, <2>7, <2>8, MoveCountInv DEF RecordRetry
  <2>13. TypeOK'
    BY <2>5, <2>6, <2>7 DEF RecordRetry, CoreInv, TypeOK
  <2>14. QED
    BY <2>11, <2>12, <2>13 DEF CoreInv
<1>11. CASE Requeue(e) \/ GiveUp(e)
  <2> USE <1>11
  <2>1. exec[e].pc # "idle" /\ ~RowGone(e) /\ Release(e)
    BY DEF Requeue, GiveUp, At
  <2>2. /\ JobOf(e) \in JobIds /\ ConnOf(e) \in Connections
        /\ jobs[JobOf(e)].status \notin {"absent", "deleted"}
    BY <2>1, ExecutionFacts DEF RowGone
  <2>3. \/ jobs' = [jobs EXCEPT ![JobOf(e)].status = "pending",
                                ![JobOf(e)].ready = FALSE]
        \/ jobs' = [jobs EXCEPT ![JobOf(e)].status = "failed"]
    BY DEF Requeue, GiveUp
  <2>4. /\ jobs' \in [JobIds -> Job]
        /\ JobsOnward
        /\ \A k \in JobIds : JobWellFormed(k)'
    BY <2>2, <2>3, JobWrite
  <2>5. /\ CountInv'
        /\ exec' \in [Executions -> Execution]
        /\ activeJobs' \in Int
        /\ \A f \in Executions \ {e} : exec'[f] = exec[f]
        /\ ExecutionWellFormed(e)'
    BY <2>1, ReleaseCountInv
  <2>6. conns' \in [Connections -> Connection]
    <3>1. conns \in [Connections -> Connection]
      BY DEF CoreInv, TypeOK
    <3>2. \/ UNCHANGED conns
          \/ conns' = [conns EXCEPT ![ConnOf(e)].status = "error"]
      BY DEF Requeue, GiveUp
    <3>3. QED
      BY <2>2, <3>1, <3>2 DEF Connection, ConnectionStatus
  <2>7. TypeOK'
    BY <2>4, <2>5, <2>6 DEF Requeue, GiveUp, CoreInv, TypeOK
  <2>8. RunsOnward /\ runs' \in [JobIds -> Seq(Run)]
    BY LenProperties DEF Requeue, GiveUp, CoreInv, TypeOK, RunsOnward
  <2>9. WellFormed'
    BY <2>4, <2>5, <2>8, OthersWellFormed DEF Requeue, GiveUp
  <2>10. QED
    BY <2>5, <2>7, <2>9 DEF CoreInv
<1>12. QED
  BY <1>1, <1>2, <1>3, <1>4, <1>5, <1>6, <1>7, <1>8, <1>9, <1>10, <1>11 DEF Step

\* A failed statement of executeJob writes nothing; the execution unwinds or
\* settles.
LEMMA StatementFailsCoreInv ==
    ASSUME CoreInv, NEW e \in Executions, StatementFails(e)
    PROVE  CoreInv'
<1>1. exec[e].pc # "idle" /\ exec[e] \in Execution
  BY ExecutionFacts DEF StatementFails
<1>2. faults' \in 0..MaxFaults /\ UNCHANGED <<rows, polling, dispatching, req>>
  BY CollectionAssumption DEF StatementFails, CoreInv, TypeOK
<1>3. CASE exec[e].pc = "finish"
  <2> DEFINE x == [exec[e] EXCEPT !.retry = TRUE, !.pc = "unwind"]
  <2>1. exec' = [exec EXCEPT ![e] = x] /\ UNCHANGED activeJobs
    BY <1>3 DEF StatementFails, At
  <2>2. /\ x \in Execution /\ x.pc = "unwind" /\ x.job = exec[e].job
        /\ x.run = exec[e].run
    BY <1>1 DEF Execution, ExecPc
  <2>3. /\ delivered' \in [JobIds -> Nat]
        /\ UNCHANGED <<jobs, runs, conns, polling, dispatching, req>>
    BY <1>2 DEF rows, CoreInv, TypeOK
  <2> HIDE DEF x
  <2>4. QED
    BY <1>1, <1>2, <1>3, <2>1, <2>2, <2>3, MoveCoreInv
<1>4. CASE exec[e].pc # "finish"
  BY <1>1, <1>2, <1>4, SettleCoreInv DEF StatementFails, At
<1>5. QED
  BY <1>3, <1>4

\* A restarted process has no executions and leaves the rows as they are.
LEMMA CrashCoreInv == CoreInv /\ Crash => CoreInv'
<1> SUFFICES ASSUME CoreInv, Crash PROVE CoreInv'
  OBVIOUS
<1>1. NoExecution \in Execution /\ NoRequest \in Request
  BY DEF NoExecution, NoRequest, Execution, ExecPc, Request
<1>2. TypeOK'
  BY <1>1, CollectionAssumption DEF Crash, CoreInv, TypeOK, rows
<1>3. Busy' = {}
  BY DEF Crash, Busy, NoExecution
<1>4. CountInv'
  BY <1>3, FS_EmptySet DEF Crash, CountInv, SlotsAccounted
<1>5. WellFormed'
  BY DEF Crash, NoExecution, NoRequest, CoreInv, WellFormed,
         ExecutionWellFormed, JobWellFormed, RequestWellFormed, rows
<1>6. QED
  BY <1>2, <1>4, <1>5 DEF CoreInv

\* Every step keeps the core invariant.
LEMMA NextCoreInv == CoreInv /\ [Next]_vars => CoreInv'
<1> SUFFICES ASSUME CoreInv, [Next]_vars PROVE CoreInv'
  OBVIOUS
<1>1. CASE UNCHANGED vars
  BY <1>1 DEF vars, CoreInv, TypeOK, WellFormed, ExecutionWellFormed,
              JobWellFormed, RequestWellFormed, CountInv, SlotsAccounted, Busy
<1>2. CASE OutsideStep
  BY <1>2, OutsideCoreInv
<1>3. ASSUME NEW c \in Connections, DeleteConnection(c) PROVE CoreInv'
  BY <1>3, DeleteCoreInv
<1>4. ASSUME NEW t \in Ticks, PollFetch(t) PROVE CoreInv'
  BY <1>4, PollFetchCoreInv
<1>5. ASSUME NEW e \in Executions, Step(e) PROVE CoreInv'
  BY <1>5, StepCoreInv
<1>6. ASSUME NEW e \in Executions, StatementFails(e) PROVE CoreInv'
  BY <1>6, StatementFailsCoreInv
<1>7. CASE Crash
  BY <1>7, CrashCoreInv
<1>8. QED
  BY <1>1, <1>2, <1>3, <1>4, <1>5, <1>6, <1>7 DEF Next, OutsideStep

\* The core invariant holds in every behaviour.
LEMMA CoreInvariant == Spec => []CoreInv
<1>1. QED
  BY InitCoreInv, NextCoreInv, PTL DEF Spec

\* Every row, execution and request has the type of the schema or of the
\* handler that holds it, and the free slots of a poll are a number between 0
\* and MAX_CONCURRENT_JOBS, for every reachable state (runner/index.ts).
THEOREM TypeCorrect == Spec => []TypeOK
<1>1. CoreInv => TypeOK
  BY DEF CoreInv
<1>2. QED
  BY <1>1, CoreInvariant, PTL

\* activeJobs is the number of executions in flight after every path through
\* executeJob, retries, failed statements and crashes included: no path leaks
\* a slot (runner/index.ts, the .finally of processJobs).
THEOREM SlotsCorrect == Spec => []SlotsAccounted
<1>1. CoreInv => SlotsAccounted
  BY DEF CoreInv, CountInv
<1>2. QED
  BY <1>1, CoreInvariant, PTL
-----------------------------------------------------------------------------
(***************************************************************************)
(* The concurrency limit and one execution per job.  Neither is inductive: *)
(* the limit holds because at most one poll is between its computation of  *)
(* free slots and its query, and only it can raise the counter; a job is   *)
(* not handed out twice because between claim and the next poll no         *)
(* execution still waits to claim, and a claimed job is pending again only *)
(* when its execution is over.                                             *)
(***************************************************************************)
OnePoll == \A t, u \in Ticks : polling[t] > 0 /\ polling[u] > 0 => t = u

SlotsReserved ==
    /\ activeJobs <= MAX_CONCURRENT_JOBS
    /\ \A t \in Ticks : activeJobs + polling[t] <= MAX_CONCURRENT_JOBS

DistinctJobs == \A e, f \in Busy : exec[e].job = exec[f].job => e = f

ClaimedIsNotPending ==
    \A e \in Busy : exec[e].pc # "claim" => jobs[exec[e].job].status # "pending"

ClaimsBeforePolls ==
    \A t \in Ticks : polling[t] > 0 => \A e \in Executions : exec[e].pc # "claim"

PollInv ==
    PromptDatabase =>
        /\ OnePoll
        /\ SlotsReserved
        /\ DistinctJobs
        /\ ClaimedIsNotPending
        /\ ClaimsBeforePolls

\* Nothing is polled and nothing is executed when the process starts.
LEMMA InitPollInv == Init => PollInv
<1> SUFFICES ASSUME Init PROVE PollInv
  OBVIOUS
<1>1. Busy = {} /\ \A t \in Ticks : polling[t] = 0
  BY DEF Init, Busy, NoExecution
<1>2. QED
  BY <1>1, CollectionAssumption
  DEF Init, PollInv, OnePoll, SlotsReserved, DistinctJobs,
      ClaimedIsNotPending, ClaimsBeforePolls

\* The steps that are no execution's, except the poll's own: a pending row
\* that appears was absent before, so no execution holds it.
LEMMA QuietPollInv ==
    ASSUME CoreInv, PollInv,
           UNCHANGED <<exec, activeJobs>>,
           UNCHANGED polling \/ \E t \in Ticks : PollStart(t),
           \A j \in JobIds :
               jobs'[j].status = "pending" => jobs[j].status \in {"absent", "pending"}
    PROVE  PollInv'
<1> SUFFICES ASSUME PromptDatabase
             PROVE  OnePoll' /\ SlotsReserved' /\ DistinctJobs'
                    /\ ClaimedIsNotPending' /\ ClaimsBeforePolls'
  BY DEF PollInv
<1>1. OnePoll /\ SlotsReserved /\ DistinctJobs /\ ClaimedIsNotPending
      /\ ClaimsBeforePolls
  BY DEF PollInv
<1>2. Busy' = Busy
  BY DEF Busy
<1>3. DistinctJobs'
  BY <1>1, <1>2 DEF DistinctJobs
<1>4. ClaimedIsNotPending'
  <2>1. ASSUME NEW e \in Busy
        PROVE  exec[e].job \in JobIds /\ jobs[exec[e].job].status # "absent"
    BY DEF CoreInv, WellFormed, ExecutionWellFormed, Busy
  <2>2. QED
    BY <1>1, <1>2, <2>1 DEF ClaimedIsNotPending
<1>5. OnePoll' /\ SlotsReserved' /\ ClaimsBeforePolls'
  <2>1. CASE UNCHANGED polling
    BY <1>1, <2>1 DEF OnePoll, SlotsReserved, ClaimsBeforePolls
  <2>2. ASSUME NEW t \in Ticks, PollStart(t)
        PROVE  OnePoll' /\ SlotsReserved' /\ ClaimsBeforePolls'
    <3>1. /\ \A u \in Ticks : polling[u] = 0
          /\ \A e \in Executions : exec[e].pc # "claim"
          /\ polling' = [polling EXCEPT ![t] = MAX_CONCURRENT_JOBS - activeJobs]
          /\ activeJobs < MAX_CONCURRENT_JOBS
      BY <2>2 DEF PollStart
    <3>2. \A u \in Ticks :
            polling'[u] = IF u = t THEN MAX_CONCURRENT_JOBS - activeJobs ELSE 0
      BY <3>1 DEF CoreInv, TypeOK
    <3>3. activeJobs \in Int /\ MAX_CONCURRENT_JOBS \in Nat
      BY CollectionAssumption DEF CoreInv, TypeOK
    <3>4. OnePoll' /\ ClaimsBeforePolls'
      BY <3>1, <3>2 DEF OnePoll, ClaimsBeforePolls
    <3>5. SlotsReserved'
      BY <3>1, <3>2, <3>3 DEF SlotsReserved
    <3>6. QED
      BY <3>4, <3>5
  <2>3. QED
    BY <2>1, <2>2
<1>6. QED
  BY <1>3, <1>4, <1>5

\* Steps outside the runner keep the poll invariant.
LEMMA OutsidePollInv == CoreInv /\ PollInv /\ OutsideStep => PollInv'
<1> SUFFICES ASSUME CoreInv, PollInv, OutsideStep PROVE PollInv'
  OBVIOUS
<1>1. UNCHANGED <<exec, activeJobs>>
  BY DEF OutsideStep, CreateConnection, DueAgain, TestConnection, SetActive,
         SchedulerCreate, SchedulerAbort, SchedulerRead, TriggerRead,
         RunCheckRead, ManualCreate, CancelRead, CancelWrite, PollStart,
         BackoffElapses, runner
<1>2. UNCHANGED polling \/ \E t \in Ticks : PollStart(t)
  BY DEF OutsideStep, CreateConnection, DueAgain, TestConnection, SetActive,
         SchedulerCreate, SchedulerAbort, SchedulerRead, TriggerRead,
         RunCheckRead, ManualCreate, CancelRead, CancelWrite, BackoffElapses
<1>3. \/ UNCHANGED jobs
      \/ \E j \in JobIds : \E c, p : CreateJob(j, c, p)
      \/ \E r \in Requests : CancelWrite(r)
      \/ \E j \in JobIds : BackoffElapses(j)
  BY DEF OutsideStep, CreateConnection, DueAgain, TestConnection, SetActive,
         SchedulerCreate, SchedulerAbort, SchedulerRead, TriggerRead,
         RunCheckRead, ManualCreate, CancelRead, PollStart, rows
<1>4. \A j \in JobIds :
        jobs'[j].status = "pending" => jobs[j].status \in {"absent", "pending"}
  <2>1. jobs \in [JobIds -> Job]
    BY DEF CoreInv, TypeOK
  <2>2. ASSUME NEW j \in JobIds, NEW c, NEW p, CreateJob(j, c, p),
               NEW k \in JobIds, jobs'[k].status = "pending"
        PROVE  jobs[k].status \in {"absent", "pending"}
    BY <2>1, <2>2 DEF CreateJob
  <2>3. ASSUME NEW r \in Requests, CancelWrite(r),
               NEW k \in JobIds, jobs'[k].status = "pending"
        PROVE  jobs[k].status \in {"absent", "pending"}
    <3>1. \/ UNCHANGED jobs
          \/ jobs' = [jobs EXCEPT ![req[r].job].status = "cancelled"]
      BY <2>3 DEF CancelWrite
    <3>2. QED
      BY <2>1, <2>3, <3>1 DEF Job
  <2>4. ASSUME NEW j \in JobIds, BackoffElapses(j),
               NEW k \in JobIds, jobs'[k].status = "pending"
        PROVE  jobs[k].status \in {"absent", "pending"}
    BY <2>1, <2>4 DEF BackoffElapses, Job
  <2>5. QED
    BY <1>3, <2>2, <2>3, <2>4
<1>5. QED
  BY <1>1, <1>2, <1>4, QuietPollInv

\* Deleting a connection keeps the poll invariant: its jobs only disappear.
LEMMA DeletePollInv ==
    ASSUME CoreInv, PollInv, NEW c \in Connections, DeleteConnection(c)
    PROVE  PollInv'
<1>1. \A j \in JobIds :
        jobs'[j] = jobs[j] \/ jobs'[j] = [jobs[j] EXCEPT !.status = "deleted"]
  BY DEF DeleteConnection
<1>2. \A j \in JobIds : jobs[j] \in Job
  BY DEF CoreInv, TypeOK
<1>3. \A j \in JobIds : jobs'[j].status = "pending" => jobs[j].status = "pending"
  BY <1>1, <1>2 DEF Job
<1>4. QED
  BY <1>3, QuietPollInv DEF DeleteConnection, runner

\* The jobs a poll hands out are in no other execution's hands: all the
\* others are past their claim, so their jobs are not pending.
LEMMA PollFetchPollInv ==
    ASSUME CoreInv, PollInv, NEW t \in Ticks, PollFetch(t)
    PROVE  PollInv'
<1> SUFFICES ASSUME PromptDatabase
             PROVE  OnePoll' /\ SlotsReserved' /\ DistinctJobs'
                    /\ ClaimedIsNotPending' /\ ClaimsBeforePolls'
  BY DEF PollInv
<1>1. OnePoll /\ SlotsReserved /\ DistinctJobs /\ ClaimedIsNotPending
      /\ ClaimsBeforePolls
  BY DEF PollInv
<1>2. PICK b \in SUBSET JobIds :
        /\ IsFiniteSet(b)
        /\ Cardinality(b) <= polling[t]
        /\ \A j \in b : jobs[j].status = "pending"
        /\ activeJobs' = activeJobs + Cardinality(b)
        /\ \A e \in Executions :
             \/ exec'[e] = exec[e]
             \/ e \notin Busy /\ exec'[e].pc = "claim" /\ exec'[e].job \in b
        /\ \A e, f \in Executions :
             /\ exec'[e] # exec[e]
             /\ exec'[f] # exec[f]
             /\ exec'[e].job = exec'[f].job
             => e = f
  BY PollFetchEffect
<1>3. /\ polling[t] > 0
      /\ polling \in [Ticks -> 0..MAX_CONCURRENT_JOBS]
      /\ polling' = [polling EXCEPT ![t] = 0]
      /\ UNCHANGED jobs
  BY DEF PollFetch, rows, CoreInv, TypeOK
<1>4. \A e \in Executions : exec[e].pc # "claim"
  BY <1>1, <1>3 DEF ClaimsBeforePolls
<1>5. \A u \in Ticks : polling'[u] = 0
  BY <1>1, <1>3 DEF OnePoll
<1>6. OnePoll' /\ ClaimsBeforePolls'
  BY <1>5 DEF OnePoll, ClaimsBeforePolls
<1>7. SlotsReserved'
  <2>1. /\ Cardinality(b) \in Nat /\ activeJobs \in Int
        /\ MAX_CONCURRENT_JOBS \in Nat /\ polling[t] \in Nat
    BY <1>2, <1>3, FS_CardinalityType, CollectionAssumption DEF CoreInv, TypeOK
  <2>2. activeJobs + polling[t] <= MAX_CONCURRENT_JOBS
    BY <1>1 DEF SlotsReserved
  <2>3. activeJobs' <= MAX_CONCURRENT_JOBS
    BY <1>2, <2>1, <2>2
  <2>4. QED
    BY <1>2, <1>5, <2>1, <2>3 DEF SlotsReserved
<1>8. \A e \in Busy : jobs[exec[e].job].status # "pending"
  BY <1>1, <1>4 DEF ClaimedIsNotPending, Busy
<1>9. ASSUME NEW e \in Busy'
      PROVE  \/ e \in Busy /\ exec'[e] = exec[e]
             \/ /\ exec'[e] # exec[e]
                /\ exec'[e].pc = "claim"
                /\ exec'[e].job \in b
  BY <1>2 DEF Busy
<1>10. DistinctJobs'
  <2> SUFFICES ASSUME NEW e \in Busy', NEW f \in Busy',
                      exec'[e].job = exec'[f].job
               PROVE  e = f
    BY DEF DistinctJobs
  <2>1. e \in Executions /\ f \in Executions
    BY DEF Busy
  <2>2. CASE exec'[e] = exec[e] /\ exec'[f] = exec[f]
    BY <1>1, <1>9, <2>2 DEF DistinctJobs
  <2>3. CASE exec'[e] # exec[e] /\ exec'[f] # exec[f]
    BY <1>2, <2>1, <2>3
  <2>4. CASE exec'[e] = exec[e] /\ exec'[f] # exec[f]
    BY <1>2, <1>8, <1>9, <2>4
  <2>5. CASE exec'[e] # exec[e] /\ exec'[f] = exec[f]
    BY <1>2, <1>8, <1>9, <2>5
  <2>6. QED
    BY <2>2, <2>3, <2>4, <2>5
<1>11. ClaimedIsNotPending'
  BY <1>3, <1>8, <1>9 DEF ClaimedIsNotPending
<1>12. QED
  BY <1>6, <1>7, <1>10, <1>11

\* What a step of an execution may do to its own job, its slot and the rest.
LEMMA StepEffect ==
    ASSUME CoreInv, NEW e \in Executions, Step(e) \/ StatementFails(e)
    PROVE  /\ e \in Busy
           /\ \A f \in Executions \ {e} : exec'[f] = exec[f]
           /\ exec'[e].pc # "idle" =>
                exec'[e].pc # "claim" /\ exec'[e].job = exec[e].job
           /\ \A j \in JobIds \ {JobOf(e)} : jobs'[j] = jobs[j]
           /\ exec'[e].pc # "idle" /\ exec[e].pc = "claim" =>
                jobs'[JobOf(e)].status = "running"
           /\ exec'[e].pc # "idle" /\ jobs'[JobOf(e)].status = "pending" =>
                jobs[JobOf(e)].status = "pending"
           /\ activeJobs' <= activeJobs
           /\ UNCHANGED polling
<1>1. e \in Busy
  BY DEF Step, Claim, LookupRun, RecordRun, Collect, Submit, Finish,
         MarkHealthy, Unwind, MarkFailing, RecordRetry, Requeue, GiveUp,
         StatementFails, At, Busy
<1>2. JobOf(e) \in JobIds /\ exec[e] \in Execution
  BY <1>1, ExecutionFacts DEF Busy
<1>3. jobs \in [JobIds -> Job] /\ activeJobs \in Int
      /\ exec \in [Executions -> Execution]
  BY DEF CoreInv, TypeOK
<1>4. UNCHANGED polling
  BY DEF Step, Claim, LookupRun, RecordRun, Collect, Submit, Finish,
         MarkHealthy, Unwind, MarkFailing, RecordRetry, Requeue, GiveUp,
         StatementFails
<1>5. activeJobs' <= activeJobs
  <2>1. activeJobs' = activeJobs \/ activeJobs' = activeJobs - 1
    BY DEF Step, Claim, LookupRun, RecordRun, Collect, Submit, Finish,
           MarkHealthy, Unwind, MarkFailing, RecordRetry, Requeue, GiveUp,
           StatementFails, Release
  <2>2. QED
    BY <1>3, <2>1
<1>6. \/ UNCHANGED jobs /\ exec[e].pc # "claim"
      \/ UNCHANGED jobs /\ Release(e)
      \/ /\ exec' = [exec EXCEPT ![e].pc = "lookup"]
         /\ jobs' = [jobs EXCEPT ![JobOf(e)].status = "running"]
      \/ /\ jobs' = [jobs EXCEPT ![JobOf(e)].status = "completed"]
         /\ exec[e].pc # "claim"
      \/ /\ jobs' = [jobs EXCEPT ![JobOf(e)].status = "pending",
                                 ![JobOf(e)].ready = FALSE]
         /\ Release(e)
      \/ /\ jobs' = [jobs EXCEPT ![JobOf(e)].status = "failed"]
         /\ Release(e)
  BY DEF Step, Claim, LookupRun, RecordRun, Collect, Submit, Finish,
         MarkHealthy, Unwind, MarkFailing, RecordRetry, Requeue, GiveUp,
         StatementFails, At, Goto, rows
<1>7. \A j \in JobIds \ {JobOf(e)} : jobs'[j] = jobs[j]
  BY <1>2, <1>3, <1>6
<1>8. \A f \in Executions \ {e} : exec'[f] = exec[f]
  <2>1. \E x : exec' = [exec EXCEPT ![e] = x]
    BY DEF Step, Claim, LookupRun, RecordRun, Collect, Submit, Finish,
           MarkHealthy, Unwind, MarkFailing, RecordRetry, Requeue, GiveUp,
           StatementFails, Goto, Release
  <2>2. QED
    BY <1>3, <2>1
<1>9. Release(e) => exec'[e].pc = "idle"
  BY <1>3 DEF Release, NoExecution
<1>10. exec'[e].pc # "idle" /\ exec[e].pc = "claim" =>
         jobs'[JobOf(e)].status = "running"
  BY <1>2, <1>3, <1>6, <1>9 DEF Job
<1>11. exec'[e].pc # "idle" /\ jobs'[JobOf(e)].status = "pending" =>
         jobs[JobOf(e)].status = "pending"
  BY <1>2, <1>3, <1>6, <1>9 DEF Job
<1>12. exec'[e].pc # "idle" =>
         exec'[e].pc # "claim" /\ exec'[e].job = exec[e].job
  <2>1. CASE Release(e)
    BY <1>9, <2>1
  <2>3. CASE \E pc \in ExecPc \ {"claim"} : exec' = [exec EXCEPT ![e].pc = pc]
    BY <1>2, <1>3, <2>3 DEF Execution
  <2>4. CASE \E pc \in ExecPc \ {"claim"} : \E n :
               exec' = [exec EXCEPT ![e].number = n, ![e].pc = pc]
    BY <1>2, <1>3, <2>4 DEF Execution
  <2>5. CASE \E pc \in ExecPc \ {"claim"} : \E n :
               exec' = [exec EXCEPT ![e].run = n, ![e].pc = pc]
    BY <1>2, <1>3, <2>5 DEF Execution
  <2>6. CASE \E pc \in ExecPc \ {"claim"} : \E n :
               exec' = [exec EXCEPT ![e].retry = n, ![e].pc = pc]
    BY <1>2, <1>3, <2>6 DEF Execution
  <2>7. \/ Release(e)
        \/ \E pc \in ExecPc \ {"claim"} : exec' = [exec EXCEPT ![e].pc = pc]
        \/ \E pc \in ExecPc \ {"claim"} : \E n :
             \/ exec' = [exec EXCEPT ![e].number = n, ![e].pc = pc]
             \/ exec' = [exec EXCEPT ![e].run = n, ![e].pc = pc]
             \/ exec' = [exec EXCEPT ![e].retry = n, ![e].pc = pc]
    <3>1. {"lookup", "record", "collect", "submit", "finish", "healthy",
           "unwind", "failing", "retryRow", "requeue", "giveUp"}
             = ExecPc \ {"idle", "claim"}
      BY DEF ExecPc
    <3>2. QED
      BY <3>1 DEF Step, Claim, LookupRun, RecordRun, Collect, Submit, Finish,
           MarkHealthy, Unwind, MarkFailing, RecordRetry, Requeue, GiveUp,
           StatementFails, Goto
  <2>8. QED
    BY <2>1, <2>3, <2>4, <2>5, <2>6, <2>7
<1>13. QED
  BY <1>1, <1>4, <1>5, <1>7, <1>8, <1>10, <1>11, <1>12

\* No step of an execution hands its job to another one: the job is pending
\* again only once the execution is over.
LEMMA StepPollInv ==
    ASSUME CoreInv, PollInv, NEW e \in Executions, Step(e) \/ StatementFails(e)
    PROVE  PollInv'
<1> SUFFICES ASSUME PromptDatabase
             PROVE  OnePoll' /\ SlotsReserved' /\ DistinctJobs'
                    /\ ClaimedIsNotPending' /\ ClaimsBeforePolls'
  BY DEF PollInv
<1>1. OnePoll /\ SlotsReserved /\ DistinctJobs /\ ClaimedIsNotPending
      /\ ClaimsBeforePolls
  BY DEF PollInv
<1>2. /\ e \in Busy
      /\ \A f \in Executions \ {e} : exec'[f] = exec[f]
      /\ exec'[e].pc # "idle" =>
           exec'[e].pc # "claim" /\ exec'[e].job = exec[e].job
      /\ \A j \in JobIds \ {JobOf(e)} : jobs'[j] = jobs[j]
      /\ exec'[e].pc # "idle" /\ exec[e].pc = "claim" =>
           jobs'[JobOf(e)].status = "running"
      /\ exec'[e].pc # "idle" /\ jobs'[JobOf(e)].status = "pending" =>
           jobs[JobOf(e)].status = "pending"
      /\ activeJobs' <= activeJobs
      /\ UNCHANGED polling
  BY StepEffect
<1>3. /\ \A f \in Busy' : f \in Busy /\ exec'[f].job = exec[f].job
      /\ \A f \in Busy : exec[f].job \in JobIds
  BY <1>2 DEF Busy, CoreInv, WellFormed, ExecutionWellFormed
<1>4. DistinctJobs'
  BY <1>1, <1>3 DEF DistinctJobs
<1>5. OnePoll'
  BY <1>1, <1>2 DEF OnePoll
<1>6. SlotsReserved'
  <2>1. activeJobs \in Int /\ activeJobs' \in Int
    <3>1. CoreInv'
      BY StepCoreInv, StatementFailsCoreInv
    <3>2. QED
      BY <3>1 DEF CoreInv, TypeOK
  <2>2. MAX_CONCURRENT_JOBS \in Nat /\ \A t \in Ticks : polling[t] \in Nat
    BY CollectionAssumption DEF CoreInv, TypeOK
  <2>3. QED
    BY <1>1, <1>2, <2>1, <2>2 DEF SlotsReserved
<1>7. ClaimsBeforePolls'
  BY <1>1, <1>2 DEF ClaimsBeforePolls, Busy
<1>8. ClaimedIsNotPending'
  <2> SUFFICES ASSUME NEW f \in Busy', exec'[f].pc # "claim"
               PROVE  jobs'[exec'[f].job].status # "pending"
    BY DEF ClaimedIsNotPending
  <2>1. CASE f = e
    BY <1>1, <1>2, <2>1 DEF ClaimedIsNotPending, Busy, JobOf
  <2>2. CASE f # e
    <3>1. f \in Busy /\ exec'[f] = exec[f] /\ exec[f].job \in JobIds
      BY <1>2, <1>3, <2>2 DEF Busy
    <3>2. exec[f].job # JobOf(e)
      BY <1>1, <1>2, <2>2, <3>1 DEF DistinctJobs, JobOf
    <3>3. QED
      BY <1>1, <1>2, <3>1, <3>2 DEF ClaimedIsNotPending
  <2>3. QED
    BY <2>1, <2>2
<1>9. QED
  BY <1>4, <1>5, <1>6, <1>7, <1>8

\* After a crash there is neither a poll nor an execution.
LEMMA CrashPollInv == CoreInv /\ Crash => PollInv'
<1> SUFFICES ASSUME CoreInv, Crash PROVE PollInv'
  OBVIOUS
<1>1. /\ Busy' = {}
      /\ \A t \in Ticks : polling'[t] = 0
      /\ activeJobs' = 0
  BY DEF Crash, Busy, NoExecution
<1>2. QED
  BY <1>1, CollectionAssumption
  DEF PollInv, OnePoll, SlotsReserved, DistinctJobs, ClaimedIsNotPending,
      ClaimsBeforePolls

\* Every step keeps the poll invariant.
LEMMA NextPollInv == CoreInv /\ PollInv /\ [Next]_vars => PollInv'
<1> SUFFICES ASSUME CoreInv, PollInv, [Next]_vars PROVE PollInv'
  OBVIOUS
<1>1. CASE UNCHANGED vars
  BY <1>1 DEF vars, PollInv, OnePoll, SlotsReserved, DistinctJobs,
              ClaimedIsNotPending, ClaimsBeforePolls, Busy
<1>2. CASE OutsideStep
  BY <1>2, OutsidePollInv
<1>3. ASSUME NEW c \in Connections, DeleteConnection(c) PROVE PollInv'
  BY <1>3, DeletePollInv
<1>4. ASSUME NEW t \in Ticks, PollFetch(t) PROVE PollInv'
  BY <1>4, PollFetchPollInv
<1>5. ASSUME NEW e \in Executions, Step(e) \/ StatementFails(e) PROVE PollInv'
  BY <1>5, StepPollInv
<1>6. CASE Crash
  BY <1>6, CrashPollInv
<1>7. QED
  BY <1>1, <1>2, <1>3, <1>4, <1>5, <1>6 DEF Next, OutsideStep

\* The poll invariant holds in every behaviour.
LEMMA PollInvariant == Spec => []PollInv
<1>1. CoreInv /\ PollInv /\ [Next]_vars => CoreInv' /\ PollInv'
  BY NextCoreInv, NextPollInv
<1>2. QED
  BY <1>1, InitCoreInv, InitPollInv, PTL DEF Spec

\* The runner never has more than MAX_CONCURRENT_JOBS executions in flight,
\* although it reads its counter before it waits for the query that fills the
\* slots (runner/index.ts, processJobs), as long as polls do not overlap.
THEOREM LimitRespected == Spec => []WithinConcurrencyLimit
<1>1. PollInv => WithinConcurrencyLimit
  BY DEF PollInv, SlotsReserved, WithinConcurrencyLimit
<1>2. QED
  BY <1>1, PollInvariant, PTL

\* No job is ever in the hands of two executions, although the claim of a job
\* is an unconditional update (runner/index.ts, executeJob), for any number of
\* jobs, executions, cancellations, deletions, failures and crashes.
THEOREM OneExecution == Spec => []OneExecutionPerJob
<1>1. PollInv => OneExecutionPerJob
  BY DEF PollInv, DistinctJobs, OneExecutionPerJob
<1>2. QED
  BY <1>1, PollInvariant, PTL
-----------------------------------------------------------------------------
(***************************************************************************)
(* Histories: the run rows of a job, the status of its row and what the    *)
(* execution that holds it remembers agree at every statement.             *)
(***************************************************************************)

\* The runs of a job are numbered from 1 and only the last may not be failed.
Numbered(j) ==
    \A i \in 1..Len(runs[j]) :
        /\ runs[j][i].number = i
        /\ i < Len(runs[j]) => runs[j][i].status = "failed"

\* The job has no run that is open or completed.
Closed(j) == \A i \in 1..Len(runs[j]) : runs[j][i].status = "failed"

\* The last run of the job has the status.
LastIs(j, status) ==
    Len(runs[j]) > 0 /\ runs[j][Len(runs[j])].status = status

\* What the status of a job row says of its runs.
JobHistory(j) ==
    /\ Numbered(j)
    /\ jobs[j].status = "absent" => runs[j] = <<>>
    /\ jobs[j].status = "pending" => Closed(j)
    /\ jobs[j].status \in {"completed", "failed"} => LastIs(j, jobs[j].status)

\* What an execution knows of its job, by the statement it waits for: only a
\* cancellation changes the status of the row behind its back.
ExecutionHistory(e) ==
    LET j == exec[e].job
        StatusIs(status) == jobs[j].status \in {status, "cancelled"}
        pc == exec[e].pc
    IN  jobs[j].status # "deleted" =>
        /\ pc = "claim" => StatusIs("pending") /\ Closed(j)
        /\ pc \in {"lookup", "record"} => StatusIs("running") /\ Closed(j)
        /\ pc = "record" => exec[e].number = Len(runs[j])
        /\ pc \in {"collect", "submit", "finish", "unwind"} =>
             StatusIs("running") /\ LastIs(j, "running")
        /\ pc \in {"failing", "retryRow", "requeue", "giveUp"} =>
             StatusIs("running") /\ LastIs(j, "failed")
        /\ pc = "healthy" => StatusIs("completed") /\ LastIs(j, "completed")
        /\ pc \notin {"claim", "lookup", "record"} => exec[e].run = Len(runs[j])

HistoryInv ==
    PromptDatabase =>
        /\ \A j \in JobIds : JobHistory(j)
        /\ \A e \in Busy : ExecutionHistory(e)

\* While nothing failed, an execution holds every running job, and is neither
\* about to claim it nor done with it.
OwnedInv ==
    faults = 0 =>
        \A j \in JobIds : jobs[j].status = "running" =>
            \E e \in Busy : exec[e].job = j /\ exec[e].pc \notin {"claim", "healthy"}

\* The execution of a job has not submitted in this attempt, or it did not
\* come to that: it goes on to retry.
Unsent(e) ==
    \/ exec[e].pc \in {"claim", "lookup", "record", "collect", "submit"}
    \/ /\ exec[e].pc \notin {"finish", "healthy"}
       /\ jobs[exec[e].job].status # "deleted"

\* What was stored of a job that waits, or whose execution has not submitted,
\* failures account for.
DeliveryInv ==
    PromptDatabase =>
        /\ \A j \in JobIds :
             /\ delivered[j] <= 1 + faults
             /\ jobs[j].status \in {"absent", "pending"} => delivered[j] <= faults
        /\ \A e \in Busy : Unsent(e) => delivered[exec[e].job] <= faults

\* The number a lookup returns is the length of the job's history.
LEMMA LastRunNumber ==
    ASSUME NEW j \in JobIds, runs[j] \in Seq(Run), Numbered(j), NEW n,
           IsLastRunNumber(j, n)
    PROVE  n = Len(runs[j])
<1>1. /\ Len(runs[j]) \in Nat
      /\ DOMAIN runs[j] = 1..Len(runs[j])
  BY LenProperties
<1> DEFINE numbers == {runs[j][i].number : i \in DOMAIN runs[j]}
<1>2. numbers = 1..Len(runs[j])
  BY <1>1 DEF Numbered
<1>3. /\ n \in numbers \/ (numbers = {} /\ n = 0)
      /\ \A m \in numbers : m <= n
  BY DEF IsLastRunNumber
<1> HIDE DEF numbers
<1>4. CASE Len(runs[j]) = 0
  BY <1>2, <1>3, <1>4
<1>5. CASE Len(runs[j]) # 0
  <2>1. Len(runs[j]) \in numbers
    BY <1>1, <1>2, <1>5
  <2>2. n \in numbers /\ Len(runs[j]) <= n
    BY <1>3, <2>1
  <2>3. n \in 1..Len(runs[j])
    BY <1>2, <2>2
  <2>4. QED
    BY <1>1, <2>2, <2>3
<1>6. QED
  BY <1>4, <1>5

\* A step of an execution writes the rows of its own job only.
LEMMA StepRows ==
    ASSUME CoreInv, NEW e \in Executions, Step(e) \/ StatementFails(e),
           NEW k \in JobIds, k # exec[e].job
    PROVE  runs'[k] = runs[k] /\ delivered'[k] = delivered[k]
<1>1. runs \in [JobIds -> Seq(Run)] /\ delivered \in [JobIds -> Nat]
  BY DEF CoreInv, TypeOK
<1>2. UNCHANGED runs \/ \E s : runs' = [runs EXCEPT ![exec[e].job] = s]
  BY DEF Step, Claim, LookupRun, RecordRun, Collect, Submit, Finish,
         MarkHealthy, Unwind, MarkFailing, RecordRetry, Requeue, GiveUp,
         StatementFails, JobOf, rows
<1>3. UNCHANGED delivered \/ \E n : delivered' = [delivered EXCEPT ![exec[e].job] = n]
  BY DEF Step, Claim, LookupRun, RecordRun, Collect, Submit, Finish,
         MarkHealthy, Unwind, MarkFailing, RecordRetry, Requeue, GiveUp,
         StatementFails, JobOf, rows
<1>4. QED
  BY <1>1, <1>2, <1>3

\* The histories of the other jobs, and what the other executions know of
\* them, survive the step: no two executions hold the same job.
LEMMA OthersHistory ==
    ASSUME CoreInv, PollInv, HistoryInv, PromptDatabase,
           NEW e \in Executions, Step(e) \/ StatementFails(e),
           NEW j \in JobIds, j = exec[e].job,
           JobHistory(j)', e \in Busy' => ExecutionHistory(e)'
    PROVE  HistoryInv'
<1>1. /\ e \in Busy
      /\ \A f \in Executions \ {e} : exec'[f] = exec[f]
      /\ \A k \in JobIds \ {j} : jobs'[k] = jobs[k] /\ runs'[k] = runs[k]
  BY StepEffect, StepRows DEF JobOf
<1>2. \A k \in JobIds : JobHistory(k)'
  BY <1>1 DEF HistoryInv, JobHistory, Numbered, Closed, LastIs
<1>3. ASSUME NEW f \in Busy', f # e PROVE ExecutionHistory(f)'
  <2>1. f \in Busy /\ exec'[f] = exec[f]
    BY <1>1, <1>3 DEF Busy
  <2>2. exec[f].job \in JobIds
    BY <2>1 DEF Busy, CoreInv, WellFormed, ExecutionWellFormed
  <2>3. exec[f].job # j
    BY <1>1, <1>3, <2>1 DEF PollInv, DistinctJobs
  <2>4. jobs'[exec[f].job] = jobs[exec[f].job] /\ runs'[exec[f].job] = runs[exec[f].job]
    BY <1>1, <2>2, <2>3
  <2>5. ExecutionHistory(f)
    BY <2>1 DEF HistoryInv
  <2>6. QED
    BY <2>1, <2>4, <2>5 DEF ExecutionHistory, Closed, LastIs
<1>4. QED
  BY <1>2, <1>3 DEF HistoryInv

\* Rewriting the status or the retries of the last run keeps the numbering.
LEMMA LastRewritten ==
    ASSUME NEW j \in JobIds, Len(runs[j]) \in Nat, Numbered(j),
           Len(runs'[j]) = Len(runs[j]),
           \A i \in 1..Len(runs[j]) :
              /\ runs'[j][i].number = runs[j][i].number
              /\ i # Len(runs[j]) => runs'[j][i] = runs[j][i]
    PROVE  Numbered(j)'
<1> SUFFICES ASSUME NEW i \in 1..Len(runs[j])
             PROVE  /\ runs'[j][i].number = i
                    /\ i < Len(runs[j]) => runs'[j][i].status = "failed"
  BY DEF Numbered
<1>1. CASE i = Len(runs[j])
  BY <1>1 DEF Numbered
<1>2. CASE i # Len(runs[j])
  BY <1>2 DEF Numbered
<1>3. QED
  BY <1>1, <1>2

\* Each step of an execution leaves the history of its job in order.
LEMMA StepHistory ==
    ASSUME CoreInv, HistoryInv, PromptDatabase,
           NEW e \in Executions, Step(e) \/ StatementFails(e),
           NEW j \in JobIds, j = exec[e].job
    PROVE  JobHistory(j)' /\ (e \in Busy' => ExecutionHistory(e)')
<1>1. /\ exec[e] \in Execution /\ jobs[j] \in Job
      /\ runs[j] \in Seq(Run) /\ Len(runs[j]) \in Nat
      /\ e \in Busy
      /\ jobs[j].status # "absent"
  <2>1. exec[e].pc # "idle"
    BY DEF Step, Claim, LookupRun, RecordRun, Collect, Submit, Finish,
           MarkHealthy, Unwind, MarkFailing, RecordRetry, Requeue, GiveUp,
           StatementFails, At
  <2>2. QED
    BY <2>1, ExecutionFacts DEF JobOf, Busy
<1>2. /\ jobs \in [JobIds -> Job] /\ runs \in [JobIds -> Seq(Run)]
      /\ exec \in [Executions -> Execution]
  BY DEF CoreInv, TypeOK
<1>3. JobHistory(j) /\ ExecutionHistory(e)
  BY <1>1 DEF HistoryInv
<1>4. ASSUME Release(e) PROVE e \notin Busy'
  BY <1>2, <1>4 DEF Release, Busy, NoExecution
<1>5. CASE Claim(e)
  <2>1. /\ jobs'[j].status = "running" /\ runs'[j] = runs[j]
        /\ exec'[e].pc = "lookup" /\ exec'[e].job = j
    BY <1>1, <1>2, <1>5 DEF Claim, Goto, JobOf, Job, Execution
  <2>2. Closed(j) /\ Numbered(j)
    BY <1>3, <1>5 DEF Claim, At, RowGone, JobOf, ExecutionHistory, JobHistory
  <2>3. QED
    BY <2>1, <2>2 DEF JobHistory, ExecutionHistory, Numbered, Closed
<1>6. CASE LookupRun(e)
  <2>1. PICK n : /\ IsLastRunNumber(j, n)
                 /\ exec' = [exec EXCEPT ![e].number = n, ![e].pc = "record"]
    <3>1. \E n : /\ IsLastRunNumber(JobOf(e), n)
                 /\ exec' = [exec EXCEPT ![e].number = n, ![e].pc = "record"]
      BY <1>6 DEF LookupRun
    <3>2. QED
      BY <3>1 DEF JobOf
  <2>2. UNCHANGED <<jobs, runs>> /\ exec[e].pc = "lookup"
    BY <1>6 DEF LookupRun, rows, At
  <2>3. exec'[e].pc = "record" /\ exec'[e].job = j /\ exec'[e].number = n
    BY <1>1, <1>2, <2>1 DEF Execution
  <2>4. n = Len(runs[j])
    BY <1>1, <1>3, <2>1, LastRunNumber DEF JobHistory
  <2>5. JobHistory(j)'
    BY <1>3, <2>2 DEF JobHistory, Numbered, Closed, LastIs
  <2>6. QED
    BY <1>3, <2>2, <2>3, <2>4, <2>5 DEF ExecutionHistory, Closed
<1>7. CASE RecordRun(e)
  <2> DEFINE new == [number |-> exec[e].number + 1, status |-> "running",
                     retries |-> 0]
  <2>1. /\ runs'[j] = Append(runs[j], new)
        /\ jobs'[j] = jobs[j]
        /\ jobs[j].status # "deleted"
        /\ exec[e].pc = "record"
        /\ exec'[e].pc = "collect" /\ exec'[e].job = j
        /\ exec'[e].run = Len(runs[j]) + 1
    BY <1>1, <1>2, <1>7 DEF RecordRun, JobOf, RowGone, At, Execution
  <2>2. /\ exec[e].number = Len(runs[j]) /\ Closed(j)
        /\ jobs[j].status \in {"running", "cancelled"}
    BY <1>3, <2>1 DEF ExecutionHistory
  <2>3. new \in Run
    BY <1>1 DEF Run, Execution
  <2>4. /\ Len(runs'[j]) = Len(runs[j]) + 1
        /\ \A i \in 1..Len(runs[j]) : runs'[j][i] = runs[j][i]
        /\ runs'[j][Len(runs[j]) + 1] = new
    BY <1>1, <2>1, <2>3, AppendProperties
  <2>5. Numbered(j)'
    <3> SUFFICES ASSUME NEW i \in 1..(Len(runs[j]) + 1)
                 PROVE  /\ runs'[j][i].number = i
                        /\ i < Len(runs[j]) + 1 => runs'[j][i].status = "failed"
      BY <2>4 DEF Numbered
    <3>1. CASE i = Len(runs[j]) + 1
      BY <1>1, <2>2, <2>4, <3>1
    <3>2. CASE i # Len(runs[j]) + 1
      <4>1. i \in 1..Len(runs[j])
        BY <1>1, <3>2
      <4>2. QED
        BY <1>3, <2>2, <2>4, <4>1 DEF JobHistory, Numbered, Closed
    <3>3. QED
      BY <3>1, <3>2
  <2>6. LastIs(j, "running")'
    BY <1>1, <2>4 DEF LastIs
  <2>7. QED
    BY <2>1, <2>2, <2>4, <2>5, <2>6 DEF JobHistory, ExecutionHistory
<1>8. CASE Collect(e) \/ Submit(e) \/ MarkFailing(e)
  <2>1. UNCHANGED <<jobs, runs>>
    BY <1>8 DEF Collect, Submit, MarkFailing, rows
  <2>2. /\ exec'[e].job = j /\ exec'[e].run = exec[e].run
        /\ \/ /\ exec[e].pc \in {"collect", "submit"}
              /\ exec'[e].pc \in {"submit", "finish", "unwind"}
           \/ /\ exec[e].pc = "failing"
              /\ exec'[e].pc \in {"retryRow", "giveUp"}
    BY <1>1, <1>2, <1>8 DEF Collect, Submit, MarkFailing, Goto, At, Execution
  <2>3. JobHistory(j)'
    BY <1>3, <2>1 DEF JobHistory, Numbered, Closed, LastIs
  <2>4. QED
    BY <1>3, <2>1, <2>2, <2>3 DEF ExecutionHistory, LastIs
<1>9. CASE Finish(e)
  <2>1. /\ exec[e].pc = "finish" /\ jobs[j].status # "deleted"
        /\ jobs'[j].status = "completed"
        /\ runs'[j] = [runs[j] EXCEPT ![exec[e].run].status = "completed"]
        /\ \/ /\ exec'[e].job = j /\ exec'[e].run = exec[e].run
              /\ exec'[e].pc = "healthy"
           \/ e \notin Busy'
    BY <1>1, <1>2, <1>4, <1>9 DEF Finish, JobOf, RowGone, At, Goto, Job, Execution
  <2>2. exec[e].run = Len(runs[j]) /\ Len(runs[j]) \in 1..Len(runs[j])
    BY <1>1, <1>3, <2>1 DEF ExecutionHistory, LastIs
  <2>3. /\ Len(runs'[j]) = Len(runs[j])
        /\ \A i \in 1..Len(runs[j]) :
             runs'[j][i] = IF i = Len(runs[j])
                           THEN [runs[j][i] EXCEPT !.status = "completed"]
                           ELSE runs[j][i]
    <3> DEFINE n == Len(runs[j])
               s == [runs[j] EXCEPT ![n].status = "completed"]
    <3>1. runs'[j] = s
      BY <2>1, <2>2
    <3>2. /\ Len(s) = Len(runs[j])
          /\ \A i \in 1..Len(runs[j]) :
               s[i] = IF i = n THEN [runs[j][n] EXCEPT !.status = "completed"]
                      ELSE runs[j][i]
      <4>1. runs[j] \in Seq(Run) /\ n \in 1..Len(runs[j])
        BY <1>1, <2>2
      <4>2. QED
        BY <4>1, RunStatusUpdate
    <3>3. QED
      BY <3>1, <3>2
  <2>4. \A i \in 1..Len(runs[j]) : runs[j][i] \in Run
    BY <1>1, ElementOfSeq
  <2>5. Numbered(j)' /\ LastIs(j, "completed")'
    <3>1. \A i \in 1..Len(runs[j]) :
            /\ runs'[j][i].number = runs[j][i].number
            /\ i # Len(runs[j]) => runs'[j][i] = runs[j][i]
      BY <2>3, <2>4 DEF Run
    <3>2. Numbered(j)'
      BY <1>1, <1>3, <2>3, <3>1, LastRewritten DEF JobHistory
    <3>3. runs'[j][Len(runs[j])].status = "completed"
      BY <2>2, <2>3, <2>4 DEF Run, LastIs
    <3>4. QED
      BY <2>2, <2>3, <3>2, <3>3 DEF LastIs
  <2>6. QED
    BY <2>1, <2>2, <2>3, <2>5 DEF JobHistory, ExecutionHistory
<1>10. CASE MarkHealthy(e)
  BY <1>3, <1>4, <1>10 DEF MarkHealthy, rows, JobHistory, Numbered, Closed, LastIs
<1>11. CASE Unwind(e)
  <2>1. /\ exec[e].pc = "unwind" /\ jobs[j].status # "deleted"
        /\ jobs'[j] = jobs[j]
        /\ runs'[j] = [runs[j] EXCEPT ![exec[e].run].status = "failed"]
        /\ exec'[e].job = j /\ exec'[e].run = exec[e].run /\ exec'[e].pc = "failing"
    BY <1>1, <1>2, <1>11 DEF Unwind, JobOf, RowGone, At, Execution
  <2>2. /\ exec[e].run = Len(runs[j]) /\ Len(runs[j]) \in 1..Len(runs[j])
        /\ jobs[j].status \in {"running", "cancelled"}
    BY <1>1, <1>3, <2>1 DEF ExecutionHistory, LastIs
  <2>3. /\ Len(runs'[j]) = Len(runs[j])
        /\ \A i \in 1..Len(runs[j]) :
             runs'[j][i] = IF i = Len(runs[j])
                           THEN [runs[j][i] EXCEPT !.status = "failed"]
                           ELSE runs[j][i]
    <3> DEFINE n == Len(runs[j])
               s == [runs[j] EXCEPT ![n].status = "failed"]
    <3>1. runs'[j] = s
      BY <2>1, <2>2
    <3>2. /\ Len(s) = Len(runs[j])
          /\ \A i \in 1..Len(runs[j]) :
               s[i] = IF i = n THEN [runs[j][n] EXCEPT !.status = "failed"]
                      ELSE runs[j][i]
      <4>1. runs[j] \in Seq(Run) /\ n \in 1..Len(runs[j])
        BY <1>1, <2>2
      <4>2. QED
        BY <4>1, RunStatusUpdate
    <3>3. QED
      BY <3>1, <3>2
  <2>4. \A i \in 1..Len(runs[j]) : runs[j][i] \in Run
    BY <1>1, ElementOfSeq
  <2>5. Numbered(j)' /\ LastIs(j, "failed")'
    <3>1. \A i \in 1..Len(runs[j]) :
            /\ runs'[j][i].number = runs[j][i].number
            /\ i # Len(runs[j]) => runs'[j][i] = runs[j][i]
      BY <2>3, <2>4 DEF Run
    <3>2. Numbered(j)'
      BY <1>1, <1>3, <2>3, <3>1, LastRewritten DEF JobHistory
    <3>3. runs'[j][Len(runs[j])].status = "failed"
      BY <2>2, <2>3, <2>4 DEF Run, LastIs
    <3>4. QED
      BY <2>2, <2>3, <3>2, <3>3 DEF LastIs
  <2>6. QED
    BY <2>1, <2>2, <2>3, <2>5 DEF JobHistory, ExecutionHistory
<1>12. CASE RecordRetry(e)
  <2>1. /\ exec[e].pc = "retryRow" /\ jobs[j].status # "deleted"
        /\ jobs'[j] = jobs[j]
        /\ runs'[j] = [runs[j] EXCEPT ![exec[e].run].retries = @ + 1]
        /\ exec'[e].job = j /\ exec'[e].run = exec[e].run /\ exec'[e].pc = "requeue"
    BY <1>1, <1>2, <1>12 DEF RecordRetry, JobOf, RowGone, At, Goto, Execution
  <2>2. /\ exec[e].run = Len(runs[j]) /\ Len(runs[j]) \in 1..Len(runs[j])
        /\ jobs[j].status \in {"running", "cancelled"}
        /\ LastIs(j, "failed")
    BY <1>1, <1>3, <2>1 DEF ExecutionHistory, LastIs
  <2>3. /\ Len(runs'[j]) = Len(runs[j])
        /\ \A i \in 1..Len(runs[j]) :
             runs'[j][i] = IF i = Len(runs[j])
                           THEN [runs[j][i] EXCEPT !.retries = @ + 1]
                           ELSE runs[j][i]
    <3>1. runs'[j] = [runs[j] EXCEPT ![Len(runs[j])].retries = @ + 1]
      BY <2>1, <2>2
    <3>2. QED
      BY <1>1, <2>2, <3>1, RunRetriesUpdate
  <2>4. \A i \in 1..Len(runs[j]) : runs[j][i] \in Run
    BY <1>1, ElementOfSeq
  <2>5. Numbered(j)' /\ LastIs(j, "failed")'
    <3>1. \A i \in 1..Len(runs[j]) :
            /\ runs'[j][i].number = runs[j][i].number
            /\ i # Len(runs[j]) => runs'[j][i] = runs[j][i]
      BY <2>3, <2>4 DEF Run
    <3>2. Numbered(j)'
      BY <1>1, <1>3, <2>3, <3>1, LastRewritten DEF JobHistory
    <3>3. runs'[j][Len(runs[j])].status = "failed"
      BY <2>2, <2>3, <2>4 DEF Run, LastIs
    <3>4. QED
      BY <2>2, <2>3, <3>2, <3>3 DEF LastIs
  <2>6. QED
    BY <2>1, <2>2, <2>3, <2>5 DEF JobHistory, ExecutionHistory
<1>13. CASE Requeue(e) \/ GiveUp(e)
  <2>1. /\ exec[e].pc \in {"requeue", "giveUp"} /\ jobs[j].status # "deleted"
        /\ jobs'[j].status \in {"pending", "failed"}
        /\ runs'[j] = runs[j]
        /\ e \notin Busy'
    BY <1>1, <1>2, <1>4, <1>13 DEF Requeue, GiveUp, JobOf, RowGone, At, Job
  <2>2. LastIs(j, "failed") /\ Numbered(j)
    BY <1>3, <2>1 DEF ExecutionHistory, JobHistory
  <2>3. Closed(j)
    BY <1>1, <2>2 DEF LastIs, Numbered, Closed
  <2>4. QED
    BY <2>1, <2>2, <2>3 DEF JobHistory, Numbered, Closed, LastIs
<1>14. CASE StatementFails(e)
  <2>1. UNCHANGED <<jobs, runs>>
    BY <1>14 DEF StatementFails, rows
  <2>2. JobHistory(j)'
    BY <1>3, <2>1 DEF JobHistory, Numbered, Closed, LastIs
  <2>3. CASE exec[e].pc = "finish"
    <3>1. exec'[e].job = j /\ exec'[e].run = exec[e].run /\ exec'[e].pc = "unwind"
      BY <1>1, <1>2, <1>14, <2>3 DEF StatementFails, At, Execution
    <3>2. QED
      BY <1>3, <2>1, <2>2, <2>3, <3>1 DEF ExecutionHistory, LastIs
  <2>4. CASE exec[e].pc # "finish"
    BY <1>4, <1>14, <2>2, <2>4 DEF StatementFails, At
  <2>5. QED
    BY <2>3, <2>4
<1>15. QED
  BY <1>5, <1>6, <1>7, <1>8, <1>9, <1>10, <1>11, <1>12, <1>13, <1>14 DEF Step

\* Users, scheduler and time create a job, cancel one, or leave its status.
LEMMA OutsideRows ==
    ASSUME CoreInv, OutsideStep
    PROVE  /\ UNCHANGED <<runs, delivered, exec, activeJobs, faults>>
           /\ \A j \in JobIds :
                \/ jobs'[j].status = jobs[j].status
                \/ jobs[j].status = "absent" /\ jobs'[j].status = "pending"
                \/ /\ jobs[j].status \notin {"absent", "deleted"}
                   /\ jobs'[j].status = "cancelled"
<1>1. UNCHANGED <<runs, delivered, exec, activeJobs, faults>>
  BY DEF OutsideStep, CreateConnection, DueAgain, TestConnection, SetActive,
         SchedulerCreate, SchedulerAbort, SchedulerRead, TriggerRead,
         RunCheckRead, ManualCreate, CancelRead, CancelWrite, PollStart,
         BackoffElapses, runner, rows
<1>2. \/ UNCHANGED jobs
      \/ \E j \in JobIds : \E c, p : CreateJob(j, c, p)
      \/ \E r \in Requests : CancelWrite(r)
      \/ \E j \in JobIds : BackoffElapses(j)
  BY DEF OutsideStep, CreateConnection, DueAgain, TestConnection, SetActive,
         SchedulerCreate, SchedulerAbort, SchedulerRead, TriggerRead,
         RunCheckRead, ManualCreate, CancelRead, PollStart, rows
<1> DEFINE Allowed(k) ==
             \/ jobs'[k].status = jobs[k].status
             \/ jobs[k].status = "absent" /\ jobs'[k].status = "pending"
             \/ /\ jobs[k].status \notin {"absent", "deleted"}
                /\ jobs'[k].status = "cancelled"
<1>3. jobs \in [JobIds -> Job]
  BY DEF CoreInv, TypeOK
<1>4. ASSUME NEW j \in JobIds, NEW c, NEW p, CreateJob(j, c, p), NEW k \in JobIds
      PROVE  Allowed(k)
  BY <1>3, <1>4 DEF CreateJob
<1>5. ASSUME NEW r \in Requests, CancelWrite(r), NEW k \in JobIds
      PROVE  Allowed(k)
  <2>1. req[r].job \in JobIds /\ jobs[req[r].job].status # "absent"
    BY <1>5 DEF CancelWrite, CoreInv, WellFormed, RequestWellFormed
  <2>2. \/ UNCHANGED jobs
        \/ /\ jobs[req[r].job].status # "deleted"
           /\ jobs' = [jobs EXCEPT ![req[r].job].status = "cancelled"]
    BY <1>5 DEF CancelWrite
  <2>3. QED
    BY <1>3, <2>1, <2>2 DEF Job
<1>6. ASSUME NEW j \in JobIds, BackoffElapses(j), NEW k \in JobIds
      PROVE  Allowed(k)
  BY <1>3, <1>6 DEF BackoffElapses, Job
<1>7. \A k \in JobIds : Allowed(k)
  BY <1>2, <1>4, <1>5, <1>6
<1>8. QED
  BY <1>1, <1>7

\* A new job has no runs, and a cancellation is what executions reckon with.
LEMMA OutsideHistory == CoreInv /\ HistoryInv /\ OutsideStep => HistoryInv'
<1> SUFFICES ASSUME CoreInv, HistoryInv, OutsideStep, PromptDatabase
             PROVE  /\ \A j \in JobIds : JobHistory(j)'
                    /\ \A e \in Busy' : ExecutionHistory(e)'
  BY DEF HistoryInv
<1>1. UNCHANGED <<runs, exec>>
  BY OutsideRows
<1>2. ASSUME NEW j \in JobIds PROVE JobHistory(j)'
  <2>1. JobHistory(j)
    BY DEF HistoryInv
  <2>2. jobs[j].status = "absent" => Len(runs[j]) = 0
    BY <2>1 DEF JobHistory
  <2>3. QED
    BY <1>1, <2>1, <2>2, OutsideRows DEF JobHistory, Numbered, Closed, LastIs
<1>3. ASSUME NEW e \in Busy' PROVE ExecutionHistory(e)'
  <2>1. e \in Busy /\ exec[e].pc # "idle" /\ exec'[e] = exec[e]
    BY <1>1 DEF Busy
  <2>2. exec[e].job \in JobIds /\ jobs[exec[e].job].status # "absent"
    BY <2>1 DEF Busy, CoreInv, WellFormed, ExecutionWellFormed
  <2>3. \/ jobs'[exec[e].job].status = jobs[exec[e].job].status
        \/ /\ jobs[exec[e].job].status # "deleted"
           /\ jobs'[exec[e].job].status = "cancelled"
    BY <2>2, OutsideRows
  <2>4. ExecutionHistory(e)
    BY <2>1 DEF HistoryInv
  <2>5. QED
    BY <1>1, <2>1, <2>3, <2>4 DEF ExecutionHistory, Closed, LastIs
<1>4. QED
  BY <1>2, <1>3

\* The jobs of a deleted connection are gone with their runs.
LEMMA DeleteHistory ==
    ASSUME CoreInv, HistoryInv, NEW c \in Connections, DeleteConnection(c)
    PROVE  HistoryInv'
<1> SUFFICES ASSUME PromptDatabase
             PROVE  /\ \A j \in JobIds : JobHistory(j)'
                    /\ \A e \in Busy' : ExecutionHistory(e)'
  BY DEF HistoryInv
<1>1. UNCHANGED exec
  BY DEF DeleteConnection, runner
<1>2. ASSUME NEW j \in JobIds
      PROVE  \/ jobs'[j] = jobs[j] /\ runs'[j] = runs[j]
             \/ jobs'[j].status = "deleted" /\ runs'[j] = <<>>
  BY DEF DeleteConnection, CoreInv, TypeOK, Job
<1>3. ASSUME NEW j \in JobIds PROVE JobHistory(j)'
  <2>1. JobHistory(j)
    BY DEF HistoryInv
  <2>2. CASE jobs'[j] = jobs[j] /\ runs'[j] = runs[j]
    BY <2>1, <2>2 DEF JobHistory, Numbered, Closed, LastIs
  <2>3. CASE jobs'[j].status = "deleted" /\ runs'[j] = <<>>
    BY <2>3 DEF JobHistory, Numbered
  <2>4. QED
    BY <1>2, <2>2, <2>3
<1>4. ASSUME NEW e \in Busy' PROVE ExecutionHistory(e)'
  <2>1. e \in Busy /\ exec'[e] = exec[e] /\ exec[e].job \in JobIds
    BY <1>1 DEF Busy, CoreInv, WellFormed, ExecutionWellFormed
  <2>2. ExecutionHistory(e)
    BY <2>1 DEF HistoryInv
  <2>3. QED
    BY <1>2, <2>1, <2>2 DEF ExecutionHistory, Closed, LastIs
<1>5. QED
  BY <1>3, <1>4

\* A poll hands out pending jobs, none of whose runs is open or completed.
LEMMA PollFetchHistory ==
    ASSUME CoreInv, HistoryInv, NEW t \in Ticks, PollFetch(t)
    PROVE  HistoryInv'
<1> SUFFICES ASSUME PromptDatabase
             PROVE  /\ \A j \in JobIds : JobHistory(j)'
                    /\ \A e \in Busy' : ExecutionHistory(e)'
  BY DEF HistoryInv
<1>1. UNCHANGED <<jobs, runs>>
  BY DEF PollFetch, rows
<1>2. PICK b \in SUBSET JobIds :
        /\ \A j \in b : jobs[j].status = "pending"
        /\ \A e \in Executions :
             \/ exec'[e] = exec[e]
             \/ e \notin Busy /\ exec'[e].pc = "claim" /\ exec'[e].job \in b
  BY PollFetchEffect
<1>3. ASSUME NEW j \in JobIds PROVE JobHistory(j)'
  BY <1>1 DEF HistoryInv, JobHistory, Numbered, Closed, LastIs
<1>4. ASSUME NEW e \in Busy' PROVE ExecutionHistory(e)'
  <2>1. CASE exec'[e] = exec[e]
    <3>1. ExecutionHistory(e)
      BY <2>1 DEF HistoryInv, Busy
    <3>2. QED
      BY <1>1, <2>1, <3>1 DEF ExecutionHistory, Closed, LastIs
  <2>2. CASE exec'[e].pc = "claim" /\ exec'[e].job \in b
    <3>1. /\ jobs[exec'[e].job].status = "pending"
          /\ JobHistory(exec'[e].job)
      BY <1>2, <2>2 DEF HistoryInv
    <3>2. QED
      BY <1>1, <2>2, <3>1 DEF JobHistory, ExecutionHistory, Closed
  <2>3. QED
    BY <1>2, <2>1, <2>2 DEF Busy
<1>5. QED
  BY <1>3, <1>4

\* Every step keeps the history invariant.
LEMMA NextHistory == CoreInv /\ PollInv /\ HistoryInv /\ [Next]_vars => HistoryInv'
<1> SUFFICES ASSUME CoreInv, PollInv, HistoryInv, [Next]_vars PROVE HistoryInv'
  OBVIOUS
<1>1. CASE UNCHANGED vars
  BY <1>1 DEF vars, HistoryInv, JobHistory, ExecutionHistory, Numbered, Closed,
              LastIs, Busy
<1>2. CASE OutsideStep
  BY <1>2, OutsideHistory
<1>3. ASSUME NEW c \in Connections, DeleteConnection(c) PROVE HistoryInv'
  BY <1>3, DeleteHistory
<1>4. ASSUME NEW t \in Ticks, PollFetch(t) PROVE HistoryInv'
  BY <1>4, PollFetchHistory
<1>5. ASSUME NEW e \in Executions, Step(e) \/ StatementFails(e) PROVE HistoryInv'
  <2>1. CASE ~PromptDatabase
    BY <2>1 DEF HistoryInv
  <2>2. CASE PromptDatabase
    <3>1. e \in Busy
      BY <1>5, StepEffect
    <3>2. exec[e].job \in JobIds
      BY <3>1 DEF Busy, CoreInv, WellFormed, ExecutionWellFormed
    <3>3. PICK j \in JobIds : j = exec[e].job
      BY <3>2
    <3>4. JobHistory(j)' /\ (e \in Busy' => ExecutionHistory(e)')
      BY <1>5, <2>2, <3>3, StepHistory
    <3>5. QED
      BY <1>5, <2>2, <3>3, <3>4, OthersHistory
  <2>3. QED
    BY <2>1, <2>2
<1>6. CASE Crash
  <2>1. Busy' = {} /\ UNCHANGED <<jobs, runs>>
    BY <1>6 DEF Crash, Busy, NoExecution, rows
  <2>2. QED
    BY <2>1 DEF HistoryInv, JobHistory, Numbered, Closed, LastIs
<1>7. QED
  BY <1>1, <1>2, <1>3, <1>4, <1>5, <1>6 DEF Next, OutsideStep

\* The history invariant holds in every behaviour.
LEMMA HistoryInvariant == Spec => []HistoryInv
<1>1. Init => HistoryInv
  BY DEF Init, HistoryInv, JobHistory, Numbered, Busy, NoExecution
<1>2. CoreInv /\ PollInv /\ HistoryInv /\ [Next]_vars => HistoryInv'
  BY NextHistory
<1>3. QED
  BY <1>1, <1>2, CoreInvariant, PollInvariant, PTL DEF Spec

\* The runs of a job are numbered 1, 2, ... without a gap or a double, and
\* every one but the last failed, although the number is read before the row is
\* written (runner/index.ts, executeJob).
THEOREM HistoryInOrder == Spec => []RunHistory
<1>1. CoreInv /\ HistoryInv => RunHistory
  <2>1. CoreInv => \A j \in JobIds : DOMAIN runs[j] = 1..Len(runs[j])
    BY LenProperties DEF CoreInv, TypeOK
  <2>2. QED
    BY <2>1 DEF HistoryInv, JobHistory, Numbered, RunHistory
<1>2. QED
  BY <1>1, CoreInvariant, HistoryInvariant, PTL

\* A job that completed or failed did so with its last run, and one that waits
\* has no open or completed run (runner/index.ts, the transactions that end
\* executeJob), whatever is cancelled, deleted, retried or lost.
THEOREM StatusMatchesRuns == Spec => []StatusAgreesWithRuns
<1>1. CoreInv /\ HistoryInv => StatusAgreesWithRuns
  <2> SUFFICES ASSUME CoreInv, HistoryInv, PromptDatabase, NEW j \in JobIds
               PROVE  /\ jobs[j].status \in {"completed", "failed"} =>
                           /\ Len(runs[j]) > 0
                           /\ runs[j][Len(runs[j])].status = jobs[j].status
                      /\ jobs[j].status = "pending" =>
                           \/ Len(runs[j]) = 0
                           \/ runs[j][Len(runs[j])].status = "failed"
    BY DEF StatusAgreesWithRuns
  <2>1. JobHistory(j) /\ Len(runs[j]) \in Nat
    BY LenProperties DEF HistoryInv, CoreInv, TypeOK
  <2>2. QED
    BY <2>1 DEF JobHistory, Closed, LastIs
<1>2. QED
  BY <1>1, CoreInvariant, HistoryInvariant, PTL

\* A finished job stays finished: no poll hands it out again and no execution
\* writes it, so only a late cancellation or a deletion touches it
\* (runner/index.ts, processJobs and executeJob; routes/jobs.ts, cancel).
THEOREM FinishedStays == Spec => FinishedIsFinal
<1> DEFINE Keeps ==
      PromptDatabase =>
         \A j \in JobIds :
            jobs[j].status \in {"completed", "failed"} =>
                jobs'[j].status \in {jobs[j].status, "cancelled", "deleted"}
<1>1. CoreInv /\ PollInv /\ HistoryInv /\ [Next]_vars => [Keeps]_vars
  <2> SUFFICES ASSUME CoreInv, HistoryInv, Next, PromptDatabase, NEW j \in JobIds,
                      jobs[j].status \in {"completed", "failed"}
               PROVE  jobs'[j].status \in {jobs[j].status, "cancelled", "deleted"}
    BY DEF vars
  <2>1. CASE OutsideStep
    BY <2>1, OutsideRows
  <2>2. ASSUME NEW c \in Connections, DeleteConnection(c)
        PROVE  jobs'[j].status \in {jobs[j].status, "cancelled", "deleted"}
    BY <2>2 DEF DeleteConnection, CoreInv, TypeOK, Job
  <2>3. CASE UNCHANGED jobs
    BY <2>3
  <2>4. ASSUME NEW e \in Executions, Step(e) \/ StatementFails(e)
        PROVE  jobs'[j].status \in {jobs[j].status, "cancelled", "deleted"}
    <3>1. e \in Busy /\ (j # exec[e].job => jobs'[j] = jobs[j])
      BY <2>4, StepEffect DEF JobOf
    <3>2. CASE j # exec[e].job
      BY <3>1, <3>2
    <3>3. CASE j = exec[e].job
      <4>1. ExecutionHistory(e)
        BY <3>1 DEF HistoryInv
      <4>2. LastIs(j, jobs[j].status)
        BY DEF HistoryInv, JobHistory
      <4>3. exec[e].pc \in {"healthy", "idle"}
        BY <4>1, <3>3, <3>1 DEF ExecutionHistory, CoreInv, TypeOK, Execution, ExecPc, Busy
      <4>4. MarkHealthy(e)
        BY <2>4, <4>3
        DEF Step, Claim, LookupRun, RecordRun, Collect, Submit, Finish,
            Unwind, MarkFailing, RecordRetry, Requeue, GiveUp,
            StatementFails, At
      <4>5. QED
        BY <4>4 DEF MarkHealthy, rows
    <3>4. QED
      BY <3>2, <3>3
  <2>5. QED
    BY <2>1, <2>2, <2>3, <2>4 DEF Next, OutsideStep, PollFetch, Crash, rows
<1>2. QED
  BY <1>1, CoreInvariant, PollInvariant, HistoryInvariant, PTL
  DEF Spec, FinishedIsFinal
-----------------------------------------------------------------------------
(***************************************************************************)
(* Ownership and delivery, while no statement failed and no process died.  *)
(***************************************************************************)

\* Every action but a failing statement and a crash leaves the count of faults.
LEMMA StepFaults ==
    ASSUME CoreInv, Next, faults' = 0
    PROVE  /\ faults = 0
           /\ ~Crash
           /\ \A e \in Executions : StatementFails(e) => RowGone(e)
<1>1. faults \in Nat
  BY CollectionAssumption DEF CoreInv, TypeOK
<1>2. ~Crash /\ \A e \in Executions : StatementFails(e) => RowGone(e)
  BY <1>1 DEF Crash, StatementFails
<1>3. faults' = faults \/ faults' = faults + 1
  BY OutsideRows DEF Next, OutsideStep, DeleteConnection, PollFetch, Crash, Step, Claim,
     LookupRun, RecordRun, Collect, Submit, Finish, MarkHealthy, Unwind,
     MarkFailing, RecordRetry, Requeue, GiveUp, StatementFails
<1>4. QED
  BY <1>1, <1>2, <1>3

\* A step of the execution that holds a running job goes on holding it, or the
\* job is not running any more.
LEMMA OwnerGoesOn ==
    ASSUME CoreInv, NEW e \in Executions, Step(e) \/ StatementFails(e),
           StatementFails(e) => RowGone(e),
           NEW j \in JobIds, j = exec[e].job, jobs'[j].status = "running",
           jobs[j].status = "running" => exec[e].pc \notin {"claim", "healthy"}
    PROVE  exec'[e].pc \notin {"idle", "claim", "healthy"}
<1>1. /\ jobs \in [JobIds -> Job] /\ exec \in [Executions -> Execution]
      /\ jobs[j] \in Job /\ exec[e] \in Execution
  BY DEF CoreInv, TypeOK
<1>2. CASE Claim(e) \/ LookupRun(e) \/ RecordRun(e) \/ Collect(e) \/ Submit(e)
           \/ Unwind(e) \/ MarkFailing(e) \/ RecordRetry(e)
  <2>1. CASE Claim(e) \/ Submit(e) \/ MarkFailing(e) \/ RecordRetry(e)
    BY <1>1, <2>1 DEF Claim, Submit, MarkFailing, RecordRetry, Goto, Execution
  <2>2. CASE LookupRun(e) \/ RecordRun(e)
    BY <1>1, <2>2 DEF LookupRun, RecordRun, Execution
  <2>3. CASE Collect(e) \/ Unwind(e)
    BY <1>1, <2>3 DEF Collect, Unwind, Goto, Execution
  <2>4. QED
    BY <1>2, <2>1, <2>2, <2>3
<1>3. CASE Finish(e) \/ Requeue(e) \/ GiveUp(e)
  BY <1>1, <1>3 DEF Finish, Requeue, GiveUp, JobOf, Job
<1>4. CASE MarkHealthy(e)
  BY <1>4 DEF MarkHealthy, At, rows
<1>5. CASE StatementFails(e)
  BY <1>5 DEF StatementFails, RowGone, JobOf, rows
<1>6. QED
  BY <1>2, <1>3, <1>4, <1>5 DEF Step

\* A step of an execution leaves every running job in somebody's hands.
LEMMA StepOwned ==
    ASSUME CoreInv, OwnedInv, faults = 0,
           NEW e \in Executions, Step(e) \/ StatementFails(e),
           StatementFails(e) => RowGone(e)
    PROVE  OwnedInv'
<1> SUFFICES ASSUME NEW k \in JobIds, jobs'[k].status = "running"
             PROVE  \E f \in Busy' : /\ exec'[f].job = k
                                     /\ exec'[f].pc \notin {"claim", "healthy"}
  BY DEF OwnedInv
<1>1. /\ e \in Busy
      /\ \A f \in Executions \ {e} : exec'[f] = exec[f]
      /\ exec'[e].pc # "idle" => exec'[e].job = exec[e].job
      /\ k # exec[e].job => jobs'[k] = jobs[k]
  BY StepEffect DEF JobOf
<1>2. ASSUME NEW f \in Busy \ {e}, exec[f].job = k,
             exec[f].pc \notin {"claim", "healthy"}
      PROVE  f \in Busy' /\ exec'[f] = exec[f]
  BY <1>1 DEF Busy
<1>3. CASE k = exec[e].job /\ exec'[e].pc \notin {"idle", "claim", "healthy"}
  BY <1>1, <1>3 DEF Busy
<1>4. CASE k # exec[e].job
  BY <1>1, <1>2, <1>4 DEF OwnedInv
<1>5. CASE k = exec[e].job /\ exec'[e].pc \in {"idle", "claim", "healthy"}
  <2>1. jobs[k].status = "running" /\ exec[e].pc \in {"claim", "healthy"}
    BY <1>5, OwnerGoesOn
  <2>2. PICK f \in Busy : exec[f].job = k /\ exec[f].pc \notin {"claim", "healthy"}
    BY <2>1 DEF OwnedInv
  <2>3. QED
    BY <1>2, <2>1, <2>2
<1>6. QED
  BY <1>3, <1>4, <1>5

\* Every step keeps running jobs owned as long as nothing failed.
LEMMA NextOwned == CoreInv /\ OwnedInv /\ [Next]_vars => OwnedInv'
<1> SUFFICES ASSUME CoreInv, OwnedInv, [Next]_vars, faults' = 0 PROVE OwnedInv'
  BY DEF OwnedInv
<1>1. CASE UNCHANGED vars
  BY <1>1 DEF vars, OwnedInv, Busy
<1>2. CASE Next
  <2>1. /\ faults = 0 /\ ~Crash
        /\ \A e \in Executions : StatementFails(e) => RowGone(e)
    BY <1>2, StepFaults
  <2>2. \A j \in JobIds : jobs[j].status = "running" =>
          \E e \in Busy : exec[e].job = j /\ exec[e].pc \notin {"claim", "healthy"}
    BY <2>1 DEF OwnedInv
  <2>3. CASE OutsideStep
    BY <2>2, <2>3, OutsideRows DEF OwnedInv, Busy
  <2>4. ASSUME NEW c \in Connections, DeleteConnection(c) PROVE OwnedInv'
    <3>1. /\ UNCHANGED exec
          /\ \A j \in JobIds : jobs'[j] = jobs[j] \/ jobs'[j].status = "deleted"
      BY <2>4 DEF DeleteConnection, runner, CoreInv, TypeOK, Job
    <3>2. QED
      BY <2>2, <3>1 DEF OwnedInv, Busy
  <2>5. ASSUME NEW t \in Ticks, PollFetch(t) PROVE OwnedInv'
    <3>1. UNCHANGED jobs /\ \A e \in Busy : exec'[e] = exec[e]
      BY <2>5, PollFetchEffect DEF PollFetch, rows, Busy
    <3>2. QED
      BY <2>2, <3>1 DEF OwnedInv, Busy
  <2>6. ASSUME NEW e \in Executions, Step(e) \/ StatementFails(e) PROVE OwnedInv'
    BY <2>1, <2>6, StepOwned
  <2>7. QED
    BY <1>2, <2>1, <2>3, <2>4, <2>5, <2>6 DEF Next, OutsideStep
<1>3. QED
  BY <1>1, <1>2

\* Unless a statement failed or the process died, an execution works on every
\* job whose row says running (routes/jobs.ts answers JOB_ALREADY_RUNNING from
\* that row), however users cancel, delete and trigger, and even when polls
\* overlap.
THEOREM RunningOwned == Spec => []RunningIsOwned
<1>1. Init => OwnedInv
  BY DEF Init, OwnedInv
<1>2. OwnedInv => RunningIsOwned
  BY DEF OwnedInv, RunningIsOwned
<1>3. QED
  BY <1>1, <1>2, NextOwned, CoreInvariant, PTL DEF Spec

\* Failures are counted and never forgotten.
LEMMA FaultsGrow ==
    ASSUME CoreInv, [Next]_vars
    PROVE  faults \in Nat /\ faults' \in Nat /\ faults <= faults'
<1>1. faults \in Nat
  BY CollectionAssumption DEF CoreInv, TypeOK
<1>2. faults' = faults \/ faults' = faults + 1
  BY OutsideRows DEF Next, OutsideStep, DeleteConnection, PollFetch, Crash, Step, Claim,
     LookupRun, RecordRun, Collect, Submit, Finish, MarkHealthy, Unwind,
     MarkFailing, RecordRetry, Requeue, GiveUp, StatementFails, vars
<1>3. QED
  BY <1>1, <1>2

\* A step delivers for no job but its own, so that DeliveryInv has to be shown
\* for that one only.
LEMMA OthersDelivery ==
    ASSUME CoreInv, PollInv, DeliveryInv, PromptDatabase,
           NEW e \in Executions, Step(e) \/ StatementFails(e),
           NEW j \in JobIds, j = exec[e].job,
           delivered'[j] <= 1 + faults',
           jobs'[j].status \in {"absent", "pending"} => delivered'[j] <= faults',
           e \in Busy' /\ Unsent(e)' => delivered'[j] <= faults'
    PROVE  DeliveryInv'
<1>1. /\ e \in Busy
      /\ \A f \in Executions \ {e} : exec'[f] = exec[f]
      /\ \A k \in JobIds \ {j} : jobs'[k] = jobs[k] /\ delivered'[k] = delivered[k]
      /\ exec'[e].pc # "idle" => exec'[e].job = j
      /\ delivered \in [JobIds -> Nat]
  BY StepEffect, StepRows DEF JobOf, CoreInv, TypeOK
<1>5. faults \in Nat /\ faults' \in Nat /\ faults <= faults'
  BY FaultsGrow DEF Next
<1>2. ASSUME NEW k \in JobIds
      PROVE  /\ delivered'[k] <= 1 + faults'
             /\ jobs'[k].status \in {"absent", "pending"} => delivered'[k] <= faults'
  <2>1. CASE k = j
    BY <2>1
  <2>2. CASE k # j
    <3>1. jobs'[k] = jobs[k] /\ delivered'[k] = delivered[k] /\ delivered[k] \in Nat
      BY <1>1, <2>2
    <3>2. /\ delivered[k] <= 1 + faults
          /\ jobs[k].status \in {"absent", "pending"} => delivered[k] <= faults
      BY DEF DeliveryInv
    <3>3. QED
      BY <1>5, <3>1, <3>2
  <2>3. QED
    BY <2>1, <2>2
<1>3. ASSUME NEW f \in Busy', Unsent(f)'
      PROVE  delivered'[exec'[f].job] <= faults'
  <2>1. CASE f = e
    BY <1>1, <1>3, <2>1 DEF Busy
  <2>2. CASE f # e
    <3>1. f \in Busy /\ exec'[f] = exec[f]
      BY <1>1, <1>3, <2>2 DEF Busy
    <3>2. exec[f].job \in JobIds \ {j}
      BY <1>1, <2>2, <3>1
      DEF PollInv, DistinctJobs, Busy, CoreInv, WellFormed, ExecutionWellFormed
    <3>3. Unsent(f) /\ delivered'[exec'[f].job] = delivered[exec[f].job]
      BY <1>1, <1>3, <3>1, <3>2 DEF Unsent
    <3>4. delivered[exec[f].job] <= faults /\ delivered[exec[f].job] \in Nat
      BY <1>1, <3>1, <3>2, <3>3 DEF DeliveryInv
    <3>5. QED
      BY <1>5, <3>3, <3>4
  <2>3. QED
    BY <2>1, <2>2
<1>4. QED
  BY <1>2, <1>3 DEF DeliveryInv

\* Only a submission stores evidence, and the run that submitted completes, or
\* a statement of it fails.
LEMMA StepDelivery ==
    ASSUME CoreInv, PollInv, DeliveryInv, PromptDatabase,
           NEW e \in Executions, Step(e) \/ StatementFails(e),
           NEW j \in JobIds, j = exec[e].job
    PROVE  /\ delivered'[j] <= 1 + faults'
           /\ jobs'[j].status \in {"absent", "pending"} => delivered'[j] <= faults'
           /\ e \in Busy' /\ Unsent(e)' => delivered'[j] <= faults'
<1>1. /\ jobs \in [JobIds -> Job] /\ exec \in [Executions -> Execution]
      /\ delivered \in [JobIds -> Nat] /\ jobs[j] \in Job /\ exec[e] \in Execution
      /\ e \in Busy /\ jobs[j].status # "absent"
      /\ e \in Busy' => exec'[e].job = j
  BY StepEffect DEF CoreInv, TypeOK, WellFormed, ExecutionWellFormed, Busy
<1>2. /\ delivered[j] <= 1 + faults
      /\ jobs[j].status \in {"absent", "pending"} => delivered[j] <= faults
      /\ Unsent(e) => delivered[j] <= faults
      /\ delivered[j] \in Nat /\ faults \in Nat
  BY <1>1, CollectionAssumption DEF DeliveryInv, CoreInv, TypeOK
<1>3. ASSUME Release(e) PROVE e \notin Busy'
  BY <1>1, <1>3 DEF Release, Busy, NoExecution
<1>4. CASE \/ Claim(e) \/ LookupRun(e) \/ RecordRun(e) \/ Collect(e)
           \/ Unwind(e) \/ MarkFailing(e) \/ RecordRetry(e)
  <2>1. /\ UNCHANGED <<delivered, faults>>
        /\ exec[e].pc \notin {"finish", "healthy"}
    BY <1>4 DEF Claim, LookupRun, RecordRun, Collect, Unwind, MarkFailing,
       RecordRetry, At, rows
  <2>2. \/ jobs'[j] = jobs[j]
        \/ jobs'[j].status = "running" /\ jobs[j].status # "deleted"
    <3>1. CASE Claim(e)
      BY <1>1, <3>1 DEF Claim, JobOf, RowGone, Job
    <3>2. CASE ~Claim(e)
      BY <1>4, <3>2 DEF LookupRun, RecordRun, Collect, Unwind, MarkFailing,
         RecordRetry, rows
    <3>3. QED
      BY <3>1, <3>2
  <2>3. ASSUME exec'[e].pc \in {"claim", "lookup", "record", "collect", "submit"}
        PROVE  exec[e].pc \in {"claim", "lookup", "record", "collect", "submit"}
    <3>1. CASE Claim(e) \/ LookupRun(e) \/ RecordRun(e) \/ Collect(e)
      BY <3>1 DEF Claim, LookupRun, RecordRun, Collect, At
    <3>2. CASE Unwind(e) \/ MarkFailing(e) \/ RecordRetry(e)
      BY <1>1, <2>3, <3>2 DEF Unwind, MarkFailing, RecordRetry, Goto, Execution
    <3>3. QED
      BY <1>4, <3>1, <3>2
  <2>4. e \in Busy' /\ Unsent(e)' => Unsent(e)
    BY <1>1, <2>1, <2>2, <2>3 DEF Unsent
  <2>5. QED
    BY <1>2, <2>1, <2>2, <2>4
<1>5. CASE Submit(e)
  <2>1. /\ UNCHANGED <<jobs, faults>> /\ exec[e].pc = "submit" /\ exec'[e].pc = "finish"
        /\ \/ delivered'[j] = delivered[j]
           \/ delivered'[j] = delivered[j] + 1
    BY <1>1, <1>5 DEF Submit, At, Goto, JobOf, Execution
  <2>2. jobs[j].status \notin {"absent", "pending"}
    BY <1>1, <2>1 DEF PollInv, ClaimedIsNotPending
  <2>3. Unsent(e) /\ ~Unsent(e)'
    BY <2>1 DEF Unsent
  <2>4. QED
    BY <1>2, <2>1, <2>2, <2>3
<1>6. CASE Finish(e)
  <2>1. UNCHANGED <<delivered, faults>> /\ jobs'[j].status = "completed"
    BY <1>1, <1>6 DEF Finish, JobOf, Job
  <2>2. e \in Busy' => exec'[e].pc = "healthy"
    BY <1>1, <1>3, <1>6 DEF Finish, Goto, Execution
  <2>3. QED
    BY <1>2, <2>1, <2>2 DEF Unsent
<1>7. CASE MarkHealthy(e)
  BY <1>2, <1>3, <1>7 DEF MarkHealthy, rows
<1>8. CASE Requeue(e) \/ GiveUp(e)
  <2>1. /\ UNCHANGED <<delivered, faults>> /\ e \notin Busy'
        /\ jobs[j].status # "deleted" /\ exec[e].pc \in {"requeue", "giveUp"}
    BY <1>3, <1>8 DEF Requeue, GiveUp, At, JobOf, RowGone
  <2>2. Unsent(e)
    BY <1>1, <2>1 DEF Unsent
  <2>3. QED
    BY <1>2, <2>1, <2>2
<1>9. CASE StatementFails(e)
  <2>1. UNCHANGED <<jobs, delivered>>
    BY <1>9 DEF StatementFails, rows
  <2>2. CASE faults' = faults + 1
    BY <1>2, <2>1, <2>2
  <2>3. CASE faults' # faults + 1
    <3>1. jobs[j].status = "deleted" /\ faults' = faults
      BY <1>1, <1>9, <2>3 DEF StatementFails, RowGone, JobOf
    <3>2. e \in Busy' => exec'[e].pc = "unwind"
      BY <1>1, <1>3, <1>9 DEF StatementFails, Execution
    <3>3. e \in Busy' => ~Unsent(e)'
      BY <1>1, <2>1, <3>1, <3>2 DEF Unsent
    <3>4. QED
      BY <1>2, <2>1, <3>1, <3>3
  <2>4. QED
    BY <2>2, <2>3
<1>10. QED
  BY <1>4, <1>5, <1>6, <1>7, <1>8, <1>9 DEF Step

\* Every step keeps the delivery invariant.
LEMMA NextDelivery == CoreInv /\ PollInv /\ DeliveryInv /\ [Next]_vars => DeliveryInv'
<1> SUFFICES ASSUME CoreInv, PollInv, DeliveryInv, [Next]_vars, PromptDatabase
             PROVE  DeliveryInv'
  BY DEF DeliveryInv
<1>1. CASE UNCHANGED vars
  BY <1>1 DEF vars, DeliveryInv, Busy, Unsent
<1>2. CASE Next
  <2>1. /\ faults \in Nat /\ faults' \in Nat /\ faults <= faults'
        /\ delivered \in [JobIds -> Nat]
    BY FaultsGrow DEF CoreInv, TypeOK
  <2>2. /\ \A j \in JobIds :
             /\ delivered[j] <= 1 + faults
             /\ jobs[j].status \in {"absent", "pending"} => delivered[j] <= faults
        /\ \A e \in Busy : Unsent(e) => delivered[exec[e].job] <= faults
    BY DEF DeliveryInv
  <2>3. \A e \in Busy : exec[e].job \in JobIds
    BY DEF Busy, CoreInv, WellFormed, ExecutionWellFormed
  <2>4. CASE OutsideStep
    <3>1. /\ UNCHANGED <<delivered, exec, faults>>
          /\ \A j \in JobIds : \/ jobs'[j].status = jobs[j].status
                               \/ jobs[j].status = "absent"
                               \/ /\ jobs[j].status # "deleted"
                                  /\ jobs'[j].status = "cancelled"
      BY <2>4, OutsideRows
    <3>2. \A j \in JobIds : jobs'[j].status \in {"absent", "pending"} =>
            jobs[j].status \in {"absent", "pending"}
      BY <3>1
    <3>3. \A e \in Busy : jobs[exec[e].job].status # "absent"
      BY DEF Busy, CoreInv, WellFormed, ExecutionWellFormed
    <3>4. \A e \in Busy : Unsent(e)' => Unsent(e)
      BY <2>3, <3>1, <3>3 DEF Unsent
    <3>5. QED
      BY <2>2, <2>3, <3>1, <3>2, <3>4 DEF DeliveryInv, Busy
  <2>5. ASSUME NEW c \in Connections, DeleteConnection(c) PROVE DeliveryInv'
    <3>1. /\ UNCHANGED <<exec, delivered, faults>>
          /\ \A j \in JobIds : jobs'[j] = jobs[j] \/ jobs'[j].status = "deleted"
      BY <2>5 DEF DeleteConnection, runner, CoreInv, TypeOK, Job
    <3>2. \A e \in Busy : Unsent(e)' => Unsent(e)
      BY <2>3, <3>1 DEF Unsent
    <3>3. QED
      BY <2>2, <2>3, <3>1, <3>2 DEF DeliveryInv, Busy
  <2>6. ASSUME NEW t \in Ticks, PollFetch(t) PROVE DeliveryInv'
    <3>1. UNCHANGED <<jobs, delivered, faults>>
      BY <2>6 DEF PollFetch, rows
    <3>2. PICK b \in SUBSET JobIds :
            /\ \A j \in b : jobs[j].status = "pending"
            /\ \A e \in Executions :
                 \/ exec'[e] = exec[e]
                 \/ exec'[e].pc = "claim" /\ exec'[e].job \in b
      BY <2>6, PollFetchEffect
    <3>3. ASSUME NEW e \in Busy', Unsent(e)'
          PROVE  delivered'[exec'[e].job] <= faults'
      <4>1. CASE exec'[e] = exec[e]
        BY <2>2, <3>1, <3>3, <4>1 DEF Busy, Unsent
      <4>2. CASE exec'[e].job \in b
        BY <2>2, <3>1, <3>2, <4>2
      <4>3. QED
        BY <3>2, <4>1, <4>2 DEF Busy
    <3>4. QED
      BY <2>2, <3>1, <3>3 DEF DeliveryInv
  <2>7. ASSUME NEW e \in Executions, Step(e) \/ StatementFails(e) PROVE DeliveryInv'
    <3>1. PICK j \in JobIds : j = exec[e].job
      BY <2>3, <2>7, StepEffect
    <3>2. /\ delivered'[j] <= 1 + faults'
          /\ jobs'[j].status \in {"absent", "pending"} => delivered'[j] <= faults'
          /\ e \in Busy' /\ Unsent(e)' => delivered'[j] <= faults'
      BY <2>7, <3>1, StepDelivery
    <3>3. QED
      BY <2>7, <3>1, <3>2, OthersDelivery
  <2>8. CASE Crash
    <3>1. UNCHANGED <<jobs, delivered>> /\ Busy' = {} /\ faults' = faults + 1
      BY <2>8 DEF Crash, rows, Busy, NoExecution
    <3>2. QED
      BY <2>1, <2>2, <3>1 DEF DeliveryInv
  <2>9. QED
    BY <1>2, <2>4, <2>5, <2>6, <2>7, <2>8 DEF Next, OutsideStep
<1>3. QED
  BY <1>1, <1>2

\* The evidence of one job is stored at most once, and once more per failure,
\* through retries, cancellations, deletions and crashes: a run that submitted
\* never leads to a retry (runner/index.ts, executeJob and submitEvidence),
\* unless a statement failed after the submission.
THEOREM DeliveredOnce == Spec => []EvidenceOnce
<1>1. Init => DeliveryInv
  BY DEF Init, DeliveryInv, Busy, NoExecution
<1>2. DeliveryInv => EvidenceOnce
  BY DEF DeliveryInv, EvidenceOnce
<1>3. CoreInv /\ PollInv /\ DeliveryInv /\ [Next]_vars => DeliveryInv'
  BY NextDelivery
<1>4. QED
  BY <1>1, <1>2, <1>3, CoreInvariant, PollInvariant, PTL DEF Spec
-----------------------------------------------------------------------------
(***************************************************************************)
(* The refinement of WorkPool.                                             *)
(***************************************************************************)

\* The executions in flight are at least as many as the jobs they hold.
LEMMA HeldBound == CoreInv => Cardinality(HeldJobs) <= Cardinality(Busy)
<1> SUFFICES ASSUME CoreInv PROVE Cardinality(HeldJobs) <= Cardinality(Busy)
  OBVIOUS
<1> DEFINE f == [e \in Busy |-> exec[e].job]
<1>1. f \in Surjection(Busy, HeldJobs)
  BY DEF Surjection, HeldJobs
<1>2. IsFiniteSet(Busy)
  BY DEF CoreInv, CountInv
<1>3. QED
  BY <1>1, <1>2, FS_Surjection

\* A job is completed when its last run is.
LEMMA CompletedLast ==
    ASSUME CoreInv, NEW j \in JobIds, JobHistory(j)
    PROVE  j \in CompletedJobs <=> LastIs(j, "completed")
<1>1. Len(runs[j]) \in Nat /\ DOMAIN runs[j] = 1..Len(runs[j])
  BY LenProperties DEF CoreInv, TypeOK
<1>2. \A i \in 1..Len(runs[j]) : i # Len(runs[j]) => runs[j][i].status = "failed"
  BY <1>1 DEF JobHistory, Numbered
<1>3. QED
  BY <1>1, <1>2 DEF CompletedJobs, LastIs

\* Completion depends on the run rows alone.
LEMMA CompletedFrame ==
    ASSUME NEW j \in JobIds, runs'[j] = runs[j]
    PROVE  j \in CompletedJobs' <=> j \in CompletedJobs
BY DEF CompletedJobs

\* A step of an execution keeps or gives back the one job it holds.
LEMMA StepHeld ==
    ASSUME CoreInv, PollInv, PromptDatabase,
           NEW e \in Executions, Step(e) \/ StatementFails(e)
    PROVE  /\ exec[e].job \in HeldJobs
           /\ HeldJobs' \in {HeldJobs, HeldJobs \ {exec[e].job}}
<1>1. /\ e \in Busy
      /\ \A f \in Executions \ {e} : exec'[f] = exec[f]
      /\ exec'[e].pc # "idle" => exec'[e].job = exec[e].job
  BY StepEffect
<1>2. \A f \in Busy : exec[f].job = exec[e].job => f = e
  BY <1>1 DEF PollInv, DistinctJobs
<1>3. CASE e \in Busy'
  <2>1. Busy' = Busy /\ \A f \in Busy : exec'[f].job = exec[f].job
    BY <1>1, <1>3 DEF Busy
  <2>2. QED
    BY <1>1, <2>1 DEF HeldJobs
<1>4. CASE e \notin Busy'
  <2>1. Busy' = Busy \ {e} /\ \A f \in Busy \ {e} : exec'[f].job = exec[f].job
    BY <1>1, <1>4 DEF Busy
  <2>2. QED
    BY <1>1, <1>2, <2>1 DEF HeldJobs
<1>5. QED
  BY <1>3, <1>4

\* Only the transaction that finishes a run makes its job completed, and no
\* step takes that back.
LEMMA StepCompleted ==
    ASSUME CoreInv, CoreInv', PollInv, HistoryInv, HistoryInv', PromptDatabase,
           NEW e \in Executions, Step(e) \/ StatementFails(e)
    PROVE  \/ CompletedJobs' = CompletedJobs
           \/ /\ exec[e].job \notin CompletedJobs
              /\ CompletedJobs' = CompletedJobs \cup {exec[e].job}
<1>1. e \in Busy /\ exec[e].job \in JobIds
  BY StepEffect DEF JobOf, Busy, CoreInv, WellFormed, ExecutionWellFormed
<1>2. PICK j \in JobIds : j = exec[e].job
  BY <1>1
<1>3. \A k \in JobIds \ {j} : k \in CompletedJobs' <=> k \in CompletedJobs
  BY <1>2, StepRows, CompletedFrame
<1>4. j \in CompletedJobs => j \in CompletedJobs'
  <2>1. CASE UNCHANGED runs
    BY <2>1, CompletedFrame
  <2>2. CASE RecordRun(e) \/ Finish(e) \/ Unwind(e) \/ RecordRetry(e)
    <3>1. /\ ~RowGone(e)
          /\ exec[e].pc \in {"record", "finish", "unwind", "retryRow"}
      BY <2>2 DEF RecordRun, Finish, Unwind, RecordRetry, At
    <3>2. Closed(j) \/ LastIs(j, "running") \/ LastIs(j, "failed")
      BY <1>1, <1>2, <3>1 DEF HistoryInv, ExecutionHistory, RowGone, JobOf
    <3>3. ~LastIs(j, "completed")
      <4>1. Len(runs[j]) \in Nat
        BY LenProperties DEF CoreInv, TypeOK
      <4>2. QED
        BY <3>2, <4>1 DEF Closed, LastIs
    <3>4. QED
      BY <3>3, CompletedLast DEF HistoryInv
  <2>3. QED
    BY <2>1, <2>2 DEF Step, Claim, LookupRun, Collect, Submit, MarkHealthy,
       MarkFailing, Requeue, GiveUp, StatementFails, rows
<1>5. CompletedJobs \subseteq JobIds /\ CompletedJobs' \subseteq JobIds
  BY DEF CompletedJobs
<1>6. QED
  BY <1>2, <1>3, <1>4, <1>5

\* A step of an execution is a step of the pool or a stutter: it completes the
\* job it holds, lets go of it, or changes neither.
LEMMA PoolStep ==
    ASSUME CoreInv, CoreInv', PollInv, HistoryInv, HistoryInv', PromptDatabase,
           NEW e \in Executions, Step(e) \/ StatementFails(e)
    PROVE  [Pool!Next]_<<HeldJobs, CompletedJobs>>
<1>1. exec[e].job \in JobIds
  BY StepEffect DEF Busy, CoreInv, WellFormed, ExecutionWellFormed
<1>2. PICK j \in JobIds : j = exec[e].job
  BY <1>1
<1>3. j \in HeldJobs /\ HeldJobs' \in {HeldJobs, HeldJobs \ {j}}
  BY <1>2, StepHeld
<1>4. CASE CompletedJobs' = CompletedJobs
  <2>1. CASE HeldJobs' = HeldJobs
    BY <1>4, <2>1
  <2>2. CASE HeldJobs' = HeldJobs \ {j}
    <3>1. Pool!GiveBack(j)
      BY <1>3, <1>4, <2>2 DEF Pool!GiveBack
    <3>2. QED
      BY <3>1 DEF Pool!Next
  <2>3. QED
    BY <1>3, <2>1, <2>2
<1>5. CASE j \notin CompletedJobs /\ CompletedJobs' = CompletedJobs \cup {j}
  <2>1. Pool!Complete(j)
    BY <1>3, <1>5 DEF Pool!Complete
  <2>2. QED
    BY <2>1 DEF Pool!Next
<1>6. QED
  BY <1>2, <1>4, <1>5, StepCompleted

\* A poll takes jobs nobody holds and no run of which completed, as many as
\* there are slots.
LEMMA PoolTake ==
    ASSUME CoreInv, CoreInv', PollInv, PollInv', HistoryInv, PromptDatabase,
           NEW t \in Ticks, PollFetch(t)
    PROVE  [Pool!Next]_<<HeldJobs, CompletedJobs>>
<1>1. PICK b \in SUBSET JobIds :
        /\ \A j \in b : jobs[j].status = "pending"
        /\ \A e \in Executions :
             \/ exec'[e] = exec[e]
             \/ e \notin Busy /\ exec'[e].pc = "claim" /\ exec'[e].job \in b
        /\ \A j \in b :
             \E e \in Executions : exec'[e].pc = "claim" /\ exec'[e].job = j
  BY PollFetchEffect
<1>2. UNCHANGED runs /\ polling[t] > 0
  BY DEF PollFetch, rows
<1>3. CompletedJobs' = CompletedJobs
  BY <1>2 DEF CompletedJobs
<1>4. b \cap HeldJobs = {}
  <2>1. \A e \in Busy : jobs[exec[e].job].status # "pending"
    BY <1>2 DEF PollInv, ClaimedIsNotPending, ClaimsBeforePolls, Busy
  <2>2. QED
    BY <1>1, <2>1 DEF HeldJobs
<1>5. b \cap CompletedJobs = {}
  <2>1. ASSUME NEW j \in b PROVE j \notin CompletedJobs
    <3>1. JobHistory(j) /\ Closed(j)
      BY <1>1 DEF HistoryInv, JobHistory
    <3>2. Len(runs[j]) \in Nat
      BY LenProperties DEF CoreInv, TypeOK
    <3>3. ~LastIs(j, "completed")
      BY <3>1, <3>2 DEF Closed, LastIs
    <3>4. QED
      BY <3>1, <3>3, CompletedLast
  <2>2. QED
    BY <2>1
<1>6. HeldJobs' = HeldJobs \cup b
  <2>1. Busy \subseteq Busy' /\ \A e \in Busy : exec'[e] = exec[e]
    BY <1>1 DEF Busy
  <2>2. HeldJobs \subseteq HeldJobs'
    BY <2>1 DEF HeldJobs
  <2>3. b \subseteq HeldJobs'
    BY <1>1 DEF HeldJobs, Busy
  <2>4. HeldJobs' \subseteq HeldJobs \cup b
    BY <1>1 DEF HeldJobs, Busy
  <2>5. QED
    BY <2>2, <2>3, <2>4
<1>7. Cardinality(HeldJobs') <= MAX_CONCURRENT_JOBS
  <2>1. (CoreInv => Cardinality(HeldJobs) <= Cardinality(Busy))'
    BY HeldBound, PTL
  <2>2. Cardinality(Busy') = activeJobs' /\ activeJobs' \in Int
    BY DEF CoreInv, CountInv, SlotsAccounted, TypeOK
  <2>3. activeJobs' <= MAX_CONCURRENT_JOBS
    BY DEF PollInv, SlotsReserved
  <2>4. IsFiniteSet(HeldJobs')
    <3> DEFINE f == [e \in Busy' |-> exec'[e].job]
    <3>1. f \in Surjection(Busy', HeldJobs')
      BY DEF Surjection, HeldJobs
    <3>2. QED
      BY <3>1, FS_Surjection DEF CoreInv, CountInv
  <2>5. Cardinality(HeldJobs') \in Nat
    BY <2>4, FS_CardinalityType
  <2>6. QED
    BY <2>1, <2>2, <2>3, <2>5, CollectionAssumption
<1>8. Pool!Take(b)
  <2>1. b \cap (HeldJobs \cup CompletedJobs) = {}
    BY <1>4, <1>5
  <2>2. Cardinality(HeldJobs \cup b) <= MAX_CONCURRENT_JOBS
    BY <1>6, <1>7
  <2>3. Pool!Cardinality(HeldJobs \cup b) = Cardinality(HeldJobs \cup b)
    BY DEF Pool!Cardinality, Cardinality
  <2>4. QED
    BY <1>3, <1>6, <2>1, <2>2, <2>3 DEF Pool!Take
<1>9. QED
  BY <1>8 DEF Pool!Next

\* Deleting a connection only forgets which of its jobs were completed.
LEMMA PoolForget ==
    ASSUME CoreInv, NEW c \in Connections, DeleteConnection(c)
    PROVE  [Pool!Next]_<<HeldJobs, CompletedJobs>>
<1> DEFINE gone == {j \in JobIds : jobs[j].conn = c}
<1>1. /\ UNCHANGED exec
      /\ \A j \in gone : runs'[j] = <<>>
      /\ \A j \in JobIds \ gone : runs'[j] = runs[j]
  BY DEF DeleteConnection, runner
<1>2. HeldJobs' = HeldJobs
  BY <1>1 DEF HeldJobs, Busy
<1>3. \A j \in gone : j \notin CompletedJobs'
  BY <1>1 DEF CompletedJobs
<1>4. \A j \in JobIds \ gone : j \in CompletedJobs' <=> j \in CompletedJobs
  BY <1>1, CompletedFrame
<1>5. CompletedJobs \subseteq JobIds /\ CompletedJobs' \subseteq JobIds
  BY DEF CompletedJobs
<1>6. CompletedJobs' = CompletedJobs \ gone
  BY <1>3, <1>4, <1>5
<1>7. Pool!Forget(gone)
  BY <1>2, <1>6 DEF Pool!Forget
<1>8. QED
  BY <1>7 DEF Pool!Next

\* The executions of the runner implement the bounded pool of module WorkPool,
\* with the jobs they hold as its held items and the jobs one of whose runs
\* completed as its completed ones: a job is handed out only while nobody holds
\* it and never again after it completed (runner/index.ts, processJobs and
\* executeJob), whatever users, faults and crashes do.
THEOREM PoolImplemented ==
    ASSUME PromptDatabase
    PROVE  Spec => PoolSpec
<1>1. Init => Pool!Init
  BY DEF Init, Pool!Init, HeldJobs, CompletedJobs, Busy, NoExecution
<1>2. CoreInv /\ CoreInv' /\ PollInv /\ PollInv' /\ HistoryInv /\ HistoryInv'
      /\ [Next]_vars => [Pool!Next]_<<HeldJobs, CompletedJobs>>
  <2> SUFFICES ASSUME CoreInv, CoreInv', PollInv, PollInv', HistoryInv,
                      HistoryInv', [Next]_vars
               PROVE  [Pool!Next]_<<HeldJobs, CompletedJobs>>
    OBVIOUS
  <2>1. CASE UNCHANGED vars
    BY <2>1 DEF vars, HeldJobs, CompletedJobs, Busy
  <2>2. CASE OutsideStep
    BY <2>2, OutsideRows DEF HeldJobs, CompletedJobs, Busy
  <2>3. ASSUME NEW c \in Connections, DeleteConnection(c)
        PROVE  [Pool!Next]_<<HeldJobs, CompletedJobs>>
    BY <2>3, PoolForget
  <2>4. ASSUME NEW t \in Ticks, PollFetch(t)
        PROVE  [Pool!Next]_<<HeldJobs, CompletedJobs>>
    BY <2>4, PoolTake
  <2>5. ASSUME NEW e \in Executions, Step(e) \/ StatementFails(e)
        PROVE  [Pool!Next]_<<HeldJobs, CompletedJobs>>
    BY <2>5, PoolStep
  <2>6. CASE Crash
    <3>1. HeldJobs' = {} /\ CompletedJobs' = CompletedJobs
      BY <2>6 DEF Crash, HeldJobs, CompletedJobs, Busy, NoExecution, rows
    <3>2. QED
      BY <3>1 DEF Pool!Next, Pool!LoseHolders
  <2>7. QED
    BY <2>1, <2>2, <2>3, <2>4, <2>5, <2>6 DEF Next, OutsideStep
<1>3. QED
  BY <1>1, <1>2, CoreInvariant, PollInvariant, HistoryInvariant, PTL
  DEF Spec, PoolSpec, Pool!Spec
=============================================================================
