---------------------------- MODULE ImportJobProofs ----------------------------
(***************************************************************************)
(* Safety of ImportJob for any number of jobs, processes and handlers, any *)
(* thresholds and any bounds.                                              *)
(*                                                                         *)
(* The argument counts: while a job is not finished, its handlers and its  *)
(* waiting message together are one, and one more for each delivery that   *)
(* overlapped with another (Deliveries).  Only those who found the job     *)
(* pending import it, and none does so once it is started; so the claims   *)
(* that are open when it starts bound the imports (Claims).                *)
(***************************************************************************)
EXTENDS ImportJob, FiniteSetTheorems, TLAPS

\* 1 for a message waiting to be delivered.
Visible(j) == IF queue[j].place = "visible" THEN 1 ELSE 0

\* The handlers that have found the job pending and will still import it.
Claimants(j) == {h \in HandlersOf(j) : handlers[h].pc \in {"start", "parse"}}

\* Where a handler has started the job.
Working == {"parse", "insert", "finish", "markFailed"}

\* A hidden message has time left.
HiddenTime == \A j \in Jobs : queue[j].place = "hidden" => queue[j].hidden >= 1

\* A handler at work has a job.
Busyness ==
    \A h \in Handlers : handlers[h].pc # "idle" <=> handlers[h].job \in Jobs

\* A job that is not started has no traces of a run.
Unstarted ==
    \A j \in Jobs :
      /\ jobs[j].status = "none" => HandlersOf(j) = {} /\ queue[j].place = "absent"
      /\ jobs[j].status \in {"none", "pending"} =>
           ImportsOf(j) = {} /\ \A h \in HandlersOf(j) : handlers[h].pc \notin Working

\* Each further delivery of a job at hand is counted.
Deliveries ==
    \A j \in Jobs : jobs[j].status # "none" =>
      Cardinality(HandlersOf(j)) + Visible(j) <= 1 + redelivered[j]

\* Once started, a job is imported by those who found it pending only.
Claims ==
    \A j \in Jobs : jobs[j].status \notin {"none", "pending"} =>
      Cardinality(ImportsOf(j)) + Cardinality(Claimants(j)) <= 1 + redelivered[j]

\* A handler works on the questionnaire it created for its job.
OwnQuestionnaire ==
    \A h \in Handlers : handlers[h].pc \in {"insert", "finish"} =>
      /\ handlers[h].questionnaire \in Questionnaires
      /\ imported[handlers[h].questionnaire].job = handlers[h].job
      /\ handlers[h].pc = "finish" => imported[handlers[h].questionnaire].whole

\* Nobody is left to overwrite the outcome of an import.
Settled ==
    \A j \in Jobs :
      jobs[j].status \in {"completed", "partial"} /\ redelivered[j] = 0 =>
        \A h \in HandlersOf(j) :
          handlers[h].pc \in {"publish", "lookup", "read", "ack"}

ImportInv ==
    /\ TypeOK
    /\ HiddenTime
    /\ Busyness
    /\ Unstarted
    /\ Deliveries
    /\ Claims
    /\ OwnQuestionnaire
    /\ ImportedIsWhole
    /\ Settled
-----------------------------------------------------------------------------
(***************************************************************************)
(* Counting handlers and imports.                                          *)
(***************************************************************************)

\* All counted sets are finite, so that a part has no more elements.
LEMMA Part ==
  ASSUME NEW T, IsFiniteSet(T), NEW S \in SUBSET T
  PROVE  /\ Cardinality(S) \in Nat /\ Cardinality(T) \in Nat
         /\ Cardinality(S) <= Cardinality(T)
BY FS_Subset, FS_CardinalityType

\* One more handler, one more in the count at most.
LEMMA OneMore ==
  ASSUME NEW T, IsFiniteSet(T), NEW x, NEW S, S \subseteq T \cup {x}
  PROVE  /\ Cardinality(S) \in Nat
         /\ Cardinality(S) <= Cardinality(T) + 1
<1>1. /\ IsFiniteSet(T \cup {x})
      /\ Cardinality(T \cup {x}) <= Cardinality(T) + 1
  <2>1. Cardinality(T) \in Nat
    BY FS_CardinalityType
  <2>2. QED
    BY <2>1, FS_AddElement
<1>2. QED
  BY <1>1, Part

\* One of the handlers is gone.
LEMMA OneLess ==
  ASSUME NEW T, IsFiniteSet(T), NEW x \in T, NEW S, S \subseteq T \ {x}
  PROVE  /\ Cardinality(S) \in Nat
         /\ Cardinality(S) + 1 <= Cardinality(T)
<1>1. /\ IsFiniteSet(T \ {x})
      /\ Cardinality(T \ {x}) = Cardinality(T) - 1
      /\ Cardinality(T) \in Nat
  BY FS_RemoveElement, FS_CardinalityType
<1>2. QED
  BY <1>1, Part

\* The counted sets are finite.
LEMMA Counted ==
  ASSUME ImportInv
  PROVE  \A j \in Jobs :
           /\ IsFiniteSet(HandlersOf(j)) /\ Cardinality(HandlersOf(j)) \in Nat
           /\ IsFiniteSet(ImportsOf(j)) /\ Cardinality(ImportsOf(j)) \in Nat
           /\ IsFiniteSet(Claimants(j)) /\ Cardinality(Claimants(j)) \in Nat
           /\ Claimants(j) \subseteq HandlersOf(j)
BY ImportAssumption, FS_Subset, FS_CardinalityType
   DEF HandlersOf, ImportsOf, Claimants
-----------------------------------------------------------------------------
(***************************************************************************)
(* Types.                                                                  *)
(***************************************************************************)
LEMMA InitImportInv == Init => ImportInv
<1> SUFFICES ASSUME Init PROVE ImportInv
  OBVIOUS
<1>1. TypeOK
  BY ImportAssumption DEF Init, TypeOK, Job, Questionnaire, Message, Handler,
     IdleHandler
<1>2. Busyness /\ HiddenTime
  BY ImportAssumption DEF Init, Busyness, HiddenTime, IdleHandler
<1>3. Unstarted
  BY ImportAssumption DEF Init, Unstarted, HandlersOf, ImportsOf, IdleHandler
<1>4. Deliveries /\ Claims /\ OwnQuestionnaire /\ ImportedIsWhole /\ Settled
  BY DEF Init, Deliveries, Claims, OwnQuestionnaire, ImportedIsWhole, Settled,
     IdleHandler
<1>5. QED
  BY <1>1, <1>2, <1>3, <1>4 DEF ImportInv

Pcs == {"idle", "publish", "lookup", "failStuck", "read", "start", "parse",
        "insert", "finish", "markFailed", "ack"}

\* A handler that goes on changes its program counter only.
LEMMA GoesOn ==
  ASSUME TypeOK, NEW h \in Handlers, NEW pc \in Pcs, Goto(h, pc)
  PROVE  /\ handlers' \in [Handlers -> Handler]
         /\ handlers'[h].pc = pc /\ handlers'[h].job = handlers[h].job
         /\ handlers'[h].questionnaire = handlers[h].questionnaire
         /\ \A g \in Handlers \ {h} : handlers'[g] = handlers[g]
<1> DEFINE x == [handlers[h] EXCEPT !.pc = pc]
<1>1. handlers \in [Handlers -> Handler] /\ handlers[h] \in Handler
  BY DEF TypeOK
<1>2. /\ x \in Handler /\ x.pc = pc /\ x.job = handlers[h].job
      /\ x.questionnaire = handlers[h].questionnaire
  BY <1>1 DEF Handler, Pcs
<1>3. handlers' = [handlers EXCEPT ![h] = x]
  BY DEF Goto
<1> HIDE DEF x
<1>4. QED
  BY <1>1, <1>2, <1>3

\* A handler that is done is idle again.
LEMMA Leaves ==
  ASSUME TypeOK, NEW h \in Handlers, Leave(h)
  PROVE  /\ handlers' \in [Handlers -> Handler]
         /\ handlers'[h] = IdleHandler
         /\ \A g \in Handlers \ {h} : handlers'[g] = handlers[g]
<1>1. IdleHandler \in Handler
  BY DEF IdleHandler, Handler
<1>2. QED
  BY <1>1 DEF TypeOK, Leave

\* Fields of an idle handler, which has no job.
LEMMA Idle ==
  /\ IdleHandler \in Handler /\ IdleHandler.pc = "idle" /\ IdleHandler.job = None
  /\ IdleHandler.job \notin Jobs
BY ImportAssumption DEF IdleHandler, Handler

\* Writing the status and the age of a job.
LEMMA JobType ==
  ASSUME TypeOK, NEW j \in Jobs
  PROVE  /\ jobs[j] \in Job
         /\ \A s \in {"none", "pending", "running", "completed", "partial", "failed"} :
              /\ [jobs[j] EXCEPT !.status = s] \in Job
              /\ [jobs[j] EXCEPT !.status = s, !.age = 0] \in Job
              /\ \A q \in Questionnaires \cup {None} :
                   [jobs[j] EXCEPT !.status = s, !.questionnaire = q] \in Job
<1>1. jobs[j] \in Job
  BY DEF TypeOK
<1>2. 0 \in 0..STALE_PENDING + 1
  BY ImportAssumption
<1>3. QED
  BY <1>1, <1>2 DEF Job

\* Writing the place of a message and how long it is hidden.
LEMMA VisibleMessage ==
  ASSUME NEW m \in Message, NEW n \in 0..VisibilityTimeout,
         NEW x, x = [m EXCEPT !.place = "visible", !.hidden = n]
  PROVE  x \in Message /\ x.place = "visible"
BY DEF Message

LEMMA HiddenMessage ==
  ASSUME NEW m \in Message, NEW n \in 0..VisibilityTimeout,
         NEW x, x = [m EXCEPT !.place = "hidden", !.hidden = n]
  PROVE  x \in Message /\ x.hidden = n
BY DEF Message

\* The steps of one handler keep the types.
LEMMA HandlerStepType ==
  ASSUME ImportInv, NEW h \in Handlers,
         HandlerStep(h) \/ PublishFails(h) \/ RunFails(h) \/ HandlerThrows(h)
  PROVE  TypeOK' /\ HiddenTime'
<1> USE ImportAssumption DEF ImportInv
<1>0. /\ handlers[h] \in Handler /\ handlers[h].pc # "idle"
      /\ handlers[h].job \in Jobs
      /\ handlers[h].pc \in {"insert", "finish"} =>
           handlers[h].questionnaire \in Questionnaires
  <2>1. handlers[h] \in Handler
    BY DEF TypeOK
  <2>2. handlers[h].pc # "idle"
    BY DEF HandlerStep, PublishFails, RunFails, HandlerThrows, Publish, Lookup,
       failStuckJob, Acknowledge, ReadStatus, Start, Fail, CreateQuestionnaire,
       InsertQuestions, Finish
  <2>3. QED
    BY <2>1, <2>2 DEF Busyness, OwnQuestionnaire
<1>1. CASE Publish(h) \/ PublishFails(h)
  <2>1. handlers' \in [Handlers -> Handler]
    BY <1>1, GoesOn, Leaves DEF Publish, PublishFails, Pcs
  <2>2. [queue[handlers[h].job] EXCEPT !.place = "visible"] \in Message
    BY <1>0 DEF TypeOK, Message
  <2>3. queue' \in [Jobs -> Message] /\ HiddenTime'
    BY <1>0, <1>1, <2>2 DEF Publish, PublishFails, TypeOK, HiddenTime, Message
  <2>4. redelivered' \in [Jobs -> 0..MaxRedeliveries]
    BY <1>0, <1>1 DEF Publish, PublishFails, Redelivery, TypeOK
  <2>5. faults' \in 0..MaxFaults
    BY <1>1 DEF Publish, PublishFails, TypeOK
  <2>6. QED
    BY <1>1, <2>1, <2>3, <2>4, <2>5 DEF Publish, PublishFails, TypeOK
<1>2. CASE Lookup(h) \/ ReadStatus(h)
  <2>1. handlers' \in [Handlers -> Handler]
    BY <1>2, GoesOn DEF Lookup, ReadStatus, Pcs, Verdict
  <2>2. QED
    BY <1>2, <2>1 DEF Lookup, ReadStatus, TypeOK, HiddenTime
<1>3. CASE failStuckJob(h) \/ Start(h) \/ Fail(h) \/ Finish(h)
  <2>1. handlers' \in [Handlers -> Handler]
    BY <1>3, GoesOn DEF failStuckJob, Start, Fail, Finish, Pcs
  <2>2. jobs' \in [Jobs -> Job]
    <3>1. CASE failStuckJob(h)
      BY <1>0, <3>1, JobType DEF failStuckJob, Interrupted, TypeOK
    <3>2. CASE Start(h)
      BY <1>0, <3>2, JobType DEF Start, TypeOK
    <3>3. CASE Fail(h)
      BY <1>0, <3>3, JobType DEF Fail, TypeOK
    <3>4. CASE Finish(h)
      <4>1. handlers[h].questionnaire \in Questionnaires
        BY <1>0, <3>4 DEF Finish
      <4>2. PICK s \in {"completed", "partial"} :
              jobs' = [jobs EXCEPT
                         ![handlers[h].job].status = s,
                         ![handlers[h].job].questionnaire = handlers[h].questionnaire]
        BY <3>4 DEF Finish
      <4>3. [jobs[handlers[h].job] EXCEPT
               !.status = s, !.questionnaire = handlers[h].questionnaire] \in Job
        BY <1>0, <4>1, JobType
      <4>4. QED
        BY <1>0, <4>2, <4>3 DEF TypeOK
    <3>5. QED
      BY <1>3, <3>1, <3>2, <3>3, <3>4
  <2>3. QED
    BY <1>3, <2>1, <2>2
    DEF failStuckJob, Start, Fail, Finish, TypeOK, HiddenTime
<1>4. CASE Acknowledge(h)
  <2>1. handlers' \in [Handlers -> Handler]
    BY <1>4, Leaves DEF Acknowledge
  <2>2. [place |-> "absent", hidden |-> 0, receiver |-> None] \in Message
    BY DEF Message
  <2>3. queue' \in [Jobs -> Message] /\ HiddenTime'
    BY <1>0, <1>4, <2>2 DEF Acknowledge, TypeOK, HiddenTime
  <2>4. QED
    BY <1>4, <2>1, <2>3 DEF Acknowledge, TypeOK
<1>5. CASE CreateQuestionnaire(h)
  <2>1. PICK q \in Questionnaires :
          /\ imported' = [imported EXCEPT ![q].job = handlers[h].job]
          /\ handlers' = [handlers EXCEPT ![h].pc = "insert",
                                          ![h].questionnaire = q]
    BY <1>5 DEF CreateQuestionnaire
  <2>2. [handlers[h] EXCEPT !.pc = "insert", !.questionnaire = q] \in Handler
    BY <1>0 DEF Handler
  <2>3. handlers' \in [Handlers -> Handler]
    BY <2>1, <2>2 DEF TypeOK
  <2>4. imported' \in [Questionnaires -> Questionnaire]
    BY <1>0, <2>1 DEF TypeOK, Questionnaire
  <2>5. QED
    BY <1>5, <2>3, <2>4 DEF CreateQuestionnaire, TypeOK, HiddenTime
<1>6. CASE InsertQuestions(h)
  <2>1. handlers' \in [Handlers -> Handler]
    BY <1>6, GoesOn DEF InsertQuestions, Pcs
  <2>2. imported' \in [Questionnaires -> Questionnaire]
    BY <1>0, <1>6 DEF InsertQuestions, TypeOK, Questionnaire
  <2>3. QED
    BY <1>6, <2>1, <2>2 DEF InsertQuestions, TypeOK, HiddenTime
<1>7. CASE RunFails(h) \/ HandlerThrows(h)
  <2>1. handlers' \in [Handlers -> Handler]
    BY <1>7, GoesOn, Leaves DEF RunFails, HandlerThrows, Pcs
  <2>2. faults' \in 0..MaxFaults
    BY <1>7 DEF RunFails, HandlerThrows, TypeOK
  <2>3. QED
    BY <1>7, <2>1, <2>2 DEF RunFails, HandlerThrows, TypeOK, HiddenTime
<1>8. QED
  BY <1>1, <1>2, <1>3, <1>4, <1>5, <1>6, <1>7 DEF HandlerStep

\* So do the request, the queue, the workers and time.
LEMMA OtherStepType ==
  ASSUME ImportInv,
         \/ \E j \in Jobs, i \in Instances, h \in Handlers : Upload(j, i, h)
         \/ \E i \in Instances :
              Poll(i) \/ Crash(i) \/ Boot(i) \/ Sweep(i) \/ SweepFails(i)
         \/ \E j \in Jobs : Duplicate(j)
         \/ Tick
  PROVE  TypeOK' /\ HiddenTime'
<1> USE ImportAssumption DEF ImportInv
<1>1. ASSUME NEW j \in Jobs, NEW i \in Instances, NEW h \in Handlers,
             Upload(j, i, h)
      PROVE  TypeOK' /\ HiddenTime'
  <2>1. [IdleHandler EXCEPT !.pc = "publish", !.job = j, !.instance = i] \in Handler
    BY DEF IdleHandler, Handler
  <2>2. handlers' \in [Handlers -> Handler]
    BY <1>1, <2>1 DEF Upload, TypeOK
  <2>3. jobs' \in [Jobs -> Job]
    BY <1>1, JobType DEF Upload, TypeOK
  <2>4. QED
    BY <1>1, <2>2, <2>3 DEF Upload, TypeOK, HiddenTime
<1>2. ASSUME NEW i \in Instances, Poll(i) PROVE TypeOK' /\ HiddenTime'
  <2>1. PICK batch \in SUBSET {j \in Jobs : queue[j].place = "visible"} :
          \E to \in Injection(batch, {h \in Handlers : handlers[h].pc = "idle"}) :
            /\ handlers' = [h \in Handlers |->
                 IF \E j \in batch : to[j] = h
                 THEN [IdleHandler EXCEPT !.pc = "lookup", !.instance = i,
                         !.job = CHOOSE j \in batch : to[j] = h,
                         !.message = TRUE]
                 ELSE handlers[h]]
            /\ queue' = [j \in Jobs |->
                 IF j \in batch
                 THEN [place |-> "hidden", hidden |-> VisibilityTimeout,
                       receiver |-> to[j]]
                 ELSE queue[j]]
    BY <1>2 DEF Poll
  <2>2. PICK to \in Injection(batch, {h \in Handlers : handlers[h].pc = "idle"}) :
            /\ handlers' = [h \in Handlers |->
                 IF \E j \in batch : to[j] = h
                 THEN [IdleHandler EXCEPT !.pc = "lookup", !.instance = i,
                         !.job = CHOOSE j \in batch : to[j] = h,
                         !.message = TRUE]
                 ELSE handlers[h]]
            /\ queue' = [j \in Jobs |->
                 IF j \in batch
                 THEN [place |-> "hidden", hidden |-> VisibilityTimeout,
                       receiver |-> to[j]]
                 ELSE queue[j]]
    BY <2>1
  <2>3. \A j \in batch : to[j] \in Handlers
    BY DEF Injection
  <2>4. \A j \in Jobs :
          [IdleHandler EXCEPT !.pc = "lookup", !.instance = i, !.job = j,
             !.message = TRUE] \in Handler
    BY DEF IdleHandler, Handler
  <2>5. handlers' \in [Handlers -> Handler]
    BY <2>2, <2>4 DEF TypeOK
  <2>6. \A h \in Handlers :
          [place |-> "hidden", hidden |-> VisibilityTimeout, receiver |-> h]
            \in Message
    BY DEF Message
  <2>7. queue' \in [Jobs -> Message]
    BY <2>2, <2>3, <2>6 DEF TypeOK
  <2>8. VisibilityTimeout >= 1
    OBVIOUS
  <2>9. HiddenTime'
    BY <2>2, <2>8 DEF HiddenTime
  <2>10. QED
    BY <1>2, <2>5, <2>7, <2>9 DEF Poll, TypeOK
<1>3. ASSUME NEW i \in Instances, Crash(i) PROVE TypeOK' /\ HiddenTime'
  <2>1. handlers' \in [Handlers -> Handler]
    BY <1>3, Idle DEF Crash, TypeOK
  <2>2. QED
    BY <1>3, <2>1 DEF Crash, TypeOK, HiddenTime
<1>4. ASSUME NEW i \in Instances, Boot(i) \/ SweepFails(i)
      PROVE  TypeOK' /\ HiddenTime'
  BY <1>4 DEF Boot, SweepFails, TypeOK, HiddenTime
<1>5. ASSUME NEW i \in Instances, Sweep(i) PROVE TypeOK' /\ HiddenTime'
  <2>1. jobs' \in [Jobs -> Job]
    BY <1>5, JobType DEF Sweep, Swept, TypeOK
  <2>2. workers' \in [Instances -> {"down", "sweepRunning", "sweepPending", "up"}]
    BY <1>5 DEF Sweep, TypeOK
  <2>3. QED
    BY <1>5, <2>1, <2>2 DEF Sweep, TypeOK, HiddenTime
<1>6. ASSUME NEW j \in Jobs, Duplicate(j) PROVE TypeOK' /\ HiddenTime'
  <2> DEFINE m == [queue[j] EXCEPT !.place = "visible", !.hidden = 0]
  <2>1. m \in Message /\ m.place = "visible"
    <3>1. queue[j] \in Message /\ 0 \in 0..VisibilityTimeout
      BY DEF TypeOK
    <3>2. QED
      BY <3>1, VisibleMessage
  <2>2. queue' = [queue EXCEPT ![j] = m]
    BY <1>6 DEF Duplicate, TypeOK
  <2> HIDE DEF m
  <2>3. queue' \in [Jobs -> Message] /\ HiddenTime'
    BY <2>1, <2>2 DEF TypeOK, HiddenTime
  <2>4. redelivered' \in [Jobs -> 0..MaxRedeliveries]
    BY <1>6 DEF Duplicate, Redelivery, TypeOK
  <2>5. QED
    BY <1>6, <2>3, <2>4 DEF Duplicate, TypeOK
<1>7. ASSUME Tick PROVE TypeOK' /\ HiddenTime'
  <2>1. \A j \in Jobs : Older(j) \in Job
    BY DEF TypeOK, Older, Job
  <2>2. ASSUME NEW j \in Jobs
        PROVE  /\ Sooner(j) \in Message
               /\ Sooner(j).place = "hidden" => Sooner(j).hidden >= 1
    <3>1. queue[j] \in Message /\ (queue[j].place = "hidden" => queue[j].hidden >= 1)
      BY DEF TypeOK, HiddenTime
    <3>2. CASE queue[j].place # "hidden"
      <4>1. Sooner(j) = queue[j]
        BY <3>1, <3>2 DEF Sooner, Expires, Message
      <4>2. QED
        BY <3>1, <3>2, <4>1
    <3> DEFINE n == queue[j].hidden - 1
    <3>3. CASE Expires(j)
      <4>1. Sooner(j) = [queue[j] EXCEPT !.place = "visible", !.hidden = n]
        BY <3>3 DEF Sooner, Expires
      <4>2. n \in 0..VisibilityTimeout
        BY <3>1, <3>3 DEF Expires, Message
      <4> HIDE DEF n
      <4>3. Sooner(j) \in Message /\ Sooner(j).place = "visible"
        BY <3>1, <4>1, <4>2, VisibleMessage
      <4>4. QED
        BY <4>3
    <3>4. CASE queue[j].place = "hidden" /\ queue[j].hidden # 1
      <4>1. Sooner(j) = [queue[j] EXCEPT !.place = "hidden", !.hidden = n]
        BY <3>4 DEF Sooner, Expires
      <4>2. n \in 0..VisibilityTimeout /\ n >= 1
        BY <3>1, <3>4 DEF Message
      <4> HIDE DEF n
      <4>3. Sooner(j) \in Message /\ Sooner(j).hidden = n
        BY <3>1, <4>1, <4>2, HiddenMessage
      <4>4. QED
        BY <4>2, <4>3
    <3>5. QED
      BY <3>2, <3>3, <3>4 DEF Expires
  <2>3. redelivered' \in [Jobs -> 0..MaxRedeliveries]
    BY <1>7 DEF Tick, TypeOK
  <2>4. QED
    BY <1>7, <2>1, <2>2, <2>3 DEF Tick, TypeOK, HiddenTime
<1>8. QED
  BY <1>1, <1>2, <1>3, <1>4, <1>5, <1>6, <1>7
-----------------------------------------------------------------------------
(***************************************************************************)
(* Deliveries.                                                             *)
(***************************************************************************)

\* A visible message counts as one.
LEMMA VisibleCount ==
  /\ \A j \in Jobs : Visible(j) \in {0, 1}
  /\ \A j \in Jobs : Visible(j)' \in {0, 1}
BY DEF Visible

\* What may happen to the handlers and the message of a job: some handlers
\* leave; one leaves and the message shows up; the message is delivered to one.
LEMMA KeepDeliveries ==
  ASSUME ImportInv, TypeOK', NEW j \in Jobs, jobs[j].status # "none",
         \/ /\ HandlersOf(j)' \subseteq HandlersOf(j)
            /\ Visible(j)' - redelivered'[j] <= Visible(j) - redelivered[j]
         \/ \E h \in HandlersOf(j) :
              /\ HandlersOf(j)' \subseteq HandlersOf(j) \ {h}
              /\ Visible(j)' - redelivered'[j] <= Visible(j) + 1 - redelivered[j]
         \/ \E h : /\ HandlersOf(j)' \subseteq HandlersOf(j) \cup {h}
                   /\ Visible(j)' - redelivered'[j] <= Visible(j) - 1 - redelivered[j]
  PROVE  Cardinality(HandlersOf(j)') + Visible(j)' <= 1 + redelivered'[j]
<1> DEFINE H == HandlersOf(j)
           G == HandlersOf(j)'
           v == Visible(j)
           w == Visible(j)'
           r == redelivered[j]
           s == redelivered'[j]
<1>1. IsFiniteSet(H) /\ Cardinality(H) \in Nat
  BY Counted
<1>2. v \in Nat /\ w \in Nat
  BY VisibleCount
<1>3. r \in Nat /\ s \in Nat
  BY ImportAssumption DEF ImportInv, TypeOK
<1>4. Cardinality(H) + v <= 1 + r
  BY DEF ImportInv, Deliveries
<1>5. \/ G \subseteq H /\ w - s <= v - r
      \/ \E h \in H : G \subseteq H \ {h} /\ w - s <= v + 1 - r
      \/ \E h : G \subseteq H \cup {h} /\ w - s <= v - 1 - r
  OBVIOUS
<1> HIDE DEF H, G, v, w, r, s
<1>6. Cardinality(G) + w <= 1 + s
  <2>1. CASE G \subseteq H /\ w - s <= v - r
    <3>1. Cardinality(G) \in Nat /\ Cardinality(G) <= Cardinality(H)
      BY <1>1, <2>1, Part
    <3>2. QED
      BY <1>1, <1>2, <1>3, <1>4, <2>1, <3>1
  <2>2. ASSUME NEW h \in H, G \subseteq H \ {h}, w - s <= v + 1 - r
        PROVE  Cardinality(G) + w <= 1 + s
    <3>1. Cardinality(G) \in Nat /\ Cardinality(G) + 1 <= Cardinality(H)
      BY <1>1, <2>2, OneLess
    <3>2. QED
      BY <1>1, <1>2, <1>3, <1>4, <2>2, <3>1
  <2>3. ASSUME NEW h, G \subseteq H \cup {h}, w - s <= v - 1 - r
        PROVE  Cardinality(G) + w <= 1 + s
    <3>1. Cardinality(G) \in Nat /\ Cardinality(G) <= Cardinality(H) + 1
      BY <1>1, <2>3, OneMore
    <3>2. QED
      BY <1>1, <1>2, <1>3, <1>4, <2>3, <3>1
  <2>4. QED
    BY <1>5, <2>1, <2>2, <2>3
<1>7. QED
  BY <1>6 DEF G, w, s
-----------------------------------------------------------------------------
(***************************************************************************)
(* Steps that import nothing.                                              *)
(***************************************************************************)

\* A job may start or fail, but not finish.
JobMoves(j) ==
  \/ /\ jobs'[j].status = jobs[j].status
     /\ jobs'[j].questionnaire = jobs[j].questionnaire
  \/ /\ jobs[j].status # "none"
     /\ jobs'[j].status \in {"running", "failed"}

\* A handler may stop, get a message, or move on for a reason.
HandlerMoves(h) ==
  \/ handlers'[h] \in {handlers[h], IdleHandler}
  \/ /\ handlers'[h].pc = "lookup"
     /\ handlers'[h].job \in Jobs
     /\ jobs[handlers'[h].job].status # "none"
  \/ /\ handlers[h].job \in Jobs
     /\ handlers'[h].job = handlers[h].job
     /\ \/ handlers'[h].pc \in {"read", "ack"}
        \/ handlers'[h].pc = "start" /\ jobs[handlers[h].job].status = "pending"
        \/ handlers'[h].pc = "failStuck" /\ jobs[handlers[h].job].status = "running"
        \/ /\ handlers'[h].pc = "parse" /\ handlers[h].pc = "start"
           /\ jobs'[handlers[h].job].status = "running"
        \/ handlers'[h].pc = "markFailed" /\ handlers[h].pc \in Working

Quiet ==
  /\ UNCHANGED imported
  /\ \A j \in Jobs : JobMoves(j)
  /\ \A h \in Handlers : HandlerMoves(h)
  /\ \A j \in Jobs : redelivered[j] <= redelivered'[j]
  /\ \A j \in Jobs : jobs[j].status = "none" => queue'[j].place = queue[j].place

\* Such a step keeps what the invariant says of imports.
LEMMA QuietInv ==
  ASSUME ImportInv, TypeOK', HiddenTime', Deliveries', Quiet
  PROVE  ImportInv'
<1> USE DEF ImportInv
<1>1. /\ \A h \in Handlers : handlers[h] \in Handler /\ handlers'[h] \in Handler
      /\ \A j \in Jobs : /\ redelivered[j] \in Nat /\ redelivered'[j] \in Nat
                         /\ redelivered[j] <= redelivered'[j]
      /\ \A j \in Jobs : JobMoves(j)
      /\ \A h \in Handlers : HandlerMoves(h)
      /\ \A j \in Jobs : ImportsOf(j)' = ImportsOf(j)
  BY ImportAssumption DEF TypeOK, Quiet, ImportsOf
<1>2. Busyness'
  BY <1>1, Idle DEF Busyness, HandlerMoves, Working
<1>3. Unstarted'
  <2> SUFFICES ASSUME NEW j \in Jobs
               PROVE  /\ jobs'[j].status = "none" =>
                           HandlersOf(j)' = {} /\ queue'[j].place = "absent"
                      /\ jobs'[j].status \in {"none", "pending"} =>
                           /\ ImportsOf(j)' = {}
                           /\ \A h \in HandlersOf(j)' : handlers'[h].pc \notin Working
    BY DEF Unstarted
  <2>1. jobs'[j].status \in {"none", "pending"} => jobs'[j].status = jobs[j].status
    BY <1>1 DEF JobMoves
  <2>2. ASSUME jobs'[j].status = "none"
        PROVE  HandlersOf(j)' = {} /\ queue'[j].place = "absent"
    <3>1. jobs[j].status = "none" /\ HandlersOf(j) = {} /\ queue[j].place = "absent"
      BY <2>1, <2>2 DEF Unstarted
    <3>2. \A h \in Handlers : handlers'[h].job # j
      BY <1>1, <3>1, Idle DEF HandlerMoves, HandlersOf
    <3>3. QED
      BY <3>1, <3>2 DEF HandlersOf, Quiet
  <2>3. ASSUME jobs'[j].status \in {"none", "pending"}
        PROVE  /\ ImportsOf(j)' = {}
               /\ \A h \in HandlersOf(j)' : handlers'[h].pc \notin Working
    <3>1. /\ ImportsOf(j) = {}
          /\ \A h \in Handlers : handlers[h].job = j => handlers[h].pc \notin Working
      BY <2>1, <2>3 DEF Unstarted, HandlersOf
    <3>2. \A h \in Handlers : handlers'[h].job = j => handlers'[h].pc \notin Working
      BY <1>1, <2>3, <3>1, Idle DEF HandlerMoves, Working
    <3>3. QED
      BY <1>1, <3>1, <3>2 DEF HandlersOf
  <2>4. QED
    BY <2>2, <2>3
<1>4. Claims'
  <2> SUFFICES ASSUME NEW j \in Jobs, jobs'[j].status \notin {"none", "pending"}
               PROVE  Cardinality(ImportsOf(j)') + Cardinality(Claimants(j)')
                        <= 1 + redelivered'[j]
    BY DEF Claims
  <2>1. CASE jobs[j].status \notin {"none", "pending"}
    <3>1. Claimants(j)' \subseteq Claimants(j)
      BY <1>1, <2>1, Idle DEF Claimants, HandlersOf, HandlerMoves
    <3>2. /\ Cardinality(Claimants(j)') \in Nat
          /\ Cardinality(Claimants(j)') <= Cardinality(Claimants(j))
      BY <3>1, Counted, Part
    <3>3. Cardinality(ImportsOf(j)) + Cardinality(Claimants(j)) <= 1 + redelivered[j]
      BY <2>1 DEF Claims
    <3>4. QED
      BY <1>1, <3>2, <3>3, Counted
  <2>2. CASE jobs[j].status \in {"none", "pending"}
    <3>1. ImportsOf(j)' = {}
      BY <1>1, <2>2 DEF Unstarted
    <3>2. Claimants(j)' \subseteq HandlersOf(j)' /\ HandlersOf(j)' \subseteq Handlers
      BY DEF Claimants, HandlersOf
    <3>3. IsFiniteSet(HandlersOf(j)')
      BY <3>2, ImportAssumption, FS_Subset
    <3>4. /\ Cardinality(Claimants(j)') \in Nat /\ Cardinality(HandlersOf(j)') \in Nat
          /\ Cardinality(Claimants(j)') <= Cardinality(HandlersOf(j)')
      BY <3>2, <3>3, Part
    <3>5. Cardinality(HandlersOf(j)') + Visible(j)' <= 1 + redelivered'[j]
      BY DEF Deliveries
    <3>6. Cardinality(ImportsOf(j)') = 0
      BY <3>1, FS_EmptySet
    <3>7. QED
      BY <1>1, <3>4, <3>5, <3>6, VisibleCount
  <2>3. QED
    BY <2>1, <2>2
<1>5. OwnQuestionnaire'
  BY <1>1, Idle DEF OwnQuestionnaire, HandlerMoves, Quiet
<1>6. ImportedIsWhole'
  BY <1>1 DEF ImportedIsWhole, JobMoves, Quiet
<1>7. Settled'
  <2> SUFFICES ASSUME NEW j \in Jobs, jobs'[j].status \in {"completed", "partial"},
                      redelivered'[j] = 0, NEW h \in Handlers, handlers'[h].job = j
               PROVE  handlers'[h].pc \in {"publish", "lookup", "read", "ack"}
    BY DEF Settled, HandlersOf
  <2>1. jobs[j].status = jobs'[j].status /\ redelivered[j] = 0
    BY <1>1 DEF JobMoves
  <2>2. handlers[h].job = j =>
          handlers[h].pc \in {"publish", "lookup", "read", "ack"}
    BY <2>1 DEF Settled, HandlersOf
  <2>3. QED
    BY <1>1, <2>1, <2>2, Idle DEF HandlerMoves, Working
<1>8. QED
  BY <1>2, <1>3, <1>4, <1>5, <1>6, <1>7

\* A handler that steps is busy with a job that exists.
LEMMA AtWork ==
  ASSUME ImportInv, NEW h \in Handlers, handlers[h].pc # "idle"
  PROVE  /\ handlers[h].job \in Jobs
         /\ jobs[handlers[h].job].status # "none"
         /\ h \in HandlersOf(handlers[h].job)
         /\ handlers[h].pc \in Working =>
              jobs[handlers[h].job].status \notin {"none", "pending"}
BY DEF ImportInv, Busyness, Unstarted, HandlersOf

\* A handler that goes on keeps its job, one that leaves drops it.
LEMMA HandlersAfter ==
  ASSUME ImportInv, NEW h \in Handlers, handlers[h].pc # "idle"
  PROVE  /\ \A pc \in Pcs :
              Goto(h, pc) => \A k \in Jobs : HandlersOf(k)' = HandlersOf(k)
         /\ Leave(h) => \A k \in Jobs : HandlersOf(k)' = HandlersOf(k) \ {h}
<1> USE DEF ImportInv
<1>1. ASSUME NEW pc \in Pcs, Goto(h, pc)
      PROVE  \A k \in Jobs : HandlersOf(k)' = HandlersOf(k)
  BY <1>1, GoesOn DEF HandlersOf
<1>2. ASSUME Leave(h)
      PROVE  \A k \in Jobs : HandlersOf(k)' = HandlersOf(k) \ {h}
  BY <1>2, Leaves, Idle DEF HandlersOf
<1>3. QED
  BY <1>1, <1>2

\* Steps of a handler that leave the number of messages alone.
LEMMA StepDeliveries ==
  ASSUME ImportInv, TypeOK',
         \A j \in Jobs : HandlersOf(j)' \subseteq HandlersOf(j),
         \A j \in Jobs : Visible(j)' <= Visible(j),
         \A j \in Jobs : jobs'[j].status # "none" => jobs[j].status # "none",
         UNCHANGED redelivered
  PROVE  Deliveries'
<1> SUFFICES ASSUME NEW j \in Jobs, jobs'[j].status # "none"
             PROVE  Cardinality(HandlersOf(j)') + Visible(j)' <= 1 + redelivered'[j]
  BY DEF Deliveries
<1>1. redelivered[j] \in Nat
  BY ImportAssumption DEF ImportInv, TypeOK
<1>2. Visible(j)' - redelivered'[j] <= Visible(j) - redelivered[j]
  BY <1>1, VisibleCount
<1>3. QED
  BY <1>2, KeepDeliveries

\* A publish: the message takes the place of the handler, or is one more.
LEMMA PublishInv ==
  ASSUME ImportInv, TypeOK', HiddenTime', NEW h \in Handlers,
         Publish(h) \/ PublishFails(h)
  PROVE  ImportInv'
<1> USE DEF ImportInv
<1>1. handlers[h].pc = "publish" /\ handlers[h].pc # "idle"
  BY DEF Publish, PublishFails
<1>0. PICK j \in Jobs : j = handlers[h].job
  BY <1>1, AtWork
<1>2. /\ j = handlers[h].job /\ jobs[j].status # "none" /\ h \in HandlersOf(j)
      /\ \A k \in Jobs : redelivered[k] \in Nat
      /\ queue \in [Jobs -> Message]
  BY <1>0, <1>1, AtWork, ImportAssumption DEF TypeOK
<1>3. /\ UNCHANGED <<jobs, imported>>
      /\ \A k \in Jobs \ {j} : queue'[k] = queue[k] /\ redelivered'[k] = redelivered[k]
      /\ redelivered[j] <= redelivered'[j]
  BY <1>2 DEF Publish, PublishFails, Redelivery, TypeOK
<1>4. \A g \in Handlers : HandlerMoves(g)
  BY <1>1, <1>2, GoesOn, Leaves DEF Publish, PublishFails, HandlerMoves, Pcs
<1>5. Quiet
  BY <1>2, <1>3, <1>4 DEF Quiet, JobMoves
<1>6. \A k \in Jobs : HandlersOf(k)' \subseteq HandlersOf(k)
  BY <1>1, HandlersAfter DEF Publish, PublishFails, Pcs
<1>7. \/ /\ HandlersOf(j)' \subseteq HandlersOf(j) \ {h}
         /\ redelivered'[j] = redelivered[j]
      \/ Visible(j)' = Visible(j) /\ redelivered'[j] = redelivered[j]
      \/ redelivered'[j] = redelivered[j] + 1
  <2>1. CASE Publish(h)
    BY <1>1, <1>2, <2>1, HandlersAfter DEF Publish
  <2>2. CASE PublishFails(h)
    BY <1>2, <2>2 DEF PublishFails, Redelivery, Visible, TypeOK
  <2>3. QED
    BY <2>1, <2>2
<1>8. Deliveries'
  <2> SUFFICES ASSUME NEW k \in Jobs, jobs'[k].status # "none"
               PROVE  Cardinality(HandlersOf(k)') + Visible(k)' <= 1 + redelivered'[k]
    BY DEF Deliveries
  <2>1. CASE k # j
    <3>1. Visible(k)' = Visible(k) /\ redelivered'[k] = redelivered[k]
      BY <1>3, <2>1 DEF Visible
    <3>2. Visible(k)' - redelivered'[k] <= Visible(k) - redelivered[k]
      BY <1>2, <3>1, VisibleCount
    <3>3. QED
      BY <1>3, <1>6, <3>2, KeepDeliveries
  <2>2. CASE k = j /\ HandlersOf(j)' \subseteq HandlersOf(j) \ {h}
             /\ redelivered'[j] = redelivered[j]
    <3>1. Visible(k)' - redelivered'[k] <= Visible(k) + 1 - redelivered[k]
      BY <1>2, <2>2, VisibleCount
    <3>2. QED
      BY <1>2, <2>2, <3>1, KeepDeliveries
  <2>3. CASE k = j /\ \/ Visible(j)' = Visible(j) /\ redelivered'[j] = redelivered[j]
                      \/ redelivered'[j] = redelivered[j] + 1
    <3>1. Visible(k)' - redelivered'[k] <= Visible(k) - redelivered[k]
      BY <1>2, <2>3, VisibleCount
    <3>2. QED
      BY <1>2, <1>6, <2>3, <3>1, KeepDeliveries
  <2>4. QED
    BY <1>7, <2>1, <2>2, <2>3
<1>9. QED
  BY <1>5, <1>8, QuietInv

\* Statuses are read, jobs start and fail, handlers stop and acknowledge.
LEMMA QuietHandlerInv ==
  ASSUME ImportInv, TypeOK', HiddenTime', NEW h \in Handlers,
         \/ Lookup(h) \/ failStuckJob(h) \/ Acknowledge(h) \/ ReadStatus(h)
         \/ Start(h) \/ Fail(h) \/ RunFails(h) \/ HandlerThrows(h)
  PROVE  ImportInv'
<1> DEFINE j == handlers[h].job
<1> USE DEF ImportInv
<1>1. handlers[h].pc # "idle"
  BY DEF Lookup, failStuckJob, Acknowledge, ReadStatus, Start, Fail, RunFails,
     HandlerThrows
<1>2. /\ j \in Jobs /\ jobs[j].status # "none" /\ h \in HandlersOf(j)
      /\ \A k \in Jobs : jobs[k] \in Job
      /\ \A k \in Jobs : redelivered[k] \in Nat
  BY <1>1, AtWork, ImportAssumption DEF TypeOK
<1>3. UNCHANGED <<imported, redelivered>>
  BY DEF Lookup, failStuckJob, Acknowledge, ReadStatus, Start, Fail, RunFails,
     HandlerThrows
<1>4. /\ \A k \in Jobs \ {j} : jobs'[k] = jobs[k]
      /\ JobMoves(j)
  <2>1. CASE UNCHANGED jobs
    BY <2>1 DEF JobMoves
  <2>2. CASE failStuckJob(h)
    BY <1>2, <2>2 DEF failStuckJob, Interrupted, JobMoves, TypeOK, Job
  <2>3. CASE Start(h)
    BY <1>2, <2>3 DEF Start, JobMoves, TypeOK, Job
  <2>4. CASE Fail(h)
    BY <1>2, <2>4 DEF Fail, JobMoves, TypeOK, Job
  <2>5. QED
    BY <2>1, <2>2, <2>3, <2>4
    DEF Lookup, Acknowledge, ReadStatus, RunFails, HandlerThrows
<1>5. \A k \in Jobs : JobMoves(k)
  BY <1>4 DEF JobMoves
<1>6. \A g \in Handlers : HandlerMoves(g)
  <2>1. CASE Lookup(h)
    BY <1>2, <2>1, GoesOn DEF Lookup, Verdict, HandlerMoves, Pcs
  <2>2. CASE ReadStatus(h)
    BY <1>2, <2>2, GoesOn DEF ReadStatus, HandlerMoves, Pcs
  <2>3. CASE Start(h)
    <3>1. jobs'[j].status = "running"
      BY <1>2, <2>3 DEF Start, TypeOK, Job
    <3>2. QED
      BY <1>2, <2>3, <3>1, GoesOn DEF Start, HandlerMoves, Pcs
  <2>4. CASE failStuckJob(h) \/ Fail(h)
    BY <1>2, <2>4, GoesOn DEF failStuckJob, Fail, HandlerMoves, Pcs
  <2>5. CASE RunFails(h)
    BY <1>2, <2>5, GoesOn DEF RunFails, HandlerMoves, Pcs, Working
  <2>6. CASE Acknowledge(h) \/ HandlerThrows(h)
    BY <2>6, Leaves DEF Acknowledge, HandlerThrows, HandlerMoves
  <2>7. QED
    BY <2>1, <2>2, <2>3, <2>4, <2>5, <2>6
<1>7. \A k \in Jobs : queue'[k] = queue[k] \/ queue'[k].place = "absent"
  BY <1>2
  DEF Lookup, failStuckJob, Acknowledge, ReadStatus, Start, Fail, RunFails,
      HandlerThrows, TypeOK
<1>8. Quiet
  BY <1>2, <1>3, <1>5, <1>6, <1>7 DEF Quiet, Unstarted
<1>9. \A k \in Jobs : HandlersOf(k)' \subseteq HandlersOf(k)
  BY <1>1, HandlersAfter
  DEF Lookup, failStuckJob, Acknowledge, ReadStatus, Start, Fail, RunFails,
      HandlerThrows, Verdict, Pcs
<1>10. \A k \in Jobs : Visible(k)' <= Visible(k)
  BY <1>7 DEF Visible
<1>11. Deliveries'
  BY <1>2, <1>3, <1>4, <1>9, <1>10, StepDeliveries
<1>12. QED
  BY <1>8, <1>11, QuietInv

\* A poll turns waiting messages into handlers.
LEMMA PollInv ==
  ASSUME ImportInv, TypeOK', HiddenTime', NEW i \in Instances, Poll(i)
  PROVE  ImportInv'
<1> USE DEF ImportInv
<1>1. PICK batch \in SUBSET {j \in Jobs : queue[j].place = "visible"} :
        \E to \in Injection(batch, {h \in Handlers : handlers[h].pc = "idle"}) :
          /\ handlers' = [h \in Handlers |->
               IF \E j \in batch : to[j] = h
               THEN [IdleHandler EXCEPT !.pc = "lookup", !.instance = i,
                       !.job = CHOOSE j \in batch : to[j] = h,
                       !.message = TRUE]
               ELSE handlers[h]]
          /\ queue' = [j \in Jobs |->
               IF j \in batch
               THEN [place |-> "hidden", hidden |-> VisibilityTimeout,
                     receiver |-> to[j]]
               ELSE queue[j]]
  BY DEF Poll
<1>2. PICK to :
          /\ handlers' = [h \in Handlers |->
               IF \E j \in batch : to[j] = h
               THEN [IdleHandler EXCEPT !.pc = "lookup", !.instance = i,
                       !.job = CHOOSE j \in batch : to[j] = h,
                       !.message = TRUE]
               ELSE handlers[h]]
          /\ queue' = [j \in Jobs |->
               IF j \in batch
               THEN [place |-> "hidden", hidden |-> VisibilityTimeout,
                     receiver |-> to[j]]
               ELSE queue[j]]
  BY <1>1
<1>3. /\ UNCHANGED <<jobs, imported, redelivered>>
      /\ \A j \in Jobs : redelivered[j] \in Nat
      /\ \A j \in batch : j \in Jobs /\ queue[j].place = "visible"
                          /\ jobs[j].status # "none"
  <2>1. UNCHANGED <<jobs, imported, redelivered>>
    BY DEF Poll
  <2>2. \A j \in Jobs : redelivered[j] \in Nat
    BY ImportAssumption DEF TypeOK
  <2>3. \A j \in batch : j \in Jobs /\ queue[j].place = "visible"
    OBVIOUS
  <2>4. QED
    BY <2>1, <2>2, <2>3 DEF Unstarted
<1>4. ASSUME NEW h \in Handlers
      PROVE  \/ handlers'[h] = handlers[h]
             \/ /\ handlers'[h].pc = "lookup"
                /\ handlers'[h].job \in batch
                /\ to[handlers'[h].job] = h
  <2>1. CASE \E j \in batch : to[j] = h
    <3>1. PICK c \in batch : to[c] = h /\ c = CHOOSE j \in batch : to[j] = h
      BY <2>1
    <3>2. handlers'[h] = [IdleHandler EXCEPT !.pc = "lookup", !.instance = i,
                            !.job = c, !.message = TRUE]
      BY <1>2, <2>1, <3>1
    <3>3. handlers'[h].pc = "lookup" /\ handlers'[h].job = c
      BY <3>2 DEF IdleHandler
    <3>4. QED
      BY <3>1, <3>3
  <2>2. CASE ~ \E j \in batch : to[j] = h
    BY <1>2, <2>2
  <2>3. QED
    BY <2>1, <2>2
<1>5. Quiet
  <2>1. \A h \in Handlers : HandlerMoves(h)
    BY <1>3, <1>4 DEF HandlerMoves
  <2>2. \A j \in Jobs : jobs[j].status = "none" => queue'[j].place = queue[j].place
    BY <1>2, <1>3
  <2>3. QED
    BY <1>3, <2>1, <2>2 DEF Quiet, JobMoves
<1>6. Deliveries'
  <2> SUFFICES ASSUME NEW j \in Jobs, jobs'[j].status # "none"
               PROVE  Cardinality(HandlersOf(j)') + Visible(j)' <= 1 + redelivered'[j]
    BY DEF Deliveries
  <2>1. CASE j \in batch
    <3>1. HandlersOf(j)' \subseteq HandlersOf(j) \cup {to[j]}
      BY <1>4 DEF HandlersOf
    <3>2. Visible(j) = 1 /\ Visible(j)' = 0
      BY <1>2, <1>3, <2>1 DEF Visible
    <3>3. Visible(j)' - redelivered'[j] <= Visible(j) - 1 - redelivered[j]
      BY <1>3, <3>2
    <3>4. QED
      BY <1>3, <3>1, <3>3, KeepDeliveries
  <2>2. CASE j \notin batch
    <3>1. HandlersOf(j)' \subseteq HandlersOf(j)
      BY <1>4, <2>2 DEF HandlersOf
    <3>2. Visible(j)' = Visible(j)
      BY <1>2, <2>2 DEF Visible
    <3>3. Visible(j)' - redelivered'[j] <= Visible(j) - redelivered[j]
      BY <1>3, <3>2, VisibleCount
    <3>4. QED
      BY <1>3, <3>1, <3>3, KeepDeliveries
  <2>3. QED
    BY <2>1, <2>2
<1>7. QED
  BY <1>5, <1>6, QuietInv

\* Processes die, start and sweep.
LEMMA WorkerInv ==
  ASSUME ImportInv, TypeOK', HiddenTime', NEW i \in Instances,
         Crash(i) \/ Boot(i) \/ Sweep(i) \/ SweepFails(i)
  PROVE  ImportInv'
<1> USE DEF ImportInv
<1>1. /\ UNCHANGED <<imported, queue, redelivered>>
      /\ \A j \in Jobs : redelivered[j] \in Nat
      /\ \A j \in Jobs : jobs[j] \in Job
  BY ImportAssumption DEF Crash, Boot, Sweep, SweepFails, TypeOK
<1>2. \A h \in Handlers : handlers'[h] \in {handlers[h], IdleHandler}
  BY DEF Crash, Boot, Sweep, SweepFails, TypeOK
<1>3. \A j \in Jobs : JobMoves(j)
  <2>1. CASE Sweep(i)
    <3>1. ASSUME NEW s \in {"running", "pending"}, NEW t, jobs' = Swept(s, t)
          PROVE  \A j \in Jobs : JobMoves(j)
      BY <1>1, <3>1 DEF Swept, JobMoves, Job
    <3>2. QED
      BY <2>1, <3>1 DEF Sweep
  <2>2. CASE UNCHANGED jobs
    BY <2>2 DEF JobMoves
  <2>3. QED
    BY <2>1, <2>2 DEF Crash, Boot, SweepFails
<1>4. Quiet
  BY <1>1, <1>2, <1>3 DEF Quiet, HandlerMoves
<1>5. \A j \in Jobs : HandlersOf(j)' \subseteq HandlersOf(j)
  BY <1>2, Idle DEF HandlersOf
<1>6. \A j \in Jobs : Visible(j)' <= Visible(j)
  BY <1>1, VisibleCount DEF Visible
<1>7. \A j \in Jobs : jobs'[j].status # "none" => jobs[j].status # "none"
  BY <1>3 DEF JobMoves
<1>8. Deliveries'
  BY <1>1, <1>5, <1>6, <1>7, StepDeliveries
<1>9. QED
  BY <1>4, <1>8, QuietInv

\* A hidden message shows up: a duplicate, or its time is over.
LEMMA ShowsUpInv ==
  ASSUME ImportInv, TypeOK', HiddenTime', Tick \/ \E j \in Jobs : Duplicate(j)
  PROVE  ImportInv'
<1> USE DEF ImportInv
<1>1. /\ UNCHANGED <<imported, handlers>>
      /\ \A j \in Jobs : redelivered[j] \in Nat /\ redelivered'[j] \in Nat
      /\ \A j \in Jobs : jobs[j] \in Job /\ queue[j] \in Message
  <2>1. UNCHANGED <<imported, handlers>>
    BY DEF Tick, Duplicate
  <2>2. \A j \in Jobs : redelivered[j] \in Nat /\ redelivered'[j] \in Nat
    BY ImportAssumption DEF TypeOK
  <2>3. \A j \in Jobs : jobs[j] \in Job /\ queue[j] \in Message
    BY DEF TypeOK
  <2>4. QED
    BY <2>1, <2>2, <2>3
<1>2. \A j \in Jobs : /\ jobs'[j].status = jobs[j].status
                      /\ jobs'[j].questionnaire = jobs[j].questionnaire
  <2>1. CASE Tick
    <3>1. ASSUME NEW j \in Jobs, NEW n
          PROVE  /\ [jobs[j] EXCEPT !.age = n].status = jobs[j].status
                 /\ [jobs[j] EXCEPT !.age = n].questionnaire = jobs[j].questionnaire
      BY <1>1 DEF Job
    <3>2. QED
      BY <2>1, <3>1 DEF Tick, Older
  <2>2. CASE \E j \in Jobs : Duplicate(j)
    BY <2>2 DEF Duplicate
  <2>3. QED
    BY <2>1, <2>2
<1>3. ASSUME NEW j \in Jobs
      PROVE  \/ queue'[j].place = queue[j].place /\ redelivered'[j] = redelivered[j]
             \/ queue[j].place = "hidden" /\ redelivered'[j] = redelivered[j] + 1
             \/ /\ queue[j].place = "hidden" /\ redelivered'[j] = redelivered[j]
                /\ HandlersOf(j) = {}
  <2>1. CASE Tick
    <3>1. /\ queue'[j] = Sooner(j)
          /\ redelivered'[j] = redelivered[j] + IF Early(j) THEN 1 ELSE 0
      BY <2>1 DEF Tick
    <3>2. CASE Early(j)
      BY <3>1, <3>2 DEF Early, Expires
    <3>3. CASE ~Early(j) /\ Expires(j)
      BY <1>1, <3>1, <3>3 DEF Early, Expires
    <3>4. CASE ~Expires(j)
      <4>1. Sooner(j).place = queue[j].place
        BY <1>1, <3>4 DEF Sooner, Message
      <4>2. QED
        BY <1>1, <3>1, <3>4, <4>1 DEF Early
    <3>5. QED
      BY <3>2, <3>3, <3>4
  <2>2. CASE \E k \in Jobs : Duplicate(k)
    BY <1>1, <2>2 DEF Duplicate, Redelivery, TypeOK
  <2>3. QED
    BY <2>1, <2>2
<1>4. Quiet
  <2>1. \A j \in Jobs : redelivered[j] <= redelivered'[j]
    BY <1>1, <1>3
  <2>2. \A j \in Jobs : jobs[j].status = "none" => queue'[j].place = queue[j].place
    BY <1>3 DEF Unstarted
  <2>3. QED
    BY <1>1, <1>2, <2>1, <2>2 DEF Quiet, JobMoves, HandlerMoves
<1>5. Deliveries'
  <2> SUFFICES ASSUME NEW j \in Jobs, jobs'[j].status # "none"
               PROVE  Cardinality(HandlersOf(j)') + Visible(j)' <= 1 + redelivered'[j]
    BY DEF Deliveries
  <2>1. HandlersOf(j)' = HandlersOf(j)
    BY <1>1 DEF HandlersOf
  <2>2. CASE \/ queue'[j].place = queue[j].place /\ redelivered'[j] = redelivered[j]
             \/ queue[j].place = "hidden" /\ redelivered'[j] = redelivered[j] + 1
    <3>1. Visible(j)' - redelivered'[j] <= Visible(j) - redelivered[j]
      BY <1>1, <2>2, VisibleCount DEF Visible
    <3>2. QED
      BY <1>2, <2>1, <3>1, KeepDeliveries
  <2>3. CASE HandlersOf(j) = {}
    <3>1. Cardinality(HandlersOf(j)') = 0
      BY <2>1, <2>3, FS_EmptySet
    <3>2. QED
      BY <1>1, <3>1, VisibleCount
  <2>4. QED
    BY <1>3, <2>2, <2>3
<1>6. QED
  BY <1>4, <1>5, QuietInv
-----------------------------------------------------------------------------
(***************************************************************************)
(* The request, the import and its outcome.                                *)
(***************************************************************************)

\* A new job has one handler, and nothing was imported for it.
LEMMA UploadInv ==
  ASSUME ImportInv, TypeOK', HiddenTime',
         NEW j \in Jobs, NEW i \in Instances, NEW h \in Handlers, Upload(j, i, h)
  PROVE  ImportInv'
<1> USE DEF ImportInv
<1>1. /\ jobs[j].status = "none" /\ handlers[h].pc = "idle"
      /\ UNCHANGED <<imported, queue, redelivered>>
      /\ \A k \in Jobs : redelivered[k] \in Nat
      /\ \A k \in Jobs : jobs[k] \in Job
  BY ImportAssumption DEF Upload, TypeOK
<1>2. /\ jobs'[j].status = "pending"
      /\ \A k \in Jobs \ {j} : jobs'[k] = jobs[k]
  BY <1>1 DEF Upload, TypeOK, Job
<1>3. /\ handlers'[h].pc = "publish" /\ handlers'[h].job = j
      /\ \A g \in Handlers \ {h} : handlers'[g] = handlers[g]
  BY DEF Upload, TypeOK, IdleHandler
<1>4. /\ HandlersOf(j) = {} /\ queue[j].place = "absent" /\ ImportsOf(j) = {}
      /\ handlers[h].job \notin Jobs
  BY <1>1 DEF Unstarted, Busyness
<1>5. /\ HandlersOf(j)' = {h}
      /\ \A k \in Jobs \ {j} : /\ HandlersOf(k)' = HandlersOf(k)
                               /\ Claimants(k)' = Claimants(k)
  BY <1>3, <1>4 DEF HandlersOf, Claimants
<1>6. \A k \in Jobs : ImportsOf(k)' = ImportsOf(k) /\ Visible(k)' = Visible(k)
  BY <1>1 DEF ImportsOf, Visible
<1>7. Busyness'
  BY <1>3 DEF Busyness
<1>8. Unstarted'
  <2>1. handlers'[h].pc \notin Working
    BY <1>3 DEF Working
  <2>2. \A k \in Jobs \ {j} : \A g \in HandlersOf(k) : handlers'[g] = handlers[g]
    BY <1>3, <1>4 DEF HandlersOf
  <2>3. QED
    BY <1>1, <1>2, <1>4, <1>5, <1>6, <2>1, <2>2 DEF Unstarted
<1>9. Deliveries'
  <2> SUFFICES ASSUME NEW k \in Jobs, jobs'[k].status # "none"
               PROVE  Cardinality(HandlersOf(k)') + Visible(k)' <= 1 + redelivered'[k]
    BY DEF Deliveries
  <2>1. CASE k = j
    <3>1. Cardinality(HandlersOf(k)') = 1 /\ Visible(k)' = 0
      BY <1>4, <1>5, <1>6, <2>1, FS_Singleton DEF Visible
    <3>2. QED
      BY <1>1, <3>1
  <2>2. CASE k # j
    BY <1>1, <1>2, <1>5, <1>6, <2>2 DEF Deliveries
  <2>3. QED
    BY <2>1, <2>2
<1>10. Claims'
  BY <1>1, <1>2, <1>5, <1>6 DEF Claims
<1>11. OwnQuestionnaire'
  BY <1>1, <1>3 DEF OwnQuestionnaire
<1>12. ImportedIsWhole'
  BY <1>1, <1>2, <1>6 DEF ImportedIsWhole
<1>13. Settled'
  BY <1>1, <1>2, <1>3, <1>5 DEF Settled, HandlersOf
<1>14. QED
  BY <1>7, <1>8, <1>9, <1>10, <1>11, <1>12, <1>13

\* What the steps of a run share: the job of the handler is started, and all
\* handlers keep their jobs.
LEMMA RunFacts ==
  ASSUME ImportInv, NEW h \in Handlers, handlers[h].pc \in Working,
         handlers'[h].job = handlers[h].job,
         handlers'[h].pc \notin {"idle", "start", "parse"},
         \A g \in Handlers \ {h} : handlers'[g] = handlers[g],
         UNCHANGED <<queue, redelivered>>,
         \A k \in Jobs : jobs'[k].status \in {"none", "pending"}
                           => jobs'[k].status = jobs[k].status,
         \A k \in Jobs : jobs'[k].status = "none" <=> jobs[k].status = "none",
         \A k \in Jobs : jobs[k].status \in {"none", "pending"}
                           => ImportsOf(k)' = ImportsOf(k)
  PROVE  /\ \A k \in Jobs : HandlersOf(k)' = HandlersOf(k)
         /\ \A k \in Jobs : Claimants(k)' = Claimants(k) \ {h}
         /\ Busyness' /\ Unstarted' /\ Deliveries'
<1> USE DEF ImportInv
<1>1. /\ handlers[h].pc # "idle" /\ handlers[h].job \in Jobs
      /\ jobs[handlers[h].job].status \notin {"none", "pending"}
  <2>1. handlers[h].pc # "idle"
    BY DEF Working
  <2>2. QED
    BY <2>1, AtWork
<1>2. \A k \in Jobs : HandlersOf(k)' = HandlersOf(k)
  BY DEF HandlersOf
<1>3. \A k \in Jobs : Claimants(k)' = Claimants(k) \ {h}
  BY <1>2 DEF Claimants, HandlersOf
<1>4. Busyness'
  BY <1>1 DEF Busyness
<1>5. Unstarted'
  <2>1. ASSUME NEW k \in Jobs, jobs'[k].status \in {"none", "pending"}
        PROVE  /\ ImportsOf(k)' = {}
               /\ \A g \in HandlersOf(k)' : handlers'[g].pc \notin Working
    <3>1. jobs[k].status \in {"none", "pending"}
      BY <2>1
    <3>2. /\ ImportsOf(k)' = {} /\ h \notin HandlersOf(k)
          /\ \A g \in HandlersOf(k) : handlers[g].pc \notin Working
      BY <1>1, <3>1 DEF Unstarted, HandlersOf
    <3>3. QED
      BY <1>2, <3>2 DEF HandlersOf
  <2>2. QED
    BY <1>2, <2>1 DEF Unstarted
<1>6. Deliveries'
  BY <1>2 DEF Deliveries, Visible
<1>7. QED
  BY <1>2, <1>3, <1>4, <1>5, <1>6

\* A claim becomes an import.
LEMMA CreateQuestionnaireInv ==
  ASSUME ImportInv, TypeOK', HiddenTime', NEW h \in Handlers, CreateQuestionnaire(h)
  PROVE  ImportInv'
<1> USE DEF ImportInv
<1>1. PICK q \in Questionnaires :
        /\ imported[q].job = None
        /\ imported' = [imported EXCEPT ![q].job = handlers[h].job]
        /\ handlers' = [handlers EXCEPT ![h].pc = "insert", ![h].questionnaire = q]
  BY DEF CreateQuestionnaire
<1>2. handlers[h].pc = "parse" /\ UNCHANGED <<jobs, queue, redelivered>>
  BY DEF CreateQuestionnaire
<1>3. /\ handlers[h].pc \in Working /\ handlers[h].pc # "idle"
  BY <1>2 DEF Working
<1>4. PICK j \in Jobs :
        /\ j = handlers[h].job /\ h \in HandlersOf(j)
        /\ jobs[j].status \notin {"none", "pending"}
  BY <1>3, AtWork
<1>5. /\ handlers'[h].pc = "insert" /\ handlers'[h].job = j
      /\ handlers'[h].questionnaire = q
      /\ \A g \in Handlers \ {h} : handlers'[g] = handlers[g]
  BY <1>1, <1>4 DEF TypeOK, Handler
<1>6. /\ imported'[q].job = j
      /\ \A p \in Questionnaires : imported'[p].whole = imported[p].whole
      /\ \A p \in Questionnaires \ {q} : imported'[p] = imported[p]
  BY <1>1, <1>4 DEF TypeOK, Questionnaire
<1>7. /\ ImportsOf(j)' = ImportsOf(j) \cup {q}
      /\ \A k \in Jobs \ {j} : ImportsOf(k)' = ImportsOf(k)
      /\ \A k \in Jobs : q \notin ImportsOf(k)
  BY <1>1, <1>6, ImportAssumption DEF ImportsOf
<1>8. /\ \A k \in Jobs : HandlersOf(k)' = HandlersOf(k)
      /\ \A k \in Jobs : Claimants(k)' = Claimants(k) \ {h}
      /\ Busyness' /\ Unstarted' /\ Deliveries'
  BY <1>2, <1>3, <1>4, <1>5, <1>7, RunFacts
<1>9. Claims'
  <2> SUFFICES ASSUME NEW k \in Jobs, jobs[k].status \notin {"none", "pending"}
               PROVE  Cardinality(ImportsOf(k)') + Cardinality(Claimants(k)')
                        <= 1 + redelivered[k]
    BY <1>2 DEF Claims
  <2>1. /\ redelivered[k] \in Nat
        /\ Cardinality(ImportsOf(k)) + Cardinality(Claimants(k)) <= 1 + redelivered[k]
    BY ImportAssumption DEF Claims, TypeOK
  <2>2. CASE k = j
    <3>1. h \in Claimants(k)
      BY <1>2, <1>4, <2>2 DEF Claimants
    <3>2. /\ Cardinality(Claimants(k)') \in Nat
          /\ Cardinality(Claimants(k)') + 1 <= Cardinality(Claimants(k))
      BY <1>8, <3>1, Counted, OneLess
    <3>3. /\ Cardinality(ImportsOf(k)') \in Nat
          /\ Cardinality(ImportsOf(k)') <= Cardinality(ImportsOf(k)) + 1
      BY <1>7, <2>2, Counted, OneMore
    <3>4. QED
      BY <2>1, <3>2, <3>3, Counted
  <2>3. CASE k # j
    <3>1. ImportsOf(k)' = ImportsOf(k) /\ Claimants(k)' \subseteq Claimants(k)
      BY <1>7, <1>8, <2>3
    <3>2. /\ Cardinality(Claimants(k)') \in Nat
          /\ Cardinality(Claimants(k)') <= Cardinality(Claimants(k))
      BY <3>1, Counted, Part
    <3>3. QED
      BY <2>1, <3>1, <3>2, Counted
  <2>4. QED
    BY <2>2, <2>3
<1>10. OwnQuestionnaire'
  <2> SUFFICES ASSUME NEW g \in Handlers, handlers'[g].pc \in {"insert", "finish"}
               PROVE  /\ handlers'[g].questionnaire \in Questionnaires
                      /\ imported'[handlers'[g].questionnaire].job = handlers'[g].job
                      /\ handlers'[g].pc = "finish"
                           => imported'[handlers'[g].questionnaire].whole
    BY DEF OwnQuestionnaire
  <2>1. CASE g = h
    BY <1>5, <1>6, <2>1
  <2>2. CASE g # h
    <3>1. handlers'[g] = handlers[g] /\ handlers[g].job \in Jobs
      BY <1>5, <2>2, AtWork
    <3>2. /\ handlers[g].questionnaire \in Questionnaires
          /\ imported[handlers[g].questionnaire].job = handlers[g].job
          /\ handlers[g].pc = "finish" => imported[handlers[g].questionnaire].whole
      BY <3>1 DEF OwnQuestionnaire
    <3>3. handlers[g].questionnaire # q
      BY <1>1, <3>1, <3>2, ImportAssumption
    <3>4. QED
      BY <1>6, <3>1, <3>2, <3>3
  <2>3. QED
    BY <2>1, <2>2
<1>11. ImportedIsWhole'
  <2> SUFFICES ASSUME NEW k \in Jobs, jobs[k].status \in {"completed", "partial"}
               PROVE  \E p \in ImportsOf(k)' : /\ jobs[k].questionnaire = p
                                              /\ imported'[p].whole
    BY <1>2 DEF ImportedIsWhole
  <2>1. PICK p \in ImportsOf(k) : jobs[k].questionnaire = p /\ imported[p].whole
    BY DEF ImportedIsWhole
  <2>2. p \in ImportsOf(k)' /\ imported'[p].whole
    BY <1>6, <1>7, <2>1 DEF ImportsOf
  <2>3. QED
    BY <2>1, <2>2
<1>12. Settled'
  <2> SUFFICES ASSUME NEW k \in Jobs, jobs[k].status \in {"completed", "partial"},
                      redelivered[k] = 0, NEW g \in HandlersOf(k)
               PROVE  handlers'[g].pc \in {"publish", "lookup", "read", "ack"}
    BY <1>2, <1>8 DEF Settled
  <2>1. handlers[g].pc \in {"publish", "lookup", "read", "ack"}
    BY DEF Settled
  <2>2. g \in Handlers \ {h}
    BY <1>2, <2>1 DEF HandlersOf
  <2>3. QED
    BY <1>5, <2>1, <2>2
<1>13. QED
  BY <1>8, <1>9, <1>10, <1>11, <1>12

\* The questionnaire gets its questions.
LEMMA InsertQuestionsInv ==
  ASSUME ImportInv, TypeOK', HiddenTime', NEW h \in Handlers, InsertQuestions(h)
  PROVE  ImportInv'
<1> USE DEF ImportInv
<1>1. /\ handlers[h].pc = "insert" /\ UNCHANGED <<jobs, queue, redelivered>>
      /\ handlers[h].pc \in Working /\ handlers[h].pc # "idle"
  BY DEF InsertQuestions, Working
<1>2. PICK j \in Jobs :
        /\ j = handlers[h].job /\ h \in HandlersOf(j)
        /\ jobs[j].status \notin {"none", "pending"}
  BY <1>1, AtWork
<1>3. PICK q \in Questionnaires :
        q = handlers[h].questionnaire /\ imported[q].job = j
  BY <1>1, <1>2 DEF OwnQuestionnaire
<1>4. /\ handlers'[h].pc = "finish" /\ handlers'[h].job = j
      /\ handlers'[h].questionnaire = q
      /\ \A g \in Handlers \ {h} : handlers'[g] = handlers[g]
  BY <1>2, <1>3, GoesOn DEF InsertQuestions, Pcs
<1>5. /\ \A p \in Questionnaires : imported'[p].job = imported[p].job
      /\ \A p \in Questionnaires : imported[p].whole => imported'[p].whole
      /\ imported'[q].whole
  BY <1>3 DEF InsertQuestions, TypeOK, Questionnaire
<1>6. \A k \in Jobs : ImportsOf(k)' = ImportsOf(k)
  BY <1>5 DEF ImportsOf
<1>7. /\ \A k \in Jobs : HandlersOf(k)' = HandlersOf(k)
      /\ \A k \in Jobs : Claimants(k)' = Claimants(k) \ {h}
      /\ Busyness' /\ Unstarted' /\ Deliveries'
  BY <1>1, <1>2, <1>4, <1>6, RunFacts
<1>8. \A k \in Jobs : Claimants(k)' = Claimants(k)
  BY <1>1, <1>7 DEF Claimants
<1>9. Claims'
  BY <1>1, <1>6, <1>8 DEF Claims
<1>10. OwnQuestionnaire'
  <2> SUFFICES ASSUME NEW g \in Handlers, handlers'[g].pc \in {"insert", "finish"}
               PROVE  /\ handlers'[g].questionnaire \in Questionnaires
                      /\ imported'[handlers'[g].questionnaire].job = handlers'[g].job
                      /\ handlers'[g].pc = "finish"
                           => imported'[handlers'[g].questionnaire].whole
    BY DEF OwnQuestionnaire
  <2>1. CASE g = h
    BY <1>3, <1>4, <1>5, <2>1
  <2>2. CASE g # h
    BY <1>4, <1>5, <2>2 DEF OwnQuestionnaire
  <2>3. QED
    BY <2>1, <2>2
<1>11. ImportedIsWhole'
  BY <1>1, <1>5, <1>6 DEF ImportedIsWhole, ImportsOf
<1>12. Settled'
  <2> SUFFICES ASSUME NEW k \in Jobs, jobs[k].status \in {"completed", "partial"},
                      redelivered[k] = 0, NEW g \in HandlersOf(k)
               PROVE  handlers'[g].pc \in {"publish", "lookup", "read", "ack"}
    BY <1>1, <1>7 DEF Settled
  <2>1. handlers[g].pc \in {"publish", "lookup", "read", "ack"}
    BY DEF Settled
  <2>2. g \in Handlers \ {h}
    BY <1>1, <2>1 DEF HandlersOf
  <2>3. QED
    BY <1>4, <2>1, <2>2
<1>13. QED
  BY <1>7, <1>9, <1>10, <1>11, <1>12

\* A job that no other delivery overlapped has one handler at most.
LEMMA OneHandler ==
  ASSUME ImportInv, NEW j \in Jobs, jobs[j].status # "none", redelivered[j] = 0,
         NEW g \in HandlersOf(j), NEW h \in HandlersOf(j)
  PROVE  g = h
<1> SUFFICES ASSUME g # h PROVE FALSE
  OBVIOUS
<1>1. Cardinality(HandlersOf(j)) <= 1
  BY Counted, VisibleCount DEF ImportInv, Deliveries
<1>2. Cardinality({g}) = 1 /\ Cardinality({g}) + 1 <= Cardinality(HandlersOf(j))
  BY Counted, OneLess, FS_Singleton
<1>3. QED
  BY <1>1, <1>2, Counted

\* The outcome names the questionnaire of the run.
LEMMA FinishInv ==
  ASSUME ImportInv, TypeOK', HiddenTime', NEW h \in Handlers, Finish(h)
  PROVE  ImportInv'
<1> USE DEF ImportInv
<1>1. /\ handlers[h].pc = "finish" /\ UNCHANGED <<imported, queue, redelivered>>
      /\ handlers[h].pc \in Working /\ handlers[h].pc # "idle"
  BY DEF Finish, Working
<1>2. PICK j \in Jobs :
        /\ j = handlers[h].job /\ h \in HandlersOf(j)
        /\ jobs[j].status \notin {"none", "pending"}
  BY <1>1, AtWork
<1>3. PICK q \in Questionnaires :
        q = handlers[h].questionnaire /\ imported[q].job = j /\ imported[q].whole
  BY <1>1, <1>2 DEF OwnQuestionnaire
<1>4. /\ handlers'[h].pc = "ack" /\ handlers'[h].job = j
      /\ \A g \in Handlers \ {h} : handlers'[g] = handlers[g]
  BY <1>2, GoesOn DEF Finish, Pcs
<1>5. /\ jobs'[j].status \in {"completed", "partial"} /\ jobs'[j].questionnaire = q
      /\ \A k \in Jobs \ {j} : jobs'[k] = jobs[k]
  <2>1. PICK s \in {"completed", "partial"} :
          jobs' = [jobs EXCEPT ![j].status = s, ![j].questionnaire = q]
    BY <1>2, <1>3 DEF Finish
  <2>2. jobs[j] \in Job
    BY DEF TypeOK
  <2>3. QED
    BY <2>1, <2>2 DEF TypeOK, Job
<1>6. \A k \in Jobs : ImportsOf(k)' = ImportsOf(k)
  BY <1>1 DEF ImportsOf
<1>7. /\ \A k \in Jobs : HandlersOf(k)' = HandlersOf(k)
      /\ \A k \in Jobs : Claimants(k)' = Claimants(k) \ {h}
      /\ Busyness' /\ Unstarted' /\ Deliveries'
  BY <1>1, <1>2, <1>4, <1>5, <1>6, RunFacts
<1>8. \A k \in Jobs : Claimants(k)' = Claimants(k)
  BY <1>1, <1>7 DEF Claimants
<1>9. Claims'
  BY <1>1, <1>2, <1>5, <1>6, <1>8 DEF Claims
<1>10. OwnQuestionnaire'
  BY <1>1, <1>4 DEF OwnQuestionnaire
<1>11. ImportedIsWhole'
  BY <1>1, <1>3, <1>5, <1>6 DEF ImportedIsWhole, ImportsOf
<1>12. Settled'
  <2> SUFFICES ASSUME NEW k \in Jobs, jobs'[k].status \in {"completed", "partial"},
                      redelivered[k] = 0, NEW g \in HandlersOf(k)
               PROVE  handlers'[g].pc \in {"publish", "lookup", "read", "ack"}
    BY <1>1, <1>7 DEF Settled
  <2>1. CASE k = j
    BY <1>2, <1>4, <2>1, OneHandler
  <2>2. CASE k # j
    BY <1>2, <1>4, <1>5, <2>2 DEF Settled, HandlersOf
  <2>3. QED
    BY <2>1, <2>2
<1>13. QED
  BY <1>7, <1>9, <1>10, <1>11, <1>12
-----------------------------------------------------------------------------
(***************************************************************************)
(* The theorems.                                                           *)
(***************************************************************************)

\* Every step keeps the invariant.
LEMMA NextImportInv == ImportInv /\ [Next]_vars => ImportInv'
<1> SUFFICES ASSUME ImportInv, [Next]_vars PROVE ImportInv'
  OBVIOUS
<1>1. CASE UNCHANGED vars
  BY <1>1
  DEF vars, ImportInv, TypeOK, HiddenTime, Busyness, Unstarted, Deliveries, Claims,
      OwnQuestionnaire, ImportedIsWhole, Settled, HandlersOf, ImportsOf, Claimants,
      Visible
<1>2. ASSUME NEW h \in Handlers,
             HandlerStep(h) \/ PublishFails(h) \/ RunFails(h) \/ HandlerThrows(h)
      PROVE  ImportInv'
  <2>1. TypeOK' /\ HiddenTime'
    BY <1>2, HandlerStepType
  <2>2. CASE Publish(h) \/ PublishFails(h)
    BY <2>1, <2>2, PublishInv
  <2>3. CASE CreateQuestionnaire(h)
    BY <2>1, <2>3, CreateQuestionnaireInv
  <2>4. CASE InsertQuestions(h)
    BY <2>1, <2>4, InsertQuestionsInv
  <2>5. CASE Finish(h)
    BY <2>1, <2>5, FinishInv
  <2>6. CASE \/ Lookup(h) \/ failStuckJob(h) \/ Acknowledge(h) \/ ReadStatus(h)
             \/ Start(h) \/ Fail(h) \/ RunFails(h) \/ HandlerThrows(h)
    BY <2>1, <2>6, QuietHandlerInv
  <2>7. QED
    BY <1>2, <2>2, <2>3, <2>4, <2>5, <2>6 DEF HandlerStep
<1>3. ASSUME NEW j \in Jobs, NEW i \in Instances, NEW h \in Handlers,
             Upload(j, i, h)
      PROVE  ImportInv'
  BY <1>3, OtherStepType, UploadInv
<1>4. ASSUME NEW i \in Instances, Poll(i) PROVE ImportInv'
  BY <1>4, OtherStepType, PollInv
<1>5. ASSUME NEW i \in Instances, Crash(i) \/ Boot(i) \/ Sweep(i) \/ SweepFails(i)
      PROVE  ImportInv'
  BY <1>5, OtherStepType, WorkerInv
<1>6. CASE Tick \/ \E j \in Jobs : Duplicate(j)
  BY <1>6, OtherStepType, ShowsUpInv
<1>7. QED
  BY <1>1, <1>2, <1>3, <1>4, <1>5, <1>6 DEF Next

\* The invariant holds in every behaviour.
THEOREM ImportInvariant == Spec => []ImportInv
BY InitImportInv, NextImportInv, PTL DEF Spec

\* The variables keep their types.
THEOREM TypeCorrect == Spec => []TypeOK
<1>1. ImportInv => TypeOK
  BY DEF ImportInv
<1>2. QED
  BY <1>1, ImportInvariant, PTL

\* A job is imported at most once, and once more for every delivery that
\* overlapped with another one, whatever crashes, fails or is swept.
THEOREM JobsAreImportedOnce == Spec => []ImportedOnce
<1>1. ImportInv => ImportedOnce
  <2> SUFFICES ASSUME ImportInv, NEW j \in Jobs
               PROVE  Cardinality(ImportsOf(j)) <= 1 + redelivered[j]
    BY DEF ImportedOnce
  <2>1. redelivered[j] \in Nat
    BY ImportAssumption DEF ImportInv, TypeOK
  <2>2. CASE jobs[j].status \in {"none", "pending"}
    <3>1. Cardinality(ImportsOf(j)) = 0
      BY <2>2, FS_EmptySet DEF ImportInv, Unstarted
    <3>2. QED
      BY <2>1, <3>1
  <2>3. CASE jobs[j].status \notin {"none", "pending"}
    BY <2>1, <2>3, Counted DEF ImportInv, Claims
  <2>4. QED
    BY <2>2, <2>3
<1>2. QED
  BY <1>1, ImportInvariant, PTL

\* A job that reads completed or partial names a whole questionnaire of its own.
THEOREM ImportsAreWhole == Spec => []ImportedIsWhole
<1>1. ImportInv => ImportedIsWhole
  BY DEF ImportInv
<1>2. QED
  BY <1>1, ImportInvariant, PTL

\* No step changes the outcome of an import no delivery overlapped with.
LEMMA OutcomeStays ==
  ASSUME ImportInv, [Next]_vars, NEW j \in Jobs,
         jobs[j].status \in {"completed", "partial"}, redelivered[j] = 0
  PROVE  jobs'[j] = jobs[j]
<1> USE DEF ImportInv
<1>1. /\ jobs \in [Jobs -> Job]
      /\ \A h \in Handlers :
           handlers[h].job = j =>
             handlers[h].pc \in {"publish", "lookup", "read", "ack"}
  BY DEF TypeOK, Settled, HandlersOf
<1>2. CASE UNCHANGED jobs
  BY <1>2
<1>3. ASSUME NEW h \in Handlers,
             failStuckJob(h) \/ Start(h) \/ Fail(h) \/ Finish(h)
      PROVE  jobs'[j] = jobs[j]
  <2>1. handlers[h].job # j
    BY <1>1, <1>3 DEF failStuckJob, Start, Fail, Finish
  <2>2. QED
    BY <1>1, <1>3, <2>1 DEF failStuckJob, Start, Fail, Finish
<1>4. ASSUME NEW k \in Jobs, NEW i \in Instances, NEW h \in Handlers, Upload(k, i, h)
      PROVE  jobs'[j] = jobs[j]
  BY <1>1, <1>4 DEF Upload
<1>5. ASSUME NEW i \in Instances, Sweep(i) PROVE jobs'[j] = jobs[j]
  BY <1>5 DEF Sweep, Swept
<1>6. CASE Tick
  BY <1>1, <1>6 DEF Tick, Older, Unfinished, Job
<1>7. QED
  BY <1>2, <1>3, <1>4, <1>5, <1>6
  DEF Next, vars, HandlerStep, Publish, Lookup, Acknowledge, ReadStatus,
      CreateQuestionnaire, InsertQuestions, PublishFails, RunFails, HandlerThrows,
      Poll, Crash, Boot, SweepFails, Duplicate

\* Neither a sweep nor a handler overwrites the outcome of an import, as long as
\* no delivery of the job overlapped with another.
THEOREM OutcomesAreFinal == Spec => ImportedIsFinal
<1>1. ImportInv /\ [Next]_vars =>
        [\A j \in Jobs :
           jobs[j].status \in {"completed", "partial"} /\ redelivered[j] = 0
             => jobs'[j] = jobs[j]]_vars
  BY OutcomeStays
<1>2. QED
  BY <1>1, ImportInvariant, PTL DEF Spec, ImportedIsFinal
=============================================================================
