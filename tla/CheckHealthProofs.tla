-------------------------- MODULE CheckHealthProofs --------------------------
(***************************************************************************)
(* Proofs about CheckHealth, for every set of checks, gaps and overlapping *)
(* sweeps, every threshold and every number of faults.                     *)
(*                                                                         *)
(* HealthInv, the types with HealthMatchesFailures, is inductive: a row is *)
(* classified by the very count that is written with it, so that it does   *)
(* not matter how old that count is.  SuccessClosesGaps needs only the     *)
(* types: no statement but those that close the gaps can make a row equal  *)
(* to a collected one.                                                     *)
(***************************************************************************)
EXTENDS CheckHealth, TLAPS

HealthInv == TypeOK /\ HealthMatchesFailures
-----------------------------------------------------------------------------
(***************************************************************************)
(* The operators on one row.                                               *)
(***************************************************************************)

\* A collected row is a row, and classified by its count.
LEMMA HealthyRow ==
    ASSUME NEW check \in Check
    PROVE  /\ Healthy(check) \in Check
           /\ Healthy(check).failures = 0
           /\ Healthy(check).health = "healthy"
           /\ Healthy(check).expected = "ahead"
           /\ Healthy(check).enabled = check.enabled
<1>1. 0 \in 0..FAILING_THRESHOLD
  BY HealthAssumption
<1> QED
  BY <1>1 DEF Healthy, Check, HealthState

\* The count stays within its range and is never 0 after a failure.
LEMMA OneMoreInRange ==
    ASSUME NEW n \in 0..FAILING_THRESHOLD
    PROVE  OneMore(n) \in 1..FAILING_THRESHOLD
BY HealthAssumption DEF OneMore

\* Every count has a health of its own, never "overdue".
LEMMA HealthOfCount ==
    ASSUME NEW n \in 0..FAILING_THRESHOLD
    PROVE  healthStateForFailures(n) \in {"healthy", "degraded", "failing"}
BY DEF healthStateForFailures

\* A failed row is a row, and classified by its count.
LEMMA FailedRow ==
    ASSUME NEW check \in Check, NEW n \in 0..FAILING_THRESHOLD, NEW task
    PROVE  /\ Failed(check, n, task) \in Check
           /\ Failed(check, n, task).failures # 0
           /\ Failed(check, n, task).health
                = healthStateForFailures(Failed(check, n, task).failures)
<1>1. OneMore(n) \in 1..FAILING_THRESHOLD
  BY OneMoreInRange
<1>2. OneMore(n) \in 0..FAILING_THRESHOLD /\ OneMore(n) # 0
  BY <1>1, HealthAssumption
<1>3. healthStateForFailures(OneMore(n)) \in HealthState
  BY <1>2, HealthOfCount DEF HealthState
<1>4. /\ Failed(check, n, task).failures = OneMore(n)
      /\ Failed(check, n, task).health = healthStateForFailures(OneMore(n))
  BY DEF Failed, Check
<1>5. Failed(check, n, task) \in Check
  BY <1>2, <1>3 DEF Failed, Check
<1> QED
  BY <1>2, <1>4, <1>5

\* Closing gaps keeps the rows typed and leaves none of a closed check.
LEMMA ClosedGaps ==
    ASSUME gaps \in [GapIds -> Checks \cup {None}], NEW cs \in SUBSET Checks,
           CloseGapsOf(cs)
    PROVE  /\ gaps' \in [GapIds -> Checks \cup {None}]
           /\ \A c \in cs : OpenGapsOf(c)' = {}
<1>1. None \notin Checks
  BY HealthAssumption
<1> QED
  BY <1>1 DEF CloseGapsOf, OpenGapsOf

\* The types an idle actor has.
LEMMA IdleActorType == IdleActor \in Actor
BY HealthAssumption DEF IdleActor, Actor

\* An actor that reads the checks it is to visit.
LEMMA BeginType ==
    ASSUME TypeOK, NEW a \in Actors, NEW cs \in SUBSET Checks,
           NEW task \in {"healthy", "failing", "custom", "overdue"},
           NEW opens \in BOOLEAN, Begin(a, task, cs, opens)
    PROVE  TypeOK'
<1> DEFINE count == [c \in Checks |->
                       IF c \in cs /\ task \in {"failing", "custom"}
                       THEN checks[c].failures ELSE 0]
           new == [IdleActor EXCEPT !.task = task, !.seen = cs, !.left = cs,
                                    !.count = count, !.opens = opens]
<1>1. \A c \in Checks : checks[c].failures \in 0..FAILING_THRESHOLD
  BY DEF TypeOK, Check
<1>2. count \in [Checks -> 0..FAILING_THRESHOLD]
  BY <1>1, HealthAssumption
<1>3. new \in Actor
  BY <1>2, IdleActorType DEF Actor
<1>4. actor' = [actor EXCEPT ![a] = new]
  BY DEF Begin
<1> QED
  BY <1>3, <1>4 DEF Begin, TypeOK
-----------------------------------------------------------------------------
(***************************************************************************)
(* The invariant.                                                          *)
(***************************************************************************)

\* Checks start healthy with no failure.
LEMMA InitHealthInv == Init => HealthInv
<1> SUFFICES ASSUME Init PROVE HealthInv
  OBVIOUS
<1>1. \A c \in Checks : /\ checks[c] \in Check
                        /\ checks[c].failures = 0 /\ checks[c].health = "healthy"
  BY HealthAssumption DEF Init, Check, HealthState
<1>2. TypeOK
  BY <1>1, IdleActorType, HealthAssumption DEF Init, TypeOK
<1> QED
  BY <1>1, <1>2 DEF HealthInv, HealthMatchesFailures, healthStateForFailures

\* Steps that leave the rows of the checks alone keep HealthMatchesFailures.
LEMMA RowsUnchanged ==
    ASSUME HealthMatchesFailures, UNCHANGED checks
    PROVE  HealthMatchesFailures'
BY DEF HealthMatchesFailures

\* The rows after a statement: each is as it was, or its flag or expectation
\* changed, or it was collected, failed or flagged overdue.
LEMMA RowsAfter ==
    ASSUME HealthInv, checks' \in [Checks -> Check],
           \A c \in Checks :
             \/ /\ checks'[c].failures = checks[c].failures
                /\ checks'[c].health \in {checks[c].health, "overdue"}
             \/ checks'[c].health = healthStateForFailures(checks'[c].failures)
    PROVE  HealthMatchesFailures'
BY DEF HealthInv, HealthMatchesFailures

\* One row is written.
LEMMA OneRow ==
    ASSUME HealthInv, NEW c \in Checks, NEW row \in Check,
           checks' = [checks EXCEPT ![c] = row],
           \/ /\ row.failures = checks[c].failures
              /\ row.health \in {checks[c].health, "overdue"}
           \/ row.health = healthStateForFailures(row.failures)
    PROVE  checks' \in [Checks -> Check] /\ HealthMatchesFailures'
<1>1. checks' \in [Checks -> Check]
  BY DEF HealthInv, TypeOK
<1>2. checks'[c] = row /\ \A d \in Checks \ {c} : checks'[d] = checks[d]
  BY DEF HealthInv, TypeOK
<1> QED
  BY <1>1, <1>2, RowsAfter
-----------------------------------------------------------------------------
\* The step of one actor, with the types of the new record left to show.
LEMMA ActorType ==
    ASSUME TypeOK, NEW a \in Actors, NEW new \in Actor,
           actor' = [actor EXCEPT ![a] = new]
    PROVE  actor' \in [Actors -> Actor]
BY DEF TypeOK

\* A user confirms a check, or its run is due.
LEMMA CheckColumnInv ==
    ASSUME HealthInv, NEW c \in Checks, ConfirmCheck(c) \/ RunExpected(c)
    PROVE  HealthInv'
<1> DEFINE on == [checks[c] EXCEPT !.enabled = TRUE]
           late == [checks[c] EXCEPT !.expected = "past"]
<1>1. checks[c] \in Check
  BY DEF HealthInv, TypeOK
<1>2. /\ on \in Check /\ on.failures = checks[c].failures
      /\ on.health = checks[c].health
      /\ late \in Check /\ late.failures = checks[c].failures
      /\ late.health = checks[c].health
  BY <1>1 DEF Check
<1>3. checks' = [checks EXCEPT ![c] = on] \/ checks' = [checks EXCEPT ![c] = late]
  BY DEF ConfirmCheck, RunExpected
<1>4. checks' \in [Checks -> Check] /\ HealthMatchesFailures'
  BY <1>2, <1>3, OneRow
<1> QED
  BY <1>4 DEF ConfirmCheck, RunExpected, HealthInv, TypeOK

\* markChecksHealthy.
LEMMA WriteHealthyInv ==
    ASSUME HealthInv, NEW a \in Actors, WriteHealthy(a)
    PROVE  HealthInv'
<1>1. \A c \in Checks : Healthy(checks[c]) \in Check
                        /\ Healthy(checks[c]).failures = 0
                        /\ Healthy(checks[c]).health = "healthy"
  BY HealthyRow DEF HealthInv, TypeOK
<1>2. checks' \in [Checks -> Check]
  BY <1>1 DEF WriteHealthy, HealthInv, TypeOK
<1>3. HealthMatchesFailures'
  BY <1>1, <1>2, RowsAfter DEF WriteHealthy, healthStateForFailures
<1>4. gaps' \in [GapIds -> Checks \cup {None}]
  BY ClosedGaps DEF WriteHealthy, HealthInv, TypeOK, Actor
<1>5. actor' \in [Actors -> Actor]
  BY IdleActorType DEF WriteHealthy, HealthInv, TypeOK
<1> QED
  BY <1>2, <1>3, <1>4, <1>5 DEF WriteHealthy, HealthInv, TypeOK

\* The loop turns to the next check.
LEMMA VisitCheckInv ==
    ASSUME HealthInv, NEW a \in Actors, NEW c \in Checks, VisitCheck(a, c)
    PROVE  HealthInv'
<1> DEFINE new == [actor[a] EXCEPT
                     !.left = @ \ {c}, !.cur = c, !.row = TRUE,
                     !.gap = IF actor[a].opens THEN "find" ELSE "done"]
<1>1. new \in Actor
  BY DEF HealthInv, TypeOK, Actor
<1>2. actor' = [actor EXCEPT ![a] = new]
  BY DEF VisitCheck
<1> QED
  BY <1>1, <1>2, ActorType, RowsUnchanged DEF VisitCheck, HealthInv, TypeOK

\* A custom check was collected, or skipped.
LEMMA CollectedCheckInv ==
    ASSUME HealthInv, NEW a \in Actors, NEW c \in Checks, CollectedCheck(a, c)
    PROVE  HealthInv'
<1> DEFINE new == [actor[a] EXCEPT !.left = @ \ {c}]
<1>1. new \in Actor
  BY DEF HealthInv, TypeOK, Actor
<1>2. actor' = [actor EXCEPT ![a] = new]
  BY DEF CollectedCheck
<1>3. actor' \in [Actors -> Actor]
  BY <1>1, <1>2, ActorType DEF HealthInv
<1>4. CASE checks' = [checks EXCEPT ![c] = Healthy(@)] /\ CloseGapsOf({c})
  <2>1. checks[c] \in Check
    BY DEF HealthInv, TypeOK
  <2>2. checks' = [checks EXCEPT ![c] = Healthy(checks[c])]
    BY <1>4
  <2>3. Healthy(checks[c]).health
          = healthStateForFailures(Healthy(checks[c]).failures)
    BY <2>1, HealthyRow DEF healthStateForFailures
  <2>4. checks' \in [Checks -> Check] /\ HealthMatchesFailures'
    BY <2>1, <2>2, <2>3, HealthyRow, OneRow
  <2>5. gaps' \in [GapIds -> Checks \cup {None}]
    BY <1>4, ClosedGaps DEF HealthInv, TypeOK
  <2> QED
    BY <1>3, <2>4, <2>5 DEF CollectedCheck, HealthInv, TypeOK
<1>5. CASE UNCHANGED <<checks, gaps>>
  BY <1>3, <1>5, RowsUnchanged DEF CollectedCheck, HealthInv, TypeOK
<1> QED
  BY <1>4, <1>5 DEF CollectedCheck

\* A failed or overdue row is written.
LEMMA WriteCheckInv ==
    ASSUME HealthInv, NEW a \in Actors, WriteCheck(a)
    PROVE  HealthInv'
<1> DEFINE c == actor[a].cur
           new == [actor[a] EXCEPT !.row = FALSE]
           failed == Failed(checks[c], actor[a].count[c], actor[a].task)
           overdue == [checks[c] EXCEPT !.health = "overdue"]
<1>1. new \in Actor
  BY DEF HealthInv, TypeOK, Actor
<1>2. actor' = [actor EXCEPT ![a] = new]
  BY DEF WriteCheck
<1>3. actor' \in [Actors -> Actor]
  BY <1>1, <1>2, ActorType DEF HealthInv
<1>4. CASE c \in Checks
  <2>1. checks[c] \in Check /\ actor[a].count[c] \in 0..FAILING_THRESHOLD
    BY <1>4 DEF HealthInv, TypeOK, Actor
  <2>2. failed \in Check /\ failed.health = healthStateForFailures(failed.failures)
    BY <2>1, FailedRow
  <2>3. /\ overdue \in Check /\ overdue.failures = checks[c].failures
        /\ overdue.health = "overdue"
    BY <2>1 DEF Check, HealthState
  <2>4. \/ checks' = [checks EXCEPT ![c] = failed]
        \/ checks' = [checks EXCEPT ![c] = overdue]
    BY DEF WriteCheck
  <2>5. checks' \in [Checks -> Check] /\ HealthMatchesFailures'
    BY <1>4, <2>2, <2>3, <2>4, OneRow
  <2> QED
    BY <1>3, <2>5 DEF WriteCheck, HealthInv, TypeOK
<1>5. CASE c \notin Checks
  <2>1. checks' = checks
    BY <1>5 DEF WriteCheck, HealthInv, TypeOK
  <2> QED
    BY <1>3, <2>1, RowsUnchanged DEF WriteCheck, HealthInv, TypeOK
<1> QED
  BY <1>4, <1>5

\* openOrExtendGap, its three statements, and the end of the loop.
LEMMA GapStatementInv ==
    ASSUME HealthInv, NEW a \in Actors,
           FindGap(a) \/ CreateGap(a) \/ ExtendGap(a) \/ EndSweep(a)
    PROVE  HealthInv'
<1>1. actor[a] \in Actor /\ actor[a].cur \in Checks \cup {None}
  BY DEF HealthInv, TypeOK, Actor
<1>2. \E new \in Actor : actor' = [actor EXCEPT ![a] = new]
  <2>1. CASE FindGap(a)
    <3>1. [actor[a] EXCEPT !.gap = "create"] \in Actor
      BY <1>1 DEF Actor
    <3>2. \A g \in GapIds :
            [actor[a] EXCEPT !.gap = "extend", !.found = g] \in Actor
      BY <1>1 DEF Actor
    <3>3. OpenGapsOf(actor[a].cur) \subseteq GapIds
      BY DEF OpenGapsOf
    <3>4. CASE actor' = [actor EXCEPT ![a].gap = "create"]
      BY <3>1, <3>4
    <3>5. ASSUME NEW g \in GapIds,
                 actor' = [actor EXCEPT ![a].gap = "extend", ![a].found = g]
          PROVE  \E new \in Actor : actor' = [actor EXCEPT ![a] = new]
      <4>1. actor' = [actor EXCEPT ![a] =
                        [actor[a] EXCEPT !.gap = "extend", !.found = g]]
        BY <3>5
      <4> QED
        BY <3>2, <4>1
    <3> QED
      BY <2>1, <3>3, <3>4, <3>5 DEF FindGap
  <2>2. CASE CreateGap(a)
    <3>1. [actor[a] EXCEPT !.gap = "done"] \in Actor
      BY <1>1 DEF Actor
    <3> QED
      BY <2>2, <3>1 DEF CreateGap
  <2>3. CASE ExtendGap(a)
    <3>1. [actor[a] EXCEPT !.gap = "done", !.found = None] \in Actor
      BY <1>1 DEF Actor
    <3>2. actor' = [actor EXCEPT ![a] =
                      [actor[a] EXCEPT !.gap = "done", !.found = None]]
      BY <2>3 DEF ExtendGap
    <3> QED
      BY <3>1, <3>2
  <2>4. CASE EndSweep(a)
    BY <2>4, IdleActorType DEF EndSweep
  <2> QED
    BY <2>1, <2>2, <2>3, <2>4
<1>3. gaps' \in [GapIds -> Checks \cup {None}]
  BY <1>1 DEF FindGap, CreateGap, ExtendGap, EndSweep, HealthInv, TypeOK
<1>4. UNCHANGED <<checks, faults>>
  BY DEF FindGap, CreateGap, ExtendGap, EndSweep
<1> QED
  BY <1>2, <1>3, <1>4, ActorType, RowsUnchanged DEF HealthInv, TypeOK

\* A statement fails, or the collector does.
LEMMA FaultInv ==
    ASSUME HealthInv, Crash \/ \E a \in Actors : StatementFails(a)
    PROVE  HealthInv'
<1>1. UNCHANGED <<checks, gaps>> /\ faults' \in 0..MaxFaults
  <2>1. UNCHANGED <<checks, gaps>> /\ faults < MaxFaults /\ faults' = faults + 1
    BY DEF Crash, StatementFails
  <2>2. faults \in 0..MaxFaults /\ MaxFaults \in Nat
    BY HealthAssumption DEF HealthInv, TypeOK
  <2> QED
    BY <2>1, <2>2
<1>2. actor' \in [Actors -> Actor]
  <2>1. CASE Crash
    BY <2>1, IdleActorType DEF Crash
  <2>2. ASSUME NEW a \in Actors, StatementFails(a)
        PROVE  actor' \in [Actors -> Actor]
    <3> DEFINE r == actor[a]
    <3>1. r \in Actor
      BY DEF HealthInv, TypeOK
    <3>2. /\ [r EXCEPT !.left = {}] \in Actor
          /\ [r EXCEPT !.left = {}, !.row = FALSE,
                       !.gap = IF r.task = "failing" THEN @ ELSE "done"] \in Actor
          /\ [r EXCEPT !.left = {}, !.gap = "done", !.found = None] \in Actor
      BY <3>1 DEF Actor
    <3>3. \/ actor' = [actor EXCEPT ![a] = IdleActor]
          \/ actor' = [actor EXCEPT ![a] = [r EXCEPT !.left = {}]]
          \/ actor' = [actor EXCEPT ![a] =
               [r EXCEPT !.left = {}, !.row = FALSE,
                         !.gap = IF r.task = "failing" THEN @ ELSE "done"]]
          \/ actor' = [actor EXCEPT ![a] =
               [r EXCEPT !.left = {}, !.gap = "done", !.found = None]]
      BY <2>2 DEF StatementFails
    <3> QED
      BY <3>2, <3>3, IdleActorType DEF HealthInv, TypeOK
  <2> QED
    BY <2>1, <2>2
<1> QED
  BY <1>1, <1>2, RowsUnchanged DEF HealthInv, TypeOK

\* Every step keeps the invariant.
LEMMA NextHealthInv == HealthInv /\ [Next]_vars => HealthInv'
<1> SUFFICES ASSUME HealthInv, [Next]_vars PROVE HealthInv'
  OBVIOUS
<1>1. Enabled \subseteq Checks /\ Overdue \subseteq Checks
  BY DEF Enabled, Overdue
<1>2. ASSUME NEW a \in Actors, NEW cs \in SUBSET Checks,
             NEW task \in {"healthy", "failing", "custom", "overdue"},
             NEW opens \in BOOLEAN, Begin(a, task, cs, opens)
      PROVE  HealthInv'
  BY <1>2, BeginType, RowsUnchanged DEF Begin, HealthInv
<1>3. CASE \E c \in Checks : ConfirmCheck(c) \/ RunExpected(c)
  BY <1>3, CheckColumnInv
<1>4. CASE \E a \in Sweeps :
             \/ BeginHealthy(a) \/ BeginCustom(a)
             \/ \E opens \in BOOLEAN : BeginFailing(a, opens)
  BY <1>1, <1>2, <1>4 DEF BeginHealthy, BeginCustom, BeginFailing, Actors
<1>5. CASE BeginOverdue
  BY <1>1, <1>2, <1>5 DEF BeginOverdue, Actors
<1>6. ASSUME NEW a \in Actors, Statement(a) PROVE HealthInv'
  BY <1>6, WriteHealthyInv, VisitCheckInv, CollectedCheckInv, WriteCheckInv,
     GapStatementInv DEF Statement
<1>7. CASE Crash \/ \E a \in Actors : StatementFails(a)
  BY <1>7, FaultInv
<1>8. CASE UNCHANGED vars
  BY <1>8, RowsUnchanged DEF vars, HealthInv, TypeOK
<1> QED
  BY <1>3, <1>4, <1>5, <1>6, <1>7, <1>8 DEF Next

\* The invariant holds in every behaviour.
THEOREM HealthInvariant == Spec => []HealthInv
BY InitHealthInv, NextHealthInv, PTL DEF Spec

\* The variables keep their types.
THEOREM TypeCorrect == Spec => []TypeOK
<1>1. HealthInv => TypeOK
  BY DEF HealthInv
<1> QED
  BY <1>1, HealthInvariant, PTL

\* The health of a check is that of its failure count, or overdue, however
\* many sweeps overlap.
THEOREM HealthIsClassified == Spec => []HealthMatchesFailures
<1>1. HealthInv => HealthMatchesFailures
  BY DEF HealthInv
<1> QED
  BY <1>1, HealthInvariant, PTL
-----------------------------------------------------------------------------
(***************************************************************************)
(* Successes close gaps.                                                   *)
(***************************************************************************)

\* Only the two statements that close gaps mark a check as collected.
LEMMA CollectedBy ==
    ASSUME HealthInv, Next, NEW c \in Collected
    PROVE  \/ \E b \in Actors : WriteHealthy(b)
           \/ \E b \in Actors : CollectedCheck(b, c) /\ CloseGapsOf({c})
<1>1. /\ c \in Checks /\ checks[c] \in Check /\ checks \in [Checks -> Check]
      /\ checks'[c] # checks[c]
  BY DEF Collected, HealthInv, TypeOK
<1>2. /\ checks'[c].failures = 0 /\ checks'[c].health = "healthy"
      /\ checks'[c].expected = "ahead" /\ checks'[c].enabled = checks[c].enabled
  BY <1>1, HealthyRow DEF Collected
<1>3. ASSUME NEW d \in Checks PROVE ~ConfirmCheck(d) /\ ~RunExpected(d)
  <2>1. [checks[c] EXCEPT !.enabled = TRUE].enabled = TRUE
        /\ [checks[c] EXCEPT !.expected = "past"].expected = "past"
    BY <1>1 DEF Check
  <2> QED
    BY <1>1, <1>2, <1>3, <2>1 DEF ConfirmCheck, RunExpected
<1>4. ASSUME NEW b \in Actors PROVE ~WriteCheck(b)
  <2> SUFFICES ASSUME WriteCheck(b) PROVE FALSE
    OBVIOUS
  <2>1. actor[b].cur = c
    BY <1>1 DEF WriteCheck
  <2>2. actor[b].count[c] \in 0..FAILING_THRESHOLD
    BY <1>1 DEF HealthInv, TypeOK, Actor
  <2>3. \/ checks'[c] = Failed(checks[c], actor[b].count[c], actor[b].task)
        \/ checks'[c] = [checks[c] EXCEPT !.health = "overdue"]
    BY <1>1, <2>1 DEF WriteCheck
  <2>4. [checks[c] EXCEPT !.health = "overdue"].health = "overdue"
    BY <1>1 DEF Check
  <2> QED
    BY <1>1, <1>2, <2>2, <2>3, <2>4, FailedRow
<1>5. ASSUME NEW b \in Actors, NEW d \in Checks, CollectedCheck(b, d)
      PROVE  d = c /\ CloseGapsOf({c})
  BY <1>1, <1>5 DEF CollectedCheck
<1>6. ASSUME NEW b \in Actors,
             \/ \E d \in Checks : VisitCheck(b, d)
             \/ FindGap(b) \/ CreateGap(b) \/ ExtendGap(b) \/ EndSweep(b)
             \/ StatementFails(b)
             \/ BeginHealthy(b) \/ BeginCustom(b)
             \/ \E opens \in BOOLEAN : BeginFailing(b, opens)
      PROVE  FALSE
  BY <1>1, <1>6 DEF VisitCheck, FindGap, CreateGap, ExtendGap, EndSweep,
                    StatementFails, BeginHealthy, BeginCustom, BeginFailing, Begin
<1>7. ~BeginOverdue /\ ~Crash
  BY <1>1 DEF BeginOverdue, Begin, Crash
<1> QED
  BY <1>3, <1>4, <1>5, <1>6, <1>7 DEF Next, Statement, Actors

\* A success leaves no gap open of a check its sweep knew.
THEOREM SuccessCloses == Spec => SuccessClosesGaps
<1> DEFINE Closes ==
      \A c \in Collected : \A a \in Sweeps :
         actor'[a] # actor[a] /\ c \in actor[a].seen => OpenGapsOf(c)' = {}
<1>1. HealthInv /\ [Next]_vars => [Closes]_vars
  <2> SUFFICES ASSUME HealthInv, Next PROVE Closes
    BY DEF vars
  <2> SUFFICES ASSUME NEW c \in Collected, NEW a \in Sweeps,
                      actor'[a] # actor[a], c \in actor[a].seen
               PROVE  OpenGapsOf(c)' = {}
    OBVIOUS
  <2>1. /\ c \in Checks /\ gaps \in [GapIds -> Checks \cup {None}]
        /\ actor \in [Actors -> Actor] /\ a \in Actors
    BY DEF Collected, HealthInv, TypeOK, Actors
  <2>2. ASSUME NEW b \in Actors, WriteHealthy(b) PROVE OpenGapsOf(c)' = {}
    <3>1. b = a
      BY <2>1, <2>2 DEF WriteHealthy
    <3>2. actor[a].seen \in SUBSET Checks /\ CloseGapsOf(actor[a].seen)
      BY <2>1, <2>2, <3>1 DEF WriteHealthy, Actor
    <3> QED
      BY <2>1, <3>2, ClosedGaps
  <2>3. ASSUME CloseGapsOf({c}) PROVE OpenGapsOf(c)' = {}
    BY <2>1, <2>3, ClosedGaps
  <2> QED
    BY <2>2, <2>3, CollectedBy
<1>2. Spec => [][Closes]_vars
  BY <1>1, HealthInvariant, PTL DEF Spec
<1> QED
  BY <1>2 DEF SuccessClosesGaps
=============================================================================
