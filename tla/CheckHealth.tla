----------------------------- MODULE CheckHealth -----------------------------
(***************************************************************************)
(* Operational health of the checks of a connection and the coverage gaps  *)
(* that record when their evidence was missing.  Two kinds of actor of     *)
(* apps/collector write the same rows, each as a series of statements that *)
(* decide on what an earlier one read: the bookkeeping that follows a run  *)
(* of the connection (check-health.ts, custom-checks.ts) and the overdue   *)
(* detector.  What the escalator makes of a gap is GapEscalation's part.   *)
(*                                                                         *)
(* An action is one statement.  The text columns (reasons, messages,       *)
(* timestamps shown to users) and retryCount of a gap are left out; the    *)
(* deletion of the connection is not modelled here.                        *)
(***************************************************************************)
EXTENDS Naturals, FiniteSets

CONSTANTS
    Checks,             \* ids of IntegrationCheck rows of one connection
    GapIds,             \* ids of EvidenceCoverageGap rows
    Sweeps,             \* runs of the connection whose bookkeeping may overlap
    Custom,             \* TRUE: the connection is one of HTTP checks
    Detector,           \* the overdue detector, an actor of its own
    None,               \* stands for "no row"
    FAILING_THRESHOLD,
    MaxFaults           \* bound: crashes and failed statements

ASSUME HealthAssumption ==
    /\ Custom \in BOOLEAN
    /\ Detector \notin Sweeps
    /\ None \notin Checks \cup GapIds
    /\ FAILING_THRESHOLD \in Nat \ {0}
    /\ MaxFaults \in Nat

VARIABLES
    checks,       \* IntegrationCheck rows
    gaps,         \* the check of an open EvidenceCoverageGap, None of another id
    actor,        \* the sweeps and the detector between two statements
    faults

vars == <<checks, gaps, actor, faults>>
-----------------------------------------------------------------------------
Actors == Sweeps \cup {Detector}

HealthState == {"healthy", "degraded", "failing", "overdue"}

\* failures counts up to the threshold, from where on it decides nothing;
\* expected: expectedNextRunAt is null, ahead, or past by more than the grace.
Check == [enabled: BOOLEAN, failures: 0..FAILING_THRESHOLD,
          health: HealthState, expected: {"none", "ahead", "past"}]

\* left: checks the loop has still to visit; seen: checks the query returned;
\* count: the failure counts it returned; opens: the loss opens a gap;
\* cur, row, gap: the check at hand, whether its row is still to be written,
\* and where openOrExtendGap stands; found: the gap it extends.
Actor == [task: {"idle", "healthy", "failing", "custom", "overdue"},
          seen: SUBSET Checks, left: SUBSET Checks,
          count: [Checks -> 0..FAILING_THRESHOLD], opens: BOOLEAN,
          cur: Checks \cup {None}, row: BOOLEAN,
          gap: {"done", "find", "create", "extend"},
          found: GapIds \cup {None}]

TypeOK ==
    /\ checks \in [Checks -> Check]
    /\ gaps \in [GapIds -> Checks \cup {None}]
    /\ actor \in [Actors -> Actor]
    /\ faults \in 0..MaxFaults

IdleActor == [task |-> "idle", seen |-> {}, left |-> {},
              count |-> [c \in Checks |-> 0], opens |-> FALSE, cur |-> None,
              row |-> FALSE, gap |-> "done", found |-> None]

\* Bindings in "suggest" mode create their checks disabled, otherwise enabled.
Init ==
    /\ \E on \in SUBSET Checks :
         checks = [c \in Checks |-> [enabled |-> c \in on, failures |-> 0,
                                     health |-> "healthy", expected |-> "none"]]
    /\ gaps = [g \in GapIds |-> None]
    /\ actor = [a \in Actors |-> IdleActor]
    /\ faults = 0

Enabled == {c \in Checks : checks[c].enabled}
OpenGapsOf(c) == {g \in GapIds : gaps[g] = c}

healthStateForFailures(n) ==
    IF n = 0 THEN "healthy"
    ELSE IF n < FAILING_THRESHOLD THEN "degraded" ELSE "failing"

OneMore(n) == IF n < FAILING_THRESHOLD THEN n + 1 ELSE n

\* Broken: a success keeps the count.
HealthyKeepsCount(check) == [check EXCEPT !.health = "healthy",
                                          !.expected = "ahead"]

Healthy(check) == [check EXCEPT !.failures = 0, !.health = "healthy",
                                !.expected = "ahead"]

\* Broken: closes the gap a findFirst returns.
CloseOneGap(cs) ==
    \/ \E g \in GapIds : gaps[g] \in cs /\ gaps' = [gaps EXCEPT ![g] = None]
    \/ (\A g \in GapIds : gaps[g] \notin cs) /\ gaps' = gaps

CloseGapsOf(cs) ==
    gaps' = [g \in GapIds |-> IF gaps[g] \in cs THEN None ELSE gaps[g]]
-----------------------------------------------------------------------------
(***************************************************************************)
(* Time and users.                                                         *)
(***************************************************************************)

\* POST /connections/:id/bindings/confirm; no code disables a check again.
ConfirmCheck(c) ==
    /\ ~checks[c].enabled
    /\ checks' = [checks EXCEPT ![c].enabled = TRUE]
    /\ UNCHANGED <<gaps, actor, faults>>

RunExpected(c) ==
    /\ checks[c].expected = "ahead"
    /\ checks' = [checks EXCEPT ![c].expected = "past"]
    /\ UNCHANGED <<gaps, actor, faults>>
-----------------------------------------------------------------------------
(***************************************************************************)
(* The statements of a sweep and of the detector.                          *)
(***************************************************************************)
Begin(a, task, cs, opens) ==
    /\ actor[a].task = "idle"
    /\ cs # {}
    /\ actor' = [actor EXCEPT ![a] =
                   [IdleActor EXCEPT !.task = task, !.seen = cs, !.left = cs,
                        !.count = [c \in Checks |->
                                     IF c \in cs /\ task \in {"failing", "custom"}
                                     THEN checks[c].failures ELSE 0],
                        !.opens = opens]]
    /\ UNCHANGED <<checks, gaps, faults>>

\* markChecksHealthy: the ids of the enabled checks, then one transaction over
\* the checks enabled by then and the gaps of the ids.
BeginHealthy(a) == ~Custom /\ Begin(a, "healthy", Enabled, FALSE)

WriteHealthy(a) ==
    /\ actor[a].task = "healthy"
    /\ checks' = [c \in Checks |-> IF c \in Enabled THEN Healthy(checks[c])
                                   ELSE checks[c]]
    /\ CloseGapsOf(actor[a].seen)
    /\ actor' = [actor EXCEPT ![a] = IdleActor]
    /\ UNCHANGED faults

\* markChecksFailing reads the checks with their failure counts and visits
\* one after the other; retriesExhausted decides whether it opens gaps.
BeginFailing(a, opens) == Begin(a, "failing", Enabled, opens)

\* runCustomChecksForConnection reads the checks before it executes them.
BeginCustom(a) == Custom /\ Begin(a, "custom", Enabled, TRUE)

\* runOverdueScan
\* Broken: a failing check is not overdue.
OverdueIfHealthy == {c \in Enabled : checks[c].expected = "past"
                                     /\ checks[c].health = "healthy"}

Overdue == {c \in Enabled : checks[c].expected = "past"
                            /\ checks[c].health # "overdue"}
\* Broken: flags the check and opens no gap.
BeginOverdueSilently == Begin(Detector, "overdue", Overdue, FALSE)

BeginOverdue == Begin(Detector, "overdue", Overdue, TRUE)

\* The loop goes on when both halves of the check at hand are done.
Between(a) ==
    /\ actor[a].task \in {"failing", "custom", "overdue"}
    /\ ~actor[a].row
    /\ actor[a].gap = "done"

VisitCheck(a, c) ==
    /\ Between(a)
    /\ c \in actor[a].left
    /\ actor' = [actor EXCEPT ![a].left = @ \ {c}, ![a].cur = c, ![a].row = TRUE,
                              ![a].gap = IF actor[a].opens THEN "find" ELSE "done"]
    /\ UNCHANGED <<checks, gaps, faults>>

\* A custom check that passes or fails was collected: its row and its gaps
\* are written in one transaction; a skipped one leaves its health as it is.
CollectedCheck(a, c) ==
    /\ actor[a].task = "custom"
    /\ Between(a)
    /\ c \in actor[a].left
    /\ \/ /\ checks' = [checks EXCEPT ![c] = Healthy(@)]
          /\ CloseGapsOf({c})
       \/ UNCHANGED <<checks, gaps>>
    /\ actor' = [actor EXCEPT ![a].left = @ \ {c}]
    /\ UNCHANGED faults

\* Broken: increments the row, but classifies the count the sweep read.
FailedMixed(check, count, task) ==
    [check EXCEPT !.failures = OneMore(@),
                  !.health = healthStateForFailures(OneMore(count)),
                  !.expected = IF task = "custom" THEN "ahead" ELSE @]

\* A failure, from the count the sweep read; a custom check is expected again
\* after it, the others are not.
Failed(check, count, task) ==
    [check EXCEPT !.failures = OneMore(count),
                  !.health = healthStateForFailures(OneMore(count)),
                  !.expected = IF task = "custom" THEN "ahead" ELSE @]

\* The row of the check at hand.
WriteCheck(a) ==
    LET c == actor[a].cur IN
    /\ actor[a].row
    /\ \/ /\ a # Detector
          /\ checks' = [checks EXCEPT ![c] =
                          Failed(@, actor[a].count[c], actor[a].task)]
       \/ /\ a = Detector
          /\ checks' = [checks EXCEPT ![c].health = "overdue"]
    /\ actor' = [actor EXCEPT ![a].row = FALSE]
    /\ UNCHANGED <<gaps, faults>>

\* openOrExtendGap starts with the row of the check (Promise.all) in
\* markChecksFailing and after it elsewhere.
FindGap(a) ==
    /\ actor[a].gap = "find"
    /\ actor[a].row => actor[a].task = "failing"
    /\ LET open == OpenGapsOf(actor[a].cur) IN
         \/ /\ open = {}
            /\ actor' = [actor EXCEPT ![a].gap = "create"]
         \/ \E g \in open :
              actor' = [actor EXCEPT ![a].gap = "extend", ![a].found = g]
    /\ UNCHANGED <<checks, gaps, faults>>

\* Ids of closed gaps that no actor is about to touch are used again, which
\* keeps GapIds small.
CreateGap(a) ==
    /\ actor[a].gap = "create"
    /\ \E g \in GapIds :
         /\ gaps[g] = None
         /\ \A b \in Actors : actor[b].found # g
         /\ gaps' = [gaps EXCEPT ![g] = actor[a].cur]
    /\ actor' = [actor EXCEPT ![a].gap = "done"]
    /\ UNCHANGED <<checks, faults>>

\* retryCount and lastErrorMessage of the gap found, open or not by now.
ExtendGap(a) ==
    /\ actor[a].gap = "extend"
    /\ actor' = [actor EXCEPT ![a].gap = "done", ![a].found = None]
    /\ UNCHANGED <<checks, gaps, faults>>

EndSweep(a) ==
    /\ Between(a)
    /\ actor[a].left = {}
    /\ actor' = [actor EXCEPT ![a] = IdleActor]
    /\ UNCHANGED <<checks, gaps, faults>>

\* A statement fails: the loop ends, but the other half of a Promise.all that
\* has started goes on by itself.
StatementFails(a) ==
    /\ faults < MaxFaults
    /\ faults' = faults + 1
    /\ \/ /\ actor[a].task = "healthy"
          /\ actor' = [actor EXCEPT ![a] = IdleActor]
       \/ /\ actor[a].task = "custom"
          /\ Between(a)
          /\ actor' = [actor EXCEPT ![a].left = {}]
       \/ /\ actor[a].row
          /\ actor' = [actor EXCEPT ![a].left = {}, ![a].row = FALSE,
                         ![a].gap = IF actor[a].task = "failing" THEN @ ELSE "done"]
       \/ /\ actor[a].gap # "done"
          /\ actor[a].row => actor[a].task = "failing"
          /\ actor' = [actor EXCEPT ![a].left = {}, ![a].gap = "done",
                                    ![a].found = None]
    /\ UNCHANGED <<checks, gaps>>
-----------------------------------------------------------------------------
Crash ==
    /\ faults < MaxFaults
    /\ faults' = faults + 1
    /\ actor' = [a \in Actors |-> IdleActor]
    /\ UNCHANGED <<checks, gaps>>

Statement(a) ==
    \/ WriteHealthy(a)
    \/ \E c \in Checks : VisitCheck(a, c) \/ CollectedCheck(a, c)
    \/ WriteCheck(a) \/ FindGap(a) \/ CreateGap(a) \/ ExtendGap(a)
    \/ EndSweep(a)

Next ==
    \/ \E c \in Checks : ConfirmCheck(c) \/ RunExpected(c)
    \/ \E a \in Sweeps :
         \/ BeginHealthy(a) \/ BeginCustom(a)
         \/ \E opens \in BOOLEAN : BeginFailing(a, opens)
    \/ BeginOverdue
    \/ \E a \in Actors : Statement(a) \/ StatementFails(a)
    \/ Crash

Spec == Init /\ [][Next]_vars

\* Timers keep firing and statements return; runs of the connection, users
\* and the passing of time promise nothing.
Fairness ==
    /\ WF_vars(BeginOverdue)
    /\ \A a \in Actors : WF_vars(Statement(a) \/ StatementFails(a))

FairSpec == Spec /\ Fairness
-----------------------------------------------------------------------------
(***************************************************************************)
(* Properties.                                                             *)
(***************************************************************************)

\* However the statements of sweeps and detector interleave, the health of a
\* check is that of its failure count, or overdue: no mixture of a fresh count
\* with a stale state is ever stored (check-health.ts, custom-checks.ts).
HealthMatchesFailures ==
    \A c \in Checks :
        checks[c].health \in {healthStateForFailures(checks[c].failures), "overdue"}

\* The checks a statement marks as collected; only sweeps do.
Collected == {c \in Checks :
    /\ checks'[c] = Healthy(checks[c])
    /\ checks'[c] # checks[c]}

\* A success leaves no gap open of a check the sweep knew: it closes also the
\* second of two gaps that racing actors opened, and also a gap opened after
\* the query that listed the check (markChecksHealthy, custom-checks.ts).
SuccessClosesGaps ==
    [][\A c \in Collected : \A a \in Sweeps :
         actor'[a] # actor[a] /\ c \in actor[a].seen => OpenGapsOf(c)' = {}]_vars

\* A check that was once collected and whose next run does not come is
\* eventually noticed, whatever the sweeps do.
LateRunsAreNoticed ==
    \A c \in Checks :
        checks[c].enabled /\ checks[c].expected = "past" ~>
            checks[c].health = "overdue" \/ checks[c].expected # "past"

\* A check that is overdue gets an open gap or recovers, as long as no
\* statement fails and the collector does not crash.
OverdueOpensGap ==
    \A c \in Checks :
        checks[c].health = "overdue" ~>
            \/ checks[c].health # "overdue"
            \/ OpenGapsOf(c) # {}
            \/ faults > 0

\* apps/collector/src/runner/check-health.ts:39-41: success bookkeeping for
\* "every enabled" check resets its failures and "closes open gaps".
SuccessClosesEveryGap ==
    [][\A c \in Collected : OpenGapsOf(c)' = {}]_vars

\* apps/collector/src/scheduler/overdue-detector.ts:10-12: the detector flips
\* checks "whose expectedNextRunAt is in the past".
OverdueOnlyWhenLate ==
    [][\A c \in Checks :
         checks'[c].health = "overdue" /\ checks[c].health # "overdue" =>
            checks[c].expected = "past"]_vars

\* apps/collector/src/scheduler/overdue-detector.ts:13-14: it opens a gap "if
\* there isn't already one open".
OneOpenGapPerCheck == \A c \in Checks : Cardinality(OpenGapsOf(c)) <= 1

\* apps/collector/src/scheduler/overdue-detector.ts:10-14: each overdue check
\* is flipped and has a gap opened.
OverdueHasGap ==
    \A c \in Checks :
        checks[c].health = "overdue" ~>
            checks[c].health # "overdue" \/ OpenGapsOf(c) # {}

\* apps/collector/prisma/schema/integration-check.prisma:72-73 and
\* apps/collector/src/scheduler/overdue-detector.ts:6-8: a check that the
\* scheduler skips entirely is what the detector is for.
SkippedChecksAreNoticed ==
    \A c \in Checks :
        checks[c].enabled /\ checks[c].expected = "none" ~>
            checks[c].health # "healthy" \/ checks[c].expected # "none"
=============================================================================
