---------------------------- MODULE GapEscalation ----------------------------
(***************************************************************************)
(* The hourly gap escalator of apps/collector (gap-escalator.ts) and the   *)
(* endpoint of apps/api it calls (POST /internal/coverage-gaps/escalate),  *)
(* which may create a ControlWeakness.  A pass reads the open gaps once    *)
(* and works through them, one API call and one update each, while the     *)
(* bookkeeping of CheckHealth opens and closes gaps.                       *)
(*                                                                         *)
(* The passing of time is two flags of a gap.  A gap id opens and closes   *)
(* once; the audit log and escalationCount are left out.                   *)
(*                                                                         *)
(* Names that every module has are its own here, so that a module can      *)
(* extend it together with another component.                              *)
(***************************************************************************)
EXTENDS Naturals, FiniteSets

CONSTANTS
    GapIds,         \* ids of EvidenceCoverageGap rows
    MaterialGaps,   \* those whose check has severity high or critical
    Tenants,
    Providers,
    TenantOf,       \* the tenant of a gap
    ProviderOf,     \* the integration of the check of a gap
    Adopters,       \* tenants with cps234 enabled
    Reasons,        \* CoverageGapReason
    None,           \* stands for "no gap"
    PLATFORM_OUTAGE_MIN_TENANTS,
    PLATFORM_OUTAGE_REASON_RATIO,   \* in percent
    MaxLosses       \* bound: crashes, lost requests, lost answers

ASSUME EscalationAssumption ==
    /\ MaterialGaps \subseteq GapIds
    /\ IsFiniteSet(GapIds)
    /\ TenantOf \in [GapIds -> Tenants]
    /\ ProviderOf \in [GapIds -> Providers]
    /\ Adopters \subseteq Tenants
    /\ None \notin GapIds
    /\ PLATFORM_OUTAGE_MIN_TENANTS \in Nat
    /\ PLATFORM_OUTAGE_REASON_RATIO \in 0..100
    /\ MaxLosses \in Nat

VARIABLES
    gaps,         \* EvidenceCoverageGap rows
    weaknesses,   \* how many ControlWeakness rows the API created for a gap
    pass,         \* the pass of the escalator
    losses

escalationVars == <<gaps, weaknesses, pass, losses>>
-----------------------------------------------------------------------------
\* ripe: open for longer than the threshold of the severity;
\* debounced: lastEscalatedAt is less than RE_ESCALATION_DEBOUNCE_MS ago;
\* weakness: controlWeaknessId is set.
Gap == [status: {"absent", "open", "closed"}, reason: Reasons,
        ripe: BOOLEAN, debounced: BOOLEAN, weakness: BOOLEAN]

\* todo: gaps it has still to escalate; known: gaps that had a weakness when
\* it read them; outage: the providers it found in outage; cur: the gap whose
\* answer it got; created: whether the answer names a weakness.
Pass == [todo: SUBSET GapIds, known: SUBSET GapIds, outage: SUBSET Providers,
         cur: GapIds \cup {None}, created: BOOLEAN]

EscalationTypeOK ==
    /\ gaps \in [GapIds -> Gap]
    /\ weaknesses \in [GapIds -> Nat]
    /\ pass \in Pass
    /\ losses \in 0..MaxLosses

NoPass == [todo |-> {}, known |-> {}, outage |-> {}, cur |-> None,
           created |-> FALSE]

EscalationInit ==
    /\ gaps \in [GapIds -> {gap \in Gap : /\ gap.status = "absent"
                                          /\ ~gap.ripe /\ ~gap.debounced
                                          /\ ~gap.weakness}]
    /\ weaknesses = [g \in GapIds |-> 0]
    /\ pass = NoPass
    /\ losses = 0

OpenGaps == {g \in GapIds : gaps[g].status = "open"}
-----------------------------------------------------------------------------
(***************************************************************************)
(* The bookkeeping of the checks, and time.                                *)
(***************************************************************************)

\* openOrExtendGap creates a gap; the reason is its own.
GapOpens(g) ==
    /\ gaps[g].status = "absent"
    /\ gaps' = [gaps EXCEPT ![g].status = "open"]
    /\ UNCHANGED <<weaknesses, pass, losses>>

\* A success closes the gap.
GapCloses(g) ==
    /\ gaps[g].status = "open"
    /\ gaps' = [gaps EXCEPT ![g].status = "closed"]
    /\ UNCHANGED <<weaknesses, pass, losses>>

GapRipens(g) ==
    /\ gaps[g].status = "open"
    /\ ~gaps[g].ripe
    /\ gaps' = [gaps EXCEPT ![g].ripe = TRUE]
    /\ UNCHANGED <<weaknesses, pass, losses>>

DebounceElapses(g) ==
    /\ gaps[g].status = "open"
    /\ gaps[g].debounced
    /\ gaps' = [gaps EXCEPT ![g].debounced = FALSE]
    /\ UNCHANGED <<weaknesses, pass, losses>>
-----------------------------------------------------------------------------
(***************************************************************************)
(* A pass.                                                                 *)
(***************************************************************************)

\* A provider is in outage when its open gaps span enough tenants and enough
\* of them have one reason.
detectPlatformOutages ==
    {p \in Providers :
       LET bucket == {g \in OpenGaps : ProviderOf[g] = p} IN
         /\ bucket # {}
         /\ Cardinality({TenantOf[g] : g \in bucket})
              >= PLATFORM_OUTAGE_MIN_TENANTS
         /\ \E r \in Reasons :
              Cardinality({g \in bucket : gaps[g].reason = r}) * 100
                >= Cardinality(bucket) * PLATFORM_OUTAGE_REASON_RATIO}

Idle == pass.todo = {} /\ pass.cur = None

\* Broken: gaps that cannot lead to a weakness are not escalated.
DueMaterial == {g \in OpenGaps \cap MaterialGaps : gaps[g].ripe /\ ~gaps[g].debounced}

Due == {g \in OpenGaps : gaps[g].ripe /\ ~gaps[g].debounced}

\* Broken: a provider found in outage stays so.
BeginPassSticky ==
    /\ Idle
    /\ Due # {}
    /\ pass' = [NoPass EXCEPT !.todo = Due,
                              !.known = {g \in Due : gaps[g].weakness},
                              !.outage = pass.outage \cup detectPlatformOutages]
    /\ UNCHANGED <<gaps, weaknesses, losses>>

BeginPass ==
    /\ Idle
    /\ Due # {}
    /\ pass' = [NoPass EXCEPT !.todo = Due,
                              !.known = {g \in Due : gaps[g].weakness},
                              !.outage = detectPlatformOutages]
    /\ UNCHANGED <<gaps, weaknesses, losses>>

\* Broken: a re-escalation asks for a weakness again.
CreatesAgain(g) ==
    /\ g \in MaterialGaps
    /\ ProviderOf[g] \notin pass.outage
    /\ TenantOf[g] \in Adopters

\* What the request asks for and what the API grants: neither looks whether
\* the gap has got a weakness, or was closed, since the pass read it.
Creates(g) ==
    /\ g \notin pass.known
    /\ g \in MaterialGaps
    /\ ProviderOf[g] \notin pass.outage
    /\ TenantOf[g] \in Adopters

\* POST /internal/coverage-gaps/escalate, and its answer.
Escalate(g) ==
    /\ pass.cur = None
    /\ g \in pass.todo
    /\ pass' = [pass EXCEPT !.todo = @ \ {g}, !.cur = g, !.created = Creates(g)]
    /\ weaknesses' = [weaknesses EXCEPT ![g] = IF Creates(g) THEN @ + 1 ELSE @]
    /\ UNCHANGED <<gaps, losses>>

\* Broken: records the weakness that was asked for.
RecordRequest ==
    /\ pass.cur # None
    /\ gaps' = [gaps EXCEPT ![pass.cur].debounced = TRUE,
                            ![pass.cur].weakness = pass.cur \in MaterialGaps]
    /\ pass' = [pass EXCEPT !.cur = None, !.created = FALSE]
    /\ UNCHANGED <<weaknesses, losses>>

RecordEscalation ==
    /\ pass.cur # None
    /\ gaps' = [gaps EXCEPT ![pass.cur].debounced = TRUE,
                            ![pass.cur].weakness = @ \/ pass.created]
    /\ pass' = [pass EXCEPT !.cur = None, !.created = FALSE]
    /\ UNCHANGED <<weaknesses, losses>>

\* The request does not reach the API, or the API fails before it creates a
\* weakness; the pass logs that and goes on.
RequestFails(g) ==
    /\ pass.cur = None
    /\ g \in pass.todo
    /\ losses < MaxLosses
    /\ losses' = losses + 1
    /\ pass' = [pass EXCEPT !.todo = @ \ {g}]
    /\ UNCHANGED <<gaps, weaknesses>>

\* The answer is lost, or the update of the gap fails; the pass goes on.
RecordFails ==
    /\ pass.cur # None
    /\ losses < MaxLosses
    /\ losses' = losses + 1
    /\ pass' = [pass EXCEPT !.cur = None, !.created = FALSE]
    /\ UNCHANGED <<gaps, weaknesses>>

\* A restart begins a pass at once.
Crash ==
    /\ ~Idle
    /\ losses < MaxLosses
    /\ losses' = losses + 1
    /\ pass' = NoPass
    /\ UNCHANGED <<gaps, weaknesses>>
-----------------------------------------------------------------------------
PassStep ==
    \/ \E g \in GapIds : Escalate(g) \/ RequestFails(g)
    \/ RecordEscalation \/ RecordFails

Time(g) == GapRipens(g) \/ DebounceElapses(g)

EscalationNext ==
    \/ \E g \in GapIds : GapOpens(g) \/ GapCloses(g) \/ Time(g)
    \/ BeginPass \/ PassStep \/ Crash

EscalationSpec == EscalationInit /\ [][EscalationNext]_escalationVars

\* Timers fire, statements and requests return, and time passes; gaps need
\* neither open nor close.
Fairness ==
    /\ WF_escalationVars(BeginPass)
    /\ WF_escalationVars(PassStep)
    /\ \A g \in GapIds : WF_escalationVars(Time(g))

EscalationFairSpec == EscalationSpec /\ Fairness
-----------------------------------------------------------------------------
(***************************************************************************)
(* Properties.                                                             *)
(***************************************************************************)

\* A gap leads to one ControlWeakness however often it is escalated; only an
\* answer or an update that is lost can lead to one more (gap-escalator.ts
\* 123-154, internal/router.ts 284-330).
LossesBoundDuplicates == \A g \in GapIds : weaknesses[g] <= 1 + losses

\* A gap names a weakness only when the API created one for it, also when the
\* gap was closed between the request and the update.
WeaknessExists == \A g \in GapIds : gaps[g].weakness => weaknesses[g] >= 1

\* A gap that stays open long enough is escalated.
RipeGapsAreEscalated ==
    \A g \in GapIds :
        gaps[g].status = "open" /\ gaps[g].ripe ~>
            gaps[g].status # "open" \/ gaps[g].debounced

\* A material gap of a tenant that has adopted cps234 gets its weakness when
\* it stays open and its provider stays out of an outage, also when earlier
\* escalations were throttled by one.
MaterialGapsAreRaised ==
    \A g \in MaterialGaps :
        TenantOf[g] \in Adopters
        /\ <>[](g \in OpenGaps /\ ProviderOf[g] \notin detectPlatformOutages)
            => <>gaps[g].weakness

\* apps/collector/src/scheduler/gap-escalator.ts:149-151: "re-escalations of
\* the same gap reuse the original ControlWeakness".
WeaknessReused == \A g \in GapIds : weaknesses[g] <= 1

\* apps/collector/src/scheduler/gap-escalator.ts:33-34: an outage costs a
\* tenant "no ControlWeakness for an hour", so the next hourly pass after it
\* takes up the gap.
OutageCostsOnePass ==
    [][BeginPass =>
         \A g \in OpenGaps \cap MaterialGaps :
            gaps[g].ripe /\ ~gaps[g].weakness
              /\ ProviderOf[g] \notin detectPlatformOutages
                => g \in pass'.todo]_escalationVars
=============================================================================
