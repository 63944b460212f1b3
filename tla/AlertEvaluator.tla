--------------------------- MODULE AlertEvaluator ---------------------------
(***************************************************************************)
(* Alert rules, evaluated on a timer and delivered to channels.            *)
(*                                                                         *)
(*   apps/api/src/modules/notifications/evaluator.ts  the tick              *)
(*   apps/api/src/modules/notifications/service.ts    ensureAlertRules      *)
(*   apps/api/src/modules/notifications/router.ts     channels and rules    *)
(*                                                                         *)
(* Every API process walks the rules of a tenant.  What a rule finds is    *)
(* compared with the ledger of earlier deliveries, delivered, and then     *)
(* entered in the ledger: three steps, with other processes, users and     *)
(* crashes between them.                                                   *)
(***************************************************************************)
EXTENDS Naturals, FiniteSets, FiniteSetsExt

CONSTANTS
    Instances,     \* API processes
    NumRules,      \* rules are evaluated in order: 1..NumRules
    Generational,  \* rules whose dedupe key tells the occurrences apart
    Flaky,         \* rules that read another service, which may be down for good
    Entities,      \* what a rule looks at
    Channels,      \* the ids channels will ever have
    MaxBreaks,     \* bound on the occurrences that are told apart
    MaxFaults,     \* bound on crashes and failed statements
    MaxEdits       \* bound on what administrators change

Rules == 1..NumRules

ASSUME AlertAssumption ==
    /\ NumRules \in Nat
    /\ Generational \subseteq Rules
    /\ Flaky \subseteq Rules
    /\ IsFiniteSet(Channels)
    /\ MaxBreaks \in Nat
    /\ MaxFaults \in Nat
    /\ MaxEdits \in Nat

VARIABLES
    conditions,  \* what the rules look at: is it broken, and what tells this occurrence apart
    told,        \* history: did a channel accept this occurrence?
    rules,       \* AlertRule rows: missing until somebody asks for them
    chosen,      \* history: what an administrator last chose for a rule
    request,     \* the request for the rules in progress
    channels,    \* NotificationChannel rows
    ledger,      \* NotificationDelivery rows
    attempts,    \* how often each process sent a key to a channel
    ticks,       \* the ticks in progress
    faults,      \* crashes and failed statements so far
    edits        \* changes by administrators so far

world == <<conditions, told>>
catalog == <<rules, chosen, request>>
admin == <<catalog, channels, edits>>
vars == <<world, admin, ledger, attempts, ticks, faults>>

-----------------------------------------------------------------------------
(* Types *)

Conditions == Rules \X Entities
Keys == Conditions \X (0..MaxBreaks)
Sends == Keys \X Channels
Rows == [send : Sends, status : {"sent", "failed"}]

Ticks == [pc : {"idle", "rules", "seed", "collect", "dedupe", "deliver", "store"},
          on : SUBSET Channels, missing : SUBSET Rules, left : SUBSET Rules,
          keys : SUBSET Keys, todo : SUBSET Sends, rows : SUBSET Rows]

TypeOK ==
    /\ conditions \in [Conditions -> [broken : BOOLEAN, occurrence : 0..MaxBreaks]]
    /\ told \in [Conditions -> BOOLEAN]
    /\ rules \in [Rules -> {"missing", "on", "off"}]
    /\ chosen \in [Rules -> {"none", "on", "off"}]
    /\ request \in [pc : {"idle", "seed", "seeded"}, missing : SUBSET Rules]
    /\ channels \in [Channels -> {"none", "on", "off", "deleted"}]
    /\ ledger \subseteq Rows
    /\ attempts \in [Instances -> [Sends -> Nat]]
    /\ ticks \in [Instances -> Ticks]
    /\ faults \in 0..MaxFaults
    /\ edits \in 0..MaxEdits

NoTick == [pc |-> "idle", on |-> {}, missing |-> {}, left |-> {},
           keys |-> {}, todo |-> {}, rows |-> {}]

NoRequest == [pc |-> "idle", missing |-> {}]

\* A tenant has no rules yet, or lacks those that a new release brings.
Init ==
    /\ conditions = [x \in Conditions |-> [broken |-> FALSE, occurrence |-> 0]]
    /\ told = [x \in Conditions |-> FALSE]
    /\ rules \in [Rules -> {"missing", "on"}]
    /\ chosen = [r \in Rules |-> "none"]
    /\ request = NoRequest
    /\ channels = [c \in Channels |-> "none"]
    /\ ledger = {}
    /\ attempts = [i \in Instances |-> [s \in Sends |-> 0]]
    /\ ticks = [i \in Instances |-> NoTick]
    /\ faults = 0
    /\ edits = 0

-----------------------------------------------------------------------------
(* Keys *)

\* Broken: the key is the entity's, whichever the occurrence.
KeyOfEntity(x) == <<x, 0>>

\* dedupeKey: the rule, the entity and, where the data has one, something
\* that changes when the condition breaks again: an expiry or due date, a
\* detection.  A failing-signal set, a connection or a person does not.
KeyOf(x) == <<x, conditions[x].occurrence>>

\* The pure evaluators: a key for every entity the rule finds at risk.
Candidates(r) == {KeyOf(x) : x \in {y \in Conditions : y[1] = r /\ conditions[y].broken}}

\* The rows of a key.  Any of them suppresses it, sent or failed.
RowsOf(k) == {row \in ledger : row.send[1] = k}
Fresh(keys) == {k \in keys : RowsOf(k) = {}}

-----------------------------------------------------------------------------
(* ensureAlertRules: it reads, creates what was missing, and reads again *)

Missing == {r \in Rules : rules[r] = "missing"}

\* Broken: the defaults overwrite what has been created meanwhile.
UpsertDefaults(absent) == [r \in Rules |-> IF r \in absent THEN "on" ELSE rules[r]]

\* createMany with skipDuplicates: the unique index lets through what is
\* still missing of a list that was made from an earlier read.
InsertDefaults(absent) == [r \in Rules |-> IF r \in absent \cap Missing THEN "on" ELSE rules[r]]

-----------------------------------------------------------------------------
(* A tick *)

At(i, pc) == ticks[i].pc = pc
Rule(i) == Min(ticks[i].left)

On == {c \in Channels : channels[c] = "on"}
Deleted == {c \in Channels : channels[c] = "deleted"}

\* The next rule, or the end of the tick.
NextRule(i) ==
    LET left == ticks[i].left \ {Rule(i)} IN
    IF left = {} THEN NoTick
    ELSE [NoTick EXCEPT !.pc = "collect", !.on = ticks[i].on, !.left = left]

\* runTenantTick reads the channels.  Without one there is nothing to do.
\* A tick that would overlap the last one is skipped.
BeginTick(i) ==
    /\ At(i, "idle")
    /\ On # {}
    /\ ticks' = [ticks EXCEPT ![i] = [NoTick EXCEPT !.pc = "rules", !.on = On]]
    /\ UNCHANGED <<world, admin, ledger, attempts, faults>>

\* The tick reads the rules, the first time or, where some were missing,
\* again.  Rows are never deleted, so that the second time none is missing.
ReadRules(i) ==
    /\ At(i, "rules")
    /\ LET enabled == {r \in Rules : rules[r] = "on"} IN
       ticks' = [ticks EXCEPT ![i] =
         IF Missing # {} THEN [@ EXCEPT !.pc = "seed", !.missing = Missing]
         ELSE IF enabled = {} THEN NoTick
         ELSE [@ EXCEPT !.pc = "collect", !.left = enabled]]
    /\ UNCHANGED <<world, admin, ledger, attempts, faults>>

SeedRules(i) ==
    /\ At(i, "seed")
    /\ rules' = InsertDefaults(ticks[i].missing)
    /\ ticks' = [ticks EXCEPT ![i].pc = "rules", ![i].missing = {}]
    /\ UNCHANGED <<world, chosen, request, channels, edits, ledger, attempts, faults>>

\* collectCandidates reads what the rule is about.
Collect(i) ==
    /\ At(i, "collect")
    /\ ticks' = [ticks EXCEPT ![i] =
         IF Candidates(Rule(i)) = {} THEN NextRule(i)
         ELSE [@ EXCEPT !.pc = "dedupe", !.keys = Candidates(Rule(i))]]
    /\ UNCHANGED <<world, admin, ledger, attempts, faults>>

\* What may fail for good is not counted as a fault.
EvaluationFails(i) ==
    /\ At(i, "collect")
    /\ Rule(i) \notin Flaky => faults < MaxFaults
    /\ faults' = IF Rule(i) \in Flaky THEN faults ELSE faults + 1

\* Broken: a rule that cannot be evaluated ends the tick.
CollectAborts(i) ==
    /\ EvaluationFails(i)
    /\ ticks' = [ticks EXCEPT ![i] = NoTick]
    /\ UNCHANGED <<world, admin, ledger, attempts>>

\* The collector is down or a query fails: the rule is skipped.
CollectFails(i) ==
    /\ EvaluationFails(i)
    /\ ticks' = [ticks EXCEPT ![i] = NextRule(i)]
    /\ UNCHANGED <<world, admin, ledger, attempts>>

\* Keys with a row in the ledger are suppressed.
Dedupe(i) ==
    LET fresh == Fresh(ticks[i].keys) IN
    /\ At(i, "dedupe")
    /\ ticks' = [ticks EXCEPT ![i] =
         IF fresh = {} THEN NextRule(i)
         ELSE [@ EXCEPT !.pc = "deliver", !.keys = {}, !.todo = fresh \X ticks[i].on]]
    /\ UNCHANGED <<world, admin, ledger, attempts, faults>>

\* One alert goes to one channel, which accepts it or does not: either way
\* there will be a row.
Deliver(i) ==
    /\ At(i, "deliver")
    /\ \E s \in ticks[i].todo, status \in {"sent", "failed"} :
         /\ attempts' = [attempts EXCEPT ![i][s] = @ + 1]
         /\ told' = [x \in Conditions |->
              told[x] \/ (status = "sent" /\ conditions[x].broken /\ KeyOf(x) = s[1])]
         /\ ticks' = [ticks EXCEPT
              ![i].pc = IF ticks[i].todo = {s} THEN "store" ELSE "deliver",
              ![i].todo = @ \ {s},
              ![i].rows = @ \union {[send |-> s, status |-> status]}]
    /\ UNCHANGED <<conditions, admin, ledger, faults>>

\* Broken: the rows are never created.
StoreNothing(i) ==
    /\ At(i, "store")
    /\ ticks' = [ticks EXCEPT ![i] = NextRule(i)]
    /\ UNCHANGED <<world, admin, ledger, attempts, faults>>

\* The deliveries of the rule are entered in the ledger, in one createMany.
Store(i) ==
    /\ At(i, "store")
    /\ ticks[i].on \cap Deleted = {}
    /\ ledger' = ledger \union ticks[i].rows
    /\ ticks' = [ticks EXCEPT ![i] = NextRule(i)]
    /\ UNCHANGED <<world, admin, attempts, faults>>

\* A row of a channel that was deleted since the tick began breaks the
\* foreign key: no row of the rule is created and the tenant's tick ends.
StoreFails(i) ==
    /\ At(i, "store")
    /\ ticks[i].on \cap Deleted # {}
    /\ ticks' = [ticks EXCEPT ![i] = NoTick]
    /\ UNCHANGED <<world, admin, ledger, attempts, faults>>

\* A statement fails, which ends the tenant's tick, or the process dies.
TickFails(i) ==
    /\ ~At(i, "idle")
    /\ faults < MaxFaults
    /\ faults' = faults + 1
    /\ ticks' = [ticks EXCEPT ![i] = NoTick]
    /\ UNCHANGED <<world, admin, ledger, attempts>>

-----------------------------------------------------------------------------
(* Administrators *)

Edit ==
    /\ edits < MaxEdits
    /\ edits' = edits + 1
    /\ UNCHANGED <<world, ledger, attempts, ticks, faults>>

\* GET /rules and PATCH /rules/:ruleKey begin like a tick: they read, ...
AskForRules ==
    /\ request.pc = "idle"
    /\ Missing # {}
    /\ request' = [pc |-> "seed", missing |-> Missing]
    /\ UNCHANGED <<world, rules, chosen, channels, edits, ledger, attempts, ticks, faults>>

\* ... and create what was missing.
RequestSeeds ==
    /\ request.pc = "seed"
    /\ rules' = InsertDefaults(request.missing)
    /\ request' = [NoRequest EXCEPT !.pc = "seeded"]
    /\ UNCHANGED <<world, chosen, channels, edits, ledger, attempts, ticks, faults>>

\* A PATCH then updates its rule; where none was missing it has read only.
UpdateRule(r) ==
    /\ Edit
    /\ request.pc = "seeded" \/ (request.pc = "idle" /\ Missing = {})
    /\ request' = NoRequest
    /\ \E choice \in {"on", "off"} :
         /\ rules' = [rules EXCEPT ![r] = choice]
         /\ chosen' = [chosen EXCEPT ![r] = choice]
    /\ UNCHANGED channels

\* A GET is answered; a statement of either fails; the process dies.
RequestEnds ==
    /\ request.pc # "idle"
    /\ request' = NoRequest
    /\ UNCHANGED <<world, rules, chosen, channels, edits, ledger, attempts, ticks, faults>>

\* POST and PATCH of a channel.
SwitchChannel(c) ==
    /\ Edit
    /\ channels[c] # "deleted"
    /\ \E enabled \in {"on", "off"} \ {channels[c]} : channels' = [channels EXCEPT ![c] = enabled]
    /\ UNCHANGED catalog

\* DELETE of a channel.  Its rows stay in the ledger, without their channelId
\* (ON DELETE SET NULL), which nothing reads.
DeleteChannel(c) ==
    /\ Edit
    /\ channels[c] \in {"on", "off"}
    /\ channels' = [channels EXCEPT ![c] = "deleted"]
    /\ UNCHANGED catalog

-----------------------------------------------------------------------------
(* What the rules look at *)

Break(x) ==
    /\ ~conditions[x].broken
    /\ IF x[1] \in Generational
         THEN /\ conditions[x].occurrence < MaxBreaks
              /\ conditions' = [conditions EXCEPT ![x] = [broken |-> TRUE, occurrence |-> @.occurrence + 1]]
         ELSE conditions' = [conditions EXCEPT ![x].broken = TRUE]
    /\ told' = [told EXCEPT ![x] = FALSE]
    /\ UNCHANGED <<admin, ledger, attempts, ticks, faults>>

Recover(x) ==
    /\ conditions[x].broken
    /\ conditions' = [conditions EXCEPT ![x].broken = FALSE]
    /\ UNCHANGED <<told, admin, ledger, attempts, ticks, faults>>

-----------------------------------------------------------------------------
(* The specification *)

Tick(i) ==
    \/ BeginTick(i) \/ ReadRules(i) \/ SeedRules(i) \/ Collect(i) \/ CollectFails(i)
    \/ Dedupe(i) \/ Deliver(i) \/ Store(i) \/ StoreFails(i) \/ TickFails(i)

Administrate ==
    \/ AskForRules \/ RequestSeeds \/ RequestEnds
    \/ \E r \in Rules : UpdateRule(r)
    \/ \E c \in Channels : SwitchChannel(c) \/ DeleteChannel(c)

Next ==
    \/ \E i \in Instances : Tick(i)
    \/ \E x \in Conditions : Break(x) \/ Recover(x)
    \/ Administrate

Spec == Init /\ [][Next]_vars

\* The timer fires and statements return.  The conditions and the users are
\* not fair, nor is the choice of a rule's failure or a delivery's outcome.
FairSpec == Spec /\ \A i \in Instances : WF_vars(Tick(i))

-----------------------------------------------------------------------------
(* Properties *)

\* No process sends one alert to one channel twice, unless it crashed or a
\* statement failed between the sending and the ledger, or a channel was
\* deleted in between: a condition that persists does not alert at every
\* tick, however slow deliveries are and whatever the other processes do
\* (evaluator.ts:598-665).
SentOncePerProcess ==
    \A i \in Instances, s \in Sends : attempts[i][s] <= 1 + faults + Cardinality(Deleted)

\* Where the key tells occurrences apart, an occurrence that is suppressed
\* although no channel accepted it has only failed rows: its own deliveries
\* failed, and it is not silenced by an earlier occurrence nor by the
\* success of another process (evaluator.ts:599-605, 627-660).
SuppressedWasTold ==
    \A x \in Conditions :
        (x[1] \in Generational /\ conditions[x].broken /\ ~told[x]) =>
            \A row \in RowsOf(KeyOf(x)) : row.status = "failed"

\* Two lists of missing rules, read at different times by ticks and requests,
\* do not undo what an administrator chose in between, and a PATCH finds the
\* row it updates although it may be the first to ask (service.ts:216-235).
SeedingKeepsChoices ==
    /\ \A r \in Rules : chosen[r] # "none" => rules[r] = chosen[r]
    /\ request.pc = "seeded" => Missing = {}

Alertable(x) == conditions[x].broken /\ rules[x[1]] # "off" /\ On # {}

\* A condition that stays broken is accepted by a channel or is in the ledger
\* as failed, in the end: also when another rule's source is down for good,
\* when processes crash, when channels are deleted under a tick and when
\* rules have yet to be seeded (evaluator.ts:586-595).
BrokenIsTold ==
    \A x \in Conditions :
        (x[1] \in Generational \ Flaky /\ Alertable(x)) ~>
            (told[x] \/ RowsOf(KeyOf(x)) # {} \/ ~Alertable(x))

-----------------------------------------------------------------------------
(* Properties that do not hold *)

\* "A persisting condition alerts once" (docs/notifications.md:12): two
\* processes that look before either has entered its rows both send.
AlertsOnce ==
    faults = 0 => \A s \in Sends, i, j \in Instances :
        (attempts[i][s] > 0 /\ attempts[j][s] > 0) => i = j

\* "... so a condition that recovers and later re-breaks alerts again", of
\* "a device's failing-signal set" too (docs/notifications.md:12).
RebrokenIsTold ==
    \A x \in Conditions : (conditions[x].broken /\ RowsOf(KeyOf(x)) # {}) => told[x]

\* "A persisting condition alerts once" again: one whose only delivery
\* failed never alerts, since the failed row suppresses it.
FailedIsRetried ==
    \A x \in Conditions :
        (x[1] \in Generational \ Flaky /\ Alertable(x)) ~> (told[x] \/ ~Alertable(x))

=============================================================================
