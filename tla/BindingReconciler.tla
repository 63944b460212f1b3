------------------------- MODULE BindingReconciler -------------------------
(***************************************************************************)
(* Which controls a connection's checks contribute evidence to.            *)
(*                                                                         *)
(*   apps/collector/src/integrations/binder/index.ts       the binder       *)
(*   apps/collector/src/integrations/binder/reconciler.ts  the reconciler   *)
(*   apps/collector/src/scheduler/reconciler.ts            its timer        *)
(*   apps/collector/src/routes/connections.ts              connect, confirm *)
(*   apps/api/src/modules/internal/control-binding.ts      the resolver     *)
(*                                                                         *)
(* The bindings of one active connection are derived from the manifest of  *)
(* its integration and from the tenant's frameworks and controls, which    *)
(* belong to another service.  Every pass resolves, loads and writes at    *)
(* three different times.                                                  *)
(***************************************************************************)
EXTENDS Naturals, FiniteSets

CONSTANTS
    Keys,          \* manifest keys of checks and capabilities
    Requirements,  \* requirements of one framework
    Controls,
    References,    \* the requirements a key refers to: a subset of Keys \X Requirements
    Requests,      \* passes that hooks and users may have in progress
    Timer,         \* the pass of the scheduler
    Followed,      \* the passes whose history is kept
    MaxFaults      \* bound on passes that fail

ASSUME BindingAssumption ==
    /\ References \subseteq Keys \X Requirements
    /\ Timer \notin Requests
    /\ Followed \subseteq Requests \union {Timer}
    /\ MaxFaults \in Nat

VARIABLES
    enabled,     \* is the framework instance enabled?
    applicable,  \* controls that are not marked not_applicable
    assigned,    \* ControlRequirementAssignment rows
    manifest,    \* the keys the collector's build declares
    version,     \* the manifest the connection was last bound to
    checks,      \* IntegrationCheck rows
    bindings,    \* IntegrationCheckControl rows
    connect,     \* POST /connections
    passes,      \* reconcileBindings in progress
    faults,      \* passes that failed so far
    overtaken    \* history: <<s, k>> when what pass s has read of key k has changed since

catalog == <<enabled, applicable, assigned>>
rows == <<version, checks, bindings>>
state == <<catalog, manifest, rows, connect, passes, faults>>
vars == <<state, overtaken>>

-----------------------------------------------------------------------------
(* Types *)

Pairs == Keys \X Controls
Passes == Requests \union {Timer}

\* disabledReason, as far as the code ever writes it.
Reasons == {"control_not_applicable", "framework_disabled", "ref_unmapped"}
Bindings == {"none", "enabled", "pending_confirmation", "manifest_removed"} \union Reasons

PassStates == [pc : {"idle", "resolve", "load", "apply"}, trigger : Reasons,
               desired : SUBSET Pairs, reason : [Keys -> Reasons],
               rows : [Pairs -> Bindings], known : SUBSET Keys]

StateTypes ==
    /\ enabled \in BOOLEAN
    /\ applicable \subseteq Controls
    /\ assigned \subseteq Requirements \X Controls
    /\ manifest \subseteq Keys
    /\ version \subseteq Keys
    /\ checks \in [Keys -> {"none", "on", "off"}]
    /\ bindings \in [Pairs -> Bindings]
    /\ connect \in [pc : {"none", "resolve", "bind", "done"}, mode : {"auto", "suggest", "off"},
                    desired : SUBSET Pairs]
    /\ passes \in [Passes -> PassStates]
    /\ faults \in 0..MaxFaults

TypeOK == StateTypes /\ overtaken \subseteq Followed \X Keys

NoRows == [p \in Pairs |-> "none"]
Idle == [pc |-> "idle", trigger |-> "ref_unmapped", desired |-> {},
         reason |-> [k \in Keys |-> "ref_unmapped"], rows |-> NoRows, known |-> {}]

Init ==
    /\ enabled \in BOOLEAN
    /\ applicable = Controls
    /\ assigned \in SUBSET (Requirements \X Controls)
    /\ manifest \in SUBSET Keys
    /\ version = {}
    /\ checks = [k \in Keys |-> "none"]
    /\ bindings = NoRows
    /\ connect = [pc |-> "none", mode |-> "suggest", desired |-> {}]
    /\ passes = [s \in Passes |-> Idle]
    /\ faults = 0
    /\ overtaken = {}

-----------------------------------------------------------------------------
(* The resolver *)

\* The controls a requirement resolves to: assigned, through an enabled
\* instance, and applicable.
Resolved(q) == {c \in applicable : enabled /\ <<q, c>> \in assigned}

\* Why it resolves to none.  The query looks for any assignment.
ResolverReason(q) ==
    IF \E c \in Controls : <<q, c>> \in assigned THEN "controls_not_applicable" ELSE "no_control_assignments"

DisabledReason(reason) ==
    IF reason = "controls_not_applicable" THEN "control_not_applicable" ELSE "ref_unmapped"

\* desiredByManifestKey.
Desired == {p \in Pairs : p[1] \in manifest /\ \E q \in Requirements :
                            <<p[1], q>> \in References /\ p[2] \in Resolved(q)}

\* reasonByMissing: the reason of a reference of the key that resolves to
\* nothing (the last one wins), or the reason the trigger suggests.
MissingReasons(k, trigger) ==
    LET missing == {q \in Requirements : <<k, q>> \in References /\ Resolved(q) = {}} IN
    IF missing = {} THEN {trigger} ELSE {DisabledReason(ResolverReason(q)) : q \in missing}

-----------------------------------------------------------------------------
(* Connecting *)

\* POST /connections creates the row, asks for the tenant's mode ...
Connect(mode) ==
    /\ connect.pc = "none"
    /\ connect' = [connect EXCEPT !.pc = "resolve", !.mode = mode]
    /\ UNCHANGED <<catalog, manifest, rows, passes, faults>>

\* ... and binds: bindManifestToTenantControls resolves the references ...
ResolveForBind ==
    /\ connect.pc = "resolve"
    /\ connect' = IF manifest = {} THEN [connect EXCEPT !.pc = "done"]
                  ELSE [connect EXCEPT !.pc = "bind", !.desired = Desired]
    /\ UNCHANGED <<catalog, manifest, rows, passes, faults>>

\* ... and upserts checks and bindings in one transaction: as bindings in
\* force, as proposals, or not at all.
Bind ==
    LET auto == connect.mode = "auto" IN
    /\ connect.pc = "bind"
    /\ IF connect.mode = "off" THEN UNCHANGED rows
       ELSE /\ checks' = [k \in Keys |->
                 IF k \in manifest /\ checks[k] = "none" THEN (IF auto THEN "on" ELSE "off") ELSE checks[k]]
            /\ bindings' = [p \in Pairs |->
                 IF p \notin connect.desired THEN bindings[p]
                 ELSE IF auto THEN "enabled"
                 ELSE IF bindings[p] = "none" THEN "pending_confirmation" ELSE bindings[p]]
            /\ version' = manifest
    /\ connect' = [connect EXCEPT !.pc = "done", !.desired = {}]
    /\ UNCHANGED <<catalog, manifest, passes, faults>>

\* The resolver is out of reach: the connection stays, without bindings.
BindFails ==
    /\ connect.pc \in {"resolve", "bind"}
    /\ faults < MaxFaults
    /\ faults' = faults + 1
    /\ connect' = [connect EXCEPT !.pc = "done", !.desired = {}]
    /\ UNCHANGED <<catalog, manifest, rows, passes>>

\* POST /connections/:id/bindings/confirm, of all keys or of some: checks are
\* switched on, and what waits for confirmation is put in force.
Confirm(ks) ==
    LET confirmed == {k \in ks : checks[k] # "none"} IN
    /\ connect.pc # "none"
    /\ confirmed # {}
    /\ checks' = [k \in Keys |-> IF k \in confirmed THEN "on" ELSE checks[k]]
    /\ bindings' = [p \in Pairs |->
         IF p[1] \in confirmed /\ bindings[p] = "pending_confirmation" THEN "enabled" ELSE bindings[p]]
    /\ UNCHANGED <<catalog, manifest, version, connect, passes, faults>>

-----------------------------------------------------------------------------
(* Reconciling *)

At(s, pc) == passes[s].pc = pc
End(s) == passes' = [passes EXCEPT ![s] = Idle]

\* A hook of the API (with the reason it suggests), the re-sync button or the
\* nightly timer starts a pass.
Begin(s, trigger) ==
    /\ At(s, "idle")
    /\ connect.pc # "none"
    /\ s = Timer => trigger = "ref_unmapped"
    /\ passes' = [passes EXCEPT ![s].pc = "resolve", ![s].trigger = trigger]
    /\ UNCHANGED <<catalog, manifest, rows, connect, faults>>

\* reconcileBindings asks the API what the references resolve to, ...
Resolve(s) ==
    /\ At(s, "resolve")
    /\ \E reason \in [Keys -> Reasons] :
         /\ \A k \in Keys : reason[k] \in MissingReasons(k, passes[s].trigger)
         /\ passes' = [passes EXCEPT ![s] =
              [@ EXCEPT !.pc = "load", !.trigger = "ref_unmapped", !.desired = Desired, !.reason = reason]]
    /\ UNCHANGED <<catalog, manifest, rows, connect, faults>>

\* ... loads the rows, ...
Load(s) ==
    /\ At(s, "load")
    /\ passes' = [passes EXCEPT ![s].pc = "apply", ![s].rows = bindings,
                                ![s].known = {k \in Keys : checks[k] # "none"}]
    /\ UNCHANGED <<catalog, manifest, rows, connect, faults>>

\* ... and writes the difference.  What the loop over the manifest's items
\* makes of a row, given what was loaded of it:
Loaded(s, p) == IF p[1] \in passes[s].known THEN passes[s].rows[p] ELSE "none"

\* Broken: leaves the bindings of removed items alone.
WriteDeclared(s, p) ==
    IF p \in passes[s].desired THEN IF Loaded(s, p) = "enabled" THEN bindings[p] ELSE "enabled"
    ELSE IF p[1] \in manifest /\ Loaded(s, p) = "enabled" THEN passes[s].reason[p[1]]
    ELSE bindings[p]

\* Broken: creates what is missing and leaves disabled rows disabled.
WriteMissing(s, p) ==
    IF p \in passes[s].desired THEN IF Loaded(s, p) = "none" THEN "enabled" ELSE bindings[p]
    ELSE IF Loaded(s, p) # "enabled" THEN bindings[p]
    ELSE IF p[1] \in manifest THEN passes[s].reason[p[1]] ELSE "manifest_removed"

\* Broken: renews the reason of what is disabled already.
WriteAlways(s, p) ==
    IF p \in passes[s].desired THEN IF Loaded(s, p) = "enabled" THEN bindings[p] ELSE "enabled"
    ELSE IF Loaded(s, p) # "none" THEN passes[s].reason[p[1]]
    ELSE bindings[p]

Write(s, p) ==
    IF p \in passes[s].desired
      THEN IF Loaded(s, p) = "enabled" THEN bindings[p] ELSE "enabled"
    ELSE IF Loaded(s, p) # "enabled" THEN bindings[p]
    ELSE IF p[1] \in manifest THEN passes[s].reason[p[1]] ELSE "manifest_removed"

\* The transaction creates the checks of new items and the missing bindings;
\* a row that somebody created meanwhile is a unique violation.
Conflict(s) ==
    \/ \E k \in manifest \ passes[s].known : checks[k] # "none"
    \/ \E p \in passes[s].desired : Loaded(s, p) = "none" /\ bindings[p] # "none"

Apply(s) ==
    /\ At(s, "apply")
    /\ ~Conflict(s)
    /\ bindings' = [p \in Pairs |-> Write(s, p)]
    /\ checks' = [k \in Keys |-> IF k \in manifest /\ checks[k] = "none" THEN "on" ELSE checks[k]]
    /\ version' = manifest
    /\ End(s)
    /\ UNCHANGED <<catalog, manifest, connect, faults>>

\* The transaction is rolled back, ...
RollBack(s) ==
    /\ At(s, "apply")
    /\ Conflict(s)
    /\ End(s)
    /\ UNCHANGED <<catalog, manifest, rows, connect, faults>>

\* ... or the resolver or a statement fails.
PassFails(s) ==
    /\ ~At(s, "idle")
    /\ faults < MaxFaults
    /\ faults' = faults + 1
    /\ End(s)
    /\ UNCHANGED <<catalog, manifest, rows, connect>>

\* The collector restarts with the manifest of its new build; passes in
\* progress are lost, and a pass is started if the connection was bound to
\* another manifest.
Restart(m) ==
    /\ m # manifest
    /\ manifest' = m
    /\ passes' = [s \in Passes |->
         IF s = Timer /\ connect.pc # "none" /\ version # m THEN [Idle EXCEPT !.pc = "resolve"] ELSE Idle]
    /\ connect' = IF connect.pc = "none" THEN connect ELSE [connect EXCEPT !.pc = "done", !.desired = {}]
    /\ UNCHANGED <<catalog, rows, faults>>

-----------------------------------------------------------------------------
(* The tenant's catalog *)

Toggle(S, x) == IF x \in S THEN S \ {x} ELSE S \union {x}

\* PATCH /frameworks/instances/:id/toggle
ToggleFramework ==
    /\ enabled' = ~enabled
    /\ UNCHANGED <<applicable, assigned, manifest, rows, connect, passes, faults>>

\* PATCH /controls/:id, into or out of not_applicable
ToggleControl(c) ==
    /\ applicable' = Toggle(applicable, c)
    /\ UNCHANGED <<enabled, assigned, manifest, rows, connect, passes, faults>>

\* PUT /controls/:id/mappings
Assign(q, c) ==
    /\ assigned' = Toggle(assigned, <<q, c>>)
    /\ UNCHANGED <<enabled, applicable, manifest, rows, connect, passes, faults>>

-----------------------------------------------------------------------------
(* The specification *)

Work(s) == Resolve(s) \/ Load(s) \/ Apply(s) \/ RollBack(s) \/ PassFails(s)

Step ==
    \/ \E mode \in {"auto", "suggest", "off"} : Connect(mode)
    \/ ResolveForBind \/ Bind \/ BindFails
    \/ \E ks \in SUBSET Keys : Confirm(ks)
    \/ \E s \in Passes : Work(s) \/ \E trigger \in Reasons : Begin(s, trigger)
    \/ \E m \in SUBSET Keys : Restart(m)
    \/ ToggleFramework
    \/ \E c \in Controls : ToggleControl(c) \/ \E q \in Requirements : Assign(q, c)

\* What a pass goes by: what is wanted of a key from Resolve on, and the rows
\* of the key from Load on.
Wanted(k) == {c \in Controls : <<k, c>> \in Desired}
Check(k) == checks[k] # "none"
RowsOf(k) == <<Check(k), [c \in Controls |-> bindings[<<k, c>>]]>>
Reading(s) == At(s, "load") \/ At(s, "apply")

\* The history of the changes under the passes followed, by whomever.
Remember ==
    overtaken' = {sk \in Followed \X Keys :
        /\ Reading(sk[1]) /\ Reading(sk[1])'
        /\ \/ sk \in overtaken
           \/ Wanted(sk[2])' # Wanted(sk[2])
           \/ At(sk[1], "apply") /\ RowsOf(sk[2])' # RowsOf(sk[2])}

Next == Step /\ Remember

Spec == Init /\ [][Next]_vars

\* Calls return and the nightly timer fires.  Users, deployments and failures
\* are not fair, and hooks may be lost: they are not fair either.
FairSpec ==
    /\ Spec
    /\ \A s \in Passes : WF_state(Work(s))
    /\ WF_state(Begin(Timer, "ref_unmapped"))

-----------------------------------------------------------------------------
(* Properties *)

Enabled == {p \in Pairs : bindings[p] = "enabled"}

Right(k) == \A c \in Controls : <<k, c>> \in Enabled <=> <<k, c>> \in Desired

\* The resolver is asked, the rows are loaded and the transaction is written
\* at three times, and hooks, the timer, users and the catalog go on between
\* them.  A pass that commits leaves a key wrong only if what it had read of
\* that very key has changed since, whatever it holds stale of the others;
\* and it is rolled back only if somebody overtook it.
PassesMissOnlyChanges ==
    [][\A s \in Followed :
        /\ RollBack(s) => \E k \in Keys : <<s, k>> \in overtaken
        /\ Apply(s) => \A k \in Keys : <<s, k>> \in overtaken \/ Right(k)']_vars

\* What is in force is what is desired, and no pass knows it otherwise.
Settled ==
    /\ Enabled = Desired
    /\ \A s \in Passes : /\ At(s, "load") \/ At(s, "apply") => passes[s].desired = Desired
                         /\ At(s, "apply") => /\ passes[s].rows = bindings
                                              /\ passes[s].known = {k \in Keys : checks[k] # "none"}

\* A pass over bindings that are right changes none, nor a disabledReason:
\* "callers can retry on transient failure without ... thrashing" it
\* (routes/internal.ts:135-137).
PassesAreIdempotent == [][(Settled /\ passes' # passes) => UNCHANGED bindings]_vars

\* When deployments end, a binding that is not right does not stay so,
\* whichever hooks were lost and passes failed or overlapped: a pass puts it
\* right, if the catalog does not make it right first.
DriftIsRepaired ==
    <>[][FALSE]_manifest =>
        \A p \in Pairs :
            (connect.pc # "none" /\ ~(p \in Enabled <=> p \in Desired)) ~> (p \in Enabled <=> p \in Desired)

-----------------------------------------------------------------------------
(* Properties that do not hold *)

\* The last pass to commit leaves the bindings as the resolver would have
\* them.  It writes the difference to the rows it loaded: what a confirmation,
\* or a pass with an older answer, wrote after that, it leaves to the next.
LastPassRepairs ==
    [][\A s \in Passes :
        (Apply(s) /\ (\A t \in Passes \ {s} : At(t, "idle")) /\ passes[s].desired = Desired)
            => \A k \in Keys : Right(k)']_vars

\* "User confirms via POST /connections/:id/bindings/confirm to flip them on"
\* (prisma/schema/tenant.prisma:27-30).  The next pass flips them on.
UsersConfirm ==
    [][\A p \in Pairs :
        (bindings[p] = "pending_confirmation" /\ bindings'[p] = "enabled") => passes' = passes]_vars

\* The resolver says that a requirement has no applicable control only when
\* a control was marked so: a binding is recorded as control_not_applicable
\* when "Tenant set the Control status to not_applicable", and as
\* framework_disabled when the instance was disabled
\* (prisma/schema/integration-check.prisma:114-119).  It never looks at the
\* instance, and the second is recorded as the first.
ReasonIsTrue ==
    \A q \in Requirements :
        (Resolved(q) = {} /\ ResolverReason(q) = "controls_not_applicable")
            => \E c \in Controls \ applicable : <<q, c>> \in assigned

\* A disabled row keeps its reason until it is enabled again; two passes that
\* both loaded it enabled both write theirs.
ReasonIsKept ==
    [][\A p \in Pairs :
        (bindings[p] \in Reasons /\ bindings'[p] # "enabled") => bindings'[p] = bindings[p]]_vars

\* No binding of a removed item is in force once the connection was bound to
\* the manifest: confirming does not look at the manifest.
RemovedIsOff ==
    version = manifest => \A p \in Pairs : bindings[p] = "enabled" => p[1] \in manifest

=============================================================================
