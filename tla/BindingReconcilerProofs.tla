---------------------- MODULE BindingReconcilerProofs ----------------------
(***************************************************************************)
(* Proofs about BindingReconciler, for every set of keys, requirements,    *)
(* controls, references and requests.                                      *)
(*                                                                         *)
(* The types are inductive.  That a pass misses only what changed under it *)
(* rests on what its view is worth: nobody's change escapes the history,   *)
(* a control is bound only to a check that exists, and what a pass binds   *)
(* its manifest declares.  That a pass over right bindings changes none    *)
(* follows from the types, since the pass has then loaded what there is.   *)
(***************************************************************************)
EXTENDS BindingReconciler, TLAPS

ConnectStates == [pc : {"none", "resolve", "bind", "done"}, mode : {"auto", "suggest", "off"},
                  desired : SUBSET Pairs]
-----------------------------------------------------------------------------
\* A row is written with a value of its type.
LEMMA WriteType ==
    ASSUME StateTypes, NEW s \in Passes, NEW p \in Pairs
    PROVE  Write(s, p) \in Bindings
<1>1. p[1] \in Keys /\ passes[s].reason \in [Keys -> Reasons] /\ bindings[p] \in Bindings
  BY DEF StateTypes, Pairs, PassStates
<1> QED
  BY <1>1 DEF Write, Bindings

\* The references resolve to controls of the tenant.
LEMMA DesiredType == Desired \subseteq Pairs
BY DEF Desired

LEMMA IdleType == Idle \in PassStates /\ [Idle EXCEPT !.pc = "resolve"] \in PassStates
<1>1. NoRows \in [Pairs -> Bindings]
  BY DEF NoRows, Bindings
<1>2. Idle \in PassStates
  BY <1>1 DEF Idle, PassStates, Reasons
<1> QED
  BY <1>2 DEF PassStates

\* Nothing is bound when the collector starts for the first time.
LEMMA InitType == Init => StateTypes
<1> SUFFICES ASSUME Init PROVE StateTypes
  OBVIOUS
<1>1. NoRows \in [Pairs -> Bindings]
  BY DEF NoRows, Bindings
<1>2. connect \in ConnectStates
  BY DEF Init, ConnectStates
<1> QED
  BY <1>1, <1>2, IdleType, BindingAssumption DEF Init, StateTypes, ConnectStates

\* A pass may move on alone.
LEMMA PassMoves ==
    ASSUME StateTypes, NEW s \in Passes, NEW pass \in PassStates,
           passes' = [passes EXCEPT ![s] = pass],
           UNCHANGED <<catalog, manifest, rows, connect>>, faults' \in 0..MaxFaults
    PROVE  StateTypes'
BY DEF StateTypes, catalog, rows

\* The tenant's catalog changes under everybody's feet.
LEMMA CatalogChanges ==
    ASSUME StateTypes, enabled' \in BOOLEAN, applicable' \subseteq Controls,
           assigned' \subseteq Requirements \X Controls,
           UNCHANGED <<manifest, rows, connect, passes, faults>>
    PROVE  StateTypes'
BY DEF StateTypes, rows

\* Connecting, and confirming what was proposed.
LEMMA ConnectType ==
    ASSUME StateTypes,
           \/ \E mode \in {"auto", "suggest", "off"} : Connect(mode)
           \/ ResolveForBind \/ Bind \/ BindFails
           \/ \E ks \in SUBSET Keys : Confirm(ks)
    PROVE  StateTypes'
<1>1. connect \in ConnectStates /\ faults \in 0..MaxFaults /\ MaxFaults \in Nat
  BY BindingAssumption DEF StateTypes, ConnectStates
<1>2. ASSUME NEW mode \in {"auto", "suggest", "off"}, Connect(mode) PROVE StateTypes'
  <2>1. connect' \in ConnectStates
    BY <1>1, <1>2 DEF Connect, ConnectStates
  <2> QED
    BY <1>2, <2>1 DEF Connect, StateTypes, ConnectStates, catalog, rows
<1>3. CASE ResolveForBind
  <2>1. [connect EXCEPT !.pc = "done"] \in ConnectStates
    BY <1>1 DEF ConnectStates
  <2>2. [connect EXCEPT !.pc = "bind", !.desired = Desired] \in ConnectStates
    BY <1>1, DesiredType DEF ConnectStates
  <2>3. connect' \in ConnectStates
    BY <1>3, <2>1, <2>2 DEF ResolveForBind
  <2> QED
    BY <1>3, <2>3 DEF ResolveForBind, StateTypes, ConnectStates, catalog, rows
<1>4. [connect EXCEPT !.pc = "done", !.desired = {}] \in ConnectStates
  BY <1>1 DEF ConnectStates
<1>5. CASE Bind
  <2>1. version' \subseteq Keys /\ checks' \in [Keys -> {"none", "on", "off"}] /\ bindings' \in [Pairs -> Bindings]
    <3>1. CASE connect.mode = "off"
      BY <1>5, <3>1 DEF Bind, StateTypes, rows
    <3>2. CASE connect.mode # "off"
      BY <1>5, <3>2 DEF Bind, StateTypes, Bindings
    <3> QED
      BY <3>1, <3>2
  <2>2. connect' \in ConnectStates
    BY <1>4, <1>5 DEF Bind
  <2> QED
    BY <1>5, <2>1, <2>2 DEF Bind, StateTypes, ConnectStates, catalog
<1>6. CASE BindFails
  <2>1. connect' \in ConnectStates /\ faults' \in 0..MaxFaults
    BY <1>1, <1>4, <1>6 DEF BindFails
  <2> QED
    BY <1>6, <2>1 DEF BindFails, StateTypes, ConnectStates, catalog, rows
<1>7. ASSUME NEW ks \in SUBSET Keys, Confirm(ks) PROVE StateTypes'
  <2>1. checks' \in [Keys -> {"none", "on", "off"}] /\ bindings' \in [Pairs -> Bindings]
    BY <1>7 DEF Confirm, StateTypes, Bindings
  <2> QED
    BY <1>7, <2>1 DEF Confirm, StateTypes, catalog
<1> QED
  BY <1>2, <1>3, <1>5, <1>6, <1>7

\* The steps of a pass.
LEMMA PassType ==
    ASSUME StateTypes, NEW s \in Passes, Work(s) \/ \E trigger \in Reasons : Begin(s, trigger)
    PROVE  StateTypes'
<1> DEFINE old == passes[s]
<1>1. old \in PassStates /\ passes \in [Passes -> PassStates] /\ faults \in 0..MaxFaults /\ MaxFaults \in Nat
  BY BindingAssumption DEF StateTypes
<1>2. ASSUME NEW trigger \in Reasons, Begin(s, trigger) PROVE StateTypes'
  <2> DEFINE new == [old EXCEPT !.pc = "resolve", !.trigger = trigger]
  <2>1. new \in PassStates
    BY <1>1, <1>2 DEF PassStates
  <2>2. passes' = [passes EXCEPT ![s] = new]
    BY <1>1, <1>2 DEF Begin
  <2> HIDE DEF new
  <2> QED
    BY <1>1, <1>2, <2>1, <2>2, PassMoves DEF Begin
<1>3. CASE Resolve(s)
  <2>1. PICK reason \in [Keys -> Reasons] :
          passes' = [passes EXCEPT ![s] =
            [@ EXCEPT !.pc = "load", !.trigger = "ref_unmapped", !.desired = Desired, !.reason = reason]]
    BY <1>3 DEF Resolve
  <2> DEFINE new == [old EXCEPT !.pc = "load", !.trigger = "ref_unmapped", !.desired = Desired, !.reason = reason]
  <2>2. new \in PassStates
    BY <1>1, DesiredType DEF PassStates, Reasons
  <2>3. passes' = [passes EXCEPT ![s] = new]
    BY <1>1, <2>1
  <2> HIDE DEF new
  <2> QED
    BY <1>1, <1>3, <2>2, <2>3, PassMoves DEF Resolve
<1>4. CASE Load(s)
  <2> DEFINE known == {k \in Keys : checks[k] # "none"}
             new == [old EXCEPT !.pc = "apply", !.rows = bindings, !.known = known]
  <2>1. known \subseteq Keys /\ bindings \in [Pairs -> Bindings]
    BY DEF StateTypes
  <2>2. passes' = [passes EXCEPT ![s] = new]
    BY <1>1, <1>4 DEF Load
  <2> HIDE DEF known
  <2>3. new \in PassStates
    BY <1>1, <2>1 DEF PassStates
  <2> HIDE DEF new
  <2> QED
    BY <1>1, <1>4, <2>2, <2>3, PassMoves DEF Load
<1>5. CASE Apply(s)
  <2>1. bindings' \in [Pairs -> Bindings] /\ checks' \in [Keys -> {"none", "on", "off"}]
    BY <1>5, WriteType DEF Apply, StateTypes
  <2>2. passes' \in [Passes -> PassStates]
    BY <1>1, <1>5, IdleType DEF Apply, End
  <2> QED
    BY <1>5, <2>1, <2>2 DEF Apply, StateTypes, catalog
<1>6. CASE RollBack(s)
  BY <1>1, <1>6, IdleType, PassMoves DEF RollBack, End
<1>7. CASE PassFails(s)
  <2>1. faults' \in 0..MaxFaults
    BY <1>1, <1>7 DEF PassFails
  <2> QED
    BY <1>7, <2>1, IdleType, PassMoves DEF PassFails, End
<1> QED
  BY <1>2, <1>3, <1>4, <1>5, <1>6, <1>7 DEF Work

\* A new build.
LEMMA RestartType ==
    ASSUME StateTypes, NEW m \in SUBSET Keys, Restart(m)
    PROVE  StateTypes'
<1>1. passes' \in [Passes -> PassStates]
  BY IdleType DEF Restart
<1>2. [connect EXCEPT !.pc = "done", !.desired = {}] \in ConnectStates /\ connect \in ConnectStates
  BY DEF StateTypes, ConnectStates
<1>3. connect' \in ConnectStates
  BY <1>2 DEF Restart
<1> QED
  BY <1>1, <1>3 DEF Restart, StateTypes, ConnectStates, catalog, rows

\* Every step keeps the types.
LEMMA NextType == StateTypes /\ [Next]_vars => StateTypes'
<1> SUFFICES ASSUME StateTypes, Step \/ UNCHANGED state PROVE StateTypes'
  BY DEF Next, vars
<1>1. CASE ToggleFramework
  BY <1>1, CatalogChanges DEF ToggleFramework, StateTypes
<1>2. ASSUME NEW c \in Controls, ToggleControl(c) PROVE StateTypes'
  <2>1. applicable' \subseteq Controls
    BY <1>2 DEF ToggleControl, Toggle, StateTypes
  <2> QED
    BY <1>2, <2>1, CatalogChanges DEF ToggleControl, StateTypes
<1>3. ASSUME NEW c \in Controls, NEW q \in Requirements, Assign(q, c) PROVE StateTypes'
  <2>1. assigned' \subseteq Requirements \X Controls
    BY <1>3 DEF Assign, Toggle, StateTypes
  <2> QED
    BY <1>3, <2>1, CatalogChanges DEF Assign, StateTypes
<1>4. CASE UNCHANGED state
  BY <1>4, CatalogChanges DEF state, catalog, StateTypes
<1> QED
  BY <1>1, <1>2, <1>3, <1>4, ConnectType, PassType, RestartType DEF Step

\* The variables keep their types.
THEOREM TypeCorrect == Spec => []TypeOK
<1>1. Init => TypeOK
  BY InitType DEF Init, TypeOK
<1>2. TypeOK /\ [Next]_vars => TypeOK'
  <2>1. overtaken \subseteq Followed \X Keys /\ [Next]_vars => (overtaken \subseteq Followed \X Keys)'
    BY DEF Next, Remember, vars
  <2> QED
    BY <2>1, NextType DEF TypeOK
<1> QED
  BY <1>1, <1>2, PTL DEF Spec
-----------------------------------------------------------------------------
\* A control is bound to a check that exists, and what is bound anew is
\* declared by the manifest at hand.
Anchored ==
    /\ \A p \in Pairs : bindings[p] # "none" => Check(p[1])
    /\ connect.pc = "bind" => \A p \in connect.desired : p[1] \in manifest
    /\ \A s \in Passes : /\ Reading(s) => \A p \in passes[s].desired : p[1] \in manifest
                         /\ At(s, "apply") => \A k \in passes[s].known : Check(k)

\* What a pass holds of a key, if nobody has changed it since.
View(s, k) ==
    /\ Reading(s) => \A c \in Controls : c \in Wanted(k) <=> <<k, c>> \in passes[s].desired
    /\ At(s, "apply") => /\ k \in passes[s].known <=> Check(k)
                         /\ \A c \in Controls : passes[s].rows[<<k, c>>] = bindings[<<k, c>>]

Viewed == \A s \in Followed, k \in Keys : <<s, k>> \in overtaken \/ View(s, k)

PassInv == TypeOK /\ Anchored /\ Viewed

\* How one step moves a pass that reads after it: the pass resolves, or it
\* loads, or others move.  No new build starts under it.
LEMMA PassSteps ==
    ASSUME StateTypes, Step \/ UNCHANGED state, NEW s \in Passes, Reading(s)'
    PROVE  /\ Resolve(s) \/ Load(s) \/ passes'[s] = passes[s]
           /\ manifest' = manifest
<1>1. passes \in [Passes -> PassStates]
  BY DEF StateTypes
<1>2. ASSUME NEW t \in Passes, Work(t) \/ \E trigger \in Reasons : Begin(t, trigger)
      PROVE  (Resolve(s) \/ Load(s) \/ passes'[s] = passes[s]) /\ manifest' = manifest
  <2>1. CASE Resolve(t) \/ Load(t)
    BY <1>1, <2>1 DEF Resolve, Load
  <2>2. CASE Apply(t) \/ RollBack(t) \/ PassFails(t)
    BY <1>1, <2>2 DEF Apply, RollBack, PassFails, End, Idle, Reading, At
  <2>3. ASSUME NEW trigger \in Reasons, Begin(t, trigger)
        PROVE  passes'[s] = passes[s] /\ manifest' = manifest
    <3>1. passes[t] \in PassStates
      BY <1>1
    <3>2. passes'[t].pc = "resolve" /\ (s # t => passes'[s] = passes[s])
      BY <1>1, <2>3, <3>1 DEF Begin, PassStates
    <3> QED
      BY <2>3, <3>2 DEF Begin, Reading, At
  <2> QED
    BY <1>2, <2>1, <2>2, <2>3 DEF Work
<1>3. ASSUME NEW m \in SUBSET Keys, Restart(m) PROVE FALSE
  <2>1. passes'[s].pc \in {"idle", "resolve"}
    BY <1>3 DEF Restart, Idle
  <2> QED
    BY <2>1 DEF Reading, At
<1>4. CASE \/ \E mode \in {"auto", "suggest", "off"} : Connect(mode)
           \/ ResolveForBind \/ Bind \/ BindFails
           \/ \E ks \in SUBSET Keys : Confirm(ks)
           \/ ToggleFramework
           \/ \E c \in Controls : ToggleControl(c) \/ \E q \in Requirements : Assign(q, c)
           \/ UNCHANGED state
  BY <1>4 DEF Connect, ResolveForBind, Bind, BindFails, Confirm, ToggleFramework, ToggleControl,
              Assign, state
<1> QED
  BY <1>2, <1>3, <1>4 DEF Step

\* Checks are never deleted.
LEMMA ChecksStay ==
    ASSUME StateTypes, Step \/ UNCHANGED state, NEW k \in Keys, Check(k)
    PROVE  Check(k)'
<1>1. checks \in [Keys -> {"none", "on", "off"}]
  BY DEF StateTypes
<1>2. CASE Bind
  BY <1>1, <1>2 DEF Bind, Check, rows
<1>3. ASSUME NEW ks \in SUBSET Keys, Confirm(ks) PROVE Check(k)'
  BY <1>1, <1>3 DEF Confirm, Check
<1>4. ASSUME NEW t \in Passes, Work(t) \/ \E trigger \in Reasons : Begin(t, trigger)
      PROVE  Check(k)'
  <2>1. CASE Apply(t)
    BY <1>1, <2>1 DEF Apply, Check
  <2> QED
    BY <1>4, <2>1 DEF Work, Begin, Resolve, Load, RollBack, PassFails, rows, Check
<1>5. CASE \/ \E mode \in {"auto", "suggest", "off"} : Connect(mode)
           \/ ResolveForBind \/ BindFails
           \/ \E m \in SUBSET Keys : Restart(m)
           \/ ToggleFramework
           \/ \E c \in Controls : ToggleControl(c) \/ \E q \in Requirements : Assign(q, c)
           \/ UNCHANGED state
  BY <1>5 DEF Connect, ResolveForBind, BindFails, Restart, ToggleFramework, ToggleControl, Assign,
              state, rows, Check
<1> QED
  BY <1>2, <1>3, <1>4, <1>5 DEF Step

\* What is bound has a check after every step.
LEMMA BoundHasCheck ==
    ASSUME StateTypes, Anchored, Step \/ UNCHANGED state, NEW p \in Pairs, bindings'[p] # "none"
    PROVE  Check(p[1])'
<1>1. p[1] \in Keys /\ bindings \in [Pairs -> Bindings] /\ checks \in [Keys -> {"none", "on", "off"}]
  BY DEF StateTypes, Pairs
<1>2. CASE bindings[p] # "none"
  BY <1>1, <1>2, ChecksStay DEF Anchored
<1>3. CASE bindings[p] = "none" /\ Bind
  <2>1. connect.mode # "off" /\ p \in connect.desired /\ p[1] \in manifest
    BY <1>1, <1>3 DEF Bind, Anchored, rows
  <2> QED
    BY <1>1, <1>3, <2>1 DEF Bind, Check
<1>4. ASSUME bindings[p] = "none", NEW ks \in SUBSET Keys, Confirm(ks) PROVE FALSE
  BY <1>1, <1>4 DEF Confirm
<1>5. ASSUME bindings[p] = "none", NEW t \in Passes,
             Work(t) \/ \E trigger \in Reasons : Begin(t, trigger)
      PROVE  Check(p[1])'
  <2>1. Apply(t)
    BY <1>5 DEF Work, Begin, Resolve, Load, RollBack, PassFails, rows
  <2>2. bindings'[p] = Write(t, p)
    BY <2>1 DEF Apply
  <2>3. CASE p[1] \in manifest
    BY <1>1, <2>1, <2>3 DEF Apply, Check
  <2>4. CASE p[1] \notin manifest
    <3>1. p \notin passes[t].desired
      BY <2>1, <2>4 DEF Apply, Anchored, Reading
    <3>2. Loaded(t, p) = "enabled"
      BY <1>5, <2>2, <3>1 DEF Write
    <3>3. Check(p[1])
      BY <2>1, <3>2 DEF Loaded, Apply, Anchored
    <3> QED
      BY <1>1, <3>3, ChecksStay
  <2> QED
    BY <2>3, <2>4
<1>6. CASE /\ bindings[p] = "none"
           /\ \/ \E mode \in {"auto", "suggest", "off"} : Connect(mode)
              \/ ResolveForBind \/ BindFails
              \/ \E m \in SUBSET Keys : Restart(m)
              \/ ToggleFramework
              \/ \E c \in Controls : ToggleControl(c) \/ \E q \in Requirements : Assign(q, c)
              \/ UNCHANGED state
  BY <1>6 DEF Connect, ResolveForBind, BindFails, Restart, ToggleFramework, ToggleControl, Assign,
              state, rows
<1> QED
  BY <1>2, <1>3, <1>4, <1>5, <1>6 DEF Step

\* The request that connects binds what the manifest declares.
LEMMA BindsDeclared ==
    ASSUME StateTypes, Anchored, Step \/ UNCHANGED state, connect'.pc = "bind"
    PROVE  \A p \in connect'.desired : p[1] \in manifest'
<1>1. connect \in ConnectStates
  BY DEF StateTypes, ConnectStates
<1>2. CASE ResolveForBind
  <2>1. connect'.desired = Desired /\ manifest' = manifest
    BY <1>1, <1>2 DEF ResolveForBind, ConnectStates
  <2> QED
    BY <2>1 DEF Desired
<1>3. ASSUME NEW mode \in {"auto", "suggest", "off"}, Connect(mode) PROVE FALSE
  BY <1>1, <1>3 DEF Connect, ConnectStates
<1>4. CASE Bind \/ BindFails
  BY <1>1, <1>4 DEF Bind, BindFails, ConnectStates
<1>5. ASSUME NEW m \in SUBSET Keys, Restart(m) PROVE FALSE
  BY <1>1, <1>5 DEF Restart, ConnectStates
<1>6. CASE \/ \E ks \in SUBSET Keys : Confirm(ks)
           \/ \E t \in Passes : Work(t) \/ \E trigger \in Reasons : Begin(t, trigger)
           \/ ToggleFramework
           \/ \E c \in Controls : ToggleControl(c) \/ \E q \in Requirements : Assign(q, c)
           \/ UNCHANGED state
  <2>1. connect' = connect /\ manifest' = manifest
    BY <1>6 DEF Confirm, Work, Begin, Resolve, Load, Apply, RollBack, PassFails, ToggleFramework,
                ToggleControl, Assign, state
  <2> QED
    BY <2>1 DEF Anchored
<1> QED
  BY <1>2, <1>3, <1>4, <1>5, <1>6 DEF Step

\* Every step keeps the rows anchored.
LEMMA AnchoredKept ==
    ASSUME StateTypes, Anchored, Step \/ UNCHANGED state
    PROVE  Anchored'
<1>1. \A p \in Pairs : bindings'[p] # "none" => Check(p[1])'
  BY BoundHasCheck
<1>2. ASSUME NEW s \in Passes, Reading(s)'
      PROVE  \A p \in passes'[s].desired : p[1] \in manifest'
  <2>1. manifest' = manifest /\ (Resolve(s) \/ Load(s) \/ passes'[s] = passes[s])
    BY <1>2, PassSteps
  <2>2. passes[s] \in PassStates /\ passes \in [Passes -> PassStates]
    BY DEF StateTypes
  <2>3. CASE Resolve(s)
    <3>1. passes'[s].desired = Desired
      BY <2>2, <2>3 DEF Resolve, PassStates
    <3> QED
      BY <2>1, <3>1 DEF Desired
  <2>4. CASE Load(s)
    <3>1. passes'[s].desired = passes[s].desired /\ Reading(s)
      BY <2>2, <2>4 DEF Load, PassStates, Reading
    <3> QED
      BY <2>1, <3>1 DEF Anchored
  <2>5. CASE passes'[s] = passes[s]
    BY <1>2, <2>1, <2>5 DEF Anchored, Reading, At
  <2> QED
    BY <2>1, <2>3, <2>4, <2>5
<1>3. ASSUME NEW s \in Passes, At(s, "apply")', NEW k \in passes'[s].known
      PROVE  Check(k)'
  <2>1. Resolve(s) \/ Load(s) \/ passes'[s] = passes[s]
    BY <1>3, PassSteps DEF Reading
  <2>2. passes[s] \in PassStates /\ passes \in [Passes -> PassStates]
    BY DEF StateTypes
  <2>3. ~Resolve(s)
    BY <1>3, <2>2 DEF Resolve, At, PassStates
  <2>4. CASE Load(s)
    <3>1. passes'[s].known = {l \in Keys : Check(l)} /\ checks' = checks
      BY <2>2, <2>4 DEF Load, PassStates, rows, Check
    <3> QED
      BY <1>3, <3>1 DEF Check
  <2>5. CASE passes'[s] = passes[s]
    <3>1. k \in Keys /\ Check(k)
      BY <1>3, <2>2, <2>5 DEF Anchored, At, PassStates
    <3> QED
      BY <3>1, ChecksStay
  <2> QED
    BY <2>1, <2>3, <2>4, <2>5
<1> QED
  BY <1>1, <1>2, <1>3, BindsDeclared DEF Anchored

\* What is wanted changes with the catalog and the manifest alone.
LEMMA DesiredKept == UNCHANGED <<catalog, manifest>> => Desired' = Desired
BY DEF Desired, Resolved, catalog

\* Histories are of passes.
LEMMA FollowedPasses == Followed \subseteq Passes
BY BindingAssumption DEF Passes

\* A pass nobody overtakes keeps a true view.
LEMMA ViewedKept ==
    ASSUME StateTypes, Viewed, [Next]_vars
    PROVE  Viewed'
<1> USE DEF Reading
<1>1. CASE UNCHANGED vars
  <2>1. Desired' = Desired
    BY <1>1, DesiredKept DEF vars, state
  <2> QED
    BY <1>1, <2>1 DEF vars, state, rows, Viewed, View, At, Wanted, Check
<1>2. CASE Next
  <2> SUFFICES ASSUME NEW s \in Followed, NEW k \in Keys, <<s, k>> \notin overtaken', Reading(s)'
               PROVE  View(s, k)'
    BY DEF Viewed, View
  <2> s \in Passes
    BY FollowedPasses
  <2>1. Resolve(s) \/ Load(s) \/ passes'[s] = passes[s]
    BY <1>2, PassSteps DEF Next
  <2>2. passes[s] \in PassStates /\ passes \in [Passes -> PassStates]
    BY DEF StateTypes
  <2>3. ASSUME Reading(s)
        PROVE  /\ View(s, k)
               /\ Wanted(k)' = Wanted(k)
               /\ At(s, "apply") => RowsOf(k)' = RowsOf(k)
    BY <1>2, <2>3 DEF Next, Remember, Viewed
  <2>4. CASE Resolve(s)
    <3>1. Desired' = Desired
      BY <2>4, DesiredKept DEF Resolve
    <3>2. passes'[s].desired = Desired /\ passes'[s].pc = "load"
      BY <2>2, <2>4 DEF Resolve, PassStates
    <3> QED
      BY <3>1, <3>2 DEF View, Wanted, At
  <2>5. CASE Load(s)
    <3>1. /\ passes'[s].desired = passes[s].desired
          /\ passes'[s].rows = bindings
          /\ passes'[s].known = {l \in Keys : Check(l)}
          /\ bindings' = bindings /\ checks' = checks
      BY <2>2, <2>5 DEF Load, PassStates, rows, Check
    <3>2. Reading(s)
      BY <2>5 DEF Load
    <3> QED
      BY <2>3, <3>1, <3>2 DEF View, Check
  <2>6. CASE passes'[s] = passes[s]
    <3>1. Reading(s) /\ (At(s, "apply")' <=> At(s, "apply"))
      BY <2>6 DEF At
    <3>2. View(s, k) /\ Wanted(k)' = Wanted(k)
      BY <2>3, <3>1
    <3>3. ASSUME At(s, "apply")
          PROVE  (Check(k)' <=> Check(k)) /\ \A c \in Controls : bindings'[<<k, c>>] = bindings[<<k, c>>]
      <4> DEFINE old == [c \in Controls |-> bindings[<<k, c>>]]
                 new == [c \in Controls |-> bindings'[<<k, c>>]]
      <4>1. <<Check(k)', new>> = <<Check(k), old>>
        BY <2>3, <3>1, <3>3 DEF RowsOf
      <4>2. Check(k)' = Check(k) /\ new = old
        BY <4>1
      <4>3. \A c \in Controls : new[c] = old[c]
        BY <4>2
      <4> QED
        BY <4>2, <4>3
    <3> QED
      BY <2>6, <3>1, <3>2, <3>3 DEF View
  <2> QED
    BY <2>1, <2>4, <2>5, <2>6
<1> QED
  BY <1>1, <1>2

\* Views are true, and rows anchored, throughout.
THEOREM PassInvariant == Spec => []PassInv
<1>1. Init => Anchored /\ Viewed
  <2> SUFFICES ASSUME Init PROVE Anchored /\ Viewed
    OBVIOUS
  <2>1. \A s \in Passes : ~Reading(s) /\ ~At(s, "apply")
    BY DEF Init, Reading, At, Idle
  <2>2. connect.pc = "none" /\ \A p \in Pairs : bindings[p] = "none"
    BY DEF Init, NoRows
  <2> QED
    BY <2>1, <2>2, FollowedPasses DEF Anchored, Viewed, View
<1>2. PassInv /\ [Next]_vars => (Anchored /\ Viewed)'
  <2>1. [Next]_vars => Step \/ UNCHANGED state
    BY DEF Next, vars
  <2> QED
    BY <2>1, AnchoredKept, ViewedKept DEF PassInv, TypeOK
<1> QED
  BY <1>1, <1>2, TypeCorrect, PTL DEF Spec, PassInv
-----------------------------------------------------------------------------
\* For any number of passes, keys and controls, a pass leaves a key wrong, or
\* is rolled back, only if what it had read was changed under it.
THEOREM PassesRepair == Spec => PassesMissOnlyChanges
<1>1. ASSUME PassInv, NEW s \in Followed, RollBack(s)
      PROVE  \E k \in Keys : <<s, k>> \in overtaken
  <2> SUFFICES ASSUME \A k \in Keys : View(s, k) PROVE FALSE
    BY <1>1 DEF PassInv, Viewed
  <2>1. At(s, "apply") /\ Conflict(s)
    BY <1>1 DEF RollBack
  <2>2. manifest \subseteq Keys /\ passes[s] \in PassStates
    BY <1>1, FollowedPasses DEF PassInv, TypeOK, StateTypes
  <2>3. \A k \in Keys : k \in passes[s].known <=> Check(k)
    BY <2>1 DEF View
  <2>4. PICK p \in passes[s].desired : Loaded(s, p) = "none" /\ bindings[p] # "none"
    BY <2>1, <2>2, <2>3 DEF Conflict, Check
  <2>5. PICK k \in Keys, c \in Controls : p = <<k, c>>
    BY <2>2, <2>4 DEF PassStates, Pairs
  <2>6. p \in Pairs /\ p[1] = k /\ Check(k)
    BY <1>1, <2>4, <2>5 DEF Pairs, PassInv, Anchored
  <2>7. passes[s].rows[p] = bindings[p]
    BY <2>1, <2>5 DEF View
  <2> QED
    BY <2>3, <2>4, <2>6, <2>7 DEF Loaded
<1>2. ASSUME PassInv, NEW s \in Followed, Apply(s), NEW k \in Keys, View(s, k)
      PROVE  Right(k)'
  <2> SUFFICES ASSUME NEW c \in Controls
               PROVE  bindings'[<<k, c>>] = "enabled" <=> <<k, c>> \in Desired'
    BY DEF Right, Enabled, Pairs
  <2> DEFINE p == <<k, c>>
  <2>1. Desired' = Desired
    BY <1>2, DesiredKept DEF Apply
  <2>2. p \in Desired <=> p \in passes[s].desired
    BY <1>2 DEF View, Wanted, Apply, Reading
  <2>3. Loaded(s, p) = bindings[p]
    BY <1>2, FollowedPasses DEF View, Apply, Loaded, PassInv, Anchored, Pairs
  <2>4. bindings'[p] = Write(s, p)
    BY <1>2 DEF Apply, Pairs
  <2>5. passes[s].reason[k] # "enabled"
    BY <1>2, FollowedPasses DEF PassInv, TypeOK, StateTypes, PassStates, Reasons
  <2> QED
    BY <2>1, <2>2, <2>3, <2>4, <2>5 DEF Write
<1>3. PassInv /\ [Next]_vars =>
        [\A s \in Followed :
          /\ RollBack(s) => \E k \in Keys : <<s, k>> \in overtaken
          /\ Apply(s) => \A k \in Keys : <<s, k>> \in overtaken \/ Right(k)']_vars
  BY <1>1, <1>2 DEF PassInv, Viewed
<1> QED
  BY <1>3, PassInvariant, PTL DEF Spec, PassesMissOnlyChanges

\* Any number of passes, for any reasons, in any order and overlapping in any
\* way, leaves bindings alone that are right.
THEOREM RightBindingsStay == Spec => PassesAreIdempotent
<1>1. TypeOK /\ [Next]_vars => [(Settled /\ passes' # passes) => UNCHANGED bindings]_vars
  <2> SUFFICES ASSUME TypeOK, Next, Settled, passes' # passes PROVE bindings' = bindings
    OBVIOUS
  <2>1. ASSUME NEW s \in Passes, Apply(s) PROVE bindings' = bindings
    <3>1. passes[s].desired = Enabled /\ passes[s].rows = bindings
      BY <2>1 DEF Settled, Apply
    <3>2. \A p \in Pairs : Write(s, p) = bindings[p]
      BY <3>1 DEF Write, Loaded, Enabled
    <3> QED
      BY <2>1, <3>2 DEF Apply, TypeOK, StateTypes
  <2>2. ASSUME NEW s \in Passes, Work(s) \/ \E trigger \in Reasons : Begin(s, trigger)
        PROVE  bindings' = bindings
    BY <2>1, <2>2 DEF Work, Begin, Resolve, Load, RollBack, PassFails, rows
  <2>3. ASSUME NEW m \in SUBSET Keys, Restart(m) PROVE bindings' = bindings
    BY <2>3 DEF Restart, rows
  <2> QED
    BY <2>2, <2>3 DEF Next, Step, Connect, ResolveForBind, Bind, BindFails, Confirm, ToggleFramework,
                      ToggleControl, Assign
<1> QED
  BY <1>1, TypeCorrect, PTL DEF Spec, PassesAreIdempotent
=============================================================================
