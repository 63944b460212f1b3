------------------------- MODULE NotificationProofs -------------------------
(***************************************************************************)
(* Proofs about the two components that tell people what is wrong: the gap *)
(* escalator of the collector (GapEscalation) and the alert evaluator of   *)
(* the API (AlertEvaluator).  They share no state; each has its part.      *)
(***************************************************************************)
EXTENDS GapEscalation, AlertEvaluator, FiniteSetTheorems, TLAPS

(***************************************************************************)
(* The escalator, for every set of gaps, tenants and providers and every   *)
(* bound on the losses.                                                    *)
(*                                                                         *)
(* That lost answers bound the duplicates is not inductive: it has to be   *)
(* known that a pass asks for no weakness of a gap that already names one. *)
(* AskedOnce says so.  It needs in turn that the gap at hand is no longer  *)
(* to be escalated, since its record may name a weakness any time now.     *)
(***************************************************************************)

\* A gap without a recorded weakness has at most one for every fault, unless
\* the answer that names one more is at hand.
Unrecorded == \A g \in GapIds :
    ~gaps[g].weakness /\ ~(pass.cur = g /\ pass.created) => weaknesses[g] <= losses

\* What the pass believes to have no weakness has none.
AskedOnce == \A g \in pass.todo \ pass.known : ~gaps[g].weakness

AnswerIsTrue == pass.created => pass.cur # None /\ weaknesses[pass.cur] >= 1

EscalationInv ==
    /\ EscalationTypeOK
    /\ LossesBoundDuplicates
    /\ WeaknessExists
    /\ Unrecorded
    /\ AskedOnce
    /\ AnswerIsTrue
    /\ pass.cur \notin pass.todo
-----------------------------------------------------------------------------
\* Nothing is open, asked for or created when the collector starts.
LEMMA InitEscalationInv == EscalationInit => EscalationInv
BY EscalationAssumption
   DEF EscalationInit, NoPass, EscalationInv, EscalationTypeOK, Pass, LossesBoundDuplicates,
       WeaknessExists, Unrecorded, AskedOnce, AnswerIsTrue

\* Opening, closing and ageing a gap leave its weakness alone.
LEMMA GapColumnsInv ==
    ASSUME EscalationInv, UNCHANGED <<weaknesses, pass, losses>>,
           gaps' \in [GapIds -> Gap],
           \A g \in GapIds : gaps'[g].weakness = gaps[g].weakness
    PROVE  EscalationInv'
BY EscalationAssumption
   DEF EscalationInv, EscalationTypeOK, Pass, LossesBoundDuplicates,
       WeaknessExists, Unrecorded, AskedOnce, AnswerIsTrue

\* One column of one gap is written.
LEMMA ColumnWrites ==
    ASSUME gaps \in [GapIds -> Gap], NEW g \in GapIds,
           \/ gaps' = [gaps EXCEPT ![g].status = "open"]
           \/ gaps' = [gaps EXCEPT ![g].status = "closed"]
           \/ gaps' = [gaps EXCEPT ![g].ripe = TRUE]
           \/ gaps' = [gaps EXCEPT ![g].debounced = FALSE]
    PROVE  /\ gaps' \in [GapIds -> Gap]
           /\ \A h \in GapIds : gaps'[h].weakness = gaps[h].weakness
<1> DEFINE row == gaps[g]
<1>1. row \in Gap
  OBVIOUS
<1>2. /\ [row EXCEPT !.status = "open"] \in Gap
      /\ [row EXCEPT !.status = "closed"] \in Gap
      /\ [row EXCEPT !.ripe = TRUE] \in Gap
      /\ [row EXCEPT !.debounced = FALSE] \in Gap
  BY <1>1 DEF Gap
<1>3. /\ [row EXCEPT !.status = "open"].weakness = row.weakness
      /\ [row EXCEPT !.status = "closed"].weakness = row.weakness
      /\ [row EXCEPT !.ripe = TRUE].weakness = row.weakness
      /\ [row EXCEPT !.debounced = FALSE].weakness = row.weakness
  BY <1>1 DEF Gap
<1>4. \E new \in Gap : /\ gaps' = [gaps EXCEPT ![g] = new]
                       /\ new.weakness = row.weakness
  BY <1>2, <1>3
<1> QED
  BY <1>4

\* Giving up what is left of a pass costs one fault, which pays for the
\* weakness it may have asked for.
LEMMA FaultInv ==
    ASSUME EscalationInv, UNCHANGED <<gaps, weaknesses>>, pass' \in Pass,
           losses < MaxLosses, losses' = losses + 1,
           pass'.todo \subseteq pass.todo,
           pass'.todo \ pass'.known \subseteq pass.todo \ pass.known,
           ~pass'.created, pass'.cur = None
    PROVE  EscalationInv'
BY EscalationAssumption
   DEF EscalationInv, EscalationTypeOK, Pass, LossesBoundDuplicates,
       WeaknessExists, Unrecorded, AskedOnce, AnswerIsTrue

\* A pass believes what it has just read.
LEMMA BeginPassInv == EscalationInv /\ BeginPass => EscalationInv'
<1> SUFFICES ASSUME EscalationInv, BeginPass PROVE EscalationInv'
  OBVIOUS
<1>1. Due \subseteq GapIds /\ detectPlatformOutages \subseteq Providers
  BY DEF Due, OpenGaps, detectPlatformOutages
<1>2. pass' \in Pass
  BY <1>1 DEF BeginPass, NoPass, Pass
<1>3. /\ pass'.todo = Due /\ pass'.known = {g \in Due : gaps[g].weakness}
      /\ pass'.cur = None /\ ~pass'.created
  BY DEF BeginPass, NoPass
<1>4. pass.cur = None /\ ~pass.created
  BY DEF BeginPass, Idle, EscalationInv, AnswerIsTrue
<1>5. Unrecorded' /\ AskedOnce' /\ AnswerIsTrue' /\ pass'.cur \notin pass'.todo
  BY <1>1, <1>3, <1>4, EscalationAssumption
     DEF BeginPass, EscalationInv, Unrecorded, AskedOnce, AnswerIsTrue
<1> QED
  BY <1>2, <1>5 DEF BeginPass, EscalationInv, EscalationTypeOK, LossesBoundDuplicates,
                    WeaknessExists

\* A gap that is asked about has no recorded weakness, so that the new one
\* is within the bound.
LEMMA EscalateInv ==
    ASSUME NEW g \in GapIds, EscalationInv, Escalate(g)
    PROVE  EscalationInv'
<1>1. /\ pass'.todo = pass.todo \ {g} /\ pass'.known = pass.known
      /\ pass'.cur = g /\ pass'.created = Creates(g) /\ pass' \in Pass
  BY DEF Escalate, EscalationInv, EscalationTypeOK, Pass, Creates
<1>2. pass.cur = None /\ ~pass.created
  BY DEF Escalate, EscalationInv, AnswerIsTrue
<1>3. Creates(g) => weaknesses[g] <= losses
  BY <1>2, EscalationAssumption
     DEF Escalate, EscalationInv, AskedOnce, Unrecorded, Creates
<1>4. /\ weaknesses' \in [GapIds -> Nat]
      /\ \A h \in GapIds \ {g} : weaknesses'[h] = weaknesses[h]
      /\ Creates(g) => weaknesses'[g] = weaknesses[g] + 1
      /\ ~Creates(g) => weaknesses'[g] = weaknesses[g]
  BY DEF Escalate, EscalationInv, EscalationTypeOK
<1>5. weaknesses \in [GapIds -> Nat] /\ losses \in Nat /\ g \in pass.todo
  BY EscalationAssumption DEF EscalationInv, EscalationTypeOK, Escalate
<1>6. EscalationTypeOK' /\ pass'.cur \notin pass'.todo
  BY <1>1, <1>4 DEF Escalate, EscalationInv, EscalationTypeOK
<1>7. LossesBoundDuplicates' /\ WeaknessExists'
  BY <1>3, <1>4, <1>5
     DEF Escalate, EscalationInv, LossesBoundDuplicates, WeaknessExists
<1>8. Unrecorded'
  BY <1>1, <1>2, <1>4, <1>5, EscalationAssumption
     DEF Escalate, EscalationInv, Unrecorded
<1>9. AskedOnce' /\ AnswerIsTrue'
  BY <1>1, <1>4, <1>5, EscalationAssumption
     DEF Escalate, EscalationInv, AskedOnce, AnswerIsTrue
<1> QED
  BY <1>6, <1>7, <1>8, <1>9 DEF EscalationInv

\* The record names the weakness the answer named.
LEMMA RecordEscalationInv == EscalationInv /\ RecordEscalation => EscalationInv'
<1> SUFFICES ASSUME EscalationInv, RecordEscalation PROVE EscalationInv'
  OBVIOUS
<1> DEFINE c == pass.cur
<1>1. c \in GapIds /\ c \notin pass.todo
  BY DEF RecordEscalation, EscalationInv, EscalationTypeOK, Pass
<1>2. /\ pass' \in Pass /\ pass'.todo = pass.todo /\ pass'.known = pass.known
      /\ pass'.cur = None /\ ~pass'.created
  BY DEF RecordEscalation, EscalationInv, EscalationTypeOK, Pass
<1>3. /\ gaps' \in [GapIds -> Gap]
      /\ gaps'[c].weakness = (gaps[c].weakness \/ pass.created)
      /\ \A h \in GapIds \ {c} : gaps'[h].weakness = gaps[h].weakness
  <2> DEFINE new == [gaps[c] EXCEPT !.debounced = TRUE,
                                    !.weakness = @ \/ pass.created]
  <2>1. gaps[c] \in Gap /\ gaps \in [GapIds -> Gap] /\ pass.created \in BOOLEAN
    BY <1>1 DEF EscalationInv, EscalationTypeOK, Pass
  <2>2. new \in Gap /\ new.weakness = (gaps[c].weakness \/ pass.created)
    BY <2>1 DEF Gap
  <2>3. gaps' = [gaps EXCEPT ![c] = new]
    BY DEF RecordEscalation
  <2> QED
    BY <1>1, <2>1, <2>2, <2>3
<1>4. EscalationTypeOK' /\ AnswerIsTrue' /\ pass'.cur \notin pass'.todo
  BY <1>2, <1>3, EscalationAssumption
     DEF RecordEscalation, EscalationInv, EscalationTypeOK, Pass, AnswerIsTrue
<1>5. LossesBoundDuplicates'
  BY DEF RecordEscalation, EscalationInv, LossesBoundDuplicates
<1>6. WeaknessExists'
  BY <1>1, <1>3 DEF RecordEscalation, EscalationInv, WeaknessExists, AnswerIsTrue
<1>7. Unrecorded'
  BY <1>1, <1>2, <1>3 DEF RecordEscalation, EscalationInv, Unrecorded
<1>8. AskedOnce'
  BY <1>1, <1>2, <1>3 DEF EscalationInv, AskedOnce, EscalationTypeOK, Pass
<1> QED
  BY <1>4, <1>5, <1>6, <1>7, <1>8 DEF EscalationInv

\* Every step keeps the invariant.
LEMMA NextEscalationInv == EscalationInv /\ [EscalationNext]_escalationVars => EscalationInv'
<1> SUFFICES ASSUME EscalationInv, [EscalationNext]_escalationVars PROVE EscalationInv'
  OBVIOUS
<1>1. CASE \E g \in GapIds : GapOpens(g) \/ GapCloses(g) \/ Time(g)
  <2>1. PICK g \in GapIds : GapOpens(g) \/ GapCloses(g) \/ Time(g)
    BY <1>1
  <2>2. UNCHANGED <<weaknesses, pass, losses>>
    BY <2>1 DEF GapOpens, GapCloses, Time, GapRipens, DebounceElapses
  <2>3. /\ gaps' \in [GapIds -> Gap]
        /\ \A h \in GapIds : gaps'[h].weakness = gaps[h].weakness
    BY <2>1, ColumnWrites
       DEF GapOpens, GapCloses, Time, GapRipens, DebounceElapses, EscalationInv, EscalationTypeOK
  <2> QED
    BY <2>2, <2>3, GapColumnsInv
<1>2. CASE BeginPass
  BY <1>2, BeginPassInv
<1>3. CASE \E g \in GapIds : Escalate(g)
  BY <1>3, EscalateInv
<1>4. ASSUME NEW g \in GapIds, RequestFails(g) PROVE EscalationInv'
  <2>1. /\ pass' \in Pass /\ pass'.todo = pass.todo \ {g}
        /\ pass'.known = pass.known /\ pass'.cur = None
        /\ pass'.created = pass.created
    BY <1>4 DEF RequestFails, EscalationInv, EscalationTypeOK, Pass
  <2>2. ~pass.created
    BY <1>4 DEF RequestFails, EscalationInv, AnswerIsTrue
  <2> QED
    BY <1>4, <2>1, <2>2, FaultInv DEF RequestFails
<1>5. CASE RecordEscalation
  BY <1>5, RecordEscalationInv
<1>6. CASE RecordFails
  <2>1. /\ pass' \in Pass /\ pass'.todo = pass.todo
        /\ pass'.known = pass.known /\ pass'.cur = None /\ ~pass'.created
    BY <1>6 DEF RecordFails, EscalationInv, EscalationTypeOK, Pass
  <2> QED
    BY <1>6, <2>1, FaultInv DEF RecordFails
<1>7. CASE Crash
  <2>1. /\ pass' \in Pass /\ pass'.todo = {} /\ pass'.cur = None /\ ~pass'.created
    BY <1>7 DEF Crash, NoPass, Pass
  <2> QED
    BY <1>7, <2>1, FaultInv DEF Crash
<1>8. CASE UNCHANGED escalationVars
  BY <1>8, GapColumnsInv DEF escalationVars, EscalationInv, EscalationTypeOK
<1> QED
  BY <1>1, <1>2, <1>3, <1>4, <1>5, <1>6, <1>7, <1>8 DEF EscalationNext, PassStep

\* The invariant holds in every behaviour.
THEOREM EscalationInvariant == EscalationSpec => []EscalationInv
BY InitEscalationInv, NextEscalationInv, PTL DEF EscalationSpec

\* The variables keep their types.
THEOREM EscalationTypeCorrect == EscalationSpec => []EscalationTypeOK
<1>1. EscalationInv => EscalationTypeOK
  BY DEF EscalationInv
<1> QED
  BY <1>1, EscalationInvariant, PTL

\* A gap has at most one weakness, and one more for every lost answer, lost
\* update or crash of the escalator.
THEOREM DuplicatesAreBounded == EscalationSpec => []LossesBoundDuplicates
<1>1. EscalationInv => LossesBoundDuplicates
  BY DEF EscalationInv
<1> QED
  BY <1>1, EscalationInvariant, PTL

\* A gap names a weakness only when the API created one.
THEOREM NamedWeaknessExists == EscalationSpec => []WeaknessExists
<1>1. EscalationInv => WeaknessExists
  BY DEF EscalationInv
<1> QED
  BY <1>1, EscalationInvariant, PTL
-----------------------------------------------------------------------------
(***************************************************************************)
(* The evaluator, for every number of processes and rules, every set of    *)
(* entities and channels and every bound.                                  *)
(*                                                                         *)
(* How often something was sent is bounded by what is written of it:       *)
(* OnceUnlessWritten says that a process sent what neither the ledger nor  *)
(* its rows know at most once for every loss, and what it is about to send *)
(* too.  A deleted channel costs a process one tick only, since the next   *)
(* one does not read it: what a process may have lost are the faults and   *)
(* the deleted channels that its tick does not hold.  That a row of a      *)
(* successful delivery means that the occurrence was accepted needs        *)
(* KeysAreOld: nobody holds the key of an occurrence that is yet to come.  *)
(***************************************************************************)

NotAhead(k) == k[2] <= conditions[k[1]].occurrence

\* Keys of the ledger and of ticks in progress name occurrences there were.
KeysAreOld ==
    /\ \A row \in ledger : NotAhead(row.send[1])
    /\ \A i \in Instances :
         /\ \A k \in ticks[i].keys : NotAhead(k)
         /\ \A s \in ticks[i].todo : NotAhead(s[1])
         /\ \A row \in ticks[i].rows : NotAhead(row.send[1])

\* The rows claim no success for an occurrence that no channel accepted.
TrueOf(rows, x) ==
    told[x] \/ \A row \in rows : row.send[1] = KeyOf(x) => row.status = "failed"
RowsAreTrue ==
    \A x \in Conditions : (x[1] \in Generational /\ conditions[x].broken) =>
        TrueOf(ledger, x) /\ \A i \in Instances : TrueOf(ticks[i].rows, x)

\* The ticks of a process that ended before their rows were in the ledger.
Losses(i) == faults + Cardinality(Deleted \ ticks[i].on)

Written(rows, s) == \E row \in rows : row.send = s

OnceUnlessWritten ==
    \A i \in Instances, s \in Sends :
        /\ attempts[i][s] <= 1 + Losses(i)
        /\ (s \in ticks[i].todo \/ ~Written(ledger \union ticks[i].rows, s)) =>
             attempts[i][s] <= Losses(i)

\* Only a tick that delivers or stores has something to send or to write.
RowsAreOfDelivery ==
    \A i \in Instances :
        ticks[i].pc \notin {"deliver", "store"} => ticks[i].todo = {} /\ ticks[i].rows = {}

AlertInv ==
    /\ TypeOK
    /\ KeysAreOld
    /\ RowsAreTrue
    /\ OnceUnlessWritten
    /\ RowsAreOfDelivery
-----------------------------------------------------------------------------
\* The losses are a number, however many channels there are.
LEMMA LossesAreFinite ==
    ASSUME TypeOK, NEW i \in Instances
    PROVE  /\ Losses(i) \in Nat
           /\ Losses(i) <= faults + Cardinality(Deleted)
           /\ Cardinality(Deleted) \in Nat
<1>1. Deleted \subseteq Channels /\ IsFiniteSet(Channels)
  BY AlertAssumption DEF Deleted
<1>2. IsFiniteSet(Deleted)
  BY <1>1, FS_Subset
<1>3. /\ IsFiniteSet(Deleted \ ticks[i].on)
      /\ Cardinality(Deleted \ ticks[i].on) <= Cardinality(Deleted)
  BY <1>2, FS_Subset
<1>4. Cardinality(Deleted) \in Nat /\ Cardinality(Deleted \ ticks[i].on) \in Nat
  BY <1>2, <1>3, FS_CardinalityType
<1> QED
  BY <1>3, <1>4, AlertAssumption DEF Losses, TypeOK

\* No loss is forgotten while the tick holds no more deleted channels.
LEMMA LossesGrow ==
    ASSUME TypeOK, TypeOK', NEW i \in Instances, faults <= faults',
           Deleted \ ticks[i].on \subseteq Deleted' \ ticks'[i].on
    PROVE  /\ Losses(i) \in Nat /\ Losses(i)' \in Nat /\ Losses(i) <= Losses(i)'
           /\ faults < faults' => Losses(i) + 1 <= Losses(i)'
           /\ (\E c \in Deleted' \ ticks'[i].on : c \notin Deleted \ ticks[i].on) =>
                Losses(i) + 1 <= Losses(i)'
<1> DEFINE less == Deleted \ ticks[i].on  more == Deleted' \ ticks'[i].on
<1>1. more \subseteq Channels /\ IsFiniteSet(Channels)
  BY AlertAssumption DEF Deleted
<1>2. IsFiniteSet(more)
  BY <1>1, FS_Subset
<1>3. /\ IsFiniteSet(less) /\ Cardinality(less) <= Cardinality(more)
      /\ Cardinality(less) = Cardinality(more) => less = more
  BY <1>2, FS_Subset
<1>4. Cardinality(less) \in Nat /\ Cardinality(more) \in Nat
  BY <1>2, <1>3, FS_CardinalityType
<1>5. /\ faults \in Nat /\ faults' \in Nat
      /\ Losses(i) = faults + Cardinality(less)
      /\ Losses(i)' = faults' + Cardinality(more)
  BY AlertAssumption DEF TypeOK, Losses
<1> HIDE DEF less, more
<1>6. (\E c \in more : c \notin less) => Cardinality(less) < Cardinality(more)
  BY <1>3, <1>4
<1> QED
  BY <1>3, <1>4, <1>5, <1>6 DEF less, more

\* Nothing was sent when the first process starts.
LEMMA InitAlertInv == Init => AlertInv
<1> SUFFICES ASSUME Init PROVE AlertInv
  OBVIOUS
<1>1. NoTick \in Ticks /\ NoTick.keys = {} /\ NoTick.todo = {} /\ NoTick.rows = {}
  BY DEF NoTick, Ticks
<1>2. TypeOK
  BY <1>1, AlertAssumption DEF Init, TypeOK, NoRequest
<1>3. OnceUnlessWritten
  BY <1>2, LossesAreFinite DEF Init, OnceUnlessWritten
<1>4. KeysAreOld /\ RowsAreTrue /\ RowsAreOfDelivery
  BY <1>1 DEF Init, KeysAreOld, RowsAreTrue, TrueOf, RowsAreOfDelivery
<1> QED
  BY <1>2, <1>3, <1>4 DEF AlertInv

\* What a condition's key is.
LEMMA KeyIsOld ==
    ASSUME TypeOK, NEW x \in Conditions
    PROVE  KeyOf(x) \in Keys /\ KeyOf(x)[1] = x /\ NotAhead(KeyOf(x))
BY AlertAssumption DEF TypeOK, KeyOf, Keys, NotAhead

\* A tick that goes on to the next rule has nothing in hand.
LEMMA NextRuleIsClean ==
    ASSUME NEW i \in Instances, ticks[i] \in Ticks
    PROVE  /\ NextRule(i) \in Ticks
           /\ NextRule(i).keys = {} /\ NextRule(i).todo = {} /\ NextRule(i).rows = {}
           /\ NextRule(i).on \subseteq ticks[i].on
<1> DEFINE left == ticks[i].left \ {Rule(i)}
<1>1. /\ NoTick \in Ticks /\ NoTick.keys = {} /\ NoTick.todo = {} /\ NoTick.rows = {}
      /\ NoTick.on = {}
  BY DEF NoTick, Ticks
<1>2. CASE left = {}
  BY <1>1, <1>2 DEF NextRule
<1>3. CASE left # {}
  <2>1. left \subseteq Rules /\ ticks[i].on \subseteq Channels
    BY DEF Ticks
  <2>2. NextRule(i) = [pc |-> "collect", on |-> ticks[i].on, missing |-> {}, left |-> left,
                       keys |-> {}, todo |-> {}, rows |-> {}]
    BY <1>3 DEF NextRule, NoTick
  <2> HIDE DEF left
  <2> QED
    BY <2>1, <2>2 DEF Ticks
<1> QED
  BY <1>2, <1>3

\* A tick that has nothing to write yet may move on to sends that its process
\* has made at most once for every loss.
LEMMA TickMoves ==
    ASSUME AlertInv, NEW i \in Instances, NEW t \in Ticks, ticks' = [ticks EXCEPT ![i] = t],
           rules' \in [Rules -> {"missing", "on", "off"}],
           faults' \in 0..MaxFaults, faults <= faults',
           UNCHANGED <<world, chosen, request, channels, edits, ledger, attempts>>,
           ticks[i].pc \notin {"deliver", "store"},
           Deleted \ ticks[i].on \subseteq Deleted \ t.on,
           t.rows = {}, t.todo # {} => t.pc = "deliver",
           \A k \in t.keys : NotAhead(k),
           \A s \in t.todo : attempts[i][s] <= Losses(i) /\ NotAhead(s[1])
    PROVE  AlertInv'
<1>1. ticks[i].rows = {} /\ ticks \in [Instances -> Ticks] /\ UNCHANGED <<conditions, told>>
  BY DEF AlertInv, RowsAreOfDelivery, TypeOK, world
<1>2. \A j \in Instances : ticks'[j].rows = ticks[j].rows
  BY <1>1
<1>3. TypeOK'
  BY <1>1 DEF AlertInv, TypeOK
<1>4. KeysAreOld'
  BY <1>1 DEF AlertInv, KeysAreOld, NotAhead
<1>5. RowsAreTrue'
  BY <1>1, <1>2 DEF AlertInv, RowsAreTrue, TrueOf, KeyOf
<1>6. OnceUnlessWritten'
  <2>1. Deleted' = Deleted
    BY DEF Deleted
  <2>2. \A j \in Instances : Deleted \ ticks[j].on \subseteq Deleted' \ ticks'[j].on
    BY <1>1, <2>1
  <2>3. \A j \in Instances : Losses(j) \in Nat /\ Losses(j)' \in Nat /\ Losses(j) <= Losses(j)'
    BY <1>3, <2>2, LossesGrow DEF AlertInv
  <2>4. attempts \in [Instances -> [Sends -> Nat]]
    BY DEF AlertInv, TypeOK
  <2> SUFFICES ASSUME NEW j \in Instances, NEW s \in Sends
               PROVE  /\ attempts[j][s] <= 1 + Losses(j)'
                      /\ (s \in ticks'[j].todo \/ ~Written(ledger \union ticks'[j].rows, s)) =>
                           attempts[j][s] <= Losses(j)'
    BY DEF OnceUnlessWritten
  <2>5. /\ attempts[j][s] <= 1 + Losses(j)
        /\ (s \in ticks[j].todo \/ ~Written(ledger \union ticks[j].rows, s)) =>
             attempts[j][s] <= Losses(j)
    BY DEF AlertInv, OnceUnlessWritten
  <2>6. s \in ticks'[j].todo => s \in ticks[j].todo \/ attempts[j][s] <= Losses(j)
    BY <1>1
  <2>7. attempts[j][s] \in Nat
    BY <2>4
  <2>8. Written(ledger \union ticks'[j].rows, s) <=> Written(ledger \union ticks[j].rows, s)
    BY <1>2
  <2> HIDE DEF Written
  <2> QED
    BY <2>3, <2>5, <2>6, <2>7, <2>8
<1>7. RowsAreOfDelivery'
  BY <1>1 DEF AlertInv, RowsAreOfDelivery
<1> QED
  BY <1>3, <1>4, <1>5, <1>6, <1>7 DEF AlertInv

\* The steps before a delivery.
LEMMA BeforeDeliveryInv ==
    ASSUME NEW i \in Instances, AlertInv,
           BeginTick(i) \/ ReadRules(i) \/ SeedRules(i) \/ Collect(i) \/ CollectFails(i)
    PROVE  AlertInv'
<1> DEFINE t == ticks'[i]  old == ticks[i]
<1>1. /\ old \in Ticks /\ ticks \in [Instances -> Ticks] /\ old.todo = {} /\ old.rows = {}
      /\ rules \in [Rules -> {"missing", "on", "off"}]
      /\ On \subseteq Channels /\ On \cap Deleted = {} /\ Missing \subseteq Rules
      /\ \A k \in old.keys : NotAhead(k)
  BY DEF AlertInv, TypeOK, RowsAreOfDelivery, KeysAreOld, On, Deleted, Missing,
         BeginTick, ReadRules, SeedRules, Collect, CollectFails, EvaluationFails, At
<1>2. /\ NoTick \in Ticks /\ NoTick.keys = {} /\ NoTick.todo = {} /\ NoTick.rows = {}
      /\ NoTick.on = {}
  BY DEF NoTick, Ticks
<1>3. /\ UNCHANGED <<world, chosen, request, channels, edits, ledger, attempts>>
      /\ old.pc \notin {"deliver", "store"}
      /\ rules' \in [Rules -> {"missing", "on", "off"}]
      /\ faults' \in 0..MaxFaults /\ faults <= faults'
  <2>1. faults \in 0..MaxFaults /\ MaxFaults \in Nat
    BY AlertAssumption DEF AlertInv, TypeOK
  <2>2. UNCHANGED <<world, chosen, request, channels, edits, ledger, attempts>>
    BY DEF BeginTick, ReadRules, SeedRules, Collect, CollectFails, admin, catalog
  <2>3. old.pc \notin {"deliver", "store"}
    BY DEF BeginTick, ReadRules, SeedRules, Collect, CollectFails, EvaluationFails, At
  <2>4. rules' \in [Rules -> {"missing", "on", "off"}]
    BY <1>1 DEF BeginTick, ReadRules, SeedRules, Collect, CollectFails, admin, catalog, InsertDefaults
  <2>5. faults' = faults \/ (faults < MaxFaults /\ faults' = faults + 1)
    BY DEF BeginTick, ReadRules, SeedRules, Collect, CollectFails, EvaluationFails
  <2> QED
    BY <2>1, <2>2, <2>3, <2>4, <2>5
<1>4. CASE BeginTick(i)
  <2> DEFINE new == [NoTick EXCEPT !.pc = "rules", !.on = On]
  <2>2. new \in Ticks /\ new.keys = {} /\ new.todo = {} /\ new.rows = {} /\ new.on = On
    BY <1>1, <1>2 DEF Ticks
  <2>3. ticks' = [ticks EXCEPT ![i] = new]
    BY <1>4 DEF BeginTick
  <2> HIDE DEF new
  <2>4. Deleted \ old.on \subseteq Deleted \ new.on
    BY <1>1, <2>2
  <2> QED
    BY <1>3, <2>2, <2>3, <2>4, TickMoves
<1>5. CASE ReadRules(i)
  <2> DEFINE enabled == {r \in Rules : rules[r] = "on"}
             seed == [old EXCEPT !.pc = "seed", !.missing = Missing]
             collect == [old EXCEPT !.pc = "collect", !.left = enabled]
  <2>1. /\ seed \in Ticks /\ seed.todo = {} /\ seed.rows = {}
        /\ seed.keys = old.keys /\ seed.on = old.on
    BY <1>1 DEF Ticks
  <2>2. /\ collect \in Ticks /\ collect.todo = {} /\ collect.rows = {}
        /\ collect.keys = old.keys /\ collect.on = old.on
    <3>1. enabled \subseteq Rules
      OBVIOUS
    <3> HIDE DEF enabled
    <3> QED
      BY <1>1, <3>1 DEF Ticks
  <2>3. PICK new \in {seed, collect, NoTick} : ticks' = [ticks EXCEPT ![i] = new]
    BY <1>1, <1>5 DEF ReadRules
  <2> HIDE DEF seed, collect
  <2>4. new \in Ticks /\ new.todo = {} /\ new.rows = {} /\ new.keys \subseteq old.keys
        /\ new.on \subseteq old.on
    BY <1>2, <2>1, <2>2
  <2> QED
    BY <1>1, <1>3, <2>3, <2>4, TickMoves
<1>6. CASE SeedRules(i)
  <2> DEFINE new == [old EXCEPT !.pc = "rules", !.missing = {}]
  <2>1. new \in Ticks /\ new.todo = {} /\ new.rows = {} /\ new.keys = old.keys
        /\ new.on = old.on
    BY <1>1 DEF Ticks
  <2>2. ticks' = [ticks EXCEPT ![i] = new]
    BY <1>1, <1>6 DEF SeedRules
  <2> HIDE DEF new
  <2> QED
    BY <1>1, <1>3, <2>1, <2>2, TickMoves
<1>7. CASE Collect(i)
  <2>1. CASE Candidates(Rule(i)) = {}
    <3>1. ticks' = [ticks EXCEPT ![i] = NextRule(i)]
      BY <1>7, <2>1 DEF Collect
    <3> QED
      BY <1>1, <1>3, <3>1, NextRuleIsClean, TickMoves
  <2>2. CASE Candidates(Rule(i)) # {}
    <3>1. \A k \in Candidates(Rule(i)) : k \in Keys /\ NotAhead(k)
      BY KeyIsOld DEF Candidates, AlertInv
    <3> DEFINE found == Candidates(Rule(i))
               new == [old EXCEPT !.pc = "dedupe", !.keys = found]
    <3>2. ticks' = [ticks EXCEPT ![i] = new]
      BY <1>7, <2>2 DEF Collect
    <3> HIDE DEF found
    <3>3. new \in Ticks /\ new.todo = {} /\ new.rows = {} /\ new.keys = found /\ new.on = old.on
      BY <1>1, <3>1 DEF Ticks, found
    <3>4. \A k \in found : NotAhead(k)
      BY <3>1 DEF found
    <3> HIDE DEF new
    <3> QED
      BY <1>3, <3>2, <3>3, <3>4, TickMoves
  <2> QED
    BY <2>1, <2>2
<1>8. CASE CollectFails(i)
  <2>1. ticks' = [ticks EXCEPT ![i] = NextRule(i)]
    BY <1>8 DEF CollectFails
  <2> QED
    BY <1>1, <1>3, <2>1, NextRuleIsClean, TickMoves
<1> QED
  BY <1>4, <1>5, <1>6, <1>7, <1>8

\* What is about to be sent is not in the ledger, so that the process sent it
\* at most once for every loss.
LEMMA DedupeInv ==
    ASSUME NEW i \in Instances, AlertInv, Dedupe(i)
    PROVE  AlertInv'
<1> DEFINE old == ticks[i]  fresh == Fresh(old.keys)
<1>1. /\ old \in Ticks /\ ticks \in [Instances -> Ticks] /\ old.todo = {} /\ old.rows = {}
      /\ old.pc = "dedupe" /\ rules \in [Rules -> {"missing", "on", "off"}]
  BY DEF AlertInv, TypeOK, RowsAreOfDelivery, Dedupe, At
<1>2. /\ UNCHANGED <<world, rules, chosen, request, channels, edits, ledger, attempts, faults>>
      /\ faults' \in 0..MaxFaults /\ faults <= faults'
  <2>1. faults \in 0..MaxFaults /\ UNCHANGED faults
    BY DEF AlertInv, TypeOK, Dedupe
  <2> QED
    BY <2>1, AlertAssumption DEF Dedupe, admin, catalog
<1>3. CASE fresh = {}
  <2>1. ticks' = [ticks EXCEPT ![i] = NextRule(i)]
    BY <1>3 DEF Dedupe
  <2> QED
    BY <1>1, <1>2, <2>1, NextRuleIsClean, TickMoves
<1>4. CASE fresh # {}
  <2> DEFINE todo == fresh \X old.on
             new == [old EXCEPT !.pc = "deliver", !.keys = {}, !.todo = todo]
  <2>1. ticks' = [ticks EXCEPT ![i] = new]
    BY <1>4 DEF Dedupe
  <2>2. todo \subseteq Sends
    BY <1>1 DEF Ticks, Sends, Fresh
  <2>3. \A s \in todo : NotAhead(s[1]) /\ ~Written(ledger \union old.rows, s)
    BY <1>1 DEF AlertInv, KeysAreOld, Fresh, RowsOf, Written
  <2>4. \A s \in todo : attempts[i][s] <= Losses(i)
    BY <1>1, <2>2, <2>3 DEF AlertInv, OnceUnlessWritten
  <2> HIDE DEF todo
  <2>5. new \in Ticks /\ new.todo = todo /\ new.rows = {} /\ new.keys = {} /\ new.pc = "deliver"
        /\ new.on = old.on
    BY <1>1, <2>2 DEF Ticks
  <2> HIDE DEF new
  <2> QED
    BY <1>1, <1>2, <2>1, <2>3, <2>4, <2>5, TickMoves
<1> QED
  BY <1>3, <1>4

\* A send is counted and written down, whether it was accepted or not.
LEMMA DeliverInv ==
    ASSUME NEW i \in Instances, AlertInv, Deliver(i)
    PROVE  AlertInv'
<1> DEFINE old == ticks[i]
<1>1. /\ old \in Ticks /\ ticks \in [Instances -> Ticks] /\ old.pc = "deliver"
      /\ UNCHANGED <<conditions, rules, chosen, request, channels, edits, ledger, faults>>
      /\ attempts \in [Instances -> [Sends -> Nat]]
  BY DEF AlertInv, TypeOK, Deliver, At, admin, catalog
<1>2. PICK s \in old.todo, status \in {"sent", "failed"} :
        /\ attempts' = [attempts EXCEPT ![i][s] = @ + 1]
        /\ told' = [x \in Conditions |->
             told[x] \/ (status = "sent" /\ conditions[x].broken /\ KeyOf(x) = s[1])]
        /\ ticks' = [ticks EXCEPT ![i].pc = IF old.todo = {s} THEN "store" ELSE "deliver",
                                  ![i].todo = @ \ {s},
                                  ![i].rows = @ \union {[send |-> s, status |-> status]}]
  BY DEF Deliver
<1> DEFINE row == [send |-> s, status |-> status]
<1>3. s \in Sends /\ row \in Rows /\ row.send = s /\ row.status = status
  BY <1>1, <1>2 DEF Ticks, Rows
<1> HIDE DEF row
<1>4. PICK t \in Ticks :
        /\ ticks' = [ticks EXCEPT ![i] = t]
        /\ t.pc \in {"deliver", "store"} /\ t.keys = old.keys /\ t.on = old.on
        /\ t.todo = old.todo \ {s} /\ t.rows = old.rows \union {row}
  <2> DEFINE new == [old EXCEPT !.pc = IF old.todo = {s} THEN "store" ELSE "deliver",
                                !.todo = @ \ {s}, !.rows = @ \union {row}]
  <2>1. new \in Ticks /\ new.pc \in {"deliver", "store"} /\ new.keys = old.keys
        /\ new.on = old.on /\ new.todo = old.todo \ {s} /\ new.rows = old.rows \union {row}
    BY <1>1, <1>3 DEF Ticks
  <2>2. ticks' = [ticks EXCEPT ![i] = new]
    BY <1>1, <1>2 DEF row
  <2> HIDE DEF new
  <2> QED
    BY <2>1, <2>2
<1>5. /\ attempts' \in [Instances -> [Sends -> Nat]]
      /\ attempts'[i][s] = attempts[i][s] + 1
      /\ \A j \in Instances, r \in Sends : (j # i \/ r # s) => attempts'[j][r] = attempts[j][r]
  <2> DEFINE new == [attempts[i] EXCEPT ![s] = @ + 1]
  <2>1. attempts[i] \in [Sends -> Nat]
    BY <1>1
  <2>2. /\ new \in [Sends -> Nat] /\ new[s] = attempts[i][s] + 1
        /\ \A r \in Sends \ {s} : new[r] = attempts[i][r]
    BY <1>3, <2>1
  <2>3. attempts' = [attempts EXCEPT ![i] = new]
    BY <1>2
  <2> HIDE DEF new
  <2> QED
    BY <1>1, <2>2, <2>3
<1>6. attempts[i][s] <= Losses(i)
  BY <1>2, <1>3 DEF AlertInv, OnceUnlessWritten
<1>7. TypeOK'
  <2>1. told' \in [Conditions -> BOOLEAN]
    BY <1>2 DEF AlertInv, TypeOK
  <2> QED
    BY <1>1, <1>4, <1>5, <2>1 DEF AlertInv, TypeOK
<1>8. \A j \in Instances : Losses(j)' = Losses(j) /\ Losses(j) \in Nat
  <2>1. Deleted' = Deleted
    BY <1>1 DEF Deleted
  <2> QED
    BY <1>1, <1>4, <2>1, LossesAreFinite DEF AlertInv, Losses
<1>9. OnceUnlessWritten'
  <2> SUFFICES ASSUME NEW j \in Instances, NEW r \in Sends
               PROVE  /\ attempts'[j][r] <= 1 + Losses(j)
                      /\ (r \in ticks'[j].todo \/ ~Written(ledger \union ticks'[j].rows, r)) =>
                           attempts'[j][r] <= Losses(j)
    BY <1>1, <1>8 DEF OnceUnlessWritten
  <2>1. /\ attempts[j][r] <= 1 + Losses(j)
        /\ (r \in ticks[j].todo \/ ~Written(ledger \union ticks[j].rows, r)) =>
             attempts[j][r] <= Losses(j)
    BY DEF AlertInv, OnceUnlessWritten
  <2>2. CASE j = i /\ r = s
    <3>1. r \notin ticks'[j].todo /\ Written(ledger \union ticks'[j].rows, r)
      BY <1>1, <1>3, <1>4, <2>2 DEF Written
    <3> QED
      BY <1>1, <1>3, <1>5, <1>6, <1>8, <2>2, <3>1
  <2>3. CASE j = i /\ r # s
    <3>1. ticks'[j] = t
      BY <1>1, <1>4, <2>3
    <3>2. r \in t.todo => r \in old.todo
      BY <1>4
    <3>3. Written(ledger \union old.rows, r) => Written(ledger \union t.rows, r)
      BY <1>4 DEF Written
    <3> QED
      BY <1>5, <2>1, <2>3, <3>1, <3>2, <3>3
  <2>4. CASE j # i
    BY <1>1, <1>4, <1>5, <2>1, <2>4
  <2> QED
    BY <2>2, <2>3, <2>4
<1>10. \A x \in Conditions : /\ told[x] => told'[x]
                             /\ status = "sent" /\ conditions[x].broken /\ KeyOf(x) = s[1] => told'[x]
  BY <1>2
<1>11. RowsAreTrue'
  <2> SUFFICES ASSUME NEW x \in Conditions, x[1] \in Generational, conditions[x].broken, ~told'[x]
               PROVE  /\ \A r \in ledger : r.send[1] = KeyOf(x) => r.status = "failed"
                      /\ \A j \in Instances : \A r \in ticks'[j].rows :
                           r.send[1] = KeyOf(x) => r.status = "failed"
    BY <1>1 DEF RowsAreTrue, TrueOf, KeyOf
  <2>1. ~told[x] /\ (KeyOf(x) = s[1] => status = "failed")
    BY <1>2, <1>10
  <2>2. /\ \A r \in ledger : r.send[1] = KeyOf(x) => r.status = "failed"
        /\ \A j \in Instances : \A r \in ticks[j].rows :
             r.send[1] = KeyOf(x) => r.status = "failed"
    BY <2>1 DEF AlertInv, RowsAreTrue, TrueOf
  <2>3. \A j \in Instances : \A r \in ticks'[j].rows : r \in ticks[j].rows \/ r = row
    BY <1>1, <1>4
  <2> QED
    BY <1>3, <2>1, <2>2, <2>3
<1>12. KeysAreOld'
  <2>1. \A j \in Instances : /\ ticks'[j].keys = ticks[j].keys
                             /\ ticks'[j].todo \subseteq ticks[j].todo
                             /\ \A r \in ticks'[j].rows : r \in ticks[j].rows \/ r = row
    BY <1>1, <1>4
  <2>2. NotAhead(row.send[1])
    BY <1>2, <1>3 DEF AlertInv, KeysAreOld
  <2> QED
    BY <1>1, <2>1, <2>2 DEF AlertInv, KeysAreOld, NotAhead
<1>13. RowsAreOfDelivery'
  BY <1>1, <1>4 DEF AlertInv, RowsAreOfDelivery
<1> QED
  BY <1>7, <1>9, <1>11, <1>12, <1>13 DEF AlertInv

\* The rows of a tick become rows of the ledger.
LEMMA StoreInv ==
    ASSUME NEW i \in Instances, AlertInv, Store(i)
    PROVE  AlertInv'
<1> DEFINE old == ticks[i]
<1>1. /\ old \in Ticks /\ ticks \in [Instances -> Ticks]
      /\ ledger' = ledger \union old.rows
      /\ UNCHANGED <<conditions, told, rules, chosen, request, channels, edits, attempts, faults>>
  BY DEF AlertInv, TypeOK, Store, admin, catalog, world
<1>2. PICK t \in Ticks : /\ ticks' = [ticks EXCEPT ![i] = t]
                         /\ t.keys = {} /\ t.todo = {} /\ t.rows = {} /\ t.on \subseteq old.on
  BY <1>1, NextRuleIsClean DEF Store
<1>3. old.rows \subseteq Rows
  BY <1>1 DEF Ticks
<1>4. TypeOK'
  BY <1>1, <1>2, <1>3 DEF AlertInv, TypeOK
<1>5. RowsAreTrue'
  BY <1>1, <1>2 DEF AlertInv, RowsAreTrue, TrueOf, KeyOf
<1>6. KeysAreOld' /\ RowsAreOfDelivery'
  BY <1>1, <1>2 DEF AlertInv, KeysAreOld, NotAhead, RowsAreOfDelivery
<1>7. OnceUnlessWritten'
  <2>1. Deleted' = Deleted /\ faults <= faults'
    <3>1. faults \in 0..MaxFaults
      BY DEF AlertInv, TypeOK
    <3> QED
      BY <1>1, <3>1, AlertAssumption DEF Deleted
  <2>2. \A j \in Instances : Deleted \ ticks[j].on \subseteq Deleted' \ ticks'[j].on
    BY <1>1, <1>2, <2>1
  <2>3. \A j \in Instances : Losses(j) \in Nat /\ Losses(j)' \in Nat /\ Losses(j) <= Losses(j)'
    BY <1>4, <2>1, <2>2, LossesGrow DEF AlertInv
  <2>4. attempts \in [Instances -> [Sends -> Nat]]
    BY DEF AlertInv, TypeOK
  <2> SUFFICES ASSUME NEW j \in Instances, NEW s \in Sends
               PROVE  /\ attempts[j][s] <= 1 + Losses(j)'
                      /\ (s \in ticks'[j].todo \/ ~Written(ledger' \union ticks'[j].rows, s)) =>
                           attempts[j][s] <= Losses(j)'
    BY <1>1 DEF OnceUnlessWritten
  <2>5. /\ attempts[j][s] <= 1 + Losses(j)
        /\ (s \in ticks[j].todo \/ ~Written(ledger \union ticks[j].rows, s)) =>
             attempts[j][s] <= Losses(j)
    BY DEF AlertInv, OnceUnlessWritten
  <2>6. Written(ledger \union ticks[j].rows, s) => Written(ledger' \union ticks'[j].rows, s)
    BY <1>1, <1>2 DEF Written
  <2>7. ticks'[j].todo \subseteq ticks[j].todo
    BY <1>1, <1>2
  <2> QED
    BY <2>3, <2>4, <2>5, <2>6, <2>7
<1> QED
  BY <1>4, <1>5, <1>6, <1>7 DEF AlertInv

\* A loss pays for the rows that are not stored: a fault, or a channel that
\* was deleted under the tick and that no later tick will hold.
LEMMA LossInv ==
    ASSUME NEW i \in Instances, AlertInv, ticks' = [ticks EXCEPT ![i] = NoTick],
           faults' \in 0..MaxFaults, faults <= faults',
           faults < faults' \/ ticks[i].on \cap Deleted # {},
           UNCHANGED <<world, admin, ledger, attempts>>
    PROVE  AlertInv'
<1>1. /\ ticks \in [Instances -> Ticks] /\ attempts \in [Instances -> [Sends -> Nat]]
      /\ UNCHANGED <<conditions, told, rules, chosen, request, channels, edits, ledger, attempts>>
  BY DEF AlertInv, TypeOK, admin, catalog, world
<1>2. /\ NoTick \in Ticks /\ NoTick.keys = {} /\ NoTick.todo = {} /\ NoTick.rows = {}
      /\ NoTick.on = {}
  BY DEF NoTick, Ticks
<1>3. TypeOK'
  BY <1>1, <1>2 DEF AlertInv, TypeOK
<1>4. KeysAreOld' /\ RowsAreTrue' /\ RowsAreOfDelivery'
  BY <1>1, <1>2 DEF AlertInv, KeysAreOld, NotAhead, RowsAreTrue, TrueOf, KeyOf, RowsAreOfDelivery
<1>5. OnceUnlessWritten'
  <2>1. Deleted' = Deleted
    BY <1>1 DEF Deleted
  <2>2. \A j \in Instances : Deleted \ ticks[j].on \subseteq Deleted' \ ticks'[j].on
    BY <1>1, <1>2, <2>1
  <2>3. \A j \in Instances : Losses(j) \in Nat /\ Losses(j)' \in Nat /\ Losses(j) <= Losses(j)'
    BY <1>3, <2>2, LossesGrow DEF AlertInv
  <2>4. Losses(i) + 1 <= Losses(i)'
    <3>1. CASE faults < faults'
      BY <1>3, <2>2, <3>1, LossesGrow DEF AlertInv
    <3>2. CASE ticks[i].on \cap Deleted # {}
      <4>1. \E c \in Deleted' \ ticks'[i].on : c \notin Deleted \ ticks[i].on
        BY <1>1, <1>2, <2>1, <3>2
      <4> QED
        BY <1>3, <2>2, <4>1, LossesGrow DEF AlertInv
    <3> QED
      BY <3>1, <3>2
  <2> SUFFICES ASSUME NEW j \in Instances, NEW s \in Sends
               PROVE  /\ attempts[j][s] <= 1 + Losses(j)'
                      /\ (s \in ticks'[j].todo \/ ~Written(ledger \union ticks'[j].rows, s)) =>
                           attempts[j][s] <= Losses(j)'
    BY <1>1 DEF OnceUnlessWritten
  <2>5. /\ attempts[j][s] <= 1 + Losses(j)
        /\ (s \in ticks[j].todo \/ ~Written(ledger \union ticks[j].rows, s)) =>
             attempts[j][s] <= Losses(j)
    BY DEF AlertInv, OnceUnlessWritten
  <2>6. CASE j = i
    BY <1>1, <2>3, <2>4, <2>5, <2>6
  <2>7. CASE j # i
    BY <1>1, <2>3, <2>5, <2>7
  <2> QED
    BY <2>6, <2>7
<1> QED
  BY <1>3, <1>4, <1>5 DEF AlertInv

\* Rows and ticks in progress hold keys of conditions.
RowsKeys ==
    /\ \A row \in ledger : row.send[1] \in Keys
    /\ \A i \in Instances : /\ ticks[i].keys \subseteq Keys
                            /\ \A s \in ticks[i].todo : s[1] \in Keys
                            /\ \A row \in ticks[i].rows : row.send[1] \in Keys

\* They do by their types.
LEMMA RowsHaveKeys == TypeOK => RowsKeys
BY DEF TypeOK, RowsKeys, Rows, Sends, Ticks

\* A new occurrence has a key that nobody holds yet.
LEMMA BreakInv ==
    ASSUME NEW x \in Conditions, AlertInv, Break(x)
    PROVE  AlertInv'
<1>1. /\ conditions \in [Conditions -> [broken : BOOLEAN, occurrence : 0..MaxBreaks]]
      /\ told' = [told EXCEPT ![x] = FALSE] /\ told \in [Conditions -> BOOLEAN]
      /\ UNCHANGED <<rules, chosen, request, channels, edits, ledger, attempts, ticks, faults>>
  BY DEF AlertInv, TypeOK, Break, admin, catalog
<1>2. PICK c \in [broken : BOOLEAN, occurrence : 0..MaxBreaks] :
        /\ conditions' = [conditions EXCEPT ![x] = c]
        /\ c.broken
        /\ x[1] \in Generational => c.occurrence = conditions[x].occurrence + 1
        /\ x[1] \notin Generational => c.occurrence = conditions[x].occurrence
  <2> DEFINE old == conditions[x]
  <2>1. old \in [broken : BOOLEAN, occurrence : 0..MaxBreaks]
    BY <1>1
  <2>2. CASE x[1] \in Generational
    <3>1. old.occurrence + 1 \in 0..MaxBreaks
      BY <2>1, <2>2, AlertAssumption DEF Break
    <3> DEFINE new == [broken |-> TRUE, occurrence |-> old.occurrence + 1]
    <3>2. new \in [broken : BOOLEAN, occurrence : 0..MaxBreaks] /\ new.broken
      BY <3>1
    <3>3. conditions' = [conditions EXCEPT ![x] = new]
      BY <2>2 DEF Break
    <3> QED
      BY <2>2, <3>2, <3>3
  <2>3. CASE x[1] \notin Generational
    <3> DEFINE new == [old EXCEPT !.broken = TRUE]
    <3>1. new \in [broken : BOOLEAN, occurrence : 0..MaxBreaks] /\ new.broken
          /\ new.occurrence = old.occurrence
      BY <2>1
    <3>2. conditions' = [conditions EXCEPT ![x] = new]
      BY <2>3 DEF Break
    <3> HIDE DEF new
    <3> QED
      BY <2>3, <3>1, <3>2
  <2> QED
    BY <2>2, <2>3
<1>3. /\ \A y \in Conditions \ {x} : conditions'[y] = conditions[y] /\ told'[y] = told[y]
      /\ conditions'[x].broken
      /\ conditions[x].occurrence \in Nat /\ conditions[x].occurrence <= conditions'[x].occurrence
  BY <1>1, <1>2, AlertAssumption
<1>4. TypeOK'
  BY <1>1, <1>2 DEF AlertInv, TypeOK
<1>5. \A k \in Keys : NotAhead(k) => NotAhead(k)'
  <2>1. \A y \in Conditions :
          /\ conditions[y].occurrence \in Nat /\ conditions'[y].occurrence \in Nat
          /\ conditions[y].occurrence <= conditions'[y].occurrence
    BY <1>1, <1>2, <1>3, AlertAssumption
  <2>2. \A k \in Keys : k[1] \in Conditions /\ k[2] \in Nat
    BY AlertAssumption DEF Keys
  <2> QED
    BY <2>1, <2>2 DEF NotAhead
<1>6. RowsKeys
  BY RowsHaveKeys DEF AlertInv
<1>7. KeysAreOld'
  BY <1>1, <1>5, <1>6 DEF AlertInv, KeysAreOld, RowsKeys
<1>8. x[1] \in Generational => \A k \in Keys : NotAhead(k) => k # KeyOf(x)'
  BY <1>1, <1>2, <1>3, AlertAssumption DEF NotAhead, KeyOf, Keys
<1>9. RowsAreTrue'
  <2> SUFFICES ASSUME NEW y \in Conditions, y[1] \in Generational, conditions'[y].broken, ~told'[y]
               PROVE  /\ \A r \in ledger : r.send[1] = KeyOf(y)' => r.status = "failed"
                      /\ \A j \in Instances : \A r \in ticks[j].rows :
                           r.send[1] = KeyOf(y)' => r.status = "failed"
    BY <1>1 DEF RowsAreTrue, TrueOf
  <2>1. CASE y = x
    BY <1>6, <1>8, <2>1 DEF AlertInv, KeysAreOld, RowsKeys
  <2>2. CASE y # x
    <3>1. KeyOf(y)' = KeyOf(y) /\ conditions[y].broken /\ ~told[y]
      BY <1>3, <2>2 DEF KeyOf
    <3> QED
      BY <3>1 DEF AlertInv, RowsAreTrue, TrueOf
  <2> QED
    BY <2>1, <2>2
<1>10. OnceUnlessWritten'
  BY <1>1 DEF AlertInv, OnceUnlessWritten, Losses, Deleted
<1>11. RowsAreOfDelivery'
  BY <1>1 DEF AlertInv, RowsAreOfDelivery
<1> QED
  BY <1>4, <1>7, <1>9, <1>10, <1>11 DEF AlertInv

\* A condition that recovers, and what administrators change, take no key
\* and no row away, and no deleted channel comes back.
LEMMA QuietInv ==
    ASSUME AlertInv, TypeOK', UNCHANGED <<told, ledger, attempts, ticks, faults>>,
           Deleted \subseteq Deleted',
           \A x \in Conditions : /\ conditions'[x].occurrence = conditions[x].occurrence
                                 /\ conditions'[x].broken => conditions[x].broken
    PROVE  AlertInv'
<1>1. RowsAreOfDelivery'
  BY DEF AlertInv, RowsAreOfDelivery
<1>2. \A x \in Conditions : KeyOf(x)' = KeyOf(x)
  BY DEF KeyOf
<1>3. RowsAreTrue'
  BY <1>2 DEF AlertInv, RowsAreTrue, TrueOf
<1>4. KeysAreOld'
  <2>1. \A k \in Keys : NotAhead(k) => NotAhead(k)'
    BY DEF Keys, NotAhead
  <2>2. RowsKeys
    BY RowsHaveKeys DEF AlertInv
  <2> QED
    BY <2>1, <2>2 DEF AlertInv, KeysAreOld, RowsKeys
<1>5. OnceUnlessWritten'
  <2>1. faults \in Nat /\ faults' = faults /\ attempts \in [Instances -> [Sends -> Nat]]
    BY AlertAssumption DEF AlertInv, TypeOK
  <2>2. \A j \in Instances : Losses(j) \in Nat /\ Losses(j)' \in Nat /\ Losses(j) <= Losses(j)'
    <3> SUFFICES ASSUME NEW j \in Instances
                 PROVE  Losses(j) \in Nat /\ Losses(j)' \in Nat /\ Losses(j) <= Losses(j)'
      OBVIOUS
    <3>1. Deleted \ ticks[j].on \subseteq Deleted' \ ticks'[j].on /\ faults <= faults'
      BY <2>1
    <3> QED
      BY <3>1, LossesGrow DEF AlertInv
  <2> SUFFICES ASSUME NEW j \in Instances, NEW s \in Sends
               PROVE  /\ attempts[j][s] <= 1 + Losses(j)'
                      /\ (s \in ticks[j].todo \/ ~Written(ledger \union ticks[j].rows, s)) =>
                           attempts[j][s] <= Losses(j)'
    BY DEF OnceUnlessWritten
  <2>3. /\ attempts[j][s] <= 1 + Losses(j)
        /\ (s \in ticks[j].todo \/ ~Written(ledger \union ticks[j].rows, s)) =>
             attempts[j][s] <= Losses(j)
    BY DEF AlertInv, OnceUnlessWritten
  <2> QED
    BY <2>1, <2>2, <2>3
<1> QED
  BY <1>1, <1>3, <1>4, <1>5 DEF AlertInv

\* What an administrator does.
LEMMA AdministrateInv == AlertInv /\ Administrate => AlertInv'
<1> SUFFICES ASSUME AlertInv, Administrate PROVE AlertInv'
  OBVIOUS
<1>1. /\ rules \in [Rules -> {"missing", "on", "off"}]
      /\ chosen \in [Rules -> {"none", "on", "off"}]
      /\ request \in [pc : {"idle", "seed", "seeded"}, missing : SUBSET Rules]
      /\ channels \in [Channels -> {"none", "on", "off", "deleted"}]
      /\ edits \in 0..MaxEdits /\ MaxEdits \in Nat
  BY AlertAssumption DEF AlertInv, TypeOK
<1>2. UNCHANGED <<conditions, told, ledger, attempts, ticks, faults>>
  BY DEF Administrate, AskForRules, RequestSeeds, RequestEnds, UpdateRule, SwitchChannel,
         DeleteChannel, Edit, world
<1>3. edits' \in 0..MaxEdits
  BY <1>1 DEF Administrate, AskForRules, RequestSeeds, RequestEnds, UpdateRule, SwitchChannel,
              DeleteChannel, Edit
<1>4. rules' \in [Rules -> {"missing", "on", "off"}] /\ chosen' \in [Rules -> {"none", "on", "off"}]
  BY <1>1 DEF Administrate, AskForRules, RequestSeeds, RequestEnds, UpdateRule, SwitchChannel,
              DeleteChannel, catalog, InsertDefaults
<1>5. request' \in [pc : {"idle", "seed", "seeded"}, missing : SUBSET Rules]
  BY <1>1 DEF Administrate, AskForRules, RequestSeeds, RequestEnds, UpdateRule, SwitchChannel,
              DeleteChannel, catalog, NoRequest, Missing
<1>6. /\ channels' \in [Channels -> {"none", "on", "off", "deleted"}]
      /\ \A c \in Channels : channels[c] = "deleted" => channels'[c] = "deleted"
  BY <1>1 DEF Administrate, AskForRules, RequestSeeds, RequestEnds, UpdateRule, SwitchChannel,
              DeleteChannel
<1>7. TypeOK'
  BY <1>2, <1>3, <1>4, <1>5, <1>6 DEF AlertInv, TypeOK
<1>8. Deleted \subseteq Deleted'
  BY <1>6 DEF Deleted
<1> QED
  BY <1>2, <1>7, <1>8, QuietInv

\* Every step keeps the invariant.
LEMMA NextAlertInv == AlertInv /\ [Next]_vars => AlertInv'
<1> SUFFICES ASSUME AlertInv, [Next]_vars PROVE AlertInv'
  OBVIOUS
<1>1. ASSUME NEW i \in Instances, Tick(i) PROVE AlertInv'
  <2>1. faults \in 0..MaxFaults /\ MaxFaults \in Nat
    BY AlertAssumption DEF AlertInv, TypeOK
  <2>2. CASE StoreFails(i)
    <3>1. /\ ticks' = [ticks EXCEPT ![i] = NoTick] /\ ticks[i].on \cap Deleted # {}
          /\ faults' = faults
          /\ UNCHANGED <<world, admin, ledger, attempts>>
      BY <2>2 DEF StoreFails
    <3>2. faults' \in 0..MaxFaults /\ faults <= faults'
      BY <2>1, <3>1
    <3> QED
      BY <3>1, <3>2, LossInv
  <2>3. CASE TickFails(i)
    <3>1. /\ ticks' = [ticks EXCEPT ![i] = NoTick]
          /\ faults < MaxFaults /\ faults' = faults + 1
          /\ UNCHANGED <<world, admin, ledger, attempts>>
      BY <2>3 DEF TickFails
    <3>2. faults' \in 0..MaxFaults /\ faults <= faults' /\ faults < faults'
      BY <2>1, <3>1
    <3> QED
      BY <3>1, <3>2, LossInv
  <2> QED
    BY <1>1, <2>2, <2>3, BeforeDeliveryInv, DedupeInv, DeliverInv, StoreInv DEF Tick
<1>2. ASSUME NEW x \in Conditions, Break(x) PROVE AlertInv'
  BY <1>2, BreakInv
<1>3. ASSUME NEW x \in Conditions, Recover(x) PROVE AlertInv'
  <2>1. /\ conditions' \in [Conditions -> [broken : BOOLEAN, occurrence : 0..MaxBreaks]]
        /\ \A y \in Conditions : /\ conditions'[y].occurrence = conditions[y].occurrence
                                 /\ conditions'[y].broken => conditions[y].broken
    BY <1>3 DEF Recover, AlertInv, TypeOK
  <2>2. UNCHANGED <<told, rules, chosen, request, channels, edits, ledger, attempts, ticks, faults>>
    BY <1>3 DEF Recover, admin, catalog
  <2>3. TypeOK' /\ Deleted \subseteq Deleted'
    BY <2>1, <2>2 DEF AlertInv, TypeOK, Deleted
  <2> QED
    BY <2>1, <2>2, <2>3, QuietInv
<1>4. CASE Administrate
  BY <1>4, AdministrateInv
<1>5. CASE UNCHANGED vars
  BY <1>5, QuietInv DEF vars, world, admin, catalog, AlertInv, TypeOK, Deleted
<1> QED
  BY <1>1, <1>2, <1>3, <1>4, <1>5 DEF Next

\* The invariant holds in every behaviour.
THEOREM AlertInvariant == Spec => []AlertInv
BY InitAlertInv, NextAlertInv, PTL DEF Spec

\* The variables keep their types.
THEOREM TypeCorrect == Spec => []TypeOK
<1>1. AlertInv => TypeOK
  BY DEF AlertInv
<1> QED
  BY <1>1, AlertInvariant, PTL

\* A process sends an alert to a channel once, and once more for every crash,
\* every failed statement and every deleted channel.
THEOREM AlertsAreBounded == Spec => []SentOncePerProcess
<1>1. AlertInv => SentOncePerProcess
  <2> SUFFICES ASSUME AlertInv, NEW i \in Instances, NEW s \in Sends
               PROVE  attempts[i][s] <= 1 + faults + Cardinality(Deleted)
    BY DEF SentOncePerProcess
  <2>1. attempts[i][s] <= 1 + Losses(i)
    BY DEF AlertInv, OnceUnlessWritten
  <2>3. attempts[i][s] \in Nat /\ faults \in Nat
    <3>1. attempts \in [Instances -> [Sends -> Nat]] /\ faults \in 0..MaxFaults
      BY DEF AlertInv, TypeOK
    <3> QED
      BY <3>1, AlertAssumption
  <2>2. /\ Losses(i) \in Nat /\ Losses(i) <= faults + Cardinality(Deleted)
        /\ Cardinality(Deleted) \in Nat
    BY LossesAreFinite DEF AlertInv
  <2> QED
    BY <2>1, <2>2, <2>3
<1> QED
  BY <1>1, AlertInvariant, PTL

\* What suppresses an occurrence that no channel accepted are failed
\* deliveries of that occurrence.
THEOREM SuppressionIsEarned == Spec => []SuppressedWasTold
<1>1. AlertInv => SuppressedWasTold
  BY DEF AlertInv, RowsAreTrue, TrueOf, SuppressedWasTold, RowsOf
<1> QED
  BY <1>1, AlertInvariant, PTL
-----------------------------------------------------------------------------
(***************************************************************************)
(* The rules.  A row is never deleted, so that a list of missing rules only *)
(* gets longer than what is missing: what is missing when a request inserts *)
(* is on its list.                                                          *)
(***************************************************************************)

ChoiceInv ==
    /\ SeedingKeepsChoices
    /\ request.pc = "seed" => Missing \subseteq request.missing

\* Nobody has chosen or asked for anything when the first process starts.
LEMMA InitChoiceInv == Init => ChoiceInv
BY DEF Init, ChoiceInv, SeedingKeepsChoices, NoRequest

\* Creating defaults touches no row that is there.
LEMMA DefaultsKeepRows ==
    ASSUME TypeOK, NEW absent \in SUBSET Rules, rules' = InsertDefaults(absent)
    PROVE  /\ \A r \in Rules : rules[r] # "missing" => rules'[r] = rules[r]
           /\ Missing' = Missing \ absent
BY DEF InsertDefaults, Missing, TypeOK

\* Every step keeps the invariant.
LEMMA NextChoiceInv == ChoiceInv /\ TypeOK /\ [Next]_vars => ChoiceInv'
<1> SUFFICES ASSUME ChoiceInv, TypeOK, [Next]_vars PROVE ChoiceInv'
  OBVIOUS
<1>1. /\ rules \in [Rules -> {"missing", "on", "off"}]
      /\ chosen \in [Rules -> {"none", "on", "off"}]
      /\ request \in [pc : {"idle", "seed", "seeded"}, missing : SUBSET Rules]
  BY DEF TypeOK
<1>2. CASE UNCHANGED catalog
  BY <1>2 DEF catalog, ChoiceInv, SeedingKeepsChoices, Missing
<1>3. ASSUME NEW absent \in SUBSET Rules, rules' = InsertDefaults(absent),
             UNCHANGED <<chosen, request>>
      PROVE  ChoiceInv'
  BY <1>1, <1>3, DefaultsKeepRows DEF ChoiceInv, SeedingKeepsChoices
<1>4. ASSUME NEW i \in Instances, Tick(i) PROVE ChoiceInv'
  <2>1. CASE SeedRules(i)
    <3>1. ticks[i].missing \in SUBSET Rules
      BY DEF TypeOK, Ticks
    <3> QED
      BY <1>3, <2>1, <3>1 DEF SeedRules
  <2>2. CASE ~SeedRules(i)
    BY <1>2, <1>4, <2>2 DEF Tick, BeginTick, ReadRules, Collect, CollectFails, Dedupe, Deliver,
                            Store, StoreFails, TickFails, admin
  <2> QED
    BY <2>1, <2>2
<1>5. ASSUME NEW x \in Conditions, Break(x) \/ Recover(x) PROVE ChoiceInv'
  BY <1>2, <1>5 DEF Break, Recover, admin
<1>6. CASE AskForRules
  BY <1>1, <1>6 DEF AskForRules, ChoiceInv, SeedingKeepsChoices, Missing
<1>7. CASE RequestSeeds
  <2>1. /\ request.pc = "seed" /\ request.missing \in SUBSET Rules
        /\ rules' = InsertDefaults(request.missing) /\ UNCHANGED chosen
        /\ request'.pc = "seeded"
    BY <1>1, <1>7 DEF RequestSeeds, NoRequest
  <2>2. /\ \A r \in Rules : rules[r] # "missing" => rules'[r] = rules[r]
        /\ Missing' = Missing \ request.missing
    BY <2>1, DefaultsKeepRows
  <2> QED
    BY <1>1, <2>1, <2>2 DEF ChoiceInv, SeedingKeepsChoices
<1>8. ASSUME NEW r \in Rules, UpdateRule(r) PROVE ChoiceInv'
  <2>1. PICK choice \in {"on", "off"} : /\ rules' = [rules EXCEPT ![r] = choice]
                                        /\ chosen' = [chosen EXCEPT ![r] = choice]
    BY <1>8 DEF UpdateRule
  <2>2. request'.pc = "idle"
    BY <1>8 DEF UpdateRule, NoRequest
  <2> QED
    BY <1>1, <2>1, <2>2 DEF ChoiceInv, SeedingKeepsChoices
<1>9. CASE RequestEnds
  BY <1>9 DEF RequestEnds, NoRequest, ChoiceInv, SeedingKeepsChoices
<1>10. ASSUME NEW c \in Channels, SwitchChannel(c) \/ DeleteChannel(c) PROVE ChoiceInv'
  BY <1>2, <1>10 DEF SwitchChannel, DeleteChannel
<1>11. CASE UNCHANGED vars
  BY <1>2, <1>11 DEF vars, admin
<1> QED
  BY <1>4, <1>5, <1>6, <1>7, <1>8, <1>9, <1>10, <1>11 DEF Next, Administrate

\* Seeding from lists of different ages undoes no choice, and a request that
\* has seeded finds every rule.
THEOREM ChoicesAreKept == Spec => []SeedingKeepsChoices
<1>1. ChoiceInv => SeedingKeepsChoices
  BY DEF ChoiceInv
<1> QED
  BY <1>1, InitChoiceInv, NextChoiceInv, TypeCorrect, PTL DEF Spec
=============================================================================
