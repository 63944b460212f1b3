------------------------ MODULE DevicePostureProofs ------------------------
(***************************************************************************)
(* Proofs about DevicePosture, for every set of devices, check-ins and     *)
(* postures and every bound on the failures.                               *)
(*                                                                         *)
(* That the latest finding is the row's posture is not inductive: a        *)
(* check-in that brings what it read stores it without reporting.  What is *)
(* needed is that a device that is not muddled has at most one check-in in *)
(* progress, and that this one compares with the row it will overwrite.    *)
(***************************************************************************)
EXTENDS DevicePosture, TLAPS

OneCheckIn(d) ==
    \A b, c \in CheckIns : checkins[b].device = d /\ checkins[c].device = d => b = c

\* Row and finding agree, and nothing is about to be reported ...
Agreed(d) ==
    /\ latest[d] = devices[d].posture
    /\ \A c \in CheckIns : checkins[c].device = d =>
         /\ ~At(c, "emit")
         /\ At(c, "store") => checkins[c].prev = devices[d].posture

\* ... unless the row's posture is.
Settled(d) == OneCheckIn(d) /\ (Agreed(d) \/ Reporting(d, devices[d].posture))

\* A check-in in progress is of a device, and so is a silence to report.
DevicesNamed ==
    /\ \A c \in CheckIns : At(c, "free") <=> checkins[c].device \notin Devices
    /\ sweep.pc = "report" => sweep.device \in Devices

PostureInv ==
    /\ TypeOK
    /\ DevicesNamed
    /\ SilenceIsEvidenced
    /\ \A d \in Devices \ muddled : Settled(d)
-----------------------------------------------------------------------------
\* Nothing is known, reported or stale when devices are new.
LEMMA InitPostureInv == Init => PostureInv
<1> SUFFICES ASSUME Init PROVE PostureInv
  OBVIOUS
<1>1. \A c \in CheckIns : checkins[c].step = "free" /\ checkins[c].device = None
  BY DEF Init, NoCheckIn
<1>2. TypeOK
  BY PostureAssumption
     DEF Init, NewDevice, NoCheckIn, IdleSweep, TypeOK, Statuses, DeviceRows, CheckInRows, Sweeps
<1>3. DevicesNamed /\ SilenceIsEvidenced
  BY <1>1, PostureAssumption DEF Init, NewDevice, IdleSweep, DevicesNamed, SilenceIsEvidenced, At
<1>4. \A d \in Devices : Settled(d)
  BY <1>1, PostureAssumption DEF Init, NewDevice, Settled, OneCheckIn, Agreed, At
<1> QED
  BY <1>2, <1>3, <1>4 DEF PostureInv

\* A device is settled as long as its row, its finding and its check-ins are
\* left alone.
LEMMA OthersSettled ==
    ASSUME NEW d \in Devices, Settled(d),
           latest'[d] = latest[d], devices'[d].posture = devices[d].posture,
           \A c \in CheckIns : (checkins[c].device = d \/ checkins'[c].device = d) =>
                                 checkins'[c] = checkins[c]
    PROVE  Settled(d)'
<1>1. OneCheckIn(d)'
  BY DEF Settled, OneCheckIn
<1>2. Agreed(d) => Agreed(d)'
  BY DEF Agreed, At
<1>3. Reporting(d, devices[d].posture) => Reporting(d, devices[d].posture)'
  BY DEF Reporting, At
<1> QED
  BY <1>1, <1>2, <1>3 DEF Settled

\* A step that leaves postures, findings and check-ins alone.
LEMMA QuietInv ==
    ASSUME PostureInv, TypeOK', UNCHANGED <<latest, muddled, checkins>>,
           \A d \in Devices : devices'[d].posture = devices[d].posture,
           SilenceIsEvidenced', sweep'.pc = "report" => sweep'.device \in Devices
    PROVE  PostureInv'
<1>1. DevicesNamed'
  BY DEF PostureInv, DevicesNamed, At
<1>2. \A d \in Devices \ muddled' : Settled(d)'
  BY OthersSettled DEF PostureInv
<1> QED
  BY <1>1, <1>2 DEF PostureInv

\* A step of one check-in settles or muddles its device and leaves the others
\* as they were.
LEMMA CheckInStep ==
    ASSUME PostureInv, NEW c \in CheckIns, NEW d \in Devices, NEW row \in CheckInRows,
           checkins' = [checkins EXCEPT ![c] = row],
           checkins[c].device \in {d, None},
           \/ row.step = "free" /\ row.device = None
           \/ row.step # "free" /\ row.device = d,
           devices' \in [Devices -> DeviceRows], latest' \in [Devices -> Postures],
           \A e \in Devices \ {d} : devices'[e] = devices[e] /\ latest'[e] = latest[e],
           \A e \in Devices : devices'[e].status = "stale" => devices[e].status = "stale",
           muddled' \subseteq Devices, muddled \ {d} \subseteq muddled',
           UNCHANGED <<reported, missed, sweep>>, faults' \in 0..MaxFaults,
           d \notin muddled' => Settled(d)'
    PROVE  PostureInv'
<1>1. checkins \in [CheckIns -> CheckInRows]
  BY DEF PostureInv, TypeOK
<1>2. TypeOK'
  BY <1>1 DEF PostureInv, TypeOK
<1>3. DevicesNamed'
  BY <1>1, PostureAssumption DEF PostureInv, DevicesNamed, At
<1>4. SilenceIsEvidenced'
  BY DEF PostureInv, SilenceIsEvidenced
<1>5. ASSUME NEW e \in Devices \ muddled', e # d PROVE Settled(e)'
  <2>1. Settled(e) /\ devices'[e] = devices[e] /\ latest'[e] = latest[e] /\ e # None
    BY <1>5, PostureAssumption DEF PostureInv
  <2>2. \A b \in CheckIns : (checkins[b].device = e \/ checkins'[b].device = e) =>
                              checkins'[b] = checkins[b]
    BY <1>1, <1>5, <2>1
  <2> QED
    BY <2>1, <2>2, OthersSettled
<1>6. \A e \in Devices \ muddled' : Settled(e)'
  BY <1>5
<1> QED
  BY <1>2, <1>3, <1>4, <1>6 DEF PostureInv

\* What a check-in in progress is of.
LEMMA CheckInIsOf ==
    ASSUME PostureInv, NEW c \in CheckIns, ~At(c, "free")
    PROVE  /\ checkins[c].device \in Devices
           /\ checkins[c] \in CheckInRows /\ checkins \in [CheckIns -> CheckInRows]
           /\ checkins[c].posture \in Postures
           /\ devices[checkins[c].device].posture \in Postures
BY DEF PostureInv, TypeOK, DevicesNamed, CheckInRows, DeviceRows

\* A check-in that is let in has its device to itself or muddles it.
LEMMA AcceptInv ==
    ASSUME NEW c \in CheckIns, NEW d \in Devices, NEW p \in Postures, PostureInv, Accept(c, d, p)
    PROVE  PostureInv'
<1> DEFINE row == [step |-> "compare", device |-> d, posture |-> p, prev |-> Unknown]
<1>1. row \in CheckInRows /\ row.step = "compare" /\ row.device = d
  BY PostureAssumption DEF CheckInRows
<1>2. /\ checkins' = [checkins EXCEPT ![c] = row]
      /\ UNCHANGED <<devices, latest, reported, missed, sweep, faults>>
  BY DEF Accept, rows, findings
<1>3. /\ checkins \in [CheckIns -> CheckInRows] /\ devices \in [Devices -> DeviceRows]
      /\ latest \in [Devices -> Postures] /\ muddled \subseteq Devices /\ faults \in 0..MaxFaults
      /\ checkins[c].device \in {d, None}
  BY DEF PostureInv, TypeOK, CheckInRows, DevicesNamed, Accept, At
<1>4. muddled' \subseteq Devices /\ muddled \ {d} \subseteq muddled'
  BY <1>3 DEF Accept, Muddle
<1> HIDE DEF row
<1>5. d \notin muddled' => Settled(d)'
  <2> SUFFICES ASSUME d \notin muddled' PROVE Settled(d)'
    OBVIOUS
  <2>1. ~InProgress(d) /\ (latest[d] = devices[d].posture \/ d \notin muddled)
    BY DEF Accept, Muddle
  <2>2. \A b \in CheckIns : checkins[b].device # d
    BY <2>1 DEF InProgress
  <2>3. latest[d] = devices[d].posture
    BY <2>1, <2>2 DEF PostureInv, Settled, Agreed, Reporting
  <2>4. \A b \in CheckIns : checkins'[b].device = d => b = c
    BY <1>2, <1>3, <2>2
  <2>5. OneCheckIn(d)' /\ Agreed(d)'
    BY <1>1, <1>2, <1>3, <2>3, <2>4 DEF OneCheckIn, Agreed, At
  <2> QED
    BY <2>5 DEF Settled
<1> QED
  BY <1>1, <1>2, <1>3, <1>4, <1>5, CheckInStep

\* What the only check-in of a device reads is what it will overwrite.
LEMMA ReadPostureInv ==
    ASSUME NEW c \in CheckIns, PostureInv, ReadPosture(c)
    PROVE  PostureInv'
<1> DEFINE in == checkins[c]
<1>0. PICK d \in Devices : d = in.device
  BY CheckInIsOf DEF ReadPosture, At
<1>1. /\ d \in Devices /\ d = in.device /\ in \in CheckInRows /\ checkins \in [CheckIns -> CheckInRows]
      /\ devices[d].posture \in Postures
  BY <1>0, CheckInIsOf DEF ReadPosture, At
<1>2. PICK row \in CheckInRows :
        /\ checkins' = [checkins EXCEPT ![c] = row]
        /\ row.step = "store" /\ row.device = d /\ row.prev = devices[d].posture
  <2> DEFINE new == [in EXCEPT !.step = "store", !.prev = devices[d].posture]
  <2>1. new \in CheckInRows /\ new.step = "store" /\ new.device = d
        /\ new.prev = devices[d].posture
    BY <1>1 DEF CheckInRows
  <2>2. checkins' = [checkins EXCEPT ![c] = new]
    BY <1>1 DEF ReadPosture
  <2> QED
    BY <2>1, <2>2
<1>3. UNCHANGED <<devices, latest, reported, muddled, missed, sweep, faults>>
  BY DEF ReadPosture, rows, findings
<1>4. /\ devices \in [Devices -> DeviceRows] /\ latest \in [Devices -> Postures]
      /\ muddled \subseteq Devices /\ faults \in 0..MaxFaults
  BY DEF PostureInv, TypeOK
<1>5. d \notin muddled' => Settled(d)'
  <2> SUFFICES ASSUME d \notin muddled PROVE Settled(d)'
    BY <1>3
  <2>1. Settled(d) /\ OneCheckIn(d)
    BY <1>1 DEF PostureInv, Settled
  <2>2. \A b \in CheckIns : checkins[b].device = d => b = c
    BY <1>1, <2>1 DEF OneCheckIn
  <2>3. Agreed(d)
    BY <2>1, <2>2 DEF Settled, Reporting, ReadPosture, At
  <2>4. \A b \in CheckIns : checkins'[b].device = d => b = c
    BY <1>1, <1>2, <2>2
  <2>5. OneCheckIn(d)' /\ Agreed(d)'
    BY <1>1, <1>2, <1>3, <2>3, <2>4 DEF OneCheckIn, Agreed, At
  <2> QED
    BY <2>5 DEF Settled
<1> QED
  BY <1>1, <1>2, <1>3, <1>4, <1>5, CheckInStep

\* A posture that is stored is reported next, or is the one that was there.
LEMMA StorePostureInv ==
    ASSUME NEW c \in CheckIns, PostureInv, StorePosture(c)
    PROVE  PostureInv'
<1> DEFINE in == checkins[c]
           new == [status |-> "active", posture |-> in.posture, fresh |-> TRUE]
<1>0. PICK d \in Devices : d = in.device
  BY CheckInIsOf DEF StorePosture, At
<1>1. /\ d \in Devices /\ d = in.device /\ in \in CheckInRows /\ checkins \in [CheckIns -> CheckInRows]
      /\ in.posture \in Postures /\ At(c, "store")
  BY <1>0, CheckInIsOf DEF StorePosture, At
<1>2. /\ devices' = [devices EXCEPT ![d] = new]
      /\ UNCHANGED <<latest, reported, muddled, missed, sweep, faults>>
  BY <1>1 DEF StorePosture, findings
<1>3. new \in DeviceRows /\ new.posture = in.posture /\ new.status = "active"
  BY <1>1 DEF DeviceRows, Statuses
<1>4. PICK row \in CheckInRows :
        /\ checkins' = [checkins EXCEPT ![c] = row]
        /\ in.posture = in.prev => row.step = "free" /\ row.device = None
        /\ in.posture # in.prev =>
             row.step = "emit" /\ row.device = d /\ row.posture = in.posture
  <2>1. [in EXCEPT !.step = "emit"] \in CheckInRows /\ NoCheckIn \in CheckInRows
    BY <1>1, PostureAssumption DEF CheckInRows, NoCheckIn
  <2>2. /\ [in EXCEPT !.step = "emit"].device = d
        /\ [in EXCEPT !.step = "emit"].posture = in.posture
        /\ [in EXCEPT !.step = "emit"].step = "emit"
        /\ NoCheckIn.step = "free" /\ NoCheckIn.device = None
    BY <1>1 DEF CheckInRows, NoCheckIn
  <2>3. CASE in.posture # in.prev
    BY <1>1, <2>1, <2>2, <2>3 DEF StorePosture
  <2>4. CASE in.posture = in.prev
    BY <1>1, <2>1, <2>2, <2>4 DEF StorePosture, End
  <2> QED
    BY <2>3, <2>4
<1> HIDE DEF new
<1>5. /\ devices \in [Devices -> DeviceRows] /\ latest \in [Devices -> Postures]
      /\ muddled \subseteq Devices /\ faults \in 0..MaxFaults
  BY DEF PostureInv, TypeOK
<1>6. /\ devices' \in [Devices -> DeviceRows] /\ devices'[d] = new
      /\ \A e \in Devices \ {d} : devices'[e] = devices[e]
  BY <1>1, <1>2, <1>3, <1>5
<1>7. d \notin muddled' => Settled(d)'
  <2> SUFFICES ASSUME d \notin muddled PROVE Settled(d)'
    BY <1>2
  <2>1. Settled(d) /\ OneCheckIn(d)
    BY <1>1 DEF PostureInv, Settled
  <2>2. \A b \in CheckIns : checkins[b].device = d => b = c
    BY <1>1, <2>1 DEF OneCheckIn
  <2>3. Agreed(d)
    BY <1>1, <2>1, <2>2 DEF Settled, Reporting, At
  <2>4. latest[d] = devices[d].posture /\ in.prev = devices[d].posture
    BY <1>1, <2>3 DEF Agreed
  <2>5. \A b \in CheckIns : checkins'[b].device = d => b = c
    BY <1>1, <1>4, <2>2
  <2>6. OneCheckIn(d)'
    BY <2>5 DEF OneCheckIn
  <2>7. CASE in.posture = in.prev
    <3>1. \A b \in CheckIns : checkins'[b].device # d
      BY <1>1, <1>4, <2>5, <2>7, PostureAssumption
    <3>2. Agreed(d)'
      BY <1>2, <1>3, <1>6, <2>4, <2>7, <3>1 DEF Agreed
    <3> QED
      BY <2>6, <3>2 DEF Settled
  <2>8. CASE in.posture # in.prev
    <3>1. Reporting(d, devices[d].posture)'
      BY <1>1, <1>3, <1>4, <1>6, <2>8 DEF Reporting, At
    <3> QED
      BY <2>6, <3>1 DEF Settled
  <2> QED
    BY <2>7, <2>8
<1>8. \/ row.step = "free" /\ row.device = None
      \/ row.step # "free" /\ row.device = d
  BY <1>4
<1>9. \A e \in Devices : devices'[e].status = "stale" => devices[e].status = "stale"
  BY <1>3, <1>6
<1>10. \A e \in Devices \ {d} : devices'[e] = devices[e] /\ latest'[e] = latest[e]
  BY <1>2, <1>6
<1> QED
  BY <1>1, <1>2, <1>4, <1>5, <1>6, <1>7, <1>8, <1>9, <1>10, CheckInStep

\* The report of the only check-in of a device is of its row.
LEMMA EmitEvidenceInv ==
    ASSUME NEW c \in CheckIns, PostureInv, EmitEvidence(c)
    PROVE  PostureInv'
<1> DEFINE in == checkins[c]
<1>0. PICK d \in Devices : d = in.device
  BY CheckInIsOf DEF EmitEvidence, At
<1>1. /\ d \in Devices /\ d = in.device /\ in \in CheckInRows /\ checkins \in [CheckIns -> CheckInRows]
      /\ in.posture \in Postures /\ At(c, "emit")
  BY <1>0, CheckInIsOf DEF EmitEvidence, At
<1>2. /\ checkins' = [checkins EXCEPT ![c] = NoCheckIn]
      /\ latest' = [latest EXCEPT ![d] = in.posture]
      /\ UNCHANGED <<devices, reported, muddled, missed, sweep, faults>>
  BY <1>1 DEF EmitEvidence, End
<1>3. NoCheckIn \in CheckInRows /\ NoCheckIn.step = "free" /\ NoCheckIn.device = None
  BY PostureAssumption DEF CheckInRows, NoCheckIn
<1>4. /\ devices \in [Devices -> DeviceRows] /\ latest \in [Devices -> Postures]
      /\ muddled \subseteq Devices /\ faults \in 0..MaxFaults
  BY DEF PostureInv, TypeOK
<1>5. /\ latest' \in [Devices -> Postures] /\ latest'[d] = in.posture
      /\ \A e \in Devices \ {d} : latest'[e] = latest[e]
  BY <1>1, <1>2, <1>4
<1>6. d \notin muddled' => Settled(d)'
  <2> SUFFICES ASSUME d \notin muddled PROVE Settled(d)'
    BY <1>2
  <2>1. Settled(d) /\ OneCheckIn(d)
    BY <1>1 DEF PostureInv, Settled
  <2>2. \A b \in CheckIns : checkins[b].device = d => b = c
    BY <1>1, <2>1 DEF OneCheckIn
  <2>3. in.posture = devices[d].posture
    BY <1>1, <2>1, <2>2 DEF Settled, Agreed, Reporting
  <2>4. \A b \in CheckIns : checkins'[b].device # d
    BY <1>1, <1>2, <1>3, <2>2, PostureAssumption
  <2>5. OneCheckIn(d)' /\ Agreed(d)'
    BY <1>2, <1>5, <2>3, <2>4 DEF OneCheckIn, Agreed
  <2> QED
    BY <2>5 DEF Settled
<1> QED
  BY <1>1, <1>2, <1>3, <1>4, <1>5, <1>6, CheckInStep

\* A check-in that fails before its report leaves row and finding as they
\* were; one that fails then muddles its device.
LEMMA CheckInFailsInv ==
    ASSUME NEW c \in CheckIns, PostureInv, CheckInFails(c)
    PROVE  PostureInv'
<1>0. PICK d \in Devices : d = checkins[c].device
  BY CheckInIsOf DEF CheckInFails
<1>1. d \in Devices /\ d = checkins[c].device /\ checkins \in [CheckIns -> CheckInRows] /\ ~At(c, "free")
  BY <1>0, CheckInIsOf DEF CheckInFails
<1>2. /\ checkins' = [checkins EXCEPT ![c] = NoCheckIn]
      /\ UNCHANGED <<devices, latest, reported, missed, sweep>>
  BY DEF CheckInFails, End
<1>3. NoCheckIn \in CheckInRows /\ NoCheckIn.step = "free" /\ NoCheckIn.device = None
  BY PostureAssumption DEF CheckInRows, NoCheckIn
<1>4. /\ devices \in [Devices -> DeviceRows] /\ latest \in [Devices -> Postures]
      /\ muddled' \subseteq Devices /\ muddled \ {d} \subseteq muddled'
      /\ faults' \in 0..MaxFaults
  <2>1. faults \in 0..MaxFaults /\ MaxFaults \in Nat /\ muddled \subseteq Devices
    BY PostureAssumption DEF PostureInv, TypeOK
  <2>2. muddled' \subseteq Devices /\ muddled \ {d} \subseteq muddled'
    BY <1>1, <2>1 DEF CheckInFails
  <2> QED
    BY <2>1, <2>2 DEF CheckInFails, PostureInv, TypeOK
<1>5. d \notin muddled' => Settled(d)'
  <2> SUFFICES ASSUME d \notin muddled' PROVE Settled(d)'
    OBVIOUS
  <2>1. ~At(c, "emit") /\ d \notin muddled
    BY <1>1 DEF CheckInFails
  <2>2. Settled(d) /\ OneCheckIn(d)
    BY <1>1, <2>1 DEF PostureInv, Settled
  <2>3. \A b \in CheckIns : checkins[b].device = d => b = c
    BY <1>1, <2>2 DEF OneCheckIn
  <2>4. latest[d] = devices[d].posture
    BY <2>1, <2>2, <2>3 DEF Settled, Agreed, Reporting
  <2>5. \A b \in CheckIns : checkins'[b].device # d
    BY <1>1, <1>2, <1>3, <2>3, PostureAssumption
  <2>6. OneCheckIn(d)' /\ Agreed(d)'
    BY <1>2, <2>4, <2>5 DEF OneCheckIn, Agreed
  <2> QED
    BY <2>6 DEF Settled
<1> QED
  BY <1>1, <1>2, <1>3, <1>4, <1>5, CheckInStep

\* The silence of a device that is marked is reported next.
LEMMA SweepInv == PostureInv /\ Sweep => PostureInv'
<1> SUFFICES ASSUME PostureInv, Sweep PROVE PostureInv'
  OBVIOUS
<1>1. /\ sweep \in Sweeps /\ devices \in [Devices -> DeviceRows] /\ IdleSweep \in Sweeps
      /\ reported \subseteq Devices /\ missed \subseteq Devices
      /\ faults \in 0..MaxFaults /\ MaxFaults \in Nat
  BY PostureAssumption DEF PostureInv, TypeOK, Sweeps, IdleSweep
<1>2. CASE BeginSweep
  <2>1. sweep' \in Sweeps /\ sweep'.pc = "mark"
    BY <1>2 DEF BeginSweep, Sweeps
  <2>2. UNCHANGED <<devices, latest, reported, muddled, missed, checkins, faults>> /\ sweep.pc = "idle"
    BY <1>2 DEF BeginSweep, rows, findings
  <2>3. TypeOK' /\ SilenceIsEvidenced'
    BY <2>1, <2>2 DEF PostureInv, TypeOK, SilenceIsEvidenced
  <2> QED
    BY <2>1, <2>2, <2>3, QuietInv
<1>3. CASE MarkStale
  <2>1. PICK d \in Devices :
          /\ devices' = [devices EXCEPT ![d].status = "stale"]
          /\ reported' = reported \ {d} /\ missed' = missed \ {d}
          /\ sweep' = [pc |-> "report", left |-> sweep.left \ {d}, device |-> d]
    BY <1>1, <1>3 DEF MarkStale, Sweeps
  <2>2. sweep' \in Sweeps /\ sweep'.pc = "report" /\ sweep'.device = d
    BY <1>1, <2>1 DEF Sweeps
  <2>3. /\ devices' \in [Devices -> DeviceRows]
        /\ \A e \in Devices : devices'[e].posture = devices[e].posture
        /\ \A e \in Devices \ {d} : devices'[e].status = devices[e].status
    BY <1>1, <2>1 DEF DeviceRows, Statuses
  <2>4. UNCHANGED <<latest, muddled, checkins, faults>> /\ sweep.pc = "mark"
    BY <1>3 DEF MarkStale
  <2>5. TypeOK' /\ SilenceIsEvidenced'
    BY <1>1, <2>1, <2>2, <2>3, <2>4 DEF PostureInv, TypeOK, SilenceIsEvidenced
  <2> QED
    BY <2>2, <2>3, <2>4, <2>5, QuietInv
<1>4. CASE ReportSilence
  <2>1. sweep.device \in Devices /\ sweep.pc = "report"
    BY <1>4 DEF ReportSilence, PostureInv, DevicesNamed
  <2>2. sweep' \in Sweeps /\ sweep'.pc # "report"
    BY <1>1, <1>4 DEF ReportSilence, Sweeps, IdleSweep
  <2>3. /\ reported' = reported \union {sweep.device}
        /\ UNCHANGED <<devices, latest, muddled, missed, checkins, faults>>
    BY <1>4 DEF ReportSilence
  <2>4. TypeOK' /\ SilenceIsEvidenced'
    BY <1>1, <2>1, <2>2, <2>3 DEF PostureInv, TypeOK, SilenceIsEvidenced
  <2> QED
    BY <2>2, <2>3, <2>4, QuietInv
<1>5. CASE SweepFails
  <2>1. /\ sweep' = IdleSweep /\ IdleSweep.pc = "idle"
        /\ missed' = IF sweep.pc = "report" THEN missed \union {sweep.device} ELSE missed
        /\ UNCHANGED <<devices, latest, reported, muddled, checkins>>
        /\ faults' \in 0..MaxFaults
    BY <1>1, <1>5 DEF SweepFails, IdleSweep
  <2>2. sweep.pc = "report" => sweep.device \in Devices
    BY DEF PostureInv, DevicesNamed
  <2>3. missed' \subseteq Devices
    BY <1>1, <2>1, <2>2
  <2>4. TypeOK' /\ SilenceIsEvidenced'
    BY <1>1, <2>1, <2>3 DEF PostureInv, TypeOK, SilenceIsEvidenced
  <2> QED
    BY <2>1, <2>4, QuietInv
<1> QED
  BY <1>2, <1>3, <1>4, <1>5 DEF Sweep

\* Silence, revocation and enrolment write one column.
LEMMA UsersInv ==
    ASSUME NEW d \in Devices, PostureInv, FallSilent(d) \/ Revoke(d) \/ Reenrol(d)
    PROVE  PostureInv'
<1>1. /\ devices \in [Devices -> DeviceRows]
      /\ UNCHANGED <<latest, reported, muddled, missed, checkins, sweep, faults>>
  BY DEF PostureInv, TypeOK, FallSilent, Revoke, Reenrol, findings
<1>2. /\ devices' \in [Devices -> DeviceRows]
      /\ \A e \in Devices : /\ devices'[e].posture = devices[e].posture
                            /\ devices'[e].status = "stale" => devices[e].status = "stale"
  <2>1. CASE FallSilent(d)
    BY <1>1, <2>1 DEF FallSilent, DeviceRows
  <2>2. CASE Revoke(d)
    BY <1>1, <2>2 DEF Revoke, DeviceRows, Statuses
  <2>3. CASE Reenrol(d)
    BY <1>1, <2>3 DEF Reenrol, DeviceRows, Statuses
  <2> QED
    BY <2>1, <2>2, <2>3
<1>3. TypeOK' /\ SilenceIsEvidenced'
  BY <1>1, <1>2 DEF PostureInv, TypeOK, SilenceIsEvidenced
<1> QED
  BY <1>1, <1>2, <1>3, QuietInv DEF PostureInv, DevicesNamed

\* Every step keeps the invariant.
LEMMA NextPostureInv == PostureInv /\ [Next]_vars => PostureInv'
<1> SUFFICES ASSUME PostureInv, [Next]_vars PROVE PostureInv'
  OBVIOUS
<1>1. ASSUME NEW c \in CheckIns, Serve(c) PROVE PostureInv'
  BY <1>1, ReadPostureInv, StorePostureInv, EmitEvidenceInv, CheckInFailsInv DEF Serve
<1>2. ASSUME NEW c \in CheckIns, NEW d \in Devices, NEW p \in Postures, Accept(c, d, p)
      PROVE  PostureInv'
  BY <1>2, AcceptInv
<1>3. ASSUME NEW d \in Devices, FallSilent(d) \/ Revoke(d) \/ Reenrol(d) PROVE PostureInv'
  BY <1>3, UsersInv
<1>4. CASE Sweep
  BY <1>4, SweepInv
<1>5. CASE UNCHANGED vars
  <2>1. UNCHANGED <<devices, latest, reported, muddled, missed, checkins, sweep, faults>>
    BY <1>5 DEF vars, rows, findings
  <2>2. TypeOK' /\ SilenceIsEvidenced'
    BY <2>1 DEF PostureInv, TypeOK, SilenceIsEvidenced
  <2> QED
    BY <2>1, <2>2, QuietInv DEF PostureInv, DevicesNamed
<1> QED
  BY <1>1, <1>2, <1>3, <1>4, <1>5 DEF Next

\* The invariant holds in every behaviour.
THEOREM PostureInvariant == Spec => []PostureInv
BY InitPostureInv, NextPostureInv, PTL DEF Spec

\* The variables keep their types.
THEOREM TypeCorrect == Spec => []TypeOK
<1>1. PostureInv => TypeOK
  BY DEF PostureInv
<1> QED
  BY <1>1, PostureInvariant, PTL

\* Unless check-ins of a device overlapped or a report of it was lost, its
\* latest finding is the posture on its row, or is about to be.
THEOREM FindingsAgree == Spec => []LatestFindingAgrees
<1>1. PostureInv => LatestFindingAgrees
  BY DEF PostureInv, Settled, Agreed, LatestFindingAgrees
<1> QED
  BY <1>1, PostureInvariant, PTL

\* Every silence of a device that is marked stale is reported, or is about to
\* be, unless the sweep failed between the two.
THEOREM SilenceIsReported == Spec => []SilenceIsEvidenced
<1>1. PostureInv => SilenceIsEvidenced
  BY DEF PostureInv
<1> QED
  BY <1>1, PostureInvariant, PTL
=============================================================================
