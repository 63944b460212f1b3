--------------------------- MODULE DevicePosture ---------------------------
(***************************************************************************)
(* What devices report, and what is made of their silence.                 *)
(*                                                                         *)
(*   apps/api/src/modules/devices/service.ts    recordCheckIn and the sweep *)
(*   apps/api/src/modules/devices/scheduler.ts  its timer                  *)
(*                                                                         *)
(* A check-in compares the posture it brings with the one it read before   *)
(* its transaction, and reports a change as evidence after it.  The sweep  *)
(* marks devices that fell silent, and reports that.  Credentials are in   *)
(* DeviceEnrolment: here a check-in is of some device, and is refused when *)
(* the device is revoked.                                                  *)
(***************************************************************************)
EXTENDS Naturals, FiniteSets

CONSTANTS
    Devices,    \* enrolled devices
    CheckIns,   \* check-ins the API may be working on at once
    Postures,   \* states of one evaluated signal
    Unknown,    \* the state of a signal nothing was reported of
    None,       \* no device
    MaxFaults   \* bound on failed statements

ASSUME PostureAssumption ==
    /\ Unknown \in Postures
    /\ None \notin Devices
    /\ MaxFaults \in Nat

VARIABLES
    devices,    \* Device rows
    latest,     \* what the latest evidence says of the signal
    reported,   \* devices whose silence has evidence since they were last marked
    muddled,    \* history: devices that overlapping or unreported check-ins may have
                \* left with a finding that is not the row's
    missed,     \* history: devices that were marked by a sweep that failed before its report
    checkins,   \* check-ins in progress
    sweep,      \* sweepStaleDevices
    faults      \* failed statements so far

findings == <<latest, reported, muddled, missed>>
rows == <<devices, findings>>
vars == <<rows, checkins, sweep, faults>>

-----------------------------------------------------------------------------
(* Types *)

Statuses == {"pending", "active", "stale", "revoked"}
DeviceRows == [status : Statuses, posture : Postures, fresh : BOOLEAN]
CheckInRows == [step : {"free", "compare", "store", "emit"}, device : Devices \union {None},
                posture : Postures, prev : Postures]
Sweeps == [pc : {"idle", "mark", "report"}, left : SUBSET Devices, device : Devices \union {None}]

TypeOK ==
    /\ devices \in [Devices -> DeviceRows]
    /\ latest \in [Devices -> Postures]
    /\ reported \subseteq Devices
    /\ muddled \subseteq Devices
    /\ missed \subseteq Devices
    /\ checkins \in [CheckIns -> CheckInRows]
    /\ sweep \in Sweeps
    /\ faults \in 0..MaxFaults

NewDevice == [status |-> "pending", posture |-> Unknown, fresh |-> FALSE]
NoCheckIn == [step |-> "free", device |-> None, posture |-> Unknown, prev |-> Unknown]
IdleSweep == [pc |-> "idle", left |-> {}, device |-> None]

Init ==
    /\ devices = [d \in Devices |-> NewDevice]
    /\ latest = [d \in Devices |-> Unknown]
    /\ reported = {}
    /\ muddled = {}
    /\ missed = {}
    /\ checkins = [c \in CheckIns |-> NoCheckIn]
    /\ sweep = IdleSweep
    /\ faults = 0

-----------------------------------------------------------------------------
(* Check-ins *)

At(c, step) == checkins[c].step = step
End(c) == checkins' = [checkins EXCEPT ![c] = NoCheckIn]

InProgress(d) == \E c \in CheckIns : checkins[c].device = d

\* What a check-in that begins does to the history of its device: it overlaps
\* another one, or has the device to itself and finds row and finding agreed.
Muddle(d) ==
    IF InProgress(d) THEN muddled \union {d}
    ELSE IF latest[d] = devices[d].posture THEN muddled \ {d}
    ELSE muddled

\* requireDeviceAuth lets a check-in of a device in that is not revoked.
Accept(c, d, p) ==
    /\ At(c, "free")
    /\ devices[d].status # "revoked"
    /\ checkins' = [checkins EXCEPT ![c] =
         [step |-> "compare", device |-> d, posture |-> p, prev |-> Unknown]]
    /\ muddled' = Muddle(d)
    /\ UNCHANGED <<devices, latest, reported, missed, sweep, faults>>

\* recordCheckIn reads the posture to compare with, ...
ReadPosture(c) ==
    /\ At(c, "compare")
    /\ checkins' = [checkins EXCEPT ![c].step = "store",
                                    ![c].prev = devices[checkins[c].device].posture]
    /\ UNCHANGED <<rows, sweep, faults>>

\* Broken: compares with the row after it has stored its own posture.
CompareAfterStore(c) ==
    LET in == checkins[c] IN
    /\ At(c, "store")
    /\ devices' = [devices EXCEPT ![in.device] =
         [status |-> "active", posture |-> in.posture, fresh |-> TRUE]]
    /\ End(c)
    /\ UNCHANGED <<findings, sweep, faults>>

\* ... stores the reported one in a transaction, which makes the device
\* active whatever it was, ...
StorePosture(c) ==
    LET in == checkins[c] IN
    /\ At(c, "store")
    /\ devices' = [devices EXCEPT ![in.device] =
         [status |-> "active", posture |-> in.posture, fresh |-> TRUE]]
    /\ IF in.posture # in.prev
         THEN checkins' = [checkins EXCEPT ![c].step = "emit"]
         ELSE End(c)
    /\ UNCHANGED <<findings, sweep, faults>>

\* ... and creates evidence of a change.
EmitEvidence(c) ==
    /\ At(c, "emit")
    /\ latest' = [latest EXCEPT ![checkins[c].device] = checkins[c].posture]
    /\ End(c)
    /\ UNCHANGED <<devices, reported, muddled, missed, sweep, faults>>

\* A statement fails, or the process ends: the agent gets no 200, and its
\* next check-in compares with what was stored.
CheckInFails(c) ==
    /\ ~At(c, "free")
    /\ faults < MaxFaults
    /\ faults' = faults + 1
    /\ muddled' = IF At(c, "emit") THEN muddled \union {checkins[c].device} ELSE muddled
    /\ End(c)
    /\ UNCHANGED <<devices, latest, reported, missed, sweep>>

\* No check-in for STALE_INTERVAL_FACTOR intervals.
FallSilent(d) ==
    /\ devices[d].fresh
    /\ devices' = [devices EXCEPT ![d].fresh = FALSE]
    /\ UNCHANGED <<findings, checkins, sweep, faults>>

-----------------------------------------------------------------------------
(* The sweep *)

\* Broken: the sweep skips devices nothing is known of.
SweepKnownOnly ==
    LET silent == {d \in Devices : /\ devices[d].status = "active" /\ ~devices[d].fresh
                                   /\ devices[d].posture # Unknown} IN
    /\ sweep.pc = "idle"
    /\ silent # {}
    /\ sweep' = [pc |-> "mark", left |-> silent, device |-> None]
    /\ UNCHANGED <<rows, checkins, faults>>

\* sweepStaleDevices reads the active devices and keeps the silent ones, ...
BeginSweep ==
    LET silent == {d \in Devices : devices[d].status = "active" /\ ~devices[d].fresh} IN
    /\ sweep.pc = "idle"
    /\ silent # {}
    /\ sweep' = [pc |-> "mark", left |-> silent, device |-> None]
    /\ UNCHANGED <<rows, checkins, faults>>

\* Broken: marks a device without reporting it.
MarkQuietly ==
    /\ sweep.pc = "mark"
    /\ \E d \in sweep.left :
         /\ devices' = [devices EXCEPT ![d].status = "stale"]
         /\ reported' = reported \ {d}
         /\ missed' = missed \ {d}
         /\ sweep' = IF sweep.left = {d} THEN IdleSweep ELSE [sweep EXCEPT !.left = @ \ {d}]
    /\ UNCHANGED <<latest, muddled, checkins, faults>>

\* ... marks each of them by id, whatever it is by now, ...
MarkStale ==
    /\ sweep.pc = "mark"
    /\ \E d \in sweep.left :
         /\ devices' = [devices EXCEPT ![d].status = "stale"]
         /\ reported' = reported \ {d}
         /\ missed' = missed \ {d}
         /\ sweep' = [pc |-> "report", left |-> sweep.left \ {d}, device |-> d]
    /\ UNCHANGED <<latest, muddled, checkins, faults>>

\* ... and creates evidence of the silence.
ReportSilence ==
    /\ sweep.pc = "report"
    /\ reported' = reported \union {sweep.device}
    /\ sweep' = IF sweep.left = {} THEN IdleSweep ELSE [sweep EXCEPT !.pc = "mark", !.device = None]
    /\ UNCHANGED <<devices, latest, muddled, missed, checkins, faults>>

\* A statement of the sweep fails: the devices it has not marked are left to
\* the next sweep.
SweepFails ==
    /\ sweep.pc # "idle"
    /\ faults < MaxFaults
    /\ faults' = faults + 1
    /\ missed' = IF sweep.pc = "report" THEN missed \union {sweep.device} ELSE missed
    /\ sweep' = IdleSweep
    /\ UNCHANGED <<devices, latest, reported, muddled, checkins>>

-----------------------------------------------------------------------------
(* Users *)

\* A device is revoked, or its person offboarded.
Revoke(d) ==
    /\ devices' = [devices EXCEPT ![d].status = "revoked"]
    /\ UNCHANGED <<findings, checkins, sweep, faults>>

\* enrollDevice makes a known device pending again.
Reenrol(d) ==
    /\ devices' = [devices EXCEPT ![d].status = "pending"]
    /\ UNCHANGED <<findings, checkins, sweep, faults>>

-----------------------------------------------------------------------------
(* The specification *)

Serve(c) == ReadPosture(c) \/ StorePosture(c) \/ EmitEvidence(c) \/ CheckInFails(c)

Sweep == BeginSweep \/ MarkStale \/ ReportSilence \/ SweepFails

Next ==
    \/ \E c \in CheckIns : Serve(c) \/ \E d \in Devices, p \in Postures : Accept(c, d, p)
    \/ \E d \in Devices : FallSilent(d) \/ Revoke(d) \/ Reenrol(d)
    \/ Sweep

Spec == Init /\ [][Next]_vars

\* The sweep is a timer of the API and statements return.  Agents, users,
\* silence and failures are not fair.
FairSpec == Spec /\ WF_vars(Sweep) /\ \A c \in CheckIns : WF_vars(Serve(c))

-----------------------------------------------------------------------------
(* Properties *)

\* A check-in that is about to report a posture of d.
Reporting(d, p) ==
    \E c \in CheckIns : At(c, "emit") /\ checkins[c].device = d /\ checkins[c].posture = p

\* The latest finding of a device is the posture on its row, or a check-in is
\* about to make it so.  Only two things part them: check-ins of one device
\* that overlap, and a report that is lost after the row was written; what
\* they parted stays so until a check-in reports a change, and then agrees
\* again.  Neither other devices, a sweep, an enrolment nor a failure before
\* the row does (service.ts:438-541).
LatestFindingAgrees ==
    \A d \in Devices \ muddled :
        latest[d] = devices[d].posture \/ Reporting(d, devices[d].posture)

\* Every time a device is marked stale its silence is reported, or is about
\* to be, however often it fell silent before, unless the sweep failed right
\* after it marked this device (service.ts:648-670).
SilenceIsEvidenced ==
    \A d \in Devices \ missed :
        devices[d].status = "stale" =>
            d \in reported \/ (sweep.pc = "report" /\ sweep.device = d)

\* An active device that falls silent does not stay active: the sweep marks
\* it, unless it reports again, is revoked or enrols again.
SilentDevicesGoStale ==
    \A d \in Devices :
        (devices[d].status = "active" /\ ~devices[d].fresh)
            ~> (devices[d].status # "active" \/ devices[d].fresh)

-----------------------------------------------------------------------------
(* Properties that do not hold *)

\* When no statement failed and no check-in is in progress, the latest
\* evidence of a device is what its row says: "a fresh fail is a finding; a
\* fresh pass is positive proof" (service.ts:428-433).  Of two overlapping
\* check-ins each compares with what neither of them brought.
LatestEvidenceAgrees ==
    faults = 0 => \A d \in Devices : ~InProgress(d) => latest[d] = devices[d].posture

\* A revoked device is made anything else by enrolling only.  A sweep, or a
\* check-in that was let in before, writes its status by id.
RevokedStaysRevoked ==
    [][\A d \in Devices :
        (devices[d].status = "revoked" /\ devices'[d].status # "revoked")
            => devices'[d].status = "pending"]_vars

=============================================================================
