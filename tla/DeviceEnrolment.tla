-------------------------- MODULE DeviceEnrolment --------------------------
(***************************************************************************)
(* How a computer gets, uses and loses the credential of a device.         *)
(*                                                                         *)
(*   apps/api/src/modules/devices/   tokens, enrolment, rotation, routes   *)
(*   apps/api/src/lib/device-auth.ts authentication of a check-in          *)
(*   apps/device-agent/              the agent on an employee's computer   *)
(*                                                                         *)
(* A machine has a credential file and two programs that use it: the       *)
(* heartbeat loop (`agent.Run`), which keeps the credential it started     *)
(* with in memory, and the sign-in (`agent.Login`).  Each of their calls   *)
(* is a request at the API, which goes on when its caller has given up.    *)
(* A secret is named by its device and its key id, because the row's       *)
(* secret and key id change in one statement.  What a check-in reports,    *)
(* and the status `stale`, which is authenticated like `active`, are in    *)
(* DevicePosture.                                                          *)
(***************************************************************************)
EXTENDS Naturals, FiniteSets

CONSTANTS
    Machines,   \* computers, i.e. hardware ids
    Devices,    \* ids of device rows
    Requests,   \* requests the API may be working on at once
    None,       \* no device, no machine
    MaxUses,    \* uses of the one enrolment token
    MaxKey,     \* bound on secretKeyId
    MaxFaults   \* bound on timeouts and failed statements

ASSUME EnrolmentAssumption ==
    /\ MaxUses \in Nat \ {0}
    /\ MaxKey \in Nat \ {0}
    /\ MaxFaults \in Nat
    /\ IsFiniteSet(Requests)
    /\ None \notin Devices
    /\ None \notin Machines

VARIABLES
    devices,    \* Device rows
    token,      \* the DeviceEnrollmentToken row
    grants,     \* enrolments that were let in with the token
    file,       \* the credential file of a machine
    loop,       \* the heartbeat loop of a machine
    login,      \* whether the sign-in of a machine waits for its enrolment
    requests,   \* what the API works on
    faults      \* faults so far

rows == <<devices, token, grants>>
agents == <<file, loop, login>>
vars == <<rows, agents, requests, faults>>

-----------------------------------------------------------------------------
(* Types *)

Statuses == {"absent", "pending", "active", "revoked"}
Credentials == [device : Devices, key : 1..MaxKey]
NoCredential == [device |-> None, key |-> 0]
Stored == Credentials \union {NoCredential}

DeviceRows == [status : Statuses, key : 0..MaxKey, machine : Machines \union {None}]
TokenRows == [status : {"active", "consumed", "revoked"}, uses : 0..MaxUses]
Loops == [pc : {"stopped", "enrolling", "ready", "checking"}, cred : Stored]
Answers == {"enrolled", "accepted", "refused", "rejected"}
Steps == {"free", "claim", "count", "exhaust", "find", "reuse", "create", "auth", "store"}
RequestRows == [step : Steps \union Answers, machine : Machines \union {None},
                asker : {"loop", "login", "nobody"}, cred : Stored]

TypeOK ==
    /\ devices \in [Devices -> DeviceRows]
    /\ token \in TokenRows
    /\ grants \in Nat
    /\ file \in [Machines -> Stored]
    /\ loop \in [Machines -> Loops]
    /\ login \in [Machines -> BOOLEAN]
    /\ requests \in [Requests -> RequestRows]
    /\ faults \in 0..MaxFaults

NoRow == [status |-> "absent", key |-> 0, machine |-> None]
FreeRequest == [step |-> "free", machine |-> None, asker |-> "nobody", cred |-> NoCredential]
StoppedLoop == [pc |-> "stopped", cred |-> NoCredential]

Init ==
    /\ devices = [d \in Devices |-> NoRow]
    /\ token = [status |-> "active", uses |-> 0]
    /\ grants = 0
    /\ file = [m \in Machines |-> NoCredential]
    /\ loop = [m \in Machines |-> StoppedLoop]
    /\ login = [m \in Machines |-> FALSE]
    /\ requests = [r \in Requests |-> FreeRequest]
    /\ faults = 0

-----------------------------------------------------------------------------
(* Helpers *)

Exists(d) == devices[d].status # "absent"

\* The credential names the secret the row holds.
Current(c) == c.device # None /\ devices[c.device].key = c.key

\* What requireDeviceAuth accepts.
Valid(c) == Current(c) /\ devices[c.device].status \notin {"absent", "revoked"}

At(r, step) == requests[r].step = step

\* The request goes on, and its caller learns nothing yet.
GoTo(r, step) == requests' = [requests EXCEPT ![r].step = step]

Release(r) == requests' = [requests EXCEPT ![r] = FreeRequest]

\* The API answers, if there is still somebody to answer.
Answer(r, outcome, cred) ==
    requests' = [requests EXCEPT ![r] =
      IF requests[r].asker = "nobody" THEN FreeRequest
      ELSE [step |-> outcome, machine |-> requests[r].machine,
            asker |-> requests[r].asker, cred |-> cred]]

\* Key ids are left for the enrolments in progress, and one more (MaxKey is
\* a bound of the model).
Enrolling == {r \in Requests : requests[r].step \in {"claim", "count", "exhaust", "find", "reuse", "create"}}
KeysLeft(d) == devices[d].key + Cardinality(Enrolling) < MaxKey

\* A machine sends a request.
Send(r, step, m, asker, cred) ==
    /\ At(r, "free")
    /\ requests' = [requests EXCEPT ![r] =
         [step |-> step, machine |-> m, asker |-> asker, cred |-> cred]]

-----------------------------------------------------------------------------
(* The agent *)

\* agent.Run: with a stored credential it starts to beat, ...
StartBeating(m) ==
    /\ loop[m].pc = "stopped"
    /\ file[m] # NoCredential
    /\ loop' = [loop EXCEPT ![m] = [pc |-> "ready", cred |-> file[m]]]
    /\ UNCHANGED <<rows, file, login, requests, faults>>

\* ... without one it enrols with the token it is configured with.
StartEnrolling(m, r) ==
    /\ loop[m].pc = "stopped"
    /\ file[m] = NoCredential
    /\ \A d \in Devices : KeysLeft(d)
    /\ loop' = [loop EXCEPT ![m].pc = "enrolling"]
    /\ Send(r, "claim", m, "loop", NoCredential)
    /\ UNCHANGED <<rows, file, login, faults>>

\* The ticker fires: a check-in with the credential in memory.
Beat(m, r) ==
    /\ loop[m].pc = "ready"
    /\ loop' = [loop EXCEPT ![m].pc = "checking"]
    /\ Send(r, "auth", m, "loop", loop[m].cred)
    /\ UNCHANGED <<rows, file, login, faults>>

\* agent.CheckInOnce, "Check in now" in the tray: with the stored credential,
\* beside the loop; its answer changes nothing.  (The number of requests is a
\* bound of the model; one is left to the loop.)
CheckNow(m, r) ==
    /\ file[m] # NoCredential
    /\ \E q \in Requests \ {r} : At(q, "free")
    /\ Send(r, "auth", m, "nobody", file[m])
    /\ UNCHANGED <<rows, agents, faults>>

\* agent.Login: the user signed in in the browser, and the agent enrols with
\* the user's token, which needs no enrolment token.
SignIn(m, r) ==
    /\ ~login[m]
    /\ \A d \in Devices : KeysLeft(d)
    /\ login' = [login EXCEPT ![m] = TRUE]
    /\ Send(r, "find", m, "login", NoCredential)
    /\ UNCHANGED <<rows, file, loop, faults>>

\* The service is stopped, the tray quits, the computer is switched off.
StopLoop(m) ==
    /\ loop[m].pc = "ready"
    /\ loop' = [loop EXCEPT ![m] = StoppedLoop]
    /\ UNCHANGED <<rows, file, login, requests, faults>>

\* saveEnrolled: the credential of an enrolment is stored, and the loop that
\* asked for it starts to beat.
LearnCredential(r) ==
    LET m == requests[r].machine  c == requests[r].cred IN
    /\ At(r, "enrolled")
    /\ file' = [file EXCEPT ![m] = c]
    /\ \/ /\ requests[r].asker = "loop"
          /\ loop' = [loop EXCEPT ![m] = [pc |-> "ready", cred |-> c]]
          /\ UNCHANGED login
       \/ /\ requests[r].asker = "login"
          /\ login' = [login EXCEPT ![m] = FALSE]
          /\ UNCHANGED loop
    /\ Release(r)
    /\ UNCHANGED <<rows, faults>>

\* ensureEnrolled fails, and Run returns.
LearnRefusal(r) ==
    /\ At(r, "refused")
    /\ loop' = [loop EXCEPT ![requests[r].machine] = StoppedLoop]
    /\ Release(r)
    /\ UNCHANGED <<rows, file, login, faults>>

LearnAcceptance(r) ==
    /\ At(r, "accepted")
    /\ loop' = [loop EXCEPT ![requests[r].machine].pc = "ready"]
    /\ Release(r)
    /\ UNCHANGED <<rows, file, login, faults>>

\* Broken: a rejection is taken for a transient error.
RetryRejection(r) ==
    /\ At(r, "rejected")
    /\ loop' = [loop EXCEPT ![requests[r].machine].pc = "ready"]
    /\ Release(r)
    /\ UNCHANGED <<rows, file, login, faults>>

\* revokedAfter: the loop clears the credential file, whichever credential is
\* in it by now, and stops.
LearnRejection(r) ==
    LET m == requests[r].machine IN
    /\ At(r, "rejected")
    /\ file' = [file EXCEPT ![m] = NoCredential]
    /\ loop' = [loop EXCEPT ![m] = StoppedLoop]
    /\ Release(r)
    /\ UNCHANGED <<rows, login, faults>>

\* No answer, or a 5xx: a heartbeat is tried again, an enrolment and a sign-in
\* fail.
CallFails(r) ==
    LET m == requests[r].machine  asker == requests[r].asker IN
    /\ loop' = [loop EXCEPT ![m] =
         CASE asker = "loop" /\ @.pc = "checking"  -> [@ EXCEPT !.pc = "ready"]
           [] asker = "loop" /\ @.pc = "enrolling" -> StoppedLoop
           [] OTHER -> @]
    /\ login' = [login EXCEPT ![m] = @ /\ asker # "login"]

\* The caller gives up after 30 s, and the API goes on.
GiveUp(r) ==
    /\ requests[r].asker # "nobody"
    /\ faults < MaxFaults
    /\ faults' = faults + 1
    /\ CallFails(r)
    /\ IF requests[r].step \in Answers
         THEN Release(r)
         ELSE requests' = [requests EXCEPT ![r].asker = "nobody"]
    /\ UNCHANGED <<rows, file>>

-----------------------------------------------------------------------------
(* The API *)

\* Broken: the use is counted without looking at the uses already taken.
ClaimUnchecked(r) ==
    /\ At(r, "claim")
    /\ token.status = "active"
    /\ token' = [token EXCEPT !.uses = IF @ < MaxUses THEN @ + 1 ELSE @]
    /\ grants' = grants + 1
    /\ GoTo(r, "count")
    /\ UNCHANGED <<devices, agents, faults>>

\* consumeEnrollmentToken takes a use in one conditional update.
ClaimUse(r) ==
    /\ At(r, "claim")
    /\ token.status = "active"
    /\ token.uses < MaxUses
    /\ token' = [token EXCEPT !.uses = @ + 1]
    /\ grants' = grants + 1
    /\ GoTo(r, "count")
    /\ UNCHANGED <<devices, agents, faults>>

\* No row matches: the token is used up, revoked, or has expired, which may
\* be at any time.
RefuseUse(r) ==
    /\ At(r, "claim")
    /\ Answer(r, "refused", NoCredential)
    /\ UNCHANGED <<rows, agents, faults>>

\* It reads the row again to see whether this was the last use, ...
CountUses(r) ==
    /\ At(r, "count")
    /\ GoTo(r, IF token.uses >= MaxUses THEN "exhaust" ELSE "find")
    /\ UNCHANGED <<rows, agents, faults>>

\* ... and marks the token, whatever its status is by now.
ExhaustToken(r) ==
    /\ At(r, "exhaust")
    /\ token' = [token EXCEPT !.status = "consumed"]
    /\ GoTo(r, "find")
    /\ UNCHANGED <<devices, grants, agents, faults>>

\* enrollDevice looks for a device of the same hardware id.
FindDevice(r) ==
    LET same == {d \in Devices : Exists(d) /\ devices[d].machine = requests[r].machine} IN
    /\ At(r, "find")
    /\ \/ same = {} /\ GoTo(r, "create")
       \/ \E d \in same :
            requests' = [requests EXCEPT ![r].step = "reuse", ![r].cred = [device |-> d, key |-> 1]]
    /\ UNCHANGED <<rows, agents, faults>>

\* A known device gets a new secret and is pending again, ...
ReuseDevice(r) ==
    LET d == requests[r].cred.device IN
    /\ At(r, "reuse")
    /\ devices[d].key < MaxKey
    /\ devices' = [devices EXCEPT ![d].key = @ + 1, ![d].status = "pending"]
    /\ Answer(r, "enrolled", [device |-> d, key |-> devices[d].key + 1])
    /\ UNCHANGED <<token, grants, agents, faults>>

\* ... asset and device of an unknown one are created in a transaction.
CreateDevice(r) ==
    /\ At(r, "create")
    /\ \E d \in Devices :
         /\ ~Exists(d)
         /\ devices' = [devices EXCEPT ![d] =
              [status |-> "pending", key |-> 1, machine |-> requests[r].machine]]
         /\ Answer(r, "enrolled", [device |-> d, key |-> 1])
    /\ UNCHANGED <<token, grants, agents, faults>>

\* requireDeviceAuth looks the device up.
Authenticate(r) ==
    /\ At(r, "auth")
    /\ IF Valid(requests[r].cred)
         THEN GoTo(r, "store")
         ELSE Answer(r, "rejected", NoCredential)
    /\ UNCHANGED <<rows, agents, faults>>

\* Broken: a check-in does not make a pending device active.
StoreForActiveOnly(r) ==
    /\ At(r, "store")
    /\ Answer(r, "accepted", NoCredential)
    /\ UNCHANGED <<rows, agents, faults>>

\* recordCheckIn makes the device active, whatever it is by now.
StoreCheckIn(r) ==
    /\ At(r, "store")
    /\ devices' = [devices EXCEPT ![requests[r].cred.device].status = "active"]
    /\ Answer(r, "accepted", NoCredential)
    /\ UNCHANGED <<token, grants, agents, faults>>

\* A statement fails, or the API process dies: a use that was taken is lost.
RequestFails(r) ==
    /\ requests[r].step \in Steps \ {"free"}
    /\ faults < MaxFaults
    /\ faults' = faults + 1
    /\ IF requests[r].asker = "nobody" THEN UNCHANGED <<loop, login>> ELSE CallFails(r)
    /\ Release(r)
    /\ UNCHANGED <<rows, file>>

-----------------------------------------------------------------------------
(* Administrators *)

\* A device is revoked, or its person offboarded.
Revoke(d) ==
    /\ Exists(d)
    /\ devices' = [devices EXCEPT ![d].status = "revoked"]
    /\ UNCHANGED <<token, grants, agents, requests, faults>>

\* rotateDeviceSecret: the secret goes to the administrator, not to the agent.
RotateSecret(d) ==
    /\ Exists(d)
    /\ KeysLeft(d)
    /\ devices' = [devices EXCEPT ![d].key = @ + 1]
    /\ UNCHANGED <<token, grants, agents, requests, faults>>

\* DELETE /enrollment-tokens/:id, whatever the status is.
RevokeToken ==
    /\ token' = [token EXCEPT !.status = "revoked"]
    /\ UNCHANGED <<devices, grants, agents, requests, faults>>

-----------------------------------------------------------------------------
(* The specification *)

Learn(r) == LearnCredential(r) \/ LearnRefusal(r) \/ LearnAcceptance(r) \/ LearnRejection(r)

Serve(r) ==
    \/ ClaimUse(r) \/ RefuseUse(r) \/ CountUses(r) \/ ExhaustToken(r)
    \/ FindDevice(r) \/ ReuseDevice(r) \/ CreateDevice(r)
    \/ Authenticate(r) \/ StoreCheckIn(r)

Agent(m, r) == StartEnrolling(m, r) \/ Beat(m, r) \/ CheckNow(m, r) \/ SignIn(m, r)

Next ==
    \/ \E r \in Requests : Learn(r) \/ Serve(r) \/ GiveUp(r) \/ RequestFails(r)
    \/ \E m \in Machines : StartBeating(m) \/ StopLoop(m) \/ \E r \in Requests : Agent(m, r)
    \/ \E d \in Devices : Revoke(d) \/ RotateSecret(d)
    \/ RevokeToken

Spec == Init /\ [][Next]_vars

\* The API answers and the ticker of a running loop fires; there may always
\* be other requests, hence the strong fairness.  Users, administrators and
\* faults are not fair.
Fairness ==
    /\ \A r \in Requests : WF_vars(Learn(r)) /\ WF_vars(Serve(r) \/ RequestFails(r))
    /\ \A m \in Machines : SF_vars(\E r \in Requests : Beat(m, r))

FairSpec == Spec /\ Fairness

-----------------------------------------------------------------------------
(* Properties *)

Beating(m, d) == loop[m].pc \in {"ready", "checking"} /\ loop[m].cred.device = d

\* The claim of a use is the only guard of a token: its status lags behind the
\* last use and may be overwritten.  However enrolments interleave, no more
\* of them are let in than the administrator allowed.
TokenWithinLimit == grants <= MaxUses

\* The credential was issued for a device of the machine's hardware id.
Own(c, m) ==
    c # NoCredential =>
      Exists(c.device) /\ devices[c.device].machine = m /\ c.key <= devices[c.device].key

\* Answers are lost and enrolments, sign-ins and rejections overtake each other;
\* what a machine has in its file, in its loop or in a request is still for a
\* device of its own, and no newer than the secret of the row (enrollDevice,
\* service.ts:299-378).
CredentialsAreOwn ==
    /\ \A m \in Machines : Own(file[m], m) /\ Own(loop[m].cred, m)
    /\ \A r \in Requests : Own(requests[r].cred, requests[r].machine)

\* rotateDeviceSecret (service.ts:397) shuts out whoever has an older secret,
\* wherever that is by then: in a file, in the memory of a loop, in a request or
\* in an answer under way.
RotationSupersedes ==
    [][\A d \in Devices : RotateSecret(d) =>
         /\ \A m \in Machines :
              \A c \in {file'[m], loop'[m].cred} : c.device = d => c.key < devices'[d].key
         /\ \A r \in Requests :
              requests'[r].cred.device = d => requests'[r].cred.key < devices'[d].key]_vars

\* An agent that beats with a valid credential makes its device active, also
\* through lost answers and failed statements, unless the credential is
\* superseded or revoked first, or the agent is stopped.
BeatingDeviceIsActive ==
    \A m \in Machines, d \in Devices :
      (Beating(m, d) /\ Valid(loop[m].cred)) ~>
      (devices[d].status = "active" \/ ~Valid(loop[m].cred) \/ ~Beating(m, d))

\* Once a device stays revoked, its computer falls silent: the loop learns it
\* and stops, and no restart revives it.
RevokedAgentStops ==
    \A m \in Machines, d \in Devices :
      <>[](devices[d].status = "revoked") => <>[]~Beating(m, d)

(* Properties the code does not have *)

\* A revoked device is silent at once and until it is enrolled again.  A
\* check-in that was authenticated before the revocation overwrites it.
RevokedUntilEnrolled ==
    [][\A d \in Devices : devices[d].status = "revoked" => devices'[d].status \in {"revoked", "pending"}]_vars

\* The device of a known hardware id is used again.  Two enrolments that both
\* look before either creates the device create two.
OneDevicePerMachine ==
    \A d, e \in Devices : Exists(d) /\ Exists(e) /\ devices[d].machine = devices[e].machine => d = e

\* The administrator's revocation of a token stays; the last use overwrites it.
TokenStaysRevoked == [][token.status = "revoked" => token'.status = "revoked"]_vars

\* An agent clears a credential only when it is no longer valid.  A loop that
\* is rejected clears the credential of a sign-in that happened meanwhile, and
\* that of a device whose revocation was overwritten.
ValidCredentialIsKept ==
    [][\A m \in Machines : file'[m] = NoCredential => ~Valid(file[m])]_vars

=============================================================================
