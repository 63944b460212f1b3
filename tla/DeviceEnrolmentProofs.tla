----------------------- MODULE DeviceEnrolmentProofs -----------------------
(***************************************************************************)
(* Proofs about DeviceEnrolment, for every set of machines and devices,    *)
(* every finite set of requests and every bound.                           *)
(*                                                                         *)
(* The limit of a token is kept because an enrolment is let in by the      *)
(* statement that counts it: as many were let in as uses are counted,      *)
(* whatever the token's status says by then.                               *)
(*                                                                         *)
(* A machine's credentials are its own because a step gives it only what   *)
(* the machine already had in its file, its loop or a request, or what the *)
(* step issues to it, and no step takes a row or a key back.               *)
(***************************************************************************)
EXTENDS DeviceEnrolment, FiniteSetTheorems, TLAPS

GrantsAreUses == grants = token.uses

\* An enrolment that uses a device again has found one.
ReusedIsFound == \A r \in Requests : At(r, "reuse") => requests[r].cred.device \in Devices

EnrolInv ==
    /\ TypeOK
    /\ GrantsAreUses
    /\ ReusedIsFound

\* One request is changed, and is still one that may be served.
RequestChanges(r) ==
    \E row \in RequestRows :
        /\ requests' = [requests EXCEPT ![r] = row]
        /\ row.step = "reuse" => row.cred.device \in Devices
-----------------------------------------------------------------------------
LEMMA NothingTypes ==
    /\ NoCredential \in Stored
    /\ FreeRequest \in RequestRows /\ FreeRequest.step = "free"
    /\ StoppedLoop \in Loops
    /\ NoRow \in DeviceRows
BY EnrolmentAssumption
   DEF NoCredential, Stored, FreeRequest, RequestRows, Steps, StoppedLoop, Loops, NoRow, DeviceRows, Statuses

\* Nobody is enrolled, and the token is new.
LEMMA InitEnrolInv == Init => EnrolInv
BY NothingTypes, EnrolmentAssumption
   DEF Init, EnrolInv, TypeOK, TokenRows, GrantsAreUses, ReusedIsFound, At

\* The ways in which an action changes a request.
LEMMA Answering ==
    ASSUME TypeOK, NEW r \in Requests, NEW outcome \in Answers, NEW cred \in Stored,
           Answer(r, outcome, cred)
    PROVE  RequestChanges(r)
<1>1. requests[r] \in RequestRows
  BY DEF TypeOK
<1> DEFINE row == [step |-> outcome, machine |-> requests[r].machine,
                   asker |-> requests[r].asker, cred |-> cred]
<1>2. row \in RequestRows /\ row.step # "reuse"
  BY <1>1 DEF RequestRows, Answers
<1> QED
  BY <1>2, NothingTypes DEF Answer, RequestChanges

LEMMA GoingOn ==
    ASSUME TypeOK, NEW r \in Requests, NEW step \in Steps \ {"reuse"}, GoTo(r, step)
    PROVE  RequestChanges(r)
<1>1. requests[r] \in RequestRows
  BY DEF TypeOK
<1> DEFINE row == [requests[r] EXCEPT !.step = step]
<1>2. row \in RequestRows /\ row.step # "reuse"
  BY <1>1 DEF RequestRows
<1>3. requests' = [requests EXCEPT ![r] = row]
  BY DEF GoTo
<1> HIDE DEF row
<1> QED
  BY <1>2, <1>3 DEF RequestChanges

LEMMA Releasing ==
    ASSUME NEW r \in Requests, Release(r)
    PROVE  RequestChanges(r)
BY NothingTypes DEF Release, RequestChanges

LEMMA Sending ==
    ASSUME NEW r \in Requests, NEW step \in Steps \ {"reuse"}, NEW m \in Machines,
           NEW asker \in {"loop", "login", "nobody"}, NEW cred \in Stored,
           Send(r, step, m, asker, cred)
    PROVE  RequestChanges(r)
<1> DEFINE row == [step |-> step, machine |-> m, asker |-> asker, cred |-> cred]
<1>1. row \in RequestRows /\ row.step # "reuse"
  BY DEF RequestRows
<1> QED
  BY <1>1 DEF Send, RequestChanges

\* A caller that hears nothing.
LEMMA CallFailsTypes ==
    ASSUME TypeOK, NEW r \in Requests, CallFails(r)
    PROVE  loop' \in [Machines -> Loops] /\ login' \in [Machines -> BOOLEAN]
<1> DEFINE m == requests[r].machine  asker == requests[r].asker
           new == CASE asker = "loop" /\ loop[m].pc = "checking"  -> [loop[m] EXCEPT !.pc = "ready"]
                    [] asker = "loop" /\ loop[m].pc = "enrolling" -> StoppedLoop
                    [] OTHER -> loop[m]
<1>1. loop \in [Machines -> Loops] /\ login \in [Machines -> BOOLEAN]
  BY DEF TypeOK
<1>2. loop' = [loop EXCEPT ![m] = new] /\ login' = [login EXCEPT ![m] = login[m] /\ asker # "login"]
  BY DEF CallFails
<1>3. m \in Machines => new \in Loops
  <2> SUFFICES ASSUME m \in Machines PROVE new \in Loops
    OBVIOUS
  <2>1. loop[m] \in Loops
    BY <1>1
  <2>2. [loop[m] EXCEPT !.pc = "ready"] \in Loops
    BY <2>1 DEF Loops
  <2> QED
    BY <2>1, <2>2, NothingTypes
<1> HIDE DEF new
<1>4. loop' \in [Machines -> Loops]
  BY <1>1, <1>2, <1>3
<1>5. login' \in [Machines -> BOOLEAN]
  BY <1>1, <1>2
<1> QED
  BY <1>4, <1>5

\* An action changes a request, and something else within its type.
LEMMA RequestStep ==
    ASSUME EnrolInv, NEW r \in Requests, RequestChanges(r),
           devices' \in [Devices -> DeviceRows], token' \in TokenRows, grants' = token'.uses,
           file' \in [Machines -> Stored], loop' \in [Machines -> Loops],
           login' \in [Machines -> BOOLEAN], faults' \in 0..MaxFaults
    PROVE  EnrolInv'
<1>1. PICK row \in RequestRows : /\ requests' = [requests EXCEPT ![r] = row]
                                 /\ row.step = "reuse" => row.cred.device \in Devices
  BY DEF RequestChanges
<1>2. requests \in [Requests -> RequestRows]
  BY DEF EnrolInv, TypeOK
<1>3. grants' \in Nat
  BY EnrolmentAssumption DEF TokenRows
<1>4. TypeOK' /\ GrantsAreUses'
  BY <1>1, <1>2, <1>3 DEF TypeOK, GrantsAreUses
<1>5. ReusedIsFound'
  BY <1>1, <1>2 DEF EnrolInv, ReusedIsFound, At
<1> QED
  BY <1>4, <1>5 DEF EnrolInv

\* What the agent asks for.
LEMMA AgentInv ==
    ASSUME EnrolInv, NEW m \in Machines, NEW r \in Requests, Agent(m, r)
    PROVE  EnrolInv'
<1>1. /\ devices \in [Devices -> DeviceRows] /\ token \in TokenRows /\ grants = token.uses
      /\ file \in [Machines -> Stored] /\ loop \in [Machines -> Loops]
      /\ login \in [Machines -> BOOLEAN] /\ faults \in 0..MaxFaults /\ TypeOK
  BY DEF EnrolInv, TypeOK, GrantsAreUses
<1>2. /\ loop[m] \in Loops /\ loop[m].cred \in Stored /\ file[m] \in Stored
      /\ [loop[m] EXCEPT !.pc = "enrolling"] \in Loops
      /\ [loop[m] EXCEPT !.pc = "checking"] \in Loops
  BY <1>1 DEF Loops
<1>3. CASE StartEnrolling(m, r)
  <2>1. RequestChanges(r)
    BY <1>3, Sending, NothingTypes DEF StartEnrolling, Steps
  <2>2. loop' \in [Machines -> Loops]
    BY <1>1, <1>2, <1>3 DEF StartEnrolling
  <2> QED
    BY <1>1, <1>3, <2>1, <2>2, RequestStep DEF StartEnrolling, rows
<1>4. CASE Beat(m, r)
  <2>1. RequestChanges(r)
    BY <1>2, <1>4, Sending DEF Beat, Steps
  <2>2. loop' \in [Machines -> Loops]
    BY <1>1, <1>2, <1>4 DEF Beat
  <2> QED
    BY <1>1, <1>4, <2>1, <2>2, RequestStep DEF Beat, rows
<1>5. CASE CheckNow(m, r)
  <2>1. RequestChanges(r)
    BY <1>2, <1>5, Sending DEF CheckNow, Steps
  <2> QED
    BY <1>1, <1>5, <2>1, RequestStep DEF CheckNow, rows, agents
<1>6. CASE SignIn(m, r)
  <2>1. RequestChanges(r)
    BY <1>6, Sending, NothingTypes DEF SignIn, Steps
  <2> QED
    BY <1>1, <1>6, <2>1, RequestStep DEF SignIn, rows
<1> QED
  BY <1>3, <1>4, <1>5, <1>6 DEF Agent

\* What the agent learns.
LEMMA LearnInv ==
    ASSUME EnrolInv, NEW r \in Requests, Learn(r)
    PROVE  EnrolInv'
<1> DEFINE m == requests[r].machine  c == requests[r].cred
<1>1. /\ devices \in [Devices -> DeviceRows] /\ token \in TokenRows /\ grants = token.uses
      /\ file \in [Machines -> Stored] /\ loop \in [Machines -> Loops]
      /\ login \in [Machines -> BOOLEAN] /\ faults \in 0..MaxFaults
      /\ requests[r] \in RequestRows
  BY DEF EnrolInv, TypeOK, GrantsAreUses
<1>2. /\ c \in Stored
      /\ [pc |-> "ready", cred |-> c] \in Loops
  BY <1>1 DEF RequestRows, Loops
<1>3. RequestChanges(r) /\ UNCHANGED <<devices, token, grants, faults>>
  BY Releasing DEF Learn, LearnCredential, LearnRefusal, LearnAcceptance, LearnRejection, rows
<1>4. file' \in [Machines -> Stored]
  BY <1>1, <1>2, NothingTypes DEF Learn, LearnCredential, LearnRefusal, LearnAcceptance, LearnRejection
<1>5. login' \in [Machines -> BOOLEAN]
  BY <1>1 DEF Learn, LearnCredential, LearnRefusal, LearnAcceptance, LearnRejection
<1>6. loop' \in [Machines -> Loops]
  <2>1. CASE LearnAcceptance(r)
    <3>1. \A n \in Machines : [loop[n] EXCEPT !.pc = "ready"] \in Loops
      BY <1>1 DEF Loops
    <3>2. loop' = [loop EXCEPT ![m] = [loop[m] EXCEPT !.pc = "ready"]]
      BY <2>1 DEF LearnAcceptance
    <3> QED
      BY <1>1, <3>1, <3>2
  <2>2. CASE LearnCredential(r)
    BY <1>1, <1>2, <2>2 DEF LearnCredential
  <2>3. CASE LearnRefusal(r) \/ LearnRejection(r)
    BY <1>1, <2>3, NothingTypes DEF LearnRefusal, LearnRejection
  <2> QED
    BY <2>1, <2>2, <2>3 DEF Learn
<1> QED
  BY <1>1, <1>3, <1>4, <1>5, <1>6, RequestStep

\* A request or its caller fails.
LEMMA FailureInv ==
    ASSUME EnrolInv, NEW r \in Requests, GiveUp(r) \/ RequestFails(r)
    PROVE  EnrolInv'
<1>1. /\ devices \in [Devices -> DeviceRows] /\ token \in TokenRows /\ grants = token.uses
      /\ file \in [Machines -> Stored] /\ TypeOK /\ requests[r] \in RequestRows
      /\ faults \in Nat /\ MaxFaults \in Nat
  BY EnrolmentAssumption DEF EnrolInv, TypeOK, GrantsAreUses
<1>2. UNCHANGED <<devices, token, grants, file>> /\ faults' \in 0..MaxFaults
  BY <1>1 DEF GiveUp, RequestFails, rows
<1>3. loop' \in [Machines -> Loops] /\ login' \in [Machines -> BOOLEAN]
  <2>1. CASE CallFails(r)
    BY <1>1, <2>1, CallFailsTypes
  <2>2. CASE UNCHANGED <<loop, login>>
    BY <1>1, <2>2 DEF TypeOK
  <2> QED
    BY <2>1, <2>2 DEF GiveUp, RequestFails
<1>4. RequestChanges(r)
  <2>1. CASE Release(r)
    BY <2>1, Releasing
  <2>2. CASE requests' = [requests EXCEPT ![r].asker = "nobody"]
    <3> DEFINE row == [requests[r] EXCEPT !.asker = "nobody"]
    <3>1. row \in RequestRows /\ row.step = requests[r].step /\ row.cred = requests[r].cred
      BY <1>1 DEF RequestRows
    <3>2. requests' = [requests EXCEPT ![r] = row]
      BY <2>2
    <3>3. row.step = "reuse" => row.cred.device \in Devices
      BY <3>1 DEF EnrolInv, ReusedIsFound, At
    <3> HIDE DEF row
    <3> QED
      BY <3>1, <3>2, <3>3 DEF RequestChanges
  <2> QED
    BY <2>1, <2>2 DEF GiveUp, RequestFails
<1> QED
  BY <1>1, <1>2, <1>3, <1>4, RequestStep

\* The claim of a use is granted by the statement that counts it, and no
\* other step of an enrolment touches the count.
LEMMA TokenInv ==
    ASSUME EnrolInv, NEW r \in Requests, ClaimUse(r) \/ RefuseUse(r) \/ CountUses(r) \/ ExhaustToken(r)
    PROVE  EnrolInv'
<1>1. /\ devices \in [Devices -> DeviceRows] /\ token \in TokenRows /\ grants = token.uses
      /\ file \in [Machines -> Stored] /\ loop \in [Machines -> Loops]
      /\ login \in [Machines -> BOOLEAN] /\ faults \in 0..MaxFaults /\ TypeOK
  BY DEF EnrolInv, TypeOK, GrantsAreUses
<1>2. UNCHANGED <<devices, file, loop, login, faults>>
  BY DEF ClaimUse, RefuseUse, CountUses, ExhaustToken, rows, agents
<1>3. CASE ClaimUse(r)
  <2> DEFINE new == [token EXCEPT !.uses = @ + 1]
  <2>1. token.uses \in 0..MaxUses /\ token.uses < MaxUses /\ MaxUses \in Nat
    BY <1>1, <1>3, EnrolmentAssumption DEF ClaimUse, TokenRows
  <2>2. new \in TokenRows /\ new.uses = token.uses + 1
    BY <1>1, <2>1 DEF TokenRows
  <2>3. token' = new /\ grants' = grants + 1
    BY <1>3 DEF ClaimUse
  <2>4. RequestChanges(r)
    BY <1>1, <1>3, GoingOn DEF ClaimUse, Steps
  <2> HIDE DEF new
  <2> QED
    BY <1>1, <1>2, <2>2, <2>3, <2>4, RequestStep
<1>4. CASE RefuseUse(r)
  <2>1. RequestChanges(r)
    BY <1>1, <1>4, Answering, NothingTypes DEF RefuseUse, Answers
  <2> QED
    BY <1>1, <1>2, <1>4, <2>1, RequestStep DEF RefuseUse, rows
<1>5. CASE CountUses(r)
  <2>1. RequestChanges(r)
    BY <1>1, <1>5, GoingOn DEF CountUses, Steps
  <2> QED
    BY <1>1, <1>2, <1>5, <2>1, RequestStep DEF CountUses, rows
<1>6. CASE ExhaustToken(r)
  <2>1. RequestChanges(r)
    BY <1>1, <1>6, GoingOn DEF ExhaustToken, Steps
  <2>2. token' \in TokenRows /\ token'.uses = token.uses /\ grants' = grants
    BY <1>1, <1>6 DEF ExhaustToken, TokenRows
  <2> QED
    BY <1>1, <1>2, <2>1, <2>2, RequestStep
<1> QED
  BY <1>3, <1>4, <1>5, <1>6

\* Finding, using again and creating a device, and check-ins.
LEMMA DeviceInv ==
    ASSUME EnrolInv, NEW r \in Requests,
           FindDevice(r) \/ ReuseDevice(r) \/ CreateDevice(r) \/ Authenticate(r) \/ StoreCheckIn(r)
    PROVE  EnrolInv'
<1>1. /\ devices \in [Devices -> DeviceRows] /\ token \in TokenRows /\ grants = token.uses
      /\ file \in [Machines -> Stored] /\ loop \in [Machines -> Loops]
      /\ login \in [Machines -> BOOLEAN] /\ faults \in 0..MaxFaults /\ TypeOK
      /\ requests[r] \in RequestRows /\ MaxKey \in Nat /\ 1 \in 1..MaxKey
  BY EnrolmentAssumption DEF EnrolInv, TypeOK, GrantsAreUses
<1>2. UNCHANGED <<token, grants, file, loop, login, faults>>
  BY DEF FindDevice, ReuseDevice, CreateDevice, Authenticate, StoreCheckIn, rows, agents
<1>3. CASE FindDevice(r)
  <2>1. devices' = devices
    BY <1>3 DEF FindDevice, rows
  <2>2. CASE GoTo(r, "create")
    BY <1>1, <1>2, <2>1, <2>2, GoingOn, RequestStep DEF Steps
  <2>3. ASSUME NEW d \in Devices,
               requests' = [requests EXCEPT ![r].step = "reuse", ![r].cred = [device |-> d, key |-> 1]]
        PROVE  EnrolInv'
    <3> DEFINE row == [requests[r] EXCEPT !.step = "reuse", !.cred = [device |-> d, key |-> 1]]
    <3>1. [device |-> d, key |-> 1] \in Stored
      BY <1>1 DEF Stored, Credentials
    <3>2. row \in RequestRows /\ row.cred.device \in Devices
      BY <1>1, <3>1 DEF RequestRows, Steps
    <3>3. requests' = [requests EXCEPT ![r] = row]
      BY <1>1, <2>3 DEF TypeOK
    <3> HIDE DEF row
    <3>4. RequestChanges(r)
      BY <3>2, <3>3 DEF RequestChanges
    <3> QED
      BY <1>1, <1>2, <2>1, <3>4, RequestStep
  <2> QED
    BY <1>3, <2>2, <2>3 DEF FindDevice
<1>4. CASE ReuseDevice(r)
  <2> DEFINE d == requests[r].cred.device
             new == [devices[d] EXCEPT !.key = @ + 1, !.status = "pending"]
             cred == [device |-> d, key |-> devices[d].key + 1]
  <2>1. d \in Devices
    BY <1>4 DEF ReuseDevice, EnrolInv, ReusedIsFound
  <2>2. devices[d] \in DeviceRows /\ devices[d].key \in 0..MaxKey /\ devices[d].key < MaxKey
    BY <1>1, <1>4, <2>1 DEF ReuseDevice, DeviceRows
  <2>3. new \in DeviceRows
    <3>1. devices[d].key + 1 \in 0..MaxKey
      BY <1>1, <2>2
    <3> QED
      BY <2>2, <3>1 DEF DeviceRows, Statuses
  <2>4. devices' = [devices EXCEPT ![d] = new]
    BY <1>4, <1>1 DEF ReuseDevice
  <2>5. cred \in Stored
    BY <1>1, <2>1, <2>2 DEF Stored, Credentials
  <2>6. RequestChanges(r)
    BY <1>1, <1>4, <2>5, Answering DEF ReuseDevice, Answers
  <2> HIDE DEF new, d, cred
  <2>7. devices' \in [Devices -> DeviceRows]
    BY <1>1, <2>3, <2>4
  <2> QED
    BY <1>1, <1>2, <2>6, <2>7, RequestStep
<1>5. CASE CreateDevice(r)
  <2>1. PICK d \in Devices :
          /\ devices' = [devices EXCEPT ![d] =
               [status |-> "pending", key |-> 1, machine |-> requests[r].machine]]
          /\ Answer(r, "enrolled", [device |-> d, key |-> 1])
    BY <1>5 DEF CreateDevice
  <2>2. [status |-> "pending", key |-> 1, machine |-> requests[r].machine] \in DeviceRows
    BY <1>1 DEF DeviceRows, Statuses, RequestRows
  <2>3. [device |-> d, key |-> 1] \in Stored
    BY <1>1 DEF Stored, Credentials
  <2>4. RequestChanges(r)
    BY <1>1, <2>1, <2>3, Answering DEF Answers
  <2>5. devices' \in [Devices -> DeviceRows]
    BY <1>1, <2>1, <2>2
  <2> QED
    BY <1>1, <1>2, <2>4, <2>5, RequestStep
<1>6. CASE Authenticate(r)
  <2>1. RequestChanges(r)
    BY <1>1, <1>6, GoingOn, Answering, NothingTypes DEF Authenticate, Steps, Answers
  <2> QED
    BY <1>1, <1>2, <1>6, <2>1, RequestStep DEF Authenticate, rows
<1>7. CASE StoreCheckIn(r)
  <2>1. RequestChanges(r)
    BY <1>1, <1>7, Answering, NothingTypes DEF StoreCheckIn, Answers
  <2>2. \A d \in Devices : [devices[d] EXCEPT !.status = "active"] \in DeviceRows
    BY <1>1 DEF DeviceRows, Statuses
  <2>3. devices' \in [Devices -> DeviceRows]
    BY <1>1, <1>7, <2>2 DEF StoreCheckIn
  <2> QED
    BY <1>1, <1>2, <2>1, <2>3, RequestStep
<1> QED
  BY <1>3, <1>4, <1>5, <1>6, <1>7

\* Steps that leave the requests alone.
LEMMA RowsInv ==
    ASSUME EnrolInv, UNCHANGED <<grants, file, login, requests, faults>>,
           devices' \in [Devices -> DeviceRows], loop' \in [Machines -> Loops],
           token' \in TokenRows, token'.uses = token.uses
    PROVE  EnrolInv'
BY DEF EnrolInv, TypeOK, GrantsAreUses, ReusedIsFound, At

\* Key ids are left only when there is room for one more.
LEMMA KeysLeftBound ==
    ASSUME TypeOK, NEW d \in Devices, KeysLeft(d)
    PROVE  devices[d].key + 1 \in 0..MaxKey
<1>1. IsFiniteSet(Enrolling)
  BY EnrolmentAssumption, FS_Subset DEF Enrolling
<1>2. Cardinality(Enrolling) \in Nat
  BY <1>1, FS_CardinalityType
<1>3. devices[d].key \in 0..MaxKey /\ MaxKey \in Nat
  BY EnrolmentAssumption DEF TypeOK, DeviceRows
<1> QED
  BY <1>2, <1>3 DEF KeysLeft

\* Every step keeps the invariant.
LEMMA NextEnrolInv == EnrolInv /\ [Next]_vars => EnrolInv'
<1> SUFFICES ASSUME EnrolInv, [Next]_vars PROVE EnrolInv'
  OBVIOUS
<1>1. /\ devices \in [Devices -> DeviceRows] /\ token \in TokenRows
      /\ file \in [Machines -> Stored] /\ loop \in [Machines -> Loops] /\ TypeOK
  BY DEF EnrolInv, TypeOK
<1>2. ASSUME NEW r \in Requests, Serve(r) PROVE EnrolInv'
  BY <1>2, TokenInv, DeviceInv DEF Serve
<1>3. ASSUME NEW m \in Machines, StartBeating(m) \/ StopLoop(m) PROVE EnrolInv'
  <2>1. [pc |-> "ready", cred |-> file[m]] \in Loops
    BY <1>1 DEF Loops
  <2>2. loop' \in [Machines -> Loops]
    BY <1>1, <1>3, <2>1, NothingTypes DEF StartBeating, StopLoop
  <2> QED
    BY <1>1, <1>3, <2>2, RowsInv DEF StartBeating, StopLoop, rows
<1>4. ASSUME NEW d \in Devices, Revoke(d) PROVE EnrolInv'
  <2>1. [devices[d] EXCEPT !.status = "revoked"] \in DeviceRows
    BY <1>1 DEF DeviceRows, Statuses
  <2>2. devices' \in [Devices -> DeviceRows]
    BY <1>1, <1>4, <2>1 DEF Revoke
  <2> QED
    BY <1>1, <1>4, <2>2, RowsInv DEF Revoke, agents
<1>5. ASSUME NEW d \in Devices, RotateSecret(d) PROVE EnrolInv'
  <2>1. devices[d].key + 1 \in 0..MaxKey
    BY <1>1, <1>5, KeysLeftBound DEF RotateSecret
  <2> DEFINE new == [devices[d] EXCEPT !.key = @ + 1]
  <2>2. new \in DeviceRows
    BY <1>1, <2>1 DEF DeviceRows
  <2>3. devices' = [devices EXCEPT ![d] = new]
    BY <1>5 DEF RotateSecret
  <2> HIDE DEF new
  <2>4. devices' \in [Devices -> DeviceRows]
    BY <1>1, <2>2, <2>3
  <2> QED
    BY <1>1, <1>5, <2>4, RowsInv DEF RotateSecret, agents
<1>6. CASE RevokeToken
  <2>1. token' \in TokenRows /\ token'.uses = token.uses
    BY <1>1, <1>6 DEF RevokeToken, TokenRows
  <2> QED
    BY <1>1, <1>6, <2>1, RowsInv DEF RevokeToken, agents
<1>7. CASE UNCHANGED vars
  BY <1>1, <1>7, RowsInv DEF vars, rows, agents
<1> QED
  BY <1>2, <1>3, <1>4, <1>5, <1>6, <1>7, AgentInv, LearnInv, FailureInv DEF Next

\* The invariant holds in every behaviour.
THEOREM EnrolInvariant == Spec => []EnrolInv
BY InitEnrolInv, NextEnrolInv, PTL DEF Spec

\* The variables keep their types.
THEOREM TypeCorrect == Spec => []TypeOK
<1>1. EnrolInv => TypeOK
  BY DEF EnrolInv
<1> QED
  BY <1>1, EnrolInvariant, PTL

\* However enrolments interleave with each other, with revocations and with
\* failures, no more of them are let in than the token allows.
THEOREM TokenLimitHolds == Spec => []TokenWithinLimit
<1>1. EnrolInv => TokenWithinLimit
  BY EnrolmentAssumption DEF EnrolInv, TypeOK, GrantsAreUses, TokenRows, TokenWithinLimit
<1> QED
  BY <1>1, EnrolInvariant, PTL
-----------------------------------------------------------------------------
(* Credentials *)

\* The first secret of a device is issued with its row.
KeyedRows == \A d \in Devices : Exists(d) => devices[d].key >= 1

OwnInv == CredentialsAreOwn /\ KeyedRows

\* A step deletes no row, moves none to another machine and takes no key back.
RowsStay ==
    \A d \in Devices : Exists(d) =>
      /\ devices'[d].status # "absent" /\ devices'[d].machine = devices[d].machine
      /\ devices[d].key <= devices'[d].key

\* The credential is the machine's own after the step.
OwnNext(c, m) ==
    c # NoCredential =>
      /\ devices'[c.device].status # "absent" /\ devices'[c.device].machine = m
      /\ c.key <= devices'[c.device].key

\* A credential that the machine has after a step: it had it before, in its file,
\* its loop or a request, or it is issued by the step.
Origin(c, m) ==
    \/ c = NoCredential \/ OwnNext(c, m)
    \/ m \in Machines /\ c \in {file[m], loop[m].cred}
    \/ \E r \in Requests : c = requests[r].cred /\ m = requests[r].machine

\* What a machine had stays its own.
LEMMA OriginOwn ==
    ASSUME EnrolInv, EnrolInv', OwnInv, RowsStay, NEW c, NEW m, Origin(c, m)
    PROVE  OwnNext(c, m)
<1>1. CASE c = NoCredential
  BY <1>1 DEF OwnNext
<1>2. CASE c # NoCredential /\ ~OwnNext(c, m)
  <2>1. c \in Stored /\ Own(c, m)
    BY <1>2 DEF Origin, EnrolInv, TypeOK, Loops, RequestRows, OwnInv, CredentialsAreOwn
  <2>2. c.device \in Devices /\ c.key \in Nat
    BY <1>2, <2>1, EnrolmentAssumption DEF Stored, Credentials
  <2>3. /\ Exists(c.device) /\ devices[c.device].machine = m
        /\ c.key <= devices[c.device].key
    BY <1>2, <2>1 DEF Own
  <2>4. /\ devices'[c.device].status # "absent"
        /\ devices'[c.device].machine = devices[c.device].machine
        /\ devices[c.device].key <= devices'[c.device].key
    BY <2>2, <2>3 DEF RowsStay
  <2>5. devices[c.device].key \in Nat /\ devices'[c.device].key \in Nat
    BY <2>2, EnrolmentAssumption DEF EnrolInv, TypeOK, DeviceRows
  <2>6. c.key <= devices'[c.device].key
    BY <2>2, <2>3, <2>4, <2>5
  <2> QED
    BY <2>3, <2>4, <2>6 DEF OwnNext
<1> QED
  BY <1>1, <1>2

\* Rows and keys.
LEMMA NextRows ==
    ASSUME EnrolInv, OwnInv, [Next]_vars
    PROVE  RowsStay /\ KeyedRows'
<1>1. /\ devices \in [Devices -> DeviceRows]
      /\ \A d \in Devices : devices[d].key \in Nat
      /\ \A d \in Devices : Exists(d) => devices[d].key >= 1
  BY EnrolmentAssumption DEF EnrolInv, TypeOK, DeviceRows, OwnInv, KeyedRows
<1>2. CASE UNCHANGED devices
  BY <1>1, <1>2 DEF RowsStay, KeyedRows, Exists
<1> DEFINE Follows(row, d) ==
       /\ row \in DeviceRows
       /\ row.status # "absent" => row.key >= 1
       /\ Exists(d) => /\ row.status # "absent" /\ row.machine = devices[d].machine
                       /\ devices[d].key <= row.key
<1>3. ASSUME NEW d \in Devices, NEW row, Follows(row, d), devices' = [devices EXCEPT ![d] = row]
      PROVE  RowsStay /\ KeyedRows'
  BY <1>1, <1>3 DEF RowsStay, KeyedRows, Exists
<1>4. ASSUME NEW r \in Requests, ReuseDevice(r) PROVE RowsStay /\ KeyedRows'
  <2> DEFINE d == requests[r].cred.device
             row == [devices[d] EXCEPT !.key = @ + 1, !.status = "pending"]
  <2>1. d \in Devices /\ devices[d].key < MaxKey
    BY <1>4 DEF ReuseDevice, EnrolInv, ReusedIsFound
  <2>2. devices' = [devices EXCEPT ![d] = row]
    BY <1>1, <1>4 DEF ReuseDevice
  <2>3. devices[d] \in DeviceRows /\ devices[d].key \in 0..MaxKey /\ MaxKey \in Nat
    BY <1>1, <2>1, EnrolmentAssumption DEF DeviceRows
  <2>4. /\ row \in DeviceRows /\ row.status = "pending"
        /\ row.machine = devices[d].machine /\ row.key = devices[d].key + 1
    <3>1. devices[d].key + 1 \in 0..MaxKey
      BY <2>1, <2>3
    <3> QED
      BY <2>3, <3>1 DEF DeviceRows, Statuses
  <2> HIDE DEF d, row
  <2>5. Follows(row, d)
    BY <2>3, <2>4
  <2> HIDE DEF Follows
  <2> QED
    BY <1>3, <2>1, <2>2, <2>5
<1>5. ASSUME NEW r \in Requests, CreateDevice(r) PROVE RowsStay /\ KeyedRows'
  <2> DEFINE row == [status |-> "pending", key |-> 1, machine |-> requests[r].machine]
  <2>1. PICK d \in Devices : ~Exists(d) /\ devices' = [devices EXCEPT ![d] = row]
    BY <1>5 DEF CreateDevice
  <2>2. row \in DeviceRows /\ row.status = "pending" /\ row.key = 1
    BY EnrolmentAssumption DEF EnrolInv, TypeOK, RequestRows, DeviceRows, Statuses
  <2> HIDE DEF row
  <2>3. Follows(row, d)
    BY <2>1, <2>2
  <2> HIDE DEF Follows
  <2> QED
    BY <1>3, <2>1, <2>3
<1>6. ASSUME NEW d, NEW status \in Statuses \ {"absent"}, d \in Devices => Exists(d),
             devices' = [devices EXCEPT ![d].status = status]
      PROVE  RowsStay /\ KeyedRows'
  <2> DEFINE row == [devices[d] EXCEPT !.status = status]
  <2>1. CASE d \in Devices
    <3>1. /\ row \in DeviceRows /\ row.status = status
          /\ row.machine = devices[d].machine /\ row.key = devices[d].key
      BY <1>1, <2>1 DEF DeviceRows
    <3>2. devices' = [devices EXCEPT ![d] = row]
      BY <1>6
    <3>3. devices[d].key \in Nat /\ devices[d].key >= 1
      BY <1>1, <1>6, <2>1
    <3> HIDE DEF row
    <3>4. Follows(row, d)
      BY <3>1, <3>3
    <3> HIDE DEF Follows
    <3> QED
      BY <1>3, <2>1, <3>2, <3>4
  <2>2. CASE d \notin Devices
    BY <1>1, <1>2, <1>6, <2>2
  <2> QED
    BY <2>1, <2>2
<1>7. ASSUME NEW r \in Requests, StoreCheckIn(r) PROVE RowsStay /\ KeyedRows'
  <2> DEFINE c == requests[r].cred
  <2>1. c.device \in Devices => Exists(c.device)
    BY EnrolmentAssumption DEF OwnInv, CredentialsAreOwn, Own, NoCredential
  <2>2. devices' = [devices EXCEPT ![c.device].status = "active"]
    BY <1>7 DEF StoreCheckIn
  <2>3. "active" \in Statuses \ {"absent"}
    BY DEF Statuses
  <2> HIDE DEF c
  <2> QED
    BY <1>6, <2>1, <2>2, <2>3
<1>8. ASSUME NEW d \in Devices, Revoke(d) PROVE RowsStay /\ KeyedRows'
  BY <1>6, <1>8 DEF Revoke, Statuses
<1>9. ASSUME NEW d \in Devices, RotateSecret(d) PROVE RowsStay /\ KeyedRows'
  <2> DEFINE row == [devices[d] EXCEPT !.key = @ + 1]
  <2>1. devices' = [devices EXCEPT ![d] = row] /\ Exists(d)
    BY <1>9 DEF RotateSecret
  <2>2. devices[d].key + 1 \in 0..MaxKey
    BY <1>9, KeysLeftBound DEF RotateSecret, EnrolInv
  <2>3. /\ row \in DeviceRows /\ row.status = devices[d].status
        /\ row.machine = devices[d].machine /\ row.key = devices[d].key + 1
    BY <1>1, <2>2 DEF DeviceRows
  <2>4. devices[d].key \in Nat /\ devices[d].status # "absent"
    BY <1>1, <2>1 DEF Exists
  <2> HIDE DEF row
  <2>5. row.status # "absent" => row.key >= 1
    BY <2>3, <2>4
  <2>6. Follows(row, d)
    BY <2>3, <2>4, <2>5
  <2> HIDE DEF Follows
  <2> QED
    BY <1>3, <2>1, <2>6
<1>10. ASSUME NEW r \in Requests,
              \/ Learn(r) \/ GiveUp(r) \/ RequestFails(r)
              \/ ClaimUse(r) \/ RefuseUse(r) \/ CountUses(r) \/ ExhaustToken(r)
              \/ FindDevice(r) \/ Authenticate(r)
       PROVE  UNCHANGED devices
  BY <1>10 DEF Learn, LearnCredential, LearnRefusal, LearnAcceptance, LearnRejection,
               GiveUp, RequestFails, ClaimUse, RefuseUse, CountUses, ExhaustToken,
               FindDevice, Authenticate, rows
<1>11. ASSUME NEW m \in Machines,
              StartBeating(m) \/ StopLoop(m) \/ \E r \in Requests : Agent(m, r)
       PROVE  UNCHANGED devices
  BY <1>11 DEF StartBeating, StopLoop, Agent, StartEnrolling, Beat, CheckNow, SignIn, rows
<1>12. CASE RevokeToken \/ UNCHANGED vars
  BY <1>2, <1>12 DEF RevokeToken, vars, rows
<1> QED
  BY <1>2, <1>4, <1>5, <1>7, <1>8, <1>9, <1>10, <1>11, <1>12 DEF Next, Serve

\* What the requests carry after a step.
Carried == \A q \in Requests : Origin(requests'[q].cred, requests'[q].machine)

\* What the agents hold after a step.
Held == \A m \in Machines : Origin(file'[m], m) /\ Origin(loop'[m].cred, m)

\* A step that changes one request, whose credential has such an origin.
LEMMA OneCarries ==
    ASSUME TypeOK, NEW r \in Requests, NEW row, requests' = [requests EXCEPT ![r] = row],
           Origin(row.cred, row.machine)
    PROVE  Carried
<1>1. requests \in [Requests -> RequestRows]
  BY DEF TypeOK
<1>2. \A q \in Requests \ {r} : requests'[q] = requests[q]
  BY <1>1
<1>3. \A q \in Requests : Origin(requests[q].cred, requests[q].machine)
  BY DEF Origin
<1>4. requests'[r] = row
  BY <1>1
<1> QED
  BY <1>2, <1>3, <1>4 DEF Carried

\* The ways in which an action changes a request.
LEMMA WaysCarry ==
    ASSUME TypeOK, NEW r \in Requests
    PROVE  /\ Release(r) => Carried
           /\ \A step \in Steps : GoTo(r, step) => Carried
           /\ requests' = [requests EXCEPT ![r].asker = "nobody"] => Carried
           /\ UNCHANGED requests => Carried
<1>1. requests \in [Requests -> RequestRows] /\ requests[r] \in RequestRows
  BY DEF TypeOK
<1>2. Release(r) => Carried
  <2>1. Origin(FreeRequest.cred, FreeRequest.machine)
    BY DEF Origin, FreeRequest
  <2> QED
    BY <2>1, OneCarries DEF Release
<1>3. ASSUME NEW row, requests' = [requests EXCEPT ![r] = row],
             row.cred = requests[r].cred, row.machine = requests[r].machine
      PROVE  Carried
  <2>1. Origin(row.cred, row.machine)
    BY <1>3 DEF Origin
  <2> QED
    BY <1>3, <2>1, OneCarries
<1>4. ASSUME NEW step \in Steps, GoTo(r, step) PROVE Carried
  <2> DEFINE row == [requests[r] EXCEPT !.step = step]
  <2>1. /\ requests' = [requests EXCEPT ![r] = row]
        /\ row.cred = requests[r].cred /\ row.machine = requests[r].machine
    BY <1>1, <1>4 DEF GoTo, RequestRows
  <2> HIDE DEF row
  <2> QED
    BY <1>3, <2>1
<1>5. ASSUME requests' = [requests EXCEPT ![r].asker = "nobody"] PROVE Carried
  <2> DEFINE row == [requests[r] EXCEPT !.asker = "nobody"]
  <2>1. /\ requests' = [requests EXCEPT ![r] = row]
        /\ row.cred = requests[r].cred /\ row.machine = requests[r].machine
    BY <1>1, <1>5 DEF RequestRows
  <2> HIDE DEF row
  <2> QED
    BY <1>3, <2>1
<1>6. UNCHANGED requests => Carried
  BY DEF Carried, Origin
<1> QED
  BY <1>2, <1>4, <1>5, <1>6

\* An answer carries what it is given.
LEMMA AnswerCarries ==
    ASSUME TypeOK, NEW r \in Requests, NEW outcome, NEW c, Answer(r, outcome, c),
           Origin(c, requests[r].machine)
    PROVE  Carried
<1> DEFINE row == [step |-> outcome, machine |-> requests[r].machine,
                   asker |-> requests[r].asker, cred |-> c]
<1>1. Release(r) \/ requests' = [requests EXCEPT ![r] = row]
  BY DEF Answer, Release
<1>2. row.cred = c /\ row.machine = requests[r].machine
  OBVIOUS
<1> HIDE DEF row
<1> QED
  BY <1>1, <1>2, WaysCarry, OneCarries

\* A request that is sent carries what its sender has.
LEMMA SendCarries ==
    ASSUME TypeOK, NEW r \in Requests, NEW step, NEW m \in Machines, NEW asker, NEW c,
           Send(r, step, m, asker, c), c \in {NoCredential, file[m], loop[m].cred}
    PROVE  Carried
<1> DEFINE row == [step |-> step, machine |-> m, asker |-> asker, cred |-> c]
<1>1. requests' = [requests EXCEPT ![r] = row]
  BY DEF Send
<1>2. row.cred = c /\ row.machine = m
  OBVIOUS
<1>3. Origin(c, m)
  BY DEF Origin
<1> HIDE DEF row
<1> QED
  BY <1>1, <1>2, <1>3, OneCarries

\* A loop that only moves on keeps its credential, and one that stops has none.
LEMMA LoopHolds ==
    ASSUME TypeOK, NEW m, NEW new, loop' = [loop EXCEPT ![m] = new],
           new.cred = NoCredential \/ new.cred = loop[m].cred \/ Origin(new.cred, m)
    PROVE  \A n \in Machines : Origin(loop'[n].cred, n)
<1>1. loop \in [Machines -> Loops]
  BY DEF TypeOK
<1>2. \A n \in Machines \ {m} : loop'[n] = loop[n]
  BY <1>1
<1>3. m \in Machines => loop'[m] = new
  BY <1>1
<1>4. m \in Machines => Origin(loop'[m].cred, m)
  BY <1>3 DEF Origin
<1> QED
  BY <1>2, <1>4 DEF Origin

\* A caller that hears nothing learns nothing.
LEMMA CallFailsHolds ==
    ASSUME TypeOK, NEW r \in Requests, CallFails(r)
    PROVE  \A n \in Machines : Origin(loop'[n].cred, n)
<1> DEFINE m == requests[r].machine  asker == requests[r].asker
           new == CASE asker = "loop" /\ loop[m].pc = "checking"  -> [loop[m] EXCEPT !.pc = "ready"]
                    [] asker = "loop" /\ loop[m].pc = "enrolling" -> StoppedLoop
                    [] OTHER -> loop[m]
<1>1. loop' = [loop EXCEPT ![m] = new]
  BY DEF CallFails
<1>2. CASE m \in Machines
  <2>1. loop[m] \in Loops
    BY <1>2 DEF TypeOK
  <2>2. [loop[m] EXCEPT !.pc = "ready"].cred = loop[m].cred /\ StoppedLoop.cred = NoCredential
    BY <2>1 DEF Loops, StoppedLoop
  <2>3. new.cred = NoCredential \/ new.cred = loop[m].cred
    BY <2>2
  <2> HIDE DEF new, m
  <2> QED
    BY <1>1, <2>3, LoopHolds
<1>3. CASE m \notin Machines
  <2>1. UNCHANGED loop
    BY <1>1, <1>3 DEF TypeOK
  <2> QED
    BY <2>1 DEF Origin
<1> QED
  BY <1>2, <1>3

\* What the agents hold after a step is what they held or what they are told.
LEMMA NextHeld == EnrolInv /\ [Next]_vars => Held
<1> SUFFICES ASSUME EnrolInv, [Next]_vars PROVE Held
  OBVIOUS
<1>1. /\ TypeOK /\ file \in [Machines -> Stored] /\ loop \in [Machines -> Loops]
      /\ \A n \in Machines : Origin(file[n], n) /\ Origin(loop[n].cred, n)
  BY DEF EnrolInv, TypeOK, Origin
<1>2. CASE UNCHANGED <<file, loop>>
  BY <1>1, <1>2 DEF Held, Origin
<1>3. ASSUME UNCHANGED file, \A n \in Machines : Origin(loop'[n].cred, n) PROVE Held
  BY <1>1, <1>3 DEF Held, Origin
<1>4. ASSUME NEW m, NEW pc, loop' = [loop EXCEPT ![m].pc = pc] PROVE \A n \in Machines : Origin(loop'[n].cred, n)
  <2>1. \A n \in Machines : loop[n] \in [pc : {"stopped", "enrolling", "ready", "checking"}, cred : Stored]
    BY <1>1 DEF Loops
  <2>2. \A n \in Machines : loop'[n].cred = loop[n].cred
    BY <1>1, <1>4, <2>1
  <2> QED
    BY <2>2 DEF Origin
<1>5. ASSUME NEW m, loop' = [loop EXCEPT ![m] = StoppedLoop]
      PROVE  \A n \in Machines : Origin(loop'[n].cred, n)
  BY <1>1, <1>5, LoopHolds DEF StoppedLoop
<1>6. ASSUME NEW r \in Requests, Learn(r) PROVE Held
  <2> DEFINE m == requests[r].machine  c == requests[r].cred
  <2>1. Origin(c, m)
    BY DEF Origin
  <2>2. CASE LearnCredential(r)
    <3>1. \A n \in Machines : file'[n] = IF n = m THEN c ELSE file[n]
      BY <1>1, <2>2 DEF LearnCredential
    <3>2. \A n \in Machines : Origin(file'[n], n)
      BY <1>1, <2>1, <3>1
    <3>3. CASE UNCHANGED loop
      BY <3>2, <3>3 DEF Held, Origin
    <3>4. CASE loop' = [loop EXCEPT ![m] = [pc |-> "ready", cred |-> c]]
      <4>1. \A n \in Machines : Origin(loop'[n].cred, n)
        BY <1>1, <2>1, <3>4, LoopHolds
      <4> QED
        BY <3>2, <4>1 DEF Held
    <3> QED
      BY <2>2, <3>3, <3>4 DEF LearnCredential
  <2>3. CASE LearnRejection(r)
    <3>1. \A n \in Machines : file'[n] \in {NoCredential, file[n]}
      BY <1>1, <2>3 DEF LearnRejection
    <3>2. \A n \in Machines : Origin(loop'[n].cred, n)
      BY <1>5, <2>3 DEF LearnRejection
    <3> QED
      BY <3>1, <3>2 DEF Held, Origin
  <2>4. CASE LearnRefusal(r)
    BY <1>3, <1>5, <2>4 DEF LearnRefusal
  <2>5. CASE LearnAcceptance(r)
    BY <1>3, <1>4, <2>5 DEF LearnAcceptance
  <2> QED
    BY <1>6, <2>2, <2>3, <2>4, <2>5 DEF Learn
<1>7. ASSUME NEW r \in Requests, GiveUp(r) \/ RequestFails(r) PROVE Held
  <2>1. UNCHANGED file /\ (CallFails(r) \/ UNCHANGED loop)
    BY <1>7 DEF GiveUp, RequestFails
  <2> QED
    BY <1>1, <1>2, <1>3, <2>1, CallFailsHolds
<1>8. ASSUME NEW r \in Requests, Serve(r) PROVE Held
  BY <1>2, <1>8 DEF Serve, ClaimUse, RefuseUse, CountUses, ExhaustToken, FindDevice,
                    ReuseDevice, CreateDevice, Authenticate, StoreCheckIn, agents
<1>9. ASSUME NEW m \in Machines, NEW r \in Requests, Agent(m, r) PROVE Held
  <2>1. CASE StartEnrolling(m, r) \/ Beat(m, r)
    BY <1>3, <1>4, <2>1 DEF StartEnrolling, Beat
  <2>2. CASE CheckNow(m, r) \/ SignIn(m, r)
    BY <1>2, <2>2 DEF CheckNow, SignIn, agents
  <2> QED
    BY <1>9, <2>1, <2>2 DEF Agent
<1>10. ASSUME NEW m \in Machines, StartBeating(m) \/ StopLoop(m) PROVE Held
  <2>1. CASE StartBeating(m)
    <3>1. \A n \in Machines : Origin(loop'[n].cred, n)
      BY <1>1, <2>1, LoopHolds DEF StartBeating, Origin
    <3> QED
      BY <1>3, <2>1, <3>1 DEF StartBeating
  <2>2. CASE StopLoop(m)
    BY <1>3, <1>5, <2>2 DEF StopLoop
  <2> QED
    BY <1>10, <2>1, <2>2
<1>11. CASE RevokeToken \/ \E d \in Devices : Revoke(d) \/ RotateSecret(d)
  BY <1>2, <1>11 DEF Revoke, RotateSecret, RevokeToken, agents
<1>12. CASE UNCHANGED vars
  BY <1>2, <1>12 DEF vars, agents
<1> QED
  BY <1>6, <1>7, <1>8, <1>9, <1>10, <1>11, <1>12 DEF Next

\* What is under way after a step is what was, or what the step issues.
LEMMA NextCarried ==
    ASSUME EnrolInv, OwnInv, [Next]_vars
    PROVE  Carried
<1>1. /\ TypeOK /\ devices \in [Devices -> DeviceRows] /\ NoCredential \in Stored
      /\ \A c, m : c = NoCredential => Origin(c, m)
  BY NothingTypes DEF EnrolInv, TypeOK, Origin
<1>2. ASSUME NEW r \in Requests, Learn(r) PROVE Carried
  BY <1>1, <1>2, WaysCarry DEF Learn, LearnCredential, LearnRefusal, LearnAcceptance, LearnRejection
<1>3. ASSUME NEW r \in Requests, GiveUp(r) \/ RequestFails(r) PROVE Carried
  BY <1>1, <1>3, WaysCarry DEF GiveUp, RequestFails
<1>4. ASSUME NEW m \in Machines, NEW r \in Requests, Agent(m, r) PROVE Carried
  BY <1>1, <1>4, SendCarries DEF Agent, StartEnrolling, Beat, CheckNow, SignIn
<1>5. ASSUME NEW r \in Requests, FindDevice(r) PROVE Carried
  <2>1. CASE GoTo(r, "create")
    BY <1>1, <2>1, WaysCarry DEF Steps
  <2>2. ASSUME NEW d \in Devices, Exists(d), devices[d].machine = requests[r].machine,
               requests' = [requests EXCEPT ![r].step = "reuse", ![r].cred = [device |-> d, key |-> 1]]
        PROVE  Carried
    <3> DEFINE c == [device |-> d, key |-> 1]
               row == [requests[r] EXCEPT !.step = "reuse", !.cred = c]
    <3>1. requests[r] \in RequestRows /\ requests \in [Requests -> RequestRows]
      BY <1>1 DEF TypeOK
    <3>2. requests' = [requests EXCEPT ![r] = row]
      BY <2>2, <3>1
    <3>3. row.cred = c /\ row.machine = requests[r].machine
      BY <3>1 DEF RequestRows
    <3>4. UNCHANGED devices /\ devices[d].key >= 1
      BY <1>5, <2>2 DEF FindDevice, rows, OwnInv, KeyedRows
    <3>5. OwnNext(c, requests[r].machine)
      BY <2>2, <3>4, EnrolmentAssumption DEF OwnNext, Exists
    <3> HIDE DEF c, row
    <3>6. Origin(row.cred, row.machine)
      BY <3>3, <3>5 DEF Origin
    <3> QED
      BY <1>1, <3>2, <3>6, OneCarries
  <2> QED
    BY <1>5, <2>1, <2>2 DEF FindDevice
<1>6. ASSUME NEW r \in Requests, ReuseDevice(r) PROVE Carried
  <2> DEFINE d == requests[r].cred.device
             c == [device |-> d, key |-> devices[d].key + 1]
  <2>1. d \in Devices /\ Answer(r, "enrolled", c)
    BY <1>6 DEF ReuseDevice, EnrolInv, ReusedIsFound
  <2>2. devices[d] \in DeviceRows /\ devices[d].key \in Nat
    BY <1>1, <2>1, EnrolmentAssumption DEF DeviceRows
  <2>3. /\ devices'[d].status = "pending" /\ devices'[d].machine = devices[d].machine
        /\ devices'[d].key = devices[d].key + 1
    BY <1>1, <1>6, <2>1, <2>2 DEF ReuseDevice, DeviceRows
  <2>4. devices[d].machine = requests[r].machine
    <3>1. requests[r].cred # NoCredential
      BY <2>1, EnrolmentAssumption DEF NoCredential
    <3> QED
      BY <3>1 DEF OwnInv, CredentialsAreOwn, Own
  <2>5. OwnNext(c, requests[r].machine)
    BY <2>2, <2>3, <2>4 DEF OwnNext
  <2>6. Origin(c, requests[r].machine)
    BY <2>5 DEF Origin
  <2> HIDE DEF c
  <2> QED
    BY <1>1, <2>1, <2>6, AnswerCarries
<1>7. ASSUME NEW r \in Requests, CreateDevice(r) PROVE Carried
  <2>1. PICK d \in Devices :
          /\ devices' = [devices EXCEPT ![d] =
               [status |-> "pending", key |-> 1, machine |-> requests[r].machine]]
          /\ Answer(r, "enrolled", [device |-> d, key |-> 1])
    BY <1>7 DEF CreateDevice
  <2> DEFINE c == [device |-> d, key |-> 1]
  <2>2. devices'[d] = [status |-> "pending", key |-> 1, machine |-> requests[r].machine]
    BY <1>1, <2>1
  <2>3. OwnNext(c, requests[r].machine)
    BY <2>2 DEF OwnNext
  <2>4. Origin(c, requests[r].machine)
    BY <2>3 DEF Origin
  <2> HIDE DEF c
  <2> QED
    BY <1>1, <2>1, <2>4, AnswerCarries DEF c
<1>8. ASSUME NEW r \in Requests,
             \/ ClaimUse(r) \/ RefuseUse(r) \/ CountUses(r) \/ ExhaustToken(r)
             \/ Authenticate(r) \/ StoreCheckIn(r)
      PROVE  Carried
  <2>1. \/ \E step \in Steps : GoTo(r, step)
        \/ \E outcome \in Answers : Answer(r, outcome, NoCredential)
    BY <1>8 DEF ClaimUse, RefuseUse, CountUses, ExhaustToken, Authenticate, StoreCheckIn, Steps, Answers
  <2> QED
    BY <1>1, <2>1, WaysCarry, AnswerCarries
<1>9. CASE UNCHANGED requests
  BY <1>9 DEF Carried, Origin
<1>10. CASE \/ RevokeToken \/ \E d \in Devices : Revoke(d) \/ RotateSecret(d)
            \/ \E m \in Machines : StartBeating(m) \/ StopLoop(m)
            \/ UNCHANGED vars
  BY <1>9, <1>10 DEF RevokeToken, Revoke, RotateSecret, StartBeating, StopLoop, vars
<1> QED
  BY <1>2, <1>3, <1>4, <1>5, <1>6, <1>7, <1>8, <1>10 DEF Next, Serve

\* Every step keeps the credentials the machines' own.
LEMMA NextOwn == EnrolInv /\ EnrolInv' /\ OwnInv /\ [Next]_vars => OwnInv'
<1> SUFFICES ASSUME EnrolInv, EnrolInv', OwnInv, [Next]_vars PROVE OwnInv'
  OBVIOUS
<1>1. Held /\ Carried /\ RowsStay /\ KeyedRows'
  BY NextHeld, NextCarried, NextRows
<1>2. \A m \in Machines : OwnNext(file'[m], m) /\ OwnNext(loop'[m].cred, m)
  BY <1>1, OriginOwn DEF Held
<1>3. \A r \in Requests : OwnNext(requests'[r].cred, requests'[r].machine)
  BY <1>1, OriginOwn DEF Carried
<1>4. CredentialsAreOwn'
  BY <1>2, <1>3 DEF CredentialsAreOwn, Own, OwnNext, Exists
<1> QED
  BY <1>1, <1>4 DEF OwnInv

\* The invariant holds in every behaviour.
THEOREM OwnInvariant == Spec => []OwnInv
<1>1. Init => OwnInv
  BY DEF Init, OwnInv, CredentialsAreOwn, Own, KeyedRows, Exists, StoppedLoop, FreeRequest, NoRow
<1> QED
  BY <1>1, NextOwn, EnrolInvariant, PTL DEF Spec

\* However sign-ins, enrolments, lost answers and restarts interleave, what a
\* machine holds or sends was issued for a device of its own.
THEOREM CredentialsOwn == Spec => []CredentialsAreOwn
<1>1. OwnInv => CredentialsAreOwn
  BY DEF OwnInv
<1> QED
  BY <1>1, OwnInvariant, PTL

\* One increment of the key id shuts out every credential of the device.
THEOREM RotationsSupersede == Spec => RotationSupersedes
<1> DEFINE Superseded(d) ==
       /\ \A m \in Machines :
            \A c \in {file'[m], loop'[m].cred} : c.device = d => c.key < devices'[d].key
       /\ \A r \in Requests :
            requests'[r].cred.device = d => requests'[r].cred.key < devices'[d].key
<1>1. ASSUME EnrolInv, OwnInv, NEW d \in Devices, RotateSecret(d) PROVE Superseded(d)
  <2>1. devices[d] \in DeviceRows /\ devices[d].key \in Nat /\ d # None
    BY <1>1, EnrolmentAssumption DEF EnrolInv, TypeOK, DeviceRows
  <2>2. devices'[d].key = devices[d].key + 1 /\ UNCHANGED <<file, loop, requests>>
    BY <1>1, <2>1 DEF RotateSecret, EnrolInv, TypeOK, DeviceRows, agents
  <2>3. ASSUME NEW c \in Stored, NEW m, Own(c, m), c.device = d PROVE c.key < devices'[d].key
    <3>1. c # NoCredential
      BY <2>1, <2>3 DEF NoCredential
    <3>2. c.key <= devices[d].key /\ c.key \in Nat
      BY <2>3, <3>1, EnrolmentAssumption DEF Own, Stored, Credentials
    <3> QED
      BY <2>1, <2>2, <3>2
  <2>4. /\ \A m \in Machines : file[m] \in Stored /\ loop[m].cred \in Stored
        /\ \A r \in Requests : requests[r].cred \in Stored
    BY <1>1 DEF EnrolInv, TypeOK, Loops, RequestRows
  <2>5. /\ \A m \in Machines : Own(file[m], m) /\ Own(loop[m].cred, m)
        /\ \A r \in Requests : Own(requests[r].cred, requests[r].machine)
    BY <1>1 DEF OwnInv, CredentialsAreOwn
  <2> QED
    BY <2>2, <2>3, <2>4, <2>5
<1>2. EnrolInv /\ OwnInv => [\A d \in Devices : RotateSecret(d) => Superseded(d)]_vars
  BY <1>1
<1> QED
  BY <1>2, EnrolInvariant, OwnInvariant, PTL DEF RotationSupersedes
=============================================================================
