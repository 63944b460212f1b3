--------------------------- MODULE DirectorySync ---------------------------
(***************************************************************************)
(* Who may log in, as far as it follows a company directory.               *)
(*                                                                         *)
(*   apps/api/src/modules/directory-sync/service.ee.ts    runs              *)
(*   apps/api/src/modules/directory-sync/scheduler.ee.ts  their timer       *)
(*   apps/api/src/modules/people/service.ts               admins' decisions *)
(*   apps/api/src/modules/auth/service.ts                 login             *)
(*                                                                         *)
(* One tenant and one provider.  A run reads the directory once and then   *)
(* walks through it statement by statement, while the directory changes,   *)
(* admins decide on people, and the configuration is changed or deleted,   *)
(* which deletes its runs and mappings.  Roles other than owner, names and *)
(* counters are left out, and so is the deletion of people; an account    *)
(* keeps its e-mail address, and a person is looked up by it.              *)
(***************************************************************************)
EXTENDS Naturals, FiniteSets

CONSTANTS
    People,     \* e-mail addresses: a User with its Person
    Owners,     \* those whose role is owner
    Accounts,   \* ids of the directory
    Address,    \* the address of an account
    RunIds,     \* DirectorySyncRun rows that exist at a time
    Timers,     \* the schedulers of the API processes
    Users,      \* POST /configs/:provider/sync in progress
    Defaults,   \* the defaultStatus admins choose from
    MAX_USERS,  \* 5000: the users one fetch returns at most
    MaxChanges, \* bound on what admins do
    MaxFaults   \* bound on failed calls, failed statements and crashes

Nobody == "nobody"

ASSUME DirectoryAssumption ==
    /\ Owners \subseteq People
    /\ Address \in [Accounts -> People]
    /\ Timers \intersect Users = {}
    /\ Nobody \notin Timers \union Users
    /\ Defaults \subseteq {"invited", "active"} /\ Defaults # {}
    /\ MAX_USERS \in Nat
    /\ MaxChanges \in Nat
    /\ MaxFaults \in Nat

VARIABLES
    directory,  \* the provider's accounts
    config,     \* the DirectorySyncConfig row
    runs,       \* DirectorySyncRun rows
    mapping,    \* ExternalIdentityMapping rows: the run that last saw an account
    person,     \* Person.status
    lock,       \* holder of the advisory lock
    requests,   \* invocations of enqueueDirectorySyncRun
    exec,       \* invocations of executeDirectorySyncRun, by their run
    changes, faults

world == <<directory, changes>>
vars == <<directory, config, runs, mapping, person, lock, requests, exec, changes, faults>>

-----------------------------------------------------------------------------
(* Types *)

Invocations == Timers \union Users
Statuses == {"none", "invited", "active", "suspended", "offboarded"}
Listed == {"active", "disabled"}

\* What an execution holds: the accounts it fetched, those it has still to
\* visit, the people it found stale, the configuration it started from, the
\* account or person at hand, and the row it read of it.
Execution ==
    [pc : {"idle", "start", "fetch", "find", "write", "map", "findStale", "readStale",
           "suspend", "finish", "stamp", "fail", "stampFailed"},
     users : UNION {[S -> Listed] : S \in SUBSET Accounts},
     todo : SUBSET Accounts, stale : SUBSET People, status : {"invited", "active"},
     account : Accounts \union {Nobody}, target : People \union {Nobody}, row : Statuses]

NoExecution == [pc |-> "idle", users |-> <<>>, todo |-> {}, stale |-> {}, status |-> "invited",
                account |-> Nobody, target |-> Nobody, row |-> "none"]

TypeOK ==
    /\ directory \in [Accounts -> Listed \union {"none"}]
    /\ config \in [state : {"none", "enabled", "disabled"}, status : {"invited", "active"},
                   due : BOOLEAN]
    /\ runs \in [RunIds -> {"none", "pending", "running", "finished"}]
    /\ mapping \in [Accounts -> RunIds \union {"none", "earlier"}]
    /\ person \in [People -> Statuses]
    /\ lock \in Invocations \union {Nobody}
    /\ requests \in [Invocations -> {"idle", "begin", "check", "create"}]
    /\ exec \in [RunIds -> Execution]
    /\ changes \in 0..MaxChanges
    /\ faults \in 0..MaxFaults

Init ==
    /\ directory \in [Accounts -> {"none", "active"}]
    /\ config \in [state : {"enabled"}, status : Defaults, due : {TRUE}]
    /\ runs = [r \in RunIds |-> "none"]
    /\ mapping = [a \in Accounts |-> "none"]
    /\ person = [p \in People |-> IF p \in Owners THEN "active" ELSE "none"]
    /\ lock = Nobody
    /\ requests = [q \in Invocations |-> "idle"]
    /\ exec = [r \in RunIds |-> NoExecution]
    /\ changes = 0
    /\ faults = 0

InFlight(r) == runs[r] \in {"pending", "running"}
AccountsOf(p) == {a \in Accounts : Address[a] = p}

\* completeLogin admits active and invited people.
Admitted(p) == person[p] \in {"active", "invited"}

-----------------------------------------------------------------------------
(* The directory, admins and people *)

\* Accounts are created, disabled, enabled and deleted at the provider.
DirectoryChanges(a) ==
    /\ directory' \in {[directory EXCEPT ![a] = s] : s \in {"none", "active", "disabled"}}
    /\ directory' # directory
    /\ UNCHANGED <<config, runs, mapping, person, lock, requests, exec, changes, faults>>

Change ==
    /\ changes < MaxChanges
    /\ changes' = changes + 1
    /\ UNCHANGED <<directory, lock, requests, exec, faults>>

\* upsertDirectorySyncConfig and patchDirectorySyncConfig: a new row was
\* never synchronised and is due.
SaveConfig ==
    /\ Change
    /\ \E s \in {"enabled", "disabled"}, d \in Defaults :
           config' = [state |-> s, status |-> d,
                      due |-> config.state = "none" \/ config.due]
    /\ config' # config
    /\ UNCHANGED <<runs, mapping, person>>

\* deleteDirectorySyncConfig: runs and mappings go with the row.
DeleteConfig ==
    /\ Change
    /\ config.state # "none"
    /\ config' = [config EXCEPT !.state = "none", !.due = FALSE]
    /\ runs' = [r \in RunIds |-> "none"]
    /\ mapping' = [a \in Accounts |-> "none"]
    /\ UNCHANGED person

\* createPerson and inviteUser.
AddPerson(p) ==
    /\ Change
    /\ person[p] = "none"
    /\ \E s \in {"active", "invited"} : person' = [person EXCEPT ![p] = s]
    /\ UNCHANGED <<config, runs, mapping>>

\* updatePersonStatus.
SetStatus(p) ==
    /\ Change
    /\ p \notin Owners /\ person[p] # "none"
    /\ \E s \in Statuses \ {"none", person[p]} : person' = [person EXCEPT ![p] = s]
    /\ UNCHANGED <<config, runs, mapping>>

\* The first login of somebody who was invited.
Login(p) ==
    /\ person[p] = "invited"
    /\ person' = [person EXCEPT ![p] = "active"]
    /\ UNCHANGED <<world, config, runs, mapping, lock, requests, exec, faults>>

\* syncFrequencyMinutes have passed since lastSyncAt.
DueAgain ==
    /\ config.state # "none" /\ ~config.due
    /\ config' = [config EXCEPT !.due = TRUE]
    /\ UNCHANGED <<world, runs, mapping, person, lock, requests, exec, faults>>

-----------------------------------------------------------------------------
(* enqueueDirectorySyncRun *)

Asked(q, pc) ==
    /\ requests' = [requests EXCEPT ![q] = pc]
    /\ UNCHANGED <<world, config, mapping, person, faults>>

\* The transaction ends and with it the lock.
Answered(q) ==
    /\ Asked(q, "idle")
    /\ lock' = IF lock = q THEN Nobody ELSE lock

SchedulerTick(q) ==
    /\ q \in Timers /\ requests[q] = "idle"
    /\ config.state = "enabled" /\ config.due
    /\ Asked(q, "begin")
    /\ UNCHANGED <<lock, runs, exec>>

RequestSync(q) ==
    /\ q \in Users /\ requests[q] = "idle"
    /\ config.state # "none"
    /\ Asked(q, "begin")
    /\ UNCHANGED <<lock, runs, exec>>

\* The configuration is read and the lock tried for.
Refused(q) == \/ config.state = "none"
              \/ config.state = "disabled" /\ q \in Timers

\* Broken: the lock is not waited for.
TryLockInVain(q) ==
    /\ requests[q] = "begin"
    /\ \/ /\ Refused(q)
          /\ Answered(q)
       \/ /\ ~Refused(q)
          /\ lock' = q
          /\ Asked(q, "check")
    /\ UNCHANGED <<runs, exec>>

TryLock(q) ==
    /\ requests[q] = "begin"
    /\ \/ /\ Refused(q) \/ lock # Nobody
          /\ Answered(q)
       \/ /\ ~Refused(q) /\ lock = Nobody
          /\ lock' = q
          /\ Asked(q, "check")
    /\ UNCHANGED <<runs, exec>>

CheckInFlight(q) ==
    /\ requests[q] = "check"
    /\ IF \E r \in RunIds : InFlight(r)
         THEN Answered(q)
         ELSE Asked(q, "create") /\ UNCHANGED lock
    /\ UNCHANGED <<runs, exec>>

\* The run is created, the transaction commits, and the execution is queued in
\* the same process.  Without its configuration the row cannot be created.
CreateRun(q) ==
    /\ requests[q] = "create"
    /\ Answered(q)
    /\ IF config.state = "none"
         THEN UNCHANGED <<runs, exec>>
         ELSE \E r \in RunIds :
                /\ runs[r] = "none" /\ exec[r].pc = "idle"
                /\ runs' = [runs EXCEPT ![r] = "pending"]
                /\ exec' = [exec EXCEPT ![r] = [NoExecution EXCEPT !.pc = "start"]]

-----------------------------------------------------------------------------
(* executeDirectorySyncRun *)

Goes(r, e) ==
    /\ exec' = [exec EXCEPT ![r] = e]
    /\ UNCHANGED <<world, config, lock, requests, faults>>

\* What follows the walk needs nothing of it.
To(r, pc) == Goes(r, [NoExecution EXCEPT !.pc = pc])
Throws(r) == To(r, "fail")

\* The invocation returns or rejects.  A finished row decides nothing any more.
Ends(r) ==
    /\ Goes(r, NoExecution)
    /\ runs' = [runs EXCEPT ![r] = IF @ = "finished" THEN "none" ELSE @]
    /\ UNCHANGED <<mapping, person>>

\* startTime is taken: what was seen before was seen earlier.
Start(r) ==
    /\ exec[r].pc = "start"
    /\ IF runs[r] # "pending"
         THEN Ends(r)
         ELSE /\ runs' = [runs EXCEPT ![r] = "running"]
              /\ mapping' = [a \in Accounts |-> IF mapping[a] = r THEN "earlier" ELSE mapping[a]]
              /\ Goes(r, [exec[r] EXCEPT !.pc = "fetch", !.status = config.status])
              /\ UNCHANGED person

\* fetchDirectoryUsers returns at most MAX_USERS accounts.
Fetch(r) ==
    /\ exec[r].pc = "fetch"
    /\ LET listed == {a \in Accounts : directory[a] # "none"}
       IN \E S \in SUBSET listed :
            /\ IF Cardinality(listed) <= MAX_USERS
                 THEN S = listed ELSE Cardinality(S) = MAX_USERS
            /\ Goes(r, [exec[r] EXCEPT !.users = [a \in S |-> directory[a]], !.todo = S,
                                       !.pc = IF S = {} THEN "findStale" ELSE "find"])
    /\ UNCHANGED <<runs, mapping, person>>

\* Broken: the directory's word is taken for a status.
DesiredUnmapped(r) == exec[r].users[exec[r].account]

\* resolvePersonStatus.
Desired(r) == IF exec[r].users[exec[r].account] = "disabled" THEN "suspended" ELSE exec[r].status

\* Mapping, user and person of the next account.
FindPerson(r) ==
    /\ exec[r].pc = "find"
    /\ \E a \in exec[r].todo :
         Goes(r, [exec[r] EXCEPT !.pc = "write", !.account = a, !.row = person[Address[a]]])
    /\ UNCHANGED <<runs, mapping, person>>

\* A person is created or updated, by what was read of them: creating one who
\* came meanwhile throws.
WritePerson(r) ==
    LET e == exec[r]
        p == Address[e.account]
        Written == Goes(r, [e EXCEPT !.pc = "map", !.row = "none"])
    IN /\ e.pc = "write"
       /\ \/ /\ e.row # "none" /\ (p \in Owners \/ e.row = Desired(r))
             /\ Written
             /\ UNCHANGED person
          \/ /\ e.row = "none" \/ (p \notin Owners /\ e.row # Desired(r))
             /\ IF e.row = "none" /\ person[p] # "none"
                  THEN Throws(r) /\ UNCHANGED person
                  ELSE Written /\ person' = [person EXCEPT ![p] = Desired(r)]
       /\ UNCHANGED <<runs, mapping>>

\* The mapping is upserted, and refers to the configuration of the run.
MapAccount(r) ==
    LET rest == exec[r].todo \ {exec[r].account}
    IN /\ exec[r].pc = "map"
       /\ IF runs[r] = "none"
            THEN Throws(r) /\ UNCHANGED mapping
            ELSE /\ mapping' = [mapping EXCEPT ![exec[r].account] = r]
                 /\ Goes(r, [exec[r] EXCEPT !.account = Nobody, !.todo = rest,
                                              !.pc = IF rest = {} THEN "findStale" ELSE "find"])
       /\ UNCHANGED <<runs, person>>

\* Broken: lastSeenAt <= startTime.
AllAccounts(r) == IF runs[r] = "none" THEN {} ELSE {a \in Accounts : mapping[a] # "none"}

\* Broken: mappings of earlier runs are not looked at.
NoAccounts(r) == {}

\* Mappings of the run's configuration that the run has not seen.
StaleAccounts(r) == IF runs[r] = "none" THEN {} ELSE {a \in Accounts : mapping[a] \notin {"none", r}}

NextStale(stale) == IF stale = {} THEN "finish" ELSE "readStale"

FindStale(r) ==
    /\ exec[r].pc = "findStale"
    /\ LET stale == {Address[a] : a \in StaleAccounts(r)}
       IN Goes(r, [exec[r] EXCEPT !.stale = stale, !.pc = NextStale(stale)])
    /\ UNCHANGED <<runs, mapping, person>>

ReadStale(r) ==
    /\ exec[r].pc = "readStale"
    /\ \E p \in exec[r].stale :
         LET rest == exec[r].stale \ {p}
         IN IF p \in Owners \/ person[p] = "suspended"
              THEN Goes(r, [exec[r] EXCEPT !.stale = rest, !.pc = NextStale(rest)])
              ELSE Goes(r, [exec[r] EXCEPT !.stale = rest, !.target = p, !.pc = "suspend"])
    /\ UNCHANGED <<runs, mapping, person>>

Suspend(r) ==
    /\ exec[r].pc = "suspend"
    /\ person' = [person EXCEPT ![exec[r].target] = "suspended"]
    /\ Goes(r, [exec[r] EXCEPT !.target = Nobody, !.pc = NextStale(exec[r].stale)])
    /\ UNCHANGED <<runs, mapping>>

\* succeeded or failed; a row that is gone makes the statement throw, in the
\* catch block for good.
Finish(r) ==
    /\ exec[r].pc \in {"finish", "fail"}
    /\ IF runs[r] = "none"
         THEN IF exec[r].pc = "finish" THEN To(r, "fail") /\ UNCHANGED <<runs, mapping, person>>
                                       ELSE Ends(r)
         ELSE /\ runs' = [runs EXCEPT ![r] = "finished"]
              /\ To(r, IF exec[r].pc = "finish" THEN "stamp" ELSE "stampFailed")
              /\ UNCHANGED <<mapping, person>>

\* lastSyncAt is set, after a failure too.
Stamp(r) ==
    /\ exec[r].pc \in {"stamp", "stampFailed"}
    /\ exec' = [exec EXCEPT ![r] = NoExecution]
    /\ runs' = [runs EXCEPT ![r] = "none"]
    /\ config' = IF runs[r] = "none" THEN config ELSE [config EXCEPT !.due = FALSE]
    /\ UNCHANGED <<world, mapping, person, lock, requests, faults>>

-----------------------------------------------------------------------------
(* Faults *)

Fault == faults < MaxFaults /\ faults' = faults + 1

\* A statement or a call fails: inside the try block the run fails, elsewhere the
\* invocation rejects and leaves the row as it is.
StatementFails(r) ==
    /\ Fault
    /\ exec[r].pc # "idle"
    /\ IF exec[r].pc \in {"start", "fail", "stampFailed"}
         THEN /\ exec' = [exec EXCEPT ![r] = NoExecution]
              /\ runs' = [runs EXCEPT ![r] = IF @ = "finished" THEN "none" ELSE @]
         ELSE /\ exec' = [exec EXCEPT ![r] = [NoExecution EXCEPT !.pc = "fail"]]
              /\ UNCHANGED runs
    /\ UNCHANGED <<world, config, mapping, person, lock, requests>>

\* A process dies with the execution at work in it.
Crash(r) ==
    /\ Fault
    /\ exec[r].pc # "idle"
    /\ exec' = [exec EXCEPT ![r] = NoExecution]
    /\ runs' = [runs EXCEPT ![r] = IF @ = "finished" THEN "none" ELSE @]
    /\ UNCHANGED <<world, config, mapping, person, lock, requests>>

\* A transaction fails and is rolled back.
RequestFails(q) ==
    /\ Fault
    /\ requests[q] # "idle"
    /\ requests' = [requests EXCEPT ![q] = "idle"]
    /\ lock' = IF lock = q THEN Nobody ELSE lock
    /\ UNCHANGED <<world, config, runs, mapping, person, exec>>

-----------------------------------------------------------------------------
(* Specification *)

Enqueue(q) == TryLock(q) \/ CheckInFlight(q) \/ CreateRun(q)

Execute(r) ==
    \/ Start(r) \/ Fetch(r)
    \/ FindPerson(r) \/ WritePerson(r) \/ MapAccount(r)
    \/ FindStale(r) \/ ReadStale(r) \/ Suspend(r)
    \/ Finish(r) \/ Stamp(r)

Next ==
    \/ \E a \in Accounts : DirectoryChanges(a)
    \/ SaveConfig \/ DeleteConfig \/ DueAgain
    \/ \E p \in People : AddPerson(p) \/ SetStatus(p) \/ Login(p)
    \/ \E q \in Invocations : SchedulerTick(q) \/ RequestSync(q) \/ Enqueue(q) \/ RequestFails(q)
    \/ \E r \in RunIds : Execute(r) \/ StatementFails(r) \/ Crash(r)

Spec == Init /\ [][Next]_vars

\* Timers tick and statements return.  Admins, people, the provider and faults
\* do as they like.
Fairness ==
    /\ WF_vars(DueAgain)
    /\ \A q \in Timers : WF_vars(SchedulerTick(q))
    /\ \A q \in Invocations : WF_vars(Enqueue(q))
    /\ \A r \in RunIds : WF_vars(Execute(r))

FairSpec == Spec /\ Fairness

-----------------------------------------------------------------------------
(* Properties *)

\* The configuration has at most one run in flight: overlapping requests and
\* timers of several processes do not start two, although each looks for a run
\* in one statement and creates one in another (service.ee.ts:274).
OneRunInFlight == Cardinality({r \in RunIds : InFlight(r)}) <= 1

\* A run suspends somebody only for an account that the directory, when the run
\* asked, listed as disabled or did not list, whatever earlier runs, other
\* configurations or accounts of the same person left behind.
HasCause(r, p) ==
    \E a \in AccountsOf(p) :
        \/ a \notin DOMAIN exec[r].users
        \/ exec[r].users[a] = "disabled"

SuspensionHasCause ==
    [][\A p \in People :
         (Admitted(p) /\ person'[p] = "suspended" /\ UNCHANGED changes)
         => \E r \in RunIds : exec'[r] # exec[r] /\ HasCause(r, p)]_vars

\* Whatever the directory says of their accounts, the owners of the organisation
\* may log in: a run that writes or suspends people by rows it read earlier
\* never touches theirs (service.ee.ts:405, 463).
OwnersKeepAccess == \A p \in Owners : person[p] = "active"

\* An execution was lost, or ended without a word on its run.
Stranded == \E r \in RunIds : InFlight(r) /\ exec[r].pc = "idle"

\* The directory no longer has an active account of somebody it had, and knows
\* nothing else of them, while the synchronisation is on.
Gone(p) ==
    /\ config.state = "enabled" /\ ~Stranded
    /\ \E a \in AccountsOf(p) : mapping[a] # "none" \/ directory[a] = "disabled"
    /\ \A a \in AccountsOf(p) : directory[a] # "active"

\* Who left the directory for good is locked out for good, whatever admins did to
\* their row, whatever failed, and however often the configuration was changed,
\* unless they own the organisation or an execution was lost (service.ee.ts:449).
LeaversLoseAccess ==
    \A p \in People \ Owners : <>[]Gone(p) => <>[]~Admitted(p)

-----------------------------------------------------------------------------
(* Properties that do not hold *)

\* checklists.ts:6: offboarded people can't log in.  A run gives an
\* offboarded person the status of their account again.
OffboardedStaysOut ==
    [][\A p \in People : (person[p] = "offboarded" /\ UNCHANGED changes)
                         => person'[p] \notin {"active", "invited"}]_vars

\* docs/auth-providers.md:217: a sync every 24 hours or 7 days.  A lost execution
\* leaves a run in flight for ever, which refuses every other.
SyncsRecur == <>[](config.state = "enabled") => []<>(\E r \in RunIds : exec[r].pc = "fetch")

\* docs/people.md:81: people whose mapping disappeared are suspended.  A person
\* with a new account is suspended for the old one.
ActiveAccountsKeepAccess ==
    [][\A p \in People :
         (Admitted(p) /\ person'[p] = "suspended" /\ UNCHANGED changes)
         => ~\E r \in RunIds, a \in AccountsOf(p) :
               /\ exec'[r] # exec[r]
               /\ a \in DOMAIN exec[r].users /\ exec[r].users[a] = "active"]_vars
=============================================================================
