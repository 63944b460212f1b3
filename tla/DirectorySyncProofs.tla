------------------------- MODULE DirectorySyncProofs -------------------------
(***************************************************************************)
(* Proofs about DirectorySync, for every set of people, accounts, runs,    *)
(* timers and users and every bound.                                       *)
(*                                                                         *)
(* That one run is in flight needs LockInv: nobody creates a run between   *)
(* the look of a request for runs and its insert.  That a suspension has a *)
(* cause needs to know what stale accounts are.  An execution takes an     *)
(* account for stale when its mapping row was not written by the run; so   *)
(* the accounts it did visit must all have such a row (Seen), whatever     *)
(* other executions write meanwhile.  Others may be at work, left over     *)
(* from a configuration that was deleted, but they have no row, and the    *)
(* mapping of an account is written only by a run that has one (Row).      *)
(***************************************************************************)
EXTENDS DirectorySync, FiniteSetTheorems, TLAPS

\* A request that looks for runs or creates one holds the lock, and what it
\* saw is true until it has created its run.
LockInv ==
    /\ \A q \in Invocations : requests[q] \in {"check", "create"} => lock = q
    /\ \A q \in Invocations : requests[q] = "create" => \A r \in RunIds : ~InFlight(r)
    /\ \A r, s \in RunIds : InFlight(r) /\ InFlight(s) => r = s

\* The directory did not list some account of a person.
Unlisted(e, p) == \E a \in AccountsOf(p) : a \notin DOMAIN e.users

\* The accounts an execution has still to visit are among those it fetched,
\* the one at hand is one of them, and whom it takes for stale has an account
\* it did not fetch.
Sound(e) ==
    /\ e.todo \subseteq DOMAIN e.users
    /\ e.pc \in {"write", "map"} => e.account \in e.todo
    /\ e.pc = "findStale" => e.todo = {}
    /\ e.stale # {} => e.pc \in {"readStale", "suspend"}
    /\ \A p \in e.stale : Unlisted(e, p)
    /\ e.pc = "suspend" => e.target \in People /\ Unlisted(e, e.target)

\* The row of a run at work is running, unless it was deleted with its
\* configuration.
Walks(r) == exec[r].pc \notin {"idle", "start", "stamp", "fail", "stampFailed"}
Row(r) == Walks(r) => runs[r] \in {"running", "none"}

\* The mapping rows of the accounts a run has visited say so.
Seen(r) ==
    exec[r].pc \in {"find", "write", "map", "findStale"} /\ runs[r] # "none" =>
        \A a \in DOMAIN exec[r].users \ exec[r].todo : mapping[a] = r

DirectoryInv ==
    /\ TypeOK
    /\ LockInv
    /\ \A r \in RunIds : Sound(exec[r]) /\ Row(r) /\ Seen(r)

\* What a step of the execution of a run does to the rest: it writes its own
\* row only, puts nothing in flight, and writes mapping rows that are not its
\* own only while its row is running.
Keeps(r) ==
    /\ exec' = [exec EXCEPT ![r] = exec'[r]]
    /\ exec'[r] \in Execution /\ Sound(exec'[r])
    /\ runs' = [runs EXCEPT ![r] = runs'[r]]
    /\ runs'[r] \in {"none", "pending", "running", "finished"}
    /\ InFlight(r)' => InFlight(r)
    /\ Row(r)' /\ Seen(r)'
    /\ mapping' \in [Accounts -> RunIds \union {"none", "earlier"}]
    /\ \A a \in Accounts : mapping[a] # r /\ mapping'[a] # mapping[a] => Walks(r) /\ runs[r] = "running"
    /\ person' \in [People -> Statuses]
    /\ config' \in [state : {"none", "enabled", "disabled"}, status : {"invited", "active"},
                    due : BOOLEAN]
    /\ faults' \in 0..MaxFaults
    /\ UNCHANGED <<directory, lock, requests, changes>>
-----------------------------------------------------------------------------
(***************************************************************************)
(* Executions.                                                             *)
(***************************************************************************)

\* An execution that holds nothing is sound, wherever it is.
LEMMA EmptyHanded ==
    /\ NoExecution \in Execution /\ Sound(NoExecution) /\ NoExecution.pc = "idle"
    /\ \A pc \in {"start", "stamp", "fail", "stampFailed"} :
         LET e == [NoExecution EXCEPT !.pc = pc]
         IN e \in Execution /\ Sound(e) /\ e.pc = pc
<1>1. <<>> \in [{} -> Listed]
  OBVIOUS
<1>2. <<>> \in UNION {[S -> Listed] : S \in SUBSET Accounts}
  BY <1>1
<1> QED
  BY <1>2 DEF NoExecution, Execution, Sound, Statuses

\* What a step of an execution starts from.
LEMMA Before ==
    ASSUME DirectoryInv, NEW r \in RunIds
    PROVE  /\ exec[r] \in Execution /\ exec[r].status \in {"invited", "active"}
           /\ exec[r].users \in UNION {[S -> Listed] : S \in SUBSET Accounts}
           /\ exec[r].todo \subseteq Accounts /\ exec[r].stale \subseteq People
           /\ Sound(exec[r]) /\ Row(r) /\ Seen(r)
           /\ exec \in [RunIds -> Execution]
           /\ runs \in [RunIds -> {"none", "pending", "running", "finished"}]
           /\ mapping \in [Accounts -> RunIds \union {"none", "earlier"}]
           /\ person \in [People -> Statuses]
           /\ config \in [state : {"none", "enabled", "disabled"}, status : {"invited", "active"},
                          due : BOOLEAN]
           /\ faults \in 0..MaxFaults
BY DEF DirectoryInv, TypeOK, Execution

\* A step that only takes an execution to another place is checked by what is
\* true of that place.
LEMMA Moves ==
    ASSUME DirectoryInv, NEW r \in RunIds, NEW e \in Execution, Goes(r, e),
           UNCHANGED <<runs, mapping, person>>,
           Sound(e), Row(r)', Seen(r)'
    PROVE  Keeps(r)
BY Before DEF Keeps, Goes, InFlight, world

\* An execution that holds nothing has seen and walks nothing.
LEMMA EmptyHandedRow ==
    ASSUME NEW r \in RunIds, NEW pc \in {"idle", "start", "stamp", "fail", "stampFailed"},
           exec'[r].pc = pc
    PROVE  Row(r)' /\ Seen(r)'
BY DEF Row, Seen, Walks

\* After its walk, or on its way to fail.
LEMMA ToKeeps ==
    ASSUME DirectoryInv, NEW r \in RunIds, NEW pc \in {"stamp", "fail", "stampFailed"},
           To(r, pc), UNCHANGED <<mapping, person>>,
           runs' = [runs EXCEPT ![r] = runs'[r]],
           runs'[r] \in {"none", "finished", runs[r]}
    PROVE  Keeps(r)
<1>1. exec' = [exec EXCEPT ![r] = [NoExecution EXCEPT !.pc = pc]]
  BY DEF To, Goes
<1>2. exec'[r] = [NoExecution EXCEPT !.pc = pc]
  BY <1>1, Before
<1>3. exec'[r] \in Execution /\ Sound(exec'[r]) /\ Row(r)' /\ Seen(r)'
  BY <1>2, EmptyHanded, EmptyHandedRow
<1> QED
  BY <1>1, <1>2, <1>3, Before DEF Keeps, To, Goes, InFlight, world

\* An execution ends.
LEMMA EndKeeps ==
    ASSUME DirectoryInv, NEW r \in RunIds, exec' = [exec EXCEPT ![r] = NoExecution],
           runs' = [runs EXCEPT ![r] = runs'[r]],
           runs'[r] \in {"none", runs[r]},
           config' \in [state : {"none", "enabled", "disabled"}, status : {"invited", "active"},
                        due : BOOLEAN],
           faults' \in 0..MaxFaults,
           UNCHANGED <<world, mapping, person, lock, requests>>
    PROVE  Keeps(r)
<1>1. exec'[r] = NoExecution
  BY Before
<1>2. exec'[r] \in Execution /\ Sound(exec'[r]) /\ Row(r)' /\ Seen(r)'
  BY <1>1, EmptyHanded, EmptyHandedRow
<1> QED
  BY <1>1, <1>2, Before DEF Keeps, InFlight, world

\* A step that ends an execution that way.
LEMMA EndsKeeps ==
    ASSUME DirectoryInv, NEW r \in RunIds, Ends(r) PROVE Keeps(r)
<1>1. runs'[r] \in {"none", runs[r]}
  BY Before DEF Ends
<1>2. runs' = [runs EXCEPT ![r] = runs'[r]]
  BY Before DEF Ends
<1> QED
  BY <1>1, <1>2, EndKeeps, Before DEF Ends, Goes
-----------------------------------------------------------------------------
\* A run that starts has visited nobody.
LEMMA StartKeeps == ASSUME DirectoryInv, NEW r \in RunIds, Start(r) PROVE Keeps(r)
<1>1. CASE runs[r] # "pending"
  BY <1>1, EndsKeeps DEF Start
<1>2. CASE runs[r] = "pending"
  <2> DEFINE e == [exec[r] EXCEPT !.pc = "fetch", !.status = config.status]
  <2>1. e \in Execution /\ e.pc = "fetch" /\ Sound(e)
    <3>1. exec[r].pc = "start" /\ exec[r] \in Execution /\ Sound(exec[r])
      BY Before DEF Start
    <3>2. config.status \in {"invited", "active"}
      BY DEF DirectoryInv, TypeOK
    <3>3. /\ e \in Execution /\ e.pc = "fetch"
          /\ e.todo = exec[r].todo /\ e.users = exec[r].users /\ e.stale = exec[r].stale
      BY <3>1, <3>2 DEF Execution
    <3> HIDE DEF e
    <3>4. Sound(e)
      BY <3>1, <3>3 DEF Sound
    <3> QED
      BY <3>3, <3>4
  <2>2. exec' = [exec EXCEPT ![r] = e] /\ exec'[r] = e
    BY <1>2, Before DEF Start, Goes
  <2>3. runs' = [runs EXCEPT ![r] = "running"] /\ runs'[r] = "running"
    BY <1>2, Before DEF Start
  <2>4. Row(r)' /\ Seen(r)'
    BY <2>1, <2>2, <2>3 DEF Row, Seen
  <2>5. mapping' \in [Accounts -> RunIds \union {"none", "earlier"}]
    BY <1>2, Before DEF Start
  <2>6. \A a \in Accounts : mapping[a] # r => mapping'[a] = mapping[a]
    BY <1>2, Before DEF Start
  <2> HIDE DEF e
  <2> QED
    BY <1>2, <2>1, <2>2, <2>3, <2>4, <2>5, <2>6, Before DEF Start, Goes, Keeps, InFlight, world
<1> QED
  BY <1>1, <1>2

\* It has still to visit all it fetched.
LEMMA FetchKeeps == ASSUME DirectoryInv, NEW r \in RunIds, Fetch(r) PROVE Keeps(r)
<1> DEFINE E(S) == [exec[r] EXCEPT !.users = [a \in S |-> directory[a]], !.todo = S,
                                   !.pc = IF S = {} THEN "findStale" ELSE "find"]
<1>1. PICK S \in SUBSET {a \in Accounts : directory[a] # "none"} :
        Goes(r, E(S)) /\ UNCHANGED <<runs, mapping, person>>
  BY DEF Fetch
<1>2. [a \in S |-> directory[a]] \in UNION {[T -> Listed] : T \in SUBSET Accounts}
  <2>1. [a \in S |-> directory[a]] \in [S -> Listed]
    BY <1>1 DEF DirectoryInv, TypeOK
  <2>2. S \in SUBSET Accounts
    BY <1>1
  <2> QED
    BY <2>1, <2>2
<1>3. /\ E(S) \in Execution
      /\ E(S).todo = S /\ DOMAIN E(S).users = S
      /\ E(S).pc = IF S = {} THEN "findStale" ELSE "find"
      /\ E(S).stale = exec[r].stale
  BY <1>1, <1>2, Before DEF Execution
<1>4. exec'[r] = E(S) /\ exec[r].stale = {}
  BY <1>1, Before DEF Goes, Sound, Fetch
<1> HIDE DEF E
<1>5. Sound(E(S))
  BY <1>3, <1>4 DEF Sound
<1>6. Row(r)' /\ Seen(r)'
  <2>1. Walks(r)
    BY DEF Fetch, Walks
  <2> QED
    BY <1>1, <1>3, <1>4, <2>1, Before DEF Row, Seen
<1> QED
  BY <1>1, <1>3, <1>5, <1>6, Moves

\* The account at hand is one it has still to visit.
LEMMA FindPersonKeeps == ASSUME DirectoryInv, NEW r \in RunIds, FindPerson(r) PROVE Keeps(r)
<1> DEFINE E(a) == [exec[r] EXCEPT !.pc = "write", !.account = a, !.row = person[Address[a]]]
<1>1. PICK a \in exec[r].todo : Goes(r, E(a)) /\ UNCHANGED <<runs, mapping, person>>
  BY DEF FindPerson
<1>2. a \in Accounts /\ person[Address[a]] \in Statuses
  BY <1>1, Before, DirectoryAssumption
<1>3. /\ E(a) \in Execution
      /\ E(a).pc = "write" /\ E(a).account = a /\ E(a).todo = exec[r].todo
      /\ E(a).users = exec[r].users /\ E(a).stale = exec[r].stale
  BY <1>2, Before DEF Execution
<1>4. exec'[r] = E(a) /\ exec[r].pc = "find"
  BY <1>1, Before DEF Goes, FindPerson
<1> HIDE DEF E
<1>5. Sound(E(a))
  BY <1>1, <1>3, <1>4, Before DEF Sound
<1>6. Row(r)' /\ Seen(r)'
  BY <1>1, <1>3, <1>4, Before DEF Row, Seen, Walks
<1> QED
  BY <1>1, <1>3, <1>5, <1>6, Moves

\* A directory status and a default are statuses of a person.
LEMMA DesiredStatus ==
    ASSUME DirectoryInv, NEW r \in RunIds
    PROVE  /\ Desired(r) \in Statuses \ {"none"}
           /\ Desired(r) = "suspended" <=> exec[r].users[exec[r].account] = "disabled"
BY Before DEF Desired, Statuses

\* Writing a person leaves rows and mappings alone.
LEMMA WritePersonKeeps == ASSUME DirectoryInv, NEW r \in RunIds, WritePerson(r) PROVE Keeps(r)
<1> DEFINE e == [exec[r] EXCEPT !.pc = "map", !.row = "none"]
<1>1. exec[r].pc = "write" /\ UNCHANGED <<runs, mapping>>
  BY DEF WritePerson
<1>2. person' \in [People -> Statuses]
  BY Before, DesiredStatus DEF WritePerson
<1>3. CASE Throws(r) /\ UNCHANGED person
  BY <1>1, <1>3, ToKeeps, Before DEF Throws
<1>4. CASE Goes(r, e)
  <2>1. /\ e \in Execution /\ e.pc = "map" /\ e.account = exec[r].account
        /\ e.todo = exec[r].todo /\ e.users = exec[r].users /\ e.stale = exec[r].stale
    BY Before DEF Execution, Statuses
  <2>2. exec'[r] = e /\ exec' = [exec EXCEPT ![r] = e]
    BY <1>4, Before DEF Goes
  <2> HIDE DEF e
  <2>3. Sound(e)
    BY <1>1, <2>1, Before DEF Sound
  <2>4. Row(r)' /\ Seen(r)'
    BY <1>1, <2>1, <2>2, Before DEF Row, Seen, Walks
  <2> QED
    BY <1>1, <1>2, <1>4, <2>1, <2>2, <2>3, <2>4, Before DEF Keeps, Goes, InFlight, world
<1> QED
  BY <1>3, <1>4 DEF WritePerson

\* The account leaves what is still to visit with its row written.
LEMMA MapAccountKeeps == ASSUME DirectoryInv, NEW r \in RunIds, MapAccount(r) PROVE Keeps(r)
<1> DEFINE c == exec[r].account
           rest == exec[r].todo \ {c}
           e == [exec[r] EXCEPT !.account = Nobody, !.todo = rest,
                                !.pc = IF rest = {} THEN "findStale" ELSE "find"]
<1>1. exec[r].pc = "map" /\ UNCHANGED <<runs, person>>
  BY DEF MapAccount
<1>2. CASE runs[r] = "none"
  BY <1>1, <1>2, ToKeeps, Before DEF MapAccount, Throws
<1>3. CASE runs[r] # "none"
  <2>1. /\ e \in Execution /\ e.pc = IF rest = {} THEN "findStale" ELSE "find"
        /\ e.todo = rest /\ e.users = exec[r].users /\ e.stale = exec[r].stale
    BY Before DEF Execution
  <2>2. exec'[r] = e /\ exec' = [exec EXCEPT ![r] = e]
    BY <1>3, Before DEF Goes, MapAccount
  <2>3. /\ c \in Accounts /\ mapping' = [mapping EXCEPT ![c] = r]
        /\ mapping' \in [Accounts -> RunIds \union {"none", "earlier"}]
    BY <1>1, <1>3, Before DEF MapAccount, Sound
  <2>4. UNCHANGED <<world, config, lock, requests, faults>>
    BY <1>3 DEF MapAccount, Goes
  <2> HIDE DEF e
  <2>5. Sound(e)
    BY <1>1, <2>1, Before DEF Sound
  <2>6. Walks(r) /\ runs[r] = "running" /\ Row(r)'
    BY <1>1, <1>3, <2>1, <2>2, Before DEF Row, Walks
  <2>7. Seen(r)'
    <3>1. ASSUME NEW a \in DOMAIN exec[r].users \ rest PROVE mapping'[a] = r
      <4>1. a \in Accounts
        BY Before
      <4>2. CASE a = c
        BY <2>3, <4>1, <4>2, Before
      <4>3. CASE a # c
        BY <1>1, <1>3, <2>3, <4>1, <4>3, Before DEF Seen
      <4> QED
        BY <4>2, <4>3
    <3> QED
      BY <2>1, <2>2, <3>1 DEF Seen
  <2>8. runs' = [runs EXCEPT ![r] = runs'[r]]
    BY <1>1, Before
  <2> QED
    BY <1>1, <2>1, <2>2, <2>3, <2>4, <2>5, <2>6, <2>7, <2>8, Before DEF Keeps, InFlight, world
<1> QED
  BY <1>2, <1>3
-----------------------------------------------------------------------------
\* Whoever has a stale account has one that the run did not visit, and the run
\* has visited all it was told of.
LEMMA FindStaleKeeps == ASSUME DirectoryInv, NEW r \in RunIds, FindStale(r) PROVE Keeps(r)
<1> DEFINE stale == {Address[a] : a \in StaleAccounts(r)}
           e == [exec[r] EXCEPT !.stale = stale, !.pc = NextStale(stale)]
<1>1. /\ exec[r].pc = "findStale" /\ Goes(r, e)
      /\ UNCHANGED <<runs, mapping, person>>
  BY DEF FindStale
<1>2. stale \subseteq People
  BY DirectoryAssumption DEF StaleAccounts
<1>3. /\ e \in Execution /\ e.stale = stale /\ e.pc = NextStale(stale)
      /\ e.todo = exec[r].todo /\ e.users = exec[r].users
  BY <1>2, Before DEF Execution, NextStale
<1>4. exec'[r] = e
  BY <1>1, Before DEF Goes
<1>5. \A p \in stale : Unlisted(e, p)
  <2> SUFFICES ASSUME NEW p \in stale PROVE Unlisted(e, p)
    OBVIOUS
  <2>1. PICK a \in StaleAccounts(r) : p = Address[a]
    OBVIOUS
  <2>2. a \in Accounts /\ runs[r] # "none" /\ mapping[a] # r
    BY <2>1 DEF StaleAccounts
  <2>3. a \notin DOMAIN exec[r].users
    BY <1>1, <2>2, Before DEF Sound, Seen
  <2> QED
    BY <1>3, <2>1, <2>2, <2>3 DEF Unlisted, AccountsOf
<1> HIDE DEF e, stale
<1>6. Sound(e)
  BY <1>1, <1>3, <1>5, Before DEF Sound, NextStale
<1>7. Row(r)' /\ Seen(r)'
  BY <1>1, <1>3, <1>4, Before DEF Row, Seen, Walks, NextStale
<1> QED
  BY <1>1, <1>3, <1>6, <1>7, Moves

\* Who is left, and who is at hand, were stale before.
LEMMA ReadStaleKeeps == ASSUME DirectoryInv, NEW r \in RunIds, ReadStale(r) PROVE Keeps(r)
<1> DEFINE rest(p) == exec[r].stale \ {p}
           Skip(p) == [exec[r] EXCEPT !.stale = rest(p), !.pc = NextStale(rest(p))]
           Take(p) == [exec[r] EXCEPT !.stale = rest(p), !.target = p, !.pc = "suspend"]
<1>1. PICK p \in exec[r].stale : Goes(r, Skip(p)) \/ Goes(r, Take(p))
  BY DEF ReadStale
<1>2. exec[r].pc = "readStale" /\ UNCHANGED <<runs, mapping, person>>
  BY DEF ReadStale
<1>3. CASE Goes(r, Skip(p))
  <2> DEFINE e == Skip(p)
  <2>1. /\ e \in Execution /\ e.stale = rest(p) /\ e.pc = NextStale(rest(p))
        /\ e.todo = exec[r].todo /\ e.users = exec[r].users
    BY Before DEF Execution, NextStale
  <2>2. exec'[r] = e
    BY <1>3, Before DEF Goes
  <2>3. Sound(e)
    BY <1>2, <2>1, Before DEF Sound, NextStale, Unlisted
  <2>4. Row(r)' /\ Seen(r)'
    BY <1>2, <2>1, <2>2, Before DEF Row, Seen, Walks, NextStale
  <2> QED
    BY <1>2, <1>3, <2>1, <2>3, <2>4, Moves
<1>4. CASE Goes(r, Take(p))
  <2> DEFINE e == Take(p)
  <2>1. /\ e \in Execution /\ e.stale = rest(p) /\ e.pc = "suspend" /\ e.target = p
        /\ e.todo = exec[r].todo /\ e.users = exec[r].users
    BY Before DEF Execution
  <2>2. exec'[r] = e
    BY <1>4, Before DEF Goes
  <2>3. Sound(e)
    BY <1>2, <2>1, Before DEF Sound, Unlisted
  <2>4. Row(r)' /\ Seen(r)'
    BY <1>2, <2>1, <2>2, Before DEF Row, Seen, Walks
  <2> QED
    BY <1>2, <1>4, <2>1, <2>3, <2>4, Moves
<1> QED
  BY <1>1, <1>3, <1>4

\* Suspending somebody leaves the rest of the stale people to do.
LEMMA SuspendKeeps == ASSUME DirectoryInv, NEW r \in RunIds, Suspend(r) PROVE Keeps(r)
<1> DEFINE e == [exec[r] EXCEPT !.target = Nobody, !.pc = NextStale(exec[r].stale)]
<1>1. exec[r].pc = "suspend" /\ Goes(r, e) /\ UNCHANGED <<runs, mapping>>
  BY DEF Suspend
<1>2. person' \in [People -> Statuses]
  BY Before DEF Suspend, Statuses
<1>3. /\ e \in Execution /\ e.stale = exec[r].stale /\ e.pc = NextStale(exec[r].stale)
      /\ e.todo = exec[r].todo /\ e.users = exec[r].users
  BY Before DEF Execution, NextStale
<1>4. exec' = [exec EXCEPT ![r] = e] /\ exec'[r] = e
  BY <1>1, Before DEF Goes
<1> HIDE DEF e
<1>5. Sound(e)
  BY <1>1, <1>3, Before DEF Sound, NextStale, Unlisted
<1>6. Row(r)' /\ Seen(r)'
  BY <1>1, <1>3, <1>4, Before DEF Row, Seen, Walks, NextStale
<1> QED
  BY <1>1, <1>2, <1>3, <1>4, <1>5, <1>6, Before DEF Keeps, Goes, InFlight, world

\* The row is finished, or gone.
LEMMA FinishKeeps == ASSUME DirectoryInv, NEW r \in RunIds, Finish(r) PROVE Keeps(r)
<1>1. CASE runs[r] = "none" /\ exec[r].pc = "finish"
  BY <1>1, ToKeeps, Before DEF Finish
<1>2. CASE runs[r] = "none" /\ exec[r].pc # "finish"
  BY <1>2, EndsKeeps DEF Finish
<1>3. CASE runs[r] # "none"
  <2>1. PICK pc \in {"stamp", "stampFailed"} : To(r, pc)
    BY <1>3 DEF Finish
  <2>2. /\ runs' = [runs EXCEPT ![r] = "finished"] /\ runs'[r] = "finished"
        /\ UNCHANGED <<mapping, person>>
    BY <1>3, Before DEF Finish
  <2> QED
    BY <2>1, <2>2, ToKeeps
<1> QED
  BY <1>1, <1>2, <1>3

\* The row decides nothing any more.
LEMMA StampKeeps == ASSUME DirectoryInv, NEW r \in RunIds, Stamp(r) PROVE Keeps(r)
<1>1. runs' = [runs EXCEPT ![r] = "none"] /\ runs'[r] = "none"
  BY Before DEF Stamp
<1>2. config' \in [state : {"none", "enabled", "disabled"}, status : {"invited", "active"},
                   due : BOOLEAN]
  BY Before DEF Stamp
<1> QED
  BY <1>1, <1>2, EndKeeps, Before DEF Stamp

\* A statement that fails takes the execution to its catch block, or ends it.
LEMMA StatementFailsKeeps ==
    ASSUME DirectoryInv, NEW r \in RunIds, StatementFails(r) PROVE Keeps(r)
<1>1. faults' \in 0..MaxFaults
  BY Before, DirectoryAssumption DEF StatementFails, Fault
<1>2. UNCHANGED <<world, config, mapping, person, lock, requests>>
  BY DEF StatementFails
<1>3. CASE exec[r].pc \in {"start", "fail", "stampFailed"}
  <2>1. /\ exec' = [exec EXCEPT ![r] = NoExecution]
        /\ runs' = [runs EXCEPT ![r] = IF @ = "finished" THEN "none" ELSE @]
    BY <1>3 DEF StatementFails
  <2>2. runs' = [runs EXCEPT ![r] = runs'[r]] /\ runs'[r] \in {"none", runs[r]}
    BY <2>1, Before
  <2> QED
    BY <1>1, <1>2, <2>1, <2>2, EndKeeps, Before
<1>4. CASE exec[r].pc \notin {"start", "fail", "stampFailed"}
  <2>1. /\ exec' = [exec EXCEPT ![r] = [NoExecution EXCEPT !.pc = "fail"]]
        /\ UNCHANGED runs
    BY <1>4 DEF StatementFails
  <2>2. exec'[r] = [NoExecution EXCEPT !.pc = "fail"]
    BY <2>1, Before
  <2>3. exec'[r] \in Execution /\ Sound(exec'[r]) /\ Row(r)' /\ Seen(r)'
    BY <2>2, EmptyHanded, EmptyHandedRow
  <2> QED
    BY <1>1, <1>2, <2>1, <2>2, <2>3, Before DEF Keeps, InFlight, world
<1> QED
  BY <1>3, <1>4

\* So does the end of its process.
LEMMA CrashKeeps == ASSUME DirectoryInv, NEW r \in RunIds, Crash(r) PROVE Keeps(r)
<1>1. faults' \in 0..MaxFaults
  BY Before, DirectoryAssumption DEF Crash, Fault
<1>2. runs' = [runs EXCEPT ![r] = runs'[r]] /\ runs'[r] \in {"none", runs[r]}
  BY Before DEF Crash
<1> QED
  BY <1>1, <1>2, EndKeeps, Before DEF Crash
-----------------------------------------------------------------------------
(***************************************************************************)
(* Every step keeps the invariant.                                         *)
(***************************************************************************)

\* Two runs with a row are never at work at the same time.
LEMMA Alone ==
    ASSUME DirectoryInv, NEW r \in RunIds, NEW s \in RunIds,
           runs[r] = "running", Walks(s), runs[s] # "none"
    PROVE  s = r
BY DEF DirectoryInv, LockInv, Row, InFlight

\* Where nothing is put in flight, what a request saw stays true.
LEMMA LockKept ==
    ASSUME LockInv, UNCHANGED <<lock, requests>>,
           \A r \in RunIds : InFlight(r)' => InFlight(r)
    PROVE  LockInv'
BY DEF LockInv

\* An execution leaves the others what they need.
LEMMA KeepsInv == ASSUME DirectoryInv, NEW r \in RunIds, Keeps(r) PROVE DirectoryInv'
<1>1. TypeOK'
  BY DEF Keeps, DirectoryInv, TypeOK
<1>2. \A s \in RunIds \ {r} : exec'[s] = exec[s] /\ runs'[s] = runs[s]
  BY Before DEF Keeps
<1>3. LockInv'
  <2>1. \A s \in RunIds : InFlight(s)' => InFlight(s)
    BY <1>2 DEF Keeps, InFlight
  <2> QED
    BY <2>1, LockKept DEF Keeps, DirectoryInv
<1>4. ASSUME NEW s \in RunIds \ {r} PROVE Sound(exec[s])' /\ Row(s)' /\ Seen(s)'
  <2>1. Sound(exec[s])' /\ Row(s)'
    BY <1>2, Before DEF Row, Walks, Keeps
  <2>2. Seen(s)'
    <3> SUFFICES ASSUME exec[s].pc \in {"find", "write", "map", "findStale"}, runs[s] # "none",
                        NEW a \in DOMAIN exec[s].users \ exec[s].todo
                 PROVE  mapping'[a] = s
      BY <1>2 DEF Seen
    <3>1. a \in Accounts /\ mapping[a] = s
      BY Before DEF Seen
    <3>2. CASE mapping'[a] = mapping[a]
      BY <3>1, <3>2
    <3>3. CASE mapping'[a] # mapping[a]
      <4>1. runs[r] = "running"
        BY <3>1, <3>3 DEF Keeps
      <4> QED
        BY <4>1, Alone DEF Walks
    <3> QED
      BY <3>2, <3>3
  <2> QED
    BY <2>1, <2>2
<1> QED
  BY <1>1, <1>3, <1>4 DEF DirectoryInv, Keeps

\* Steps that concern neither executions nor their rows.
LEMMA OutsideInv ==
    ASSUME DirectoryInv, TypeOK', LockInv', UNCHANGED <<exec, runs, mapping>>
    PROVE  DirectoryInv'
BY DEF DirectoryInv, Row, Walks, Seen

\* The configuration takes all rows with it.
LEMMA DeleteConfigInv == ASSUME DirectoryInv, DeleteConfig PROVE DirectoryInv'
<1>1. /\ \A r \in RunIds : runs'[r] = "none"
      /\ UNCHANGED <<directory, lock, requests, exec, faults, person>>
  BY DEF DeleteConfig, Change
<1>2. TypeOK'
  <2>1. config' \in [state : {"none", "enabled", "disabled"}, status : {"invited", "active"},
                     due : BOOLEAN]
    <3> DEFINE off == [config EXCEPT !.state = "none"]
    <3>1. off \in [state : {"none", "enabled", "disabled"}, status : {"invited", "active"},
                   due : BOOLEAN]
      BY DEF DirectoryInv, TypeOK
    <3> HIDE DEF off
    <3>2. [off EXCEPT !.due = FALSE] \in [state : {"none", "enabled", "disabled"},
                                         status : {"invited", "active"}, due : BOOLEAN]
      BY <3>1
    <3> QED
      BY <3>2 DEF DeleteConfig, off
  <2>2. /\ runs' \in [RunIds -> {"none", "pending", "running", "finished"}]
        /\ mapping' \in [Accounts -> RunIds \union {"none", "earlier"}]
    BY DEF DeleteConfig
  <2>3. changes' \in 0..MaxChanges
    BY DirectoryAssumption DEF DeleteConfig, Change, DirectoryInv, TypeOK
  <2> QED
    BY <1>1, <2>1, <2>2, <2>3 DEF DirectoryInv, TypeOK
<1>3. LockInv'
  BY <1>1, LockKept DEF DirectoryInv, InFlight
<1> QED
  BY <1>1, <1>2, <1>3 DEF DirectoryInv, Row, Walks, Seen

\* A request gets the lock when nobody has it, and goes on to create a run
\* when there is none in flight.
LEMMA RequestInv ==
    ASSUME DirectoryInv, NEW q \in Invocations,
           \/ SchedulerTick(q) \/ RequestSync(q) \/ TryLock(q) \/ CheckInFlight(q)
           \/ RequestFails(q)
    PROVE  DirectoryInv'
<1>1. UNCHANGED <<exec, runs, mapping, person, config, directory, changes>>
  BY DEF SchedulerTick, RequestSync, TryLock, CheckInFlight, RequestFails, Asked, Answered, world
<1>2. /\ requests \in [Invocations -> {"idle", "begin", "check", "create"}]
      /\ lock \in Invocations \union {Nobody} /\ faults \in 0..MaxFaults
  BY DEF DirectoryInv, TypeOK
<1>3. \A x \in RunIds : InFlight(x)' <=> InFlight(x)
  BY <1>1 DEF InFlight
<1>4. PICK pc \in {"idle", "begin", "check", "create"} :
        /\ requests' = [requests EXCEPT ![q] = pc]
        /\ \/ pc = "idle" /\ lock' = (IF lock = q THEN Nobody ELSE lock)
           \/ pc = "begin" /\ requests[q] = "idle" /\ lock' = lock
           \/ pc = "check" /\ lock = Nobody /\ lock' = q
           \/ /\ pc = "create" /\ requests[q] = "check" /\ lock' = lock
              /\ \A r \in RunIds : ~InFlight(r)
  BY DEF SchedulerTick, RequestSync, TryLock, CheckInFlight, RequestFails, Asked, Answered
<1>5. TypeOK'
  <2>1. requests' \in [Invocations -> {"idle", "begin", "check", "create"}]
    BY <1>2, <1>4
  <2>2. lock' \in Invocations \union {Nobody}
    BY <1>2, <1>4
  <2>3. faults' \in 0..MaxFaults
    BY <1>2, DirectoryAssumption
       DEF SchedulerTick, RequestSync, TryLock, CheckInFlight, RequestFails, Asked, Answered, Fault
  <2> QED
    BY <1>1, <2>1, <2>2, <2>3 DEF DirectoryInv, TypeOK
<1>6. LockInv'
  <2>1. /\ \A p \in Invocations : p # q => requests'[p] = requests[p]
        /\ requests'[q] = pc
    BY <1>2, <1>4
  <2>2. Nobody \notin Invocations
    BY DirectoryAssumption DEF Invocations
  <2>3. \A p \in Invocations : requests'[p] \in {"check", "create"} => lock' = p
    BY <1>4, <2>1, <2>2 DEF DirectoryInv, LockInv
  <2>4. \A p \in Invocations : requests'[p] = "create" => \A r \in RunIds : ~InFlight(r)
    BY <1>4, <2>1 DEF DirectoryInv, LockInv
  <2> QED
    BY <1>3, <2>3, <2>4 DEF DirectoryInv, LockInv
<1> QED
  BY <1>1, <1>5, <1>6, OutsideInv

\* The run that is created is the only one in flight, and its id is not used
\* by an execution.
LEMMA CreateRunInv == ASSUME DirectoryInv, NEW q \in Invocations, CreateRun(q) PROVE DirectoryInv'
<1>1. /\ requests[q] = "create" /\ requests' = [requests EXCEPT ![q] = "idle"]
      /\ lock' = (IF lock = q THEN Nobody ELSE lock)
      /\ UNCHANGED <<directory, changes, config, mapping, person, faults>>
  BY DEF CreateRun, Answered, Asked, world
<1>2. /\ requests \in [Invocations -> {"idle", "begin", "check", "create"}]
      /\ lock \in Invocations \union {Nobody}
  BY DEF DirectoryInv, TypeOK
<1>3. /\ requests' \in [Invocations -> {"idle", "begin", "check", "create"}]
      /\ lock' \in Invocations \union {Nobody}
  BY <1>1, <1>2
<1>4. \A p \in Invocations : requests'[p] \notin {"check", "create"}
  BY <1>1, <1>2 DEF DirectoryInv, LockInv
<1>5. \A x \in RunIds : ~InFlight(x)
  BY <1>1 DEF DirectoryInv, LockInv
<1>6. CASE UNCHANGED <<runs, exec>>
  <2>1. TypeOK'
    BY <1>1, <1>3, <1>6 DEF DirectoryInv, TypeOK
  <2>2. LockInv'
    BY <1>4, <1>5, <1>6 DEF LockInv, InFlight
  <2> QED
    BY <1>1, <1>6, <2>1, <2>2, OutsideInv
<1>7. ASSUME NEW r \in RunIds, exec[r].pc = "idle",
             runs' = [runs EXCEPT ![r] = "pending"],
             exec' = [exec EXCEPT ![r] = [NoExecution EXCEPT !.pc = "start"]]
      PROVE  DirectoryInv'
  <2>1. /\ exec'[r] \in Execution /\ Sound(exec'[r]) /\ exec'[r].pc = "start"
        /\ \A x \in RunIds \ {r} : exec'[x] = exec[x] /\ runs'[x] = runs[x]
    BY <1>7, EmptyHanded, Before
  <2>2. TypeOK'
    BY <1>1, <1>3, <1>7, <2>1 DEF DirectoryInv, TypeOK
  <2>3. LockInv'
    BY <1>4, <1>5, <2>1 DEF LockInv, InFlight
  <2>4. \A x \in RunIds : Sound(exec[x])' /\ Row(x)' /\ Seen(x)'
    BY <1>1, <2>1 DEF DirectoryInv, Row, Walks, Seen
  <2> QED
    BY <2>2, <2>3, <2>4 DEF DirectoryInv
<1> QED
  BY <1>6, <1>7 DEF CreateRun

\* Admins, people, the provider and the passing of time.
LEMMA WorldInv ==
    ASSUME DirectoryInv,
           \/ \E a \in Accounts : DirectoryChanges(a)
           \/ SaveConfig \/ DueAgain
           \/ \E p \in People : AddPerson(p) \/ SetStatus(p) \/ Login(p)
    PROVE  DirectoryInv'
<1>1. UNCHANGED <<exec, runs, mapping, lock, requests, faults>>
  BY DEF DirectoryChanges, SaveConfig, DueAgain, AddPerson, SetStatus, Login, Change
<1>2. LockInv'
  BY <1>1, LockKept DEF DirectoryInv, InFlight
<1>3. directory' \in [Accounts -> Listed \union {"none"}]
  <2>1. directory \in [Accounts -> Listed \union {"none"}]
    BY DEF DirectoryInv, TypeOK
  <2> QED
    BY <2>1 DEF DirectoryChanges, SaveConfig, DueAgain, AddPerson, SetStatus, Login, Change,
                world, Listed
<1>4. config' \in [state : {"none", "enabled", "disabled"}, status : {"invited", "active"},
                   due : BOOLEAN]
  <2>1. CASE SaveConfig
    BY <2>1, DirectoryAssumption DEF SaveConfig
  <2>2. CASE DueAgain
    BY <2>2 DEF DueAgain, DirectoryInv, TypeOK
  <2>3. CASE UNCHANGED config
    BY <2>3 DEF DirectoryInv, TypeOK
  <2> QED
    BY <2>1, <2>2, <2>3 DEF DirectoryChanges, AddPerson, SetStatus, Login
<1>5. person' \in [People -> Statuses]
  <2>1. person \in [People -> Statuses]
    BY DEF DirectoryInv, TypeOK
  <2> QED
    BY <2>1 DEF DirectoryChanges, SaveConfig, DueAgain, AddPerson, SetStatus, Login, Statuses
<1>6. changes' \in 0..MaxChanges
  BY DirectoryAssumption
     DEF DirectoryInv, TypeOK, DirectoryChanges, SaveConfig, DueAgain, AddPerson, SetStatus, Login,
         Change, world
<1> QED
  BY <1>1, <1>2, <1>3, <1>4, <1>5, <1>6, OutsideInv DEF DirectoryInv, TypeOK

\* Every step of an execution, of its process and of its statements.
LEMMA ExecuteKeeps ==
    ASSUME DirectoryInv, NEW r \in RunIds, Execute(r) \/ StatementFails(r) \/ Crash(r)
    PROVE  Keeps(r)
BY StartKeeps, FetchKeeps, FindPersonKeeps, WritePersonKeeps, MapAccountKeeps, FindStaleKeeps,
   ReadStaleKeeps, SuspendKeeps, FinishKeeps, StampKeeps, StatementFailsKeeps, CrashKeeps
   DEF Execute

\* Nothing is at work when the processes start.
LEMMA InitDirectoryInv == Init => DirectoryInv
<1> SUFFICES ASSUME Init PROVE DirectoryInv
  OBVIOUS
<1>1. \A r \in RunIds : exec[r] \in Execution /\ Sound(exec[r]) /\ exec[r].pc = "idle"
  BY EmptyHanded DEF Init
<1>2. TypeOK
  <2>1. config \in [state : {"none", "enabled", "disabled"}, status : {"invited", "active"},
                    due : BOOLEAN]
    BY DirectoryAssumption DEF Init
  <2>2. /\ directory \in [Accounts -> Listed \union {"none"}]
        /\ person \in [People -> Statuses]
    BY DEF Init, Listed, Statuses
  <2>3. exec \in [RunIds -> Execution]
    BY EmptyHanded DEF Init
  <2>4. changes \in 0..MaxChanges /\ faults \in 0..MaxFaults
    BY DirectoryAssumption DEF Init
  <2> QED
    BY <2>1, <2>2, <2>3, <2>4 DEF Init, TypeOK
<1>3. LockInv
  BY DEF Init, LockInv, InFlight
<1>4. \A r \in RunIds : Row(r) /\ Seen(r)
  BY <1>1 DEF Row, Walks, Seen
<1> QED
  BY <1>1, <1>2, <1>3, <1>4 DEF DirectoryInv

\* Every step keeps the invariant.
LEMMA NextDirectoryInv == DirectoryInv /\ [Next]_vars => DirectoryInv'
<1> SUFFICES ASSUME DirectoryInv, [Next]_vars PROVE DirectoryInv'
  OBVIOUS
<1>1. CASE \/ \E a \in Accounts : DirectoryChanges(a)
           \/ SaveConfig \/ DueAgain
           \/ \E p \in People : AddPerson(p) \/ SetStatus(p) \/ Login(p)
  BY <1>1, WorldInv
<1>2. CASE DeleteConfig
  BY <1>2, DeleteConfigInv
<1>3. CASE \E q \in Invocations : SchedulerTick(q) \/ RequestSync(q) \/ Enqueue(q) \/ RequestFails(q)
  BY <1>3, RequestInv, CreateRunInv DEF Enqueue
<1>4. CASE \E r \in RunIds : Execute(r) \/ StatementFails(r) \/ Crash(r)
  BY <1>4, ExecuteKeeps, KeepsInv
<1>5. CASE UNCHANGED vars
  <2>1. TypeOK'
    BY <1>5 DEF vars, DirectoryInv, TypeOK
  <2>2. LockInv'
    BY <1>5, LockKept DEF vars, DirectoryInv, InFlight
  <2> QED
    BY <1>5, <2>1, <2>2, OutsideInv DEF vars
<1> QED
  BY <1>1, <1>2, <1>3, <1>4, <1>5 DEF Next

\* The invariant holds in every behaviour.
THEOREM DirectoryInvariant == Spec => []DirectoryInv
BY InitDirectoryInv, NextDirectoryInv, PTL DEF Spec

\* The variables keep their types.
THEOREM TypeCorrect == Spec => []TypeOK
<1>1. DirectoryInv => TypeOK
  BY DEF DirectoryInv
<1> QED
  BY <1>1, DirectoryInvariant, PTL

\* Whatever changes under a walk, the account at hand is one that was fetched
\* and has still to be visited, and whoever a run is about to suspend is a
\* person of whom the directory did not list some account.
THEOREM ExecutionsAreSound == Spec => [](\A r \in RunIds : Sound(exec[r]))
<1>1. DirectoryInv => \A r \in RunIds : Sound(exec[r])
  BY DEF DirectoryInv
<1> QED
  BY <1>1, DirectoryInvariant, PTL

\* However many timers and users ask for a run, one is in flight.
THEOREM RunsExclude == Spec => []OneRunInFlight
<1>1. DirectoryInv => OneRunInFlight
  <2> SUFFICES ASSUME DirectoryInv PROVE OneRunInFlight
    OBVIOUS
  <2> DEFINE S == {r \in RunIds : InFlight(r)}
  <2>1. CASE S = {}
    BY <2>1, FS_EmptySet DEF OneRunInFlight
  <2>2. CASE S # {}
    <3>1. PICK r \in S : TRUE
      BY <2>2
    <3>2. S = {r}
      BY <3>1 DEF DirectoryInv, LockInv
    <3>3. Cardinality(S) = 1
      BY <3>2, FS_Singleton
    <3> QED
      BY <3>3 DEF OneRunInFlight
  <2> QED
    BY <2>1, <2>2
<1> QED
  BY <1>1, DirectoryInvariant, PTL
-----------------------------------------------------------------------------
\* Whoever a step suspends, an execution suspends for an account of theirs.
LEMMA StepHasCause ==
    ASSUME DirectoryInv, Next, NEW p \in People,
           Admitted(p), person'[p] = "suspended", UNCHANGED changes
    PROVE  \E r \in RunIds : exec'[r] # exec[r] /\ HasCause(r, p)
<1>1. person \in [People -> Statuses] /\ person[p] \in {"active", "invited"}
  BY DEF DirectoryInv, TypeOK, Admitted
<1>2. changes' # changes + 1
  BY DirectoryAssumption DEF DirectoryInv, TypeOK
<1>3. PICK r \in RunIds : Execute(r) \/ StatementFails(r) \/ Crash(r)
  <2>1. ~DeleteConfig /\ ~SaveConfig
        /\ \A x \in People : ~AddPerson(x) /\ ~SetStatus(x)
    BY <1>2 DEF DeleteConfig, SaveConfig, AddPerson, SetStatus, Change
  <2>2. ~DueAgain /\ \A a \in Accounts : ~DirectoryChanges(a)
    BY <1>1 DEF DueAgain, DirectoryChanges
  <2>3. \A x \in People : ~Login(x)
    BY <1>1 DEF Login
  <2>4. \A q \in Invocations : ~(SchedulerTick(q) \/ RequestSync(q) \/ Enqueue(q) \/ RequestFails(q))
    BY <1>1 DEF SchedulerTick, RequestSync, Enqueue, TryLock, CheckInFlight, CreateRun, RequestFails,
                Asked, Answered
  <2> QED
    BY <2>1, <2>2, <2>3, <2>4 DEF Next
<1>4. WritePerson(r) \/ Suspend(r)
  BY <1>1, <1>3 DEF Execute, Start, Fetch, FindPerson, MapAccount, FindStale, ReadStale, Finish,
                    Stamp, StatementFails, Crash, Ends
<1>5. CASE WritePerson(r)
  <2> DEFINE c == exec[r].account
  <2>1. c \in Accounts
    BY <1>5, Before DEF WritePerson, Sound
  <2>2. person' = [person EXCEPT ![Address[c]] = Desired(r)]
        /\ Goes(r, [exec[r] EXCEPT !.pc = "map", !.row = "none"])
    BY <1>1, <1>5 DEF WritePerson
  <2>3. Address[c] = p /\ Desired(r) = "suspended"
    BY <1>1, <2>1, <2>2, DirectoryAssumption
  <2>4. exec[r].users[c] = "disabled"
    BY <2>3, DesiredStatus
  <2>5. exec'[r].pc = "map" /\ exec[r].pc = "write"
    BY <1>5, <2>2, Before DEF Goes, WritePerson, Execution
  <2>6. exec'[r] # exec[r]
    BY <2>5
  <2> QED
    BY <2>1, <2>3, <2>4, <2>6 DEF HasCause, AccountsOf
<1>6. CASE Suspend(r)
  <2>1. exec[r].pc = "suspend" /\ person' = [person EXCEPT ![exec[r].target] = "suspended"]
    BY <1>6 DEF Suspend
  <2>2. exec[r].target = p
    BY <1>1, <2>1
  <2>3. Unlisted(exec[r], p)
    BY <2>1, <2>2, Before DEF Sound
  <2>4. exec'[r].pc = NextStale(exec[r].stale)
    BY <1>6, Before DEF Suspend, Goes, Execution
  <2>5. exec'[r] # exec[r]
    BY <2>1, <2>4 DEF NextStale
  <2> QED
    BY <2>3, <2>5 DEF HasCause, Unlisted
<1> QED
  BY <1>4, <1>5, <1>6

\* A run suspends only people who have an account that the directory, when the
\* run asked, listed as disabled or did not list.
THEOREM SuspensionsHaveCause == Spec => SuspensionHasCause
<1>1. DirectoryInv /\ [Next]_vars =>
        [\A p \in People :
           (Admitted(p) /\ person'[p] = "suspended" /\ UNCHANGED changes)
           => \E r \in RunIds : exec'[r] # exec[r] /\ HasCause(r, p)]_vars
  BY StepHasCause
<1> QED
  BY <1>1, DirectoryInvariant, PTL DEF Spec, SuspensionHasCause

-----------------------------------------------------------------------------
\* Two runs that have a row do not walk through the directory at the same time,
\* so the mappings one of them renews are not renewed by the other meanwhile;
\* what walks beside a run is left over from a configuration that was deleted.
OneWalks ==
    \A r, s \in RunIds :
        Walks(r) /\ Walks(s) /\ runs[r] # "none" /\ runs[s] # "none" => r = s

\* One walk at a time, though the lock is released before the first begins.
THEOREM WalksExclude == Spec => []OneWalks
<1>1. DirectoryInv => OneWalks
  BY DEF DirectoryInv, LockInv, Row, InFlight, OneWalks
<1> QED
  BY <1>1, DirectoryInvariant, PTL
-----------------------------------------------------------------------------
(***************************************************************************)
(* Owners.  What a run writes was decided from a row it read two           *)
(* statements earlier, so the invariant has to follow the decision.        *)
(***************************************************************************)

\* Nobody is about to suspend an owner, or to create one.
Spares(e) ==
    /\ e.pc = "suspend" => e.target \notin Owners
    /\ e.pc = "write" /\ Address[e.account] \in Owners => e.row # "none"

OwnersInv == OwnersKeepAccess /\ \A r \in RunIds : Spares(exec[r])

\* The places of an execution at which it is about to write a person are
\* reached by one statement each, which spares owners.
LEMMA StepSpares ==
    ASSUME DirectoryInv, OwnersInv, NEW r \in RunIds,
           Execute(r) \/ StatementFails(r) \/ Crash(r)
    PROVE  Spares(exec'[r])
<1>1. CASE FindPerson(r)
  <2>1. PICK a \in exec[r].todo :
          exec' = [exec EXCEPT ![r] = [exec[r] EXCEPT !.pc = "write", !.account = a,
                                                      !.row = person[Address[a]]]]
    BY <1>1 DEF FindPerson, Goes
  <2>2. /\ exec'[r].pc = "write" /\ exec'[r].account = a
        /\ exec'[r].row = person[Address[a]]
    BY <2>1, Before DEF Execution
  <2> QED
    BY <2>2 DEF Spares, OwnersInv, OwnersKeepAccess
<1>2. CASE ReadStale(r)
  <2> DEFINE rest(p) == exec[r].stale \ {p}
             Skip(p) == [exec[r] EXCEPT !.stale = rest(p), !.pc = NextStale(rest(p))]
             Take(p) == [exec[r] EXCEPT !.stale = rest(p), !.target = p, !.pc = "suspend"]
  <2>1. PICK p \in exec[r].stale :
          \/ exec' = [exec EXCEPT ![r] = Skip(p)]
          \/ p \notin Owners /\ exec' = [exec EXCEPT ![r] = Take(p)]
    BY <1>2 DEF ReadStale, Goes
  <2>2. CASE exec' = [exec EXCEPT ![r] = Skip(p)]
    <3>1. exec'[r].pc = NextStale(rest(p))
      BY <2>2, Before DEF Execution
    <3> QED
      BY <3>1 DEF Spares, NextStale
  <2>3. CASE p \notin Owners /\ exec' = [exec EXCEPT ![r] = Take(p)]
    <3>1. exec'[r].pc = "suspend" /\ exec'[r].target = p
      BY <2>3, Before DEF Execution
    <3> QED
      BY <2>3, <3>1 DEF Spares
  <2> QED
    BY <2>1, <2>2, <2>3
<1>3. CASE Suspend(r)
  <2>1. exec'[r].pc = NextStale(exec[r].stale)
    BY <1>3, Before DEF Suspend, Goes, Execution
  <2> QED
    BY <2>1 DEF Spares, NextStale
<1>4. CASE ~(FindPerson(r) \/ ReadStale(r) \/ Suspend(r))
  <2>1. exec'[r].pc \notin {"write", "suspend"}
    <3>1. ASSUME NEW pc \in {"start", "stamp", "fail", "stampFailed"},
                 exec' = [exec EXCEPT ![r] = [NoExecution EXCEPT !.pc = pc]]
          PROVE  exec'[r].pc = pc
      BY <3>1, EmptyHanded, Before
    <3>2. ASSUME exec' = [exec EXCEPT ![r] = NoExecution] PROVE exec'[r].pc = "idle"
      BY <3>2, EmptyHanded, Before
    <3>3. CASE Start(r)
      <4>1. CASE runs[r] # "pending"
        BY <3>2, <3>3, <4>1 DEF Start, Ends, Goes
      <4>2. CASE runs[r] = "pending"
        <5>1. exec' = [exec EXCEPT ![r] = [exec[r] EXCEPT !.pc = "fetch",
                                                         !.status = config.status]]
          BY <3>3, <4>2 DEF Start, Goes
        <5> QED
          BY <5>1, Before DEF Execution
      <4> QED
        BY <4>1, <4>2
    <3>4. CASE Fetch(r)
      BY <3>4, Before DEF Fetch, Goes, Execution
    <3>5. CASE WritePerson(r)
      <4>1. CASE Throws(r)
        BY <3>1, <4>1 DEF Throws, To, Goes
      <4>2. CASE Goes(r, [exec[r] EXCEPT !.pc = "map", !.row = "none"])
        BY <4>2, Before DEF Goes, Execution
      <4> QED
        BY <3>5, <4>1, <4>2 DEF WritePerson
    <3>6. CASE MapAccount(r)
      <4>1. CASE runs[r] = "none"
        BY <3>1, <3>6, <4>1 DEF MapAccount, Throws, To, Goes
      <4>2. CASE runs[r] # "none"
        <5>1. PICK pc \in {"find", "findStale"}, rest \in SUBSET exec[r].todo :
                exec' = [exec EXCEPT ![r] = [exec[r] EXCEPT !.account = Nobody, !.todo = rest,
                                                            !.pc = pc]]
          BY <3>6, <4>2 DEF MapAccount, Goes
        <5> QED
          BY <5>1, Before DEF Execution
      <4> QED
        BY <4>1, <4>2
    <3>7. CASE FindStale(r)
      BY <3>7, Before DEF FindStale, NextStale, Goes, Execution
    <3>8. CASE Finish(r)
      BY <3>1, <3>2, <3>8 DEF Finish, To, Ends, Goes
    <3>9. CASE Stamp(r) \/ StatementFails(r) \/ Crash(r)
      BY <3>1, <3>2, <3>9 DEF Stamp, StatementFails, Crash
    <3> QED
      BY <1>4, <3>3, <3>4, <3>5, <3>6, <3>7, <3>8, <3>9 DEF Execute
  <2> QED
    BY <2>1 DEF Spares
<1> QED
  BY <1>1, <1>2, <1>3, <1>4

\* No step touches the row of an owner.
LEMMA NextOwners == DirectoryInv /\ OwnersInv /\ [Next]_vars => OwnersInv'
<1> SUFFICES ASSUME DirectoryInv, OwnersInv, [Next]_vars PROVE OwnersInv'
  OBVIOUS
<1>1. /\ person \in [People -> Statuses] /\ Owners \subseteq People
      /\ \A p \in Owners : person[p] = "active"
      /\ exec \in [RunIds -> Execution]
  BY DirectoryAssumption DEF DirectoryInv, TypeOK, OwnersInv, OwnersKeepAccess
<1>2. CASE \/ \E a \in Accounts : DirectoryChanges(a)
           \/ SaveConfig \/ DeleteConfig \/ DueAgain
           \/ \E q \in Invocations : SchedulerTick(q) \/ RequestSync(q) \/ TryLock(q)
                                     \/ CheckInFlight(q) \/ RequestFails(q)
           \/ UNCHANGED vars
  BY <1>2 DEF DirectoryChanges, SaveConfig, DeleteConfig, DueAgain, Change, SchedulerTick,
              RequestSync, TryLock, CheckInFlight, RequestFails, Asked, Answered, vars,
              OwnersInv, OwnersKeepAccess
<1>3. ASSUME NEW p \in People, AddPerson(p) \/ SetStatus(p) \/ Login(p) PROVE OwnersInv'
  <2>1. p \notin Owners /\ UNCHANGED exec
    BY <1>1, <1>3 DEF AddPerson, SetStatus, Login, Change
  <2>2. \A o \in Owners : person'[o] = person[o]
    BY <1>1, <1>3, <2>1 DEF AddPerson, SetStatus, Login
  <2> QED
    BY <2>1, <2>2 DEF OwnersInv, OwnersKeepAccess
<1>4. ASSUME NEW q \in Invocations, CreateRun(q) PROVE OwnersInv'
  <2>1. UNCHANGED person
    BY <1>4 DEF CreateRun, Answered, Asked
  <2>2. CASE UNCHANGED exec
    BY <2>1, <2>2 DEF OwnersInv, OwnersKeepAccess
  <2>3. ASSUME NEW r \in RunIds,
               exec' = [exec EXCEPT ![r] = [NoExecution EXCEPT !.pc = "start"]]
        PROVE  OwnersInv'
    <3>1. exec'[r].pc = "start" /\ \A s \in RunIds \ {r} : exec'[s] = exec[s]
      BY <1>1, <2>3, EmptyHanded
    <3> QED
      BY <2>1, <3>1 DEF OwnersInv, OwnersKeepAccess, Spares
  <2> QED
    BY <1>4, <2>2, <2>3 DEF CreateRun
<1>5. ASSUME NEW r \in RunIds, Execute(r) \/ StatementFails(r) \/ Crash(r) PROVE OwnersInv'
  <2>1. \A s \in RunIds : Spares(exec'[s])
    <3>1. \A s \in RunIds \ {r} : exec'[s] = exec[s]
      BY <1>1, <1>5, ExecuteKeeps DEF Keeps
    <3> QED
      BY <1>5, <3>1, StepSpares DEF OwnersInv
  <2>2. OwnersKeepAccess'
    <3>1. CASE UNCHANGED person
      BY <3>1 DEF OwnersInv, OwnersKeepAccess
    <3>2. CASE WritePerson(r)
      <4>1. Spares(exec[r]) /\ exec[r].pc = "write" /\ exec[r].account \in Accounts
        BY <3>2, Before DEF WritePerson, OwnersInv, Sound
      <4> DEFINE p == Address[exec[r].account]
      <4>2. UNCHANGED person \/ (p \notin Owners /\ person' = [person EXCEPT ![p] = Desired(r)])
        BY <1>1, <3>2, <4>1 DEF WritePerson, Spares
      <4> QED
        BY <1>1, <4>2 DEF OwnersKeepAccess
    <3>3. CASE Suspend(r)
      <4>1. exec[r].target \notin Owners
        BY <3>3 DEF Suspend, OwnersInv, Spares
      <4> QED
        BY <1>1, <3>3, <4>1 DEF Suspend, OwnersKeepAccess
    <3> QED
      BY <1>5, <3>1, <3>2, <3>3
         DEF Execute, Start, Fetch, FindPerson, MapAccount, FindStale, ReadStale, Finish, Stamp,
             StatementFails, Crash, Ends
  <2> QED
    BY <2>1, <2>2 DEF OwnersInv
<1> QED
  BY <1>2, <1>3, <1>4, <1>5 DEF Next, Enqueue

\* Owners may log in at all times: a run of any age that writes or suspends
\* people by rows and mappings it read earlier never touches their row.
THEOREM OwnersAreSpared == Spec => []OwnersKeepAccess
<1>1. Init => OwnersInv
  <2> SUFFICES ASSUME Init PROVE OwnersInv
    OBVIOUS
  <2>1. \A p \in Owners : person[p] = "active"
    BY DirectoryAssumption DEF Init
  <2>2. \A r \in RunIds : Spares(exec[r])
    BY EmptyHanded DEF Init, Spares
  <2> QED
    BY <2>1, <2>2 DEF OwnersInv, OwnersKeepAccess
<1>2. OwnersInv => OwnersKeepAccess
  BY DEF OwnersInv
<1> QED
  BY <1>1, <1>2, NextOwners, DirectoryInvariant, PTL DEF Spec
=============================================================================
