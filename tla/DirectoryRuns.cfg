SPECIFICATION FairSpec
CONSTANTS
    p1 = p1
    a1 = a1
    a2 = a2
    People = {p1}
    Owners = {}
    Accounts = {a1}
    Address <- OneAccount
    RunIds = {r1, r2}
    Timers = {t1}
    Users = {u1}
    Defaults = {"invited"}
    MAX_USERS = 2
    MaxChanges = 1
    MaxFaults = 1
INVARIANTS TypeOK OneRunInFlight
PROPERTIES SuspensionHasCause LeaversLoseAccess
