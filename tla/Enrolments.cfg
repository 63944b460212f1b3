SPECIFICATION FairSpec
CONSTANTS
    Machines = {m1}
    Devices = {d1, d2}
    Requests = {r1, r2}
    None = none
    MaxUses = 1
    MaxKey = 2
    MaxFaults = 1
INVARIANT TokenWithinLimit
PROPERTIES BeatingDeviceIsActive RevokedAgentStops
CHECK_DEADLOCK FALSE
