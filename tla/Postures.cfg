SPECIFICATION FairSpec
CONSTANTS
    Devices = {d1}
    CheckIns = {c1, c2}
    Postures = {unknown, pass, fail}
    Unknown = unknown
    None = none
    MaxFaults = 1
  
PROPERTIES SilentDevicesGoStale
