SPECIFICATION Spec
CONSTANTS
    NumVaults = 1
    Passwords = {p1, p2}
    Keys = {k1}
    Entries = {e1}
    NoFile = NoFile
    MaxFaults = 0
    FaultKinds = {}
    Crashes = TRUE
INVARIANT RotationCrashSafe
