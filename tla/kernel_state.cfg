SPECIFICATION MCSpec
CONSTANTS
    Hosts = {h1, h2}
    Certs = {c1, c2}
    NoCert = NoCert
    Crashes = TRUE
    SaveFails = TRUE
    MaxHandlers = 1
    Plugins = {1, 2, 3}
    Removable = {2}
SYMMETRY Symmetry
CHECK_DEADLOCK FALSE
INVARIANTS
    OneCertOneIdentity
    NoPluginLost
PROPERTIES
    BindingsKept
    StartOrderSound
    DependentsStopFirst
