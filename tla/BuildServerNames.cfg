\* The second connection of a client that ran into its timeout.
CONSTANTS
    c1 = c1
    c2 = c2
    NoConn = NoConn
    Clients <- MCClients
    CommandLines <- MCLines
    Stages <- MCStages
    StageNumber <- MCNumber
    Builds <- MCBuilds
    MaxSetEnv = 1
    ExitAfters <- MCExitAfters
    MaxConnects = 2
    MaxCrashes = 1
SPECIFICATION Spec
INVARIANTS
    NamesInSync
CHECK_DEADLOCK FALSE
