\* Two clients, one of which may be killed; timeouts.
CONSTANTS
    c1 = c1
    c2 = c2
    NoConn = NoConn
    Clients <- MCClients
    CommandLines <- MCLines
    Stages <- MCStages
    StageNumber <- MCNumber
    Builds <- MCBuilds
    MaxSetEnv = 1
    ExitAfters <- MCExitAfters
    MaxConnects = 2
    MaxCrashes = 1
SPECIFICATION FairSpec
INVARIANTS
    TypeOK
    ResultsUnderStage
    EnvironmentFirst
PROPERTIES
    ImplementsStagedBuild
    BuildEnds
    ClientsComeBack
CHECK_DEADLOCK FALSE
