SPECIFICATION ConfigSpec
CONSTANTS
    r1 = r1  r2 = r2  g1 = g1  g2 = g2  bad = bad
    p1 = p1  p2 = p2  wsA = wsA  wsB = wsB
    Parts = {"settings", "workspaces"}
    SyncThreads = {t1, t2}
    Window = window
    Inputs <- WindowInputs
    Malformed = bad
    Roots = {r1, r2}
    Repos = {g1, g2}
    Eclipses = {e1}
    Versions = {v1}
    NoVersion = NoVersion
    Unset = Unset
    Torn = Torn
    FirstFiles <- OldAndNew
    MaxSaves = 2
    MaxFaults = 1
    MaxBoots = 2
    Projects = {p1, p2}
    Names = {wsA, wsB}
    Nowhere = nowhere
    Ports = {q1, q2}
    NoPort = noPort
    NoProject = noProject
    Rooted = {p1}
    Main = main
    Fleet = fleet
    Plans <- Histories
INVARIANTS
    ConfigTypeOK
    SavedStaysSaved
    OneSync
    PortsDistinct
    NoForeignProjects
    DeployedReaches
    OneImportAtATime
SYMMETRY ConfigSymmetry
CHECK_DEADLOCK FALSE
