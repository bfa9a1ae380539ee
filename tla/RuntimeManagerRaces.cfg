CONSTANTS
  p1 = p1  p2 = p2  p3 = p3  w1 = w1  w2 = w2  t1 = t1  t2 = t2
  NoPid = NoPid
  Threads = {t1, t2}
  Projects = {p1}
  Workspaces = {w1}
  WorkspaceOf <- OneProject
  Pids = {x1, x2}
  OpsOf <- TwoThreads
  ProbeMayTimeOut = TRUE
  PidMayBeHidden = TRUE
  MaxOps = 3
  MaxDeaths = 1
  MaxRestarts = 1
  MaxRecycles = 1
SPECIFICATION Spec
INVARIANT KillsAreSafe
PROPERTIES
  StrangerSpared
  ChildKeptByAdoption
SYMMETRY PidAndThreadSymmetry
