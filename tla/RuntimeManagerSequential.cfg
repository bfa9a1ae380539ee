CONSTANTS
  p1 = p1  p2 = p2  p3 = p3  w1 = w1  w2 = w2  t1 = t1  t2 = t2
  NoPid = NoPid
  Threads = {t1}
  Projects = {p1, p2, p3}
  Workspaces = {w1, w2}
  WorkspaceOf <- SharedAndOwn
  Pids = {x1, x2, x3}
  OpsOf <- OneThread
  ProbeMayTimeOut = FALSE
  PidMayBeHidden = FALSE
  MaxOps = 3
  MaxDeaths = 1
  MaxRestarts = 1
  MaxRecycles = 1
SPECIFICATION Spec
INVARIANTS
  TypeOK
  KillSparesUsers
  StopActs
  MembersAreLive
  StoppedStaysStopped
  OneConsent
PROPERTIES
  CustodyKept
SYMMETRY PidSymmetry
