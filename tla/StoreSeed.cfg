CONSTANTS
  r1 = r1  r2 = r2  r3 = r3  s1 = s1  s2 = s2  b1 = b1  b2 = b2  current = current
  NoBuild = NoBuild  NoJar = NoJar
  Seeders = {t1, t2, t3}
  Residents = {r1, r2, r3}
  Stores = {s1, s2}
  StoreOf <- SharedStore
  Builds = {b1, b2}
  FirstBuild = b1
  Jars = {current}
  JarOf <- ThroughCurrent
  MaxAsks = 3
  MaxUpdates = 1
  MaxRestarts = 1
SPECIFICATION Spec
INVARIANTS TypeOK OneLoadAtATime ClaimsAreHeld SeededWasLoaded
SYMMETRY SeederSymmetry
CHECK_DEADLOCK FALSE
