SPECIFICATION Spec
CONSTANTS
  Contexts = {c1, c2, c3}
  Runtimes = {r1, r2}
  Threads = {t1, t2}
  Projects = {p1}
  Default = p1
  Main = Main
  None = None
  MaxContexts = 2
  MaxFaults = 1
  Tools = {"job", "select"}
  Explicit = TRUE
  Pipelined = FALSE
SYMMETRY Symmetry
INVARIANTS TypeOK LeasesExact RoutedToOwnWorkspace
CHECK_DEADLOCK FALSE
