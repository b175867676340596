SPECIFICATION Spec
CONSTANTS
  Contexts = {c1, c2}
  Runtimes = {r1}
  Threads = {t1, t2}
  Projects = {p1}
  Default = p1
  Main = Main
  None = None
  MaxContexts = 2
  MaxFaults = 0
  Tools = {"write"}
  Explicit = TRUE
  Pipelined = TRUE
SYMMETRY Symmetry
INVARIANTS RoutedToOwnWorkspace
CHECK_DEADLOCK FALSE
