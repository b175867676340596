SPECIFICATION Spec
CONSTANTS
  Contexts = {c1, c2}
  Runtimes = {r1, r2}
  Threads = {t1, t2}
  Projects = {p1, p2}
  Default = p1
  Main = Main
  None = None
  MaxContexts = 2
  MaxFaults = 0
  Tools = {"write", "select"}
  Explicit = FALSE
  Pipelined = FALSE
SYMMETRY Symmetry
INVARIANTS ContextsIsolated
CHECK_DEADLOCK FALSE
