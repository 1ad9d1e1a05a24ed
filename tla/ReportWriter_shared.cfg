CONSTANTS
  p1 = p1
  p2 = p2
  p3 = p3
  Paths = {p1, p2, p3}
  Runs = {r1, r2}
  Originals = {f1, f2}
  NoFile = NoFile
  Console = Console
  Tasks <- SmallTasks
SPECIFICATION Spec
SYMMETRY Symmetric
INVARIANTS NoRunWaits ReportsAreWhole StatusIsTrue TemporariesAreRemoved
PROPERTY InputsAreKept
CHECK_DEADLOCK FALSE
