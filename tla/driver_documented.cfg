CONSTANTS
  Procs = {p1, p2}
  left = left
  right = right
  tmp = tmp
  out = out
  Stems = {left, right}
  TmpNames = {tmp}
  BasenameOf <- SameBasename
  Outputs = {out}
  NoOutput = NoOutput
  Invocations <- AllKinds
  DiskMayFill = TRUE
  MaxDiagnostics = 1
SPECIFICATION Spec
INVARIANTS
  DoesAsDocumented
CHECK_DEADLOCK FALSE
