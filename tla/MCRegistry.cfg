CONSTANTS
  P1 = P1
  P2 = P2
  c1 = c1
  c2 = c2
  main = main
  pr = pr
  op = op
  dir = dir
  None = None
  Process = {P1, P2}
  Caller = {c1, c2}
  Project = {main, pr}
  Movable = {main}
  MaxEvents = 6
  Name = {op, dir}
  DirName <- MCDirName
  MetaName <- MCMetaName
SPECIFICATION Spec
INVARIANTS
  AliasExact
  RegisteredSurvives
  FreshMapIsFile
SYMMETRY Symmetry
CHECK_DEADLOCK FALSE
