CONSTANTS
  entry = entry
  base = base
  derived = derived
  g1 = g1
  g2 = g2
  mac = mac
  A = A
  B = B
  x = x
  y = y
  NoClass = NoClass
  Class = {A, B}
  Scope <- MCScope
  Kernel = {entry}
  Macro = {mac}
  NameOf <- MCNameOf
  OwnerOf <- MCOwnerOf
  ArityOf <- MCArityOf
  Bases <- MCBases
  CallSite <- MCCallSite
  Field = {x, y}
  Access <- MCAccess
  Setter <- MCSetter
  ClangCall <- MCClangCall
  Program <- MCProgram
SPECIFICATION Spec
INVARIANTS
  TextOrderIrrelevant
  NoInventedCallee
  EverySiteAccounted
  StrictCoversReads
PROPERTIES
  EvidenceGrows
CHECK_DEADLOCK FALSE
