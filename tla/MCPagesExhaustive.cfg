SPECIFICATION Spec
CONSTANTS
  p1 = p1
  p2 = p2
  Products = {p1, p2}
  NoProduct = NoProduct
  Queries <- MCQueries
  Size <- MCSize
  Covered <- MCCovered
  Limits = {0, 1, 3, 9}
  PageDefault = 2
  PageMax = 3
  FetchFactor = 2
  FetchFloor = 5
  FindCap = 6
  MaxBuilds = 2
  MixedFilters = FALSE
INVARIANTS
  ExhaustiveMeansAll
