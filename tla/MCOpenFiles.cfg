SPECIFICATION Spec
CONSTANTS
  f1 = f1
  f2 = f2
  f3 = f3
  f4 = f4
  Null = Null
  File <- MCFile
  MaxType = 3
  Meta = 1
SYMMETRY Interchangeable
VIEW Relevant
INVARIANTS IdsOwned TablesMatch FoundIsLive
