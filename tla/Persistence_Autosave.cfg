CONSTANTS
  Nicks = {n1, n2}
  MatchNames = {a, b}
  MaxSaves = 4
  Absent = Absent
  Torn = Torn
  Savers = {"loop"}
  Failures = {"open", "write", "crash"}
SPECIFICATION Spec
SYMMETRY Symmetry
INVARIANTS TypeOK CacheIsDisk
PROPERTY ImplementsStore
