CONSTANTS
  Nicks = {n1}
  MatchNames = {a, b}
  MaxSaves = 4
  Absent = Absent
  Torn = Torn
  Savers = {"loop", "main"}
  Failures = {"open", "write"}
SPECIFICATION ShutdownSpec
SYMMETRY Symmetry
PROPERTY ExitLeavesWholeSave
