CONSTANTS
  Archive <- MC_Archive
  Names = {"a", "d", "l", "e", "zz"}
  Fds = {f1, f2}
  Counts = {0, 1, 2, 4}
  Offsets <- MC_Offsets
  OFF_BITS = 4
SPECIFICATION Spec
INVARIANT ReadDataCorrect
