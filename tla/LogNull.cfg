SPECIFICATION LogSpec
CONSTANTS
  Line = {"object", "null"}
  MaxLines = 1
INVARIANT
  NoLineIsFatal
