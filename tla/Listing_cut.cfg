\* The documented header, when an answer of the database is cut short.
SPECIFICATION Spec
CONSTANTS
  a = a  b = b  c = c
  Rows = {a, b, c}
  InitialPlace <- MCPlace
  Places <- MCPlaces
  MaxLimit = 2
  DefaultLimit = 1
  PageSizes = {1, 2}
  Fields = {"email", "name"}
  Bounds <- MCBounds
  Absent = Absent
  MaxInserts = 2
  MaxMoves = 1
  BreaksOff = TRUE
INVARIANT RangeIsOfResponse
