\* Walks by pages of one or two rows of three; answers may be cut short.
SPECIFICATION Spec
CONSTANTS
  a = a  b = b  c = c
  Rows = {a, b, c}
  InitialPlace <- MCPlace
  Places <- MCPlaces
  MaxLimit = 2
  DefaultLimit = 1
  PageSizes = {1, 2}
  Fields = {"email", "name"}
  Bounds <- MCBounds
  Absent = Absent
  MaxInserts = 2
  MaxMoves = 1
  BreaksOff = TRUE
INVARIANT TypeOK RangeTellsRows WalkShowsAll RepeatsNeedChanges
