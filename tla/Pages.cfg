SPECIFICATION PagesSpec
CONSTANTS
  Worker = {w1, w2}
  Name = {n1}
  Image = {i1, i2}
  Uuid = {d1}
  Fresh = Fresh
  None = None
  Letters = 1
  MayFail = TRUE
  Rows = {1, 2, 3, 4}
  Columns = {0, 1, 2}
  Plain = {0}
  Text <- MCText
  SortList <- MCSortList
  MaxTimers = 2
  Values <- MCValues
SYMMETRY Interchangeable
INVARIANT CreationsWhole
INVARIANT RowsAsMarked
INVARIANT FieldIsSelection
PROPERTY ClickAsAnnounced
