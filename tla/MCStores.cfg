SPECIFICATION MCSpec
\* Nothing is left to do when every program has ended.
CHECK_DEADLOCK FALSE
CONSTANTS
  Lists <- MCLists
  Block = 8
  MaxRuns = 2
  NoFile = noFile
  Programs = {p1, p2, p3}
  Count = 3
  NoOne = noOne
SYMMETRY Alike
INVARIANTS
  RoundTrip
  ShowsWhatWasWritten
  DiskHasList
  OneSucceeds
  MakerShowsAll
  OneRunFound
