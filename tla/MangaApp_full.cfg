\* Two manga, two sources, a two-page feed, one recommendation.
SPECIFICATION ShelfSpec
CONSTANTS
  s = s
  t = t
  ma = ma
  mb = mb
  x = x
  a1 = a1
  a2 = a2
  b1 = b1
  None = None
  Source = {s, t}
  Manga = {ma, mb}
  Al = {x}
  Chapter = {a1, a2, b1}
  Configured = s
  Native <- MCNative
  Listed <- MCListed
  Found <- MCFound
  Kinds <- MCKinds
  Ranked <- MCRanked
  Alike <- MCAlike
  Match <- MCMatch
  Tracked = {ma}
  Finished = {ma}
  PrefetchRows = 3
  MaxKeys = 4
INVARIANTS MarksMirrorStore WrittenWhereRead WaitsAreAnswered SyncedIsOnServer
CHECK_DEADLOCK FALSE
