\* Two episodes, one saved directly and one through ffmpeg; a two-page chapter.
SPECIFICATION FairSpec
CONSTANTS
  e1 = e1
  e2 = e2
  direct = direct
  other = other
  child = child
  None = None
  Episode = {e1, e2}
  Link = {direct, child}
  Size = 2
  Hls = {child}
  Ranges = {direct}
  Offers <- MCOffers
  Pages = 2
  MaxStarts = 2
  MaxCrashes = 2
  MaxOutages = 1
  MaxFetches = 2
INVARIANTS PlayFindsDownloads
PROPERTIES PublishesAtomically DownloadEnds
CHECK_DEADLOCK FALSE
