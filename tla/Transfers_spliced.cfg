\* Two sources for one episode; no crash at all.
SPECIFICATION Spec
CONSTANTS
  e1 = e1
  e2 = e2
  direct = direct
  other = other
  child = child
  None = None
  Episode = {e1, e2}
  Link = {direct, other, child}
  Size = 2
  Hls = {child}
  Ranges = {direct, other}
  Offers <- MCTwoSources
  Pages = 2
  MaxStarts = 2
  MaxCrashes = 0
  MaxOutages = 0
  MaxFetches = 1
PROPERTIES PublishesAtomically
CHECK_DEADLOCK FALSE
