\* Two shows, three providers: one keyed, two searched (q is the preferred).
CONSTANTS
  a = a
  b = b
  p = p
  q = q
  r = r
  x = x
  y = y
  None = None
  Shows = {a, b}
  Providers = {p, q, r}
  Ids = {x, y}
  Registry <- MCRegistry
  GlobalPref = q
  Key <- MCKey
  Hits <- MCHits
  MaxGestures = 3
  MaxExpiries = 1
SPECIFICATION Spec
CHECK_DEADLOCK FALSE
INVARIANTS GridIsOfTheOpenShow NothingIsStranded AsksOnce NoSourceIsHonest
PROPERTIES WarmNeverSteals
