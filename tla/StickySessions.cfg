\* Four sessions for two pins, each with two ticks to live.
SPECIFICATION Spec
CONSTANTS
  Sources = {rr, ad}
  Selecting = {ad}
  rr = rr
  ad = ad
  Sessions = {a, b}
  Targets = {t1, t2}
  Requests = {r1, r2}
  MaxStickySessions = 2
  TTL = 2
  NoTarget = NoTarget
SYMMETRY Symmetry
INVARIANT LeaveTogether
PROPERTY DropsSoonest
