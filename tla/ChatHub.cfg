\* Two viewers, two feeds and two messages, one of them sent by a detached goroutine.
SPECIFICATION Spec
CONSTANTS
  Clients = {c1, c2}
  Publishers = {p1, p2}
  Detached = {p2}
  Feeds = {f1, f2}
  NoFeed = NoFeed
  BufSize = 1
SYMMETRY Symmetry
INVARIANTS OnlyOwnMessages NoSilentGap
CHECK_DEADLOCK FALSE
