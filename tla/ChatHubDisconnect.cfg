\* Two calls of Disconnect for one client.
SPECIFICATION Spec
CONSTANTS
  Clients = {c1}
  Publishers = {p1, p2}
  Detached = {p2}
  Feeds = {f1}
  NoFeed = NoFeed
  BufSize = 1
PROPERTY DisconnectTwiceIsSafe
CHECK_DEADLOCK FALSE
