\* Two recordings and one sweeper; one viewer and three messages; two orders
\* whose lease may end while they are still inside the section.
SPECIFICATION BackgroundSpec
CONSTANTS
  Recs = {r1, r2}
  NoRec = NoRec
  Sweepers = {v1}
  Clients = {c1}
  Publishers = {p1, p2, p3}
  Detached = {p3}
  Feeds = {f1}
  NoFeed = NoFeed
  Requests = {q1, q2}
  NoToken = NoToken
PROPERTIES
  RecordingsEnd LeaversAreForgotten PublishEnds ForeignLockKept LockIsFreed
CHECK_DEADLOCK FALSE
