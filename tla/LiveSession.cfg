\* Two broadcasts of a seller and two clients that may publish.
SPECIFICATION FairSpec
CONSTANTS
  Sessions = {s1, s2}
  Guarded = {s1}
  Clients = {c1, c2}
  NoClient = NoClient
INVARIANTS LiveWasProven OnePublisher
PROPERTIES ClosedStaysClosed SessionsEnd
CHECK_DEADLOCK FALSE
