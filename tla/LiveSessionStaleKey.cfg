\* A client publishes with the key of a session that its host stopped.
SPECIFICATION Spec
CONSTANTS
  Sessions = {s1}
  Guarded = {s1}
  Clients = {c1}
  NoClient = NoClient
PROPERTY StoppedKeyIsRefused
CHECK_DEADLOCK FALSE
