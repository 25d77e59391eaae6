CONSTANTS
  CSeqs = 3
  AudioNegotiated = TRUE
SPECIFICATION Spec
INVARIANT TasksInv
PROPERTY RepliesMatch
PROPERTY KeepalivesStart
PROPERTY KeepaliveServed
PROPERTY MirrorReturns
CHECK_DEADLOCK FALSE
