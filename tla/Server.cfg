CONSTANTS
  Listener = {public, private}
  Public = public
  Client = {a, b, c}
SPECIFICATION ServerSpec
CHECK_DEADLOCK FALSE
INVARIANT ShutdownAnswersAccepted
PROPERTY ShutdownCompletes
