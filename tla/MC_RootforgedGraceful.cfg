CONSTANTS
  Request = {r1, r2, r3}
SPECIFICATION Spec
CHECK_DEADLOCK FALSE
INVARIANTS ShutdownIsGraceful
