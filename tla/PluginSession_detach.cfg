\* A viewer attached again while the DELETE of the session before is answered.
SPECIFICATION Spec
CONSTANTS
  Slot = {q1, q2}
  MaxAttach = 3
INVARIANT UnregistersOnDetach
CHECK_DEADLOCK FALSE
