\* One problem at a time on a host with one service is enough to fail the gate.
SPECIFICATION AcceptanceSpec
CONSTANTS
  Expected = {nextcloud}
  MaxProblems = 1
INVARIANTS
  ReleaseGate
