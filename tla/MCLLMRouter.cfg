\* Two clients on primary -> secondary -> mock. A request may outlast a
\* cooldown, so its clock reading can be staler than an opening is long.
SPECIFICATION Spec
CONSTANTS
  Clients = {c1, c2}
  N = 3
  Streaming = {1, 3}
  Reliable = {3}
  Threshold = 2
  Cooldown = 2
  MaxLag = 2
INVARIANTS
  TypeOK
  OpenIsEarned
  SafetyNet
PROPERTIES
  BrokenGetsNoCall
  PrimaryTriedAgain
CHECK_DEADLOCK FALSE
