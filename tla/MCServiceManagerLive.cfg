\* The process may stop for good once MaxRestarts is reached.
CHECK_DEADLOCK FALSE
SPECIFICATION Spec
CONSTANTS
  ftp = ftp
  ssh = ssh
  http = http
  Services = {ssh}
  Order <- MCOrder
  Kind <- MCKind
  Default <- MCDefault
  Requests = {r1, r2}
  Main = Main
  None = None
  CanFail = FALSE
  MaxRestarts = 2
INVARIANT
  ToggleAppliedLive
