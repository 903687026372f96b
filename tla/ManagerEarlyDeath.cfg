SPECIFICATION FairSpec
CONSTANTS
  loc = loc
  dyn = dyn
  frn = frn
  xd = xd
  NoDisplay = NoDisplay
  NoPid = NoPid
  NoFile = NoFile
  Display = {frn}
  Pid = {p1, p2}
  Local = {}
  Permanent = {frn}
  Xdmcp = {}
  TerminateServer = {}
  StartAttempts = 2
  ReservAttempts = 2
  ServerAttempts = 1
  UseXdmcp = FALSE
  AutoRescan = FALSE
  ForkFails = FALSE
  Signals = {"HUP"}
  Files <- FilesFrn
  AccessEdits = FALSE
PROPERTY SubDaemonKept
