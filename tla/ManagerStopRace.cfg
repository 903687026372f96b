SPECIFICATION Spec
CONSTANTS
  loc = loc
  dyn = dyn
  frn = frn
  xd = xd
  NoDisplay = NoDisplay
  NoPid = NoPid
  NoFile = NoFile
  Display = {loc}
  Pid = {p1, p2, p3}
  Local = {loc}
  Permanent = {loc}
  Xdmcp = {}
  TerminateServer = {}
  StartAttempts = 1
  ReservAttempts = 1
  ServerAttempts = 1
  UseXdmcp = FALSE
  AutoRescan = FALSE
  ForkFails = FALSE
  Signals = {"TERM"}
  Files <- FilesOne
  AccessEdits = FALSE
INVARIANT StopLeavesNothing
