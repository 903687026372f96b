SPECIFICATION FairSpec
CONSTANTS
  loc = loc
  dyn = dyn
  frn = frn
  xd = xd
  NoDisplay = NoDisplay
  NoPid = NoPid
  NoFile = NoFile
  Display = {loc, xd}
  Pid = {p1, p2, p3, p4}
  Local = {loc}
  Permanent = {loc}
  Xdmcp = {xd}
  TerminateServer = {}
  StartAttempts = 1
  ReservAttempts = 1
  ServerAttempts = 1
  UseXdmcp = TRUE
  AutoRescan = FALSE
  ForkFails = FALSE
  Signals = {}
  Files <- FilesOne
  AccessEdits = FALSE
PROPERTY SubDaemonRestarted
