SPECIFICATION FairSpec
CONSTANTS
  loc = loc
  dyn = dyn
  frn = frn
  xd = xd
  NoDisplay = NoDisplay
  NoPid = NoPid
  NoFile = NoFile
  Display = {loc}
  Pid = {p1, p2, p3}
  Local = {loc}
  Permanent = {loc}
  Xdmcp = {}
  TerminateServer = {loc}
  StartAttempts = 2
  ReservAttempts = 1
  ServerAttempts = 2
  UseXdmcp = FALSE
  AutoRescan = TRUE
  ForkFails = FALSE
  Signals = {"TERM"}
  Files <- FilesTwo
  AccessEdits = FALSE
PROPERTIES ChildReadyServed PermanentServed ZombieGoes IdleStopExits
