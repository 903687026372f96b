SPECIFICATION Spec
CONSTANTS
  loc = loc
  dyn = dyn
  frn = frn
  xd = xd
  NoDisplay = NoDisplay
  NoPid = NoPid
  NoFile = NoFile
  Display = {loc}
  Pid = {p1, p2, p3}
  Local = {loc}
  Permanent = {loc}
  Xdmcp = {}
  TerminateServer = {}
  StartAttempts = 2
  ReservAttempts = 2
  ServerAttempts = 2
  UseXdmcp = FALSE
  AutoRescan = TRUE
  ForkFails = TRUE
  Signals = {"HUP", "USR2", "TERM"}
  Files <- FilesLocal
  AccessEdits = FALSE
SYMMETRY PidSymmetry
INVARIANTS TypeOK NoLostChild OneServer PhoenixBurns RestartHasNoSession ListAgrees
PROPERTIES ZombieStays SessionOnLiveServer
