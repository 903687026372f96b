SPECIFICATION Spec
CONSTANTS
  loc = loc
  dyn = dyn
  frn = frn
  xd = xd
  NoDisplay = NoDisplay
  NoPid = NoPid
  NoFile = NoFile
  Display = {dyn, xd}
  Pid = {p1, p2, p3, p4}
  Local = {dyn}
  Permanent = {}
  Xdmcp = {xd}
  TerminateServer = {dyn}
  StartAttempts = 1
  ReservAttempts = 1
  ServerAttempts = 1
  UseXdmcp = TRUE
  AutoRescan = TRUE
  ForkFails = FALSE
  Signals = {"USR2", "TERM"}
  Files <- FilesDyn
  AccessEdits = TRUE
SYMMETRY PidSymmetry
INVARIANTS NoLostChild ExitLeavesNothing ListAgrees
