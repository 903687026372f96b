SPECIFICATION Spec
CONSTANTS
  TextMax = 5
  Field = 2
  Echo = TRUE
  KeyLengths <- Keys
  NameLength = 3
  OpenRepeat = 2
  PingInterval = TRUE
  GrabServer = FALSE
  ResetBy = "pseudo"
  MaxMessages = 2
  MaxAttempts = 2
  MaxTerms = 2
  MaxRaces = 1
  Own = own
  Others = {other}
  NoFile = {nofile}
CHECK_DEADLOCK FALSE
INVARIANTS TypeOK CursorAlwaysShown SecretHidden LoginComplete PamPaired ResetOnce ClientGone
INVARIANTS OthersKept ClientAuthorized AuthorizationRemoved LockGivenBack
PROPERTIES TermEnds ClientEndNoticed ServerDeathNoticed
