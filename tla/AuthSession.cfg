SPECIFICATION Spec
CONSTANTS
  Users = {a, b}
  None = None
  Attempts = 2
  MayRush = FALSE
  MaxOps = 6
  MaxFaults = 2
CHECK_DEADLOCK FALSE
INVARIANT TypeOK
INVARIANT LoggedOutStaysOut
INVARIANT TokenIsOfUser
INVARIANT BarrierIsUp
PROPERTY LoadingEndsUnlessSignedOut
