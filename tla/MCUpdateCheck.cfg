SPECIFICATION Spec
CONSTANTS
  Checks = {c1, c2}
  Acks = {a1}
  EventOf <- MCEventOf
  Digests = {"d1"}
  Newer = {"d1"}
  None = None
  MaxGen = 3
  MaxLapsed = 1
  Attempts = 2
  Rounds = 1
  Capacity = 2
  SuccessDelays = {1}
  FirstFailureDelay = 1
  LaterFailureDelay = 2
  Horizon = 2
  NowOf <- MCNowOf
  c1 = c1
INVARIANTS TypeOK OneFetchPerLease NoticesAreDue LoneInvocationServed
PROPERTIES LiveClaimKept FollowsLedger
CHECK_DEADLOCK FALSE
