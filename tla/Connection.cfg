SPECIFICATION FairSpec
CONSTANTS
  Request = {r1, r2}
  r1 = r1
  r2 = r2
  KeepAlives = {0, 2}
  HeaderTimeouts = {0, 1}
  GoawayLinger = 1
  PrefaceLen = 2
INVARIANT CountExact
PROPERTY LeaseSpec
PROPERTY WindDownHasReason
PROPERTY SilentPeerReleased
PROPERTY IdleReleased
PROPERTY AnswerAndClose
PROPERTY ShutdownReleased
CHECK_DEADLOCK FALSE
