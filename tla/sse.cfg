SPECIFICATION FairSpec
CONSTANTS
  MaxConns = 3
  None = None
  ClientBuffer = 1
  MaxEvents = 2
  MaxLapses = 1
INVARIANTS TypeOK ServedWhileOpen NoSendOnClosed StopsOnce NoSilentGap GaugesTrue LeakNeedsLapse
PROPERTIES LeaversFinish SubscriptionRecovers ImplementsFeed
CHECK_DEADLOCK FALSE
