SPECIFICATION FairSpec
CONSTANTS
  Word = 64
  BufSize = 40
  SwcHandler = SwcHandler
  Handlers = {SwcHandler}
  NoHandler = NoHandler
  NoFrame = NoFrame
  NoSample = NoSample
  Datagrams <- AllDatagrams
  RcvBuf = 2
  MaxArrivals = 3
  QueueSize = 2
INVARIANTS
  FrameAccounting
  NoThreadAfterStop
  PushAndPullAgree
  OneCallAfterUnsubscribe
PROPERTIES
  JoinIsBounded
  StopReturns
  SocketDrains
