SPECIFICATION Spec
CONSTANTS
  LenBase = 8
  TopicSize = 3
  OutCap = 30
  IpdText <- ShortIpd
  OkText <- ShortOk
  RecvText <- ShortRecv
  SendOkText <- ShortSendOk
  ClosedText <- ShortClosed
  IpdSize = 16
  LineSize = 8
  Frames <- AllFrames
  Requests <- AllRequests
  MaxFrames = 2
  MaxSends = 1
INVARIANTS TypeOK FramesIntact PacketsHandled AcksAreOwed FramesKept
PROPERTIES ImplementsFeed
