SPECIFICATION Spec
CONSTANTS
  LenBase = 8
  TopicSize = 3
  OutCap = 30
  IpdText <- ShortIpd
  OkText <- ShortOk
  RecvText <- ShortRecv
  SendOkText <- ShortSendOk
  ClosedText <- ShortClosed
  IpdSize = 16
  LineSize = 8
  Frames <- FalseHeaderOnly
  Requests <- ReportOnly
  MaxFrames = 1
  MaxSends = 0
INVARIANTS FramesAreGenuine
