SPECIFICATION Spec
CONSTANTS
  QueueLen = 2
  Others <- LoraMid
  Positions = {30}
  CH_MAX = 2
  HISTORY_BUCKETS = 2
  HOUR_HISTORY = 2
  HourSamples = 2
  Recent = 1
  RecentHours = 1
  MaxSamples = 7
INVARIANTS TypeOK DisplayAgrees AlertLinkCurrent HomeIsWhole DetailIsCurrent
  MinuteAveragesAreNewest HourAveragesAdjoin
