SPECIFICATION FairSpec
CONSTANTS
  Samples <- OkOrFailed
  EnvLen = 1
  ReportLen = 1
  Period = 1
  MaxPeriods = 2
INVARIANTS TypeOK GroundedAverages ReportsAccountedFor GuiHasNewest
PROPERTIES PeriodsClose ReportsDelivered
