SPECIFICATION FairSpec
CONSTANTS
  QueueLen = 2
  Remotes = {"LORA"}
  RemoteCmds <- EveryTarget
  GuiPcts = {80}
  Readings <- CalmOrGas
  Timeout = 1
  MaxStall = 2
  TickMod = 3
INVARIANTS TypeOK FanObeysLastCommand ManualModeBounded
PROPERTIES ManualModeLasts ManualModeEnds
