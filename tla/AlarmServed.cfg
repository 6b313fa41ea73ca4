SPECIFICATION FairSpec
CONSTANTS
  QueueLen = 2
  Remotes = {"LORA"}
  RemoteCmds <- FanOnly
  GuiPcts = {}
  Readings <- CalmOrGas
  Timeout = 2
  MaxStall = 1
  TickMod = 4
PROPERTIES AlarmServedInAutoMode
