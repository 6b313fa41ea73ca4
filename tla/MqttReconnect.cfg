SPECIFICATION FairSpec
CONSTANTS
  Stuck = 1
  RingCap = 2
PROPERTIES ReconnectsAfterLoss
\* mqtt_task deletes itself when esp8266_init fails.
CHECK_DEADLOCK FALSE
