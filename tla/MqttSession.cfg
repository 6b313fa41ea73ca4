SPECIFICATION FairSpec
CONSTANTS
  Stuck = 3
  RingCap = 3
INVARIANTS TypeOK 
PROPERTIES PhasesReachRun
\* mqtt_task deletes itself when esp8266_init fails.
CHECK_DEADLOCK FALSE
