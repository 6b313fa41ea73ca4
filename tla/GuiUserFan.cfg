SPECIFICATION Spec
CONSTANTS
  QueueLen = 2
  Others <- AutoAndLora
  Positions = {0, 30, 100}
PROPERTIES UserFanSurvivesAlert
