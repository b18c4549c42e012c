SPECIFICATION FairSpec
CONSTANTS
  Sensors <- MCSensors
  Masked = {2, 3}
  Compass = 2
  Temperature = "temperature"
  Orientation = "orientation"
  Toggled = {"temperature"}
  Rooms = {1, 3}
  Size = 2
  MaxSamples <- MCWaking
  MaxQueue = 3
  MaxWake = 2
PROPERTY ActivationReported
PROPERTY EventsReturned
