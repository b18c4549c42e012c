SPECIFICATION Spec
CONSTANTS
  Sensors <- MCSensors
  Masked = {2, 3}
  Compass = 2
  Temperature = "temperature"
  Orientation = "orientation"
  Toggled = {"proximity"}
  Rooms = {2}
  Size = 2
  MaxSamples <- MCSamples
  MaxQueue = 3
  MaxWake = 1
INVARIANT TypeOK
INVARIANT RoomRespected
INVARIANT SamplesInOrder
INVARIANT HeldIsDue
