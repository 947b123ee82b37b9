SPECIFICATION Spec
CONSTANTS
  Grids <- MCGrids
  Frames <- MCFrames
  Offset <- MCOffset
  NoFrame = NoFrame
  Points <- MCPoints
  Modulus = 16
INVARIANTS
  TypeOK
  GridInAgentsFrame
  RoundTrip
  ObstacleNamedAtPoint
PROPERTY ClampedToItsGrid
