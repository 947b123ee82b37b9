SPECIFICATION Spec
CONSTANTS
  MaxSteps = 4
  Trajectories <- MCTrajectories
  Speeds <- MCSpeeds
  Velocities <- MCVelocities
  Garbage <- MCGarbage
  Weight = 1
  Scale = 2
  Horizon = 3
  Length = 2
INVARIANTS
  TypeOK
  MemoryIsRollout
  HorizonBounded
PROPERTY TrackedBetween
