SPECIFICATION Spec
CONSTANTS
  MaxSteps = 5
  Trajectories <- MCTrajectories
  Speeds <- MCSpeeds
  Velocities <- MCVelocities
  Garbage <- MCGarbage
  Weight = 1
  Scale = 2
  Horizon = 3
  Length = 2
INVARIANT GuessFromMemory
