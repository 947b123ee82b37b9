SPECIFICATION Spec
CONSTANTS
  Messages <- MCMessages
  NoFrame = "none"
  PlanFrame = "map"
  MaxLin = 4
  MinLin = 2
  MaxAng = 3
  PursuitCmds <- MCPursuitCmds
  SolverCmds <- MCSolverCmds
  Windows = {0, 1}
  SpeedLimits = {3}
INVARIANT VelocitiesInPlanFrame
