SPECIFICATION Spec
CONSTANTS
  Poses <- MCPoses
  Advance <- MCAdvance
  Dist <- MCDist
  Bearing <- MCBearing
  Curvature <- MCCurvature
  InFront <- MCInFront
  Leaves <- MCLeaves
  MaxLin = 2
  MaxAng = 3
  LinDelta = 1
  AngDelta = 2
  Turn = 8
  CurveUnit = 10
  Lookahead = 4
  UseInterpolation = TRUE
  AllowReverse = TRUE
  UseRotateToHeading = TRUE
  RotateVel = 3
  RotateMinAngle = 1
  GoalDistTol = 3
  Desired = 2
  MinApproach = 1
  MinRadius = 2
  MinRegulated = 1
  Plans <- MCPlans
  Robots <- MCRobots
  Speeds <- MCSpeeds
  CheckerTols = {0, 1, 4}
  MaxSteps = 5
INVARIANTS
  TypeOK
  RolloutConsistent
  AccelerationsInLimits
  StopsAtGoal
  NeverStuck
