SPECIFICATION Spec
CONSTANTS
  Dist <- MCDist
  Places <- MCPlaces
  Plans <- MCPlans
  Robots <- MCRobots
  Shifts <- MCShifts
  Origins <- MCOrigins
  SizeX = 2
  SizeY = 2
  Unit = 10
  MaxSearch = 25
INVARIANTS
  TypeOK
  PlanConserved
  ProjectionInCostmap
PROPERTIES
  HandedOutFromHead
  ImplementsCursor
