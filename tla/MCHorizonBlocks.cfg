SPECIFICATION Spec
CONSTANTS
  Steps <- MCSteps
  Horizons <- MCHorizons
  Lengths <- MCLengths
  SocialCosts = {"social_work", "proxemics"}
  NavCosts = {"velocity", "obstacle"}
INVARIANTS
  TypeOK
  ResidualsMatchBlocks
  LimitsInProblem
  ExecutedIsScored
  PredictionFollowsCommands
  CommandsLimited
