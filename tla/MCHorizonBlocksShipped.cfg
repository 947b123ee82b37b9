SPECIFICATION Spec
CONSTANTS
  Steps <- ShippedSteps
  Horizons <- ShippedHorizons
  Lengths <- ShippedLengths
  SocialCosts = {"social_work"}
  NavCosts = {"velocity"}
INVARIANT EveryBoundaryTied
