SPECIFICATION Spec
CONSTANTS
  Feature <- AllFeatures
  NumItems = 2
  MaxDisturbances = 3
INVARIANTS
  
  OutcomeIsTrue
PROPERTIES
  JobSettles
CHECK_DEADLOCK FALSE
