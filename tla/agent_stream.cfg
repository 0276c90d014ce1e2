SPECIFICATION Spec
CONSTANTS
  Scripts <- MCScripts
  SIZE = 2
INVARIANTS TypeOK DoneMeansComplete StagedIsWhole
PROPERTIES StreamEnds ThreadEnds
CHECK_DEADLOCK FALSE
