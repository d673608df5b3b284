SPECIFICATION Spec
CONSTANTS
  Ids = {"a", "b"}
  MaxTime = 2
  MaxFaults = 3
INVARIANTS WipedStaysWiped NeverOlder
PROPERTIES OneGoodBlockIsEnough RepairIsComplete
