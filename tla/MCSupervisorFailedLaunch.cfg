SPECIFICATION FairSpec
CONSTANT MaxRequest = 1
CHECK_DEADLOCK FALSE
PROPERTY FailedLaunchFinishes
