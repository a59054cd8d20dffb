SPECIFICATION FairSpec
PROPERTIES   Converges
CHECK_DEADLOCK FALSE
