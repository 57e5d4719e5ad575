SPECIFICATION FairSpec
CONSTANT RingMax = 3
PROPERTY InterruptEndsPoll
CHECK_DEADLOCK FALSE
