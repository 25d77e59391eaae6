CONSTANT MaxFrames = 5
SPECIFICATION Spec
INVARIANT Conservation
INVARIANT NoLostWakeup
PROPERTY EndsAfterSenderDropped
PROPERTY DropsReported
PROPERTY LatestValueSpec
CHECK_DEADLOCK FALSE
