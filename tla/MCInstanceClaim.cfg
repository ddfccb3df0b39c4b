SPECIFICATION Spec
CONSTANTS
    Controllers = {c1, c2, c3, c4}
    None = None
SYMMETRY Symmetry
CHECK_DEADLOCK FALSE
INVARIANTS OneLiveSession UnclaimedIsProven LaunchOnRecordedDisks
PROPERTIES UnknownIsFinal ClaimRemovedByOwner AttemptsAreLives
