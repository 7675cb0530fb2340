SPECIFICATION Spec
CONSTANTS
    SourceSize = 3
    StorageSize = 2
    MaxOffset = 2
    Max32 = 3
    Max64 = 4
    IoAnswers <- MCIoAnswers
    Limits <- MCLimits
    Minimums <- MCMinimums
INVARIANTS TypeOK ViewsAreTrue CeilingsHold
PROPERTIES FirstFailureSticks ReadAheadIsFree
