SPECIFICATION Spec
CONSTANTS
    Max32 = 3
    Max64 = 5
    Limits <- MCLimits
    Kinds = {"native", "embedded", "container"}
    MaxDepth = 4
    MaxBlocks = 2
    MaxSize = 2
    MaxAsked = 6
INVARIANTS CeilingsAreCumulativeElsewhere FailuresAreReported NothingGoesUncounted
CHECK_DEADLOCK FALSE
