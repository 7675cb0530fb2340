SPECIFICATION Spec
CONSTANTS
    Max32 = 3
    Max64 = 5
    Limits <- MCLimits
    Kinds = {"embedded"}
    MaxDepth = 4
    MaxBlocks = 2
    MaxSize = 2
    MaxAsked = 6
INVARIANT CeilingsAreCumulative
CHECK_DEADLOCK FALSE
