SPECIFICATION UseSpec
CONSTANTS
    OffsetMax = 8
    Bytes = {0, 1, 2}
    Payloads <- MCPayloads
    Sizes = {0, 1, 3}
    Alignments = {0, 1, 2, 3, 4}
    Ceilings = {0, 3, 5}
    MaxHeld = 4
INVARIANTS HeldSpansKeepTheirBytes CeilingOrFlag
PROPERTY NestedBudgetsOnlyTighten
