SPECIFICATION Spec
CONSTANTS
    Size = 6
    Contents <- TheContents
    Headers = {"Good", "Short", "Foreign"}
    Firsts = {0, 1, 6}
    OptionSets <- TheChoices
    Capacity = 4
    PointerCap = 3
    Room = 3
    Failures = {"OutputTruncated"}
INVARIANTS DecodedOnce LinksFollowed DecodersAgree
PROPERTY EveryDecodeEnds
