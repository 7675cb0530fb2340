SPECIFICATION Spec
CONSTANTS
    Native = {"exif"}
    TextArrays = {"title"}
    StructArrays = {"shown"}
    Structs = {"contact"}
    Customs = {"tree"}
    Singletons <- TheSingletons
    Repeated = {"creator"}
    Clashes <- TheClashes
    BadValues = {"bad"}
    NoBlock = 99
    IndexMax = 4
    OrderMax = 9
    IdMax = 7
    MaxOperations = 3
    MaxEntries = 6
    All = 98
    Unique = 97
    MaxXmpOperations = 2
    MaxScopeEntries = 5
    MaxExpanded = 4
    InitStores <- Stores
    Requests <- TheRequests
    MaxOps = 3
INVARIANTS RootsWellFormed XmpNeverMisses BlameIsRight
PROPERTIES ImplementsLists AddedComeLast
