\* Lookups over every way to fill a store, with ceilings tightened at any
\* moment of its life.
SPECIFICATION Spec
CONSTANTS
    OffsetMax = 4
    Bytes = {0, 1, 2}
    Buffers = 1
    Requests <- LookupRequests
    NewValues <- PipelineValues
    NewWires = {}
    Targets = {}
    EntryMax = 3
    EntryCeilings = {2}
    ArenaCeilings = {3}
    EditCeilings = {1}
    MaxEntries = 2
    MaxBlocks = 2
    MaxOps = 1
INVARIANTS LookupsExact CeilingsHold
PROPERTY RefusalSticks
