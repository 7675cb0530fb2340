\* The edit pipeline with two buffers on a store of up to three entries.
SPECIFICATION Spec
CONSTANTS
    OffsetMax = 9
    Bytes = {0, 1, 2}
    Buffers = 2
    Requests <- PipelineRequests
    NewValues <- PipelineValues
    NewWires = {2}
    Targets = {0, 1}
    EntryMax = 3
    EntryCeilings = {}
    ArenaCeilings = {}
    EditCeilings = {}
    MaxEntries = 1
    MaxBlocks = 0
    MaxOps = 2
INVARIANTS TypeOK SpansResolve IndexFresh AllOrNothing
PROPERTY ImplementsDocument
