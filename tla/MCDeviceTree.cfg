\* The parser stops when it returns.
CHECK_DEADLOCK FALSE
CONSTANTS
    DT_LIMIT = 118
    UINT64_MAX = 3
    DT_DEPTH_LIMIT = 3
    DT_MODEL_LIMIT = 2
    Spans <- MCSpans
    Totals <- MCTotals
    Versions <- MCVersions
    Offsets <- MCOffsets
    Sizes <- MCSizes
    Words <- MCWords
    NameLengths <- MCNameLengths
    PropLengths <- MCPropLengths
SPECIFICATION TreeSpec
INVARIANTS
    TreeTypeOK
    ReadsInSpan
    LayoutSound
    RefusesOnlyUnsound
    StaysInBlock
    AcceptsOnlyTrees
    RejectsOnlyOthers
    ModelIsTheRoots
    EveryByteOnce
