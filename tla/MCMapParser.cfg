\* parse_map returns once.
CHECK_DEADLOCK FALSE
CONSTANTS
    MAP_LIMIT = 20
    DESCRIPTOR_BYTES = 5
    UINT64_MAX = 15
    EFI_PAGE_BYTES = 4
    REPORTED_DESCRIPTORS = 2
    Capacities <- MCCapacities
    Lengths <- MCLengths
    MapStrides <- MCStrides
    MapVersions <- MCVersions
    Physical <- MCPhysical
    Virtual <- MCVirtual
    Pages <- MCPages
SPECIFICATION Spec
INVARIANTS
    ReadsStayInMap
    ObservedMapIsValid
    RejectedMapIsInvalid
