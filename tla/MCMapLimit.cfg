\* The probe stops when acquire_map returns.
CHECK_DEADLOCK FALSE
CONSTANTS
    MAP_LIMIT = 262144
    MAP_INITIAL = 4096
    MAP_ATTEMPTS = 5
    DESCRIPTOR_BYTES = 40
    UINT64_MAX = 15
    EFI_PAGE_BYTES = 4
    Statuses <- MCStatuses
    Sizes <- MCSizes
    Strides <- MCStrides
    Versions <- MCVersions
    Contents <- MCContents
SPECIFICATION Spec
INVARIANT LimitNeverMalformed
