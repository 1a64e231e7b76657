\* The program goes on to print the record when it is built.
CHECK_DEADLOCK FALSE
CONSTANTS
    CONFIG_TABLE_LIMIT = 2
    VENDOR_LIMIT = 64
    DT_MODEL_LIMIT = 64
    REPORTED_DESCRIPTORS = 12
    RECORD_CAPACITY = 4096
    Digits32 = {10}
    Digits64 = {20}
    PageDigits = {16}
    EscapedLengths <- MCEscapedLengths
    Statuses <- MCStatuses
    MapOutcomes <- MCMapOutcomes
    DtOutcomes <- MCDtOutcomes
    Tables <- MCTables
    Vendors <- MCVendors
    Answers <- MCAnswers
    Raws <- MCRaws
SPECIFICATION Spec
INVARIANTS
    AbsenceIsConfirmed
    FirstTreeDecides
    RecordFits
