CONSTANTS
    Units = {a, b}
    Capacities <- MCCapacities
    MaxText = 6
SPECIFICATION WriterSpec
INVARIANTS
    InsideBuffer
    TruncationIsHonest
