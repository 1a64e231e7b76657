\* Nothing is left to do when every launcher is over.
CHECK_DEADLOCK FALSE
CONSTANTS
    Launchers = {l1, l2, t}
    TerminateOnly = {t}
    Pids = {p1, p2, p3}
    NoOne = NoOne
SPECIFICATION Spec
INVARIANTS
    EmptyOnlyWhileWriting
    NoOrphan
    NothingOverwritten
PROPERTIES
    TerminateOnlyTerminates
