\* Five declarations for three workers: answers overtake each other and every
\* worker claims again; one name is declared twice, one is scoped.
SPECIFICATION FairSpec
CONSTANTS
    ToCheck <- MCToCheck
    Scoped = {"@acme/kit"}
    Kept = {"info", "error"}
    Concurrency = 3
INVARIANTS
    AskedOnce
    PoolIsFull
PROPERTIES
    ImplementsCheck
    CheckEnds
\* the check is made once, then the system stops
CHECK_DEADLOCK FALSE
