SPECIFICATION FairSpec
CHECK_DEADLOCK FALSE
INVARIANTS
    NothingLeftAlive
PROPERTIES
    AnsweredIsQuiet
    KeepsPromise
