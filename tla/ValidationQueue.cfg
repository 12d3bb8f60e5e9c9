CONSTANTS
    t1 = t1
    t2 = t2
    i1 = i1
    c1 = c1
    Main = Main
    Null = Null
    Thread = {t1, t2}
    Importer = {i1}
    Caller = {c1}
    Backlog = 0
    MayStop = TRUE
    MaxCalls = 2
SPECIFICATION Spec
CHECK_DEADLOCK FALSE
INVARIANTS
    Serial
    InOrder
    SomebodyCares
    FlushedAtExit
PROPERTIES
    CallbacksRun
    WaitersGoOn
