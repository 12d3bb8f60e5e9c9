CONSTANTS
    t1 = t1
    t2 = t2
    i1 = i1
    c1 = c1
    Main = Main
    Null = Null
    Thread = {t1}
    Importer = {i1}
    Caller = {}
    Backlog = 0
    MayStop = TRUE
    MaxCalls = 3
SPECIFICATION Spec
CHECK_DEADLOCK FALSE
PROPERTIES
    CleanExit
