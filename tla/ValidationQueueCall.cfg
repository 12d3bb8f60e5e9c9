CONSTANTS
    t1 = t1
    t2 = t2
    i1 = i1
    c1 = c1
    Main = Main
    Null = Null
    Thread = {t1}
    Importer = {}
    Caller = {c1}
    Backlog = 10
    MayStop = FALSE
    MaxCalls = 2
SPECIFICATION Spec
CHECK_DEADLOCK FALSE
PROPERTIES
    CallsReturn
