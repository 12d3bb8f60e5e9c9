CONSTANTS
    k1 = k1
    k2 = k2
    v1 = v1
    v2 = v2
    None = None
    Key <- MCKey
    Value <- MCValue
    KeySize <- MCKeySize
    ValueSize <- MCValueSize
SPECIFICATION Spec
INVARIANTS MemoryExact
PROPERTY AtomicStoreSpec
