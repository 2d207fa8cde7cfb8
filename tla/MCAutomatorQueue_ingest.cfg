CONSTANTS
    w1 = w1
    w2 = w2
    Workers = {w1}
    MaxId = 1
    Keys = {"k"}
    KeyOf <- SharedKey
    KindOf <- Allowed
    Unwritable = {}
    MaxEmit = 2
SPECIFICATION Spec
INVARIANT IngestionKeepsSuppressing
