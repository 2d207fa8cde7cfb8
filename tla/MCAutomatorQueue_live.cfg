CONSTANTS
    w1 = w1
    w2 = w2
    Workers = {w1}
    MaxId = 2
    Keys = {"k"}
    KeyOf <- SharedKey
    KindOf <- GatedFirst
    Unwritable = {2}
    MaxEmit = 2
SPECIFICATION FairSpec
PROPERTY EveryJobConsumed
