CONSTANTS
    w1 = w1
    w2 = w2
    Workers = {w1, w2}
    MaxId = 2
    Keys = {"k"}
    KeyOf <- SharedKey
    KindOf <- GatedFirst
    Unwritable = {}
    MaxEmit = 2
SYMMETRY Swap
CONSTRAINT FewEmissions
SPECIFICATION Spec
INVARIANTS TypeOK ExecutedOncePerLoss NoJobVanishes ReplaysAgree
PROPERTY RecordsAreKept
