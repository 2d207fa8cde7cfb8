CONSTANTS
    a1 = a1
    a2 = a2
    c1 = c1
    c2 = c2
    t1 = t1
    t2 = t2
    p1 = p1
    p2 = p2
    Absorbs = {a1, a2}
    Facts = {"f", "g"}
    Bundles = {{"f"}, {"g"}}
    Calls = {c1, c2}
    Tasks = {t1, t2}
    Patches = {p1, p2}
    Clash <- Separate
    MaxChecks = 1
    MaxRequests = 2
SYMMETRY Swaps
SPECIFICATION Spec
INVARIANTS TypeOK AbsorbedIsKept PageShowsWhatWasTold ValidatedAsApplied CheckedPatchFits LocksAreReturned
PROPERTY RefinesAtMostOnce
