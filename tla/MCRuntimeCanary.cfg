CONSTANTS
    c1 = c1
    c2 = c2
    Callers = {c1, c2}
    Ids = {"r"}
    Envelopes = {"e", "f"}
    Trees = {"clean", "dirty"}
SYMMETRY Swap
SPECIFICATION Spec
INVARIANTS TypeOK NoSubprocessReplay CertifiedTwice AnsweredItsEnvelope DoneIsRecorded
PROPERTIES RecordsAreFinal RefinesAtMostOnce
