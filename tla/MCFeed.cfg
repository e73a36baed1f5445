SPECIFICATION FairSpec
CONSTANTS
    d1 = d1
    d2 = d2
    w1 = w1
    w2 = w2
    Docs = {d1, d2}
    Writes = {w1, w2}
    Contended = {d1}
    MaxAnnounced = 3
    MaxSeq = 3
CONSTRAINT TwoChangesOrOneDoc
PROPERTIES
    NeverOlder
    PollNeverOlder
    WinnerIsEmitted
    OwnEventuallyCurrent
CHECK_DEADLOCK FALSE
