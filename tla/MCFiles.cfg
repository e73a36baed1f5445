SPECIFICATION FairSpec
CONSTANTS
    r1 = r1
    document = document
    photo = photo
    Records = {r1}
    Fields = {document, photo}
    PhotoFields = {photo}
    MaxJobs = 3
    MaxFaults = 1
INVARIANTS
    AttachmentMatchesValue
    LastSuccessCounts
PROPERTIES
    JobsEnd
CHECK_DEADLOCK FALSE
