SPECIFICATION Spec
CONSTANTS
    u1 = u1
    u2 = u2
    Uploads <- MCUploads
    NoUpload = NoUpload
    NoFile = NoFile
    Partial = Partial
    NoReply = NoReply
    MaxCrashes = 1
INVARIANTS
    OwnReport
    OnlyCompletedServed
    FoundUntilCrash
PROPERTIES
    ImplementsStore
    EveryUploadAnswered
