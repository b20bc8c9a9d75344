SPECIFICATION Spec
CONSTANTS
    u1 = u1
    u2 = u2
    Users <- MCUsers
    Keys <- MCKeys
    DataSets <- MCDataSets
    OldFiles <- MCOldFiles
    MaxCalls = 3
    MaxSaves = 2
INVARIANTS
    SavedModelAnswers
    OwnMetrics
    OneResultUntilCleared
    ClearedShowsSaved
PROPERTIES
    EveryRunEnds
