SPECIFICATION CliSpec
CHECK_DEADLOCK FALSE
CONSTANTS
    NoTls = NoTls
    Unparseable = Unparseable
    CipherSuiteNames <- MCCipherSuiteNames
    Streams <- MCStreams
    MaxStreams = 2
    RiskClasses <- MCClasses
INVARIANTS
    EveryMailStreamReported
    ScoreFromRules
    HeadlineFromRules
    AbsenceExplainedOnce
    ChainVerdict
    FeaturesFollowRules
    OkMeansWritten
    ErrorLeavesPrefix
PROPERTIES
    FindingsOnlyGrow
