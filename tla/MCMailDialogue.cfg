SPECIFICATION Spec
CHECK_DEADLOCK FALSE
CONSTANTS
    NoTag = NoTag
    NoTls = NoTls
    Unparseable = Unparseable
    CipherSuiteNames <- MCCipherSuiteNames
    Tls <- MCTls
    Spoken <- MCAll
    Tags <- MCTags
    GreetingWords <- MCGreetings
    AcceptWords <- MCAcceptWords
    RefuseWords <- MCRefuseWords
    CapaWords <- MCCapa
    ReplyWords <- MCReplies
    TextKinds <- MCTexts
    MaxAsks <- MCAllAsks
    MaxTexts = 2
    MaxReplies = 1
INVARIANTS
    UpgradeSeen
    RefusalStands
    OnlyRemarksMislead
    PlaintextVerdict
    PlaintextExact
    UnusedOfferReported
