SPECIFICATION Spec
CHECK_DEADLOCK FALSE
CONSTANTS
    NoTag = NoTag
    NoTls = NoTls
    Unparseable = Unparseable
    CipherSuiteNames <- MCCipherSuiteNames
    Tls <- MCTls
    Spoken <- MCImap
    Tags <- MCTags
    GreetingWords <- MCGreetings
    AcceptWords <- MCAcceptWords
    RefuseWords <- MCRefuseWords
    CapaWords <- MCCapa
    ReplyWords <- MCReplies
    TextKinds <- MCTexts
    MaxAsks <- MCImapAsks
    MaxTexts = 0
    MaxReplies = 0
INVARIANTS
    UpgradeSeen
