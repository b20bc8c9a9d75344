SPECIFICATION Spec
CHECK_DEADLOCK FALSE
CONSTANTS
    NoTag = NoTag
    NoTls = NoTls
    Unparseable = Unparseable
    CipherSuiteNames <- MCCipherSuiteNames
    Tls <- MCTls
    Spoken <- MCSmtp
    Tags <- MCTags
    GreetingWords <- MCGreetings
    AcceptWords <- MCAcceptWords
    RefuseWords <- MCRefuseWords
    CapaWords <- MCCapa
    ReplyWords <- MCReplies
    TextKinds <- MCTexts
    MaxAsks <- MCSmtpAsks
    MaxTexts = 0
    MaxReplies = 0
INVARIANTS
    AcceptanceIsReal
