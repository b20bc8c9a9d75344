SPECIFICATION Spec
CHECK_DEADLOCK FALSE
CONSTANTS
    Ports <- MCPorts
    MailPorts <- MCMailPorts
    ISNs <- MCNearWrap
    Modulus = 16
    MaxBytes = 3
    MaxPackets = 6
INVARIANTS
    NoGapWithoutLoss
