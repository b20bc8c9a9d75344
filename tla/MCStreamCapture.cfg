SPECIFICATION Spec
CHECK_DEADLOCK FALSE
CONSTANTS
    Ports <- MCPorts
    MailPorts <- MCMailPorts
    ISNs <- MCFarFromWrap
    Modulus = 16
    MaxBytes = 3
    MaxPackets = 6
INVARIANTS
    OwnBytesOnce
    CompleteIsContiguous
    WholeCaptureIsComplete
