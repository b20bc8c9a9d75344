SPECIFICATION Spec
CHECK_DEADLOCK FALSE
CONSTANTS
    s1 = s1
    s2 = s2
    Streams <- MCStreams
    Ports <- MCPorts
    MailPorts <- MCMailPorts
    MaxRows = 3
INVARIANTS
    Inv
    ListedOnce
    NoStreamMissed
    MailPortServes
    OpenerIsClient
