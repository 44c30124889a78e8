SPECIFICATION FairSpec
CONSTANTS
    MaxConnections = 2
    MaxWaiting = 1
INVARIANTS
    CiphersAgree
    AwaitedIsAnswered
    ModesAgree
PROPERTIES
    
    GoesQuiet
CHECK_DEADLOCK FALSE
