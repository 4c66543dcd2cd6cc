SPECIFICATION Spec
CONSTANTS
    Keys <- OneKey
    Archives <- OneArchive
    MaxInc = 2
    MaxSeq = 2
    Settings <- Lives
    k1 = k1
    a1 = a1

    
    
PROPERTIES
    
    AckSeesLosses
CHECK_DEADLOCK FALSE
