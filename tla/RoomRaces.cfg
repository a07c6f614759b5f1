SPECIFICATION Spec
CONSTANTS
    Peer = {fay, ann}
    Founder = fay
    Writers = {fay, ann}
    MaxLog = 3
    MaxCommands = 3
    MaxTasks = 2
    MaxCrashes = 1
    HubChoices = {{}, {fay}, {fay, ann}}
    HubFails = TRUE
    NetFails = TRUE
CHECK_DEADLOCK FALSE
INVARIANTS
    TypeOK
    EveryCopyVerifies
    ToldIsPublished
    MemoryIsDisk
PROPERTIES
    ShrinkNeedsCause
