SPECIFICATION Spec
CONSTANTS
    Peer = {fay, ann}
    Founder = fay
    Writers = {fay}
    MaxLog = 3
    MaxCommands = 3
    MaxTasks = 1
    MaxCrashes = 0
    HubChoices = {{fay, ann}}
    HubFails = TRUE
    NetFails = FALSE
CHECK_DEADLOCK FALSE
PROPERTIES
    RemovalSticks
