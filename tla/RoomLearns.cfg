SPECIFICATION FairSpec
CONSTANTS
    Peer = {fay, ann}
    Founder = fay
    Writers = {fay, ann}
    MaxLog = 3
    MaxCommands = 4
    MaxTasks = 1
    MaxCrashes = 0
    HubChoices = {{}, {fay}, {fay, ann}}
    HubFails = TRUE
    NetFails = FALSE
CHECK_DEADLOCK FALSE
PROPERTIES
    MembersLearn
