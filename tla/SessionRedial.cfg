SPECIFICATION FairSpec
CONSTANTS
    ann = ann
    ben = ben
    cay = cay
    back = back
    aside = aside
    Peer = {ann, ben}
    Conn = {c1, c2}
    NoConn = NoConn
    Msg = {m1}
    From <- MCFrom
    To <- MCTo
    Contacts <- MCContacts
    WithHub = {ann}
    QueueCap = 1
    MaxFaults = 1
CHECK_DEADLOCK FALSE
PROPERTIES
    ComesBack
