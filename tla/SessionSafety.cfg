SPECIFICATION Spec
CONSTANTS
    ann = ann
    ben = ben
    cay = cay
    back = back
    aside = aside
    Peer = {ann, ben, cay}
    Conn = {c1, c2}
    NoConn = NoConn
    Msg = {m1, back, aside}
    From <- MCFrom
    To <- MCTo
    Contacts <- MCContacts
    WithHub = {ann}
    QueueCap = 1
    MaxFaults = 0
SYMMETRY Interchangeable
CHECK_DEADLOCK FALSE
INVARIANTS
    TypeOK
    LiveIsSession
    OnlyAddressee
    UnlistedNeedsTwo
    Custody
PROPERTIES
    WireIsTakenUnlessDeaf
