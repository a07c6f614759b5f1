SPECIFICATION QuotaFairSpec
CONSTANTS
    ann = ann
    ben = ben
    l3 = l3
    Peer = {ann, ben}
    Letter = {l1, l2}
    From <- MCFrom
    To <- MCTo
    Oversize = {}
    Doubtful = {l1}
    QuotaPerSender = 1
    QuotaPerRecipient = 1
    ReplyCap = 3
    MaxRow = 3
    MaxCrashes = 1
    MayExpire = FALSE
    MayLag = FALSE
CHECK_DEADLOCK FALSE
INVARIANTS
    TypeOK
    NothingLost
    MailboxOvershoot
PROPERTIES
    KeepsPromise
    ProvisionalIsSettled
    MailboxDrains
