SPECIFICATION Spec
CONSTANTS
    ann = ann
    ben = ben
    l3 = l3
    Peer = {ann, ben}
    Letter = {l1, l2}
    From <- MCFrom
    To <- MCTo
    Oversize = {}
    Doubtful = {l1}
    QuotaPerSender = 2
    QuotaPerRecipient = 2
    ReplyCap = 3
    MaxRow = 3
    MaxCrashes = 1
    MayExpire = TRUE
    MayLag = TRUE
CHECK_DEADLOCK FALSE
INVARIANTS
    LossNeedsReuse
