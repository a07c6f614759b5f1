SPECIFICATION Spec
CONSTANTS
    ann = ann
    ben = ben
    Peers = {ann, ben}
    NoText = NoText
    pic = pic
    doc = doc
    cat = cat
    Short <- MCShort
    Sources = {pic, doc, cat}
    Owner <- MCOwner
    SafeName <- MCSafeName
    Chunks = {1, 2}
    Contents <- MCContents
    MaxFile = 2
    Idle = Idle
    Absent = Absent
    MaxSeq = 3
    MaxClock = 2
    Budgets <- MCBudgets
CHECK_DEADLOCK FALSE
INVARIANTS
    TypeOK
    LastWord
    EndsAgree
    NoIdTwice
    PathTruthful
    OrphanNeedsCause
PROPERTIES
    AuthorOnly
    DeletedStays
