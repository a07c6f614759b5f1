SPECIFICATION Spec
CONSTANTS
    Peer = {founder, alice, bob}
    MaxLog = 4
CHECK_DEADLOCK FALSE
INVARIANTS
    TypeOK
    ReplayIsMeaning
    VerifyLogIsLoop
    OnlyPrefixesVerify
PROPERTY
    MembershipIsEarned
