CONSTANTS
    s1 = s1
    s2 = s2
    s3 = s3
    c1 = c1
    c2 = c2
    Sub = {s1, s2, s3}
    Closer = {c1, c2}
    ClosesOf <- Closes
    Event <- Events
    Foreign <- Malformed
    Scenarios <- Both
    Byte <- Bytes
    Sha <- Digests
SPECIFICATION Spec
INVARIANTS
    TypeOK
    UnsubscribedIsSilent
    DueIsOnItsWay
PROPERTIES
    DueIsHeard
    CallsReturn
    StartsDelivering
CHECK_DEADLOCK FALSE
