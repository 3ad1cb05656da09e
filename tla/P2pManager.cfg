SPECIFICATION ManagerFairSpec
CONSTANTS
    c1 = c1
    c2 = c2
    c3 = c3
    c4 = c4
    NoSend = NoSend
    Sends = {c1, c2, c3, c4}
    Enabled = {"web", "rtc"}
    MaxPending = 2
INVARIANTS
    ManagerTypeOK
    CountIsExact
    PublishedOnce
PROPERTIES
    RefusedByLeaks
    SendsEnd
CHECK_DEADLOCK FALSE
