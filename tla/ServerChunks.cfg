SPECIFICATION Spec
CONSTANTS
    r1 = r1
    r2 = r2
    big = big
    notice = notice
    junk = junk
    NoMessage = NoMessage
    Messages = {r1, big, junk}
    Form <- MCForm
    Chunked = {big}
    MaxErrors = 1
INVARIANT
    BufferedAcrossPolls
CHECK_DEADLOCK FALSE
