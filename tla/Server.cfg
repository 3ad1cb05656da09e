SPECIFICATION FairSpec
CONSTANTS
    r1 = r1
    r2 = r2
    big = big
    notice = notice
    junk = junk
    NoMessage = NoMessage
    Messages = {r1, r2, big, notice, junk}
    Form <- MCForm
    Chunked = {big}
    MaxErrors = 1
INVARIANTS
    TypeOK
    AnswersInOrder
    WholeRequestsAnswered
PROPERTIES
    AnswerComes
    ServerEnds
CHECK_DEADLOCK FALSE
