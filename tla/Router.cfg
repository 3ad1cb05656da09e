SPECIFICATION Spec
CONSTANTS
    listed = listed
    unlisted = unlisted
    NotText = NotText
    Absent = Absent
    NoRequest = NoRequest
    Requests <- MCRequests
    Tokens <- MCTokens
    Texts <- MCTexts
    Prompts = {listed}
    Required <- MCRequired
    Descriptions <- MCDescriptions
    Unsafe <- MCUnsafe
    MaxArgument = 3
    MaxDescription = 9
INVARIANTS
    RouterTypeOK
    FilledAtOnce
    CheckedInOrder
CHECK_DEADLOCK FALSE
