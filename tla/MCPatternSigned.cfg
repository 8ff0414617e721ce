\* One integer attribute, below zero or not.
\* The formatter starts the parser, whose own inputs are not used.
CONSTANTS
    ShortBits = 5
    LongBits = 4
    MaxComponent = 15
    MaxSegments = 4
    TimeBuffer = 4
    MaxChoices = 1
    Requests <- SignedRequests
    Patterns = {}
    Configs = {}
SPECIFICATION Spec
INVARIANTS
    SignedKept
