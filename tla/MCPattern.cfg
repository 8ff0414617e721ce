\* Every family of patterns; 5 bits for 16, 15 for 255, 4 bits for 64.
\* The formatter starts the parser, whose own inputs are not used.
CONSTANTS
    ShortBits = 5
    LongBits = 4
    MaxComponent = 15
    MaxSegments = 4
    TimeBuffer = 4
    MaxChoices = 1
    Requests <- MCRequests
    Patterns = {}
    Configs = {}
SPECIFICATION Spec
INVARIANTS
    TypeOK
    Cover
    ViewsTrue
    Nested
    PaddingTrue
    MarkersAreFlat
    NeverAborts
    Rendered
    ColoursForced
    StylesClosed
    Padded
    ColoursTrue
    RenderingsAgree
