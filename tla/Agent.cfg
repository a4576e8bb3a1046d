\* Two requests under way; a window shorter than an ended tool call with the
\* messages around it; three tool calls, up to two in one message of the LLM.
CONSTANTS
    Handlers = {h1, h2}
    Calls = {k1, k2, k3}
    NoCall = NoCall
    NoPending = NoPending
    Window = 4
    MaxIterations = 2
    MaxFollowUps = 2
    MaxCalls = 2
    Texts <- MCTexts
    Empty = ""
    Normalized <- MCNormalized
    Words <- MCWords
    StartsWith <- MCStartsWith
    LongEnough <- MCLongEnough
    Kinship <- MCKinship
    MaxCandidates = 1
    MaxResults = 2
    Contacts <- MCContacts
    Listings <- MCListings
    NoAnswer = NoAnswer
SPECIFICATION MCSpec
SYMMETRY Symmetry
INVARIANTS AgentTypeOK TranscriptsPaired RepairFindsNothing ResolvedIsClear
CHECK_DEADLOCK FALSE
