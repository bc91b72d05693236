CONSTANTS
    MaxRetries = 2
    Second = 2
    BackoffCap = 3
    ServerCap = 4
    RetryAfters = {0, 1, 9}
    NoHeader = NoHeader
    Latency = 1
    Statuses <- MCStatuses
    WaitConfigs <- MCWaits
    NoTimeout = NoTimeout
    SseTexts <- MCTexts
    MaxBuffer = 5
    Streams <- MCStreams
    MinFrame = 2
    MaxFrames = 5
    Providers = {"anthropic", "bedrock"}
    Sayings <- MCSayings
    Replies <- MCReplies
    Options <- MCOptions
    MaxHistory = 3
    CleanIds = {"", "_", "c1", "c2", "c3"}
    CallIds = {"a.b", "c1", "c2", "c3"}
    Pieces = {"text", "url_image", "audio", "document", "x", "p", "q", "r", "t"}
    Fetchers = {"f1", "f2"}
    Builders = {"b"}
    Customs <- MCCustoms
    Requests <- MCRequests
    KeysSet = {"openai"}
    Horizon = 1
    MaxEdits = 2
    MaxChanges = 3
    Frames0 <- MCFrames0
    U32 = 8
    Minute = 6
    MaxHops = 3
    RelayClock = 3
    Guardrails <- MCGuardrails
    Payloads <- MCPayloads
    Heuristics = {"forget"}
    Mark = "[redacted]"
    MaxGuardrails = 2
    Spenders = {"r1", "r2"}
    Schemes <- MCSchemes
    MostCost = 1
    Margin = 10
    Askers = {"q1", "q2"}
    Contents <- MCContents
    Setups <- MCSetups
    HashOf <- MCHashOf
    Similarity <- MCSimilarity
    Threshold = 95
SPECIFICATION ClientSpec
INVARIANTS
    RetriesEndRight
    SseSound
    FramesSound
    ChatFaithful
    RelayFaithful
    DecisionSound
    SpendingBounded
    AnswersFit
PROPERTIES
    WaitEnds
    RegistrySound
CHECK_DEADLOCK FALSE
