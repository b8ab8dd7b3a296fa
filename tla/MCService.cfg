SPECIFICATION Spec
CONSTANTS
    None = None
    Handlers = {1}
    FloatExact = 4
    Env <- MCEnv
    Safe <- MCSafe
    Encoded <- MCEncoded
    RawConfigs <- MCRawConfigs
    Tools <- MCTools
    Rank <- MCRank
    Requests <- MCRequests
    Replies <- MCReplies
INVARIANTS
    TypeOK
    IInv
    FileServedAsWritten
    OnlyVerifiedCalls
    OwnSecretsOnly
    HeadersMatchBody
    ListedCallsConform
    ChallengeLeadsToResource
    RelaysOneMessage
    HandshakeOrRevision
    StatelessDeployment
    CountsOwnErrors
    ExitTellsTheTruth
PROPERTIES
    SignalStops
    StartupEnds
    RequestsSettle
