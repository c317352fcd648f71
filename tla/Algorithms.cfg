SPECIFICATION Spec
CONSTANTS
    GroupBits = 3
    WordBits = 8
    MaxMCSMessageSize = 9
    MaxFrameSize = 257
    MCSVersion = 5
    LegacyVersion = 3
    Tags <- MCTags
    Parses <- MCParses
    Pushes <- MCPushes
    Following <- MCFollowing
    Varints <- MCVarints
    GRPCFrames <- MCGRPCFrames
    Payloads <- MCPayloads
    Top = 2
    BlockLen = 3
    Rb = 3
    IVLen = 2
    MACInputs <- MCMACInputs
    EAXInputs <- MCEAXInputs
    Keys <- MCKeys
    Xor <- MCXor
    AES <- MCAES
    GCMOpen <- MCGCMOpen
    P = 23
    B = 8
    N = 31
    G <- MCG
    EIDK = 1
    TsLen = 1
    NoEpoch = NoEpoch
    None = None
    MaxLen = 6
    Milliseconds = 20
    Nesting = 6
    Scalars <- MCScalars
    Columns <- MCColumns
    Pasted <- MCPasted
    Links <- MCLinks
    ListAnswers <- MCListAnswers
    Fetches <- MCFetches
    ContactAnswers <- MCContactAnswers
    Times <- MCTimes
    Bodies <- MCBodies
    MaxUint = 255
    NaN = NaN
    NoPID = NoPID
    Numerals <- MCNumerals
    CookieMaps <- MCCookieMaps
    Numbers <- MCNumbers
    TokenTexts = {"", "t", "u"}
    Hosts <- MCHosts
    WindowSizes = {"", "1,1"}
    DataDirs = {"", "dir"}
    Environments = {"", "0", "1"}
    SecretTexts = {"secret"}
    Escapes <- MCEscapes
    BadEscapes = {"%zz"}
    Answers <- MCAnswers
    DeviceLists <- MCDeviceLists
    NotAKey = NotAKey
    KeyNames = {"a", "b"}
    Lengths = {0, 1, 2, 11, 13, 14, 31, 32, 44, 48, 60, 66, 67, 78, 79, 200}
    Epochs = {1, 2}
    MaxEntries = 3
    TextLengths = {0, 1, 2, 3}
    Paddings = {0, 2, 9}
    Cuts = {0, 1, 5, 20}
    MessageIDs = {"i"}
    EarlierHeaders <- MCEarlierHeaders
    HKDF <- MCHKDF
INVARIANTS
    FramesExact
    EaxExact
    ReportsDecrypt
    KeysUnwrap
    AnswersTold
    MapsParsed
    LeftoversRead
CHECK_DEADLOCK FALSE
