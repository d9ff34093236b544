SPECIFICATION PartsSpec
CONSTANTS
    k1 = k1
    k2 = k2
    c1 = c1
    c2 = c2
    ca1 = ca1
    ca2 = ca2
    NoKey = NoKey
    NoCert = NoCert
    SelfSigned = SelfSigned
    Keys <- MCKeys
    Certs <- MCCerts
    Inputs <- KeyedInputs
    Validate = TRUE
    MaxRestarts = 2
    Texts <- MCTexts
    Length <- MCLength
    LogFilesCount = 3
    MaxFileBytes = 3
    MaxCalls = 4
INVARIANTS
    LabelNamesFirstKey
    TrustKept
    NoKeyInTruststore
    WebServerIdentity
    NativeHAIdentity
    ReadyMeansConfigured
    ProbesAgree
    RedactsSensitive
    SamePassword
    FilesBounded
    NoRepeatedLine
    EveryCallLogged
PROPERTY ImplementsBoundedLog
CHECK_DEADLOCK FALSE
