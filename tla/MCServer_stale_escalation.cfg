CONSTANTS
    NoModel = NoModel
    NoLimit = NoLimit
    Catalogs <- MCCatalogs
    Directories <- MCDirectories
    Requests <- MCRequests
    RespChars <- MCRespChars
    Threads = {t1}
    Defaults <- MCDefaults
    ModelUpdates <- MCModelUpdates
    ProviderNames = {"pa", "pb"}
    ProviderTypes = {"mock", "bogus"}
    KnownTypes = {"mock"}
    SaveCanFail = TRUE
    ApiKeys <- MCApiKeys
    Password = Password
    NoRow = NoRow
    MaxRestarts = 1

SPECIFICATION Spec

PROPERTY
    EscalationMonotoneNow
