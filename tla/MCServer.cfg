CONSTANTS
    NoModel = NoModel
    NoLimit = NoLimit
    Catalogs <- MCCatalogs
    Directories <- MCDirectories
    Requests <- MCRequests
    RespChars <- MCRespChars
    Threads = {t1}
    Defaults <- MCDefaults
    ModelUpdates <- MCUpgradeOnly
    ProviderNames = {"pa"}
    ProviderTypes = {"mock"}
    KnownTypes = {"mock"}
    SaveCanFail = TRUE
    ApiKeys <- MCApiKeys
    Password = Password
    NoRow = NoRow
    MaxRestarts = 1

SPECIFICATION Spec

INVARIANTS
    TypeOK
    LoggedIffAnswered

