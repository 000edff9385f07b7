CONSTANTS
    Threads = {t1, t2}
    NoModel = NoModel
    Defaults <- MCDefaults
    ModelUpdates <- MCModelUpdates
    ProviderNames = {"pa", "pb"}
    ProviderTypes = {"mock", "bogus"}
    KnownTypes = {"mock"}
    SaveCanFail = FALSE
    ApiKeys <- MCApiKeys
    Password = Password
    NoRow = NoRow
    MaxRestarts = 1

SPECIFICATION Spec

SYMMETRY MCSymmetry

PROPERTY
    RestartRestoresCatalog
