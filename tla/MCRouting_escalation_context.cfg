CONSTANTS
    NoModel = NoModel
    NoLimit = NoLimit
    Catalogs <- MCCatalogs
    Directories <- MCDirectories
    Requests <- MCRequests
    Policies <- MCPolicies
    RespChars <- MCRespChars


SPECIFICATION Spec

\* A behaviour ends when its one routing call has returned.
CHECK_DEADLOCK FALSE

INVARIANT
    InvokedModelFitsContext
