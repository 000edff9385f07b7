CONSTANTS
    NoModel = NoModel
    NoLimit = NoLimit
    NoResponse = NoResponse
    Catalogs <- MCCatalogs
    Directories <- MCDirectories
    Requests <- MCRequests
    Policies <- MCPolicies
    Configs <- MCConfigs
    RespChars <- MCRespChars

SPECIFICATION Spec

\* One execute call per behaviour; it stops when it has returned or raised.
CHECK_DEADLOCK FALSE

INVARIANTS
    TypeOK
    ResultShape
    RefinementBuildsOnLatestDraft

