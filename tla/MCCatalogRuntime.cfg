SPECIFICATION SystemSpec
CONSTANTS
    Catalogs <- MCCatalogs
    Requests <- MCRequests
    HostValues <- MCHostValues
    EmptyText <- MCEmptyText
    MaxSelect = 3
    MaxCycle = 3
INVARIANTS
    AcceptedIsDecoded
    ExecutionIsCovered
    LoadedNeverTraps
CHECK_DEADLOCK FALSE
