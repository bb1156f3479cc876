SPECIFICATION RoutingSpec
CONSTANTS
    BuiltIns <- MCBuiltIns
    Customs = {"acme"}
    Strangers = {"gone"}
    Found <- MCFound
    MaxProviders = 2
    SaveFaults = 1
    Typed <- MCTyped
    Entries <- MCEntries
    MaxVisible = 3
    Stored = 5
    PageSize = 2
    MaxInput = 3
    KeyInEnvironment = TRUE
    StoredModels = {"openrouter"}
    MaxChats = 1
    MaxFollowUp = 1
PROPERTY
    KeysStayInTheEditor
CHECK_DEADLOCK FALSE
