\* docs/specs.md:263
SPECIFICATION Spec
CONSTANTS
    Nil = Nil
    Text <- MCText
    ResourceNames <- MCResourceNames
    QuantityOf <- MCQuantityOf
    EnableWebhooks = TRUE
    ServiceSpecs <- SpecsInline
    ProfileNames <- OneProfileName
    EngineProfiles <- NoProfiles
    RBGStatuses <- ReportsShort
    MaxIncarnations = 1
    MaxDisturbances = 2
PROPERTY
    TimeoutOnlyWhileInitializing
CHECK_DEADLOCK FALSE
