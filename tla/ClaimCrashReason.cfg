\* docs/specs.md:98
SPECIFICATION Spec
CONSTANTS
    Nil = Nil
    Text <- MCText
    ResourceNames <- MCResourceNames
    QuantityOf <- MCQuantityOf
    EnableWebhooks = TRUE
    ServiceSpecs <- SpecsProfile
    ProfileNames <- OneProfileName
    EngineProfiles <- OneProfile
    RBGStatuses <- ReportsAll
    MaxIncarnations = 1
    MaxDisturbances = 4
PROPERTY
    CrashLoopExplained
CHECK_DEADLOCK FALSE
