\* docs/specs.md:122
SPECIFICATION Spec
CONSTANTS
    Nil = Nil
    Text <- MCText
    ResourceNames <- MCResourceNames
    QuantityOf <- MCQuantityOf
    EnableWebhooks = TRUE
    ServiceSpecs <- SpecsProfile
    ProfileNames <- OneProfileName
    EngineProfiles <- OneProfile
    RBGStatuses <- ReportsReady
    MaxIncarnations = 1
    MaxDisturbances = 2
INVARIANT
    FailedIsExplained
CHECK_DEADLOCK FALSE
