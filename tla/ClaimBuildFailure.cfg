\* docs/design/plan.md:492
SPECIFICATION LiveSpec
CONSTANTS
    Nil = Nil
    Text <- MCText
    ResourceNames <- MCResourceNames
    QuantityOf <- MCQuantityOf
    EnableWebhooks = TRUE
    ServiceSpecs <- SpecsBad
    ProfileNames <- OneProfileName
    EngineProfiles <- NoProfiles
    RBGStatuses <- ReportsReady
    MaxIncarnations = 1
    MaxDisturbances = 0
PROPERTY
    BuildFailureReported
CHECK_DEADLOCK FALSE
