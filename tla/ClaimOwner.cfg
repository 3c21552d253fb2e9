\* docs/design/plan.md:156
SPECIFICATION Spec
CONSTANTS
    Nil = Nil
    Text <- MCText
    ResourceNames <- MCResourceNames
    QuantityOf <- MCQuantityOf
    EnableWebhooks = TRUE
    ServiceSpecs <- SpecsScaledInline
    ProfileNames <- OneProfileName
    EngineProfiles <- NoProfiles
    RBGStatuses <- ReportsReady
    MaxIncarnations = 2
    MaxDisturbances = 0
PROPERTY
    WrittenGroupIsOwned
CHECK_DEADLOCK FALSE
