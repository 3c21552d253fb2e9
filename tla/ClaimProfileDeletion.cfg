\* docs/specs.md:194
SPECIFICATION LiveSpec
CONSTANTS
    Nil = Nil
    Text <- MCText
    ResourceNames <- MCResourceNames
    QuantityOf <- MCQuantityOf
    EnableWebhooks = TRUE
    ServiceSpecs <- SpecsProfile
    ProfileNames <- OneProfileName
    EngineProfiles <- OneProfile
    RBGStatuses <- ReportsReady
    MaxIncarnations = 1
    MaxDisturbances = 2
PROPERTY
    RunningSurvivesProfileDeletion
CHECK_DEADLOCK FALSE
