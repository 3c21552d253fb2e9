\* pdinferenceservice_webhook.go:190
SPECIFICATION Spec
CONSTANTS
    Nil = Nil
    Text <- MCText
    ResourceNames <- MCResourceNames
    QuantityOf <- MCQuantityOf
    EnableWebhooks = TRUE
    ServiceSpecs <- SpecsEdited
    ProfileNames <- OneProfileName
    EngineProfiles <- NoProfiles
    RBGStatuses <- ReportsReady
    MaxIncarnations = 1
    MaxDisturbances = 1
PROPERTY
    OnlyReplicasChange
CHECK_DEADLOCK FALSE
