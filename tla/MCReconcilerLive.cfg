\* Liveness that does not rely on the resync, one service disturbed twice, with the webhooks off.
SPECIFICATION LiveSpec
CONSTANTS
    Nil = Nil
    Text <- MCText
    ResourceNames <- MCResourceNames
    QuantityOf <- MCQuantityOf
    EnableWebhooks = FALSE
    ServiceSpecs <- SpecsNoRouter
    ProfileNames <- OneProfileName
    EngineProfiles <- NoProfiles
    RBGStatuses <- ReportsReady
    MaxIncarnations = 1
    MaxDisturbances = 2
INVARIANT
    GroupReplicasPositive
PROPERTIES
    GroupConverges
    StatusConverges
    DeletionCompletes
    Quiesces
CHECK_DEADLOCK FALSE
