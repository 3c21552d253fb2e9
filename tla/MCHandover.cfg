\* One handover, one service and one disturbance.
SPECIFICATION HandLiveSpec
CONSTANTS
    Nil = Nil
    Text <- MCText
    ResourceNames <- MCResourceNames
    QuantityOf <- MCQuantityOf
    EnableWebhooks = TRUE
    ServiceSpecs <- SpecsEdited
    ProfileNames <- OneProfileName
    EngineProfiles <- NoProfiles
    RBGStatuses <- ReportsReady
    MaxIncarnations = 1
    MaxDisturbances = 1
INVARIANTS
    OwnedIsGuarded
    NeverForgotten
PROPERTIES
    TransitionTimeTracksStatus
    GroupConverges
    DeletionCompletes
CHECK_DEADLOCK FALSE
