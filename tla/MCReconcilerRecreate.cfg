\* Liveness that does not rely on the resync, the name used twice, a profile that is edited or removed.
SPECIFICATION LiveSpec
CONSTANTS
    Nil = Nil
    Text <- MCText
    ResourceNames <- MCResourceNames
    QuantityOf <- MCQuantityOf
    EnableWebhooks = TRUE
    ServiceSpecs <- SpecsProfile
    ProfileNames <- OneProfileName
    EngineProfiles <- TwoProfiles
    RBGStatuses <- ReportsReady
    MaxIncarnations = 2
    MaxDisturbances = 1
PROPERTIES
    GroupConverges
    StatusConverges
    MissingProfileReported
    FollowsFairLifecycle
    Quiesces
CHECK_DEADLOCK FALSE
