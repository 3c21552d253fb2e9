\* Safety of Reconciler: the name used twice, one profile.
SPECIFICATION Spec
CONSTANTS
    Nil = Nil
    Text <- MCText
    ResourceNames <- MCResourceNames
    QuantityOf <- MCQuantityOf
    EnableWebhooks = TRUE
    ServiceSpecs <- SpecsMixed
    ProfileNames <- OneProfileName
    EngineProfiles <- OneProfile
    RBGStatuses <- ReportsAll
    MaxIncarnations = 2
    MaxDisturbances = 2
INVARIANTS
    TypeOK
    WorkerServesStored
    OwnedIsGuarded
    RunningMeansReady
    NeverForgotten
PROPERTIES
    ProvisionsForStored
    TransitionTimeTracksStatus
    ReadyTracksPhase
    FollowsLifecycle
    StaysConverged
CHECK_DEADLOCK FALSE
