\* The REST API served to two clients.
SPECIFICATION RestLiveSpec
CONSTANTS
    Nil = Nil
    c1 = c1
    c2 = c2
    Text <- MCText
    ResourceNames <- MCResourceNames
    QuantityOf <- MCQuantityOf
    EnableWebhooks = TRUE
    Clients <- MCClients
    ProfileNames <- MCProfileNames
    Requests <- MCRequests
    MaxRequests = 4
    MaxFaults = 1
INVARIANTS
    RestTypeOK
    NoScaleLost
    CreatedOnce
    DeletedStaysDeleted
    GroupsSound
PROPERTIES
    OnlyScales
    PodsKept
    ProfilesReturnByCreate
    DeleteFreesGroup
CHECK_DEADLOCK FALSE
