----------------------------- MODULE MCRestApi -----------------------------
(***************************************************************************)
(* A small instance of RestApi and RestPods for TLC.                       *)
(***************************************************************************)
EXTENDS RestPods, TLC

CONSTANTS c1, c2

MCClients       == {c1, c2}
MCText          == STRING
MCResourceNames == {"nvidia.com/gpu"}
MCProfileNames  == {"p", "q"}
MCQuantityOf    == [q \in {"1"} |-> "1"]

Mount(name) == [name |-> name, mountPath |-> "/m", readOnly |-> TRUE]

Role(r, image) ==
    [image |-> image, replicas |-> 1, command |-> "", args |-> image,
     requests |-> [k \in MCResourceNames |-> Nil],
     limits |-> [k \in MCResourceNames |-> Nil],
     gpu |-> IF r = "router" THEN "" ELSE "1", gpuType |-> "",
     volumeMounts |-> {Mount("models")},
     readinessProbe |-> Nil, livenessProbe |-> Nil, engineRuntimes |-> <<>>]

Service(image, profile) ==
    [model |-> "m", engine |-> "",
     volumes |-> {[name |-> "models", hostPath |-> Nil, emptyDir |-> Nil,
                   pvc |-> [claimName |-> "models"]]},
     roles |-> [r \in Roles |-> Role(r, image)], pdRatio |-> "",
     engineProfileRef |-> profile, scalingPrefill |-> FALSE]

Engine(image) == [images |-> [r \in Roles |-> image], roleCommands |-> Nil,
                  roleArgs |-> Nil, engineRuntimes |-> Nil]

Replicas(prefill, decode) ==
    [model |-> "", replicas |-> [prefill |-> prefill, decode |-> decode]]

To(handler, name, body) == [handler |-> handler, name |-> name, body |-> body]

\* One client sets services and the profile up, the other one joins in: services
\* of different images, one that needs the profile, a profile nobody needs, PUTs
\* that scale one role each, one to zero and one that names the model, a service
\* whose router mounts a volume it does not have, and a body that does not decode.
MCRequests ==
    c1 :> {To("Create", "", Service("a", "")), To("Create", "", Service("b", "")),
           To("Update", "", Replicas(2, Nil)), To("Delete", "", Nil),
           To("CreateProfile", "p", Engine("v1")), To("UpdateProfile", "p", Nil),
           To("CreateProfile", "q", Engine("v1")),
           To("DeleteProfile", "p", Nil)}
    @@
    c2 :> {To("Create", "", Service("", "p")),
           To("Create", "", [Service("c", "") EXCEPT
                                !.roles["router"].volumeMounts = {Mount("cache")}]),
           To("Get", "", Nil),
           To("Update", "", Replicas(Nil, 2)), To("Update", "", Replicas(0, Nil)),
           To("Update", "", [Replicas(Nil, Nil) EXCEPT !.model = "m"]),
           To("Delete", "", Nil), To("List", "", Nil), To("GetProfile", "p", Nil),
           To("ListProfiles", "p", Nil),
           To("UpdateProfile", "p", Engine("v2"))}
=============================================================================
