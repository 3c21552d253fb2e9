------------------------------ MODULE RestApi ------------------------------
(***************************************************************************)
(* internal/apiserver: the REST API on one service name and on the engine  *)
(* profiles, served to several clients at once.                            *)
(*                                                                         *)
(* A handler reads the API server directly and writes in a second request. *)
(* Between the two, other handlers and the controller write.  Of the       *)
(* controller the handlers see what Lifecycle says, which Reconciler       *)
(* implements, and writes of the status, which outdate what they read.     *)
(***************************************************************************)
EXTENDS Lifecycle, Admission, Sequences

CONSTANTS
    Clients,        \* each with one request at a time
    ProfileNames,   \* names of engine profiles in the namespace
    Requests,       \* the requests each client sends
    MaxRequests,    \* bound: requests of a behaviour
    MaxFaults       \* bound: API failures, crashes and shutdowns

\* The body Update accepts.
UpdateRequest == [model : Text, replicas : [InferenceRoles -> Int \cup {Nil}]]

ServiceHandlers == {"Create", "List", "Get", "Update", "Delete"}

ProfileHandlers == {"CreateProfile", "ListProfiles", "GetProfile",
                    "UpdateProfile", "DeleteProfile"}

\* A request the mux has routed: its handler, the profile it is about ("" for
\* the service) and its body, Nil when it has none or one that does not decode.
Request ==
    [handler : {"Create"}, name : {""}, body : PDInferenceServiceSpec \cup {Nil}]
    \cup [handler : {"Update"}, name : {""}, body : UpdateRequest \cup {Nil}]
    \cup [handler : {"List", "Get", "Delete"}, name : {""}, body : {Nil}]
    \cup [handler : {"CreateProfile", "UpdateProfile"}, name : ProfileNames,
          body : PDEngineProfileSpec \cup {Nil}]
    \cup [handler : {"ListProfiles", "GetProfile", "DeleteProfile"},
          name : ProfileNames, body : {Nil}]

ASSUME RequestsAssumption == Requests \in [Clients -> SUBSET Request]

ASSUME ClientBoundsAssumption == MaxRequests \in Nat /\ MaxFaults \in Nat

\* A profile has a name, and Nil is none of the values it stands in for.
ASSUME RestNilAssumption ==
    /\ "" \notin ProfileNames
    /\ Nil \notin PDInferenceServiceSpec /\ Nil \notin PDEngineProfileSpec
    /\ Nil \notin Request /\ Nil \notin Int
    /\ Nil \notin [uid : Nat, spec : PDInferenceServiceSpec]

VARIABLES
    (* With stage, uid and owner of Lifecycle: the stored spec, the stored
       profiles, those the webhook's cache has yet to see, and the cache. *)
    spec, profiles, profileWatch, cProfiles,
    (* The request each client's handler serves, what the handler has read and
       whether its resource version is still the stored one, and the answer. *)
    call, copy, fresh, answer,
    (* Whether the server accepts no more requests, and the bounds. *)
    draining, sent, faults,
    (* History: the replicas asked for by the last write that named the role. *)
    asked

storedVars == <<lifeVars, spec, profiles, profileWatch>>
callVars   == <<call, copy, fresh, answer>>
restVars   == <<storedVars, cProfiles, callVars, draining, sent, faults, asked>>

Profiles == [ProfileNames -> PDEngineProfileSpec \cup {Nil}]

Copies == [uid : Nat, spec : PDInferenceServiceSpec] \cup PDEngineProfileSpec

Answers == [handler : ServiceHandlers \cup ProfileHandlers,
            code : {200, 201, 400, 404, 409, 500}, uid : Nat]

RestTypeOK ==
    /\ LifeTypeOK
    /\ spec \in PDInferenceServiceSpec \cup {Nil}
    /\ spec = Nil <=> stage = "absent"
    /\ profiles \in Profiles /\ cProfiles \in Profiles
    /\ profileWatch \in Seq(Profiles)
    /\ call \in [Clients -> Request \cup {Nil}]
    /\ copy \in [Clients -> Copies \cup {Nil}]
    /\ fresh \in [Clients -> BOOLEAN]
    /\ answer \in [Clients -> Answers \cup {Nil}]
    /\ draining \in BOOLEAN
    /\ sent \in 0 .. MaxRequests /\ faults \in 0 .. MaxFaults
    /\ asked \in [InferenceRoles -> Int]

RestInit ==
    /\ LifeInit /\ spec = Nil
    /\ profiles = [n \in ProfileNames |-> Nil]
    /\ profileWatch = <<>> /\ cProfiles = profiles
    /\ call = [c \in Clients |-> Nil] /\ copy = [c \in Clients |-> Nil]
    /\ fresh = [c \in Clients |-> FALSE] /\ answer = [c \in Clients |-> Nil]
    /\ draining = FALSE /\ sent = 0 /\ faults = MaxFaults
    /\ asked = [r \in InferenceRoles |-> 0]

-----------------------------------------------------------------------------
(***************************************************************************)
(* Writes to the API server.  One that changes nothing keeps the resource  *)
(* version; any other outdates what the handlers on the same object read.  *)
(***************************************************************************)
HandlersOn(name) == {c \in Clients : call[c] # Nil /\ call[c].name = name}

Outdate(name, changed) ==
    fresh' = [c \in Clients |-> fresh[c] /\ ~(changed /\ c \in HandlersOn(name))]

PutSpec(new) ==
    /\ spec' = new
    /\ Outdate("", new # spec \/ stage' # stage)
    /\ UNCHANGED <<profiles, profileWatch>>

PutProfile(name, new) ==
    /\ profiles' = [profiles EXCEPT ![name] = new]
    /\ profileWatch' = IF new = profiles[name] THEN profileWatch
                       ELSE Append(profileWatch, profiles')
    /\ Outdate(name, new # profiles[name])
    /\ UNCHANGED <<lifeVars, spec, asked>>

NothingStored == UNCHANGED <<storedVars, fresh, asked>>

-----------------------------------------------------------------------------
(***************************************************************************)
(* Handlers.  Serves names the request, Reply ends it.                     *)
(***************************************************************************)
Serves(c, handler) == call[c] # Nil /\ call[c].handler = handler

Body(c) == call[c].body

Reply(c, code) ==
    /\ call' = [call EXCEPT ![c] = Nil]
    /\ copy' = [copy EXCEPT ![c] = Nil]
    /\ answer' = [answer EXCEPT ![c] =
                    [handler |-> call[c].handler, code |-> code, uid |-> uid']]
    /\ UNCHANGED <<cProfiles, draining, sent>>

\* The reply of a handler, where no fault is involved.
Answer(c, code) == Reply(c, code) /\ UNCHANGED faults

\* The handler has read old and goes on to its write.
Read(c, old) ==
    /\ copy' = [copy EXCEPT ![c] = old]
    /\ fresh' = [fresh EXCEPT ![c] = TRUE]
    /\ UNCHANGED <<storedVars, asked, cProfiles, call, answer, draining, sent, faults>>

\* A body that does not decode, or one that names the model.
BadRequest(c) ==
    \/ /\ call[c].handler \in {"Create", "Update", "CreateProfile", "UpdateProfile"}
       /\ Body(c) = Nil
    \/ /\ call[c].handler = "Update" /\ Body(c) # Nil
       /\ Body(c).model # ""

RefuseBody(c) ==
    /\ call[c] # Nil /\ BadRequest(c)
    /\ NothingStored
    /\ Answer(c, 400)

\* A request that only reads.
Shows(c, code) == NothingStored /\ Answer(c, code)

-----------------------------------------------------------------------------
(***************************************************************************)
(* Services.                                                               *)
(***************************************************************************)
List(c) == Serves(c, "List") /\ Shows(c, 200)

Get(c) == Serves(c, "Get") /\ Shows(c, IF stage = "absent" THEN 404 ELSE 200)

CreateStores(c) ==
    /\ Serves(c, "Create") /\ ~BadRequest(c)
    /\ CreateAdmitted(Body(c), cProfiles)
    /\ Appear
    /\ PutSpec(Stored(Body(c)))
    /\ asked' = [r \in InferenceRoles |-> Body(c).roles[r].replicas]

\* AlreadyExists and a refusal by schema or webhook are answered alike.
CreateRefused(c) ==
    /\ Serves(c, "Create") /\ ~BadRequest(c)
    /\ stage # "absent" \/ ~CreateAdmitted(Body(c), cProfiles)
    /\ NothingStored

\* Variant: a service that exists already is as good as created.
CreateLenient(c) ==
    \/ CreateStores(c) /\ Answer(c, 201)
    \/ CreateRefused(c) /\ Answer(c, IF stage # "absent" THEN 201 ELSE 500)

Create(c) ==
    \/ CreateStores(c) /\ Answer(c, 201)
    \/ CreateRefused(c) /\ Answer(c, 500)

\* Only the replicas the body gives are replaced.
Scaled(old, body) ==
    [old EXCEPT !.roles = [r \in Roles |->
        IF r \in InferenceRoles /\ body.replicas[r] # Nil
        THEN [old.roles[r] EXCEPT !.replicas = body.replicas[r]]
        ELSE old.roles[r]]]

\* Variant: after the 404 the handler does not return.
UpdateReadsUnchecked(c) ==
    /\ Serves(c, "Update") /\ ~BadRequest(c) /\ copy[c] = Nil
    /\ Read(c, [uid |-> uid, spec |-> spec])

UpdateReads(c) ==
    /\ Serves(c, "Update") /\ ~BadRequest(c) /\ copy[c] = Nil
    /\ IF stage = "absent" THEN NothingStored /\ Answer(c, 404)
       ELSE Read(c, [uid |-> uid, spec |-> spec])

UpdateAccepted(c) ==
    fresh[c] /\ UpdateAdmitted(copy[c].spec, Scaled(copy[c].spec, Body(c)))

\* Variant: the write does not carry the resource version that was read.
UpdateStoresBlindly(c) ==
    /\ Serves(c, "Update") /\ copy[c] # Nil
    /\ stage # "absent"
    /\ UpdateAdmitted(spec, Scaled(copy[c].spec, Body(c)))
    /\ UNCHANGED lifeVars
    /\ PutSpec(Stored(Scaled(copy[c].spec, Body(c))))
    /\ asked' = [r \in InferenceRoles |->
                    IF Body(c).replicas[r] = Nil THEN asked[r] ELSE Body(c).replicas[r]]

UpdateStores(c) ==
    /\ Serves(c, "Update") /\ copy[c] # Nil
    /\ UpdateAccepted(c)
    /\ UNCHANGED lifeVars
    /\ PutSpec(Stored(Scaled(copy[c].spec, Body(c))))
    /\ asked' = [r \in InferenceRoles |->
                    IF Body(c).replicas[r] = Nil THEN asked[r] ELSE Body(c).replicas[r]]

UpdateRefused(c) ==
    /\ Serves(c, "Update") /\ copy[c] # Nil
    /\ ~UpdateAccepted(c)
    /\ NothingStored

Update(c) ==
    \/ UpdateReads(c)
    \/ UpdateStores(c) /\ Answer(c, 200)
    \/ UpdateRefused(c) /\ Answer(c, 500)

DeleteReads(c) ==
    /\ Serves(c, "Delete") /\ copy[c] = Nil
    /\ IF stage = "absent" THEN NothingStored /\ Answer(c, 200)
       ELSE Read(c, [uid |-> uid, spec |-> spec])

\* Variant: the delete insists on the version that was read.
DeleteStoresVersion(c) ==
    /\ Serves(c, "Delete") /\ copy[c] # Nil
    /\ \/ fresh[c] /\ Vanish /\ PutSpec(Nil)
       \/ fresh[c] /\ Mark /\ PutSpec(spec)
       \/ (~fresh[c] \/ stage \in {"absent", "ending"}) /\ UNCHANGED <<storedVars, fresh>>
    /\ UNCHANGED asked

\* The name is deleted, whichever service has it by now.
DeleteStores(c) ==
    /\ Serves(c, "Delete") /\ copy[c] # Nil
    /\ \/ Vanish /\ PutSpec(Nil)
       \/ Mark /\ PutSpec(spec)
       \/ stage \in {"absent", "ending"} /\ UNCHANGED <<storedVars, fresh>>
    /\ UNCHANGED asked

Delete(c) == DeleteReads(c) \/ (DeleteStores(c) /\ Answer(c, 200))

-----------------------------------------------------------------------------
(***************************************************************************)
(* Profiles.                                                               *)
(***************************************************************************)
Profile(c) == profiles[call[c].name]

ListProfiles(c) == Serves(c, "ListProfiles") /\ Shows(c, 200)

GetProfile(c) ==
    Serves(c, "GetProfile") /\ Shows(c, IF Profile(c) = Nil THEN 404 ELSE 200)

CreateProfileStores(c) ==
    /\ Serves(c, "CreateProfile") /\ ~BadRequest(c)
    /\ Profile(c) = Nil
    /\ PutProfile(call[c].name, Body(c))

CreateProfile(c) ==
    \/ CreateProfileStores(c) /\ Answer(c, 201)
    \/ /\ Serves(c, "CreateProfile") /\ ~BadRequest(c)
       /\ Profile(c) # Nil
       /\ NothingStored
       /\ Answer(c, 500)

UpdateProfileReads(c) ==
    /\ Serves(c, "UpdateProfile") /\ ~BadRequest(c) /\ copy[c] = Nil
    /\ IF Profile(c) = Nil THEN NothingStored /\ Answer(c, 404)
       ELSE Read(c, Profile(c))

\* Variant: the write does not carry the resource version that was read.
UpdateProfileStoresBlindly(c) ==
    /\ Serves(c, "UpdateProfile") /\ copy[c] # Nil
    /\ PutProfile(call[c].name, Body(c))

\* The whole spec is replaced by the body's.
UpdateProfileStores(c) ==
    /\ Serves(c, "UpdateProfile") /\ copy[c] # Nil
    /\ fresh[c]
    /\ PutProfile(call[c].name, Body(c))

UpdateProfile(c) ==
    \/ UpdateProfileReads(c)
    \/ UpdateProfileStores(c) /\ Answer(c, 200)
    \/ /\ Serves(c, "UpdateProfile") /\ copy[c] # Nil
       /\ ~fresh[c]
       /\ NothingStored
       /\ Answer(c, 500)

DeleteProfileReads(c) ==
    /\ Serves(c, "DeleteProfile") /\ copy[c] = Nil
    /\ IF Profile(c) = Nil THEN NothingStored /\ Answer(c, 200)
       ELSE Read(c, Profile(c))

DeleteProfileStores(c) ==
    /\ Serves(c, "DeleteProfile") /\ copy[c] # Nil
    /\ PutProfile(call[c].name, Nil)

DeleteProfile(c) == DeleteProfileReads(c) \/ (DeleteProfileStores(c) /\ Answer(c, 200))

-----------------------------------------------------------------------------
(***************************************************************************)
(* The server and its clients.                                             *)
(***************************************************************************)
Accept(c, request) ==
    /\ call[c] = Nil /\ ~draining
    /\ sent < MaxRequests
    /\ sent' = sent + 1
    /\ call' = [call EXCEPT ![c] = request]
    /\ answer' = [answer EXCEPT ![c] = Nil]
    /\ fresh' = [fresh EXCEPT ![c] = FALSE]
    /\ UNCHANGED <<storedVars, cProfiles, copy, draining, faults, asked>>

Fault == faults > 0 /\ faults' = faults - 1

\* A new process lists the profiles again.
Relist ==
    /\ cProfiles' = profiles /\ profileWatch' = <<>>
    /\ draining' = FALSE
    /\ UNCHANGED <<lifeVars, spec, profiles, sent, asked>>

\* The manager's context is cancelled: no more requests, the others go on.
Shutdown ==
    /\ ~draining
    /\ draining' = TRUE
    /\ Fault
    /\ UNCHANGED <<storedVars, cProfiles, callVars, sent, asked>>

\* Shutdown has waited for every handler; the process ends, another starts.
Stopped ==
    /\ draining
    /\ \A c \in Clients : call[c] = Nil
    /\ Relist
    /\ UNCHANGED <<callVars, faults>>

\* The process ends with the requests it serves, and another starts.
EndCalls ==
    /\ call' = [c \in Clients |-> Nil] /\ copy' = [c \in Clients |-> Nil]
    /\ fresh' = [c \in Clients |-> FALSE]
    /\ Relist
    /\ UNCHANGED answer

\* The manager waits no longer than 30 seconds for handlers that go on.
GraceExpires ==
    /\ draining
    /\ \E c \in Clients : call[c] # Nil
    /\ EndCalls
    /\ UNCHANGED faults

Crash == Fault /\ EndCalls

Stores(c) ==
    \/ CreateStores(c) \/ UpdateStores(c) \/ DeleteStores(c)
    \/ CreateProfileStores(c) \/ UpdateProfileStores(c) \/ DeleteProfileStores(c)

\* A request to the API server fails, or is done although the handler sees an
\* error: both are answered 500.
ApiFails(c) ==
    /\ call[c] # Nil /\ ~BadRequest(c)
    /\ NothingStored
    /\ Reply(c, 500)
    /\ Fault

ApiReplyLost(c) == Stores(c) /\ Reply(c, 500) /\ Fault

-----------------------------------------------------------------------------
(***************************************************************************)
(* The rest of the system: the life of the service, the status writes of   *)
(* the controller, and the profile informer of the webhook's cache.        *)
(***************************************************************************)
OthersLeaveAlone ==
    UNCHANGED <<cProfiles, call, copy, answer, draining, sent, faults, asked>>

ControllerGuards   == Guard /\ PutSpec(spec) /\ OthersLeaveAlone
ControllerReleases == Release /\ PutSpec(Nil) /\ OthersLeaveAlone

ControllerWritesStatus ==
    /\ stage # "absent"
    /\ Outdate("", TRUE)
    /\ UNCHANGED storedVars
    /\ OthersLeaveAlone

GroupChanges ==
    /\ Provision \/ LoseGroup
    /\ UNCHANGED <<spec, profiles, profileWatch, fresh>>
    /\ OthersLeaveAlone

ProfileInformer ==
    /\ profileWatch # <<>>
    /\ cProfiles' = Head(profileWatch)
    /\ profileWatch' = Tail(profileWatch)
    /\ UNCHANGED <<lifeVars, spec, profiles, callVars, draining, sent, faults, asked>>

-----------------------------------------------------------------------------
Handler(c) ==
    \/ RefuseBody(c)
    \/ Create(c) \/ List(c) \/ Get(c) \/ Update(c) \/ Delete(c)
    \/ CreateProfile(c) \/ ListProfiles(c) \/ GetProfile(c)
    \/ UpdateProfile(c) \/ DeleteProfile(c)

Environment ==
    \/ ControllerGuards \/ ControllerReleases \/ ControllerWritesStatus
    \/ GroupChanges \/ ProfileInformer

RestNext ==
    \/ \E c \in Clients :
          \/ \E request \in Requests[c] : Accept(c, request)
          \/ Handler(c)
          \/ ApiFails(c) \/ ApiReplyLost(c)
    \/ Shutdown \/ Stopped \/ GraceExpires \/ Crash
    \/ Environment

RestSpec == RestInit /\ [][RestNext]_restVars

(***************************************************************************)
(* Of the rest of the system, what Lifecycle promises.  No handler has to  *)
(* end: nothing bounds the time a body or a request to the API server      *)
(* takes, which has no deadline and does not end with the client.          *)
(***************************************************************************)
RestLiveSpec ==
    /\ RestSpec
    /\ WF_restVars(ControllerReleases)
    /\ WF_restVars(Orphaned /\ GroupChanges)

-----------------------------------------------------------------------------
(***************************************************************************)
(* Properties.                                                             *)
(***************************************************************************)
Answered(c, handler, code) ==
    answer[c] # Nil /\ answer[c].handler = handler /\ answer[c].code = code

\* The stored replicas of each role are those of the last accepted request that
\* named the role: a PUT that scales prefill never undoes one of another client
\* that scaled decode, although it writes back the whole spec it has read.
NoScaleLost ==
    stage # "absent" =>
        \A r \in InferenceRoles : spec.roles[r].replicas = asked[r]

\* While a service lives no request changes more of it than the two replica
\* counts: a PUT that has read an earlier service of the name never writes that
\* one's spec into its successor.
OnlyScales ==
    [][stage # "absent" /\ stage' # "absent" /\ uid' = uid =>
           spec' = Scaled(spec, [replicas |->
                      [r \in InferenceRoles |-> spec'.roles[r].replicas]])]_restVars

\* Two POSTs are never both told 201 about one service, so a client that sends a
\* POST again after a lost reply learns that the second one created nothing.
CreatedOnce ==
    \A c, d \in Clients :
        c # d /\ Answered(c, "Create", 201) /\ Answered(d, "Create", 201)
            => answer[c].uid # answer[d].uid

\* A service that was there when a DELETE was answered 200 is gone or on its way
\* out from then on, whatever was written between the handler's two requests.
DeletedStaysDeleted ==
    \A c \in Clients : Answered(c, "Delete", 200) =>
        answer[c].uid # uid \/ stage \in {"absent", "ending"}

\* A deleted profile comes back only by a POST, never by a PUT that had read it
\* before it was deleted.
ProfilesReturnByCreate ==
    [][\A n \in ProfileNames : profiles[n] = Nil /\ profiles'[n] # Nil =>
          \E c \in Clients : Serves(c, "CreateProfile") /\ call[c].name = n]_restVars

\* A service a DELETE has answered for ends up gone, and no group runs for it,
\* even if no handler ever moves again.
DeleteFreesGroup ==
    <>[](\A c \in Clients : Answered(c, "Delete", 200) =>
            /\ owner = 0 \/ owner # answer[c].uid
            /\ answer[c].uid # uid \/ stage = "absent")
=============================================================================
