---------------------------- MODULE RestProofs ----------------------------
(***************************************************************************)
(* Theorems about RestApi, for every set of clients, requests and profile  *)
(* names and every bound.                                                  *)
(***************************************************************************)
EXTENDS RestApi, TLAPS, SequenceTheorems

-----------------------------------------------------------------------------
(***************************************************************************)
(* Defaulting and scaling.                                                 *)
(***************************************************************************)

\* What a stored spec looks like: defaulting has nothing left to do.
Settled(s) ==
    /\ s.engine # ""
    /\ EnableWebhooks => s.roles["router"].replicas >= 1

\* Defaulting keeps a spec a spec and the inference roles as they are.
LEMMA StoredSpec ==
    ASSUME NEW s \in PDInferenceServiceSpec
    PROVE  /\ Stored(s) \in PDInferenceServiceSpec
           /\ Settled(Stored(s))
           /\ \A r \in InferenceRoles : Stored(s).roles[r] = s.roles[r]
<1> DEFINE d == SchemaDefault(s)
<1>1. d \in PDInferenceServiceSpec /\ d.roles = s.roles /\ d.engine # ""
  BY TextAssumption DEF PDInferenceServiceSpec, SchemaDefault, EngineTypeSGLang
<1>2. /\ Default(d) \in PDInferenceServiceSpec
      /\ Default(d).engine # ""
      /\ Default(d).roles["router"].replicas >= 1
      /\ \A r \in InferenceRoles : Default(d).roles[r] = d.roles[r]
  <2> HIDE DEF d
  <2> DEFINE role == d.roles["router"]
             n    == IF role.replicas < 1 THEN 1 ELSE role.replicas
             new  == [role EXCEPT !.replicas = n]
             e    == IF d.engine = "" THEN EngineTypeSGLang ELSE d.engine
  <2>1. d.roles \in [Roles -> RoleSpec] /\ role \in RoleSpec
    BY <1>1 DEF PDInferenceServiceSpec, Roles
  <2>2. n \in Int /\ n >= 1
    BY <2>1 DEF RoleSpec
  <2>3. e \in Text /\ e # ""
    BY <1>1, TextAssumption DEF PDInferenceServiceSpec, EngineTypeSGLang
  <2>4. Default(d) = [d EXCEPT !.engine = e,
                               !.roles = [d.roles EXCEPT !["router"] = new]]
    BY DEF Default
  <2> HIDE DEF n, e
  <2>5. new \in RoleSpec /\ new.replicas = n
    BY <2>1, <2>2 DEF RoleSpec
  <2> HIDE DEF new
  <2> DEFINE rs == [d.roles EXCEPT !["router"] = new]
  <2>6. /\ rs \in [Roles -> RoleSpec]
        /\ rs["router"] = new
        /\ \A r \in InferenceRoles : rs[r] = d.roles[r]
    BY <2>1, <2>5 DEF Roles, InferenceRoles
  <2> HIDE DEF rs
  <2>7. /\ Default(d) \in PDInferenceServiceSpec
        /\ Default(d).engine = e /\ Default(d).roles = rs
    BY <1>1, <2>3, <2>4, <2>6 DEF PDInferenceServiceSpec, rs
  <2> QED
    BY <2>2, <2>3, <2>5, <2>6, <2>7
<1> HIDE DEF d
<1> QED
  BY <1>1, <1>2, EnableWebhooksAssumption DEF Stored, Settled, d

\* A settled spec is stored as it is.
LEMMA SettledStays ==
    ASSUME NEW s \in PDInferenceServiceSpec, Settled(s)
    PROVE  Stored(s) = s
<1>1. SchemaDefault(s) = s
  BY DEF SchemaDefault, Settled, PDInferenceServiceSpec
<1>2. ASSUME EnableWebhooks PROVE Default(s) = s
  <2> DEFINE role == s.roles["router"]
             n    == IF role.replicas < 1 THEN 1 ELSE role.replicas
             e    == IF s.engine = "" THEN EngineTypeSGLang ELSE s.engine
  <2>1. s.roles \in [Roles -> RoleSpec] /\ role \in RoleSpec
    BY DEF PDInferenceServiceSpec, Roles
  <2>2. n = role.replicas /\ e = s.engine
    <3>1. s.engine # "" /\ role.replicas >= 1
      BY <1>2, Zenon DEF Settled
    <3>2. role.replicas \in Int
      BY <2>1 DEF RoleSpec
    <3>3. ~(role.replicas < 1)
      <4>1. \A k \in Int : k >= 1 => ~(k < 1)
        OBVIOUS
      <4> HIDE DEF role
      <4> QED BY <3>1, <3>2, <4>1, Zenon
    <3> QED BY <3>1, <3>3, Zenon
  <2>3. [role EXCEPT !.replicas = n] = role
    BY <2>1, <2>2 DEF RoleSpec
  <2>4. [s.roles EXCEPT !["router"] = [role EXCEPT !.replicas = n]] = s.roles
    BY <2>1, <2>3
  <2> QED
    BY <2>2, <2>4 DEF Default, PDInferenceServiceSpec
<1> QED
  BY <1>1, <1>2, EnableWebhooksAssumption DEF Stored

\* Scaling replaces replicas only, and those the body names.
LEMMA ScaledSpec ==
    ASSUME NEW s \in PDInferenceServiceSpec, NEW body \in UpdateRequest
    PROVE  /\ Scaled(s, body) \in PDInferenceServiceSpec
           /\ Settled(s) => Settled(Scaled(s, body))
           /\ \A r \in InferenceRoles : Scaled(s, body).roles[r].replicas =
                 IF body.replicas[r] = Nil THEN s.roles[r].replicas ELSE body.replicas[r]
           /\ Scaled(s, body) = Scaled(s, [replicas |->
                 [r \in InferenceRoles |-> Scaled(s, body).roles[r].replicas]])
<1> DEFINE n(r)  == IF body.replicas[r] = Nil THEN s.roles[r].replicas ELSE body.replicas[r]
           rs == [r \in Roles |->
                    IF r \in InferenceRoles /\ body.replicas[r] # Nil
                    THEN [s.roles[r] EXCEPT !.replicas = body.replicas[r]]
                    ELSE s.roles[r]]
<1>1. \A r \in Roles : s.roles[r] \in RoleSpec
  BY DEF PDInferenceServiceSpec
<1>2. \A r \in InferenceRoles : n(r) \in Int /\ r \in Roles /\ body.replicas[r] \in Int \cup {Nil}
  BY <1>1 DEF UpdateRequest, RoleSpec, InferenceRoles, Roles
<1>3. /\ rs \in [Roles -> RoleSpec]
      /\ \A r \in InferenceRoles : rs[r].replicas = n(r) /\ rs[r] = [s.roles[r] EXCEPT !.replicas = n(r)]
      /\ \A r \in Roles \ InferenceRoles : rs[r] = s.roles[r]
  BY <1>1, <1>2 DEF RoleSpec
<1>4. /\ Scaled(s, body) = [s EXCEPT !.roles = rs]
      /\ Scaled(s, body) \in PDInferenceServiceSpec
      /\ Scaled(s, body).roles = rs /\ Scaled(s, body).engine = s.engine
  BY <1>3 DEF Scaled, PDInferenceServiceSpec
<1> DEFINE all == [replicas |-> [r \in InferenceRoles |-> rs[r].replicas]]
<1>5. Scaled(s, all) = [s EXCEPT !.roles = rs]
  <2>1. \A r \in InferenceRoles : all.replicas[r] = n(r) /\ n(r) # Nil
    BY <1>2, <1>3, RestNilAssumption
  <2>2. [r \in Roles |-> IF r \in InferenceRoles /\ all.replicas[r] # Nil
                         THEN [s.roles[r] EXCEPT !.replicas = all.replicas[r]]
                         ELSE s.roles[r]] = rs
    <3> HIDE DEF rs, n, all
    <3> QED BY <1>3, <2>1
  <2> QED
    BY <2>2 DEF Scaled
<1>6. Settled(s) => Settled(Scaled(s, body))
  BY <1>3, <1>4 DEF Settled, Roles, InferenceRoles
<1> HIDE DEF rs
<1> QED
  BY <1>3, <1>4, <1>5, <1>6

-----------------------------------------------------------------------------
(***************************************************************************)
(* The inductive invariant: what is stored, and what the handlers hold.  A *)
(* copy whose resource version is still the stored one is the stored       *)
(* service, so a write from it cannot undo another one.                    *)
(***************************************************************************)
StoredOK ==
    /\ LifeTypeOK
    /\ spec \in PDInferenceServiceSpec \cup {Nil}
    /\ spec = Nil <=> stage = "absent"
    /\ stage # "absent" => Settled(spec)
    /\ NoScaleLost
    /\ asked \in [InferenceRoles -> Int]
    /\ profiles \in Profiles
    /\ profileWatch \in Seq(Profiles)

\* What a handler that goes on to a write has read.
Holds(c) ==
    /\ call[c] # Nil /\ ~BadRequest(c)
    /\ call[c].handler \in {"Update", "Delete"} =>
          /\ copy[c] \in [uid : Nat, spec : PDInferenceServiceSpec]
          /\ fresh[c] => stage # "absent" /\ copy[c] = [uid |-> uid, spec |-> spec]

CallsOK ==
    /\ call \in [Clients -> Request \cup {Nil}]
    /\ copy \in [Clients -> Copies \cup {Nil}]
    /\ fresh \in [Clients -> BOOLEAN]
    /\ \A c \in Clients : copy[c] # Nil => Holds(c)

AnswersOK ==
    /\ answer \in [Clients -> Answers \cup {Nil}]
    /\ \A c \in Clients : answer[c] # Nil => answer[c].uid <= uid
    /\ CreatedOnce
    /\ DeletedStaysDeleted

ServerOK ==
    /\ cProfiles \in Profiles
    /\ draining \in BOOLEAN
    /\ sent \in 0 .. MaxRequests /\ faults \in 0 .. MaxFaults

RestInv == StoredOK /\ CallsOK /\ AnswersOK /\ ServerOK

-----------------------------------------------------------------------------
(***************************************************************************)
(* What a step may do to the stored service, and to the copies of it.      *)
(***************************************************************************)
OnlyScaled ==
    stage # "absent" /\ stage' # "absent" /\ uid' = uid =>
        spec' = Scaled(spec, [replicas |->
                   [r \in InferenceRoles |-> spec'.roles[r].replicas]])

Evolves ==
    /\ StoredOK'
    /\ OnlyScaled
    /\ uid' >= uid
    /\ uid' = uid /\ stage \in {"absent", "ending"} => stage' \in {"absent", "ending"}

Outdates ==
    /\ fresh' \in [Clients -> BOOLEAN]
    /\ \A c \in Clients : fresh'[c] => fresh[c]
    /\ \/ UNCHANGED <<stage, uid, spec>>
       \/ \A c \in HandlersOn("") : ~fresh'[c]

\* The request of a handler fits the handler.
LEMMA RequestShape ==
    ASSUME NEW q \in Request
    PROVE  /\ q # Nil
           /\ q.handler \in ServiceHandlers \cup ProfileHandlers
           /\ q.handler \in ServiceHandlers => q.name = ""
           /\ q.handler \in ProfileHandlers => q.name \in ProfileNames
           /\ q.handler = "Create" => q.body \in PDInferenceServiceSpec \cup {Nil}
           /\ q.handler = "Update" => q.body \in UpdateRequest \cup {Nil}
           /\ q.handler \in {"CreateProfile", "UpdateProfile"} =>
                 q.body \in PDEngineProfileSpec \cup {Nil}
  BY RestNilAssumption DEF Request, ServiceHandlers, ProfileHandlers

\* A spec scales to itself.
LEMMA ScaledToItself ==
    ASSUME NEW s \in PDInferenceServiceSpec
    PROVE  s = Scaled(s, [replicas |-> [r \in InferenceRoles |-> s.roles[r].replicas]])
<1> DEFINE none == [model |-> "", replicas |-> [r \in InferenceRoles |-> Nil]]
<1>1. none \in UpdateRequest
  BY TextAssumption DEF UpdateRequest
<1>2. Scaled(s, none) = s
  <2>1. [r \in Roles |-> IF r \in InferenceRoles /\ none.replicas[r] # Nil
                         THEN [s.roles[r] EXCEPT !.replicas = none.replicas[r]]
                         ELSE s.roles[r]] = s.roles
    BY DEF PDInferenceServiceSpec
  <2> QED
    BY <2>1 DEF Scaled, PDInferenceServiceSpec
<1> HIDE DEF none
<1> QED
  BY <1>1, <1>2, ScaledSpec

\* A step that leaves the service alone, or takes it to another stage.
LEMMA StageMoves ==
    ASSUME StoredOK, LifeTypeOK',
           UNCHANGED <<uid, asked>>,
           spec' = IF stage' = "absent" THEN Nil ELSE spec,
           stage = "absent" => stage' = "absent",
           stage \in {"absent", "ending"} => stage' \in {"absent", "ending"},
           profiles' \in Profiles, profileWatch' \in Seq(Profiles)
    PROVE  Evolves
<1>1. stage' # "absent" => stage # "absent" /\ spec' = spec /\ spec \in PDInferenceServiceSpec
  BY DEF StoredOK
<1>2. OnlyScaled
  BY <1>1, ScaledToItself DEF OnlyScaled
<1>3. StoredOK'
  BY <1>1, RestNilAssumption DEF StoredOK, NoScaleLost
<1>4. uid' >= uid
  BY DEF StoredOK, LifeTypeOK
<1> QED
  BY <1>2, <1>3, <1>4 DEF Evolves

\* A write outdates the copies of what it changes.
LEMMA OutdateOutdates ==
    ASSUME CallsOK, NEW name, NEW changed \in BOOLEAN, Outdate(name, changed),
           ~(changed /\ name = "") => UNCHANGED <<stage, uid, spec>>
    PROVE  Outdates
<1>1. \A c \in Clients : fresh'[c] = (fresh[c] /\ ~(changed /\ c \in HandlersOn(name)))
  BY DEF Outdate
<1>2. \A c \in Clients : fresh[c] \in BOOLEAN
  BY DEF CallsOK
<1>3. fresh' \in [Clients -> BOOLEAN]
  BY <1>2 DEF Outdate
<1>4. CASE changed /\ name = ""
  BY <1>1, <1>3, <1>4, Zenon DEF Outdates, HandlersOn
<1>5. CASE ~(changed /\ name = "")
  BY <1>1, <1>3, <1>5, Zenon DEF Outdates
<1> QED BY <1>4, <1>5

-----------------------------------------------------------------------------
(***************************************************************************)
(* Every write of a handler is such a step.                                *)
(***************************************************************************)

\* POST stores a settled spec under a new uid.
LEMMA CreateEffect ==
    ASSUME RestInv, NEW c \in Clients, CreateStores(c)
    PROVE  Evolves /\ Outdates /\ uid' = uid + 1
<1>1. /\ call[c] \in Request /\ Body(c) \in PDInferenceServiceSpec
      /\ Appear /\ PutSpec(Stored(Body(c)))
      /\ asked' = [r \in InferenceRoles |-> Body(c).roles[r].replicas]
  BY RequestShape DEF RestInv, CallsOK, CreateStores, Serves, Body, BadRequest
<1> DEFINE new == Stored(Body(c))
<1>2. /\ new \in PDInferenceServiceSpec /\ Settled(new) /\ new # Nil
      /\ \A r \in InferenceRoles : new.roles[r] = Body(c).roles[r]
  BY <1>1, StoredSpec, RestNilAssumption
<1>3. /\ stage = "absent" /\ stage' = "bare" /\ uid' = uid + 1 /\ owner' = owner
      /\ spec' = new /\ UNCHANGED <<profiles, profileWatch>>
      /\ Outdate("", new # spec \/ stage' # stage)
  BY <1>1 DEF Appear, StageGoes, PutSpec
<1>4. LifeTypeOK' /\ uid' >= uid /\ uid' # uid
  <2>1. LifeTypeOK
    BY DEF RestInv, StoredOK
  <2>2. stage' = "bare" /\ uid' = uid + 1 /\ owner' = owner
    BY <1>3
  <2>3. stage' \in Stages /\ uid' \in Nat /\ uid' >= uid /\ uid' # uid
    BY <2>1, <2>2 DEF LifeTypeOK, Stages
  <2>4. owner' \in 0 .. uid'
    BY <2>1, <2>2 DEF LifeTypeOK
  <2> QED BY <2>3, <2>4 DEF LifeTypeOK
<1>5. \A r \in InferenceRoles : Body(c).roles[r].replicas \in Int
  BY <1>1 DEF PDInferenceServiceSpec, RoleSpec, Roles, InferenceRoles
<1>6. NoScaleLost'
  BY <1>1, <1>2, <1>3 DEF NoScaleLost
<1>7. StoredOK'
  BY <1>1, <1>2, <1>3, <1>4, <1>5, <1>6 DEF RestInv, StoredOK
<1>8. Evolves
  BY <1>3, <1>4, <1>7 DEF Evolves, OnlyScaled
<1>9. Outdates
  BY <1>3, OutdateOutdates DEF RestInv
<1> QED BY <1>3, <1>8, <1>9

\* PUT writes the copy it has read with other replicas, and that copy is current.
LEMMA UpdateEffect ==
    ASSUME RestInv, NEW c \in Clients, UpdateStores(c)
    PROVE  Evolves /\ Outdates
<1> DEFINE new == Scaled(spec, Body(c))
<1>1. /\ call[c] \in Request /\ Body(c) \in UpdateRequest
      /\ stage # "absent" /\ copy[c].spec = spec /\ spec \in PDInferenceServiceSpec
      /\ Settled(spec)
  <2>1. /\ Serves(c, "Update") /\ copy[c] # Nil /\ fresh[c]
        /\ call[c] \in Request /\ Holds(c)
    BY DEF UpdateStores, UpdateAccepted, Serves, RestInv, CallsOK
  <2>2. /\ Body(c) \in UpdateRequest
        /\ stage # "absent" /\ copy[c] = [uid |-> uid, spec |-> spec]
    BY <2>1, RequestShape DEF Holds, Serves, Body, BadRequest
  <2>3. spec \in PDInferenceServiceSpec /\ Settled(spec)
    BY <2>2 DEF RestInv, StoredOK
  <2> QED BY <2>1, <2>2, <2>3
<1>2. /\ new \in PDInferenceServiceSpec /\ Settled(new) /\ new # Nil
      /\ \A r \in InferenceRoles : new.roles[r].replicas =
            IF Body(c).replicas[r] = Nil THEN spec.roles[r].replicas ELSE Body(c).replicas[r]
      /\ new = Scaled(spec, [replicas |-> [r \in InferenceRoles |-> new.roles[r].replicas]])
  BY <1>1, ScaledSpec, RestNilAssumption
<1>3. Stored(new) = new
  BY <1>2, SettledStays
<1>4. /\ UNCHANGED <<stage, uid, owner>> /\ spec' = new
      /\ UNCHANGED <<profiles, profileWatch>>
      /\ Outdate("", new # spec \/ stage' # stage)
      /\ asked' = [r \in InferenceRoles |->
                     IF Body(c).replicas[r] = Nil THEN asked[r] ELSE Body(c).replicas[r]]
  BY <1>1, <1>3 DEF UpdateStores, PutSpec, lifeVars
<1> HIDE DEF new
<1>5. NoScaleLost'
  BY <1>1, <1>2, <1>4 DEF NoScaleLost, RestInv, StoredOK
<1>6. asked' \in [InferenceRoles -> Int]
  BY <1>1, <1>4 DEF RestInv, StoredOK, UpdateRequest
<1>7. StoredOK'
  BY <1>1, <1>2, <1>4, <1>5, <1>6 DEF RestInv, StoredOK, LifeTypeOK
<1>8. Evolves
  <2>1. uid \in Nat
    BY DEF RestInv, StoredOK, LifeTypeOK
  <2>2. OnlyScaled
    BY <1>2, <1>4 DEF OnlyScaled
  <2>3. stage' = stage /\ uid' = uid
    BY <1>4
  <2>4. uid' >= uid
    BY <2>1, <2>3
  <2> QED BY <1>7, <2>2, <2>3, <2>4 DEF Evolves
<1>9. Outdates
  BY <1>4, OutdateOutdates DEF RestInv
<1> QED BY <1>8, <1>9

\* A step that stores nothing.
LEMMA NothingEffect ==
    ASSUME RestInv, NothingStored
    PROVE  Evolves /\ Outdates
<1>1. UNCHANGED <<stage, uid, owner, spec, asked, profiles, profileWatch, fresh>>
  BY DEF NothingStored, storedVars, lifeVars
<1>2. /\ spec' = IF stage' = "absent" THEN Nil ELSE spec
      /\ LifeTypeOK'
  BY <1>1 DEF RestInv, StoredOK, LifeTypeOK
<1>3. Evolves
  BY <1>1, <1>2, StageMoves DEF RestInv, StoredOK
<1> QED
  BY <1>1, <1>3 DEF Outdates, RestInv, CallsOK

\* DELETE marks the service or takes it away.
LEMMA DeleteEffect ==
    ASSUME RestInv, NEW c \in Clients, DeleteStores(c)
    PROVE  Evolves /\ Outdates /\ stage' \in {"absent", "ending"} /\ uid' = uid
<1>1. CASE Vanish /\ PutSpec(Nil) /\ UNCHANGED asked
  <2>1. /\ stage = "bare" /\ stage' = "absent" /\ UNCHANGED <<uid, owner, asked>>
        /\ spec' = Nil /\ UNCHANGED <<profiles, profileWatch>>
        /\ Outdate("", Nil # spec \/ stage' # stage)
    BY <1>1 DEF Vanish, StageGoes, PutSpec
  <2>2. LifeTypeOK'
    BY <2>1 DEF RestInv, StoredOK, LifeTypeOK, Stages
  <2>3. Evolves
    BY <2>1, <2>2, StageMoves DEF RestInv, StoredOK
  <2> QED
    BY <2>1, <2>3, OutdateOutdates DEF RestInv
<1>2. CASE Mark /\ PutSpec(spec) /\ UNCHANGED asked
  <2>1. /\ stage = "guarded" /\ stage' = "ending" /\ UNCHANGED <<uid, owner, asked>>
        /\ spec' = spec /\ UNCHANGED <<profiles, profileWatch>>
        /\ Outdate("", spec # spec \/ stage' # stage)
    BY <1>2 DEF Mark, StageGoes, PutSpec
  <2>2. LifeTypeOK'
    BY <2>1 DEF RestInv, StoredOK, LifeTypeOK, Stages
  <2>3. Evolves
    BY <2>1, <2>2, StageMoves DEF RestInv, StoredOK
  <2> QED
    BY <2>1, <2>3, OutdateOutdates DEF RestInv
<1>3. CASE stage \in {"absent", "ending"} /\ UNCHANGED <<storedVars, fresh, asked>>
  BY <1>3, NothingEffect DEF NothingStored, storedVars, lifeVars
<1> QED
  BY <1>1, <1>2, <1>3 DEF DeleteStores

\* A write of a profile leaves the service alone.
LEMMA ProfileEffect ==
    ASSUME RestInv, NEW name \in ProfileNames, NEW new \in PDEngineProfileSpec \cup {Nil},
           PutProfile(name, new)
    PROVE  Evolves /\ Outdates
<1>1. /\ UNCHANGED <<stage, uid, owner, spec, asked>>
      /\ profiles' = [profiles EXCEPT ![name] = new]
      /\ profileWatch' = IF new = profiles[name] THEN profileWatch
                         ELSE Append(profileWatch, profiles')
      /\ Outdate(name, new # profiles[name])
  BY DEF PutProfile, lifeVars
<1>2. profiles' \in Profiles
  BY <1>1 DEF RestInv, StoredOK, Profiles
<1>3. profileWatch' \in Seq(Profiles)
  BY <1>1, <1>2 DEF RestInv, StoredOK
<1>4. LifeTypeOK' /\ spec' = IF stage' = "absent" THEN Nil ELSE spec
  BY <1>1 DEF RestInv, StoredOK, LifeTypeOK
<1>5. Evolves
  BY <1>1, <1>2, <1>3, <1>4, StageMoves DEF RestInv
<1> QED
  BY <1>1, <1>5, OutdateOutdates DEF RestInv

\* What the writes of all handlers have in common.
LEMMA StoresEffect ==
    ASSUME RestInv, NEW c \in Clients, Stores(c)
    PROVE  Evolves /\ Outdates /\ call[c] # Nil
<1>1. CASE CreateStores(c) \/ UpdateStores(c) \/ DeleteStores(c)
  BY <1>1, CreateEffect, UpdateEffect, DeleteEffect
  DEF CreateStores, UpdateStores, DeleteStores, Serves
<1>2. ASSUME NEW new \in {Body(c), Nil}, PutProfile(call[c].name, new),
             call[c] # Nil, call[c].handler \in ProfileHandlers,
             new = Body(c) => call[c].handler \in {"CreateProfile", "UpdateProfile"}
      PROVE  Evolves /\ Outdates
  <2>1. call[c] \in Request
    BY <1>2 DEF RestInv, CallsOK
  <2>2. call[c].name \in ProfileNames /\ new \in PDEngineProfileSpec \cup {Nil}
    BY <1>2, <2>1, RequestShape DEF Body
  <2> QED BY <1>2, <2>2, ProfileEffect
<1>3. CASE CreateProfileStores(c) \/ UpdateProfileStores(c)
  BY <1>2, <1>3
  DEF CreateProfileStores, UpdateProfileStores, Serves, ProfileHandlers
<1>4. CASE DeleteProfileStores(c)
  <2>1. /\ PutProfile(call[c].name, Nil) /\ call[c] # Nil
        /\ call[c].handler = "DeleteProfile" /\ call[c] \in Request
    BY <1>4 DEF DeleteProfileStores, Serves, RestInv, CallsOK
  <2>2. call[c].name \in ProfileNames
    BY <2>1, RequestShape DEF ProfileHandlers
  <2> QED BY <2>1, <2>2, ProfileEffect
<1> QED
  BY <1>1, <1>3, <1>4 DEF Stores

-----------------------------------------------------------------------------
(***************************************************************************)
(* The steps of a handler: it reads and goes on, or it replies.            *)
(***************************************************************************)
Spends == UNCHANGED faults \/ Fault

Replies(c, code) ==
    /\ call[c] # Nil /\ code \in {200, 201, 400, 404, 500}
    /\ Reply(c, code)
    /\ Spends
    /\ NothingStored \/ Stores(c)
    /\ call[c].handler = "Create" /\ code = 201 => CreateStores(c)
    /\ call[c].handler = "Delete" /\ code = 200 =>
          DeleteStores(c) \/ (stage = "absent" /\ NothingStored)

Reads(c) ==
    \E old : /\ call[c] # Nil /\ ~BadRequest(c)
             /\ Read(c, old)
             /\ \/ /\ call[c].handler \in {"Update", "Delete"}
                   /\ stage # "absent" /\ old = [uid |-> uid, spec |-> spec]
                \/ /\ call[c].handler \in {"UpdateProfile", "DeleteProfile"}
                   /\ old = Profile(c) /\ old # Nil

\* Every step of a handler, and every failure of its requests, is one of these.
LEMMA HandlerKinds ==
    ASSUME NEW c \in Clients, Handler(c) \/ ApiFails(c) \/ ApiReplyLost(c)
    PROVE  Reads(c) \/ \E code \in {200, 201, 400, 404, 500} : Replies(c, code)
<1> USE DEF Serves
<1>1. ASSUME NEW code \in {200, 400, 404, 500}, call[c] # Nil, NothingStored,
             Reply(c, code), Spends,
             call[c].handler = "Delete" /\ code = 200 => stage = "absent"
      PROVE  Replies(c, code)
  BY <1>1 DEF Replies
<1>2. ASSUME NEW code \in {200, 201, 500}, call[c] # Nil, Stores(c), Reply(c, code), Spends,
             call[c].handler = "Create" /\ code = 201 => CreateStores(c),
             call[c].handler = "Delete" /\ code = 200 => DeleteStores(c)
      PROVE  Replies(c, code)
  BY <1>2 DEF Replies
<1>3. CASE RefuseBody(c)
  <2>1. NothingStored /\ Reply(c, 400) /\ Spends /\ call[c] # Nil
    BY <1>3 DEF RefuseBody, Answer, Spends
  <2> QED BY <1>1, <2>1
<1>4. CASE List(c) \/ Get(c) \/ ListProfiles(c) \/ GetProfile(c)
  <2>1. /\ call[c] # Nil /\ NothingStored /\ call[c].handler # "Delete"
        /\ Reply(c, 200) \/ Reply(c, 404)
        /\ Spends
    BY <1>4 DEF List, Get, ListProfiles, GetProfile, Shows, Answer, Spends
  <2> QED BY <1>1, <2>1
<1>5. CASE Create(c)
  <2>1. CASE CreateStores(c) /\ Answer(c, 201)
    <3>1. call[c] # Nil /\ Stores(c) /\ Reply(c, 201) /\ Spends /\ CreateStores(c)
      BY <2>1 DEF CreateStores, Answer, Spends, Stores
    <3>2. call[c].handler # "Delete"
      BY <2>1 DEF CreateStores
    <3> QED BY <1>2, <3>1, <3>2
  <2>2. CASE CreateRefused(c) /\ Answer(c, 500)
    BY <1>1, <2>2 DEF CreateRefused, Answer, Spends
  <2> QED BY <1>5, <2>1, <2>2 DEF Create
<1>6. CASE Update(c)
  <2>1. CASE UpdateReads(c)
    <3>1. CASE stage = "absent"
      <4>1. /\ call[c] # Nil /\ NothingStored /\ Reply(c, 404) /\ Spends
        BY <2>1, <3>1 DEF UpdateReads, Answer, Spends
      <4> QED BY <1>1, <4>1
    <3>2. CASE stage # "absent"
      BY <2>1, <3>2 DEF UpdateReads, Reads
    <3> QED BY <3>1, <3>2
  <2>2. CASE UpdateStores(c) /\ Answer(c, 200)
    <3>1. call[c] # Nil /\ Stores(c) /\ Reply(c, 200) /\ Spends /\ call[c].handler # "Delete"
      BY <2>2 DEF UpdateStores, Answer, Spends, Stores
    <3> QED BY <1>2, <3>1
  <2>3. CASE UpdateRefused(c) /\ Answer(c, 500)
    BY <1>1, <2>3 DEF UpdateRefused, Answer, Spends
  <2> QED BY <1>6, <2>1, <2>2, <2>3 DEF Update
<1>7. CASE Delete(c)
  <2>1. CASE DeleteReads(c)
    <3>1. CASE stage = "absent"
      <4>1. /\ call[c] # Nil /\ NothingStored /\ Reply(c, 200) /\ Spends
        BY <2>1, <3>1 DEF DeleteReads, Answer, Spends
      <4> QED BY <1>1, <3>1, <4>1
    <3>2. CASE stage # "absent"
      BY <2>1, <3>2 DEF DeleteReads, Reads, BadRequest
    <3> QED BY <3>1, <3>2
  <2>2. CASE DeleteStores(c) /\ Answer(c, 200)
    <3>1. call[c] # Nil /\ Stores(c) /\ Reply(c, 200) /\ Spends /\ DeleteStores(c)
      BY <2>2 DEF DeleteStores, Answer, Spends, Stores
    <3> QED BY <1>2, <3>1
  <2> QED BY <1>7, <2>1, <2>2 DEF Delete
<1>8. CASE CreateProfile(c)
  <2>1. CASE CreateProfileStores(c) /\ Answer(c, 201)
    <3>1. /\ call[c] # Nil /\ Stores(c) /\ Reply(c, 201) /\ Spends
          /\ call[c].handler # "Delete" /\ call[c].handler # "Create"
      BY <2>1 DEF CreateProfileStores, Answer, Spends, Stores
    <3> QED BY <1>2, <3>1
  <2>2. CASE Serves(c, "CreateProfile") /\ NothingStored /\ Answer(c, 500)
    BY <1>1, <2>2 DEF Answer, Spends
  <2> QED BY <1>8, <2>1, <2>2 DEF CreateProfile
<1>9. CASE UpdateProfile(c)
  <2>1. CASE UpdateProfileReads(c)
    <3>1. CASE Profile(c) = Nil
      <4>1. /\ call[c] # Nil /\ NothingStored /\ Reply(c, 404) /\ Spends
        BY <2>1, <3>1 DEF UpdateProfileReads, Answer, Spends
      <4> QED BY <1>1, <4>1
    <3>2. CASE Profile(c) # Nil
      BY <2>1, <3>2 DEF UpdateProfileReads, Reads
    <3> QED BY <3>1, <3>2
  <2>2. CASE UpdateProfileStores(c) /\ Answer(c, 200)
    <3>1. call[c] # Nil /\ Stores(c) /\ Reply(c, 200) /\ Spends /\ call[c].handler # "Delete"
      BY <2>2 DEF UpdateProfileStores, Answer, Spends, Stores
    <3> QED BY <1>2, <3>1
  <2>3. CASE Serves(c, "UpdateProfile") /\ NothingStored /\ Answer(c, 500)
    BY <1>1, <2>3 DEF Answer, Spends
  <2> QED BY <1>9, <2>1, <2>2, <2>3 DEF UpdateProfile
<1>10. CASE DeleteProfile(c)
  <2>1. CASE DeleteProfileReads(c)
    <3>1. CASE Profile(c) = Nil
      <4>1. /\ call[c] # Nil /\ NothingStored /\ Reply(c, 200) /\ Spends
            /\ call[c].handler # "Delete"
        BY <2>1, <3>1 DEF DeleteProfileReads, Answer, Spends
      <4> QED BY <1>1, <4>1
    <3>2. CASE Profile(c) # Nil
      BY <2>1, <3>2 DEF DeleteProfileReads, Reads, BadRequest
    <3> QED BY <3>1, <3>2
  <2>2. CASE DeleteProfileStores(c) /\ Answer(c, 200)
    <3>1. call[c] # Nil /\ Stores(c) /\ Reply(c, 200) /\ Spends /\ call[c].handler # "Delete"
      BY <2>2 DEF DeleteProfileStores, Answer, Spends, Stores
    <3> QED BY <1>2, <3>1
  <2> QED BY <1>10, <2>1, <2>2 DEF DeleteProfile
<1>11. CASE ApiFails(c)
  BY <1>1, <1>11 DEF ApiFails, Spends
<1>12. CASE ApiReplyLost(c)
  <2>1. call[c] # Nil
    BY <1>12 DEF ApiReplyLost, Stores, CreateStores, UpdateStores, DeleteStores,
                 CreateProfileStores, UpdateProfileStores, DeleteProfileStores
  <2>2. Stores(c) /\ Reply(c, 500) /\ Spends
    BY <1>12 DEF ApiReplyLost, Spends
  <2> QED BY <1>2, <2>1, <2>2
<1> QED
  BY <1>3, <1>4, <1>5, <1>6, <1>7, <1>8, <1>9, <1>10, <1>11, <1>12 DEF Handler

-----------------------------------------------------------------------------
(***************************************************************************)
(* Every step preserves the invariant.                                     *)
(***************************************************************************)

\* What the handlers hold stays right when copies are outdated with the service.
LEMMA HoldsKept ==
    ASSUME RestInv, Outdates, NEW c \in Clients, copy[c] # Nil,
           call'[c] = call[c], copy'[c] = copy[c]
    PROVE  Holds(c)'
<1>1. Holds(c) /\ call[c] \in Request
  BY DEF RestInv, CallsOK, Holds
<1>2. ~BadRequest(c)'
  BY <1>1 DEF Holds, BadRequest, Body
<1>3. ASSUME call[c].handler \in {"Update", "Delete"}, fresh'[c]
      PROVE  stage' # "absent" /\ copy[c] = [uid |-> uid', spec |-> spec']
  <2>1. fresh[c] /\ c \in HandlersOn("")
    BY <1>1, <1>3, RequestShape DEF Outdates, HandlersOn, ServiceHandlers
  <2>2. UNCHANGED <<stage, uid, spec>>
    BY <1>3, <2>1 DEF Outdates
  <2> QED
    BY <1>1, <1>3, <2>1, <2>2 DEF Holds
<1> QED
  BY <1>1, <1>2, <1>3 DEF Holds

\* Answers stay right while no new one is given.
LEMMA AnswersKept ==
    ASSUME RestInv, Evolves,
           answer' \in [Clients -> Answers \cup {Nil}],
           \A c \in Clients : answer'[c] \in {answer[c], Nil}
    PROVE  AnswersOK'
<1>1. /\ uid \in Nat /\ uid' \in Nat /\ uid' >= uid
      /\ \A c \in Clients : answer[c] # Nil => answer[c].uid <= uid /\ answer[c].uid \in Nat
  BY DEF RestInv, StoredOK, Evolves, LifeTypeOK, AnswersOK, Answers
<1>2. \A c \in Clients : answer'[c] # Nil => answer'[c] = answer[c] /\ answer[c] # Nil
  BY Zenon
<1>3. \A c \in Clients : answer'[c] # Nil => answer'[c].uid <= uid'
  BY <1>1, <1>2
<1>4. CreatedOnce'
  BY <1>2 DEF RestInv, AnswersOK, CreatedOnce, Answered
<1>5. ASSUME NEW c \in Clients, Answered(c, "Delete", 200)'
      PROVE  answer'[c].uid # uid' \/ stage' \in {"absent", "ending"}
  <2>1. answer'[c] = answer[c] /\ Answered(c, "Delete", 200)
    BY <1>2, <1>5 DEF Answered
  <2>2. answer[c].uid # uid \/ stage \in {"absent", "ending"}
    BY <2>1 DEF RestInv, AnswersOK, DeletedStaysDeleted
  <2>3. answer[c].uid <= uid /\ answer[c].uid \in Nat
    BY <1>1, <2>1 DEF Answered
  <2>4. CASE uid' = uid
    BY <2>1, <2>2, <2>4 DEF Evolves
  <2>5. CASE uid' # uid
    BY <1>1, <2>1, <2>3, <2>5
  <2> QED BY <2>4, <2>5
<1> QED
  BY <1>3, <1>4, <1>5 DEF AnswersOK, DeletedStaysDeleted

\* A handler that replies.
LEMMA ReplyKeeps ==
    ASSUME RestInv, NEW c \in Clients, NEW code, Replies(c, code)
    PROVE  RestInv' /\ OnlyScaled
<1>1. Evolves /\ Outdates
  BY NothingEffect, StoresEffect DEF Replies
<1>2. /\ call' = [call EXCEPT ![c] = Nil] /\ copy' = [copy EXCEPT ![c] = Nil]
      /\ answer' = [answer EXCEPT ![c] =
                      [handler |-> call[c].handler, code |-> code, uid |-> uid']]
      /\ UNCHANGED <<cProfiles, draining, sent>>
  BY DEF Replies, Reply
<1>3. CallsOK'
  <2>1. /\ call' \in [Clients -> Request \cup {Nil}]
        /\ copy' \in [Clients -> Copies \cup {Nil}]
        /\ fresh' \in [Clients -> BOOLEAN]
    BY <1>1, <1>2 DEF RestInv, CallsOK, Outdates
  <2>2. \A d \in Clients : copy'[d] # Nil => call'[d] = call[d] /\ copy'[d] = copy[d]
    BY <1>2 DEF RestInv, CallsOK
  <2> QED
    BY <1>1, <2>1, <2>2, HoldsKept DEF CallsOK
<1>4. ServerOK'
  BY <1>2, ClientBoundsAssumption DEF Replies, Spends, Fault, RestInv, ServerOK
<1>5. AnswersOK'
  <2> DEFINE given == [handler |-> call[c].handler, code |-> code, uid |-> uid']
  <2>1. uid \in Nat /\ uid' \in Nat /\ uid' >= uid
    BY <1>1 DEF RestInv, StoredOK, Evolves, LifeTypeOK
  <2>2. given \in Answers
    <3>1. call[c].handler \in ServiceHandlers \cup ProfileHandlers
      <4>1. call[c] \in Request
        BY DEF Replies, RestInv, CallsOK
      <4> QED BY <4>1, RequestShape
    <3> QED BY <2>1, <3>1 DEF Answers, Replies
  <2>3. /\ answer' \in [Clients -> Answers \cup {Nil}]
        /\ answer'[c] = given
        /\ \A d \in Clients \ {c} : answer'[d] = answer[d]
    BY <1>2, <2>2 DEF RestInv, AnswersOK
  <2>4. \A d \in Clients : answer[d] # Nil => answer[d].uid <= uid /\ answer[d].uid \in Nat
    BY DEF RestInv, AnswersOK, Answers
  <2>5. \A d \in Clients : answer'[d] # Nil => answer'[d].uid <= uid'
    BY <2>1, <2>3, <2>4
  <2>6. CreatedOnce'
    <3>1. ASSUME Answered(c, "Create", 201)'
          PROVE  uid' = uid + 1
      <4>1. call[c].handler = "Create" /\ code = 201
        BY <2>3, <3>1 DEF Answered
      <4> QED BY <4>1, CreateEffect DEF Replies
    <3>2. ASSUME NEW d \in Clients \ {c}, Answered(c, "Create", 201)',
                 Answered(d, "Create", 201)'
          PROVE  answer'[c].uid # answer'[d].uid
      <4>1. uid' = uid + 1 /\ answer'[c].uid = uid'
        BY <2>3, <3>1, <3>2
      <4>2. answer'[d] = answer[d] /\ answer[d] # Nil
        BY <2>3, <3>2 DEF Answered
      <4> QED BY <2>1, <2>4, <4>1, <4>2
    <3>3. ASSUME NEW d \in Clients \ {c}, NEW e \in Clients \ {c}, d # e,
                 Answered(d, "Create", 201)', Answered(e, "Create", 201)'
          PROVE  answer'[d].uid # answer'[e].uid
      BY <2>3, <3>3 DEF RestInv, AnswersOK, CreatedOnce, Answered
    <3> QED
      BY <3>2, <3>3, Zenon DEF CreatedOnce
  <2>7. ASSUME NEW d \in Clients, Answered(d, "Delete", 200)'
        PROVE  answer'[d].uid # uid' \/ stage' \in {"absent", "ending"}
    <3>1. CASE d = c
      <4>1. call[c].handler = "Delete" /\ code = 200
        BY <2>3, <2>7, <3>1 DEF Answered
      <4>2. DeleteStores(c) \/ (stage = "absent" /\ NothingStored)
        BY <4>1 DEF Replies
      <4> QED
        BY <4>2, DeleteEffect DEF NothingStored, storedVars, lifeVars
    <3>2. CASE d # c
      <4>1. answer'[d] = answer[d] /\ Answered(d, "Delete", 200) /\ answer[d] # Nil
        BY <2>3, <2>7, <3>2 DEF Answered
      <4>2. answer[d].uid # uid \/ stage \in {"absent", "ending"}
        BY <4>1 DEF RestInv, AnswersOK, DeletedStaysDeleted
      <4>3. CASE uid' = uid
        BY <1>1, <4>1, <4>2, <4>3 DEF Evolves
      <4>4. CASE uid' # uid
        BY <2>1, <2>4, <4>1, <4>4
      <4> QED BY <4>3, <4>4
    <3> QED BY <3>1, <3>2
  <2> QED
    BY <2>3, <2>5, <2>6, <2>7 DEF AnswersOK, DeletedStaysDeleted
<1> QED
  BY <1>1, <1>3, <1>4, <1>5 DEF RestInv, Evolves

\* A handler that has read.
LEMMA ReadKeeps ==
    ASSUME RestInv, NEW c \in Clients, Reads(c)
    PROVE  RestInv' /\ OnlyScaled
<1> PICK old : /\ call[c] # Nil /\ ~BadRequest(c)
               /\ Read(c, old)
               /\ \/ /\ call[c].handler \in {"Update", "Delete"}
                     /\ stage # "absent" /\ old = [uid |-> uid, spec |-> spec]
                  \/ /\ call[c].handler \in {"UpdateProfile", "DeleteProfile"}
                     /\ old = Profile(c) /\ old # Nil
  BY DEF Reads
<1>1. /\ copy' = [copy EXCEPT ![c] = old] /\ fresh' = [fresh EXCEPT ![c] = TRUE]
      /\ UNCHANGED <<stage, uid, owner, spec, profiles, profileWatch, asked, cProfiles,
                     call, answer, draining, sent, faults>>
  BY DEF Read, storedVars, lifeVars
<1>2. /\ spec' = IF stage' = "absent" THEN Nil ELSE spec
      /\ LifeTypeOK'
  BY <1>1 DEF RestInv, StoredOK, LifeTypeOK
<1>3. Evolves
  BY <1>1, <1>2, StageMoves DEF RestInv, StoredOK
<1>4. call[c] \in Request
  BY DEF RestInv, CallsOK
<1>5. /\ call[c].handler \in {"Update", "Delete"} =>
            old \in [uid : Nat, spec : PDInferenceServiceSpec]
      /\ old \in Copies
  <2>1. CASE call[c].handler \in {"Update", "Delete"}
    <3>1. stage # "absent" /\ old = [uid |-> uid, spec |-> spec]
      BY <2>1
    <3>2. uid \in Nat /\ spec \in PDInferenceServiceSpec
      BY <3>1 DEF RestInv, StoredOK, LifeTypeOK
    <3> QED BY <3>1, <3>2 DEF Copies
  <2>2. CASE call[c].handler \in {"UpdateProfile", "DeleteProfile"}
    <3>1. call[c].name \in ProfileNames
      BY <1>4, <2>2, RequestShape DEF ProfileHandlers
    <3>2. Profile(c) \in PDEngineProfileSpec \cup {Nil}
      BY <3>1 DEF Profile, RestInv, StoredOK, Profiles
    <3> QED BY <2>2, <3>2 DEF Copies
  <2> QED BY <2>1, <2>2
<1>6. CallsOK'
  <2>1. /\ call' \in [Clients -> Request \cup {Nil}]
        /\ copy' \in [Clients -> Copies \cup {Nil}]
        /\ fresh' \in [Clients -> BOOLEAN]
    BY <1>1, <1>5 DEF RestInv, CallsOK
  <2>2. Holds(c)'
    <3>1. copy'[c] = old /\ call'[c] = call[c]
      BY <1>1 DEF RestInv, CallsOK
    <3>2. ~BadRequest(c)'
      BY <3>1 DEF BadRequest, Body
    <3> QED BY <1>1, <1>5, <3>1, <3>2 DEF Holds
  <2>3. ASSUME NEW d \in Clients \ {c}, copy'[d] # Nil
        PROVE  Holds(d)'
    <3>1. /\ copy'[d] = copy[d] /\ fresh'[d] = fresh[d] /\ call'[d] = call[d]
          /\ UNCHANGED <<stage, uid, spec>>
      BY <1>1 DEF RestInv, CallsOK
    <3>2. Holds(d)
      BY <2>3, <3>1 DEF RestInv, CallsOK
    <3>3. ~BadRequest(d)'
      BY <3>1, <3>2 DEF Holds, BadRequest, Body
    <3> QED BY <3>1, <3>2, <3>3 DEF Holds
  <2> QED
    BY <2>1, <2>2, <2>3 DEF CallsOK
<1>7. AnswersOK'
  BY <1>1, <1>3, AnswersKept DEF RestInv, AnswersOK
<1>8. ServerOK'
  BY <1>1 DEF RestInv, ServerOK
<1> QED
  BY <1>3, <1>6, <1>7, <1>8 DEF RestInv, Evolves

\* A request is accepted.
LEMMA AcceptKeeps ==
    ASSUME RestInv, NEW c \in Clients, NEW request \in Requests[c], Accept(c, request)
    PROVE  RestInv' /\ OnlyScaled
<1>1. /\ call' = [call EXCEPT ![c] = request] /\ answer' = [answer EXCEPT ![c] = Nil]
      /\ fresh' = [fresh EXCEPT ![c] = FALSE]
      /\ call[c] = Nil /\ sent < MaxRequests /\ sent' = sent + 1
      /\ UNCHANGED <<stage, uid, owner, spec, profiles, profileWatch, asked, cProfiles,
                     copy, draining, faults>>
  BY DEF Accept, storedVars, lifeVars
<1>2. /\ spec' = IF stage' = "absent" THEN Nil ELSE spec
      /\ LifeTypeOK'
  BY <1>1 DEF RestInv, StoredOK, LifeTypeOK
<1>3. Evolves
  BY <1>1, <1>2, StageMoves DEF RestInv, StoredOK
<1>4. Outdates
  BY <1>1 DEF RestInv, CallsOK, Outdates
<1>5. CallsOK'
  <2>1. request \in Request
    BY RequestsAssumption
  <2>2. /\ call' \in [Clients -> Request \cup {Nil}]
        /\ copy' \in [Clients -> Copies \cup {Nil}]
        /\ fresh' \in [Clients -> BOOLEAN]
    BY <1>1, <2>1 DEF RestInv, CallsOK
  <2>3. copy[c] = Nil
    BY <1>1 DEF RestInv, CallsOK, Holds
  <2>4. \A d \in Clients : copy'[d] # Nil => call'[d] = call[d] /\ copy'[d] = copy[d]
    BY <1>1, <2>3 DEF RestInv, CallsOK
  <2> QED
    BY <1>4, <2>2, <2>4, HoldsKept DEF CallsOK
<1>6. AnswersOK'
  <2>1. /\ answer' \in [Clients -> Answers \cup {Nil}]
        /\ \A d \in Clients : answer'[d] \in {answer[d], Nil}
    BY <1>1 DEF RestInv, AnswersOK
  <2> QED BY <1>3, <2>1, AnswersKept
<1>7. ServerOK'
  BY <1>1, ClientBoundsAssumption DEF RestInv, ServerOK
<1> QED
  BY <1>3, <1>5, <1>6, <1>7 DEF RestInv, Evolves

\* The server stops and starts again, with the requests in flight or without.
LEMMA ServerKeeps ==
    ASSUME RestInv, Shutdown \/ Stopped \/ GraceExpires \/ Crash
    PROVE  RestInv' /\ OnlyScaled
<1>1. /\ UNCHANGED <<stage, uid, owner, spec, profiles, asked, answer, sent>>
      /\ profileWatch' \in {profileWatch, <<>>} /\ cProfiles' \in {cProfiles, profiles}
      /\ draining' \in BOOLEAN
      /\ Spends
  BY DEF Shutdown, Stopped, GraceExpires, Crash, EndCalls, Relist, storedVars, lifeVars,
     callVars, Spends
<1>2. \/ UNCHANGED <<call, copy, fresh>>
      \/ /\ call' = [c \in Clients |-> Nil] /\ copy' = [c \in Clients |-> Nil]
         /\ fresh' = [c \in Clients |-> FALSE]
  BY DEF Shutdown, Stopped, GraceExpires, Crash, EndCalls, callVars
<1>3. /\ spec' = IF stage' = "absent" THEN Nil ELSE spec
      /\ LifeTypeOK' /\ profiles' \in Profiles /\ profileWatch' \in Seq(Profiles)
  <2>1. <<>> \in Seq(Profiles)
    OBVIOUS
  <2> QED BY <1>1, <2>1 DEF RestInv, StoredOK, LifeTypeOK
<1>4. Evolves
  BY <1>1, <1>3, StageMoves DEF RestInv
<1>5. CallsOK'
  <2>1. CASE UNCHANGED <<call, copy, fresh>>
    <3>1. Outdates
      BY <1>1, <2>1 DEF RestInv, CallsOK, Outdates
    <3> QED BY <2>1, <3>1, HoldsKept DEF RestInv, CallsOK
  <2>2. CASE copy' = [c \in Clients |-> Nil] /\ call' = [c \in Clients |-> Nil]
             /\ fresh' = [c \in Clients |-> FALSE]
    BY <2>2 DEF CallsOK
  <2> QED BY <1>2, <2>1, <2>2
<1>6. AnswersOK'
  BY <1>1, <1>4, AnswersKept DEF RestInv, AnswersOK
<1>7. ServerOK'
  <2>1. cProfiles' \in Profiles
    BY <1>1 DEF RestInv, ServerOK, StoredOK
  <2>2. faults' \in 0 .. MaxFaults /\ sent' \in 0 .. MaxRequests
    BY <1>1, ClientBoundsAssumption DEF RestInv, ServerOK, Spends, Fault
  <2> QED BY <1>1, <2>1, <2>2 DEF ServerOK
<1> QED
  BY <1>4, <1>5, <1>6, <1>7 DEF RestInv, Evolves

\* The controller, the garbage collector and the profile informer.
LEMMA EnvironmentKeeps ==
    ASSUME RestInv, Environment
    PROVE  RestInv' /\ OnlyScaled
<1>1. ASSUME Evolves, Outdates, UNCHANGED <<call, copy, answer, draining, sent, faults>>,
             cProfiles' \in Profiles
      PROVE  RestInv' /\ OnlyScaled
  <2>1. CallsOK'
    BY <1>1, HoldsKept DEF RestInv, CallsOK, Outdates
  <2>2. AnswersOK'
    BY <1>1, AnswersKept DEF RestInv, AnswersOK
  <2>3. ServerOK'
    BY <1>1 DEF RestInv, ServerOK
  <2> QED BY <1>1, <2>1, <2>2, <2>3 DEF RestInv, Evolves
<1>2. cProfiles \in Profiles /\ LifeTypeOK /\ CallsOK
  BY DEF RestInv, ServerOK, StoredOK
<1>3. CASE ControllerGuards
  <2>1. /\ stage = "bare" /\ stage' = "guarded" /\ UNCHANGED <<uid, owner, asked>>
        /\ spec' = spec /\ UNCHANGED <<profiles, profileWatch>>
        /\ Outdate("", spec # spec \/ stage' # stage)
        /\ UNCHANGED <<cProfiles, call, copy, answer, draining, sent, faults>>
    BY <1>3 DEF ControllerGuards, Guard, StageGoes, PutSpec, OthersLeaveAlone
  <2>2. LifeTypeOK'
    BY <1>2, <2>1 DEF LifeTypeOK, Stages
  <2>3. Evolves
    BY <2>1, <2>2, StageMoves DEF RestInv, StoredOK
  <2>4. Outdates
    BY <1>2, <2>1, OutdateOutdates
  <2> QED BY <1>1, <1>2, <2>1, <2>3, <2>4
<1>4. CASE ControllerReleases
  <2>1. /\ stage = "ending" /\ stage' = "absent" /\ UNCHANGED <<uid, owner, asked>>
        /\ spec' = Nil /\ UNCHANGED <<profiles, profileWatch>>
        /\ Outdate("", Nil # spec \/ stage' # stage)
        /\ UNCHANGED <<cProfiles, call, copy, answer, draining, sent, faults>>
    BY <1>4 DEF ControllerReleases, Release, StageGoes, PutSpec, OthersLeaveAlone
  <2>2. LifeTypeOK'
    BY <1>2, <2>1 DEF LifeTypeOK, Stages
  <2>3. Evolves
    BY <2>1, <2>2, StageMoves DEF RestInv, StoredOK
  <2>4. Outdates
    BY <1>2, <2>1, OutdateOutdates
  <2> QED BY <1>1, <1>2, <2>1, <2>3, <2>4
<1>5. ASSUME UNCHANGED <<stage, uid, spec, asked, profiles>>, owner' \in 0 .. uid,
             profileWatch' \in Seq(Profiles)
      PROVE  Evolves
  <2>1. LifeTypeOK' /\ spec' = IF stage' = "absent" THEN Nil ELSE spec
    BY <1>2, <1>5 DEF RestInv, StoredOK, LifeTypeOK
  <2> QED BY <1>5, <2>1, StageMoves DEF RestInv, StoredOK
<1>6. CASE ControllerWritesStatus
  <2>1. /\ UNCHANGED <<stage, uid, owner, spec, profiles, profileWatch>>
        /\ Outdate("", TRUE)
        /\ UNCHANGED <<asked, cProfiles, call, copy, answer, draining, sent, faults>>
    BY <1>6 DEF ControllerWritesStatus, OthersLeaveAlone, storedVars, lifeVars
  <2>2. Evolves
    BY <1>2, <1>5, <2>1 DEF RestInv, StoredOK, LifeTypeOK
  <2>3. Outdates
    BY <1>2, <2>1, OutdateOutdates
  <2> QED BY <1>1, <1>2, <2>1, <2>2, <2>3
<1>7. CASE GroupChanges
  <2>1. /\ UNCHANGED <<stage, uid, spec, profiles, profileWatch, fresh>>
        /\ owner' \in {0, uid}
        /\ UNCHANGED <<asked, cProfiles, call, copy, answer, draining, sent, faults>>
    BY <1>7 DEF GroupChanges, Provision, LoseGroup, OthersLeaveAlone
  <2>2. owner' \in 0 .. uid
    BY <1>2, <2>1 DEF LifeTypeOK
  <2>3. Evolves
    BY <1>5, <2>1, <2>2 DEF RestInv, StoredOK
  <2>4. Outdates
    BY <1>2, <2>1 DEF Outdates, CallsOK
  <2> QED BY <1>1, <1>2, <2>1, <2>3, <2>4
<1>8. CASE ProfileInformer
  <2>1. /\ UNCHANGED <<stage, uid, owner, spec, profiles, asked>>
        /\ UNCHANGED <<call, copy, fresh, answer, draining, sent, faults>>
        /\ profileWatch # <<>>
        /\ cProfiles' = Head(profileWatch) /\ profileWatch' = Tail(profileWatch)
    BY <1>8 DEF ProfileInformer, callVars, lifeVars
  <2>2. cProfiles' \in Profiles /\ profileWatch' \in Seq(Profiles)
    BY <2>1 DEF RestInv, StoredOK
  <2>3. owner' \in 0 .. uid
    BY <1>2, <2>1 DEF LifeTypeOK
  <2>4. Evolves
    BY <1>5, <2>1, <2>2, <2>3
  <2>5. Outdates
    BY <1>2, <2>1 DEF Outdates, CallsOK
  <2> QED BY <1>1, <2>1, <2>2, <2>4, <2>5
<1> QED
  BY <1>3, <1>4, <1>6, <1>7, <1>8 DEF Environment

\* The invariant holds at first.
LEMMA RestInitially == RestInit => RestInv
<1> SUFFICES ASSUME RestInit PROVE RestInv
  OBVIOUS
<1> USE DEF RestInit, LifeInit
<1>1. StoredOK
  BY DEF StoredOK, LifeTypeOK, Stages, NoScaleLost, Profiles
<1>2. CallsOK
  BY DEF CallsOK
<1>3. AnswersOK
  BY DEF AnswersOK, CreatedOnce, DeletedStaysDeleted, Answered
<1>4. ServerOK
  <2>1. cProfiles \in Profiles /\ draining \in BOOLEAN
    BY DEF Profiles
  <2>2. sent \in 0 .. MaxRequests /\ faults \in 0 .. MaxFaults
    BY ClientBoundsAssumption
  <2> QED BY <2>1, <2>2 DEF ServerOK
<1> QED
  BY <1>1, <1>2, <1>3, <1>4 DEF RestInv

\* And every step preserves it, changing no more of the service than it may.
LEMMA RestStep == RestInv /\ [RestNext]_restVars => RestInv' /\ [OnlyScaled]_restVars
<1> SUFFICES ASSUME RestInv, [RestNext]_restVars PROVE RestInv' /\ [OnlyScaled]_restVars
  OBVIOUS
<1>1. CASE UNCHANGED restVars
  <2>1. /\ UNCHANGED <<stage, uid, owner, spec, profiles, profileWatch, cProfiles>>
        /\ UNCHANGED <<call, copy, fresh, answer, draining, sent, faults, asked>>
    BY <1>1 DEF restVars, storedVars, lifeVars, callVars
  <2>2. StoredOK'
    BY <2>1 DEF RestInv, StoredOK, LifeTypeOK, NoScaleLost, Settled
  <2>3. CallsOK'
    BY <2>1 DEF RestInv, CallsOK, Holds, BadRequest, Body
  <2>4. AnswersOK'
    BY <2>1 DEF RestInv, AnswersOK, CreatedOnce, DeletedStaysDeleted, Answered
  <2>5. ServerOK'
    BY <2>1 DEF RestInv, ServerOK
  <2> QED BY <1>1, <2>2, <2>3, <2>4, <2>5 DEF RestInv
<1>2. CASE RestNext
  <2>1. ASSUME NEW c \in Clients, Handler(c) \/ ApiFails(c) \/ ApiReplyLost(c)
        PROVE  RestInv' /\ OnlyScaled
    BY <2>1, HandlerKinds, ReplyKeeps, ReadKeeps
  <2>2. ASSUME NEW c \in Clients, NEW request \in Requests[c], Accept(c, request)
        PROVE  RestInv' /\ OnlyScaled
    BY <2>2, AcceptKeeps
  <2> QED
    BY <1>2, <2>1, <2>2, ServerKeeps, EnvironmentKeeps DEF RestNext
<1> QED BY <1>1, <1>2

\* The invariant always holds.
LEMMA RestInvariant == RestSpec => []RestInv
<1>1. RestInv /\ [RestNext]_restVars => RestInv'
  BY RestStep
<1> QED
  BY <1>1, RestInitially, PTL DEF RestSpec

-----------------------------------------------------------------------------
\* Handlers, faults and the controller keep the stored objects, the copies and
\* the answers well typed.
THEOREM RestTypes == RestSpec => []RestTypeOK
<1>1. RestInv => RestTypeOK
  BY DEF RestInv, StoredOK, CallsOK, AnswersOK, ServerOK, RestTypeOK
<1> QED BY <1>1, RestInvariant, PTL

\* No PUT loses the replicas another one has stored, however many clients send
\* them and whatever fails between the read and the write of Update.
THEOREM ScalesKept == RestSpec => []NoScaleLost
<1>1. RestInv => NoScaleLost
  BY DEF RestInv, StoredOK
<1> QED BY <1>1, RestInvariant, PTL

\* While a service lives, the REST API changes its replicas and nothing else.
THEOREM ScalesOnly == RestSpec => OnlyScales
<1>1. RestInv /\ [RestNext]_restVars => [OnlyScaled]_restVars
  BY RestStep
<1> QED
  BY <1>1, RestInvariant, PTL DEF RestSpec, OnlyScales, OnlyScaled

\* No two POSTs are told 201 about one service.
THEOREM CreatesOnce == RestSpec => []CreatedOnce
<1>1. RestInv => CreatedOnce
  BY DEF RestInv, AnswersOK
<1> QED BY <1>1, RestInvariant, PTL

\* What a DELETE was answered for is on its way out for good.
THEOREM DeletesForGood == RestSpec => []DeletedStaysDeleted
<1>1. RestInv => DeletedStaysDeleted
  BY DEF RestInv, AnswersOK
<1> QED BY <1>1, RestInvariant, PTL

-----------------------------------------------------------------------------
(***************************************************************************)
(* Profiles.  A PUT that would be accepted is about a profile that is      *)
(* still there, because deleting it outdates what the PUT has read.        *)
(***************************************************************************)
HeldProfiles ==
    \A c \in Clients :
        Serves(c, "UpdateProfile") /\ copy[c] # Nil /\ fresh[c] => Profile(c) # Nil

\* A step leaves alone the profiles of the copies it does not outdate.
SparesHeld ==
    \A c \in Clients :
        fresh'[c] => fresh[c] /\ (Serves(c, "UpdateProfile") =>
                                     profiles'[call[c].name] = Profile(c))

Returns(n) == profiles[n] = Nil /\ profiles'[n] # Nil

ReturnsByCreate ==
    \A n \in ProfileNames : Returns(n) =>
        \E c \in Clients : Serves(c, "CreateProfile") /\ call[c].name = n

\* A step that leaves the profiles alone does so.
LEMMA SparesAll ==
    ASSUME UNCHANGED profiles, \A c \in Clients : fresh'[c] => fresh[c]
    PROVE  SparesHeld /\ ReturnsByCreate
  BY DEF SparesHeld, Profile, ReturnsByCreate, Returns

\* So does a write of one profile, which changes no other.
LEMMA SparesOthers ==
    ASSUME RestInv, NEW name \in ProfileNames, NEW new, PutProfile(name, new)
    PROVE  /\ SparesHeld
           /\ \A n \in ProfileNames : Returns(n) => n = name /\ new # Nil
<1>1. /\ profiles' = [profiles EXCEPT ![name] = new]
      /\ \A c \in Clients :
            fresh'[c] = (fresh[c] /\ ~(new # profiles[name] /\ c \in HandlersOn(name)))
  BY DEF PutProfile, Outdate
<1>2. profiles \in Profiles /\ \A c \in Clients : fresh[c] \in BOOLEAN
  BY DEF RestInv, StoredOK, CallsOK
<1>3. /\ \A n \in ProfileNames : profiles'[n] = IF n = name THEN new ELSE profiles[n]
      /\ DOMAIN profiles = ProfileNames /\ DOMAIN profiles' = ProfileNames
  BY <1>1, <1>2 DEF Profiles
<1>4. ASSUME NEW c \in Clients, fresh'[c]
      PROVE  fresh[c] /\ (Serves(c, "UpdateProfile") =>
                             profiles'[call[c].name] = Profile(c))
  <2>1. fresh[c] /\ ~(new # profiles[name] /\ c \in HandlersOn(name))
    BY <1>1, <1>4
  <2>2. ASSUME Serves(c, "UpdateProfile") PROVE profiles'[call[c].name] = Profile(c)
    <3>1. call[c] # Nil /\ call[c].name \in ProfileNames
      BY <2>2, RequestShape DEF Serves, RestInv, CallsOK, ProfileHandlers
    <3> QED BY <1>3, <2>1, <3>1 DEF HandlersOn, Profile
  <2> QED BY <2>1, <2>2
<1>5. SparesHeld
  BY <1>4 DEF SparesHeld
<1> QED BY <1>3, <1>5 DEF Returns

\* A profile that comes back was written by a POST, since a PUT finds it there.
LEMMA StoresSpares ==
    ASSUME RestInv, HeldProfiles, NEW c \in Clients, Stores(c)
    PROVE  SparesHeld /\ ReturnsByCreate
<1>1. CASE CreateStores(c) \/ UpdateStores(c) \/ DeleteStores(c)
  <2>1. ASSUME NEW new, PutSpec(new)
        PROVE  UNCHANGED profiles /\ \A d \in Clients : fresh'[d] => fresh[d]
    BY <2>1 DEF PutSpec, Outdate
  <2>2. UNCHANGED profiles /\ \A d \in Clients : fresh'[d] => fresh[d]
    BY <1>1, <2>1 DEF CreateStores, UpdateStores, DeleteStores, storedVars
  <2> QED BY <2>2, SparesAll
<1>2. CASE CreateProfileStores(c) \/ UpdateProfileStores(c) \/ DeleteProfileStores(c)
  <2>1. PICK new : /\ PutProfile(call[c].name, new) /\ call[c] # Nil
                   /\ \/ Serves(c, "CreateProfile")
                      \/ Serves(c, "UpdateProfile") /\ copy[c] # Nil /\ fresh[c]
                      \/ Serves(c, "DeleteProfile") /\ new = Nil
    BY <1>2 DEF CreateProfileStores, UpdateProfileStores, DeleteProfileStores, Serves
  <2>2. call[c].name \in ProfileNames
    BY <2>1, RequestShape DEF Serves, RestInv, CallsOK, ProfileHandlers
  <2>3. /\ SparesHeld
        /\ \A n \in ProfileNames : Returns(n) => n = call[c].name /\ new # Nil
    BY <2>1, <2>2, SparesOthers
  <2>4. ASSUME NEW n \in ProfileNames, Returns(n)
        PROVE  Serves(c, "CreateProfile") /\ call[c].name = n
    <3>1. n = call[c].name /\ new # Nil /\ Profile(c) = Nil
      BY <2>3, <2>4 DEF Returns, Profile
    <3> QED BY <2>1, <3>1 DEF HeldProfiles
  <2> QED BY <2>3, <2>4 DEF ReturnsByCreate
<1> QED BY <1>1, <1>2 DEF Stores

\* What one client's step does to the copies of the others.
LEMMA HeldKept ==
    ASSUME HeldProfiles, SparesHeld,
           \A c \in Clients : copy'[c] # Nil => call'[c] = call[c] /\ copy'[c] = copy[c]
    PROVE  HeldProfiles'
  BY DEF HeldProfiles, SparesHeld, Serves, Profile

\* Every step keeps HeldProfiles and brings profiles back only by a POST.
LEMMA HeldStep ==
    ASSUME RestInv, HeldProfiles, [RestNext]_restVars
    PROVE  HeldProfiles' /\ (ReturnsByCreate \/ UNCHANGED restVars)
<1>t. /\ call \in [Clients -> Request \cup {Nil}] /\ copy \in [Clients -> Copies \cup {Nil}]
      /\ fresh \in [Clients -> BOOLEAN]
  BY DEF RestInv, CallsOK
<1>1. ASSUME NEW c \in Clients, NEW code, Replies(c, code)
      PROVE  HeldProfiles' /\ ReturnsByCreate
  <2>1. SparesHeld /\ ReturnsByCreate
    <3>1. CASE NothingStored
      BY <3>1, SparesAll DEF NothingStored, storedVars
    <3>2. CASE Stores(c)
      BY <3>2, StoresSpares
    <3> QED BY <1>1, <3>1, <3>2 DEF Replies
  <2>2. \A d \in Clients : copy'[d] # Nil => call'[d] = call[d] /\ copy'[d] = copy[d]
    BY <1>1, <1>t DEF Replies, Reply
  <2> QED BY <2>1, <2>2, HeldKept
<1>2. ASSUME NEW c \in Clients, Reads(c) PROVE HeldProfiles' /\ ReturnsByCreate
  <2>1. PICK old : /\ Read(c, old)
                   /\ Serves(c, "UpdateProfile") => Profile(c) # Nil
    BY <1>2 DEF Reads, Serves
  <2>2. /\ UNCHANGED <<profiles, call>>
        /\ \A d \in Clients : d # c => copy'[d] = copy[d] /\ fresh'[d] = fresh[d]
    BY <2>1, <1>t DEF Read, storedVars
  <2>3. HeldProfiles'
    BY <2>1, <2>2 DEF HeldProfiles, Serves, Profile
  <2> QED BY <2>2, <2>3 DEF ReturnsByCreate, Returns
<1>3. ASSUME NEW c \in Clients, NEW request, Accept(c, request)
      PROVE  HeldProfiles' /\ ReturnsByCreate
  <2>1. /\ UNCHANGED <<profiles, copy>> /\ ~fresh'[c]
        /\ \A d \in Clients : d # c => call'[d] = call[d] /\ fresh'[d] = fresh[d]
    BY <1>3, <1>t DEF Accept, storedVars
  <2>2. HeldProfiles'
    BY <2>1 DEF HeldProfiles, Serves, Profile
  <2> QED BY <2>1, <2>2 DEF ReturnsByCreate, Returns
<1>4. CASE Shutdown \/ Stopped \/ Environment \/ UNCHANGED restVars
  <2>1. /\ UNCHANGED <<profiles, call, copy>>
        /\ \A c \in Clients : fresh'[c] => fresh[c]
    BY <1>4, <1>t DEF Shutdown, Stopped, Relist, Environment, ControllerGuards,
       ControllerReleases, ControllerWritesStatus, GroupChanges, ProfileInformer, PutSpec,
       Outdate, OthersLeaveAlone, storedVars, callVars, restVars
  <2> QED BY <2>1, SparesAll, HeldKept
<1>5. CASE GraceExpires \/ Crash
  <2>1. UNCHANGED profiles /\ \A c \in Clients : copy'[c] = Nil
    BY <1>5 DEF GraceExpires, Crash, EndCalls, Relist
  <2> QED BY <2>1 DEF HeldProfiles, ReturnsByCreate, Returns
<1> QED
  BY <1>1, <1>2, <1>3, <1>4, <1>5, HandlerKinds DEF RestNext

\* A deleted profile comes back only by a POST: no PUT that had read it before
\* stores it again, whatever fails between its read and its write.
THEOREM ProfilesReturn == RestSpec => ProfilesReturnByCreate
<1>1. RestInit => HeldProfiles
  BY DEF RestInit, HeldProfiles
<1>2. RestInv /\ HeldProfiles /\ [RestNext]_restVars =>
        HeldProfiles' /\ (ReturnsByCreate \/ UNCHANGED restVars)
  BY HeldStep
<1>3. ReturnsByCreate \/ UNCHANGED restVars =>
        [\A n \in ProfileNames : profiles[n] = Nil /\ profiles'[n] # Nil =>
           \E c \in Clients : Serves(c, "CreateProfile") /\ call[c].name = n]_restVars
  BY DEF ReturnsByCreate, Returns
<1> QED
  BY <1>1, <1>2, <1>3, RestInvariant, PTL DEF RestSpec, ProfilesReturnByCreate
=============================================================================
