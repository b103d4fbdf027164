------------------------- MODULE ApiRequestsProofs -------------------------
(***************************************************************************)
(* Proofs about ApiRequests, for every finite set of requests, every set   *)
(* of users and every bound.                                               *)
(***************************************************************************)
EXTENDS ApiRequests, FiniteSetTheorems, TLAPS

-----------------------------------------------------------------------------
(* The inductive invariant.                                                *)

\* What a request's stage says of its fields.
StageFor(r) ==
  /\ At(r, "insert") => req[r].op = "create"
  /\ req[r].at \in {"refresh", "revoke"} => req[r].key \in 1..lastKey
  /\ At(r, "role") => req[r].name \in User
  /\ At(r, "new") => ~req[r].passed
  /\ ~At(r, "done") => req[r].status = 0

Stages == \A r \in Request : StageFor(r)

\* There is an id for each request that will insert one.
Reserved == lastKey + Cardinality(Creating) <= MaxKeys

\* A revoked key is never active again, and a request remembers keys revoked by then.
RevokedForGood ==
  /\ active \cap revoked = {}
  /\ \A r \in Request : barred[r] \subseteq revoked

IInv ==
  /\ TypeOK
  /\ Stages
  /\ Reserved
  /\ RevokedForGood
  /\ RevokedStaysOut
  /\ OrphansAreFailures
  /\ LoggedOnce

-----------------------------------------------------------------------------
(* What a step of one request may do.                                      *)

\* Another insertion fits: its request is one of those counted.
LEMMA Room ==
  ASSUME TypeOK, Stages, Reserved, NEW r \in Request, At(r, "insert")
  PROVE  NextId \in Id
  <1>1. r \in Creating  BY DEF Stages, StageFor, At, Creating
  <1>2. IsFiniteSet(Creating)
    BY RequestAssumption, FS_Subset DEF Creating
  <1>3. Cardinality(Creating) \in Nat /\ Cardinality(Creating) # 0
    BY <1>1, <1>2, FS_CardinalityType, FS_EmptySet
  <1> QED BY <1>3, BoundsAssumption DEF Reserved, NextId, Id, TypeOK

LEMMA Ended ==
  ASSUME NEW q \in RequestRecord, NEW code \in Code
  PROVE  [q EXCEPT !.at = "done", !.status = code] \in RequestRecord
  BY DEF RequestRecord, Stage

\* The record of one request changes, and no other.
OnlyOf(r) ==
  /\ req' \in [Request -> RequestRecord]
  /\ lines' \in [Request -> Seq(Line)]
  /\ \A s \in Request \ {r} : req'[s] = req[s] /\ lines'[s] = lines[s]

LEMMA EndsOnly ==
  ASSUME TypeOK, NEW r \in Request, NEW code \in Code, NEW line \in Line,
         req' = [req EXCEPT ![r].at = "done", ![r].status = code],
         lines' = [lines EXCEPT ![r] = Append(lines[r], line)]
  PROVE  OnlyOf(r)
  <1>1. req \in [Request -> RequestRecord] /\ lines \in [Request -> Seq(Line)]
    BY DEF TypeOK
  <1>2. req' = [req EXCEPT ![r] = [req[r] EXCEPT !.at = "done", !.status = code]]
    BY <1>1
  <1>3. req' \in [Request -> RequestRecord]
    <2>1. req[r] \in RequestRecord  BY <1>1
    <2>2. [req[r] EXCEPT !.at = "done", !.status = code] \in RequestRecord  BY <2>1, Ended
    <2> QED BY <1>1, <1>2, <2>2
  <1>4. Append(lines[r], line) \in Seq(Line)  BY <1>1
  <1> QED BY <1>1, <1>2, <1>3, <1>4 DEF OnlyOf

LEMMA OneRecord ==
  ASSUME TypeOK, Stages, Reserved, NEW r \in Request, Arrive(r) \/ Handle(r) \/ Fault(r)
  PROVE  OnlyOf(r)
  <1>1. req \in [Request -> RequestRecord] /\ lines \in [Request -> Seq(Line)]
    BY DEF TypeOK
  <1>2. ASSUME NEW code \in Code, Answer(r, code) PROVE OnlyOf(r)
    BY <1>2, EndsOnly DEF Answer, Completed, Line
  <1>3. ASSUME Raise(r) PROVE OnlyOf(r)
    <2>1. 500 \in Code  BY DEF Code
    <2>2. [event |-> "failed", id |-> "own"] \in Line  BY DEF Line
    <2> QED BY <1>3, <2>1, <2>2, EndsOnly DEF Raise, Failed
  <1>4. ASSUME NEW stage \in Stage, MoveTo(r, stage) PROVE OnlyOf(r)
    BY <1>1, <1>4 DEF MoveTo, RequestRecord, OnlyOf
  <1>5. CASE Arrive(r)
    <2>1. lines' = lines  BY <1>5 DEF Arrive
    <2>2. CASE req' = [req EXCEPT ![r].at = "done", ![r].status = 429]
      <3>1. [req[r] EXCEPT !.at = "done", !.status = 429] \in RequestRecord
        <4>1. 429 \in Code /\ req[r] \in RequestRecord  BY <1>1 DEF Code
        <4> QED BY <4>1, Ended
      <3> QED BY <1>1, <2>1, <2>2, <3>1 DEF OnlyOf
    <2>3. ASSUME NEW name \in User \cup {NewName},
                 req' = [req EXCEPT ![r].name = name, ![r].at = "login"]
          PROVE  OnlyOf(r)
      BY <1>1, <2>1, <2>3 DEF RequestRecord, Stage, InHandler, OnlyOf
    <2>4. ASSUME NEW op \in Operation \ {"login"}, NEW cred \in Credential,
                 NEW name \in User \cup {NewName}, NEW key \in 0..MaxKeys,
                 req' = [req EXCEPT ![r] = [Unsent EXCEPT !.op = op, !.cred = cred, !.name = name,
                                            !.key = key, !.at = "auth"]]
          PROVE  OnlyOf(r)
      <3>1. [Unsent EXCEPT !.op = op, !.cred = cred, !.name = name, !.key = key, !.at = "auth"]
              \in RequestRecord
        BY <2>4 DEF Unsent, RequestRecord, Stage, InHandler, Code, Operation
      <3> QED BY <1>1, <2>1, <2>4, <3>1 DEF OnlyOf
    <2> QED BY <1>5, <2>2, <2>3, <2>4 DEF Arrive
  <1>6. CASE Authorize(r)
    <2>1. CASE Answer(r, 401) \/ Answer(r, 403)  BY <1>2, <2>1 DEF Code
    <2>2. CASE /\ req' = [req EXCEPT ![r].at = First(req[r].op), ![r].passed = TRUE]
               /\ lines' = lines
      <3>1. First(req[r].op) \in Stage  BY DEF First, Stage, InHandler
      <3> QED BY <1>1, <2>2, <3>1 DEF RequestRecord, OnlyOf
    <2> QED BY <1>6, <2>1, <2>2 DEF Authorize
  <1>7. CASE Login(r) \/ RegisterCheck(r) \/ RevokeRead(r)
    BY <1>2, <1>4, <1>7 DEF Login, RegisterCheck, RevokeRead, Stage, InHandler, Code
  <1>8. CASE LoginRole(r) \/ RefreshKey(r) \/ Whoami(r) \/ RevokeKey(r)
    BY <1>2, <1>8 DEF LoginRole, RefreshKey, Whoami, RevokeKey, Code
  <1>9. CASE RegisterCreate(r) \/ Fault(r)
    BY <1>3, <1>9 DEF RegisterCreate, Fault
  <1>10. CASE CreateKey(r)
    <2>1. NextId \in 0..MaxKeys  BY <1>10, Room DEF CreateKey, Id
    <2> QED BY <1>1, <1>10, <2>1 DEF CreateKey, RequestRecord, Stage, InHandler, OnlyOf
  <1> QED BY <1>5, <1>6, <1>7, <1>8, <1>9, <1>10 DEF Handle

\* What becomes of the keys.
KeyChange(r) ==
  \/ UNCHANGED keys /\ revoked' = revoked
  \/ /\ At(r, "insert")
     /\ InsertKey
     /\ revoked' = revoked
  \/ /\ At(r, "revoke")
     /\ active' = active \ {req[r].key}
     /\ UNCHANGED <<lastKey, keyRole>>
     /\ revoked' \in {revoked, revoked \cup {req[r].key}}

LEMMA KeysChange ==
  ASSUME NEW r \in Request, Arrive(r) \/ Handle(r) \/ Fault(r)
  PROVE  KeyChange(r)
  BY DEF Handle, Arrive, Authorize, Login, LoginRole, RegisterCheck, RegisterCreate, Whoami,
     CreateKey, RefreshKey, RevokeRead, RevokeKey, Fault, Deactivated, KeyChange, keys, history

LEMMA KeysTyped ==
  ASSUME TypeOK, Stages, Reserved, NEW r \in Request, KeyChange(r)
  PROVE  /\ lastKey' \in 0..MaxKeys
         /\ lastKey' >= lastKey
         /\ active' \subseteq 1..lastKey'
         /\ keyRole' \in [Id -> Role]
         /\ revoked' \subseteq 1..lastKey'
  <1>1. CASE UNCHANGED keys /\ revoked' = revoked
    BY <1>1 DEF TypeOK, keys
  <1>2. CASE At(r, "insert") /\ InsertKey /\ revoked' = revoked
    <2>1. NextId \in Id  BY <1>2, Room
    <2> QED BY <1>2, <2>1 DEF TypeOK, InsertKey, NextId, Id
  <1>3. CASE /\ At(r, "revoke")
             /\ active' = active \ {req[r].key}
             /\ UNCHANGED <<lastKey, keyRole>>
             /\ revoked' \in {revoked, revoked \cup {req[r].key}}
    <2>1. req[r].key \in 1..lastKey  BY <1>3 DEF Stages, StageFor, At
    <2>2. lastKey' = lastKey /\ keyRole' = keyRole  BY <1>3
    <2>3. active' \subseteq 1..lastKey  BY <1>3 DEF TypeOK
    <2>4. revoked' \subseteq 1..lastKey  BY <1>3, <2>1 DEF TypeOK
    <2>5. lastKey \in 0..MaxKeys /\ keyRole \in [Id -> Role]  BY DEF TypeOK
    <2> QED BY <2>2, <2>3, <2>4, <2>5
  <1> QED BY <1>1, <1>2, <1>3 DEF KeyChange

LEMMA NextType ==
  ASSUME TypeOK, Stages, Reserved, [Next]_vars
  PROVE  TypeOK' /\ lastKey' >= lastKey
  <1>1. CASE UNCHANGED vars
    BY <1>1 DEF TypeOK, vars, users, keys, history, budget
  <1>2. CASE Kill
    <2>1. req' \in [Request -> RequestRecord]
      <3>1. \A r \in Request : [req[r] EXCEPT !.at = "done"] \in RequestRecord
        BY DEF TypeOK, RequestRecord, Stage
      <3> QED BY <1>2, <3>1 DEF Kill, TypeOK
    <2> QED BY <1>2, <2>1, BoundsAssumption DEF Kill, TypeOK, users, keys, history
  <1>3. ASSUME NEW u \in User, Expire(u) PROVE TypeOK' /\ lastKey' >= lastKey
    BY <1>3 DEF Expire, TypeOK, users, keys, history, budget
  <1>4. ASSUME NEW r \in Request, Arrive(r) \/ Handle(r) \/ Fault(r)
        PROVE  TypeOK' /\ lastKey' >= lastKey
    <2>1. req' \in [Request -> RequestRecord] /\ lines' \in [Request -> Seq(Line)]
      BY <1>4, OneRecord DEF OnlyOf
    <2>2. /\ lastKey' \in 0..MaxKeys
          /\ lastKey' >= lastKey
          /\ active' \subseteq 1..lastKey'
          /\ keyRole' \in [Id -> Role]
          /\ revoked' \subseteq 1..lastKey'
      BY <1>4, KeysChange, KeysTyped
    <2>3. role' \in [User -> Role] /\ enabled' \subseteq User
      BY <1>4 DEF Handle, Arrive, Authorize, Login, LoginRole, RegisterCheck, RegisterCreate,
         Whoami, CreateKey, RefreshKey, RevokeRead, RevokeKey, Fault, TypeOK, users
    <2>4. tokens' \subseteq User
      <3>1. At(r, "role") => req[r].name \in User  BY DEF Stages, StageFor
      <3> QED BY <1>4, <3>1 DEF Handle, Arrive, Authorize, Login, LoginRole, RegisterCheck,
         RegisterCreate, Whoami, CreateKey, RefreshKey, RevokeRead, RevokeKey, Fault, TypeOK
    <2>5. shown' \subseteq 1..lastKey'
      <3>1. At(r, "refresh") => req[r].key \in 1..lastKey  BY DEF Stages, StageFor, At
      <3>2. shown' = shown \/ (At(r, "refresh") /\ shown' = shown \cup {req[r].key})
        BY <1>4 DEF Handle, Arrive, Authorize, Login, LoginRole, RegisterCheck, RegisterCreate,
           Whoami, CreateKey, RefreshKey, ShownAfter, RevokeRead, RevokeKey, Fault
      <3>3. shown \subseteq 1..lastKey /\ lastKey \in Nat /\ lastKey' \in Nat
        BY <2>2 DEF TypeOK
      <3>4. 1..lastKey \subseteq 1..lastKey'  BY <2>2, <3>3
      <3> QED BY <3>1, <3>2, <3>3, <3>4
    <2>6. barred' \in [Request -> SUBSET Id]
      <3>1. revoked \subseteq Id  BY BoundsAssumption DEF TypeOK, Id
      <3> QED BY <1>4, <3>1 DEF Handle, Arrive, Authorize, Login, LoginRole, RegisterCheck,
         RegisterCreate, Whoami, CreateKey, RefreshKey, RevokeRead, RevokeKey, Fault, TypeOK,
         history
    <2>7. faults' \in 0..MaxFaults /\ stops' \in 0..MaxStops
      <3>1. CASE Fault(r)
        BY <3>1, BoundsAssumption DEF Fault, SpendFault, TypeOK
      <3>2. CASE Arrive(r) \/ Handle(r)
        <4>1. UNCHANGED budget
          BY <3>2 DEF Handle, Arrive, Authorize, Login, LoginRole, RegisterCheck, RegisterCreate,
             Whoami, CreateKey, RefreshKey, RevokeRead, RevokeKey
        <4> QED BY <4>1 DEF budget, TypeOK
      <3> QED BY <1>4, <3>1, <3>2
    <2> QED BY <2>1, <2>2, <2>3, <2>4, <2>5, <2>6, <2>7 DEF TypeOK
  <1> QED BY <1>1, <1>2, <1>3, <1>4 DEF Next

-----------------------------------------------------------------------------
(* The parts of the invariant, step by step.                               *)

\* A request that ends leaves a record that says nothing of its stage.
LEMMA EndStage ==
  ASSUME TypeOK, NEW r \in Request, req'[r].at = "done"
  PROVE  StageFor(r)'
  BY DEF StageFor, At

LEMMA StageStep ==
  ASSUME TypeOK, Stages, Reserved, [Next]_vars
  PROVE  Stages'
  <1>1. CASE UNCHANGED vars
    BY <1>1 DEF Stages, StageFor, At, vars, keys
  <1>2. CASE Kill
    <2> SUFFICES ASSUME NEW r \in Request PROVE StageFor(r)'  BY DEF Stages
    <2>1. CASE req[r].at = "new"
      BY <1>2, <2>1 DEF Kill, keys, TypeOK, Stages, StageFor, At
    <2>2. CASE req[r].at # "new"
      <3>1. req'[r].at = "done"  BY <1>2, <2>2 DEF Kill, TypeOK, RequestRecord
      <3> QED BY <3>1, EndStage
    <2> QED BY <2>1, <2>2
  <1>3. ASSUME NEW u \in User, Expire(u) PROVE Stages'
    BY <1>3 DEF Expire, keys, Stages, StageFor, At
  <1>4. ASSUME NEW r \in Request, Arrive(r) \/ Handle(r) \/ Fault(r)
        PROVE  Stages'
    <2>0. OnlyOf(r) /\ lastKey' >= lastKey /\ lastKey \in Nat /\ lastKey' \in Nat
      <3>1. lastKey \in 0..MaxKeys /\ lastKey' \in 0..MaxKeys
        BY <1>4, KeysChange, KeysTyped DEF TypeOK
      <3> QED BY <1>4, <3>1, OneRecord, KeysChange, KeysTyped
    <2>1. ASSUME NEW s \in Request, s # r PROVE StageFor(s)'
      BY <2>0, <2>1 DEF OnlyOf, Stages, StageFor, At
    <2> SUFFICES StageFor(r)'  BY <2>1 DEF Stages
    <2>2. req[r] \in RequestRecord /\ StageFor(r)  BY DEF TypeOK, Stages
    <2>3. ASSUME \/ \E code \in Code : Answer(r, code)
                 \/ Raise(r)
          PROVE  StageFor(r)'
      <3>1. req'[r].at = "done"  BY <2>2, <2>3 DEF Answer, Raise, TypeOK, RequestRecord
      <3> QED BY <3>1, EndStage
    <2>4. CASE Arrive(r)
      <3>1. CASE req' = [req EXCEPT ![r].at = "done", ![r].status = 429]
        <4>1. req'[r].at = "done"  BY <2>2, <3>1 DEF TypeOK, RequestRecord
        <4> QED BY <4>1, EndStage
      <3>2. ASSUME NEW name \in User \cup {NewName},
                   req' = [req EXCEPT ![r].name = name, ![r].at = "login"]
            PROVE  StageFor(r)'
        <4>1. req'[r].at = "login" /\ req'[r].status = req[r].status
          BY <2>2, <3>2 DEF TypeOK, RequestRecord
        <4> QED BY <2>2, <2>4, <4>1 DEF StageFor, At, Arrive
      <3>3. ASSUME NEW op \in Operation \ {"login"}, NEW cred \in Credential,
                   NEW name \in User \cup {NewName}, NEW key \in 0..MaxKeys,
                   req' = [req EXCEPT ![r] = [Unsent EXCEPT !.op = op, !.cred = cred,
                                              !.name = name, !.key = key, !.at = "auth"]]
            PROVE  StageFor(r)'
        <4>1. req'[r].at = "auth" /\ req'[r].status = 0
          BY <3>3 DEF TypeOK, Unsent
        <4> QED BY <4>1 DEF StageFor, At
      <3> QED BY <2>4, <3>1, <3>2, <3>3 DEF Arrive
    <2>5. CASE Authorize(r)
      <3>1. CASE Answer(r, 401) \/ Answer(r, 403)  BY <2>3, <3>1 DEF Code
      <3>2. CASE /\ req' = [req EXCEPT ![r].at = First(req[r].op), ![r].passed = TRUE]
                 /\ At(r, "auth")
        <4>1. /\ req'[r].at = First(req[r].op)
              /\ req'[r].status = req[r].status /\ req'[r].op = req[r].op
          BY <2>2, <3>2 DEF TypeOK, RequestRecord
        <4>2. /\ First(req[r].op) \in {"register", "me", "insert", "read"}
              /\ First(req[r].op) = "insert" => req[r].op = "create"
          BY DEF First
        <4> QED BY <2>2, <3>2, <4>1, <4>2 DEF StageFor, At
      <3> QED BY <2>5, <3>1, <3>2 DEF Authorize
    <2>6. CASE Login(r) \/ RegisterCheck(r) \/ RevokeRead(r)
      <3>1. \/ \E code \in Code : Answer(r, code)
            \/ MoveTo(r, "role") /\ At(r, "login") /\ req[r].name \in enabled
            \/ MoveTo(r, "roleid") /\ At(r, "register")
            \/ MoveTo(r, "revoke") /\ At(r, "read") /\ req[r].key \in 1..lastKey
        BY <2>6 DEF Login, RegisterCheck, RevokeRead, Code
      <3>2. ASSUME NEW stage \in {"role", "roleid", "revoke"}, MoveTo(r, stage)
            PROVE  /\ req'[r].at = stage /\ req'[r].status = req[r].status
                   /\ req'[r].name = req[r].name /\ req'[r].key = req[r].key
        BY <2>2, <3>2 DEF MoveTo, TypeOK, RequestRecord
      <3> QED BY <2>0, <2>2, <2>3, <3>1, <3>2 DEF StageFor, At, TypeOK
    <2>7. CASE LoginRole(r) \/ RefreshKey(r) \/ Whoami(r) \/ RevokeKey(r)
      BY <2>3, <2>7 DEF LoginRole, RefreshKey, Whoami, RevokeKey, Code
    <2>8. CASE RegisterCreate(r) \/ Fault(r)  BY <2>3, <2>8 DEF RegisterCreate, Fault
    <2>9. CASE CreateKey(r)
      <3>1. req'[r].at = "refresh" /\ req'[r].key = lastKey' /\ req'[r].status = req[r].status
        BY <2>2, <2>9 DEF CreateKey, InsertKey, NextId, TypeOK, RequestRecord
      <3>2. lastKey' \in 1..lastKey'  BY <2>0, <2>9 DEF CreateKey, InsertKey, NextId
      <3> QED BY <2>2, <2>9, <3>1, <3>2 DEF StageFor, At, CreateKey
    <2> QED BY <1>4, <2>4, <2>5, <2>6, <2>7, <2>8, <2>9 DEF Handle
  <1> QED BY <1>1, <1>2, <1>3, <1>4 DEF Next

\* A handler's step, or a failure of its statement, from the outside.
OwnChange(r) ==
  /\ req'[r].op = req[r].op /\ req'[r].cred = req[r].cred
  /\ req[r].at \notin {"new", "done"} /\ req'[r].at \notin {"new", "auth"}
  /\ req'[r].at = "insert" => req[r].at = "auth"
  /\ req'[r].at = "refresh" => At(r, "insert") /\ InsertKey /\ req'[r].key = NextId
  /\ req'[r].passed => req[r].passed \/ (At(r, "auth") /\ Authenticates(req[r].cred))
  /\ barred' = barred
  /\ \/ req'[r].at # "done" /\ req'[r].status = req[r].status /\ lines'[r] = lines[r]
     \/ /\ req'[r].status \in Code \ {0, 429, 500}
        /\ lines'[r] = Append(lines[r], [event |-> "completed", id |-> "-"])
     \/ /\ req'[r].status = 500
        /\ lines'[r] = Append(lines[r], [event |-> "failed", id |-> "own"])

LEMMA OwnChanges ==
  ASSUME TypeOK, NEW r \in Request, Handle(r) \/ Fault(r)
  PROVE  OwnChange(r)
  <1>1. /\ req \in [Request -> RequestRecord] /\ req[r] \in RequestRecord
        /\ lines \in [Request -> Seq(Line)]
    BY DEF TypeOK
  <1>2. barred' = barred
    BY DEF Handle, Authorize, Login, LoginRole, RegisterCheck, RegisterCreate, Whoami,
       CreateKey, RefreshKey, RevokeRead, RevokeKey, Fault, history
  <1>3. ASSUME req[r].at \notin {"new", "done"},
               (\E code \in Code \ {0, 429, 500} : Answer(r, code)) \/ Raise(r)
        PROVE  OwnChange(r)
    <2>1. /\ req'[r].op = req[r].op /\ req'[r].cred = req[r].cred
          /\ req'[r].at = "done" /\ req'[r].passed = req[r].passed
      BY <1>1, <1>3 DEF Answer, Raise, RequestRecord
    <2>2. CASE Raise(r)
      <3>1. /\ req'[r].status = 500
            /\ lines'[r] = Append(lines[r], [event |-> "failed", id |-> "own"])
        BY <1>1, <2>2 DEF Raise, Failed, RequestRecord
      <3> QED BY <1>2, <1>3, <2>1, <3>1 DEF OwnChange
    <2>3. ASSUME NEW code \in Code \ {0, 429, 500}, Answer(r, code)
          PROVE  OwnChange(r)
      <3>1. /\ req'[r].status = code
            /\ lines'[r] = Append(lines[r], [event |-> "completed", id |-> "-"])
        BY <1>1, <2>3 DEF Answer, Completed, RequestRecord
      <3> QED BY <1>2, <1>3, <2>1, <3>1 DEF OwnChange
    <2> QED BY <1>3, <2>2, <2>3
  <1>4. ASSUME NEW stage \in {"role", "roleid", "revoke"}, MoveTo(r, stage),
               req[r].at \notin {"new", "done"}
        PROVE  OwnChange(r)
    <2>1. /\ req'[r].op = req[r].op /\ req'[r].cred = req[r].cred
          /\ req'[r].at = stage /\ req'[r].passed = req[r].passed
          /\ req'[r].status = req[r].status /\ lines'[r] = lines[r]
      BY <1>1, <1>4 DEF MoveTo, RequestRecord
    <2> QED BY <1>2, <1>4, <2>1 DEF OwnChange
  <1>5. CASE Authorize(r)
    <2>1. CASE Answer(r, 401) \/ Answer(r, 403)
      BY <1>3, <1>5, <2>1 DEF Authorize, At, Code
    <2>2. CASE /\ Authenticates(req[r].cred)
               /\ req' = [req EXCEPT ![r].at = First(req[r].op), ![r].passed = TRUE]
               /\ lines' = lines
      <3>1. /\ req'[r].op = req[r].op /\ req'[r].cred = req[r].cred
            /\ req'[r].at = First(req[r].op) /\ req'[r].status = req[r].status
        BY <1>1, <2>2 DEF RequestRecord
      <3>2. First(req[r].op) \in {"register", "me", "insert", "read"}  BY DEF First
      <3> QED BY <1>2, <1>5, <2>2, <3>1, <3>2 DEF OwnChange, Authorize, At
    <2> QED BY <1>5, <2>1, <2>2 DEF Authorize
  <1>6. CASE Login(r) \/ RegisterCheck(r) \/ RevokeRead(r)
    BY <1>3, <1>4, <1>6 DEF Login, RegisterCheck, RevokeRead, At, Code
  <1>7. CASE LoginRole(r) \/ RefreshKey(r) \/ Whoami(r) \/ RevokeKey(r)
    BY <1>3, <1>7 DEF LoginRole, RefreshKey, Whoami, RevokeKey, At, Code
  <1>8. CASE RegisterCreate(r)  BY <1>3, <1>8 DEF RegisterCreate, At
  <1>9. CASE Fault(r)  BY <1>3, <1>9 DEF Fault, UsesDatabase, At, InHandler
  <1>10. CASE CreateKey(r)
    <2>1. /\ req'[r].op = req[r].op /\ req'[r].cred = req[r].cred
          /\ req'[r].at = "refresh" /\ req'[r].passed = req[r].passed
          /\ req'[r].status = req[r].status /\ lines'[r] = lines[r]
          /\ req'[r].key = NextId
      BY <1>1, <1>10 DEF CreateKey, RequestRecord
    <2> QED BY <1>2, <1>10, <2>1 DEF OwnChange, CreateKey, At
  <1> QED BY <1>5, <1>6, <1>7, <1>8, <1>9, <1>10 DEF Handle

LEMMA ReserveStep ==
  ASSUME TypeOK, Stages, Reserved, [Next]_vars
  PROVE  Reserved'
  <1>0. IsFiniteSet(Creating) /\ lastKey \in Nat
    BY RequestAssumption, FS_Subset DEF Creating, TypeOK
  <1>1. ASSUME lastKey' = lastKey, Creating' \subseteq Creating
        PROVE  Reserved'
    <2>1. Cardinality(Creating') <= Cardinality(Creating)
      BY <1>0, <1>1, FS_Subset
    <2>2. Cardinality(Creating') \in Nat /\ Cardinality(Creating) \in Nat
      BY <1>0, <1>1, FS_Subset, FS_CardinalityType
    <2> QED BY <1>0, <1>1, <2>1, <2>2, BoundsAssumption DEF Reserved
  <1>2. CASE UNCHANGED vars  BY <1>1, <1>2 DEF vars, keys, Creating
  <1>3. CASE Kill
    <2>1. Creating' \subseteq Creating  BY <1>3 DEF Kill, Creating, TypeOK, RequestRecord
    <2> QED BY <1>1, <1>3, <2>1 DEF Kill, keys
  <1>4. ASSUME NEW u \in User, Expire(u) PROVE Reserved'
    BY <1>1, <1>4 DEF Expire, keys, Creating
  <1>5. ASSUME NEW r \in Request, Arrive(r) PROVE Reserved'
    <2>1. OnlyOf(r) /\ lastKey' = lastKey  BY <1>5, OneRecord DEF Arrive, keys
    <2>2. CASE r \notin Creating'
      BY <1>1, <2>1, <2>2 DEF OnlyOf, Creating
    <2>3. CASE r \in Creating'
      <3>1. KeyLeft
        <4>0. req \in [Request -> RequestRecord] /\ req[r] \in RequestRecord  BY DEF TypeOK
        <4>1. req'[r].op = "create" /\ req'[r].at \in {"auth", "insert"}
          BY <2>3 DEF Creating
        <4>2. req' # [req EXCEPT ![r].at = "done", ![r].status = 429]
          BY <4>0, <4>1 DEF RequestRecord
        <4>3. \A name : req' # [req EXCEPT ![r].name = name, ![r].at = "login"]
          BY <4>0, <4>1 DEF RequestRecord
        <4>4. ASSUME NEW op \in Operation \ {"login"}, NEW cred, NEW name, NEW key,
                     op = "create" => KeyLeft,
                     req' = [req EXCEPT ![r] = [Unsent EXCEPT !.op = op, !.cred = cred,
                                                !.name = name, !.key = key, !.at = "auth"]]
              PROVE  KeyLeft
          <5>1. req'[r].op = op  BY <4>0, <4>4 DEF Unsent
          <5> QED BY <4>1, <4>4, <5>1
        <4> QED BY <1>5, <4>2, <4>3, <4>4 DEF Arrive
      <3>2. Creating' \subseteq Creating \cup {r}  BY <2>1 DEF OnlyOf, Creating
      <3>3. /\ IsFiniteSet(Creating \cup {r})
            /\ Cardinality(Creating \cup {r}) <= Cardinality(Creating) + 1
            /\ Cardinality(Creating) \in Nat
        BY <1>0, FS_AddElement, FS_CardinalityType
      <3>4. /\ Cardinality(Creating') <= Cardinality(Creating \cup {r})
            /\ Cardinality(Creating') \in Nat /\ Cardinality(Creating \cup {r}) \in Nat
        BY <3>2, <3>3, FS_Subset, FS_CardinalityType
      <3> QED BY <1>0, <2>1, <3>1, <3>3, <3>4, BoundsAssumption DEF Reserved, KeyLeft
    <2> QED BY <2>2, <2>3
  <1>6. ASSUME NEW r \in Request, Handle(r) \/ Fault(r) PROVE Reserved'
    <2>1. OnlyOf(r) /\ OwnChange(r) /\ KeyChange(r)
      BY <1>6, OneRecord, OwnChanges, KeysChange
    <2>2. Creating' \subseteq Creating
      BY <2>1 DEF OnlyOf, OwnChange, Creating
    <2>3. CASE lastKey' = lastKey  BY <1>1, <2>2, <2>3
    <2>4. CASE At(r, "insert") /\ InsertKey
      <3>1. r \in Creating  BY <2>4 DEF Creating, Stages, StageFor, At
      <3>2. r \notin Creating'  BY <2>1, <2>4 DEF Creating, OwnChange, At
      <3>3. /\ IsFiniteSet(Creating \ {r}) /\ Cardinality(Creating) \in Nat
            /\ Cardinality(Creating \ {r}) = Cardinality(Creating) - 1
        BY <1>0, <3>1, FS_RemoveElement, FS_CardinalityType
      <3>4. Creating' \subseteq Creating \ {r}  BY <2>2, <3>2
      <3>5. /\ Cardinality(Creating') <= Cardinality(Creating \ {r})
            /\ Cardinality(Creating') \in Nat
        BY <3>3, <3>4, FS_Subset, FS_CardinalityType
      <3> QED BY <1>0, <2>4, <3>3, <3>5, BoundsAssumption DEF Reserved, InsertKey, NextId
    <2> QED BY <2>1, <2>3, <2>4 DEF KeyChange, keys
  <1> QED BY <1>2, <1>3, <1>4, <1>5, <1>6 DEF Next

\* A new id was never revoked, and what is revoked leaves `active` with it.
LEMMA KeysForGood ==
  ASSUME TypeOK, RevokedForGood, NEW r \in Request, KeyChange(r)
  PROVE  active' \cap revoked' = {} /\ revoked \subseteq revoked'
  <1>1. lastKey \in Nat /\ NextId \notin 1..lastKey /\ revoked \subseteq 1..lastKey
    BY DEF TypeOK, NextId
  <1>2. CASE UNCHANGED keys /\ revoked' = revoked
    BY <1>2 DEF keys, RevokedForGood
  <1>3. CASE At(r, "insert") /\ InsertKey /\ revoked' = revoked
    BY <1>1, <1>3 DEF InsertKey, RevokedForGood
  <1>4. CASE /\ active' = active \ {req[r].key}
             /\ revoked' \in {revoked, revoked \cup {req[r].key}}
    BY <1>4 DEF RevokedForGood
  <1> QED BY <1>2, <1>3, <1>4 DEF KeyChange

LEMMA RevokedStep ==
  ASSUME TypeOK, Stages, Reserved, RevokedForGood, RevokedStaysOut, [Next]_vars
  PROVE  RevokedForGood' /\ RevokedStaysOut'
  <1>1. CASE UNCHANGED vars
    BY <1>1 DEF vars, keys, history, RevokedForGood, RevokedStaysOut
  <1>2. CASE Kill
    <2>1. \A r \in Request : req'[r].passed = req[r].passed /\ req'[r].cred = req[r].cred
      BY <1>2 DEF Kill, TypeOK, RequestRecord
    <2> QED BY <1>2, <2>1 DEF Kill, keys, history, RevokedForGood, RevokedStaysOut
  <1>3. ASSUME NEW u \in User, Expire(u) PROVE RevokedForGood' /\ RevokedStaysOut'
    BY <1>3 DEF Expire, keys, history, RevokedForGood, RevokedStaysOut
  <1>4. ASSUME NEW r \in Request, Arrive(r) PROVE RevokedForGood' /\ RevokedStaysOut'
    <2>1. OnlyOf(r) /\ UNCHANGED keys /\ revoked' = revoked
          /\ barred' = [barred EXCEPT ![r] = revoked]
      BY <1>4, OneRecord DEF Arrive
    <2>2. RevokedForGood'
      BY <2>1 DEF RevokedForGood, keys, TypeOK
    <2> DEFINE fresh == ~req'[r].passed
    <2>3. fresh
      <3>0. req \in [Request -> RequestRecord] /\ req[r] \in RequestRecord  BY DEF TypeOK
      <3>1. ~req[r].passed  BY <1>4 DEF Arrive, Stages, StageFor
      <3>2. CASE req' = [req EXCEPT ![r].at = "done", ![r].status = 429]
        BY <3>0, <3>1, <3>2 DEF RequestRecord
      <3>3. ASSUME NEW name, req' = [req EXCEPT ![r].name = name, ![r].at = "login"]
            PROVE  fresh
        BY <3>0, <3>1, <3>3 DEF RequestRecord
      <3>4. ASSUME NEW op, NEW cred, NEW name, NEW key,
                   req' = [req EXCEPT ![r] = [Unsent EXCEPT !.op = op, !.cred = cred,
                                              !.name = name, !.key = key, !.at = "auth"]]
            PROVE  fresh
        BY <3>0, <3>4 DEF Unsent
      <3> HIDE DEF fresh
      <3> QED BY <1>4, <3>2, <3>3, <3>4 DEF Arrive
    <2>4. \A s \in Request \ {r} : req'[s] = req[s] /\ barred'[s] = barred[s]
      BY <2>1 DEF OnlyOf, TypeOK
    <2>5. RevokedStaysOut'  BY <2>3, <2>4 DEF RevokedStaysOut
    <2> QED BY <2>2, <2>5
  <1>5. ASSUME NEW r \in Request, Handle(r) \/ Fault(r)
        PROVE  RevokedForGood' /\ RevokedStaysOut'
    <2>1. OnlyOf(r) /\ OwnChange(r) /\ KeyChange(r)
      BY <1>5, OneRecord, OwnChanges, KeysChange
    <2>2. active' \cap revoked' = {} /\ revoked \subseteq revoked'
      BY <2>1, KeysForGood
    <2>3. barred' = barred  BY <2>1 DEF OwnChange
    <2>4. RevokedForGood'  BY <2>2, <2>3 DEF RevokedForGood
    <2>5. ASSUME req'[r].passed, req'[r].cred.kind = "key"
          PROVE  req'[r].cred.key \notin barred'[r]
      <3>1. req[r].passed \/ Authenticates(req[r].cred)  BY <2>1, <2>5 DEF OwnChange
      <3>2. req'[r].cred = req[r].cred  BY <2>1 DEF OwnChange
      <3>3. CASE req[r].passed  BY <2>3, <2>5, <3>2, <3>3 DEF RevokedStaysOut
      <3>4. CASE Authenticates(req[r].cred)
        BY <2>3, <2>5, <3>2, <3>4 DEF Authenticates, RevokedForGood
      <3> QED BY <3>1, <3>3, <3>4
    <2>6. RevokedStaysOut'  BY <2>1, <2>3, <2>5 DEF OnlyOf, RevokedStaysOut
    <2> QED BY <2>4, <2>6
  <1> QED BY <1>1, <1>2, <1>3, <1>4, <1>5 DEF Next

LEMMA LogStep ==
  ASSUME TypeOK, Stages, Reserved, LoggedOnce, [Next]_vars
  PROVE  LoggedOnce'
  <1>1. CASE UNCHANGED vars  BY <1>1 DEF vars, LoggedOnce, LoggedFor
  <1>2. CASE Kill
    <2>1. \A r \in Request : req'[r].status = req[r].status
      BY <1>2 DEF Kill, TypeOK, RequestRecord
    <2> QED BY <1>2, <2>1 DEF Kill, LoggedOnce, LoggedFor
  <1>3. ASSUME NEW u \in User, Expire(u) PROVE LoggedOnce'
    BY <1>3 DEF Expire, LoggedOnce, LoggedFor
  <1>4. ASSUME NEW r \in Request, Arrive(r) PROVE LoggedOnce'
    <2>0. req \in [Request -> RequestRecord] /\ req[r] \in RequestRecord  BY DEF TypeOK
    <2>1. OnlyOf(r) /\ lines' = lines  BY <1>4, OneRecord DEF Arrive
    <2>2. req[r].status = 0 /\ lines[r] = << >>
      BY <1>4 DEF Arrive, At, Stages, StageFor, LoggedOnce, LoggedFor
    <2>3. req'[r].status \in {0, 429}
      <3>1. CASE req' = [req EXCEPT ![r].at = "done", ![r].status = 429]
        BY <2>0, <3>1 DEF RequestRecord
      <3>2. ASSUME NEW name, req' = [req EXCEPT ![r].name = name, ![r].at = "login"]
            PROVE  req'[r].status = 0
        BY <2>0, <2>2, <3>2 DEF RequestRecord
      <3>3. ASSUME NEW op, NEW cred, NEW name, NEW key,
                   req' = [req EXCEPT ![r] = [Unsent EXCEPT !.op = op, !.cred = cred,
                                              !.name = name, !.key = key, !.at = "auth"]]
            PROVE  req'[r].status = 0
        BY <2>0, <3>3 DEF Unsent
      <3> QED BY <1>4, <3>1, <3>2, <3>3 DEF Arrive
    <2> QED BY <2>1, <2>2, <2>3 DEF OnlyOf, LoggedOnce, LoggedFor
  <1>5. ASSUME NEW r \in Request, Handle(r) \/ Fault(r) PROVE LoggedOnce'
    <2>1. OnlyOf(r) /\ OwnChange(r)  BY <1>5, OneRecord, OwnChanges
    <2>2. req[r].status = 0 /\ lines[r] = << >>
      BY <2>1 DEF OwnChange, At, Stages, StageFor, LoggedOnce, LoggedFor
    <2>3. CASE req'[r].status = req[r].status /\ lines'[r] = lines[r]
      BY <2>1, <2>2, <2>3 DEF OnlyOf, LoggedOnce, LoggedFor
    <2>4. ASSUME NEW event \in {"failed", "completed"}, NEW id \in {"own", "-"},
                 lines'[r] = Append(lines[r], [event |-> event, id |-> id]),
                 event = "failed" <=> req'[r].status = 500,
                 event = "failed" => id = "own",
                 req'[r].status \notin {0, 429}
          PROVE  LoggedOnce'
      <3>1. lines'[r] = <<[event |-> event, id |-> id]>>  BY <2>2, <2>4
      <3>2. /\ Len(lines'[r]) = 1
            /\ lines'[r][1].event = event /\ lines'[r][1].id = id
        BY <3>1
      <3>3. \A s \in Request \ {r} : req'[s] = req[s] /\ lines'[s] = lines[s]
        BY <2>1 DEF OnlyOf
      <3>4. LoggedFor(r)'  BY <2>4, <3>2 DEF LoggedFor
      <3>5. \A s \in Request \ {r} : LoggedFor(s)'  BY <3>3 DEF LoggedOnce, LoggedFor
      <3> QED BY <3>4, <3>5 DEF LoggedOnce
    <2>5. CASE /\ req'[r].status \in Code \ {0, 429, 500}
               /\ lines'[r] = Append(lines[r], [event |-> "completed", id |-> "-"])
      BY <2>4, <2>5
    <2>6. CASE /\ req'[r].status = 500
               /\ lines'[r] = Append(lines[r], [event |-> "failed", id |-> "own"])
      BY <2>4, <2>6
    <2> QED BY <2>1, <2>3, <2>5, <2>6 DEF OwnChange
  <1> QED BY <1>1, <1>2, <1>3, <1>4, <1>5 DEF Next

\* What keys nobody was shown: finitely many, and with a bound that adds up.
LEMMA OrphansFinite ==
  ASSUME TypeOK
  PROVE  IsFiniteSet(Orphaned) /\ Cardinality(Orphaned) \in Nat
  <1>1. lastKey \in Nat  BY DEF TypeOK
  <1>2. Orphaned \subseteq active  BY DEF Orphaned
  <1>3. active \subseteq 1..lastKey  BY DEF TypeOK
  <1>4. IsFiniteSet(1..lastKey)  BY <1>1, FS_Interval
  <1>5. IsFiniteSet(active)  BY <1>3, <1>4, FS_Subset
  <1> QED BY <1>2, <1>5, FS_Subset, FS_CardinalityType

LEMMA FewerOrphans ==
  ASSUME TypeOK, OrphansAreFailures, Orphaned' \subseteq Orphaned,
         faults' = faults, stops' = stops
  PROVE  OrphansAreFailures'
  <1>1. /\ Cardinality(Orphaned') <= Cardinality(Orphaned)
        /\ Cardinality(Orphaned') \in Nat /\ Cardinality(Orphaned) \in Nat
    BY OrphansFinite, FS_Subset, FS_CardinalityType
  <1>2. Cardinality(Request) \in Nat  BY RequestAssumption, FS_CardinalityType
  <1>3. stops * Cardinality(Request) \in Nat /\ faults \in Nat
    BY <1>2, BoundsAssumption DEF TypeOK
  <1> QED BY <1>1, <1>3 DEF OrphansAreFailures

\* A step of a handler leaves no key behind.
LEMMA HandleOrphans ==
  ASSUME TypeOK, Stages, Reserved, NEW r \in Request, Arrive(r) \/ Handle(r)
  PROVE  Orphaned' \subseteq Orphaned /\ faults' = faults /\ stops' = stops
  <1>1. OnlyOf(r) /\ KeyChange(r)  BY OneRecord, KeysChange
  <1>2. UNCHANGED budget /\ shown \subseteq shown'
    BY DEF Handle, Arrive, Authorize, Login, LoginRole, RegisterCheck, RegisterCreate, Whoami,
       CreateKey, RefreshKey, ShownAfter, RevokeRead, RevokeKey
  <1>3. At(r, "refresh") => req[r].key \in shown'
    BY DEF Handle, Arrive, Authorize, Login, LoginRole, RegisterCheck, RegisterCreate, Whoami,
       CreateKey, RefreshKey, ShownAfter, RevokeRead, RevokeKey, At
  <1>4. At(r, "insert") => req'[r].at = "refresh" /\ req'[r].key = NextId
    <2>1. At(r, "insert") => CreateKey(r)
      BY DEF Handle, Arrive, Authorize, Login, LoginRole, RegisterCheck, RegisterCreate, Whoami,
         RefreshKey, RevokeRead, RevokeKey, At
    <2>2. req[r] \in RequestRecord  BY DEF TypeOK
    <2> QED BY <2>1, <2>2 DEF CreateKey, TypeOK, RequestRecord
  <1>5. ASSUME NEW k \in Orphaned' PROVE k \in Orphaned
    <2>1. k \in active' /\ k \notin shown' /\ ~InCreation(k)'  BY <1>5 DEF Orphaned
    <2>2. k \in active
      <3>1. CASE At(r, "insert") /\ InsertKey
        <4>1. k \in active \/ k = NextId  BY <2>1, <3>1 DEF InsertKey
        <4>2. k # NextId  BY <1>4, <2>1, <3>1 DEF InCreation, At
        <4> QED BY <4>1, <4>2
      <3>2. CASE active' \subseteq active  BY <2>1, <3>2
      <3> QED BY <1>1, <3>1, <3>2 DEF KeyChange, keys
    <2>3. ~InCreation(k)
      <3> SUFFICES ASSUME NEW s \in Request, At(s, "refresh"), req[s].key = k
                   PROVE  FALSE
        BY DEF InCreation
      <3>1. s # r  BY <1>3, <2>1
      <3>2. req'[s] = req[s]  BY <1>1, <3>1 DEF OnlyOf
      <3> QED BY <2>1, <3>2 DEF InCreation, At
    <2> QED BY <1>2, <2>1, <2>2, <2>3 DEF Orphaned
  <1> QED BY <1>2, <1>5 DEF budget

\* A failed statement leaves at most one.
LEMMA FaultOrphans ==
  ASSUME TypeOK, Stages, Reserved, OrphansAreFailures, NEW r \in Request, Fault(r)
  PROVE  OrphansAreFailures'
  <1> DEFINE left == IF At(r, "insert") THEN NextId ELSE req[r].key
  <1>1. OnlyOf(r) /\ KeyChange(r)  BY OneRecord, KeysChange
  <1>2. faults' = faults + 1 /\ stops' = stops /\ shown' = shown
    BY DEF Fault, SpendFault
  <1>3. Orphaned' \subseteq Orphaned \cup {left}
    <2> SUFFICES ASSUME NEW k \in Orphaned', k # left PROVE k \in Orphaned  OBVIOUS
    <2>1. k \in active' /\ k \notin shown /\ ~InCreation(k)'  BY <1>2 DEF Orphaned
    <2>2. k \in active
      BY <1>1, <2>1 DEF KeyChange, keys, InsertKey
    <2>3. ~InCreation(k)
      <3> SUFFICES ASSUME NEW s \in Request, At(s, "refresh"), req[s].key = k
                   PROVE  FALSE
        BY DEF InCreation
      <3>1. s # r  BY DEF At
      <3>2. req'[s] = req[s]  BY <1>1, <3>1 DEF OnlyOf
      <3> QED BY <2>1, <3>2 DEF InCreation, At
    <2> QED BY <2>1, <2>2, <2>3 DEF Orphaned
  <1> HIDE DEF left
  <1>4. /\ IsFiniteSet(Orphaned \cup {left})
        /\ Cardinality(Orphaned \cup {left}) <= Cardinality(Orphaned) + 1
        /\ Cardinality(Orphaned) \in Nat
    <2>1. IsFiniteSet(Orphaned) /\ Cardinality(Orphaned) \in Nat  BY OrphansFinite
    <2>2. /\ IsFiniteSet(Orphaned \cup {left})
          /\ Cardinality(Orphaned \cup {left}) =
               IF left \in Orphaned THEN Cardinality(Orphaned) ELSE Cardinality(Orphaned) + 1
      BY <2>1, FS_AddElement
    <2> QED BY <2>1, <2>2
  <1>5. /\ Cardinality(Orphaned') <= Cardinality(Orphaned \cup {left})
        /\ Cardinality(Orphaned') \in Nat /\ Cardinality(Orphaned \cup {left}) \in Nat
    BY <1>3, <1>4, FS_Subset, FS_CardinalityType
  <1>6. Cardinality(Request) \in Nat  BY RequestAssumption, FS_CardinalityType
  <1>7. stops * Cardinality(Request) \in Nat /\ faults \in Nat
    BY <1>6, BoundsAssumption DEF TypeOK
  <1> QED BY <1>2, <1>4, <1>5, <1>7 DEF OrphansAreFailures

\* A death leaves at most one per request.
LEMMA KillOrphans ==
  ASSUME TypeOK, OrphansAreFailures, Kill
  PROVE  OrphansAreFailures'
  <1> DEFINE inHand == [r \in Request |-> req[r].key]
             left == {req[r].key : r \in Request}
  <1>1. IsFiniteSet(left) /\ Cardinality(left) <= Cardinality(Request)
    <2>1. inHand \in Surjection(Request, left)  BY DEF Surjection
    <2> QED BY <2>1, RequestAssumption, FS_Surjection
  <1>2. Orphaned' \subseteq Orphaned \cup left
    <2> SUFFICES ASSUME NEW k \in Orphaned', k \notin left PROVE k \in Orphaned  OBVIOUS
    <2>1. k \in active /\ k \notin shown  BY DEF Kill, keys, Orphaned
    <2>2. ~InCreation(k)  BY DEF InCreation
    <2> QED BY <2>1, <2>2 DEF Orphaned
  <1>3. /\ Cardinality(left) \in Nat /\ Cardinality(Request) \in Nat
        /\ IsFiniteSet(Orphaned) /\ Cardinality(Orphaned) \in Nat
    BY <1>1, RequestAssumption, FS_CardinalityType, OrphansFinite
  <1>4. /\ IsFiniteSet(Orphaned \cup left)
        /\ Cardinality(Orphaned \cup left) <= Cardinality(Orphaned) + Cardinality(left)
    <2>1. /\ IsFiniteSet(Orphaned \cup left)
          /\ Cardinality(Orphaned \cup left) =
               Cardinality(Orphaned) + Cardinality(left) - Cardinality(Orphaned \cap left)
      BY <1>1, <1>3, FS_Union
    <2>2. Cardinality(Orphaned \cap left) \in Nat
      <3>1. IsFiniteSet(Orphaned \cap left)  BY <1>3, FS_Subset
      <3> QED BY <3>1, FS_CardinalityType
    <2> QED BY <1>3, <2>1, <2>2
  <1>5. /\ Cardinality(Orphaned') <= Cardinality(Orphaned \cup left)
        /\ Cardinality(Orphaned') \in Nat /\ Cardinality(Orphaned \cup left) \in Nat
    BY <1>2, <1>4, FS_Subset, FS_CardinalityType
  <1>6. stops' = stops + 1 /\ faults' = faults /\ stops \in Nat /\ faults \in Nat
    BY BoundsAssumption DEF Kill, TypeOK
  <1>7. \A a, c \in Nat : (a + 1) * c = a * c + c /\ a * c \in Nat  OBVIOUS
  <1>8. stops' * Cardinality(Request) = stops * Cardinality(Request) + Cardinality(Request)
    BY <1>3, <1>6, <1>7
  <1>9. stops * Cardinality(Request) \in Nat  BY <1>3, <1>6, <1>7
  <1> QED BY <1>1, <1>3, <1>4, <1>5, <1>6, <1>8, <1>9 DEF OrphansAreFailures

LEMMA OrphanStep ==
  ASSUME TypeOK, Stages, Reserved, OrphansAreFailures, [Next]_vars
  PROVE  OrphansAreFailures'
  <1>1. CASE UNCHANGED vars
    BY <1>1, FewerOrphans DEF vars, keys, budget, Orphaned, InCreation, At
  <1>2. ASSUME NEW u \in User, Expire(u) PROVE OrphansAreFailures'
    BY <1>2, FewerOrphans DEF Expire, keys, budget, Orphaned, InCreation, At
  <1>3. ASSUME NEW r \in Request, Arrive(r) \/ Handle(r) \/ Fault(r)
        PROVE  OrphansAreFailures'
    BY <1>3, HandleOrphans, FewerOrphans, FaultOrphans
  <1> QED BY <1>1, <1>2, <1>3, KillOrphans DEF Next

-----------------------------------------------------------------------------
(* The theorems.                                                           *)

LEMMA InitInv == Init => IInv
  <1> SUFFICES ASSUME Init PROVE IInv  OBVIOUS
  <1>1. /\ \A r \in Request : req[r] = Unsent /\ lines[r] = << >> /\ barred[r] = {}
        /\ revoked = {} /\ lastKey \in 0..MaxKeys /\ active \subseteq 1..lastKey
        /\ shown = 1..lastKey /\ faults = 0 /\ stops = 0
    BY DEF Init
  <1>2. Unsent \in RequestRecord
    BY BoundsAssumption
    DEF Unsent, RequestRecord, Operation, NoCredential, Credential, Stage, Code
  <1>3. TypeOK
    BY <1>1, <1>2, BoundsAssumption DEF Init, TypeOK
  <1>4. Stages  BY <1>1 DEF Stages, StageFor, At, Unsent
  <1>5. Reserved
    <2>1. Creating = {}  BY <1>1 DEF Creating, Unsent
    <2> QED BY <1>1, <2>1, FS_EmptySet, BoundsAssumption DEF Reserved
  <1>6. RevokedForGood /\ RevokedStaysOut
    BY <1>1 DEF RevokedForGood, RevokedStaysOut, Unsent
  <1>7. OrphansAreFailures
    <2>1. Orphaned = {}  BY <1>1 DEF Orphaned
    <2>2. Cardinality(Request) \in Nat  BY RequestAssumption, FS_CardinalityType
    <2> QED BY <1>1, <2>1, <2>2, FS_EmptySet DEF OrphansAreFailures
  <1>8. LoggedOnce  BY <1>1 DEF LoggedOnce, LoggedFor, Unsent
  <1> QED BY <1>3, <1>4, <1>5, <1>6, <1>7, <1>8 DEF IInv

THEOREM Inductive == Spec => []IInv
  <1>1. IInv /\ [Next]_vars => IInv'
    <2> SUFFICES ASSUME IInv, [Next]_vars PROVE IInv'  OBVIOUS
    <2>1. TypeOK'  BY NextType DEF IInv
    <2>2. Stages' /\ Reserved'  BY StageStep, ReserveStep DEF IInv
    <2>3. RevokedForGood' /\ RevokedStaysOut'  BY RevokedStep DEF IInv
    <2>4. OrphansAreFailures' /\ LoggedOnce'  BY OrphanStep, LogStep DEF IInv
    <2> QED BY <2>1, <2>2, <2>3, <2>4 DEF IInv
  <1> QED BY <1>1, InitInv, PTL DEF Spec

\* Every variable keeps its type, and the ids suffice for the keys being inserted.
THEOREM TypeCorrect == Spec => []TypeOK
  <1>1. IInv => TypeOK  BY DEF IInv
  <1> QED BY <1>1, Inductive, PTL

\* Once a revocation was answered the key opens nothing that comes later, for any
\* number of requests that create, revoke and use keys at the same time.
THEOREM RevocationHolds == Spec => []RevokedStaysOut
  <1>1. IInv => RevokedStaysOut  BY DEF IInv
  <1> QED BY <1>1, Inductive, PTL

\* A working key that nobody was shown is left by a failed statement or by a death.
THEOREM KeysAreShown == Spec => []OrphansAreFailures
  <1>1. IInv => OrphansAreFailures  BY DEF IInv
  <1> QED BY <1>1, Inductive, PTL

\* A request that passed the limiter and is answered has one line, "failed" with its own id
\* exactly if it was answered 500; refused by the limiter, under way or dead, none
\* (logging.py:57-82).
THEOREM EachIsLoggedOnce == Spec => []LoggedOnce
  <1>1. IInv => LoggedOnce  BY DEF IInv
  <1> QED BY <1>1, Inductive, PTL

=============================================================================
