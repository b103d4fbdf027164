---------------------------- MODULE ApiRequests ----------------------------
(***************************************************************************)
(* The life of a request in the API process: the rate limit and the        *)
(* request-id middleware around it, the credential check, and the handlers *)
(* of api/auth.py, one SQL statement at a time.                            *)
(*                                                                         *)
(* A step is what happens between two awaits.  Passwords, hashes and       *)
(* signatures are abstracted to whether they verify.                       *)
(***************************************************************************)
EXTENDS Naturals, FiniteSets, Sequences

CONSTANTS
  Request,    \* requests, each sent once
  User,       \* rows of `users`, seeded by SQL
  NewName,    \* a user name without a row
  MaxKeys,    \* bound: API keys ever inserted
  MaxFaults,  \* bound: SQL statements that fail
  MaxStops    \* bound: times the API process is killed

ASSUME NewNameAssumption == NewName \notin User
ASSUME RequestAssumption == IsFiniteSet(Request)
ASSUME BoundsAssumption == MaxKeys \in Nat /\ MaxFaults \in Nat /\ MaxStops \in Nat

Role == {"viewer", "operator", "admin"}
Id == 1..MaxKeys
Rank == [role \in Role |-> CASE role = "viewer" -> 0 [] role = "operator" -> 1 [] OTHER -> 2]

\* What a request carries: nothing that verifies, a token of a login, or a key that
\* its creator was shown.
Credential ==
  [kind : {"none"}, user : {NewName}, key : {0}]
    \cup [kind : {"jwt"}, user : User, key : {0}]
    \cup [kind : {"key"}, user : {NewName}, key : Id]
NoCredential == [kind |-> "none", user |-> NewName, key |-> 0]

Operation == {"login", "register", "me", "create", "revoke"}
AnyPrincipal == [op \in Operation \ {"login"} |-> "viewer"]
MinimumRole == [op \in Operation \ {"login"} |-> IF op = "me" THEN "viewer" ELSE "admin"]

InHandler == {"login", "role", "register", "roleid", "me", "insert", "refresh", "read", "revoke"}
Stage == InHandler \cup {"new", "auth", "done"}
Code == {0, 200, 201, 204, 401, 403, 404, 409, 429, 500}

\* A log line: its event, and its request_id ("-" is the context variable's default).
Line == [event : {"failed", "completed"}, id : {"own", "-"}]

VARIABLES
  role, enabled,   \* `users`: role_id and is_active
  lastKey, active, \* `api_keys`: the SERIAL, and the rows with is_active
  keyRole,         \* `api_keys`: role
  tokens,          \* users with a token that still verifies
  shown,           \* keys that a response has shown
  req,             \* the requests
  lines,           \* what each request's middleware has logged
  revoked,         \* history: keys whose revocation was answered 204
  barred,          \* history: what `revoked` was when the request came
  faults, stops

users   == <<role, enabled>>
keys    == <<lastKey, active, keyRole>>
history == <<revoked, barred>>
budget  == <<faults, stops>>
vars    == <<users, keys, tokens, shown, req, lines, history, budget>>

RequestRecord ==
  [op : Operation, cred : Credential, name : User \cup {NewName}, key : 0..MaxKeys,
   at : Stage, status : Code, passed : BOOLEAN]

Unsent == [op |-> "login", cred |-> NoCredential, name |-> NewName, key |-> 0,
           at |-> "new", status |-> 0, passed |-> FALSE]

TypeOK ==
  /\ role \in [User -> Role]
  /\ enabled \subseteq User
  /\ lastKey \in 0..MaxKeys
  /\ active \subseteq 1..lastKey
  /\ keyRole \in [Id -> Role]
  /\ tokens \subseteq User
  /\ shown \subseteq 1..lastKey
  /\ req \in [Request -> RequestRecord]
  /\ lines \in [Request -> Seq(Line)]
  /\ revoked \subseteq 1..lastKey
  /\ barred \in [Request -> SUBSET Id]
  /\ faults \in 0..MaxFaults
  /\ stops \in 0..MaxStops

\* The process starts on tables of an earlier one.
Init ==
  /\ role \in [User -> Role]
  /\ enabled \in SUBSET User
  /\ lastKey \in 0..MaxKeys
  /\ active \in SUBSET (1..lastKey)
  /\ keyRole \in [Id -> Role]
  /\ \A k \in Id : k > lastKey => keyRole[k] = "viewer"
  /\ tokens \in SUBSET User
  /\ shown = 1..lastKey
  /\ req = [r \in Request |-> Unsent]
  /\ lines = [r \in Request |-> << >>]
  /\ revoked = {}
  /\ barred = [r \in Request |-> {}]
  /\ faults = 0
  /\ stops = 0

-----------------------------------------------------------------------------
(* The middleware.                                                         *)

At(r, stage) == req[r].at = stage
MoveTo(r, stage) == req' = [req EXCEPT ![r].at = stage] /\ lines' = lines

\* call_next returned: the context variable is reset before the line is written.
Completed(r) == Append(lines[r], [event |-> "completed", id |-> "-"])

Answer(r, code) ==
  /\ req' = [req EXCEPT ![r].at = "done", ![r].status = code]
  /\ lines' = [lines EXCEPT ![r] = Completed(r)]

\* call_next raised: the line is written, and then the variable is reset.
FailedAfterReset(r) == Append(lines[r], [event |-> "failed", id |-> "-"])
Failed(r) == Append(lines[r], [event |-> "failed", id |-> "own"])

Swallowed(r) == MoveTo(r, "roleid")
Raise(r) ==
  /\ req' = [req EXCEPT ![r].at = "done", ![r].status = 500]
  /\ lines' = [lines EXCEPT ![r] = Failed(r)]

Sendable(cred) ==
  /\ cred.kind = "jwt" => cred.user \in tokens
  /\ cred.kind = "key" => cred.key \in shown

\* The bound on keys: one for each request that may still insert one.
Creating == {r \in Request : req[r].op = "create" /\ req[r].at \in {"auth", "insert"}}
KeyLeft == lastKey + Cardinality(Creating) < MaxKeys

\* A request comes.  The limiter is the outer middleware: what it refuses is never
\* logged.
Arrive(r) ==
  /\ At(r, "new")
  /\ \/ req' = [req EXCEPT ![r].at = "done", ![r].status = 429]
     \/ \E name \in User \cup {NewName} :
          req' = [req EXCEPT ![r].name = name, ![r].at = "login"]
     \/ \E op \in Operation \ {"login"}, cred \in Credential,
           name \in User \cup {NewName}, key \in 0..MaxKeys :
          /\ Sendable(cred)
          /\ op # "revoke" => key = 0
          /\ op # "register" => name = NewName
          /\ op = "create" => KeyLeft
          /\ req' = [req EXCEPT ![r] = [Unsent EXCEPT !.op = op, !.cred = cred, !.name = name,
                                        !.key = key, !.at = "auth"]]
  /\ barred' = [barred EXCEPT ![r] = revoked]
  /\ UNCHANGED <<users, keys, tokens, shown, lines, revoked, budget>>

-----------------------------------------------------------------------------
(* core/dependencies.py: get_current_principal, then require_role.         *)

AnyRow(cred) == cred.kind = "jwt" \/ (cred.kind = "key" /\ cred.key <= lastKey)
Authenticates(cred) == cred.kind = "jwt" \/ (cred.kind = "key" /\ cred.key \in active)
RoleOf(cred) == IF cred.kind = "jwt" THEN role[cred.user] ELSE keyRole[cred.key]

First(op) ==
  CASE op = "register" -> "register" [] op = "me" -> "me"
    [] op = "create" -> "insert" [] OTHER -> "read"

\* A token carries the role; a key is looked up with is_active.
Authorize(r) ==
  LET cred == req[r].cred
  IN  /\ At(r, "auth")
      /\ \/ /\ ~Authenticates(cred)
            /\ Answer(r, 401)
         \/ /\ Authenticates(cred)
            /\ Rank[RoleOf(cred)] < Rank[MinimumRole[req[r].op]]
            /\ Answer(r, 403)
         \/ /\ Authenticates(cred)
            /\ Rank[RoleOf(cred)] >= Rank[MinimumRole[req[r].op]]
            /\ req' = [req EXCEPT ![r].at = First(req[r].op), ![r].passed = TRUE]
            /\ lines' = lines
      /\ UNCHANGED <<users, keys, tokens, shown, history, budget>>

\* exp passes.
Expire(u) ==
  /\ u \in tokens
  /\ tokens' = tokens \ {u}
  /\ \A r \in Request : At(r, "auth") => req[r].cred.user # u
  /\ UNCHANGED <<users, keys, shown, req, lines, history, budget>>

-----------------------------------------------------------------------------
(* api/auth.py and user_repository.py.                                     *)

\* get_by_username, verify_password, is_active.
Login(r) ==
  /\ At(r, "login")
  /\ \/ Answer(r, 401)
     \/ req[r].name \in User \ enabled /\ Answer(r, 403)
     \/ req[r].name \in enabled /\ MoveTo(r, "role")
  /\ UNCHANGED <<users, keys, tokens, shown, history, budget>>

\* get_role_name, create_access_token.
LoginRole(r) ==
  /\ At(r, "role")
  /\ tokens' = tokens \cup {req[r].name}
  /\ Answer(r, 200)
  /\ UNCHANGED <<users, keys, shown, history, budget>>

RegisterCheck(r) ==
  /\ At(r, "register")
  /\ \/ req[r].name \in User /\ Answer(r, 409)
     \/ req[r].name \notin User /\ MoveTo(r, "roleid")
  /\ UNCHANGED <<users, keys, tokens, shown, history, budget>>

\* get_role_id; then User(...) names `timezone`, which the module does not import.
RegisterCreate(r) ==
  /\ At(r, "roleid")
  /\ Raise(r)
  /\ UNCHANGED <<users, keys, tokens, shown, history, budget>>

\* A key's name is no user's name here.
Whoami(r) ==
  /\ At(r, "me")
  /\ Answer(r, IF req[r].cred.kind = "jwt" THEN 200 ELSE 404)
  /\ UNCHANGED <<users, keys, tokens, shown, history, budget>>

\* INSERT and commit: the SERIAL gives the row its own id.
NextId == lastKey + 1

OnlyFlushed == UNCHANGED <<lastKey, active, keyRole>>
InsertKey ==
  /\ lastKey' = NextId
  /\ active' = active \cup {NextId}
  /\ \E chosen \in Role : keyRole' = [keyRole EXCEPT ![NextId] = chosen]

CreateKey(r) ==
  /\ At(r, "insert")
  /\ InsertKey
  /\ req' = [req EXCEPT ![r].at = "refresh", ![r].key = NextId]
  /\ UNCHANGED <<users, tokens, shown, lines, history, budget>>

\* refresh, and the only answer that ever holds the key.
AnsweredWithout(r) == shown
ShownAfter(r) == shown \cup {req[r].key}

RefreshKey(r) ==
  /\ At(r, "refresh")
  /\ shown' = ShownAfter(r)
  /\ Answer(r, 201)
  /\ UNCHANGED <<users, keys, tokens, history, budget>>

RevokeRead(r) ==
  /\ At(r, "read")
  /\ \/ req[r].key \notin 1..lastKey /\ Answer(r, 404)
     \/ req[r].key \in 1..lastKey /\ MoveTo(r, "revoke")
  /\ UNCHANGED <<users, keys, tokens, shown, history, budget>>

\* is_active = False and commit.
Deactivated(r) == active \ {req[r].key}

RevokeKey(r) ==
  /\ At(r, "revoke")
  /\ active' = Deactivated(r)
  /\ revoked' = revoked \cup {req[r].key}
  /\ Answer(r, 204)
  /\ UNCHANGED <<users, lastKey, keyRole, tokens, shown, barred, budget>>

-----------------------------------------------------------------------------
(* Failures.                                                               *)

SpendFault == faults < MaxFaults /\ faults' = faults + 1 /\ stops' = stops

UsesDatabase(r) ==
  \/ At(r, "auth") /\ req[r].cred.kind = "key"
  \/ req[r].at \in InHandler

\* A statement raises and its transaction is rolled back, or it was committed and the
\* connection died before the server said so.
Fault(r) ==
  /\ SpendFault
  /\ UsesDatabase(r)
  /\ Raise(r)
  /\ \/ UNCHANGED keys
     \/ At(r, "insert") /\ InsertKey
     \/ At(r, "revoke") /\ active' = Deactivated(r) /\ UNCHANGED <<lastKey, keyRole>>
  /\ UNCHANGED <<users, tokens, shown, history>>

\* The requests in flight die with the process, without an answer or a line.
Kill ==
  /\ stops < MaxStops
  /\ stops' = stops + 1
  /\ req' = [r \in Request |->
       IF req[r].at = "new" THEN req[r] ELSE [req[r] EXCEPT !.at = "done"]]
  /\ UNCHANGED <<users, keys, tokens, shown, lines, history, faults>>

-----------------------------------------------------------------------------
Handle(r) ==
  \/ Authorize(r) \/ Login(r) \/ LoginRole(r)
  \/ RegisterCheck(r) \/ RegisterCreate(r) \/ Whoami(r)
  \/ CreateKey(r) \/ RefreshKey(r) \/ RevokeRead(r) \/ RevokeKey(r)

Next ==
  \/ \E r \in Request : Arrive(r) \/ Handle(r) \/ Fault(r)
  \/ \E u \in User : Expire(u)
  \/ Kill

\* The event loop runs every ready task.
Fairness == \A r \in Request : WF_vars(Handle(r))

Spec == Init /\ [][Next]_vars /\ Fairness

-----------------------------------------------------------------------------
(* Properties.                                                             *)

\* "Admin-only revoke" (README.md:76): once a revocation was answered, no request that
\* comes later gets in with that key, whatever creations and revocations overlap.
RevokedStaysOut ==
  \A r \in Request :
    req[r].passed /\ req[r].cred.kind = "key" => req[r].cred.key \notin barred[r]

\* API_DOCUMENTATION.md:183 "`api_key` is shown exactly once": a key that works and was
\* shown to nobody is being created, or is left from one failed statement or kill each.
InCreation(k) == \E r \in Request : At(r, "refresh") /\ req[r].key = k
Orphaned == {k \in active \ shown : ~InCreation(k)}
OrphansAreFailures == Cardinality(Orphaned) <= faults + stops * Cardinality(Request)

\* The lines of the middleware (logging.py:57-82).  A request that reaches it and is
\* answered leaves exactly one line: "failed", with the request's id, if it raised and was
\* answered 500, else "completed".  A request under way, or one that died with the process,
\* has left none, nor has one the limiter refused with 429: the middleware never saw it.
\* Nothing is said of the id of a completed line: see LinesCarryId.
LoggedFor(r) ==
  IF req[r].status \in {0, 429}
  THEN lines[r] = << >>
  ELSE /\ Len(lines[r]) = 1
       /\ lines[r][1].event = "failed" <=> req[r].status = 500
       /\ lines[r][1].event = "failed" => lines[r][1].id = "own"

LoggedOnce == \A r \in Request : LoggedFor(r)

\* Behind every change of the key table is one request of an administrator, whatever
\* else is under way: it issues one key and shows it to nobody twice, or withdraws one.
Acting == {"register", "roleid", "insert", "read", "revoke"}
Office == {r \in Request : req[r].at \in Acting}
Hand == [r \in Request |-> IF At(r, "refresh") THEN req[r].key ELSE 0]
Badge == [r \in Request |-> req[r].cred]
Admins == {u \in User : role[u] = "admin"}

Ledger ==
  INSTANCE KeyLedger
  WITH Key <- Id, Badge <- Credential,
       admins <- Admins, signedIn <- tokens, issued <- lastKey, granted <- keyRole,
       working <- active, badge <- Badge, office <- Office, hand <- Hand
KeepsKeyLedger == Ledger!Spec

\* A request is answered, or dies with the process.
RequestsAnswered == \A r \in Request : ~At(r, "new") ~> At(r, "done")

\* logging.py:4: "Every log line emitted during a request carries the same `request_id`", its
\* own.
LinesCarryId == \A r \in Request : \A i \in DOMAIN lines[r] : lines[r][i].id = "own"

=============================================================================
