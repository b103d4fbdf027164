---------------------------- MODULE ApiKeyProofs ----------------------------
(***************************************************************************)
(* Proof that ApiRequests implements KeyLedger: the requests, however they *)
(* overlap and fail, change the table of keys as administrators only, each *)
(* at most once.                                                           *)
(***************************************************************************)
EXTENDS ApiRequestsProofs

-----------------------------------------------------------------------------
(* The inductive invariant.                                                *)

\* A request has what it came with, and in hand a key of its own that nobody has seen.
HeldFor(r) ==
  /\ At(r, "new") => req[r].cred.kind = "none"
  /\ At(r, "auth") => req[r].op # "login"
  /\ At(r, "auth") /\ req[r].cred.kind = "jwt" => req[r].cred.user \in tokens
  /\ At(r, "role") => req[r].name \in enabled
  /\ At(r, "refresh") => req[r].key \notin shown
  /\ \A s \in Request :
       At(r, "refresh") /\ At(s, "refresh") /\ req[s].key = req[r].key => s = r

Held == \A r \in Request : HeldFor(r)

KeyInv == IInv /\ Held

\* The part of HeldFor that a request has to itself.
OwnFor(r) ==
  /\ At(r, "new") => req[r].cred.kind = "none"
  /\ At(r, "auth") => req[r].op # "login"
  /\ At(r, "auth") /\ req[r].cred.kind = "jwt" => req[r].cred.user \in tokens
  /\ At(r, "role") => req[r].name \in enabled

-----------------------------------------------------------------------------
(* The steps, as the ledger sees them.                                     *)

\* A step of a request that ends it, without effect on keys or users.
Ends(r) ==
  /\ req'[r].at = "done" /\ req'[r].cred = req[r].cred
  /\ UNCHANGED <<users, keys, tokens, shown>>

\* A step of a request that neither begins nor ends to act.
Walks(r) ==
  /\ req'[r].cred = req[r].cred
  /\ UNCHANGED <<users, keys, tokens, shown>>
  /\ \/ req[r].at \in {"new", "login", "auth"} /\ req'[r].at \in {"login", "role", "me"}
     \/ req[r].at \in {"register", "read"} /\ req'[r].at \in {"roleid", "revoke"}
  /\ req'[r].at = "role" => req'[r].name \in enabled

Comes(r) ==
  /\ At(r, "new") /\ req'[r].at = "auth" /\ req'[r].op # "login"
  /\ req'[r].cred \in Credential /\ Sendable(req'[r].cred)
  /\ UNCHANGED <<users, keys, tokens, shown>>

Passes(r) ==
  /\ At(r, "auth") /\ req'[r].at \in Acting /\ req'[r].cred = req[r].cred
  /\ Authenticates(req[r].cred) /\ RoleOf(req[r].cred) = "admin"
  /\ UNCHANGED <<users, keys, tokens, shown>>

Issues(r) ==
  /\ At(r, "insert") /\ InsertKey /\ req'[r].cred = req[r].cred
  /\ \/ req'[r].at = "refresh" /\ req'[r].key = NextId
     \/ req'[r].at = "done"
  /\ UNCHANGED <<users, tokens, shown>>

Shows(r) ==
  /\ At(r, "refresh") /\ req'[r].at = "done" /\ req'[r].cred = req[r].cred
  /\ shown' = shown \cup {req[r].key}
  /\ UNCHANGED <<users, keys, tokens>>

Withdraws(r) ==
  /\ At(r, "revoke") /\ req'[r].at = "done" /\ req'[r].cred = req[r].cred
  /\ active' = active \ {req[r].key}
  /\ UNCHANGED <<users, lastKey, keyRole, tokens, shown>>

SignsIn(r) ==
  /\ At(r, "role") /\ req'[r].at = "done" /\ req'[r].cred = req[r].cred
  /\ tokens' = tokens \cup {req[r].name}
  /\ UNCHANGED <<users, keys, shown>>

Kind(r) ==
  \/ Ends(r) \/ Walks(r) \/ Comes(r) \/ Passes(r)
  \/ Issues(r) \/ Shows(r) \/ Withdraws(r) \/ SignsIn(r)

LEMMA AnswerKeeps ==
  ASSUME TypeOK, NEW r \in Request, (\E code : Answer(r, code)) \/ Raise(r)
  PROVE  req'[r].at = "done" /\ req'[r].cred = req[r].cred
  <1>1. req \in [Request -> RequestRecord] /\ req[r] \in RequestRecord  BY DEF TypeOK
  <1> QED BY <1>1 DEF Answer, Raise, RequestRecord

LEMMA MoveKeeps ==
  ASSUME TypeOK, NEW r \in Request, NEW stage, MoveTo(r, stage)
  PROVE  /\ req'[r].at = stage /\ req'[r].cred = req[r].cred
         /\ req'[r].name = req[r].name
  <1>1. req \in [Request -> RequestRecord] /\ req[r] \in RequestRecord  BY DEF TypeOK
  <1> QED BY <1>1 DEF MoveTo, RequestRecord

LEMMA ArriveKind ==
  ASSUME TypeOK, Held, NEW r \in Request, Arrive(r)
  PROVE  Kind(r)
  <1>1. req \in [Request -> RequestRecord] /\ req[r] \in RequestRecord  BY DEF TypeOK
  <1>2. At(r, "new") /\ UNCHANGED <<users, keys, tokens, shown>>  BY DEF Arrive
  <1>3. CASE req' = [req EXCEPT ![r].at = "done", ![r].status = 429]
    <2>1. req'[r].at = "done" /\ req'[r].cred = req[r].cred
      BY <1>1, <1>3 DEF RequestRecord
    <2> QED BY <1>2, <2>1 DEF Ends, Kind
  <1>4. ASSUME NEW name, req' = [req EXCEPT ![r].name = name, ![r].at = "login"]
        PROVE  Kind(r)
    <2>1. req'[r].at = "login" /\ req'[r].cred = req[r].cred
      BY <1>1, <1>4 DEF RequestRecord
    <2> QED BY <1>2, <2>1 DEF Walks, Kind, At
  <1>5. ASSUME NEW op \in Operation \ {"login"}, NEW cred \in Credential, NEW name, NEW key,
               Sendable(cred),
               req' = [req EXCEPT ![r] = [Unsent EXCEPT !.op = op, !.cred = cred,
                                          !.name = name, !.key = key, !.at = "auth"]]
        PROVE  Kind(r)
    <2>1. req'[r].at = "auth" /\ req'[r].cred = cred /\ req'[r].op = op
      BY <1>1, <1>5 DEF Unsent
    <2> QED BY <1>2, <1>5, <2>1 DEF Comes, Kind
  <1> QED BY <1>3, <1>4, <1>5 DEF Arrive

\* Only an administrator outranks the operators.
LEMMA AdminOnly ==
  ASSUME NEW x \in Role, NEW op \in Operation \ {"login", "me"},
         Rank[x] >= Rank[MinimumRole[op]]
  PROVE  x = "admin"
  <1>1. MinimumRole[op] = "admin"  BY DEF MinimumRole
  <1>2. Rank["admin"] = 2 /\ Rank["viewer"] = 0 /\ Rank["operator"] = 1
    BY DEF Rank, Role
  <1> QED BY <1>1, <1>2 DEF Role

LEMMA AuthorizeKind ==
  ASSUME TypeOK, Held, NEW r \in Request, Authorize(r)
  PROVE  Kind(r)
  <1>1. req \in [Request -> RequestRecord] /\ req[r] \in RequestRecord  BY DEF TypeOK
  <1>2. At(r, "auth") /\ UNCHANGED <<users, keys, tokens, shown>>  BY DEF Authorize
  <1>3. CASE Answer(r, 401) \/ Answer(r, 403)
    <2>1. req'[r].at = "done" /\ req'[r].cred = req[r].cred  BY <1>3, AnswerKeeps
    <2> QED BY <1>2, <2>1 DEF Ends, Kind
  <1>4. CASE /\ Authenticates(req[r].cred)
             /\ Rank[RoleOf(req[r].cred)] >= Rank[MinimumRole[req[r].op]]
             /\ req' = [req EXCEPT ![r].at = First(req[r].op), ![r].passed = TRUE]
    <2>1. req'[r].at = First(req[r].op) /\ req'[r].cred = req[r].cred
      BY <1>1, <1>4 DEF RequestRecord
    <2>2. req[r].op \in Operation \ {"login"}
      BY <1>1, <1>2 DEF Held, HeldFor, RequestRecord
    <2>3. CASE req[r].op = "me"
      BY <1>2, <2>1, <2>3 DEF First, Walks, Kind, At
    <2>4. CASE req[r].op # "me"
      <3>1. First(req[r].op) \in Acting  BY <2>2, <2>4 DEF First, Acting, Operation
      <3>2. RoleOf(req[r].cred) \in Role
        <4>1. req[r].cred \in Credential  BY <1>1 DEF RequestRecord
        <4>2. CASE req[r].cred.kind = "jwt"
          <5>1. req[r].cred.user \in User  BY <4>1, <4>2 DEF Credential
          <5> QED BY <4>2, <5>1 DEF RoleOf, TypeOK
        <4>3. CASE req[r].cred.kind # "jwt"
          <5>1. req[r].cred.key \in Id
            BY <1>4, <4>1, <4>3 DEF Credential, Authenticates
          <5> QED BY <4>3, <5>1 DEF RoleOf, TypeOK
        <4> QED BY <4>2, <4>3
      <3>3. RoleOf(req[r].cred) = "admin"  BY <1>4, <2>2, <2>4, <3>2, AdminOnly
      <3> QED BY <1>2, <1>4, <2>1, <3>1, <3>3 DEF Passes, Kind
    <2> QED BY <2>3, <2>4
  <1> QED BY <1>3, <1>4 DEF Authorize

LEMMA HandleKind ==
  ASSUME TypeOK, Held, NEW r \in Request, Handle(r)
  PROVE  Kind(r)
  <1>1. req \in [Request -> RequestRecord] /\ req[r] \in RequestRecord  BY DEF TypeOK
  <1>2. ASSUME (\E code : Answer(r, code)) \/ Raise(r), UNCHANGED <<users, keys, tokens, shown>>
        PROVE  Kind(r)
    BY <1>2, AnswerKeeps DEF Ends, Kind
  <1>3. CASE Login(r)
    <2>1. CASE MoveTo(r, "role") /\ req[r].name \in enabled
      <3>1. enabled' = enabled /\ At(r, "login") /\ UNCHANGED <<users, keys, tokens, shown>>
        BY <1>3 DEF Login, users
      <3> QED BY <2>1, <3>1, MoveKeeps DEF Walks, Kind, At
    <2> QED BY <1>2, <1>3, <2>1 DEF Login
  <1>4. CASE RegisterCheck(r)
    <2>1. CASE MoveTo(r, "roleid")
      <3>1. At(r, "register") /\ UNCHANGED <<users, keys, tokens, shown>>
        BY <1>4 DEF RegisterCheck
      <3> QED BY <2>1, <3>1, MoveKeeps DEF Walks, Kind, At
    <2> QED BY <1>2, <1>4, <2>1 DEF RegisterCheck
  <1>5. CASE RevokeRead(r)
    <2>1. CASE MoveTo(r, "revoke")
      <3>1. At(r, "read") /\ UNCHANGED <<users, keys, tokens, shown>>
        BY <1>5 DEF RevokeRead
      <3> QED BY <2>1, <3>1, MoveKeeps DEF Walks, Kind, At
    <2> QED BY <1>2, <1>5, <2>1 DEF RevokeRead
  <1>6. CASE Whoami(r) \/ RegisterCreate(r)
    BY <1>2, <1>6 DEF Whoami, RegisterCreate
  <1>7. CASE LoginRole(r)
    BY <1>7, AnswerKeeps DEF LoginRole, SignsIn, Kind
  <1>8. CASE RefreshKey(r)
    BY <1>8, AnswerKeeps DEF RefreshKey, ShownAfter, Shows, Kind
  <1>9. CASE RevokeKey(r)
    BY <1>9, AnswerKeeps DEF RevokeKey, Deactivated, Withdraws, Kind
  <1>10. CASE CreateKey(r)
    <2>1. req'[r].at = "refresh" /\ req'[r].key = NextId /\ req'[r].cred = req[r].cred
      BY <1>1, <1>10 DEF CreateKey, RequestRecord
    <2> QED BY <1>10, <2>1 DEF CreateKey, Issues, Kind
  <1> QED BY AuthorizeKind, <1>3, <1>4, <1>5, <1>6, <1>7, <1>8, <1>9, <1>10 DEF Handle

LEMMA FaultKind ==
  ASSUME TypeOK, NEW r \in Request, Fault(r)
  PROVE  Kind(r)
  <1>1. /\ req'[r].at = "done" /\ req'[r].cred = req[r].cred
        /\ UNCHANGED <<users, tokens, shown>>
    BY AnswerKeeps DEF Fault
  <1>2. CASE UNCHANGED keys  BY <1>1, <1>2 DEF Ends, Kind
  <1>3. CASE At(r, "insert") /\ InsertKey  BY <1>1, <1>3 DEF Issues, Kind
  <1>4. CASE At(r, "revoke") /\ active' = Deactivated(r) /\ UNCHANGED <<lastKey, keyRole>>
    BY <1>1, <1>4 DEF Deactivated, Withdraws, Kind
  <1> QED BY <1>2, <1>3, <1>4 DEF Fault

LEMMA StepKind ==
  ASSUME TypeOK, Held, NEW r \in Request, Arrive(r) \/ Handle(r) \/ Fault(r)
  PROVE  Kind(r)
  BY ArriveKind, HandleKind, FaultKind

-----------------------------------------------------------------------------
(* The invariant is inductive.                                             *)

LEMMA SameUsers ==
  ASSUME NEW r \in Request, Kind(r)
  PROVE  users' = users /\ tokens \subseteq tokens'
  BY DEF Kind, Ends, Walks, Comes, Passes, Issues, Shows, Withdraws, SignsIn

LEMMA OwnHeld ==
  ASSUME TypeOK, Held, NEW r \in Request, Kind(r)
  PROVE  OwnFor(r)'
  <1>1. req'[r].at = "done" => OwnFor(r)'  BY DEF OwnFor, At
  <1>2. CASE Walks(r)
    <2>1. enabled' = enabled /\ req'[r].at \notin {"new", "auth"}  BY <1>2 DEF Walks, users
    <2> QED BY <1>2, <2>1 DEF Walks, OwnFor, At
  <1>3. CASE Comes(r)
    BY <1>3 DEF Comes, Sendable, OwnFor, At
  <1>4. CASE Passes(r)
    BY <1>4 DEF Passes, Acting, OwnFor, At
  <1>5. CASE Issues(r)
    BY <1>5 DEF Issues, OwnFor, At
  <1> QED BY <1>1, <1>2, <1>3, <1>4, <1>5 DEF Kind, Ends, Shows, Withdraws, SignsIn

\* Who holds a key to show after a step, and which.
LEMMA HoldersStep ==
  ASSUME IInv, Held, NEW r \in Request, OnlyOf(r), Kind(r)
  PROVE  /\ \A s \in Request \ {r} : At(s, "refresh")' => At(s, "refresh") /\ req'[s].key = req[s].key
         /\ At(r, "refresh")' => req'[r].key = NextId /\ shown' = shown
         /\ shown' = shown \/ (At(r, "refresh") /\ shown' = shown \cup {req[r].key})
  <1>1. \A s \in Request \ {r} : req'[s] = req[s]  BY DEF OnlyOf
  <1>2. At(r, "refresh")' => Issues(r)
    BY DEF Kind, Ends, Walks, Comes, Passes, Issues, Shows, Withdraws, SignsIn, At, Acting
  <1>3. shown' = shown \/ (At(r, "refresh") /\ shown' = shown \cup {req[r].key})
    BY DEF Kind, Ends, Walks, Comes, Passes, Issues, Shows, Withdraws, SignsIn
  <1> QED BY <1>1, <1>2, <1>3 DEF At, Issues

LEMMA HeldStep ==
  ASSUME IInv, Held, [Next]_vars
  PROVE  Held'
  <1>0. TypeOK /\ Stages /\ Reserved  BY DEF IInv
  <1>1. CASE UNCHANGED vars
    BY <1>1 DEF vars, users, Held, HeldFor, At
  <1>2. CASE Kill
    <2>1. \A s \in Request : req'[s].at \in {"new", "done"} /\ (req'[s].at = "new" => req'[s] = req[s])
      BY <1>0, <1>2 DEF Kill, TypeOK, RequestRecord
    <2>2. \A s \in Request : At(s, "new")' => At(s, "new") /\ req'[s].cred = req[s].cred
      BY <2>1 DEF At
    <2> QED BY <2>1, <2>2 DEF Held, HeldFor, At
  <1>3. ASSUME NEW u \in User, Expire(u) PROVE Held'
    <2>1. /\ req' = req /\ shown' = shown /\ enabled' = enabled /\ tokens' = tokens \ {u}
          /\ \A s \in Request : At(s, "auth") => req[s].cred.user # u
      BY <1>3 DEF Expire, users
    <2> QED BY <2>1 DEF Held, HeldFor, At
  <1>4. ASSUME NEW r \in Request, Arrive(r) \/ Handle(r) \/ Fault(r) PROVE Held'
    <2>1. OnlyOf(r) /\ Kind(r)  BY <1>0, <1>4, OneRecord, StepKind
    <2>2. users' = users /\ tokens \subseteq tokens'  BY <2>1, SameUsers
    <2>3. \A s \in Request \ {r} : req'[s] = req[s]  BY <2>1 DEF OnlyOf
    <2>4. ASSUME NEW s \in Request PROVE OwnFor(s)'
      <3>1. CASE s = r  BY <1>0, <2>1, <3>1, OwnHeld
      <3>2. CASE s # r
        <4>1. OwnFor(s)  BY DEF Held, HeldFor, OwnFor
        <4> QED BY <2>2, <2>3, <3>2, <4>1 DEF OwnFor, At, users
      <3> QED BY <3>1, <3>2
    <2>5. /\ \A s \in Request \ {r} : At(s, "refresh")' => At(s, "refresh") /\ req'[s].key = req[s].key
          /\ At(r, "refresh")' => req'[r].key = NextId /\ shown' = shown
          /\ shown' = shown \/ (At(r, "refresh") /\ shown' = shown \cup {req[r].key})
      BY <2>1, HoldersStep
    <2>6. /\ \A s \in Request : At(s, "refresh") => req[s].key \in 1..lastKey
          /\ shown \subseteq 1..lastKey /\ NextId \notin 1..lastKey
      BY <1>0 DEF Stages, StageFor, At, TypeOK, NextId
    <2>7. /\ \A s \in Request : At(s, "refresh") => req[s].key \notin shown
          /\ \A s, t \in Request :
               At(s, "refresh") /\ At(t, "refresh") /\ req[t].key = req[s].key => t = s
      BY DEF Held, HeldFor
    <2>8. ASSUME NEW s \in Request, At(s, "refresh")' PROVE req'[s].key \notin shown'
      <3>1. CASE s = r  BY <2>5, <2>6, <2>8, <3>1
      <3>2. CASE s # r  BY <2>5, <2>7, <2>8, <3>2
      <3> QED BY <3>1, <3>2
    <2>9. ASSUME NEW s \in Request, NEW t \in Request, At(s, "refresh")', At(t, "refresh")',
                 req'[t].key = req'[s].key
          PROVE  t = s
      <3>1. CASE s = r /\ t # r  BY <2>5, <2>6, <2>9, <3>1
      <3>2. CASE s # r /\ t = r  BY <2>5, <2>6, <2>9, <3>2
      <3>3. CASE s # r /\ t # r  BY <2>5, <2>7, <2>9, <3>3
      <3> QED BY <3>1, <3>2, <3>3
    <2> QED BY <2>4, <2>8, <2>9 DEF OwnFor, Held, HeldFor
  <1> QED BY <1>1, <1>2, <1>3, <1>4 DEF Next

LEMMA KeyInvariant == Spec => []KeyInv
  <1>1. Init => Held
    <2> SUFFICES ASSUME Init PROVE Held  OBVIOUS
    <2>1. \A r \in Request : req[r].at = "new" /\ req[r].cred.kind = "none"
      BY DEF Init, Unsent, NoCredential
    <2> QED BY <2>1 DEF Held, HeldFor, At
  <1>2. IInv /\ Held /\ [Next]_vars => Held'  BY HeldStep
  <1> QED BY <1>1, <1>2, Inductive, PTL DEF Spec, KeyInv

-----------------------------------------------------------------------------
(* The refinement, step by step.                                           *)

\* What the ledger sees of one request that moves.
LEMMA Mapped ==
  ASSUME TypeOK, NEW r \in Request, OnlyOf(r)
  PROVE  /\ Office' = IF req'[r].at \in Acting THEN Office \cup {r} ELSE Office \ {r}
         /\ Hand' = [Hand EXCEPT ![r] = IF req'[r].at = "refresh" THEN req'[r].key ELSE 0]
         /\ Badge' = [Badge EXCEPT ![r] = req'[r].cred]
  <1>1. \A s \in Request \ {r} : req'[s] = req[s]  BY DEF OnlyOf
  <1>2. Office' = IF req'[r].at \in Acting THEN Office \cup {r} ELSE Office \ {r}
    BY <1>1 DEF Office
  <1>3. Hand' = [Hand EXCEPT ![r] = IF req'[r].at = "refresh" THEN req'[r].key ELSE 0]
    BY <1>1 DEF Hand, At
  <1>4. Badge' = [Badge EXCEPT ![r] = req'[r].cred]
    BY <1>1 DEF Badge
  <1> QED BY <1>2, <1>3, <1>4

\* Where the ledger has a request before it moves.
LEMMA Standing ==
  ASSUME NEW r \in Request
  PROVE  /\ r \in Office <=> req[r].at \in Acting
         /\ Hand[r] = IF req[r].at = "refresh" THEN req[r].key ELSE 0
         /\ Badge[r] = req[r].cred
         /\ Hand \in [Request -> {Hand[s] : s \in Request}]
         /\ Badge \in [Request -> {Badge[s] : s \in Request}]
  BY DEF Office, Hand, Badge, At

LEMMA EndDismisses ==
  ASSUME KeyInv, NEW r \in Request, OnlyOf(r), Ends(r)
  PROVE  Ledger!Dismiss({r})
  <1>1. /\ Office' = Office \ {r} /\ Hand' = [Hand EXCEPT ![r] = 0]
        /\ Badge' = [Badge EXCEPT ![r] = req[r].cred]
    BY Mapped DEF Ends, Acting, KeyInv, IInv
  <1>2. Badge' = Badge  BY <1>1, Standing
  <1>3. Hand' = [s \in Request |-> IF s \in {r} THEN 0 ELSE Hand[s]]  BY <1>1, Standing
  <1> QED BY <1>1, <1>2, <1>3 DEF Ends, Ledger!Dismiss, Ledger!users, Ledger!keys, users, keys, Admins

LEMMA WalkStutters ==
  ASSUME KeyInv, NEW r \in Request, OnlyOf(r), Walks(r)
  PROVE  UNCHANGED Ledger!vars
  <1>1. req'[r].at \in Acting <=> req[r].at \in Acting  BY DEF Walks, Acting
  <1>2. req'[r].at # "refresh" /\ req[r].at # "refresh"  BY DEF Walks
  <1>3. TypeOK /\ req'[r].cred = req[r].cred  BY DEF Walks, KeyInv, IInv
  <1>4. Office' = Office
    <2>1. Office' = IF req'[r].at \in Acting THEN Office \cup {r} ELSE Office \ {r}
      BY <1>3, Mapped
    <2>2. r \in Office <=> req[r].at \in Acting  BY Standing
    <2> QED BY <1>1, <2>1, <2>2
  <1>5. Hand' = Hand  BY <1>2, <1>3, Mapped, Standing
  <1>6. Badge' = Badge  BY <1>3, Mapped, Standing
  <1> QED BY <1>4, <1>5, <1>6 DEF Walks, Ledger!vars, Ledger!users, Ledger!keys, users, keys, Admins

LEMMA ComeComes ==
  ASSUME KeyInv, NEW r \in Request, OnlyOf(r), Comes(r)
  PROVE  Ledger!Come(r, req'[r].cred)
  <1>0. TypeOK /\ req[r].at = "new" /\ req'[r].at = "auth"  BY DEF Comes, At, KeyInv, IInv
  <1>1. Office' = Office /\ Hand' = Hand /\ Badge' = [Badge EXCEPT ![r] = req'[r].cred]
    <2>1. Office' = Office  BY <1>0, Mapped, Standing DEF Acting
    <2>2. Hand' = Hand  BY <1>0, Mapped, Standing
    <2>3. Badge' = [Badge EXCEPT ![r] = req'[r].cred]  BY <1>0, Mapped
    <2> QED BY <2>1, <2>2, <2>3
  <1>2. Badge[r].kind = "none"  BY Standing DEF Comes, At, KeyInv, Held, HeldFor
  <1> QED BY <1>1, <1>2
      DEF Comes, Sendable, Ledger!Come, Ledger!users, Ledger!keys, users, keys, Admins

LEMMA PassEnters ==
  ASSUME KeyInv, NEW r \in Request, OnlyOf(r), Passes(r)
  PROVE  Ledger!Enter(r)
  <1>1. TypeOK  BY DEF KeyInv, IInv
  <1>2. /\ Office' = Office \cup {r} /\ r \notin Office
        /\ Hand' = Hand /\ Hand[r] = 0 /\ Badge' = Badge /\ Badge[r] = req[r].cred
    BY <1>1, Mapped, Standing DEF Passes, Acting, At
  <1>3. /\ req[r].cred \in Credential
        /\ req[r].cred.kind = "jwt" => req[r].cred.user \in tokens
    BY <1>1 DEF Passes, At, KeyInv, Held, HeldFor, TypeOK, RequestRecord
  <1>4. \/ req[r].cred.kind = "jwt" /\ req[r].cred.user \in tokens \cap Admins
        \/ /\ req[r].cred.kind = "key" /\ req[r].cred.key \in active
           /\ keyRole[req[r].cred.key] = "admin"
    <2>1. CASE req[r].cred.kind = "jwt"
      <3>1. req[r].cred.user \in User  BY <1>3, <2>1 DEF Credential
      <3> QED BY <1>3, <2>1, <3>1 DEF Passes, RoleOf, Admins
    <2>2. CASE req[r].cred.kind # "jwt"
      BY <2>2 DEF Passes, Authenticates, RoleOf
    <2> QED BY <2>1, <2>2
  <1> QED BY <1>2, <1>4
      DEF Passes, Ledger!Enter, Ledger!users, Ledger!keys, users, keys, Admins

LEMMA IssueIssues ==
  ASSUME KeyInv, NEW r \in Request, OnlyOf(r), Issues(r)
  PROVE  Ledger!Issue(r)
  <1>1. TypeOK  BY DEF KeyInv, IInv
  <1>2. r \in Office /\ Office' = Office \ {r}
    BY <1>1, Mapped, Standing DEF Issues, Acting, At
  <1>3. Badge' = Badge  BY <1>1, Mapped, Standing DEF Issues
  <1>4. Hand' \in {Hand, [Hand EXCEPT ![r] = NextId]}
    BY <1>1, Mapped, Standing DEF Issues, At
  <1> QED BY <1>2, <1>3, <1>4
      DEF Issues, InsertKey, NextId, Ledger!Issue, Ledger!users, users, Admins

LEMMA ShowShows ==
  ASSUME KeyInv, NEW r \in Request, OnlyOf(r), Shows(r)
  PROVE  Ledger!Show(r)
  <1>1. TypeOK /\ Stages  BY DEF KeyInv, IInv
  <1>2. r \notin Office /\ Office' = Office  BY <1>1, Mapped, Standing DEF Shows, Acting, At
  <1>3. Badge' = Badge /\ Hand' = [Hand EXCEPT ![r] = 0]
    BY <1>1, Mapped, Standing DEF Shows
  <1>4. Hand[r] = req[r].key  BY Standing DEF Shows, At
  <1>5. req[r].key \in 1..lastKey /\ req[r].key \notin shown
    BY <1>1 DEF Shows, Stages, StageFor, At, KeyInv, Held, HeldFor
  <1>6. req[r].key # 0  BY <1>1, <1>5 DEF TypeOK
  <1> QED BY <1>2, <1>3, <1>4, <1>5, <1>6
      DEF Shows, Ledger!Show, Ledger!users, Ledger!keys, users, keys, Admins

LEMMA WithdrawWithdraws ==
  ASSUME KeyInv, NEW r \in Request, OnlyOf(r), Withdraws(r)
  PROVE  Ledger!Withdraw(r, req[r].key)
  <1>1. TypeOK /\ Stages  BY DEF KeyInv, IInv
  <1>2. r \in Office /\ Office' = Office \ {r}
    BY <1>1, Mapped, Standing DEF Withdraws, Acting, At
  <1>3. Badge' = Badge /\ Hand' = Hand  BY <1>1, Mapped, Standing DEF Withdraws, At
  <1>4. req[r].key \in 1..lastKey  BY <1>1 DEF Withdraws, Stages, StageFor, At
  <1> QED BY <1>2, <1>3, <1>4 DEF Withdraws, Ledger!Withdraw, Ledger!users, users, Admins

LEMMA SignInSignsIn ==
  ASSUME KeyInv, NEW r \in Request, OnlyOf(r), SignsIn(r)
  PROVE  req[r].name \in enabled /\ Ledger!SignIn(req[r].name)
  <1>1. TypeOK  BY DEF KeyInv, IInv
  <1>2. Office' = Office /\ Badge' = Badge /\ Hand' = Hand
    <2>1. /\ req[r].at = "role" /\ req'[r].at = "done"
          /\ req'[r].cred = req[r].cred
      BY DEF SignsIn, At
    <2>2. Office' = Office  BY <1>1, <2>1, Mapped, Standing DEF Acting
    <2>3. Hand' = Hand  BY <1>1, <2>1, Mapped, Standing
    <2>4. Badge' = Badge  BY <1>1, <2>1, Mapped, Standing
    <2> QED BY <2>2, <2>3, <2>4
  <1>3. req[r].name \in enabled  BY DEF SignsIn, KeyInv, Held, HeldFor
  <1> QED BY <1>2, <1>3
      DEF SignsIn, Ledger!SignIn, Ledger!keys, users, keys, Admins

LEMMA KillDismisses ==
  ASSUME KeyInv, Kill
  PROVE  Ledger!Dismiss(Request)
  <1>1. TypeOK  BY DEF KeyInv, IInv
  <1>2. \A r \in Request : req'[r].at \in {"new", "done"} /\ req'[r].cred = req[r].cred
    BY <1>1 DEF Kill, TypeOK, RequestRecord
  <1>3. Office' = Office \ Request  BY <1>2 DEF Office, Acting
  <1>4. Hand' = [r \in Request |-> IF r \in Request THEN 0 ELSE Hand[r]]
    BY <1>2 DEF Hand, At
  <1>5. Badge' = Badge  BY <1>2 DEF Badge
  <1> QED BY <1>3, <1>4, <1>5
      DEF Kill, Ledger!Dismiss, Ledger!users, Ledger!keys, users, keys, Admins

\* Every step of the API is a step of the ledger, or leaves it alone.
LEMMA KeyLedgerStep ==
  KeyInv /\ [Next]_vars => [Ledger!Next]_(Ledger!vars)
  <1> SUFFICES ASSUME KeyInv, [Next]_vars PROVE Ledger!Next \/ UNCHANGED Ledger!vars
    OBVIOUS
  <1>0. IInv /\ Held /\ TypeOK /\ Stages /\ Reserved  BY DEF KeyInv, IInv
  <1>1. CASE UNCHANGED vars
    BY <1>1 DEF vars, users, keys, Ledger!vars, Ledger!users, Ledger!keys,
       Admins, Office, Hand, Badge, At
  <1>2. CASE Kill
    <2>1. Ledger!Dismiss(Request)  BY <1>2, KillDismisses
    <2> QED BY <2>1 DEF Ledger!Next
  <1>3. ASSUME NEW u \in User, Expire(u) PROVE Ledger!Next
    <2>1. Ledger!SignOut(u)
      BY <1>3 DEF Expire, Ledger!SignOut, Ledger!keys, users, keys, Admins, Office, Hand, Badge, At
    <2> QED BY <2>1 DEF Ledger!Next
  <1>4. ASSUME NEW r \in Request, Arrive(r) \/ Handle(r) \/ Fault(r)
        PROVE  Ledger!Next \/ UNCHANGED Ledger!vars
    <2>1. OnlyOf(r) /\ Kind(r)  BY <1>0, <1>4, OneRecord, StepKind
    <2>2. CASE Ends(r)
      <3>1. Ledger!Dismiss({r})  BY <2>1, <2>2, EndDismisses
      <3> QED BY <3>1 DEF Ledger!Next
    <2>3. CASE Walks(r)  BY <2>1, <2>3, WalkStutters
    <2>4. CASE Comes(r)
      <3>1. Ledger!Come(r, req'[r].cred) /\ req'[r].cred \in Credential
        BY <2>1, <2>4, ComeComes DEF Comes
      <3> QED BY <3>1 DEF Ledger!Next
    <2>5. CASE Passes(r)
      <3>1. Ledger!Enter(r)  BY <2>1, <2>5, PassEnters
      <3> QED BY <3>1 DEF Ledger!Next
    <2>6. CASE Issues(r)
      <3>1. Ledger!Issue(r)  BY <2>1, <2>6, IssueIssues
      <3> QED BY <3>1 DEF Ledger!Next
    <2>7. CASE Shows(r)
      <3>1. Ledger!Show(r)  BY <2>1, <2>7, ShowShows
      <3> QED BY <3>1 DEF Ledger!Next
    <2>8. CASE Withdraws(r)
      <3>1. Ledger!Withdraw(r, req[r].key)  BY <2>1, <2>8, WithdrawWithdraws
      <3>2. req[r].key \in Id
        BY <1>0, <2>8, BoundsAssumption DEF Withdraws, Stages, StageFor, At, TypeOK, Id
      <3> QED BY <3>1, <3>2 DEF Ledger!Next
    <2>9. CASE SignsIn(r)
      <3>1. req[r].name \in enabled /\ Ledger!SignIn(req[r].name)
        BY <2>1, <2>9, SignInSignsIn
      <3>2. req[r].name \in User  BY <1>0, <3>1 DEF TypeOK
      <3> QED BY <3>1, <3>2 DEF Ledger!Next
    <2> QED BY <2>1, <2>2, <2>3, <2>4, <2>5, <2>6, <2>7, <2>8, <2>9 DEF Kind
  <1> QED BY <1>1, <1>2, <1>3, <1>4 DEF Next

\* The API's requests, however many overlap, fail or die, keep the ledger of keys: only
\* an administrator's request issues or withdraws one, at most once, ids are never used
\* again, and no key is shown twice.
THEOREM ImplementsLedger == Spec => KeepsKeyLedger
  <1>1. Init => Ledger!Init
    <2> SUFFICES ASSUME Init PROVE Ledger!Init  OBVIOUS
    <2>1. \A r \in Request : req[r] = Unsent  BY DEF Init
    <2>2. Office = {}  BY <2>1 DEF Office, Acting, Unsent
    <2>3. Hand = [r \in Request |-> 0]  BY <2>1 DEF Hand, At, Unsent
    <2>4. Badge \in [Request -> {b \in Credential : b.kind = "none"}]
      <3>1. NoCredential \in Credential /\ NoCredential.kind = "none"
        BY DEF NoCredential, Credential
      <3>2. \A r \in Request : Badge[r] = NoCredential  BY <2>1 DEF Badge, Unsent
      <3>3. Badge = [r \in Request |-> Badge[r]]  BY DEF Badge
      <3> QED BY <3>1, <3>2, <3>3
    <2>5. lastKey \in Nat /\ 1..lastKey \subseteq Id
      BY BoundsAssumption DEF Init, Id
    <2> QED BY <2>2, <2>3, <2>4, <2>5 DEF Init, Ledger!Init, Admins
  <1>2. KeyInv /\ [Next]_vars => [Ledger!Next]_(Ledger!vars)  BY KeyLedgerStep
  <1> QED BY <1>1, <1>2, KeyInvariant, PTL DEF Spec, KeepsKeyLedger, Ledger!Spec

-----------------------------------------------------------------------------
(* What the ledger says of a key from its first day to its last.           *)

\* A key keeps its role, and one that does not work never works again.
KeysStay ==
  \A k \in 1..lastKey : keyRole'[k] = keyRole[k] /\ (k \in active' => k \in active)

LEMMA LedgerKeys ==
  ASSUME TypeOK, Ledger!Next \/ UNCHANGED Ledger!vars
  PROVE  KeysStay
  <1>1. ASSUME NEW k \in 1..lastKey
        PROVE  /\ k \in Id /\ k # lastKey + 1
               /\ \A r \in Role : [keyRole EXCEPT ![lastKey + 1] = r][k] = keyRole[k]
    BY BoundsAssumption DEF TypeOK, Id
  <1>2. \/ UNCHANGED <<lastKey, keyRole, active>>
        \/ /\ active' = active \cup {lastKey + 1}
           /\ \E r \in Role : keyRole' = [keyRole EXCEPT ![lastKey + 1] = r]
        \/ keyRole' = keyRole /\ active' \subseteq active
    BY DEF Ledger!Next, Ledger!SignIn, Ledger!SignOut, Ledger!Come, Ledger!Enter, Ledger!Issue,
       Ledger!Show, Ledger!Withdraw, Ledger!Dismiss, Ledger!keys, Ledger!vars
  <1> QED BY <1>1, <1>2 DEF KeysStay

\* A revocation holds even when its answer is lost, and no revoked id comes back with
\* another role (auth.py:84-119).
THEOREM KeysAreForGood == Spec => [][KeysStay]_vars
  <1>1. KeyInv /\ [Next]_vars => [KeysStay]_vars
    <2> SUFFICES ASSUME KeyInv, [Next]_vars PROVE KeysStay  OBVIOUS
    <2>1. Ledger!Next \/ UNCHANGED Ledger!vars  BY KeyLedgerStep
    <2> QED BY <2>1, LedgerKeys DEF KeyInv, IInv
  <1> QED BY <1>1, KeyInvariant, PTL DEF Spec

-----------------------------------------------------------------------------
(* What `RequestsAnswered` rests on but fairness.                                  *)

\* Steps of its own that a request has before it at most.
Remaining(r) ==
  CASE At(r, "new") -> 4
    [] At(r, "auth") -> 3
    [] req[r].at \in {"login", "register", "insert", "read"} -> 2
    [] req[r].at \in {"role", "roleid", "me", "refresh", "revoke"} -> 1
    [] OTHER -> 0

Advances ==
  /\ \A r \in Request : Remaining(r)' <= Remaining(r)
  /\ \A r \in Request : Arrive(r) \/ Handle(r) \/ Fault(r) => Remaining(r)' < Remaining(r)

LEMMA OwnStepAdvances ==
  ASSUME TypeOK, Held, NEW r \in Request, Arrive(r) \/ Handle(r) \/ Fault(r)
  PROVE  Remaining(r)' < Remaining(r)
  <1>0. req \in [Request -> RequestRecord] /\ req[r] \in RequestRecord  BY DEF TypeOK
  <1>1. ASSUME (\E code : Answer(r, code)) \/ Raise(r) PROVE req'[r].at = "done"
    BY <1>1, AnswerKeeps
  <1>2. ASSUME NEW stage, MoveTo(r, stage) PROVE req'[r].at = stage
    BY <1>2, MoveKeeps
  <1> USE DEF Remaining, At
  <1>3. CASE Arrive(r)
    <2>1. Kind(r) /\ req[r].at = "new"  BY <1>3, ArriveKind DEF Arrive
    <2>2. req'[r].at \in {"done", "login", "role", "me", "auth"}
      BY <2>1 DEF Kind, Ends, Walks, Comes, Passes, Issues, Shows, Withdraws, SignsIn
    <2> QED BY <2>1, <2>2
  <1>4. CASE Authorize(r)
    <2>1. First(req[r].op) \in {"register", "me", "insert", "read"}  BY DEF First
    <2>2. req[r].at = "auth" /\ req'[r].at \in {"done", First(req[r].op)}
      BY <1>0, <1>1, <1>4 DEF Authorize, RequestRecord
    <2> QED BY <2>1, <2>2
  <1>5. CASE Login(r) \/ RegisterCheck(r) \/ RevokeRead(r)
    <2>1. /\ req[r].at \in {"login", "register", "read"}
          /\ req'[r].at \in {"done", "role", "roleid", "revoke"}
      BY <1>1, <1>2, <1>5 DEF Login, RegisterCheck, RevokeRead
    <2> QED BY <2>1
  <1>6. CASE CreateKey(r)
    <2>1. req[r].at = "insert" /\ req'[r].at = "refresh"
      BY <1>0, <1>6 DEF CreateKey, RequestRecord
    <2> QED BY <2>1
  <1>7. CASE LoginRole(r) \/ RegisterCreate(r) \/ Whoami(r) \/ RefreshKey(r) \/ RevokeKey(r)
    <2>1. req[r].at \in {"role", "roleid", "me", "refresh", "revoke"} /\ req'[r].at = "done"
      BY <1>1, <1>7 DEF LoginRole, RegisterCreate, Whoami, RefreshKey, RevokeKey
    <2> QED BY <2>1
  <1>8. CASE Fault(r)
    <2>1. req[r].at \in InHandler \cup {"auth"} /\ req'[r].at = "done"
      BY <1>1, <1>8 DEF Fault, UsesDatabase
    <2> QED BY <2>1 DEF InHandler
  <1> QED BY <1>3, <1>4, <1>5, <1>6, <1>7, <1>8 DEF Handle

\* Each step of a request leaves it fewer, whatever the others do: a request is answered
\* after three steps of its handler at most (auth.py:31-119, dependencies.py:35-78).
THEOREM HandlersTerminate == Spec => [][Advances]_vars
  <1>1. KeyInv /\ [Next]_vars => [Advances]_vars
    <2> SUFFICES ASSUME KeyInv, Next PROVE Advances
      <3>1. UNCHANGED vars => [Advances]_vars  OBVIOUS
      <3> QED BY <3>1
    <2>0. TypeOK /\ Stages /\ Reserved /\ Held  BY DEF KeyInv, IInv
    <2>1. ASSUME NEW r \in Request, Arrive(r) \/ Handle(r) \/ Fault(r)
          PROVE  Remaining(r)' < Remaining(r)
      BY <2>0, <2>1, OwnStepAdvances
    <2> SUFFICES ASSUME NEW r \in Request PROVE Remaining(r)' <= Remaining(r)
      BY <2>1 DEF Advances
    <2>2. Remaining(r) \in Nat /\ Remaining(r)' \in Nat  BY DEF Remaining
    <2>3. ASSUME req'[r] = req[r] PROVE Remaining(r)' <= Remaining(r)
      <3>1. Remaining(r)' = Remaining(r)  BY <2>3 DEF Remaining, At
      <3> QED BY <2>2, <3>1
    <2>4. CASE Kill
      <3>1. req'[r] = req[r] \/ req'[r].at = "done"
        BY <2>0, <2>4 DEF Kill, TypeOK, RequestRecord
      <3>2. req'[r].at = "done" => Remaining(r)' = 0  BY DEF Remaining, At
      <3> QED BY <2>2, <2>3, <3>1, <3>2
    <2>5. ASSUME NEW u \in User, Expire(u) PROVE Remaining(r)' <= Remaining(r)
      BY <2>3, <2>5 DEF Expire
    <2>6. ASSUME NEW s \in Request, Arrive(s) \/ Handle(s) \/ Fault(s)
          PROVE  Remaining(r)' <= Remaining(r)
      <3>1. CASE s = r  BY <2>1, <2>2, <2>6, <3>1
      <3>2. CASE s # r
        <4>1. req'[r] = req[r]  BY <2>0, <2>6, <3>2, OneRecord DEF OnlyOf
        <4> QED BY <2>3, <4>1
      <3> QED BY <3>1, <3>2
    <2> QED BY <2>4, <2>5, <2>6 DEF Next
  <1> QED BY <1>1, KeyInvariant, PTL DEF Spec

=============================================================================
