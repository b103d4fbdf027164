----------------------------- MODULE KeyLedger -----------------------------
(***************************************************************************)
(* What the API promises about its keys.  Only a request that came with an *)
(* administrator's token or key, good when it is looked at, gets to act,   *)
(* and it acts once: it issues one key under a new id, or withdraws one.   *)
(* A new key is shown to who asked for it, once, or to nobody.  A key      *)
(* keeps its role; a withdrawn one is withdrawn for good.                  *)
(***************************************************************************)
EXTENDS Naturals

CONSTANTS
  Request,
  User,
  Key,      \* ids
  Role,
  Badge     \* what a request can come with: nothing, a user's token, a key

VARIABLES
  admins, enabled,  \* users
  signedIn,         \* users with a token that verifies
  issued,           \* the last id given
  granted,          \* of each key: its role
  working,          \* keys that open
  shown,            \* keys somebody was shown
  badge,            \* of each request: what it came with
  office,           \* requests let in as an administrator's that have not acted yet
  hand              \* of each request: the key it has yet to show, or 0

users == <<admins, enabled, signedIn>>
keys  == <<issued, granted, working>>
vars  == <<users, keys, shown, badge, office, hand>>

Init ==
  /\ admins \in SUBSET User /\ enabled \in SUBSET User /\ signedIn \in SUBSET User
  /\ issued \in Nat /\ 1..issued \subseteq Key
  /\ granted \in [Key -> Role]
  /\ working \in SUBSET (1..issued)
  /\ shown = 1..issued
  /\ badge \in [Request -> {b \in Badge : b.kind = "none"}]
  /\ office = {}
  /\ hand = [r \in Request |-> 0]

SignIn(u) ==
  /\ u \in enabled
  /\ signedIn' = signedIn \cup {u}
  /\ UNCHANGED <<admins, enabled, keys, shown, badge, office, hand>>

SignOut(u) ==
  /\ signedIn' = signedIn \ {u}
  /\ UNCHANGED <<admins, enabled, keys, shown, badge, office, hand>>

\* Nobody can send a key that was never shown.
Come(r, b) ==
  /\ badge[r].kind = "none"
  /\ b.kind = "jwt" => b.user \in signedIn
  /\ b.kind = "key" => b.key \in shown
  /\ badge' = [badge EXCEPT ![r] = b]
  /\ UNCHANGED <<users, keys, shown, office, hand>>

Enter(r) ==
  /\ r \notin office /\ hand[r] = 0
  /\ \/ badge[r].kind = "jwt" /\ badge[r].user \in signedIn \cap admins
     \/ badge[r].kind = "key" /\ badge[r].key \in working /\ granted[badge[r].key] = "admin"
  /\ office' = office \cup {r}
  /\ UNCHANGED <<users, keys, shown, badge, hand>>

\* The key is in the table; whoever asked has it in hand, or was cut off.
Issue(r) ==
  /\ r \in office
  /\ issued' = issued + 1
  /\ working' = working \cup {issued + 1}
  /\ \E role \in Role : granted' = [granted EXCEPT ![issued + 1] = role]
  /\ office' = office \ {r}
  /\ hand' \in {hand, [hand EXCEPT ![r] = issued + 1]}
  /\ UNCHANGED <<users, shown, badge>>

Show(r) ==
  /\ hand[r] # 0 /\ hand[r] \notin shown
  /\ shown' = shown \cup {hand[r]}
  /\ hand' = [hand EXCEPT ![r] = 0]
  /\ UNCHANGED <<users, keys, badge, office>>

Withdraw(r, k) ==
  /\ r \in office
  /\ k \in 1..issued
  /\ working' = working \ {k}
  /\ office' = office \ {r}
  /\ UNCHANGED <<users, issued, granted, shown, badge, hand>>

\* Answers without effect, failures and the end of the process.
Dismiss(gone) ==
  /\ office' = office \ gone
  /\ hand' = [r \in Request |-> IF r \in gone THEN 0 ELSE hand[r]]
  /\ UNCHANGED <<users, keys, shown, badge>>

Next ==
  \/ \E u \in User : SignIn(u) \/ SignOut(u)
  \/ \E r \in Request :
       Enter(r) \/ Issue(r) \/ Show(r) \/ (\E b \in Badge : Come(r, b))
         \/ (\E k \in Key : Withdraw(r, k))
  \/ \E gone \in SUBSET Request : Dismiss(gone)

Spec == Init /\ [][Next]_vars

=============================================================================
