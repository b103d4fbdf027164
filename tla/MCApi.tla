------------------------------- MODULE MCApi -------------------------------
(* ApiRequests for TLC. *)
EXTENDS ApiRequests, TLC

CONSTANTS r1, r2, r3, root, nobody

OneUser == {root}
OneRequest == {r1}
ThreeRequests == {r1, r2, r3}

\* The user is an administrator, as is the first key; the second is a viewer.  Two
\* requests do anything, in an order without loss of generality; or two revoke a key
\* and a third uses it.
Two == At(r3, "new") /\ (At(r1, "new") => At(r2, "new"))

Three ==
  /\ enabled = {} /\ tokens = {root} /\ lastKey >= 1 /\ faults = 0 /\ stops = 0
  /\ \A r \in {r1, r2} : req[r].op = "revoke" \/ At(r, "new")
  /\ req[r3].op = "me" \/ At(r3, "new")

Scope ==
  /\ role[root] = "admin"
  /\ \A k \in 1..lastKey : keyRole[k] = IF k = 1 THEN "admin" ELSE "viewer"
  /\ Two \/ Three

\* A fair step leaves the scope by the role of the new key alone, and can be taken with
\* another, so that fairness means the same as in Spec.
MCInit == Init /\ Scope
MCNext == Next /\ Scope'
MCSpec == MCInit /\ [][MCNext]_vars /\ Fairness

=============================================================================
