---------------------------- MODULE AdminRoster ----------------------------
(***************************************************************************)
(* What the account endpoints promise about roles, with no locks and no    *)
(* interleaving: accounts appear as ordinary users, roles are exchanged,   *)
(* accounts disappear, and the step that takes an admin away happens only  *)
(* while another admin exists.  AdminGuard implements it.                  *)
(***************************************************************************)
CONSTANTS Users, Seed   \* user names; the ADMIN_USERNAME of the environment

VARIABLE role           \* role[u]: the role column, or "none" if u has no row

Admins == {u \in Users : role[u] = "admin"}

Init == role = [u \in Users |-> IF u = Seed THEN "admin" ELSE "none"]

Join(u) == role[u] = "none" /\ role' = [role EXCEPT ![u] = "user"]

Promote(u) == role[u] # "none" /\ role' = [role EXCEPT ![u] = "admin"]

\* An admin may go only if one stays.
MayGo(u) == role[u] # "none" /\ \E a \in Admins : role[u] = "admin" => a # u

Demote(u) == MayGo(u) /\ role' = [role EXCEPT ![u] = "user"]

Delete(u) == MayGo(u) /\ role' = [role EXCEPT ![u] = "none"]

Next == \E u \in Users : Join(u) \/ Promote(u) \/ Demote(u) \/ Delete(u)

Spec == Init /\ [][Next]_role
=============================================================================
