--------------------------- MODULE MCPermissions ---------------------------
(* Two users, an administrator and one without a tenant, and the two roles  *)
(* of the seed script.                                                      *)
EXTENDS Permissions

McBundle == {{"user:list"}, Permission}

Kind(calls, routes, limit, superusers, overlap, faults) ==
  [calls |-> calls, routes |-> routes, limit |-> limit, superusers |-> superusers,
   overlap |-> overlap, faults |-> faults]
McEnvironment ==
  {Kind({"assign_role", "remove_role"}, {"users"}, 1, {}, TRUE, FALSE),
   Kind({"update_user_roles"}, {"users"}, 1, {}, TRUE, FALSE),
   Kind({"update_user_admin", "delete_user"}, {"users"}, 1, Administrator, TRUE, FALSE),
   Kind({"update_role_permissions", "delete_role"}, {"roles"}, 1, {}, TRUE, FALSE),
   Kind({"assign_menu_to_role", "remove_menu_from_role"}, {"roles"}, 1, {}, FALSE, FALSE),
   Kind({"update_role_permissions", "seed_rbac"}, {"roles"}, 2, {}, FALSE, FALSE),
   Kind({"update_role_permissions", "assign_role"}, Route, 2, {}, FALSE, FALSE),
   Kind({"update_user_roles", "remove_role"}, {"users"}, 1, {}, FALSE, FALSE),
   Kind({"remove_role"}, {"users"}, 1, {}, FALSE, TRUE)}
\* The smallest one in which a fill meets an assignment
McAssigning == {Kind({"assign_role"}, {"users"}, 1, {}, TRUE, FALSE)}
=============================================================================
