---------------------------- MODULE MCDirectory ----------------------------
(* Two users, three departments, two tenants, and two roles that the first  *)
(* user has.                                                                *)
EXTENDS Directory, TLC

CONSTANTS u1, u2

McMember == [u \in {u1, u2} |-> IF u = u1 THEN Role ELSE {}]

Symmetry == Permutations(Dept) \cup Permutations(Role) \cup Permutations(Tenant)

Kind(calls, overlap, faults) == [calls |-> calls, overlap |-> overlap, faults |-> faults]
Users == {"create_user", "create_registration_profile", "update_user_profile",
          "activate_user", "enable_user", "disable_user", "delete_user",
          "update_user_admin", "get_user", "get_user_by_email"}
Departments == {"create_department", "update_department", "delete_department"}
Roles == {"create_role", "update_role", "delete_role"}
Tenants == {"create_tenant", "update_tenant", "delete_tenant"}
McEnvironment ==
  {Kind(Users, FALSE, FALSE),
   Kind({"update_user_profile", "enable_user", "disable_user", "delete_user"}, TRUE, FALSE),
   Kind({"get_user", "delete_user", "update_user_admin"}, FALSE, TRUE),
   Kind(Departments, FALSE, FALSE),
   Kind(Departments, TRUE, FALSE),
   Kind(Roles, FALSE, FALSE),
   Kind({"create_role"}, TRUE, FALSE),
   Kind(Tenants, TRUE, FALSE),
   Kind({"update_user_admin", "create_department"}, FALSE, FALSE),
   Kind({"create_user", "create_department"}, FALSE, FALSE)}
=============================================================================
