-------------------------- MODULE DirectoryClaims --------------------------
(***************************************************************************)
(* The selections under which the directory half does not keep             *)
(* NoGroupRoleMerge: roles and groups that are selected one by one.        *)
(***************************************************************************)
EXTENDS MCDirectory

\* Roles alone, then groups alone.
RolesThenGroups ==
    {Cmd({"roles"}, TRUE, FALSE, FALSE), Cmd({"groups"}, TRUE, FALSE, FALSE)}
=============================================================================
