---------------------------- MODULE MCDirectory ----------------------------
(***************************************************************************)
(* Two small realms.  In the first, n1 is both a group and a role, n2 is a *)
(* role only, and both users have the same email address.  The second adds *)
(* what the code refuses or leaves out: a group with subgroups, a          *)
(* composite and a built-in role, a disabled user and one without email.   *)
(***************************************************************************)
EXTENDS Directory

CONSTANTS n1, n2, n3, n4, u1, u2, mail1

MCNames == {n1, n2}
MCUsers == {u1, u2}
MCEmails == {mail1, NoEmail}
MCKcGroups == {n1}
MCKcRoles == {n1, n2}
MCMembersOf == [g \in MCKcGroups |-> {u1}]
MCHoldersOf == [r \in MCKcRoles |-> IF r = n1 THEN {u1} ELSE {u2}]
MCEmailOf == [u \in MCUsers |-> mail1]

OddNames == {n1, n2, n3, n4}
OddKcGroups == {n1, n2}
OddNested == {n2}
OddKcRoles == {n2, n3, n4}
OddComposite == {n3}
OddBuiltin == {n4}
OddMembersOf == [g \in OddKcGroups |-> MCUsers]
OddHoldersOf == [r \in OddKcRoles |-> MCUsers]
OddEmailOf == [u \in MCUsers |-> IF u = u1 THEN mail1 ELSE NoEmail]

Cmd(scope, apply, update, mail) ==
    [scope |-> scope, apply |-> apply, update |-> update, mail |-> mail]

\* Everything, applied.
Full == {Cmd(Kinds, TRUE, FALSE, FALSE)}

\* Everything, applied, with and without updates and recovery mail.
FullMail == {Cmd(Kinds, TRUE, FALSE, TRUE), Cmd(Kinds, TRUE, TRUE, FALSE)}

\* A plan and its execution, for selections in which every pass that is needed
\* is selected itself (one that only supports another plans what nothing
\* creates), with and without updates.
Planned ==
    {Cmd(Kinds, a, FALSE, FALSE) : a \in BOOLEAN}
    \cup {Cmd({"groups", "users", "memberships"}, a, TRUE, FALSE) :
             a \in BOOLEAN}

\* One kind after the other, in pieces: roles come with groups or memberships.
Pieces ==
    {Cmd(s, TRUE, FALSE, FALSE) : s \in
        {{"groups", "roles"}, {"roles", "memberships"}, {"memberships"}}}
    \cup {Cmd({"roles", "memberships"}, FALSE, TRUE, FALSE)}

PlansAndPieces == Planned \cup Pieces
=============================================================================
