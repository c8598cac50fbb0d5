----------------------------- MODULE Directory -----------------------------
(***************************************************************************)
(* The directory half of kc2ak: groups, realm roles, users, memberships,   *)
(* role assignments and recovery mail, run after run against Authentik     *)
(* (cli.py from "Preconditions passed", and the migrate_* functions of     *)
(* migrator.py it calls).  One action is one step of a loop: a lookup with *)
(* the branches that write nothing, or a write call with its answer; the   *)
(* order of a loop is left open.  Keycloak does not change.                *)
(*                                                                         *)
(* Source clients, identity providers and federated links are the other    *)
(* half: they share no state with this one.                                *)
(***************************************************************************)
EXTENDS Authentik, FiniteSets

CONSTANTS
    KcGroups,       \* names of the realm's top-level groups
    Nested,         \* those with subgroups (mappers/groups.py is_nested)
    KcRoles,        \* names of the realm's roles
    BuiltinRoles,   \* mappers/roles.py builtin_role_names
    Composite,      \* mappers/roles.py is_composite
    MembersOf,      \* KcGroups -> set of usernames
    HoldersOf,      \* KcRoles -> set of usernames assigned directly
    EmailOf,        \* Users -> Emails
    Active,         \* enabled users
    Invocations     \* the command lines that are used

Kinds == {"groups", "roles", "users", "memberships"}
Options == [scope : SUBSET Kinds, apply : BOOLEAN,
            update : BOOLEAN, mail : BOOLEAN]

ASSUME KeycloakAssumption ==
    /\ KcGroups \subseteq Names /\ Nested \subseteq KcGroups
    /\ KcRoles \subseteq Names
    /\ MembersOf \in [KcGroups -> SUBSET Users]
    /\ HoldersOf \in [KcRoles -> SUBSET Users]
    /\ EmailOf \in [Users -> Emails] /\ Active \subseteq Users
ASSUME InvocationAssumption == Invocations \subseteq Options

Flat == KcGroups \ Nested
Roles == KcRoles \ BuiltinRoles
Memberships == {p \in Flat \X Users : p[2] \in MembersOf[p[1]]}
Assignments == {p \in Roles \X Users : p[2] \in HoldersOf[p[1]]}

VARIABLES
    opts,           \* the command line of the current run
    phase,          \* where the run is; idle before the first one
    call,           \* the write that follows from the last lookup, if any
    groupRes,       \* the report rows: outcome per group, "none" without row
    roleRes,
    userRes,
    memRes,
    asgRes,
    groupMembers,   \* group_members; its domain is that of group_pks
    roleMembers,    \* role_members; its domain is that of role_pks
    userPks,        \* usernames whose pk is known
    planned,        \* planned_emails
    flagged,        \* users reported with a duplicate email
    asked,          \* users the mail loop is through with
    sent            \* its counter

rows == <<groupRes, roleRes, userRes, memRes, asgRes>>
known == <<groupMembers, roleMembers, userPks>>
mailLoop == <<asked, sent>>

\* History, read by properties only.
VARIABLES
    before,         \* at the start of the run: was the target complete, and
                    \* the accounts it had
    via,            \* per name: as what the tool took the Authentik group
    granted         \* what any command line so far allowed to be written

history == <<before, via, granted>>
runVars == <<opts, phase, call, rows, known, planned, flagged, mailLoop>>
vars == <<akVars, runVars, history>>

Outcomes == {"CREATED", "SKIPPED", "UPDATED", "CONFLICT", "FAILED"}
NoCall == [op |-> "none"]
Phases ==
    {"groups", "roles", "users", "memberships", "assignments", "mail"}
Running == phase \in Phases
InScope(k) == k \in opts.scope

\* Everything Keycloak has that can be migrated is in Authentik.  A username
\* held with another email, and a role whose name is not a migrated role's,
\* are conflicts: their memberships are not expected.
Complete ==
    /\ \A n \in Flat \cup (Roles \ Composite) : akGroup[n] # "absent"
    /\ \A u \in Users : Exists(u)
    /\ \A p \in Memberships :
          akUser[p[2]].email = EmailOf[p[2]] => p[2] \in akMembers[p[1]]
    /\ \A p \in Assignments :
          akGroup[p[1]] = "role" /\ akUser[p[2]].email = EmailOf[p[2]]
              => p[2] \in akMembers[p[1]]

Init ==
    /\ AkInit
    /\ opts = [scope |-> {}, apply |-> FALSE, update |-> FALSE, mail |-> FALSE]
    /\ phase = "idle"
    /\ call = NoCall
    /\ groupRes = [g \in KcGroups |-> "none"]
    /\ roleRes = [r \in Roles |-> "none"]
    /\ userRes = [u \in Users |-> "none"]
    /\ memRes = [p \in Memberships |-> "none"]
    /\ asgRes = [p \in Assignments |-> "none"]
    /\ groupMembers = [g \in {} |-> {}]
    /\ roleMembers = [r \in {} |-> {}]
    /\ userPks = {}
    /\ planned = {}
    /\ flagged = {}
    /\ asked = {}
    /\ sent = 0
    /\ before = [complete |-> FALSE, user |-> akUser]
    /\ via = [n \in Names |-> {}]
    /\ granted = {}

-----------------------------------------------------------------------------
\* The run: cli.py.

\* A new process: everything in memory is fresh.  --send-recovery-email
\* without --apply is a usage error, an empty --only selects nothing.
Start(o) ==
    /\ ~Running
    /\ o.mail => o.apply
    /\ opts' = o
    /\ phase' = "groups"
    /\ call' = NoCall
    /\ groupRes' = [g \in KcGroups |-> "none"]
    /\ roleRes' = [r \in Roles |-> "none"]
    /\ userRes' = [u \in Users |-> "none"]
    /\ memRes' = [p \in Memberships |-> "none"]
    /\ asgRes' = [p \in Assignments |-> "none"]
    /\ groupMembers' = [g \in {} |-> {}]
    /\ roleMembers' = [r \in {} |-> {}]
    /\ userPks' = {}
    /\ planned' = {}
    /\ flagged' = {}
    /\ asked' = {}
    /\ sent' = 0
    /\ before' = [complete |-> Complete, user |-> akUser]
    /\ granted' = granted \cup
          (IF o.apply THEN o.scope ELSE {}) \cup
          (IF o.apply /\ o.update THEN {"update"} ELSE {}) \cup
          (IF o.mail THEN {"mail"} ELSE {})
    /\ UNCHANGED <<akVars, via>>

\* Which passes run, and which of them may write.  A pass that only supports
\* another one runs dry.
Needed(ph) ==
    CASE ph = "groups" -> InScope("groups") \/ InScope("memberships")
      [] ph \in {"roles", "assignments"} -> InScope("roles")
      [] ph = "users" ->
            InScope("users") \/ InScope("memberships") \/ InScope("roles")
      [] ph = "memberships" -> InScope("memberships")
      [] ph = "mail" -> opts.mail

\* A bug: a supporting pass writes what it does not find.
AppliesUnscoped(k) == opts.apply

Applies(k) == opts.apply /\ InScope(k)

\* A bug: an account that was there before is mailed as well.
RecipientsAnyMatch ==
    {u \in Active : userRes[u] \in {"CREATED", "SKIPPED"}
                    /\ EmailOf[u] # NoEmail /\ u \in userPks}

\* eligible_for_recovery_mail, and the loop's test for an integer ref.
Eligible == {u \in Active : userRes[u] = "CREATED" /\ EmailOf[u] # NoEmail}

Recipients == Eligible \cap userPks

Pending(res) == {x \in DOMAIN res : res[x] = "none"}

Over(ph) ==
    CASE ph = "groups" -> Pending(groupRes) = {}
      [] ph = "roles" -> Pending(roleRes) = {}
      [] ph = "users" -> Pending(userRes) = {}
      [] ph = "memberships" -> Pending(memRes) = {}
      [] ph = "assignments" -> Pending(asgRes) = {}
      [] ph = "mail" -> Recipients \subseteq asked

After == [groups |-> "roles", roles |-> "users", users |-> "memberships",
          memberships |-> "assignments", assignments |-> "mail",
          mail |-> "done"]

Advance ==
    /\ Running
    /\ call = NoCall
    /\ Needed(phase) => Over(phase)
    /\ phase' = After[phase]
    /\ UNCHANGED <<akVars, opts, call, rows, known, planned, flagged,
                   mailLoop, history>>

\* The process ends without a report: a Keycloak read that fails outside the
\* try blocks (an expired token answers 401), or somebody stops it.  A write
\* on its way may reach the server.
Interrupt ==
    /\ Running
    /\ Fault
    /\ phase' = "stopped"
    /\ late' \in {late} \cup (IF call = NoCall THEN {} ELSE {late \cup {call}})
    /\ call' = NoCall
    /\ UNCHANGED <<akObjects, queued, foreign, opts, rows, known, planned,
                   flagged, mailLoop, history>>

At(ph) == phase = ph /\ Needed(ph) /\ call = NoCall

\* A lookup that fails costs a fault; its row is FAILED.
LookupFails == Fault /\ UNCHANGED <<akObjects, queued, late, foreign>>

-----------------------------------------------------------------------------
\* Groups, roles and users are found or created the same way.  The row is
\* written at once, or "none" while a write has to be answered first.
Plan(k, found) ==
    IF found /\ ~opts.update THEN "SKIPPED"
    ELSE IF Applies(k) THEN "none"
    ELSE IF found THEN "UPDATED" ELSE "CREATED"

Op(found) == IF found THEN "update" ELSE "create"

WriteIf(plan, w) == IF plan = "none" THEN w ELSE NoCall

\* A bug: the status code of the answer is not looked at.
OutcomeUnread(answer) == IF call.op = "create" THEN "CREATED" ELSE "UPDATED"

Outcome(answer) ==
    IF answer = "failed" THEN "FAILED"
    ELSE IF call.op = "create" THEN "CREATED" ELSE "UPDATED"

\* A bug: the pk and the members of a match are not kept.
RememberNothing(members, n, us) == members

\* A bug: the pk of a match is kept, its members are not.
RememberNoMembers(members, n, us) ==
    [m \in DOMAIN members \cup {n} |-> IF m = n THEN {} ELSE members[m]]

Remember(members, n, us) ==
    [m \in DOMAIN members \cup {n} |-> IF m = n THEN us ELSE members[m]]

Answers == {"ok", "failed"}

-----------------------------------------------------------------------------
\* migrate_groups.

ok_groups == {g \in Flat : groupRes[g] # "none"}

\* A bug: subgroups are not looked at.
IsNestedNever(g) == FALSE

IsNested(g) == g \in Nested

GroupNested(g) ==
    /\ At("groups") /\ groupRes[g] = "none"
    /\ IsNested(g)
    /\ groupRes' = [groupRes EXCEPT ![g] = "CONFLICT"]
    /\ UNCHANGED <<akVars, opts, phase, call, roleRes, userRes, memRes, asgRes,
                   known, planned, flagged, mailLoop, history>>

GroupLookupFails(g) ==
    /\ At("groups") /\ groupRes[g] = "none"
    /\ ~IsNested(g)
    /\ LookupFails
    /\ groupRes' = [groupRes EXCEPT ![g] = "FAILED"]
    /\ UNCHANGED <<opts, phase, call, roleRes, userRes, memRes, asgRes,
                   known, planned, flagged, mailLoop, history>>

GroupLookup(g) ==
    LET found == akGroup[g] # "absent"
        plan == Plan("groups", found)
        w == [kind |-> "group", op |-> Op(found), to |-> g]
    IN  /\ At("groups") /\ groupRes[g] = "none"
        /\ ~IsNested(g)
        /\ groupRes' = [groupRes EXCEPT ![g] = plan]
        /\ call' = WriteIf(plan, w)
        /\ groupMembers' = IF found
                             THEN Remember(groupMembers, g, akMembers[g])
                             ELSE groupMembers
        /\ via' = IF found THEN [via EXCEPT ![g] = @ \cup {"group"}] ELSE via
        /\ UNCHANGED <<akVars, opts, phase, roleRes, userRes, memRes, asgRes,
                       roleMembers, userPks, planned, flagged, mailLoop,
                       before, granted>>

GroupWrite ==
    /\ phase = "groups" /\ call # NoCall
    /\ LET g == call.to
       IN  \E answer \in Answers :
             /\ Call(call, answer)
             /\ groupRes' = [groupRes EXCEPT ![g] = Outcome(answer)]
             /\ IF answer = "ok" /\ call.op = "create"
                  THEN /\ groupMembers' = Remember(groupMembers, g, {})
                       /\ via' = [via EXCEPT ![g] = @ \cup {"group"}]
                  ELSE UNCHANGED <<groupMembers, via>>
    /\ call' = NoCall
    /\ UNCHANGED <<opts, phase, roleRes, userRes, memRes, asgRes, roleMembers,
                   userPks, planned, flagged, mailLoop, before, granted>>

-----------------------------------------------------------------------------
\* migrate_roles.

role_conflicted == {r \in Roles : roleRes[r] = "CONFLICT"}

\* A bug: only what is live counts, not what this run is about to create.
RoleRefusedLiveOnly(r) ==
    \/ r \in Composite
    \/ akGroup[r] \in {"other", "group"}

\* Composite, named like a group of this run, or held by a group that does
\* not carry the stamp (is_role_origin).
RoleRefused(r) ==
    \/ r \in Composite
    \/ r \in ok_groups
    \/ akGroup[r] \in {"other", "group"}

RoleConflict(r) ==
    /\ At("roles") /\ roleRes[r] = "none"
    /\ RoleRefused(r)
    /\ roleRes' = [roleRes EXCEPT ![r] = "CONFLICT"]
    /\ UNCHANGED <<akVars, opts, phase, call, groupRes, userRes, memRes,
                   asgRes, known, planned, flagged, mailLoop, history>>

RoleLookupFails(r) ==
    /\ At("roles") /\ roleRes[r] = "none"
    /\ r \notin Composite /\ r \notin ok_groups
    /\ LookupFails
    /\ roleRes' = [roleRes EXCEPT ![r] = "FAILED"]
    /\ UNCHANGED <<opts, phase, call, groupRes, userRes, memRes, asgRes,
                   known, planned, flagged, mailLoop, history>>

RoleLookup(r) ==
    LET found == akGroup[r] # "absent"
        plan == Plan("roles", found)
        w == [kind |-> "role", op |-> Op(found), to |-> r]
    IN  /\ At("roles") /\ roleRes[r] = "none"
        /\ ~RoleRefused(r)
        /\ roleRes' = [roleRes EXCEPT ![r] = plan]
        /\ call' = WriteIf(plan, w)
        /\ roleMembers' = IF found
                            THEN Remember(roleMembers, r, akMembers[r])
                            ELSE roleMembers
        /\ via' = IF found THEN [via EXCEPT ![r] = @ \cup {"role"}] ELSE via
        /\ UNCHANGED <<akVars, opts, phase, groupRes, userRes, memRes, asgRes,
                       groupMembers, userPks, planned, flagged, mailLoop,
                       before, granted>>

RoleWrite ==
    /\ phase = "roles" /\ call # NoCall
    /\ LET r == call.to
       IN  \E answer \in Answers :
             /\ Call(call, answer)
             /\ roleRes' = [roleRes EXCEPT ![r] = Outcome(answer)]
             /\ IF answer = "ok" /\ call.op = "create"
                  THEN /\ roleMembers' = Remember(roleMembers, r, {})
                       /\ via' = [via EXCEPT ![r] = @ \cup {"role"}]
                  ELSE UNCHANGED <<roleMembers, via>>
    /\ call' = NoCall
    /\ UNCHANGED <<opts, phase, groupRes, userRes, memRes, asgRes,
                   groupMembers, userPks, planned, flagged, mailLoop, before,
                   granted>>

-----------------------------------------------------------------------------
\* migrate_users.

\* A bug: only new users get memberships.
ResolvedCreatedOnly == {u \in Users : userRes[u] = "CREATED"}

\* A bug: users that a dry run would create are not counted.
ResolvedLiveOnly == userPks

resolved_usernames == userPks \cup {u \in Users : userRes[u] = "CREATED"}

Taken(u) == Exists(u) /\ akUser[u].email # EmailOf[u]

\* A bug: the emails of this run are not looked at.
DuplicateEmailLiveOnly(u) ==
    /\ EmailOf[u] # NoEmail
    /\ \E v \in Users : Exists(v) /\ akUser[v].email = EmailOf[u]

\* is_duplicate: planned in this run, or held by an account.
DuplicateEmail(u) ==
    /\ EmailOf[u] # NoEmail
    /\ \/ EmailOf[u] \in planned
       \/ \E v \in Users : Exists(v) /\ akUser[v].email = EmailOf[u]

UserTaken(u) ==
    /\ At("users") /\ userRes[u] = "none"
    /\ Taken(u)
    /\ userRes' = [userRes EXCEPT ![u] = "CONFLICT"]
    /\ UNCHANGED <<akVars, opts, phase, call, groupRes, roleRes, memRes,
                   asgRes, known, planned, flagged, mailLoop, history>>

UserLookupFails(u) ==
    /\ At("users") /\ userRes[u] = "none"
    /\ LookupFails
    /\ userRes' = [userRes EXCEPT ![u] = "FAILED"]
    /\ UNCHANGED <<opts, phase, call, groupRes, roleRes, memRes, asgRes,
                   known, planned, flagged, mailLoop, history>>

UserLookup(u) ==
    LET plan == Plan("users", Exists(u))
        w == [kind |-> "user", op |-> Op(Exists(u)), to |-> u,
              email |-> EmailOf[u]]
    IN  /\ At("users") /\ userRes[u] = "none"
        /\ ~Taken(u)
        /\ userRes' = [userRes EXCEPT ![u] = plan]
        /\ call' = WriteIf(plan, w)
        /\ IF Exists(u)
             THEN /\ userPks' = userPks \cup {u}
                  /\ UNCHANGED <<planned, flagged>>
             ELSE /\ planned' = planned \cup ({EmailOf[u]} \ {NoEmail})
                  /\ flagged' = IF DuplicateEmail(u)
                                  THEN flagged \cup {u} ELSE flagged
                  /\ UNCHANGED userPks
        /\ UNCHANGED <<akVars, opts, phase, groupRes, roleRes, memRes, asgRes,
                       groupMembers, roleMembers, mailLoop, history>>

UserWrite ==
    /\ phase = "users" /\ call # NoCall
    /\ \E answer \in Answers :
         /\ Call(call, answer)
         /\ userRes' = [userRes EXCEPT ![call.to] = Outcome(answer)]
         /\ userPks' = IF answer = "ok" THEN userPks \cup {call.to} ELSE userPks
    /\ call' = NoCall
    /\ UNCHANGED <<opts, phase, groupRes, roleRes, memRes, asgRes,
                   groupMembers, roleMembers, planned, flagged, mailLoop,
                   history>>

-----------------------------------------------------------------------------
\* migrate_memberships and migrate_role_assignments.

\* The row of one (group, user) pair, "none" when add_user_to_group is called.
\* A pair whose user is not resolved is "omitted": it gets no row.
LinkPlan(p, members, applies) ==
    IF p[2] \notin resolved_usernames THEN "omitted"
    ELSE IF p[2] \in userPks /\ p[1] \in DOMAIN members
            /\ p[2] \in members[p[1]] THEN "SKIPPED"
    ELSE IF ~applies THEN "CREATED"
    ELSE IF p[1] \in DOMAIN members /\ p[2] \in userPks THEN "none"
    ELSE "FAILED"

\* Either the row that was planned, or add_user_to_group and its answer.
Link(res, p, plan) ==
    IF plan # "none"
      THEN res' = [res EXCEPT ![p] = plan] /\ UNCHANGED akVars
      ELSE \E answer \in Answers :
             /\ Call([kind |-> "member", op |-> "add", to |-> p], answer)
             /\ res' = [res EXCEPT ![p] =
                           IF answer = "ok" THEN "CREATED" ELSE "FAILED"]

Member(p) ==
    /\ At("memberships") /\ memRes[p] = "none"
    /\ Link(memRes, p, LinkPlan(p, groupMembers, opts.apply))
    /\ UNCHANGED <<opts, phase, call, groupRes, roleRes, userRes, asgRes,
                   known, planned, flagged, mailLoop, history>>

Assign(p) ==
    /\ At("assignments") /\ asgRes[p] = "none"
    /\ Link(asgRes, p,
            IF p[2] \in resolved_usernames /\ p[1] \in role_conflicted
              THEN "CONFLICT"
              ELSE LinkPlan(p, roleMembers, Applies("roles")))
    /\ UNCHANGED <<opts, phase, call, groupRes, roleRes, userRes, memRes,
                   known, planned, flagged, mailLoop, history>>

-----------------------------------------------------------------------------
\* A bug: the counter is raised for every call.
CountsEveryCall(status) == 1

\* What a call adds to sent: only a 204 counts.  It means that Authentik has
\* queued a mail for its worker (authentik_client.py:217-219); whether that
\* delivers it is nothing the tool, or the model, ever learns.
Counts(status) == IF status = "204" THEN 1 ELSE 0

\* The send loop of cli.py: a call that raises or answers anything else is
\* passed over, whether a mail was queued or not.
Mail(u) ==
    /\ At("mail") /\ u \in Recipients \ asked
    /\ asked' = asked \cup {u}
    /\ \E status \in {"204", "other"} :
          /\ sent' = sent + Counts(status)
          /\ \/ /\ queued' = [queued EXCEPT ![u] = @ + 1]
                /\ IF status = "204" THEN UNCHANGED faults ELSE Fault
             \/ /\ status = "other" /\ queued' = queued
                /\ Fault
    /\ UNCHANGED <<akObjects, late, foreign, opts, phase, call, rows, known,
                   planned, flagged, history>>

-----------------------------------------------------------------------------
Pass ==
    \/ \E g \in KcGroups :
          GroupNested(g) \/ GroupLookupFails(g) \/ GroupLookup(g)
    \/ GroupWrite
    \/ \E r \in Roles : RoleConflict(r) \/ RoleLookupFails(r) \/ RoleLookup(r)
    \/ RoleWrite
    \/ \E u \in Users : UserTaken(u) \/ UserLookupFails(u) \/ UserLookup(u)
    \/ UserWrite
    \/ \E p \in Memberships : Member(p)
    \/ \E p \in Assignments : Assign(p)
    \/ \E u \in Users : Mail(u)
    \/ Advance

Run == \E o \in Invocations : Start(o)

Environment == (Foreign \/ LateCommit) /\ UNCHANGED <<runVars, history>>

Next == Run \/ Pass \/ Interrupt \/ Environment

\* The tool is one sequential process: once started it keeps going.  Nobody
\* has to start it, and abandoned requests need never arrive.
Spec == Init /\ [][Next]_vars /\ WF_vars(Pass)

\* An operator who runs the tool again and again.
RerunSpec == Spec /\ WF_vars(Run)

-----------------------------------------------------------------------------
\* f keeps the members of some of the names in S.
IsSnapshot(f, S) ==
    /\ DOMAIN f \subseteq S
    /\ f \in [DOMAIN f -> SUBSET Users]

\* Every variable stays in its domain.
TypeOK ==
    /\ AkTypeOK
    /\ opts \in Options
    /\ phase \in Phases \cup {"idle", "done", "stopped"}
    /\ call \in Writes \cup {NoCall}
    /\ groupRes \in [KcGroups -> Outcomes \cup {"none"}]
    /\ roleRes \in [Roles -> Outcomes \cup {"none"}]
    /\ userRes \in [Users -> Outcomes \cup {"none"}]
    /\ memRes \in [Memberships -> Outcomes \cup {"none", "omitted"}]
    /\ asgRes \in [Assignments -> Outcomes \cup {"none", "omitted"}]
    /\ IsSnapshot(groupMembers, Flat)
    /\ IsSnapshot(roleMembers, Roles)
    /\ userPks \subseteq Users
    /\ planned \subseteq Emails
    /\ flagged \subseteq Users
    /\ asked \subseteq Users
    /\ sent \in Nat
    /\ before \in [complete : BOOLEAN, user : [Users -> Accounts \cup {NoAccount}]]
    /\ via \in [Names -> SUBSET {"group", "role"}]
    /\ granted \subseteq Kinds \cup {"update", "mail"}

\* No Authentik group is ever taken for a Keycloak group by one run and for a
\* realm role by the same or another one, whatever is retried, interrupted or
\* made by hand in between (mappers/roles.py:14-17, the origin stamp).
NoGroupRoleMerge == \A n \in Names : via[n] # {"group", "role"}

Good == {"CREATED", "SKIPPED", "UPDATED"}

\* A row of an applied run that claims an object, while and after the run, is
\* about an object that Authentik has: the group, the stamped role, the user
\* with that email, the member.
ReportSound ==
    opts.apply =>
      /\ InScope("groups") =>
            \A g \in Flat : groupRes[g] \in Good => akGroup[g] # "absent"
      /\ \A r \in Roles : roleRes[r] \in Good => akGroup[r] = "role"
      /\ InScope("users") =>
            \A u \in Users : userRes[u] \in Good =>
                Exists(u) /\ akUser[u].email = EmailOf[u]
      /\ \A p \in Memberships : memRes[p] \in Good => p[2] \in akMembers[p[1]]
      /\ \A p \in Assignments : asgRes[p] \in Good => p[2] \in akMembers[p[1]]

NoRow(o) ==
    \A res \in {groupRes, roleRes, userRes, memRes, asgRes} :
        \A x \in DOMAIN res : res[x] # o

\* Silence means success: when a full applied run ends without a FAILED row,
\* nothing is missing, although the membership passes drop pairs without a
\* trace (migrator.py:612-615).
ReportComplete ==
    phase = "done" /\ opts.apply /\ Kinds = opts.scope /\ NoRow("FAILED")
        => Complete

\* Re-runs are safe (README): an applied run that starts over a complete
\* target creates nothing and claims to create nothing, for every selection.
RerunCreatesNothing ==
    opts.apply /\ before.complete => NoRow("CREATED")

\* An address that two accounts will share is never silent: of two users that
\* a run creates with one email at least one row is flagged, and so is a user
\* created next to an account that had the email when the run started.
DuplicateEmailFlagged ==
    LET created == {u \in Users : userRes[u] = "CREATED"
                                  /\ EmailOf[u] # NoEmail}
    IN  /\ \A u, v \in created :
              u # v /\ EmailOf[u] = EmailOf[v] => {u, v} \cap flagged # {}
        /\ \A u \in created, v \in Users :
              before.user[v] # NoAccount /\ before.user[v].email = EmailOf[u]
                  => u \in flagged

\* A recovery mail goes only to somebody whose account this very run made,
\* and so to nobody in two runs, however often runs are repeated.
MailsOnlyNewAccounts ==
    /\ \A u \in asked : before.user[u] = NoAccount
                        /\ akUser[u] = [email |-> EmailOf[u],
                                        profile |-> "keycloak"]
    /\ \A u \in Users : queued[u] <= 1

\* The report's number of mails is that of the users of this run for whom
\* Authentik has queued one: it is never more, and it falls short by at most
\* one for each call that failed although it was executed.  A mail that is
\* queued need not arrive.
SentWasQueued ==
    LET n == Cardinality({u \in asked : queued[u] = 1})
    IN  sent <= n /\ n <= sent + faults

\* What a step may write, given what was selected so far.
Permitted ==
    /\ \A n \in Names :
          akGroup'[n] \notin {akGroup[n], "other"} =>
              /\ akGroup'[n] = "group" => "groups" \in granted
              /\ akGroup'[n] = "role" => "roles" \in granted
              /\ akGroup[n] # "absent" => "update" \in granted
    /\ \A u \in Users :
          akUser'[u] # akUser[u] /\ akUser'[u].profile = "keycloak" =>
              /\ "users" \in granted
              /\ Exists(u) => "update" \in granted
    /\ akMembers' # akMembers /\ foreign' = foreign =>
          granted \cap {"memberships", "roles"} # {}
    /\ queued' # queued => "mail" \in granted

\* Only what some command line selected under --apply is ever written, also by
\* passes that run to support another one, and an object that is there is only
\* modified if --update-existing was given (README, "Usage").
OnlySelectedIsWritten == [][Permitted]_vars

\* Re-runs converge: if full applied runs are repeated and faults stop some
\* day, everything gets there and stays there.
Converges == <>[]Complete
=============================================================================
