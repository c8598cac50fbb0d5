------------------------ MODULE DirectoryReportProofs ------------------------
(***************************************************************************)
(* For every realm, every target and every number of faults, what the rows *)
(* of the report are worth.  Provided that roles are only ever selected    *)
(* with groups or memberships, a row that claims an object is true, a full *)
(* run without a FAILED row left nothing out, and an applied run over a    *)
(* complete target creates nothing.  Provided that what supports a pass is *)
(* selected with it, an applied run in the calm has the rows of the dry    *)
(* run before it.                                                          *)
(*                                                                         *)
(* Each fact is told from what lasts in Authentik: accounts and their      *)
(* emails, groups and their members, the stamp of a role.                  *)
(***************************************************************************)
EXTENDS DirectoryProofs, DirectoryPlan

USE DEF akObjects, akVars, rows, known, mailLoop, history, runVars, vars

-----------------------------------------------------------------------------
\* Groups and stamps.

\* A group is written under the name of a migrated group, a role under that of
\* a role which is none; and an update found what it updates.
GroupFound(w) ==
    /\ w.kind = "group" => /\ w.to \in Flat
                           /\ w.op = "update" => akGroup[w.to] # "absent"
    /\ w.kind = "role" => /\ w.to \in Roles \ (Composite \cup Flat)
                          /\ w.op = "update" => akGroup[w.to] = "role"

GroupsFound ==
    /\ call # NoCall => GroupFound(call)
    /\ \A w \in late : GroupFound(w)

\* The stamp is only on roles that no group of the realm is named like.
OnlyRoles ==
    \A n \in Names : akGroup[n] = "role" => n \in Roles \ (Composite \cup Flat)

GroupInv == GroupsFound /\ OnlyRoles

\* Groups and members stay; under other names than those of migrated groups
\* the stamp stays as well, or stays away.
GroupsLast ==
    \A n \in Names :
        /\ akMembers[n] \subseteq akMembers'[n]
        /\ akGroup[n] # "absent" =>
              akGroup'[n] # "absent" /\ (n \notin Flat => akGroup'[n] = akGroup[n])

LEMMA NoGroupChanges == ASSUME UNCHANGED <<akGroup, akMembers>> PROVE GroupsLast
  BY DEF GroupsLast

LEMMA CommitGroups ==
    ASSUME AkTypeOK, OnlyRoles, NEW w \in Writes, GroupFound(w), Accepts(w), Commit(w)
    PROVE  GroupsLast /\ OnlyRoles'
  <1>1. CASE w \in GroupWrites /\ UNCHANGED <<akMembers, akUser>>
             /\ akGroup' = [akGroup EXCEPT ![w.to] = w.kind]
    <2>1. w.to \in Names /\ w.kind \in {"group", "role"} /\ w.op \in {"create", "update"}
      BY <1>1 DEF GroupWrites
    <2>2. \A n \in Names : n # w.to => akGroup'[n] = akGroup[n]
      BY <1>1, <2>1 DEF AkTypeOK
    <2>3. akGroup'[w.to] = w.kind
      BY <1>1, <2>1 DEF AkTypeOK
    <2>4. akGroup[w.to] # "absent" /\ w.to \notin Flat => akGroup[w.to] = w.kind
      BY <2>1 DEF Accepts, GroupFound
    <2>5. GroupsLast
      BY <1>1, <2>1, <2>2, <2>3, <2>4 DEF GroupsLast
    <2>6. OnlyRoles'
      BY <2>1, <2>2, <2>3 DEF OnlyRoles, GroupFound
    <2> QED
      BY <2>5, <2>6
  <1>2. CASE akGroup' = akGroup /\ akMembers' = akMembers
    BY <1>2, NoGroupChanges DEF OnlyRoles
  <1>3. CASE w \in MemberWrites /\ UNCHANGED <<akGroup, akUser>>
             /\ akMembers' = [akMembers EXCEPT ![w.to[1]] = @ \cup {w.to[2]}]
    <2>1. \A n \in Names : akMembers[n] \subseteq akMembers'[n]
      BY <1>3 DEF AkTypeOK, MemberWrites
    <2> QED
      BY <1>3, <2>1 DEF GroupsLast, OnlyRoles
  <1> QED
    BY <1>1, <1>2, <1>3 DEF Commit

LEMMA GroupFoundLasts ==
    ASSUME GroupsLast, NEW w \in Writes, GroupFound(w) PROVE GroupFound(w)'
  <1>1. CASE w.kind = "group" \/ w.kind = "role"
    <2>1. w.to \in Names
      BY <1>1 DEF Writes, GroupWrites, UserWrites, MemberWrites
    <2> QED
      BY <1>1, <2>1 DEF GroupFound, GroupsLast
  <1>2. CASE w.kind # "group" /\ w.kind # "role"
    BY <1>2 DEF GroupFound
  <1> QED
    BY <1>1, <1>2

LEMMA CallGroups ==
    ASSUME AkTypeOK, OnlyRoles, NEW w \in Writes, GroupFound(w), NEW answer, Call(w, answer)
    PROVE  GroupsLast /\ OnlyRoles' /\ late' \subseteq late \cup {w}
  <1>1. late' \subseteq late \cup {w}
    BY DEF Call
  <1>2. (Accepts(w) /\ Commit(w)) \/ UNCHANGED <<akGroup, akMembers>>
    BY DEF Call
  <1> QED
    BY <1>1, <1>2, CommitGroups, NoGroupChanges DEF OnlyRoles

LEMMA EnvironmentGroups ==
    ASSUME TypeInv, GroupInv, Environment
    PROVE  GroupsLast /\ OnlyRoles' /\ late' \subseteq late
  <1>1. CASE LateCommit
    <2>1. PICK w \in late :
            /\ late' = late \ {w}
            /\ IF Accepts(w) THEN Commit(w) ELSE UNCHANGED akObjects
      BY <1>1 DEF LateCommit
    <2>2. w \in Writes /\ GroupFound(w) /\ AkTypeOK /\ OnlyRoles
      BY DEF TypeInv, TypeOK, AkTypeOK, GroupInv, GroupsFound
    <2>3. (Accepts(w) /\ Commit(w)) \/ UNCHANGED <<akGroup, akMembers>>
      BY <2>1
    <2> QED
      BY <2>1, <2>2, <2>3, CommitGroups, NoGroupChanges DEF OnlyRoles
  <1>2. CASE Foreign
    <2>1. late' = late
      BY <1>2 DEF Foreign
    <2>2. CASE UNCHANGED <<akGroup, akMembers>>
      BY <2>1, <2>2, NoGroupChanges DEF GroupInv, OnlyRoles
    <2>3. ASSUME NEW n \in Names, akGroup[n] = "absent", akMembers' = akMembers,
                 akGroup' = [akGroup EXCEPT ![n] = "other"]
          PROVE  GroupsLast /\ OnlyRoles'
      BY <2>3 DEF TypeInv, TypeOK, AkTypeOK, GroupsLast, GroupInv, OnlyRoles
    <2>4. ASSUME NEW n \in Names, NEW u \in Users, akGroup' = akGroup,
                 akMembers' = [akMembers EXCEPT ![n] = @ \cup {u}]
          PROVE  GroupsLast /\ OnlyRoles'
      <3>1. \A m \in Names : akMembers[m] \subseteq akMembers'[m]
        BY <2>4 DEF TypeInv, TypeOK, AkTypeOK
      <3> QED
        BY <2>4, <3>1 DEF GroupsLast, GroupInv, OnlyRoles
    <2> QED
      BY <1>2, <2>1, <2>2, <2>3, <2>4 DEF Foreign
  <1> QED
    BY <1>1, <1>2 DEF Environment

LEMMA GroupFoundKeeps ==
    ASSUME TypeInv, GroupInv, GroupsLast, OnlyRoles',
           \A w \in late' : \/ w \in late \/ (call # NoCall /\ w = call)
                            \/ w.kind \notin {"group", "role"},
           call' # NoCall => \/ call' = call
                             \/ call'.kind \notin {"group", "role"}
                             \/ \E w \in Writes : call' = w /\ GroupFound(w)
    PROVE  GroupInv'
  <1>1. \A w \in late : w \in Writes /\ GroupFound(w)
    BY DEF TypeInv, TypeOK, AkTypeOK, GroupInv, GroupsFound
  <1>2. call # NoCall => call \in Writes /\ GroupFound(call)
    BY DEF TypeInv, TypeOK, GroupInv, GroupsFound
  <1>3. ASSUME NEW w, w.kind \notin {"group", "role"} PROVE GroupFound(w)'
    BY <1>3 DEF GroupFound
  <1>4. \A w \in Writes : GroupFound(w) => GroupFound(w)'
    BY GroupFoundLasts
  <1>5. \A w \in late' : GroupFound(w)'
    <2> SUFFICES ASSUME NEW w \in late' PROVE GroupFound(w)'
      OBVIOUS
    <2>1. (w \in Writes /\ GroupFound(w)) \/ w.kind \notin {"group", "role"}
      BY <1>1, <1>2
    <2> QED
      BY <1>3, <1>4, <2>1
  <1>6. ASSUME call' # NoCall PROVE GroupFound(call)'
    <2>1. CASE call'.kind \notin {"group", "role"}
      BY <2>1 DEF GroupFound
    <2>2. CASE \E w \in Writes : call' = w /\ GroupFound(w)
      <3>1. PICK w \in Writes : call' = w /\ GroupFound(w)
        BY <2>2
      <3>2. GroupFound(w)'
        BY <1>4, <3>1
      <3> QED
        BY <3>1, <3>2 DEF GroupFound
    <2> QED
      BY <1>2, <1>6, <2>1, <2>2
  <1> QED
    BY <1>5, <1>6 DEF GroupInv, GroupsFound

LEMMA SilentGroups ==
    ASSUME TypeInv, GroupInv, UNCHANGED <<akObjects, late>>,
           call' # NoCall => call' = call \/ call'.kind \notin {"group", "role"}
    PROVE  GroupInv' /\ GroupsLast
  <1>1. OnlyRoles'
    BY DEF GroupInv, OnlyRoles
  <1> QED
    BY <1>1, NoGroupChanges, GroupFoundKeeps

LEMMA LookupGroups ==
    ASSUME TypeInv, GroupInv, UNCHANGED <<akObjects, late>>,
           NEW w \in Writes, GroupFound(w), call' # NoCall => call' = w
    PROVE  GroupInv' /\ GroupsLast
  <1>1. OnlyRoles'
    BY DEF GroupInv, OnlyRoles
  <1> QED
    BY <1>1, NoGroupChanges, GroupFoundKeeps

LEMMA GroupGroups ==
    ASSUME TypeInv, GroupInv, NEW g \in KcGroups,
           GroupNested(g) \/ GroupLookupFails(g) \/ GroupLookup(g)
    PROVE  GroupInv' /\ GroupsLast
  <1>1. CASE GroupNested(g) \/ GroupLookupFails(g)
    BY <1>1, SilentGroups DEF GroupNested, GroupLookupFails, LookupFails
  <1>2. CASE GroupLookup(g)
    <2> DEFINE w == [kind |-> "group", op |-> Op(akGroup[g] # "absent"), to |-> g]
    <2>1. UNCHANGED akVars /\ ~IsNested(g) /\ (call' # NoCall => call' = w)
      BY <1>2 DEF GroupLookup, WriteIf
    <2>2. w \in Writes /\ GroupFound(w)
      BY <2>1, KeycloakAssumption DEF Writes, GroupWrites, Op, GroupFound, IsNested, Flat
    <2> HIDE DEF w
    <2> QED
      BY <2>1, <2>2, LookupGroups
  <1> QED
    BY <1>1, <1>2

LEMMA RoleGroups ==
    ASSUME Inv, GroupInv, NEW r \in Roles,
           RoleConflict(r) \/ RoleLookupFails(r) \/ RoleLookup(r)
    PROVE  GroupInv' /\ GroupsLast
  <1>1. CASE RoleConflict(r) \/ RoleLookupFails(r)
    BY <1>1, SilentGroups DEF RoleConflict, RoleLookupFails, LookupFails, Inv
  <1>2. CASE RoleLookup(r)
    <2> DEFINE w == [kind |-> "role", op |-> Op(akGroup[r] # "absent"), to |-> r]
    <2>1. /\ UNCHANGED akVars /\ ~RoleRefused(r) /\ (call' # NoCall => call' = w)
          /\ phase = "roles" /\ InScope("roles")
      BY <1>2 DEF RoleLookup, WriteIf, At, Needed
    <2>2. r \notin Flat
      BY <2>1 DEF RoleRefused, Inv, MergeInv
    <2>3. r \in Names /\ r \notin Composite
      BY <2>1, KeycloakAssumption DEF Roles, RoleRefused
    <2>4. akGroup[r] # "absent" => akGroup[r] = "role"
      BY <2>1, <2>3 DEF RoleRefused, Inv, TypeInv, TypeOK, AkTypeOK
    <2>5. w \in Writes /\ GroupFound(w)
      BY <2>2, <2>3, <2>4 DEF Writes, GroupWrites, Op, GroupFound
    <2> HIDE DEF w
    <2> QED
      BY <2>1, <2>5, LookupGroups DEF Inv
  <1> QED
    BY <1>1, <1>2

LEMMA UserGroups ==
    ASSUME TypeInv, GroupInv, NEW u \in Users,
           UserTaken(u) \/ UserLookupFails(u) \/ UserLookup(u)
    PROVE  GroupInv' /\ GroupsLast
  BY SilentGroups DEF UserTaken, UserLookupFails, LookupFails, UserLookup, WriteIf

LEMMA WriteGroups ==
    ASSUME TypeInv, GroupInv, GroupWrite \/ RoleWrite \/ UserWrite
    PROVE  GroupInv' /\ GroupsLast
  <1>1. PICK answer : Call(call, answer)
    BY DEF GroupWrite, RoleWrite, UserWrite
  <1>2. call \in Writes /\ GroupFound(call) /\ AkTypeOK /\ call' = NoCall
        /\ call # NoCall /\ OnlyRoles
    BY DEF GroupWrite, RoleWrite, UserWrite, TypeInv, TypeOK, GroupInv, GroupsFound
  <1>3. GroupsLast /\ OnlyRoles' /\ late' \subseteq late \cup {call}
    BY <1>1, <1>2, CallGroups
  <1> QED
    BY <1>2, <1>3, GroupFoundKeeps

LEMMA LinkGroups ==
    ASSUME TypeInv, GroupInv, NEW p, \/ p \in Memberships /\ Member(p)
                                     \/ p \in Assignments /\ Assign(p)
    PROVE  GroupInv' /\ GroupsLast
  <1>1. /\ TheLink(p) \in Writes /\ call' = call
        /\ UNCHANGED akVars \/ \E answer \in Answers : Call(TheLink(p), answer)
    BY LinkIs
  <1>2. TheLink(p).kind = "member" /\ GroupFound(TheLink(p)) /\ AkTypeOK /\ OnlyRoles
    BY DEF TheLink, GroupFound, TypeInv, TypeOK, GroupInv
  <1>3. CASE UNCHANGED akVars
    BY <1>1, <1>3, SilentGroups
  <1>4. CASE \E answer \in Answers : Call(TheLink(p), answer)
    <2>1. GroupsLast /\ OnlyRoles' /\ late' \subseteq late \cup {TheLink(p)}
      BY <1>1, <1>2, <1>4, CallGroups
    <2> QED
      BY <1>1, <1>2, <2>1, GroupFoundKeeps
  <1> QED
    BY <1>1, <1>3, <1>4

LEMMA StepGroups == ASSUME Inv, GroupInv, [Next]_vars PROVE GroupInv' /\ GroupsLast
  <1> USE DEF Inv
  <1>1. ASSUME NEW o \in Invocations, Start(o) PROVE GroupInv' /\ GroupsLast
    BY <1>1, SilentGroups DEF Start
  <1>2. ASSUME NEW u \in Users, Mail(u) PROVE GroupInv' /\ GroupsLast
    BY <1>2, SilentGroups DEF Mail
  <1>3. CASE Advance \/ UNCHANGED vars
    BY <1>3, SilentGroups DEF Advance
  <1>4. CASE Pass
    BY <1>2, <1>3, <1>4, GroupGroups, RoleGroups, UserGroups, WriteGroups, LinkGroups DEF Pass
  <1>5. CASE Interrupt
    <2>1. UNCHANGED akObjects /\ call' = NoCall
          /\ \A w \in late' : w \in late \/ (call # NoCall /\ w = call)
      BY <1>5 DEF Interrupt
    <2>2. OnlyRoles'
      BY <2>1 DEF GroupInv, OnlyRoles
    <2> QED
      BY <2>1, <2>2, NoGroupChanges, GroupFoundKeeps
  <1>6. CASE Environment
    BY <1>6, EnvironmentGroups, GroupFoundKeeps DEF Environment
  <1> QED
    BY <1>1, <1>3, <1>4, <1>5, <1>6 DEF Next, Run

LEMMA GroupsInit == Init => GroupInv
  BY DEF Init, AkInit, GroupInv, GroupsFound, OnlyRoles

-----------------------------------------------------------------------------
\* The rows of the report.

\* What a lookup kept of the members is still so.
SnapInv ==
    /\ \A g \in DOMAIN groupMembers : groupMembers[g] \subseteq akMembers[g]
    /\ \A r \in DOMAIN roleMembers : roleMembers[r] \subseteq akMembers[r]

GroupRows ==
    \A g \in Flat :
        /\ groupRes[g] # "CONFLICT"
        /\ opts.apply /\ InScope("groups") /\ groupRes[g] \in Good
              => akGroup[g] # "absent"

RoleRows ==
    \A r \in Roles :
        /\ opts.apply /\ roleRes[r] \in Good => akGroup[r] = "role"
        /\ roleRes[r] = "CONFLICT" =>
              r \in Composite \cup Flat \/ akGroup[r] \in {"other", "group"}

UserRows ==
    \A u \in Users :
        /\ opts.apply /\ InScope("users") /\ userRes[u] \in Good => Theirs(u)
        /\ userRes[u] \in {"SKIPPED", "UPDATED"} => u \in userPks
        /\ userRes[u] = "CONFLICT" => Taken(u)
        /\ u \in userPks => Theirs(u)

MemberRows ==
    \A p \in Memberships :
        /\ memRes[p] # "CONFLICT"
        /\ opts.apply /\ memRes[p] \in Good => p[2] \in akMembers[p[1]]
        /\ memRes[p] = "omitted" => p[2] \notin resolved_usernames

AssignmentRows ==
    \A p \in Assignments :
        /\ opts.apply /\ asgRes[p] \in Good => p[2] \in akMembers[p[1]]
        /\ asgRes[p] = "CONFLICT" => roleRes[p[1]] = "CONFLICT"
        /\ asgRes[p] = "omitted" => p[2] \notin resolved_usernames

\* The rows of a pass are made after those it depends on.
Order ==
    /\ phase \in {"groups", "roles", "users"} =>
          \A p \in Memberships : memRes[p] = "none"
    /\ phase \in {"groups", "roles", "users", "memberships"} =>
          \A p \in Assignments : asgRes[p] = "none"

\* A run of everything is through with a pass when the next one begins.
Passed ==
    opts.scope = Kinds =>
        /\ phase \in {"roles", "users", "memberships", "assignments", "mail", "done"}
              => Pending(groupRes) = {}
        /\ phase \in {"users", "memberships", "assignments", "mail", "done"}
              => Pending(roleRes) = {}
        /\ phase \in {"memberships", "assignments", "mail", "done"} => Pending(userRes) = {}
        /\ phase \in {"assignments", "mail", "done"} => Pending(memRes) = {}
        /\ phase \in {"mail", "done"} => Pending(asgRes) = {}

RowInv ==
    /\ SnapInv /\ GroupRows /\ RoleRows /\ UserRows /\ MemberRows /\ AssignmentRows
    /\ Order /\ Passed

NoneCreated ==
    /\ \A g \in KcGroups : groupRes[g] # "CREATED"
    /\ \A r \in Roles : roleRes[r] # "CREATED"
    /\ \A u \in Users : userRes[u] # "CREATED"
    /\ \A p \in Memberships : memRes[p] # "CREATED"
    /\ \A p \in Assignments : asgRes[p] # "CREATED"

\* Over a complete target every lookup finds its object with the members that
\* are expected, so that nothing is left to be created.
Rerun ==
    opts.apply /\ before.complete =>
        /\ Complete /\ NoneCreated
        /\ call # NoCall => call.op = "update"
        /\ \A p \in Memberships :
              p[1] \in DOMAIN groupMembers /\ Theirs(p[2]) => p[2] \in groupMembers[p[1]]
        /\ \A p \in Assignments :
              p[1] \in DOMAIN roleMembers /\ Theirs(p[2]) => p[2] \in roleMembers[p[1]]

ReportInv == UserInv /\ GroupInv /\ RowInv /\ Rerun

-----------------------------------------------------------------------------
\* What a step leaves alone.

\* What every step does to Authentik.
Grows == GroupsLast /\ EmailsLast

LEMMA PairTypes ==
    /\ Flat \subseteq Names /\ Roles \subseteq Names
    /\ \A p \in Memberships : p[1] \in Flat /\ p[1] \in Names /\ p[2] \in Users
    /\ \A p \in Assignments : p[1] \in Roles /\ p[1] \in Names /\ p[2] \in Users
  BY KeycloakAssumption DEF Flat, Roles, Memberships, Assignments

LEMMA CompleteLasts ==
    ASSUME TypeInv, GroupInv', Grows, Complete PROVE Complete'
  <1>1. \A n \in Flat \cup (Roles \ Composite) : akGroup'[n] # "absent"
    BY PairTypes DEF Complete, Grows, GroupsLast
  <1>2. \A u \in Users : Exists(u) /\ Exists(u)' /\ akUser'[u].email = akUser[u].email
    BY DEF Complete, Grows, EmailsLast
  <1>3. ASSUME NEW p \in Memberships, akUser'[p[2]].email = EmailOf[p[2]]
        PROVE  p[2] \in akMembers'[p[1]]
    BY <1>2, <1>3, PairTypes DEF Complete, Grows, GroupsLast
  <1>4. ASSUME NEW p \in Assignments, akGroup'[p[1]] = "role",
               akUser'[p[2]].email = EmailOf[p[2]]
        PROVE  p[2] \in akMembers'[p[1]]
    <2>1. p[1] \in Roles \ (Composite \cup Flat)
      BY <1>4, PairTypes DEF GroupInv, OnlyRoles
    <2>2. akGroup[p[1]] # "absent"
      BY <2>1 DEF Complete
    <2>3. akGroup[p[1]] = "role"
      BY <1>4, <2>1, <2>2, PairTypes DEF Grows, GroupsLast
    <2> QED
      BY <1>2, <1>4, <2>3, PairTypes DEF Complete, Grows, GroupsLast
  <1> QED
    BY <1>1, <1>2, <1>3, <1>4 DEF Complete

LEMMA SnapKeeps ==
    ASSUME TypeInv, SnapInv, Grows,
           \/ groupMembers' = groupMembers
           \/ \E g \in Flat : groupMembers' = Remember(groupMembers, g, akMembers[g])
           \/ \E g \in Flat : groupMembers' = Remember(groupMembers, g, {}),
           \/ roleMembers' = roleMembers
           \/ \E r \in Roles : roleMembers' = Remember(roleMembers, r, akMembers[r])
           \/ \E r \in Roles : roleMembers' = Remember(roleMembers, r, {})
    PROVE  SnapInv'
  <1>1. \A n \in Names : akMembers[n] \subseteq akMembers'[n]
    BY DEF Grows, GroupsLast
  <1>2. DOMAIN groupMembers \subseteq Flat /\ DOMAIN roleMembers \subseteq Roles
    BY DEF TypeInv, TypeOK, IsSnapshot
  <1>3. ASSUME NEW g \in Flat, NEW us, us \in {akMembers[g], {}},
               groupMembers' = Remember(groupMembers, g, us),
               NEW h \in DOMAIN groupMembers'
        PROVE  groupMembers'[h] \subseteq akMembers'[h]
    <2> DEFINE new == Remember(groupMembers, g, us)
    <2>1. DOMAIN new = DOMAIN groupMembers \cup {g} /\ new[g] = us
          /\ \A m \in DOMAIN groupMembers : m # g => new[m] = groupMembers[m]
      BY DEF Remember
    <2>2. groupMembers' = new /\ h \in DOMAIN new /\ g \in Names
      BY <1>3, PairTypes
    <2> HIDE DEF new
    <2>3. CASE h = g
      BY <1>1, <1>3, <2>1, <2>2, <2>3
    <2>4. CASE h # g
      <3>1. h \in DOMAIN groupMembers /\ h \in Names
        BY <1>2, <2>1, <2>2, <2>4, PairTypes
      <3> QED
        BY <1>1, <2>1, <2>2, <2>4, <3>1 DEF SnapInv
    <2> QED
      BY <2>3, <2>4
  <1>4. ASSUME NEW g \in Roles, NEW us, us \in {akMembers[g], {}},
               roleMembers' = Remember(roleMembers, g, us),
               NEW h \in DOMAIN roleMembers'
        PROVE  roleMembers'[h] \subseteq akMembers'[h]
    <2> DEFINE new == Remember(roleMembers, g, us)
    <2>1. DOMAIN new = DOMAIN roleMembers \cup {g} /\ new[g] = us
          /\ \A m \in DOMAIN roleMembers : m # g => new[m] = roleMembers[m]
      BY DEF Remember
    <2>2. roleMembers' = new /\ h \in DOMAIN new /\ g \in Names
      BY <1>4, PairTypes
    <2> HIDE DEF new
    <2>3. CASE h = g
      BY <1>1, <1>4, <2>1, <2>2, <2>3
    <2>4. CASE h # g
      <3>1. h \in DOMAIN roleMembers /\ h \in Names
        BY <1>2, <2>1, <2>2, <2>4, PairTypes
      <3> QED
        BY <1>1, <2>1, <2>2, <2>4, <3>1 DEF SnapInv
    <2> QED
      BY <2>3, <2>4
  <1>5. \A g \in DOMAIN groupMembers' : groupMembers'[g] \subseteq akMembers'[g]
    <2>1. CASE groupMembers' = groupMembers
      BY <1>1, <1>2, <2>1, PairTypes DEF SnapInv
    <2> QED
      BY <1>3, <2>1
  <1>6. \A r \in DOMAIN roleMembers' : roleMembers'[r] \subseteq akMembers'[r]
    <2>1. CASE roleMembers' = roleMembers
      BY <1>1, <1>2, <2>1, PairTypes DEF SnapInv
    <2> QED
      BY <1>4, <2>1
  <1> QED
    BY <1>5, <1>6 DEF SnapInv

LEMMA GroupRowsKeep ==
    ASSUME GroupRows, Grows, UNCHANGED <<groupRes, opts>> PROVE GroupRows'
  BY PairTypes DEF GroupRows, Grows, GroupsLast, InScope

\* A row that is kept: a refused name does not get the stamp, a stamped one
\* keeps it.
LEMMA RoleRowKeeps ==
    ASSUME RoleRows, GroupInv, Grows, opts' = opts, NEW r \in Roles, roleRes'[r] = roleRes[r]
    PROVE  /\ opts'.apply /\ roleRes'[r] \in Good => akGroup'[r] = "role"
           /\ roleRes'[r] = "CONFLICT" =>
                 r \in Composite \cup Flat \/ akGroup'[r] \in {"other", "group"}
  <1>1. akGroup[r] = "role" => r \notin Flat
    BY PairTypes DEF GroupInv, OnlyRoles
  <1>2. r \notin Flat /\ akGroup[r] # "absent" => akGroup'[r] = akGroup[r]
    BY PairTypes DEF Grows, GroupsLast
  <1>3. opts'.apply /\ roleRes'[r] \in Good => akGroup'[r] = "role"
    BY <1>1, <1>2 DEF RoleRows
  <1>4. roleRes'[r] = "CONFLICT" =>
           r \in Composite \cup Flat \/ akGroup'[r] \in {"other", "group"}
    BY <1>2 DEF RoleRows
  <1> QED
    BY <1>3, <1>4

LEMMA RoleRowsKeep ==
    ASSUME RoleRows, GroupInv, Grows, UNCHANGED <<roleRes, opts>> PROVE RoleRows'
  BY RoleRowKeeps DEF RoleRows

LEMMA TakenLasts == ASSUME EmailsLast, NEW u \in Users, Taken(u) PROVE Taken(u)'
  BY DEF EmailsLast, Taken, Exists

LEMMA UserRowsKeep ==
    ASSUME UserRows, Grows, UNCHANGED <<userRes, userPks, opts>> PROVE UserRows'
  BY TheirsLast, TakenLasts DEF UserRows, Grows, InScope

LEMMA MemberRowsKeep ==
    ASSUME MemberRows, Grows, UNCHANGED <<memRes, userRes, userPks, opts>>
    PROVE  MemberRows'
  BY PairTypes DEF MemberRows, Grows, GroupsLast, resolved_usernames

LEMMA AssignmentRowsKeep ==
    ASSUME AssignmentRows, Grows, UNCHANGED <<asgRes, roleRes, userRes, userPks, opts>>
    PROVE  AssignmentRows'
  BY PairTypes DEF AssignmentRows, Grows, GroupsLast, resolved_usernames

LEMMA NoMemberRows ==
    ASSUME \A p \in Memberships : memRes'[p] = "none" PROVE MemberRows'
  BY DEF MemberRows, Good

LEMMA NoAssignmentRows ==
    ASSUME \A p \in Assignments : asgRes'[p] = "none" PROVE AssignmentRows'
  BY DEF AssignmentRows, Good

LEMMA RerunKeeps ==
    ASSUME TypeInv, GroupInv', Grows, Rerun, UNCHANGED <<opts, before>>,
           opts.apply /\ before.complete =>
              /\ NoneCreated'
              /\ call' # NoCall => call'.op = "update"
              /\ \/ groupMembers' = groupMembers
                 \/ \E g \in Flat : groupMembers' = Remember(groupMembers, g, akMembers[g])
              /\ \/ roleMembers' = roleMembers
                 \/ \E r \in Roles : /\ akGroup[r] = "role"
                                     /\ roleMembers' = Remember(roleMembers, r, akMembers[r])
    PROVE  Rerun'
  <1> SUFFICES ASSUME opts.apply, before.complete
               PROVE  /\ Complete'
                      /\ \A p \in Memberships : p[1] \in DOMAIN groupMembers' /\ Theirs(p[2])'
                            => p[2] \in groupMembers'[p[1]]
                      /\ \A p \in Assignments : p[1] \in DOMAIN roleMembers' /\ Theirs(p[2])'
                            => p[2] \in roleMembers'[p[1]]
    BY DEF Rerun
  <1>1. Complete /\ Complete'
    BY CompleteLasts DEF Rerun
  <1>2. \A u \in Users : Theirs(u)' => Theirs(u)
    BY <1>1 DEF Complete, Grows, EmailsLast, Theirs, Exists
  <1>3. ASSUME NEW p \in Memberships, p[1] \in DOMAIN groupMembers', Theirs(p[2])'
        PROVE  p[2] \in groupMembers'[p[1]]
    <2>1. Theirs(p[2])
      BY <1>2, <1>3, PairTypes
    <2>2. p[2] \in akMembers[p[1]]
      BY <1>1, <2>1 DEF Complete, Theirs
    <2>3. p[1] \in DOMAIN groupMembers => p[2] \in groupMembers[p[1]]
      BY <2>1 DEF Rerun
    <2>4. CASE groupMembers' = groupMembers
      BY <1>3, <2>3, <2>4
    <2>5. ASSUME NEW g \in Flat, groupMembers' = Remember(groupMembers, g, akMembers[g])
          PROVE  p[2] \in groupMembers'[p[1]]
      <3> DEFINE new == Remember(groupMembers, g, akMembers[g])
      <3>1. DOMAIN new = DOMAIN groupMembers \cup {g} /\ new[g] = akMembers[g]
            /\ \A m \in DOMAIN groupMembers : m # g => new[m] = groupMembers[m]
        BY DEF Remember
      <3>2. groupMembers' = new
        BY <2>5
      <3> HIDE DEF new
      <3> QED
        BY <1>3, <2>2, <2>3, <3>1, <3>2
    <2> QED
      BY <2>4, <2>5
  <1>4. ASSUME NEW p \in Assignments, p[1] \in DOMAIN roleMembers', Theirs(p[2])'
        PROVE  p[2] \in roleMembers'[p[1]]
    <2>1. Theirs(p[2])
      BY <1>2, <1>4, PairTypes
    <2>2. akGroup[p[1]] = "role" => p[2] \in akMembers[p[1]]
      BY <1>1, <2>1 DEF Complete, Theirs
    <2>3. p[1] \in DOMAIN roleMembers => p[2] \in roleMembers[p[1]]
      BY <2>1 DEF Rerun
    <2>4. CASE roleMembers' = roleMembers
      BY <1>4, <2>3, <2>4
    <2>5. ASSUME NEW r \in Roles, akGroup[r] = "role",
                 roleMembers' = Remember(roleMembers, r, akMembers[r])
          PROVE  p[2] \in roleMembers'[p[1]]
      <3> DEFINE new == Remember(roleMembers, r, akMembers[r])
      <3>1. DOMAIN new = DOMAIN roleMembers \cup {r} /\ new[r] = akMembers[r]
            /\ \A m \in DOMAIN roleMembers : m # r => new[m] = roleMembers[m]
        BY DEF Remember
      <3>2. roleMembers' = new
        BY <2>5
      <3> HIDE DEF new
      <3> QED
        BY <1>4, <2>2, <2>3, <2>5, <3>1, <3>2
    <2> QED
      BY <2>4, <2>5
  <1> QED
    BY <1>1, <1>3, <1>4

-----------------------------------------------------------------------------
\* The passes.

\* What holds before a step, and what earlier lemmas say of it.
Stepping ==
    /\ Inv /\ ReportInv /\ Grows
    /\ TypeInv' /\ GroupInv'

LEMMA CommitGroup ==
    ASSUME AkTypeOK, NEW w \in GroupWrites, Commit(w) PROVE akGroup'[w.to] = w.kind
  <1>1. w \notin UserWrites /\ w \notin MemberWrites /\ w.to \in Names
    BY DEF GroupWrites, UserWrites, MemberWrites
  <1> QED
    BY <1>1 DEF Commit, AkTypeOK

\* The groups pass: one row and the members of one group.
LEMMA GroupPass ==
    ASSUME Stepping, NEW g \in KcGroups, NEW x,
           phase = "groups", phase' = phase, groupRes' = [groupRes EXCEPT ![g] = x],
           UNCHANGED <<opts, before, roleRes, userRes, memRes, asgRes, roleMembers, userPks>>,
           \/ groupMembers' = groupMembers
           \/ g \in Flat /\ groupMembers' = Remember(groupMembers, g, akMembers[g])
           \/ /\ g \in Flat /\ groupMembers' = Remember(groupMembers, g, {})
              /\ call # NoCall /\ call.op = "create",
           g \in Flat => x # "CONFLICT",
           g \in Flat /\ opts.apply /\ InScope("groups") /\ x \in Good => akGroup'[g] # "absent",
           opts.apply /\ before.complete => x # "CREATED",
           opts.apply /\ before.complete /\ call' # NoCall => call'.op = "update"
    PROVE  RowInv' /\ Rerun'
  <1> USE DEF Stepping, ReportInv, RowInv
  <1>1. groupRes \in [KcGroups -> Outcomes \cup {"none"}]
    BY DEF Inv, TypeInv, TypeOK
  <1>2. groupRes'[g] = x /\ \A h \in KcGroups : h # g => groupRes'[h] = groupRes[h]
    BY <1>1
  <1>3. SnapInv'
    BY SnapKeeps DEF Inv
  <1>4. GroupRows'
    <2>1. ASSUME NEW h \in Flat, h # g
          PROVE  /\ groupRes'[h] # "CONFLICT"
                 /\ opts'.apply /\ InScope("groups")' /\ groupRes'[h] \in Good
                       => akGroup'[h] # "absent"
      BY <1>2, <2>1, PairTypes DEF Flat, GroupRows, InScope, Grows, GroupsLast
    <2> QED
      BY <1>2, <2>1 DEF GroupRows, InScope
  <1>5. RoleRows' /\ UserRows' /\ MemberRows' /\ AssignmentRows'
    BY RoleRowsKeep, UserRowsKeep, MemberRowsKeep, AssignmentRowsKeep
  <1>6. Order' /\ Passed'
    BY DEF Order, Passed
  <1>7. Rerun'
    <2>1. opts.apply /\ before.complete => NoneCreated'
      BY <1>2 DEF Rerun, NoneCreated
    <2>2. opts.apply /\ before.complete => (call # NoCall => call.op = "update")
      BY DEF Rerun
    <2> QED
      BY <2>1, <2>2, RerunKeeps DEF Inv
  <1> QED
    BY <1>3, <1>4, <1>5, <1>6, <1>7

LEMMA GroupRow ==
    ASSUME Stepping, NEW g \in KcGroups,
           GroupNested(g) \/ GroupLookupFails(g) \/ GroupLookup(g)
    PROVE  RowInv' /\ Rerun'
  <1>1. /\ phase = "groups" /\ phase' = phase /\ call = NoCall
        /\ UNCHANGED <<opts, before, roleRes, userRes, memRes, asgRes, roleMembers, userPks>>
    BY DEF GroupNested, GroupLookupFails, GroupLookup, At
  <1>2. CASE GroupNested(g)
    BY <1>1, <1>2, GroupPass DEF GroupNested, IsNested, Flat
  <1>3. CASE GroupLookupFails(g)
    BY <1>1, <1>3, GroupPass DEF GroupLookupFails, Good
  <1>4. CASE GroupLookup(g)
    <2> DEFINE found == akGroup[g] # "absent"
               plan == Plan("groups", found)
    <2>1. /\ groupRes' = [groupRes EXCEPT ![g] = plan]
          /\ ~IsNested(g) /\ UNCHANGED akVars
          /\ call' = WriteIf(plan, [kind |-> "group", op |-> Op(found), to |-> g])
          /\ groupMembers' = IF found THEN Remember(groupMembers, g, akMembers[g])
                                      ELSE groupMembers
      BY <1>4 DEF GroupLookup
    <2>2. g \in Flat
      BY <2>1 DEF IsNested, Flat
    <2>3. plan # "CONFLICT"
      BY DEF Plan
    <2>4. opts.apply /\ InScope("groups") /\ plan \in Good => found
      BY DEF Plan, Applies, Good
    <2>5. opts.apply /\ before.complete => found
      BY <2>2 DEF Stepping, ReportInv, Rerun, Complete
    <2>6. opts.apply /\ before.complete => plan # "CREATED" /\ (call' # NoCall => call'.op = "update")
      BY <2>1, <2>5 DEF Plan, WriteIf, Op
    <2>7. akGroup' = akGroup /\ (\/ groupMembers' = groupMembers
                                 \/ groupMembers' = Remember(groupMembers, g, akMembers[g]))
      BY <2>1
    <2>8. opts.apply /\ InScope("groups") /\ plan \in Good => akGroup'[g] # "absent"
      BY <2>4, <2>7
    <2> HIDE DEF plan, found
    <2> QED
      BY <1>1, <2>1, <2>2, <2>3, <2>6, <2>7, <2>8, GroupPass
  <1> QED
    BY <1>2, <1>3, <1>4

LEMMA GroupWriteRow == ASSUME Stepping, GroupWrite PROVE RowInv' /\ Rerun'
  <1>1. /\ phase = "groups" /\ phase' = phase /\ call # NoCall /\ call' = NoCall
        /\ UNCHANGED <<opts, before, roleRes, userRes, memRes, asgRes, roleMembers, userPks>>
    BY DEF GroupWrite
  <1>2. call \in GroupWrites /\ call.kind = "group" /\ call.to \in Flat /\ AkTypeOK
    BY <1>1 DEF Stepping, Inv, TypeInv, TypeOK, CallOK
  <1>3. PICK g \in Flat : g = call.to
    BY <1>2
  <1>4. PICK answer \in Answers :
          /\ Call(call, answer)
          /\ groupRes' = [groupRes EXCEPT ![g] = Outcome(answer)]
          /\ IF answer = "ok" /\ call.op = "create"
               THEN groupMembers' = Remember(groupMembers, g, {})
               ELSE groupMembers' = groupMembers
    BY <1>3 DEF GroupWrite
  <1>5. Outcome(answer) \in Good => akGroup'[g] # "absent"
    <2> SUFFICES ASSUME Outcome(answer) \in Good PROVE akGroup'[g] # "absent"
      OBVIOUS
    <2>1. answer = "ok"
      BY DEF Outcome, Good, Answers
    <2>2. Commit(call)
      BY <1>4, <2>1 DEF Call
    <2> QED
      BY <1>2, <1>3, <2>2, CommitGroup
  <1>6. opts.apply /\ before.complete => Outcome(answer) # "CREATED"
    BY <1>1 DEF Stepping, ReportInv, Rerun, Outcome
  <1>7. Outcome(answer) # "CONFLICT" /\ g \in KcGroups
    BY DEF Outcome, Flat
  <1>8. \/ groupMembers' = groupMembers
        \/ groupMembers' = Remember(groupMembers, g, {}) /\ call.op = "create"
    BY <1>4
  <1> QED
    BY <1>1, <1>4, <1>5, <1>6, <1>7, <1>8, GroupPass

\* The roles pass: one row and the members of one role.
LEMMA RolePass ==
    ASSUME Stepping, NEW r \in Roles, NEW x,
           phase = "roles", phase' = phase, roleRes' = [roleRes EXCEPT ![r] = x],
           UNCHANGED <<opts, before, groupRes, userRes, memRes, asgRes, groupMembers, userPks>>,
           \/ roleMembers' = roleMembers
           \/ akGroup[r] = "role" /\ roleMembers' = Remember(roleMembers, r, akMembers[r])
           \/ /\ roleMembers' = Remember(roleMembers, r, {})
              /\ call # NoCall /\ call.op = "create",
           x = "CONFLICT" => r \in Composite \cup Flat \/ akGroup'[r] \in {"other", "group"},
           opts.apply /\ x \in Good => akGroup'[r] = "role",
           opts.apply /\ before.complete => x # "CREATED",
           opts.apply /\ before.complete /\ call' # NoCall => call'.op = "update"
    PROVE  RowInv' /\ Rerun'
  <1> USE DEF Stepping, ReportInv, RowInv
  <1>1. roleRes \in [Roles -> Outcomes \cup {"none"}]
    BY DEF Inv, TypeInv, TypeOK
  <1>2. roleRes'[r] = x /\ \A h \in Roles : h # r => roleRes'[h] = roleRes[h]
    BY <1>1
  <1>3. SnapInv'
    BY SnapKeeps DEF Inv
  <1>4. RoleRows'
    <2>1. ASSUME NEW h \in Roles, h # r
          PROVE  /\ opts'.apply /\ roleRes'[h] \in Good => akGroup'[h] = "role"
                 /\ roleRes'[h] = "CONFLICT" =>
                       h \in Composite \cup Flat \/ akGroup'[h] \in {"other", "group"}
      BY <1>2, <2>1, RoleRowKeeps
    <2> QED
      BY <1>2, <2>1 DEF RoleRows
  <1>5. GroupRows' /\ UserRows' /\ MemberRows'
    BY GroupRowsKeep, UserRowsKeep, MemberRowsKeep
  <1>6. Order' /\ Passed'
    BY DEF Order, Passed
  <1>7. AssignmentRows'
    BY NoAssignmentRows DEF Order
  <1>8. Rerun'
    <2>1. opts.apply /\ before.complete => NoneCreated'
      BY <1>2 DEF Rerun, NoneCreated
    <2>2. opts.apply /\ before.complete => (call # NoCall => call.op = "update")
      BY DEF Rerun
    <2> QED
      BY <2>1, <2>2, RerunKeeps DEF Inv
  <1> QED
    BY <1>3, <1>4, <1>5, <1>6, <1>7, <1>8

LEMMA RoleRow ==
    ASSUME Stepping, NEW r \in Roles,
           RoleConflict(r) \/ RoleLookupFails(r) \/ RoleLookup(r)
    PROVE  RowInv' /\ Rerun'
  <1>1. /\ phase = "roles" /\ phase' = phase /\ call = NoCall /\ InScope("roles")
        /\ UNCHANGED <<opts, before, groupRes, userRes, memRes, asgRes, groupMembers, userPks>>
    BY DEF RoleConflict, RoleLookupFails, RoleLookup, At, Needed
  <1>2. CASE RoleConflict(r)
    <2>1. r \in Composite \cup Flat \/ akGroup'[r] \in {"other", "group"}
      BY <1>2 DEF RoleConflict, RoleRefused, ok_groups
    <2> QED
      BY <1>1, <1>2, <2>1, RolePass DEF RoleConflict, Good
  <1>3. CASE RoleLookupFails(r)
    BY <1>1, <1>3, RolePass DEF RoleLookupFails, Good
  <1>4. CASE RoleLookup(r)
    <2> DEFINE found == akGroup[r] # "absent"
               plan == Plan("roles", found)
    <2>1. /\ roleRes' = [roleRes EXCEPT ![r] = plan]
          /\ ~RoleRefused(r) /\ UNCHANGED akVars
          /\ call' = WriteIf(plan, [kind |-> "role", op |-> Op(found), to |-> r])
          /\ roleMembers' = IF found THEN Remember(roleMembers, r, akMembers[r])
                                     ELSE roleMembers
      BY <1>4 DEF RoleLookup
    <2>2. found => akGroup[r] = "role"
      BY <2>1, PairTypes DEF RoleRefused, Stepping, Inv, TypeInv, TypeOK, AkTypeOK
    <2>3. plan # "CONFLICT"
      BY DEF Plan
    <2>4. opts.apply /\ plan \in Good => found
      BY <1>1 DEF Plan, Applies, Good
    <2>5. opts.apply /\ before.complete => found
      BY <2>1 DEF RoleRefused, Stepping, ReportInv, Rerun, Complete
    <2>6. opts.apply /\ before.complete => plan # "CREATED" /\ (call' # NoCall => call'.op = "update")
      BY <2>1, <2>5 DEF Plan, WriteIf, Op
    <2>7. \/ roleMembers' = roleMembers
          \/ akGroup[r] = "role" /\ roleMembers' = Remember(roleMembers, r, akMembers[r])
      BY <2>1, <2>2
    <2>8. opts.apply /\ plan \in Good => akGroup'[r] = "role"
      BY <2>1, <2>2, <2>4
    <2> HIDE DEF plan, found
    <2> QED
      BY <1>1, <2>1, <2>3, <2>6, <2>7, <2>8, RolePass
  <1> QED
    BY <1>2, <1>3, <1>4

LEMMA RoleWriteRow == ASSUME Stepping, RoleWrite PROVE RowInv' /\ Rerun'
  <1>1. /\ phase = "roles" /\ phase' = phase /\ call # NoCall /\ call' = NoCall
        /\ UNCHANGED <<opts, before, groupRes, userRes, memRes, asgRes, groupMembers, userPks>>
    BY DEF RoleWrite
  <1>2. call \in GroupWrites /\ call.kind = "role" /\ call.to \in Roles /\ AkTypeOK
    BY <1>1 DEF Stepping, Inv, TypeInv, TypeOK, CallOK
  <1>3. PICK r \in Roles : r = call.to
    BY <1>2
  <1>4. PICK answer \in Answers :
          /\ Call(call, answer)
          /\ roleRes' = [roleRes EXCEPT ![r] = Outcome(answer)]
          /\ IF answer = "ok" /\ call.op = "create"
               THEN roleMembers' = Remember(roleMembers, r, {})
               ELSE roleMembers' = roleMembers
    BY <1>3 DEF RoleWrite
  <1>5. Outcome(answer) \in Good => akGroup'[r] = "role"
    <2> SUFFICES ASSUME Outcome(answer) \in Good PROVE akGroup'[r] = "role"
      OBVIOUS
    <2>1. answer = "ok"
      BY DEF Outcome, Good, Answers
    <2>2. Commit(call)
      BY <1>4, <2>1 DEF Call
    <2> QED
      BY <1>2, <1>3, <2>2, CommitGroup
  <1>6. opts.apply /\ before.complete => Outcome(answer) # "CREATED"
    BY <1>1 DEF Stepping, ReportInv, Rerun, Outcome
  <1>7. Outcome(answer) # "CONFLICT"
    BY DEF Outcome
  <1>8. \/ roleMembers' = roleMembers
        \/ roleMembers' = Remember(roleMembers, r, {}) /\ call.op = "create"
    BY <1>4
  <1> QED
    BY <1>1, <1>4, <1>5, <1>6, <1>7, <1>8, RolePass

\* The users pass: one row, and whether the pk is known.
LEMMA UserPass ==
    ASSUME Stepping, NEW u \in Users, NEW x,
           phase = "users", phase' = phase, userRes' = [userRes EXCEPT ![u] = x],
           UNCHANGED <<opts, before, groupRes, roleRes, memRes, asgRes,
                       groupMembers, roleMembers>>,
           userPks' = userPks \/ (userPks' = userPks \cup {u} /\ Theirs(u)'),
           x = "CONFLICT" => Taken(u),
           x \in {"SKIPPED", "UPDATED"} => u \in userPks',
           opts.apply /\ InScope("users") /\ x \in Good => Theirs(u)',
           opts.apply /\ before.complete => x # "CREATED",
           opts.apply /\ before.complete /\ call' # NoCall => call'.op = "update"
    PROVE  RowInv' /\ Rerun'
  <1> USE DEF Stepping, ReportInv, RowInv
  <1>1. userRes \in [Users -> Outcomes \cup {"none"}]
    BY DEF Inv, TypeInv, TypeOK
  <1>2. userRes'[u] = x /\ \A v \in Users : v # u => userRes'[v] = userRes[v]
    BY <1>1
  <1>3. SnapInv'
    BY SnapKeeps DEF Inv
  <1>4. UserRows'
    <2>1. \A v \in Users : (Theirs(v) => Theirs(v)') /\ (Taken(v) => Taken(v)')
      BY TheirsLast, TakenLasts DEF Grows
    <2>2. ASSUME NEW v \in Users
          PROVE  /\ opts'.apply /\ InScope("users")' /\ userRes'[v] \in Good => Theirs(v)'
                 /\ userRes'[v] \in {"SKIPPED", "UPDATED"} => v \in userPks'
                 /\ userRes'[v] = "CONFLICT" => Taken(v)'
                 /\ v \in userPks' => Theirs(v)'
      <3>1. CASE v = u
        BY <1>2, <2>1, <3>1 DEF UserRows, InScope
      <3>2. CASE v # u
        BY <1>2, <2>1, <3>2 DEF UserRows, InScope
      <3> QED
        BY <3>1, <3>2
    <2> QED
      BY <2>2 DEF UserRows
  <1>5. GroupRows' /\ RoleRows'
    BY GroupRowsKeep, RoleRowsKeep
  <1>6. Order' /\ Passed'
    BY DEF Order, Passed
  <1>7. MemberRows' /\ AssignmentRows'
    BY NoMemberRows, NoAssignmentRows DEF Order
  <1>8. Rerun'
    <2>1. opts.apply /\ before.complete => NoneCreated'
      BY <1>2 DEF Rerun, NoneCreated
    <2> QED
      BY <2>1, RerunKeeps DEF Inv
  <1> QED
    BY <1>3, <1>4, <1>5, <1>6, <1>7, <1>8

LEMMA UserRow ==
    ASSUME Stepping, NEW u \in Users,
           UserTaken(u) \/ UserLookupFails(u) \/ UserLookup(u)
    PROVE  RowInv' /\ Rerun'
  <1>1. /\ phase = "users" /\ phase' = phase /\ call = NoCall
        /\ UNCHANGED <<opts, before, groupRes, roleRes, memRes, asgRes,
                       groupMembers, roleMembers>>
    BY DEF UserTaken, UserLookupFails, UserLookup, At
  <1>2. CASE UserTaken(u)
    BY <1>1, <1>2, UserPass DEF UserTaken, Good
  <1>3. CASE UserLookupFails(u)
    BY <1>1, <1>3, UserPass DEF UserLookupFails, Good
  <1>4. CASE UserLookup(u)
    <2> DEFINE plan == Plan("users", Exists(u))
    <2>1. /\ userRes' = [userRes EXCEPT ![u] = plan]
          /\ ~Taken(u) /\ UNCHANGED akVars
          /\ call' = WriteIf(plan, [kind |-> "user", op |-> Op(Exists(u)), to |-> u,
                                    email |-> EmailOf[u]])
          /\ IF Exists(u) THEN userPks' = userPks \cup {u} ELSE userPks' = userPks
      BY <1>4 DEF UserLookup
    <2>2. Exists(u) => Theirs(u) /\ Theirs(u)'
      BY <2>1 DEF Taken, Theirs, Exists
    <2>3. plan # "CONFLICT" /\ (plan \in {"SKIPPED", "UPDATED"} => Exists(u))
      BY DEF Plan
    <2>4. opts.apply /\ InScope("users") /\ plan \in Good => Exists(u)
      BY DEF Plan, Applies, Good
    <2>5. opts.apply /\ before.complete => Exists(u)
      BY DEF Stepping, ReportInv, Rerun, Complete
    <2>6. opts.apply /\ before.complete => plan # "CREATED" /\ (call' # NoCall => call'.op = "update")
      BY <2>1, <2>5 DEF Plan, WriteIf, Op
    <2> HIDE DEF plan
    <2> QED
      BY <1>1, <2>1, <2>2, <2>3, <2>4, <2>6, UserPass
  <1> QED
    BY <1>2, <1>3, <1>4

LEMMA UserWriteRow == ASSUME Stepping, UserWrite PROVE RowInv' /\ Rerun'
  <1>1. /\ phase = "users" /\ phase' = phase /\ call # NoCall /\ call' = NoCall
        /\ UNCHANGED <<opts, before, groupRes, roleRes, memRes, asgRes,
                       groupMembers, roleMembers>>
    BY DEF UserWrite
  <1>2. call \in UserWrites /\ AkTypeOK /\ UserFound(call)
    BY <1>1 DEF Stepping, Inv, TypeInv, TypeOK, CallOK, ReportInv, UserInv, UsersFound
  <1>3. PICK u \in Users : u = call.to
    BY <1>2 DEF UserWrites
  <1>4. PICK answer \in Answers :
          /\ Call(call, answer)
          /\ userRes' = [userRes EXCEPT ![u] = Outcome(answer)]
          /\ userPks' = IF answer = "ok" THEN userPks \cup {u} ELSE userPks
    BY <1>3 DEF UserWrite
  <1>5. answer = "ok" => Theirs(u)'
    <2> SUFFICES ASSUME answer = "ok" PROVE Theirs(u)'
      OBVIOUS
    <2>1. Commit(call) /\ call \notin GroupWrites /\ call \notin MemberWrites
      BY <1>2, <1>4 DEF Call, UserWrites, GroupWrites, MemberWrites
    <2>2. /\ call.email = EmailOf[u] /\ call.email \in Emails
          /\ akUser' = [akUser EXCEPT ![u] = [email |-> call.email, profile |-> "keycloak"]]
      BY <1>2, <1>3, <2>1 DEF Commit, UserFound, UserWrites
    <2>3. akUser'[u] = [email |-> EmailOf[u], profile |-> "keycloak"]
      BY <1>2, <2>2 DEF AkTypeOK
    <2>4. akUser'[u] # NoAccount
      BY <2>2, <2>3, AccountAssumption DEF Accounts
    <2> QED
      BY <2>3, <2>4 DEF Theirs, Exists
  <1>6. Outcome(answer) \in Good => answer = "ok"
    BY DEF Outcome, Good, Answers
  <1>7. opts.apply /\ before.complete => Outcome(answer) # "CREATED"
    BY <1>1 DEF Stepping, ReportInv, Rerun, Outcome
  <1>8. Outcome(answer) # "CONFLICT" /\ (Outcome(answer) \in {"SKIPPED", "UPDATED"} => answer = "ok")
    BY <1>6 DEF Outcome, Good
  <1> QED
    BY <1>1, <1>4, <1>5, <1>6, <1>7, <1>8, UserPass

-----------------------------------------------------------------------------
\* Members.

LEMMA CommitLink ==
    ASSUME AkTypeOK, NEW p \in Names \X Users, Commit(TheLink(p))
    PROVE  p[2] \in akMembers'[p[1]]
  <1>1. /\ TheLink(p) \notin UserWrites /\ TheLink(p) \notin GroupWrites
        /\ TheLink(p).to = p /\ p[1] \in Names
    BY DEF GroupWrites, UserWrites, TheLink
  <1>2. akMembers' = [akMembers EXCEPT ![p[1]] = @ \cup {p[2]}]
    BY <1>1 DEF Commit
  <1> QED
    BY <1>1, <1>2 DEF AkTypeOK

\* What Link makes of a plan: the row x, and a member that claims one.
LEMMA LinkRow ==
    ASSUME AkTypeOK, NEW old, NEW new, NEW p \in Names \X Users, NEW plan,
           IF plan # "none"
             THEN new = [old EXCEPT ![p] = plan]
             ELSE \E answer \in Answers :
                    /\ Call(TheLink(p), answer)
                    /\ new = [old EXCEPT ![p] = IF answer = "ok" THEN "CREATED" ELSE "FAILED"]
    PROVE  \E x : /\ new = [old EXCEPT ![p] = x]
                  /\ x = plan \/ (plan = "none" /\ x \in {"CREATED", "FAILED"})
                  /\ plan = "none" /\ x = "CREATED" => p[2] \in akMembers'[p[1]]
  <1>1. CASE plan # "none"
    BY <1>1
  <1>2. CASE plan = "none"
    <2>1. PICK answer \in Answers :
             /\ Call(TheLink(p), answer)
             /\ new = [old EXCEPT ![p] = IF answer = "ok" THEN "CREATED" ELSE "FAILED"]
      BY <1>2
    <2>2. CASE answer = "ok"
      <3>1. Commit(TheLink(p))
        BY <2>1, <2>2 DEF Call
      <3>2. p[2] \in akMembers'[p[1]]
        BY <3>1, CommitLink
      <3> QED
        BY <1>2, <2>1, <2>2, <3>2
    <2>3. CASE answer # "ok"
      BY <1>2, <2>1, <2>3
    <2> QED
      BY <2>2, <2>3
  <1> QED
    BY <1>1, <1>2

LEMMA LinkPlanIs ==
    ASSUME NEW p, NEW members, NEW applies
    PROVE  /\ LinkPlan(p, members, applies) \in
                 {"omitted", "SKIPPED", "CREATED", "none", "FAILED"}
           /\ LinkPlan(p, members, applies) = "omitted" => p[2] \notin resolved_usernames
           /\ LinkPlan(p, members, applies) = "SKIPPED" =>
                 p[1] \in DOMAIN members /\ p[2] \in members[p[1]]
           /\ LinkPlan(p, members, applies) = "CREATED" => ~applies
           /\ LinkPlan(p, members, applies) = "none" =>
                 /\ p[1] \in DOMAIN members /\ p[2] \in userPks
                 /\ p[2] \notin members[p[1]]
  BY DEF LinkPlan

LEMMA MemberRow ==
    ASSUME Stepping, NEW p \in Memberships, Member(p) PROVE RowInv' /\ Rerun'
  <1> USE DEF Stepping, ReportInv, RowInv
  <1> DEFINE plan == LinkPlan(p, groupMembers, opts.apply)
  <1>1. /\ phase = "memberships" /\ phase' = phase /\ call = NoCall /\ call' = call
        /\ UNCHANGED <<opts, before, groupRes, roleRes, userRes, asgRes,
                       groupMembers, roleMembers, userPks>>
        /\ IF plan # "none"
             THEN memRes' = [memRes EXCEPT ![p] = plan]
             ELSE \E answer \in Answers :
                    /\ Call(TheLink(p), answer)
                    /\ memRes' = [memRes EXCEPT ![p] =
                                    IF answer = "ok" THEN "CREATED" ELSE "FAILED"]
    BY DEF Member, At, Link, TheLink
  <1>2. p[1] \in Flat /\ p[1] \in Names /\ p[2] \in Users /\ p \in Names \X Users
    BY KeycloakAssumption DEF Memberships, Flat
  <1>3. AkTypeOK /\ memRes \in [Memberships -> Outcomes \cup {"none", "omitted"}]
    BY DEF Inv, TypeInv, TypeOK
  <1>4. /\ plan \in {"omitted", "SKIPPED", "CREATED", "none", "FAILED"}
        /\ plan = "omitted" => p[2] \notin resolved_usernames
        /\ plan = "SKIPPED" => p[1] \in DOMAIN groupMembers /\ p[2] \in groupMembers[p[1]]
        /\ plan = "CREATED" => ~opts.apply
        /\ plan = "none" => /\ p[1] \in DOMAIN groupMembers /\ p[2] \in userPks
                            /\ p[2] \notin groupMembers[p[1]]
    BY LinkPlanIs
  <1>5. opts.apply /\ before.complete => plan # "none"
    BY <1>2, <1>4 DEF UserRows, Rerun
  <1> HIDE DEF plan
  <1>6. PICK x : /\ memRes' = [memRes EXCEPT ![p] = x]
                 /\ x = plan \/ (plan = "none" /\ x \in {"CREATED", "FAILED"})
                 /\ plan = "none" /\ x = "CREATED" => p[2] \in akMembers'[p[1]]
    BY <1>1, <1>2, <1>3, LinkRow
  <1>7. memRes'[p] = x /\ \A q \in Memberships : q # p => memRes'[q] = memRes[q]
    BY <1>3, <1>6
  <1>8. opts.apply /\ x \in Good => p[2] \in akMembers'[p[1]]
    <2>1. plan = "SKIPPED" => p[2] \in akMembers'[p[1]]
      BY <1>2, <1>4 DEF SnapInv, Grows, GroupsLast
    <2> QED
      BY <1>4, <1>6, <2>1 DEF Good
  <1>9. MemberRows'
    <2>1. ASSUME NEW q \in Memberships, q # p
          PROVE  /\ memRes'[q] # "CONFLICT"
                 /\ opts'.apply /\ memRes'[q] \in Good => q[2] \in akMembers'[q[1]]
                 /\ memRes'[q] = "omitted" => q[2] \notin resolved_usernames'
      BY <1>1, <1>7, <2>1, PairTypes DEF MemberRows, Grows, GroupsLast, resolved_usernames
    <2>2. /\ memRes'[p] # "CONFLICT"
          /\ opts'.apply /\ memRes'[p] \in Good => p[2] \in akMembers'[p[1]]
          /\ memRes'[p] = "omitted" => p[2] \notin resolved_usernames'
      BY <1>1, <1>4, <1>6, <1>7, <1>8 DEF resolved_usernames
    <2> QED
      BY <2>1, <2>2 DEF MemberRows
  <1>10. SnapInv' /\ GroupRows' /\ RoleRows' /\ UserRows' /\ AssignmentRows'
    BY <1>1, SnapKeeps, GroupRowsKeep, RoleRowsKeep, UserRowsKeep, AssignmentRowsKeep DEF Inv
  <1>11. Order' /\ Passed'
    BY <1>1 DEF Order, Passed
  <1>12. Rerun'
    <2>1. opts.apply /\ before.complete => NoneCreated'
      BY <1>1, <1>4, <1>5, <1>6, <1>7 DEF Rerun, NoneCreated
    <2> QED
      BY <1>1, <2>1, RerunKeeps DEF Inv
  <1> QED
    BY <1>9, <1>10, <1>11, <1>12

LEMMA AssignmentRow ==
    ASSUME Stepping, NEW p \in Assignments, Assign(p) PROVE RowInv' /\ Rerun'
  <1> USE DEF Stepping, ReportInv, RowInv
  <1> DEFINE refused == p[2] \in resolved_usernames /\ p[1] \in role_conflicted
             plan == LinkPlan(p, roleMembers, Applies("roles"))
             row == IF refused THEN "CONFLICT" ELSE plan
  <1>1. /\ phase = "assignments" /\ phase' = phase /\ call = NoCall /\ call' = call
        /\ InScope("roles")
        /\ UNCHANGED <<opts, before, groupRes, roleRes, userRes, memRes,
                       groupMembers, roleMembers, userPks>>
        /\ IF row # "none"
             THEN asgRes' = [asgRes EXCEPT ![p] = row]
             ELSE \E answer \in Answers :
                    /\ Call(TheLink(p), answer)
                    /\ asgRes' = [asgRes EXCEPT ![p] =
                                    IF answer = "ok" THEN "CREATED" ELSE "FAILED"]
    BY DEF Assign, At, Needed, Link, TheLink
  <1>2. p[1] \in Roles /\ p[1] \in Names /\ p[2] \in Users /\ p \in Names \X Users
    BY KeycloakAssumption DEF Assignments, Roles
  <1>3. AkTypeOK /\ asgRes \in [Assignments -> Outcomes \cup {"none", "omitted"}]
    BY DEF Inv, TypeInv, TypeOK
  <1>4. /\ plan \in {"omitted", "SKIPPED", "CREATED", "none", "FAILED"}
        /\ plan = "omitted" => p[2] \notin resolved_usernames
        /\ plan = "SKIPPED" => p[1] \in DOMAIN roleMembers /\ p[2] \in roleMembers[p[1]]
        /\ plan = "CREATED" => ~opts.apply
        /\ plan = "none" => /\ p[1] \in DOMAIN roleMembers /\ p[2] \in userPks
                            /\ p[2] \notin roleMembers[p[1]]
    <2>1. plan = "CREATED" => ~Applies("roles")
      BY LinkPlanIs
    <2>2. plan = "CREATED" => ~opts.apply
      BY <1>1, <2>1 DEF Applies
    <2> QED
      BY <2>2, LinkPlanIs
  <1>5. opts.apply /\ before.complete => plan # "none"
    BY <1>2, <1>4 DEF UserRows, Rerun
  <1>6. refused => roleRes[p[1]] = "CONFLICT"
    BY DEF role_conflicted
  <1> HIDE DEF plan, refused
  <1>7. PICK x : /\ asgRes' = [asgRes EXCEPT ![p] = x]
                 /\ x = row \/ (row = "none" /\ x \in {"CREATED", "FAILED"})
                 /\ row = "none" /\ x = "CREATED" => p[2] \in akMembers'[p[1]]
    <2> HIDE DEF row
    <2> QED
      BY <1>1, <1>2, <1>3, LinkRow
  <1>8. asgRes'[p] = x /\ \A q \in Assignments : q # p => asgRes'[q] = asgRes[q]
    BY <1>3, <1>7
  <1>9. opts.apply /\ x \in Good => p[2] \in akMembers'[p[1]]
    <2>1. plan = "SKIPPED" => p[2] \in akMembers'[p[1]]
      BY <1>2, <1>4 DEF SnapInv, Grows, GroupsLast
    <2> QED
      BY <1>4, <1>7, <2>1 DEF Good
  <1>10. AssignmentRows'
    <2>1. ASSUME NEW q \in Assignments, q # p
          PROVE  /\ opts'.apply /\ asgRes'[q] \in Good => q[2] \in akMembers'[q[1]]
                 /\ asgRes'[q] = "CONFLICT" => roleRes'[q[1]] = "CONFLICT"
                 /\ asgRes'[q] = "omitted" => q[2] \notin resolved_usernames'
      BY <1>1, <1>8, <2>1, PairTypes DEF AssignmentRows, Grows, GroupsLast, resolved_usernames
    <2>2. /\ opts'.apply /\ asgRes'[p] \in Good => p[2] \in akMembers'[p[1]]
          /\ asgRes'[p] = "CONFLICT" => roleRes'[p[1]] = "CONFLICT"
          /\ asgRes'[p] = "omitted" => p[2] \notin resolved_usernames'
      BY <1>1, <1>4, <1>6, <1>7, <1>8, <1>9 DEF resolved_usernames
    <2> QED
      BY <2>1, <2>2 DEF AssignmentRows
  <1>11. SnapInv' /\ GroupRows' /\ RoleRows' /\ UserRows' /\ MemberRows'
    BY <1>1, SnapKeeps, GroupRowsKeep, RoleRowsKeep, UserRowsKeep, MemberRowsKeep DEF Inv
  <1>12. Order' /\ Passed'
    BY <1>1 DEF Order, Passed
  <1>13. Rerun'
    <2>1. opts.apply /\ before.complete => NoneCreated'
      BY <1>1, <1>4, <1>5, <1>7, <1>8 DEF Rerun, NoneCreated
    <2> QED
      BY <1>1, <2>1, RerunKeeps DEF Inv
  <1> QED
    BY <1>10, <1>11, <1>12, <1>13

-----------------------------------------------------------------------------
\* The run.

\* Steps that make no row.
LEMMA RowsRest ==
    ASSUME Stepping, UNCHANGED <<opts, before, rows, known>>, call' \in {call, NoCall}
    PROVE  /\ SnapInv' /\ GroupRows' /\ RoleRows' /\ UserRows' /\ MemberRows'
           /\ AssignmentRows' /\ Rerun'
  <1> USE DEF Stepping, ReportInv, RowInv
  <1>1. SnapInv' /\ GroupRows' /\ RoleRows' /\ UserRows' /\ MemberRows' /\ AssignmentRows'
    BY SnapKeeps, GroupRowsKeep, RoleRowsKeep, UserRowsKeep, MemberRowsKeep,
       AssignmentRowsKeep DEF Inv
  <1>2. opts.apply /\ before.complete => NoneCreated' /\ (call' # NoCall => call'.op = "update")
    BY DEF Rerun, NoneCreated
  <1>3. Rerun'
    BY <1>2, RerunKeeps DEF Inv
  <1> QED
    BY <1>1, <1>3

LEMMA AdvanceRows == ASSUME Stepping, Advance PROVE RowInv' /\ Rerun'
  <1>1. UNCHANGED <<opts, before, rows, known, call>> /\ Running /\ phase' = After[phase]
        /\ (Needed(phase) => Over(phase))
    BY DEF Advance
  <1>2. Order'
    BY <1>1 DEF Stepping, ReportInv, RowInv, Order, After, Running, Phases
  <1>3. opts.scope = Kinds => (phase # "mail" => Needed(phase))
    BY <1>1 DEF Needed, InScope, Kinds, Running, Phases
  <1>4. Passed'
    <2> SUFFICES ASSUME opts.scope = Kinds, phase # "mail" => Over(phase) PROVE Passed'
      BY <1>1, <1>3 DEF Passed
    <2>1. Passed
      BY DEF Stepping, ReportInv, RowInv
    <2>2. UNCHANGED <<groupRes, roleRes, userRes, memRes, asgRes, opts>>
      BY <1>1
    <2>3. CASE phase = "groups"
      <3>1. Pending(groupRes) = {} /\ phase' = "roles"
        BY <1>1, <2>3 DEF Over, After
      <3> QED
        BY <2>2, <3>1 DEF Passed, Pending
    <2>4. CASE phase = "roles"
      <3>1. Pending(roleRes) = {} /\ phase' = "users"
        BY <1>1, <2>4 DEF Over, After
      <3> QED
        BY <2>1, <2>2, <2>4, <3>1 DEF Passed, Pending
    <2>5. CASE phase = "users"
      <3>1. Pending(userRes) = {} /\ phase' = "memberships"
        BY <1>1, <2>5 DEF Over, After
      <3> QED
        BY <2>1, <2>2, <2>5, <3>1 DEF Passed, Pending
    <2>6. CASE phase = "memberships"
      <3>1. Pending(memRes) = {} /\ phase' = "assignments"
        BY <1>1, <2>6 DEF Over, After
      <3> QED
        BY <2>1, <2>2, <2>6, <3>1 DEF Passed, Pending
    <2>7. CASE phase = "assignments"
      <3>1. Pending(asgRes) = {} /\ phase' = "mail"
        BY <1>1, <2>7 DEF Over, After
      <3> QED
        BY <2>1, <2>2, <2>7, <3>1 DEF Passed, Pending
    <2>8. CASE phase = "mail"
      <3>1. phase' = "done"
        BY <1>1, <2>8 DEF After
      <3> QED
        BY <2>1, <2>2, <2>8, <3>1 DEF Passed, Pending
    <2> QED
      BY <1>1, <2>3, <2>4, <2>5, <2>6, <2>7, <2>8 DEF Running, Phases
  <1> QED
    BY <1>1, <1>2, <1>4, RowsRest DEF RowInv

LEMMA StartRows ==
    ASSUME Stepping, NEW o \in Invocations, Start(o) PROVE RowInv' /\ Rerun'
  <1>1. /\ opts' = o /\ phase' = "groups" /\ call' = NoCall /\ UNCHANGED akVars
        /\ groupRes' = [g \in KcGroups |-> "none"]
        /\ roleRes' = [r \in Roles |-> "none"]
        /\ userRes' = [u \in Users |-> "none"]
        /\ memRes' = [p \in Memberships |-> "none"]
        /\ asgRes' = [p \in Assignments |-> "none"]
        /\ groupMembers' = [g \in {} |-> {}] /\ roleMembers' = [r \in {} |-> {}]
        /\ userPks' = {} /\ before'.complete = Complete
    BY DEF Start
  <1>2. SnapInv'
    BY <1>1 DEF SnapInv
  <1>3. GroupRows' /\ RoleRows' /\ UserRows'
    BY <1>1 DEF GroupRows, RoleRows, UserRows, Good, Flat
  <1>4. MemberRows' /\ AssignmentRows'
    BY <1>1, NoMemberRows, NoAssignmentRows
  <1>5. Order' /\ Passed'
    BY <1>1 DEF Order, Passed
  <1>6. Rerun'
    <2> SUFFICES ASSUME Complete PROVE Complete' /\ NoneCreated'
      BY <1>1 DEF Rerun
    <2> QED
      BY <1>1, CompleteLasts DEF Stepping, Inv, NoneCreated
  <1> QED
    BY <1>2, <1>3, <1>4, <1>5, <1>6 DEF RowInv

LEMMA StepRows == ASSUME Stepping, [Next]_vars PROVE RowInv' /\ Rerun'
  <1>1. ASSUME NEW o \in Invocations, Start(o) PROVE RowInv' /\ Rerun'
    BY <1>1, StartRows
  <1>2. ASSUME UNCHANGED <<opts, before, rows, known>>, call' \in {call, NoCall},
               phase' \in {phase, "stopped"}
        PROVE  RowInv' /\ Rerun'
    <2>1. Order' /\ Passed'
      BY <1>2 DEF Stepping, ReportInv, RowInv, Order, Passed
    <2> QED
      BY <1>2, <2>1, RowsRest DEF RowInv
  <1>3. ASSUME NEW u \in Users, Mail(u) PROVE RowInv' /\ Rerun'
    BY <1>2, <1>3 DEF Mail
  <1>4. CASE Interrupt \/ Environment \/ UNCHANGED vars
    BY <1>2, <1>4 DEF Interrupt, Environment
  <1>5. CASE Pass
    BY <1>3, <1>5, GroupRow, GroupWriteRow, RoleRow, RoleWriteRow, UserRow, UserWriteRow,
       MemberRow, AssignmentRow, AdvanceRows DEF Pass
  <1> QED
    BY <1>1, <1>4, <1>5 DEF Next, Run

LEMMA ReportInit == Init => ReportInv
  <1>1. Init => SnapInv /\ GroupRows /\ RoleRows /\ UserRows /\ MemberRows /\ AssignmentRows
    BY DEF Init, SnapInv, GroupRows, RoleRows, UserRows, MemberRows, AssignmentRows, Good, Flat
  <1>2. Init => Order /\ Passed /\ Rerun
    BY DEF Init, Order, Passed, Rerun, Kinds
  <1> QED
    BY <1>1, <1>2, EmailsInit, GroupsInit DEF ReportInv, RowInv

LEMMA ReportNext ==
    ASSUME RolesComeWithGroups, Inv, ReportInv, [Next]_vars PROVE Inv' /\ ReportInv'
  <1>1. Inv'
    BY NextType, MergeNext DEF Inv
  <1>2. UserInv' /\ GroupInv' /\ Grows
    BY StepEmails, StepGroups DEF Inv, ReportInv, Grows
  <1>3. RowInv' /\ Rerun'
    BY <1>1, <1>2, StepRows DEF Stepping, Inv
  <1> QED
    BY <1>1, <1>2, <1>3 DEF ReportInv

-----------------------------------------------------------------------------
\* What the report says.

LEMMA RowsAreSound == ASSUME ReportInv PROVE ReportSound
  BY DEF ReportInv, RowInv, GroupRows, RoleRows, UserRows, MemberRows, AssignmentRows,
         ReportSound, Theirs

\* Every row of a full run that ended is there; none is FAILED; and the others
\* tell of an object, or of a name or a username that is taken.
LEMMA RowsAreComplete == ASSUME Inv, ReportInv PROVE ReportComplete
  <1> USE DEF ReportInv, RowInv
  <1> SUFFICES ASSUME phase = "done", opts.apply, opts.scope = Kinds, NoRow("FAILED")
               PROVE  Complete
    BY DEF ReportComplete
  <1>1. /\ groupRes \in [KcGroups -> Outcomes \cup {"none"}]
        /\ roleRes \in [Roles -> Outcomes \cup {"none"}]
        /\ userRes \in [Users -> Outcomes \cup {"none"}]
        /\ memRes \in [Memberships -> Outcomes \cup {"none", "omitted"}]
        /\ asgRes \in [Assignments -> Outcomes \cup {"none", "omitted"}]
    BY DEF Inv, TypeInv, TypeOK
  <1>2. /\ \A g \in KcGroups : groupRes[g] \in Good \cup {"CONFLICT"}
        /\ \A r \in Roles : roleRes[r] \in Good \cup {"CONFLICT"}
        /\ \A u \in Users : userRes[u] \in Good \cup {"CONFLICT"}
        /\ \A p \in Memberships : memRes[p] \in Good \cup {"CONFLICT", "omitted"}
        /\ \A p \in Assignments : asgRes[p] \in Good \cup {"CONFLICT", "omitted"}
    <2>1. /\ Pending(groupRes) = {} /\ Pending(roleRes) = {} /\ Pending(userRes) = {}
          /\ Pending(memRes) = {} /\ Pending(asgRes) = {}
      BY DEF Passed
    <2>2. /\ \A g \in KcGroups : groupRes[g] # "FAILED"
          /\ \A r \in Roles : roleRes[r] # "FAILED"
          /\ \A u \in Users : userRes[u] # "FAILED"
          /\ \A p \in Memberships : memRes[p] # "FAILED"
          /\ \A p \in Assignments : asgRes[p] # "FAILED"
      BY <1>1 DEF NoRow
    <2>3. /\ \A g \in KcGroups : groupRes[g] # "none"
          /\ \A r \in Roles : roleRes[r] # "none"
          /\ \A u \in Users : userRes[u] # "none"
          /\ \A p \in Memberships : memRes[p] # "none"
          /\ \A p \in Assignments : asgRes[p] # "none"
      BY <1>1, <2>1 DEF Pending
    <2> QED
      BY <1>1, <2>2, <2>3 DEF Outcomes, Good
  <1>3. InScope("groups") /\ InScope("users")
    BY DEF InScope, Kinds
  <1>4. \A g \in Flat : akGroup[g] # "absent"
    BY <1>2, <1>3 DEF GroupRows, Flat
  <1>5. \A r \in Roles \ Composite : akGroup[r] # "absent"
    BY <1>2, <1>4 DEF RoleRows
  <1>6. \A u \in Users : Theirs(u) \/ Taken(u)
    BY <1>2, <1>3 DEF UserRows
  <1>7. \A u \in Users : Exists(u)
    BY <1>6 DEF Theirs, Taken
  <1>8. ASSUME NEW u \in Users, akUser[u].email = EmailOf[u] PROVE u \in resolved_usernames
    <2>1. userRes[u] \in Good
      BY <1>2, <1>8 DEF UserRows, Taken
    <2> QED
      BY <2>1 DEF UserRows, Good, resolved_usernames
  <1>9. \A p \in Memberships : akUser[p[2]].email = EmailOf[p[2]] => p[2] \in akMembers[p[1]]
    BY <1>2, <1>8, PairTypes DEF MemberRows
  <1>10. ASSUME NEW p \in Assignments, akGroup[p[1]] = "role",
                akUser[p[2]].email = EmailOf[p[2]]
         PROVE  p[2] \in akMembers[p[1]]
    <2>1. p[1] \notin Composite \cup Flat
      BY <1>10, PairTypes DEF GroupInv, OnlyRoles
    <2>2. roleRes[p[1]] # "CONFLICT"
      BY <1>10, <2>1, PairTypes DEF RoleRows
    <2>3. asgRes[p] \in Good
      BY <1>2, <1>8, <1>10, <2>2, PairTypes DEF AssignmentRows
    <2> QED
      BY <2>3 DEF AssignmentRows
  <1> QED
    BY <1>4, <1>5, <1>7, <1>9, <1>10 DEF Complete

LEMMA RerunIsSilent == ASSUME Inv, ReportInv PROVE RerunCreatesNothing
  <1> SUFFICES ASSUME opts.apply, before.complete PROVE NoRow("CREATED")
    BY DEF RerunCreatesNothing
  <1>1. NoneCreated
    BY DEF ReportInv, Rerun
  <1>2. /\ DOMAIN groupRes = KcGroups /\ DOMAIN roleRes = Roles /\ DOMAIN userRes = Users
        /\ DOMAIN memRes = Memberships /\ DOMAIN asgRes = Assignments
    BY DEF Inv, TypeInv, TypeOK
  <1> QED
    BY <1>1, <1>2 DEF NoneCreated, NoRow

LEMMA ReportsHold ==
    ASSUME RolesComeWithGroups PROVE Spec => [](Inv /\ ReportInv)
  <1>1. Init => Inv /\ ReportInv
    BY InitType, MergeInit, ReportInit DEF Inv
  <1>2. Inv /\ ReportInv /\ [Next]_vars => (Inv /\ ReportInv)'
    BY ReportNext
  <1> QED
    BY <1>1, <1>2, PTL DEF Spec

\* A row of an applied run that claims an object is about an object that
\* Authentik has, during and after the run, also when requests that were given
\* up are executed late (migrator.py, the outcomes of the migrate_* functions).
THEOREM RowsTellTheTruth == ASSUME RolesComeWithGroups PROVE Spec => []ReportSound
  BY ReportsHold, RowsAreSound, PTL

\* When a full applied run ends without a FAILED row, nothing is missing, the
\* pairs that the membership passes drop without a trace included
\* (migrator.py:612-615).
THEOREM SilenceIsSuccess == ASSUME RolesComeWithGroups PROVE Spec => []ReportComplete
  BY ReportsHold, RowsAreComplete, PTL

\* An applied run over a complete target creates nothing and claims to create
\* nothing, for every selection (README, re-runs).
THEOREM RerunsAreSafe == ASSUME RolesComeWithGroups PROVE Spec => []RerunCreatesNothing
  BY ReportsHold, RerunIsSilent, PTL

-----------------------------------------------------------------------------
\* Who is a member, and of what.

\* Only accounts are members, and only of groups that are there; the run knows
\* the members of groups and the pks of users that are there.
MembersExist ==
    /\ \A n \in Names : akMembers[n] # {} => akGroup[n] # "absent"
    /\ \A n \in Names : \A u \in akMembers[n] : Exists(u)
    /\ \A w \in late : w.kind = "member" => akGroup[w.to[1]] # "absent" /\ Exists(w.to[2])
    /\ \A g \in DOMAIN groupMembers : akGroup[g] # "absent"
    /\ \A r \in DOMAIN roleMembers : akGroup[r] # "absent"
    /\ \A u \in userPks : Exists(u)

\* A step deletes no group.
Present == \A n \in Names : akGroup[n] # "absent" => akGroup'[n] # "absent"

LEMMA CommitPresent == ASSUME AkTypeOK, NEW w \in Writes, Commit(w) PROVE Present
  <1>1. CASE w \in GroupWrites /\ akGroup' = [akGroup EXCEPT ![w.to] = w.kind]
    BY <1>1 DEF AkTypeOK, Present, GroupWrites
  <1> QED
    BY <1>1 DEF Commit, Present

\* Where the writes of a step come from.
Ours(w) ==
    \/ w \in late
    \/ call # NoCall /\ w = call
    \/ \E p \in Memberships : w = TheLink(p) /\ Member(p) /\ LinkPlan(p, groupMembers, opts.apply) = "none"
    \/ \E p \in Assignments : /\ w = TheLink(p) /\ Assign(p)
                              /\ LinkPlan(p, roleMembers, Applies("roles")) = "none"

LEMMA CallServes ==
    ASSUME NEW w, Ours(w), NEW answer, Call(w, answer)
    PROVE  /\ UNCHANGED akObjects \/ \E x : Ours(x) /\ Commit(x)
           /\ \A x \in late' : Ours(x)
  <1>1. UNCHANGED akObjects \/ Commit(w)
    BY DEF Call
  <1>2. late' = late \/ late' = late \cup {w}
    BY DEF Call
  <1> QED
    BY <1>1, <1>2 DEF Ours

\* A step leaves Authentik alone, commits one of these writes, or is foreign.
LEMMA Serves ==
    ASSUME TypeInv, [Next]_vars
    PROVE  /\ UNCHANGED akObjects \/ (\E w : Ours(w) /\ Commit(w)) \/ Foreign
           /\ \A w \in late' : Ours(w)
  <1>1. CASE UNCHANGED <<akObjects, late>>
    BY <1>1 DEF Ours
  <1>2. CASE GroupWrite \/ RoleWrite \/ UserWrite
    <2>1. PICK answer : Call(call, answer) /\ call # NoCall
      BY <1>2 DEF GroupWrite, RoleWrite, UserWrite
    <2> QED
      BY <2>1, CallServes DEF Ours
  <1>3. ASSUME NEW p \in Memberships, Member(p)
        PROVE  /\ UNCHANGED akObjects \/ (\E w : Ours(w) /\ Commit(w)) \/ Foreign
               /\ \A w \in late' : Ours(w)
    <2>1. CASE LinkPlan(p, groupMembers, opts.apply) = "none"
      <3>1. PICK answer : Call(TheLink(p), answer)
        BY <1>3, <2>1 DEF Member, Link, TheLink
      <3> QED
        BY <1>3, <2>1, <3>1, CallServes DEF Ours
    <2>2. CASE LinkPlan(p, groupMembers, opts.apply) # "none"
      <3>1. UNCHANGED akVars
        BY <1>3, <2>2 DEF Member, Link
      <3> QED
        BY <3>1, <1>1
    <2> QED
      BY <2>1, <2>2
  <1>4. ASSUME NEW p \in Assignments, Assign(p)
        PROVE  /\ UNCHANGED akObjects \/ (\E w : Ours(w) /\ Commit(w)) \/ Foreign
               /\ \A w \in late' : Ours(w)
    <2>1. CASE UNCHANGED akVars
      BY <2>1, <1>1
    <2>2. CASE ~UNCHANGED akVars
      <3>1. /\ LinkPlan(p, roleMembers, Applies("roles")) = "none"
            /\ \E answer : Call(TheLink(p), answer)
        BY <1>4, <2>2 DEF Assign, Link, TheLink
      <3>2. PICK answer : Call(TheLink(p), answer)
        BY <3>1
      <3> QED
        BY <1>4, <3>1, <3>2, CallServes DEF Ours
    <2> QED
      BY <2>1, <2>2
  <1>5. CASE \E o \in Invocations : Start(o)
    BY <1>1, <1>5 DEF Start
  <1>6. CASE Advance \/ \E u \in Users : Mail(u)
    BY <1>1, <1>6 DEF Advance, Mail
  <1>7. CASE \E g \in KcGroups : GroupNested(g) \/ GroupLookupFails(g) \/ GroupLookup(g)
    BY <1>1, <1>7 DEF GroupNested, GroupLookupFails, GroupLookup, LookupFails
  <1>8. CASE \E r \in Roles : RoleConflict(r) \/ RoleLookupFails(r) \/ RoleLookup(r)
    BY <1>1, <1>8 DEF RoleConflict, RoleLookupFails, RoleLookup, LookupFails
  <1>9. CASE \E u \in Users : UserTaken(u) \/ UserLookupFails(u) \/ UserLookup(u)
    BY <1>1, <1>9 DEF UserTaken, UserLookupFails, UserLookup, LookupFails
  <1>10. CASE Interrupt
    BY <1>10 DEF Interrupt, Ours
  <1>11. CASE LateCommit
    BY <1>11 DEF LateCommit, Ours
  <1>12. CASE Foreign
    BY <1>12 DEF Foreign, Ours
  <1> QED
    BY <1>1, <1>2, <1>3, <1>4, <1>5, <1>6, <1>7, <1>8, <1>9, <1>10, <1>11, <1>12
    DEF Next, Run, Pass, Environment

LEMMA OursIs ==
    ASSUME TypeInv, NEW w, Ours(w)
    PROVE  /\ w \in Writes
           /\ w \in MemberWrites =>
                 \/ w \in late
                 \/ /\ w.to[1] \in DOMAIN groupMembers \/ w.to[1] \in DOMAIN roleMembers
                    /\ w.to[2] \in userPks
  <1>1. CASE w \in late
    BY <1>1 DEF TypeInv, TypeOK, AkTypeOK
  <1>2. CASE call # NoCall /\ w = call
    BY <1>2 DEF TypeInv, TypeOK, CallOK, MemberWrites, GroupWrites, UserWrites
  <1>3. ASSUME NEW p \in Memberships, w = TheLink(p), Member(p),
               LinkPlan(p, groupMembers, opts.apply) = "none"
        PROVE  /\ w \in Writes
               /\ w.to[1] \in DOMAIN groupMembers /\ w.to[2] \in userPks
    BY <1>3, LinkIs, LinkPlanIs DEF TheLink
  <1>4. ASSUME NEW p \in Assignments, w = TheLink(p), Assign(p),
               LinkPlan(p, roleMembers, Applies("roles")) = "none"
        PROVE  /\ w \in Writes
               /\ w.to[1] \in DOMAIN roleMembers /\ w.to[2] \in userPks
    BY <1>4, LinkIs, LinkPlanIs DEF TheLink
  <1> QED
    BY <1>1, <1>2, <1>3, <1>4 DEF Ours

\* The target of a write of a member is there.
LEMMA OursAim ==
    ASSUME TypeInv, MembersExist, NEW w \in MemberWrites, Ours(w)
    PROVE  /\ w.to[1] \in Names /\ w.to[2] \in Users
           /\ akGroup[w.to[1]] # "absent" /\ Exists(w.to[2])
  <1>1. w.kind = "member" /\ w.to[1] \in Names /\ w.to[2] \in Users
    BY DEF MemberWrites
  <1> QED
    BY <1>1, OursIs DEF MembersExist

LEMMA StepPresent == ASSUME TypeInv, [Next]_vars PROVE Present
  <1>1. CASE UNCHANGED akObjects
    BY <1>1 DEF Present
  <1>2. ASSUME NEW w, Ours(w), Commit(w) PROVE Present
    BY <1>2, OursIs, CommitPresent DEF TypeInv, TypeOK
  <1>3. CASE Foreign
    BY <1>3 DEF Foreign, Present, TypeInv, TypeOK, AkTypeOK
  <1> QED
    BY <1>1, <1>2, <1>3, Serves

\* What a step adds to the members and to the writes under way.
LEMMA MembersComeIn ==
    ASSUME TypeInv, UserInv, MembersExist, [Next]_vars
    PROVE  /\ \A n \in Names : \A u \in akMembers'[n] : Exists(u)' /\ akGroup'[n] # "absent"
           /\ \A w \in late' : w.kind = "member" =>
                 akGroup'[w.to[1]] # "absent" /\ Exists(w.to[2])'
  <1>1. Present /\ EmailsLast
    BY StepPresent, StepEmails
  <1>2. AkTypeOK
    BY DEF TypeInv, TypeOK
  <1>3. ASSUME NEW n \in Names, NEW u \in akMembers'[n]
        PROVE  Exists(u) /\ akGroup[n] # "absent" /\ u \in Users
    <2>1. CASE akMembers'[n] = akMembers[n]
      BY <1>2, <1>3, <2>1 DEF MembersExist, AkTypeOK
    <2>2. CASE Foreign
      <3>1. CASE akMembers' = akMembers
        BY <2>1, <3>1
      <3>2. ASSUME NEW m \in Names, NEW v \in Users, akGroup[m] # "absent", Exists(v),
                   akMembers' = [akMembers EXCEPT ![m] = @ \cup {v}]
            PROVE  Exists(u) /\ akGroup[n] # "absent" /\ u \in Users
        BY <1>2, <1>3, <3>2 DEF MembersExist, AkTypeOK
      <3> QED
        BY <2>2, <3>1, <3>2 DEF Foreign
    <2>3. ASSUME NEW w, Ours(w), Commit(w)
          PROVE  Exists(u) /\ akGroup[n] # "absent" /\ u \in Users
      <3>1. CASE akMembers' = akMembers
        BY <2>1, <3>1
      <3>2. CASE w \in MemberWrites
                 /\ akMembers' = [akMembers EXCEPT ![w.to[1]] = @ \cup {w.to[2]}]
        <4>1. /\ w.to[1] \in Names /\ w.to[2] \in Users
              /\ akGroup[w.to[1]] # "absent" /\ Exists(w.to[2])
          BY <2>3, <3>2, OursAim
        <4> QED
          BY <1>2, <1>3, <3>2, <4>1 DEF MembersExist, AkTypeOK
      <3> QED
        BY <2>3, <3>1, <3>2 DEF Commit
    <2> QED
      BY <2>1, <2>2, <2>3, Serves
  <1>4. ASSUME NEW w \in late', w.kind = "member"
        PROVE  /\ akGroup[w.to[1]] # "absent" /\ Exists(w.to[2])
               /\ w.to[1] \in Names /\ w.to[2] \in Users
    <2>1. Ours(w) /\ w \in Writes
      BY Serves, OursIs
    <2>2. w \in MemberWrites
      BY <1>4, <2>1 DEF Writes, GroupWrites, UserWrites
    <2> QED
      BY <2>1, <2>2, OursAim
  <1> QED
    BY <1>1, <1>3, <1>4 DEF Present, EmailsLast

LEMMA MembersStep ==
    ASSUME TypeInv, TypeInv', UserInv, MembersExist, [Next]_vars PROVE MembersExist'
  <1>1. /\ \A n \in Names : \A u \in akMembers'[n] : Exists(u)' /\ akGroup'[n] # "absent"
        /\ \A w \in late' : w.kind = "member" =>
                 akGroup'[w.to[1]] # "absent" /\ Exists(w.to[2])'
    BY MembersComeIn
  <1>2. Present /\ EmailsLast
    BY StepPresent, StepEmails
  <1>3. /\ DOMAIN groupMembers \subseteq Names /\ DOMAIN roleMembers \subseteq Names
        /\ userPks \subseteq Users
    BY PairTypes DEF TypeInv, TypeOK, IsSnapshot
  <1>4. ASSUME UNCHANGED known PROVE MembersExist'
    BY <1>1, <1>2, <1>3, <1>4 DEF MembersExist, Present, EmailsLast
  <1>5. ASSUME NEW n \in Names, akGroup'[n] # "absent", UNCHANGED <<roleMembers, userPks>>,
               DOMAIN groupMembers' \subseteq DOMAIN groupMembers \cup {n}
        PROVE  MembersExist'
    BY <1>1, <1>2, <1>3, <1>5 DEF MembersExist, Present, EmailsLast
  <1>6. ASSUME NEW n \in Names, akGroup'[n] # "absent", UNCHANGED <<groupMembers, userPks>>,
               DOMAIN roleMembers' \subseteq DOMAIN roleMembers \cup {n}
        PROVE  MembersExist'
    BY <1>1, <1>2, <1>3, <1>6 DEF MembersExist, Present, EmailsLast
  <1>7. ASSUME NEW u \in Users, Exists(u)', UNCHANGED <<groupMembers, roleMembers>>,
               userPks' \subseteq userPks \cup {u}
        PROVE  MembersExist'
    BY <1>1, <1>2, <1>3, <1>7 DEF MembersExist, Present, EmailsLast
  <1>8. ASSUME NEW o \in Invocations, Start(o) PROVE MembersExist'
    BY <1>1, <1>8 DEF MembersExist, Start
  <1>9. ASSUME NEW g \in KcGroups, GroupLookup(g) PROVE MembersExist'
    <2>1. g \in Names
      BY KeycloakAssumption
    <2> QED
      BY <1>4, <1>5, <1>9, <2>1 DEF GroupLookup, Remember
  <1>10. ASSUME NEW r \in Roles, RoleLookup(r) PROVE MembersExist'
    <2>1. r \in Names
      BY PairTypes
    <2> QED
      BY <1>4, <1>6, <1>10, <2>1 DEF RoleLookup, Remember
  <1>11. ASSUME NEW u \in Users, UserLookup(u) PROVE MembersExist'
    BY <1>4, <1>7, <1>11 DEF UserLookup, Exists
  <1>12. CASE GroupWrite \/ RoleWrite
    <2>1. call \in GroupWrites /\ call # NoCall
      BY <1>12 DEF TypeInv, CallOK, GroupWrite, RoleWrite
    <2>2. PICK n \in Names : n = call.to
      BY <2>1 DEF GroupWrites
    <2>3. PICK answer :
             /\ Call(call, answer)
             /\ ~UNCHANGED known => answer = "ok"
             /\ UNCHANGED userPks
             /\ \/ UNCHANGED known
                \/ roleMembers' = roleMembers /\ groupMembers' = Remember(groupMembers, n, {})
                \/ groupMembers' = groupMembers /\ roleMembers' = Remember(roleMembers, n, {})
      BY <1>12, <2>2 DEF GroupWrite, RoleWrite
    <2>4. CASE UNCHANGED known
      BY <1>4, <2>4
    <2>5. CASE ~UNCHANGED known
      <3>1. Commit(call)
        BY <2>3, <2>5 DEF Call
      <3>2. akGroup'[n] # "absent"
        BY <2>1, <2>2, <3>1, CommitGroup DEF TypeInv, TypeOK, GroupWrites
      <3>3. DOMAIN Remember(groupMembers, n, {}) = DOMAIN groupMembers \cup {n}
            /\ DOMAIN Remember(roleMembers, n, {}) = DOMAIN roleMembers \cup {n}
        BY DEF Remember
      <3>4. CASE roleMembers' = roleMembers /\ groupMembers' = Remember(groupMembers, n, {})
        BY <1>5, <2>3, <3>2, <3>3, <3>4
      <3>5. CASE groupMembers' = groupMembers /\ roleMembers' = Remember(roleMembers, n, {})
        BY <1>6, <2>3, <3>2, <3>3, <3>5
      <3> QED
        BY <2>3, <2>5, <3>4, <3>5
    <2> QED
      BY <2>4, <2>5
  <1>13. CASE UserWrite
    <2>1. call \in UserWrites
      BY <1>13 DEF TypeInv, CallOK, UserWrite
    <2>2. PICK u \in Users : u = call.to
      BY <2>1 DEF UserWrites
    <2>3. PICK answer : /\ Call(call, answer)
                        /\ userPks' = IF answer = "ok" THEN userPks \cup {u} ELSE userPks
                        /\ UNCHANGED <<groupMembers, roleMembers>>
      BY <1>13, <2>2 DEF UserWrite
    <2>4. answer = "ok" => Exists(u)'
      <3> SUFFICES ASSUME answer = "ok" PROVE Exists(u)'
        OBVIOUS
      <3>1. Commit(call) /\ call \notin GroupWrites /\ call \notin MemberWrites
        BY <2>1, <2>3 DEF Call, UserWrites, GroupWrites, MemberWrites
      <3>2. akUser'[u] = [email |-> call.email, profile |-> "keycloak"] /\ call.email \in Emails
        BY <2>1, <2>2, <3>1 DEF Commit, TypeInv, TypeOK, AkTypeOK, UserWrites
      <3> QED
        BY <3>2, AccountAssumption DEF Exists, Accounts
    <2> QED
      BY <1>4, <1>7, <2>3, <2>4
  <1>14. CASE UNCHANGED known
    BY <1>4, <1>14
  <1> QED
    <2>1. ASSUME NEW g \in KcGroups, GroupNested(g) \/ GroupLookupFails(g) PROVE UNCHANGED known
      BY <2>1 DEF GroupNested, GroupLookupFails
    <2>2. ASSUME NEW r \in Roles, RoleConflict(r) \/ RoleLookupFails(r) PROVE UNCHANGED known
      BY <2>2 DEF RoleConflict, RoleLookupFails
    <2>3. ASSUME NEW u \in Users, UserTaken(u) \/ UserLookupFails(u) \/ Mail(u) PROVE UNCHANGED known
      BY <2>3 DEF UserTaken, UserLookupFails, Mail
    <2>4. ASSUME (\E p \in Memberships : Member(p)) \/ (\E p \in Assignments : Assign(p))
          PROVE  UNCHANGED known
      BY <2>4 DEF Member, Assign
    <2>5. ASSUME Advance \/ Interrupt \/ Environment \/ UNCHANGED vars PROVE UNCHANGED known
      BY <2>5 DEF Advance, Interrupt, Environment
    <2> QED
      BY <1>8, <1>9, <1>10, <1>11, <1>12, <1>13, <1>14, <2>1, <2>2, <2>3, <2>4, <2>5
      DEF Next, Run, Pass

-----------------------------------------------------------------------------
\* What a dry run promises.

\* Every pass that is needed is selected itself.  One that only supports another
\* creates nothing, and so cannot bring about what a dry run takes for granted.
WholeScope(scope) ==
    /\ "memberships" \in scope => {"groups", "users"} \subseteq scope
    /\ "roles" \in scope => "users" \in scope

\* What is run dry and then applied selects what it needs.
WholePlans ==
    \A o \in Invocations :
        ~o.apply /\ [o EXCEPT !.apply = TRUE] \in Invocations => WholeScope(o.scope)

\* The row that an object, a member or an assignment gets from a run in which
\* only the tool acts.
DueAs(found) == IF ~found THEN "CREATED" ELSE IF opts.update THEN "UPDATED" ELSE "SKIPPED"

DueGroup(g) == IF g \in Nested THEN "CONFLICT" ELSE DueAs(akGroup[g] # "absent")

Refused(r) ==
    \/ r \in Composite
    \/ r \in Flat /\ Needed("groups")
    \/ akGroup[r] \in {"other", "group"}

DueRole(r) == IF Refused(r) THEN "CONFLICT" ELSE DueAs(akGroup[r] # "absent")

DueUser(u) == IF Taken(u) THEN "CONFLICT" ELSE DueAs(Exists(u))

\* The members that the run goes by.
MembersSeen(members, n) == IF n \in DOMAIN members THEN members[n] ELSE akMembers[n]

DueMember(p) ==
    IF Taken(p[2]) THEN "omitted"
    ELSE IF p[2] \in MembersSeen(groupMembers, p[1]) THEN "SKIPPED" ELSE "CREATED"

DueAssignment(p) ==
    IF Taken(p[2]) THEN "omitted"
    ELSE IF Refused(p[1]) THEN "CONFLICT"
    ELSE IF p[2] \in MembersSeen(roleMembers, p[1]) THEN "SKIPPED" ELSE "CREATED"

\* A dry run writes the rows that are due.  In the applied run what is promised
\* is the row, and while there is none what is due.
Fits(ph, row, due, said) ==
    IF Needed(ph)
      THEN IF opts.apply THEN said = (IF row = "none" THEN due ELSE row)
           ELSE row \in {"none", due}
    ELSE row = "none" /\ (opts.apply => said = "none")

GroupFits(g) == Fits("groups", groupRes[g], DueGroup(g), promised[1][g])
RoleFits(r) == Fits("roles", roleRes[r], DueRole(r), promised[2][r])
UserFits(u) == Fits("users", userRes[u], DueUser(u), promised[3][u])
MemberFits(p) == Fits("memberships", memRes[p], DueMember(p), promised[4][p])
AssignmentFits(p) == Fits("assignments", asgRes[p], DueAssignment(p), promised[5][p])

RowsFit ==
    /\ \A g \in KcGroups : GroupFits(g)
    /\ \A r \in Roles : RoleFits(r)
    /\ \A u \in Users : UserFits(u)
    /\ \A p \in Memberships : MemberFits(p)
    /\ \A p \in Assignments : AssignmentFits(p)

\* The write under way is the one that is due, and will be accepted.
CallFits ==
    call # NoCall =>
        /\ opts.apply /\ Needed(phase)
        /\ call.op = "update" => opts.update
        /\ phase = "groups" =>
              /\ groupRes[call.to] = "none" /\ call.op = Op(akGroup[call.to] # "absent")
              /\ call.op = "update" => call.to \in DOMAIN groupMembers
        /\ phase = "roles" =>
              /\ roleRes[call.to] = "none" /\ call.op = Op(akGroup[call.to] # "absent")
              /\ call.op = "update" => call.to \in DOMAIN roleMembers
              /\ ~Refused(call.to)
        /\ phase = "users" =>
              /\ userRes[call.to] = "none" /\ call.op = Op(Exists(call.to))
              /\ ~Taken(call.to) /\ call.email = EmailOf[call.to]

\* What the run knows is what its rows say, and until it adds members what
\* Authentik has.
Early == ~opts.apply \/ phase \in {"groups", "roles", "users"}

GroupsSeen ==
    /\ \A g \in Flat : groupRes[g] # "none" =>
          g \in DOMAIN groupMembers \/ (~opts.apply /\ akGroup[g] = "absent")
    /\ Early => \A g \in DOMAIN groupMembers : groupMembers[g] = akMembers[g]

RolesSeen ==
    /\ \A r \in Roles : roleRes[r] # "none" =>
          /\ roleRes[r] = "CONFLICT" <=> Refused(r)
          /\ \/ Refused(r) \/ r \in DOMAIN roleMembers
             \/ ~opts.apply /\ akGroup[r] = "absent"
    /\ Early => \A r \in DOMAIN roleMembers : roleMembers[r] = akMembers[r]

UsersSeen ==
    \A u \in Users :
        /\ userRes[u] # "none" =>
              /\ userRes[u] = "CONFLICT" <=> Taken(u)
              /\ \/ Taken(u) \/ u \in userPks
                 \/ ~opts.apply /\ userRes[u] = "CREATED" /\ ~Exists(u)
        /\ u \in userPks => ~Taken(u)

Fit ==
    /\ opts.apply => WholeScope(opts.scope)
    /\ RowsFit /\ CallFits /\ GroupsSeen /\ RolesSeen /\ UsersSeen

AfterGroups == {"roles", "users", "memberships", "assignments", "mail", "done"}
AfterRoles == AfterGroups \ {"roles"}
AfterUsers == AfterRoles \ {"users"}
AfterMembers == AfterUsers \ {"memberships"}
AfterAll == {"mail", "done"}

\* A pass that ran and is over has a row for everything.
Through ==
    /\ phase \in AfterGroups /\ Needed("groups") => \A g \in KcGroups : groupRes[g] # "none"
    /\ phase \in AfterRoles /\ Needed("roles") => \A r \in Roles : roleRes[r] # "none"
    /\ phase \in AfterUsers /\ Needed("users") => \A u \in Users : userRes[u] # "none"
    /\ phase \in AfterMembers /\ Needed("memberships") =>
          \A p \in Memberships : memRes[p] # "none"
    /\ phase \in AfterAll /\ Needed("assignments") =>
          \A p \in Assignments : asgRes[p] # "none"

\* The run is a dry one, or the one that was promised.
Kept == opts.apply => promised # NoPlan

CalmInv == calm /\ Kept => Fit

PromisedType ==
    promised = NoPlan
    \/ promised \in [KcGroups -> Outcomes \cup {"none"}] \X [Roles -> Outcomes \cup {"none"}]
                    \X [Users -> Outcomes \cup {"none"}]
                    \X [Memberships -> Outcomes \cup {"none", "omitted"}]
                    \X [Assignments -> Outcomes \cup {"none", "omitted"}]

PlanInv ==
    /\ PromisedType /\ calm \in BOOLEAN
    /\ phase # "idle" => opts \in Invocations
    /\ Through
    /\ CalmInv

\* What PlanNext adds to a step that starts no run.
CalmStep ==
    /\ promised' = promised
    /\ calm' = (calm /\ <<faults, foreign, late>>' = <<faults, foreign, late>>)

\* Before and at a step in the calm.
Going ==
    /\ TypeInv /\ TypeInv' /\ MembersExist /\ MembersExist'
    /\ Through /\ Fit
    /\ CalmStep /\ calm' /\ opts' = opts

LEMMA NeededIs ==
    /\ Needed("groups") <=> InScope("groups") \/ InScope("memberships")
    /\ Needed("roles") <=> InScope("roles")
    /\ Needed("users") <=> InScope("users") \/ InScope("memberships") \/ InScope("roles")
    /\ Needed("memberships") <=> InScope("memberships")
    /\ Needed("assignments") <=> InScope("roles")
  BY DEF Needed

LEMMA SameNeeds ==
    ASSUME opts' = opts, NEW ph PROVE Needed(ph)' <=> Needed(ph)
  BY DEF Needed, InScope

\* In the applied run of a whole selection, every pass that runs may write.
LEMMA NeededApplies ==
    ASSUME Fit, opts.apply, NEW k \in {"groups", "roles", "users"}, Needed(k)
    PROVE  Applies(k)
  BY NeededIs DEF Fit, WholeScope, Applies, InScope

\* A fault ends the calm, and so do a late request and an administrator.
LEMMA CalmEnds ==
    ASSUME TypeInv, CalmStep, calm', Fault \/ LateCommit \/ Foreign PROVE FALSE
  <1>1. faults' = faults /\ foreign' = foreign /\ late' = late
    BY DEF CalmStep
  <1>2. CASE Fault
    <2>1. faults \in Nat /\ faults' = faults + 1
      BY <1>2, BoundAssumption DEF Fault, TypeInv, TypeOK, AkTypeOK
    <2> QED
      BY <1>1, <2>1
  <1>3. CASE LateCommit
    <2>1. PICK x \in late : late' = late \ {x}
      BY <1>3 DEF LateCommit
    <2>2. x \in late /\ x \notin late'
      BY <2>1
    <2> QED
      BY <1>1, <2>2
  <1>4. CASE Foreign
    <2>1. foreign \in Nat /\ foreign' = foreign + 1
      BY <1>4, BoundAssumption DEF Foreign, TypeInv, TypeOK, AkTypeOK
    <2> QED
      BY <1>1, <2>1
  <1> QED
    BY <1>2, <1>3, <1>4

\* In the calm, what is acceptable is done.
LEMMA CalmCall ==
    ASSUME Going, NEW w, Accepts(w), NEW answer, Call(w, answer)
    PROVE  answer = "ok" /\ Commit(w)
  BY CalmEnds DEF Call, Going

\* What the rows that are due depend on, and no step changes.
Steady ==
    /\ \A u \in Users : Taken(u)' <=> Taken(u)
    /\ \A r \in Roles : Refused(r)' <=> Refused(r)
    /\ Needed("groups") => \A g \in Flat :
          MembersSeen(groupMembers, g)' = MembersSeen(groupMembers, g)
    /\ \A r \in Roles : ~Refused(r) =>
          MembersSeen(roleMembers, r)' = MembersSeen(roleMembers, r)

LEMMA SteadyEarly ==
    ASSUME Early, Early', akMembers' = akMembers,
           GroupsSeen, GroupsSeen', RolesSeen, RolesSeen',
           \A u \in Users : Taken(u)' <=> Taken(u),
           \A r \in Roles : Refused(r)' <=> Refused(r)
    PROVE  Steady
  <1>1. \A g : MembersSeen(groupMembers, g) = akMembers[g] /\ MembersSeen(roleMembers, g) = akMembers[g]
    BY DEF GroupsSeen, RolesSeen, MembersSeen
  <1>2. \A g : MembersSeen(groupMembers, g)' = akMembers'[g] /\ MembersSeen(roleMembers, g)' = akMembers'[g]
    BY DEF GroupsSeen, RolesSeen, MembersSeen
  <1> QED
    BY <1>1, <1>2 DEF Steady

LEMMA SteadyDue ==
    ASSUME Steady
    PROVE  /\ Needed("memberships") =>
                 \A p \in Memberships : DueMember(p)' = DueMember(p)
           /\ \A p \in Assignments : DueAssignment(p)' = DueAssignment(p)
  <1>1. Needed("memberships") => Needed("groups")
    BY NeededIs
  <1> QED
    BY <1>1, PairTypes DEF Steady, DueMember, DueAssignment

\* What a step has to say of the rows it touches.
LEMMA RowsFitOn ==
    ASSUME RowsFit, Steady, UNCHANGED <<opts, promised>>,
           \A g \in KcGroups :
              \/ GroupFits(g)'
              \/ groupRes'[g] = groupRes[g] /\ akGroup'[g] = akGroup[g],
           \A r \in Roles :
              \/ RoleFits(r)'
              \/ roleRes'[r] = roleRes[r] /\ (akGroup'[r] = akGroup[r] \/ Refused(r)),
           \A u \in Users :
              \/ UserFits(u)'
              \/ userRes'[u] = userRes[u] /\ akUser'[u] = akUser[u],
           \A p \in Memberships : MemberFits(p)' \/ memRes'[p] = memRes[p],
           \A p \in Assignments : AssignmentFits(p)' \/ asgRes'[p] = asgRes[p]
    PROVE  RowsFit'
  <1>1. ASSUME NEW g \in KcGroups PROVE GroupFits(g)'
    <2>1. CASE groupRes'[g] = groupRes[g] /\ akGroup'[g] = akGroup[g]
      <3>1. DueGroup(g)' = DueGroup(g)
        BY <2>1 DEF DueGroup, DueAs
      <3> QED
        BY <2>1, <3>1, SameNeeds DEF RowsFit, GroupFits, Fits
    <2> QED
      BY <2>1
  <1>2. ASSUME NEW r \in Roles PROVE RoleFits(r)'
    <2>1. CASE roleRes'[r] = roleRes[r] /\ (akGroup'[r] = akGroup[r] \/ Refused(r))
      <3>1. DueRole(r)' = DueRole(r)
        BY <2>1 DEF DueRole, DueAs, Steady
      <3> QED
        BY <2>1, <3>1, SameNeeds DEF RowsFit, RoleFits, Fits
    <2> QED
      BY <2>1
  <1>3. ASSUME NEW u \in Users PROVE UserFits(u)'
    <2>1. CASE userRes'[u] = userRes[u] /\ akUser'[u] = akUser[u]
      <3>1. DueUser(u)' = DueUser(u)
        BY <2>1 DEF DueUser, DueAs, Taken, Exists
      <3> QED
        BY <2>1, <3>1, SameNeeds DEF RowsFit, UserFits, Fits
    <2> QED
      BY <2>1
  <1>4. ASSUME NEW p \in Memberships PROVE MemberFits(p)'
    BY SteadyDue, SameNeeds DEF RowsFit, MemberFits, Fits
  <1>5. ASSUME NEW p \in Assignments PROVE AssignmentFits(p)'
    BY SteadyDue, SameNeeds DEF RowsFit, AssignmentFits, Fits
  <1> QED
    BY <1>1, <1>2, <1>3, <1>4, <1>5 DEF RowsFit

-----------------------------------------------------------------------------
\* The steps of a pass in the calm.

\* The early passes: nobody is made a member.
LEMMA FitEarly ==
    ASSUME Going, Early, phase' = phase, akMembers' = akMembers,
           CallFits', GroupsSeen', RolesSeen', UsersSeen',
           memRes' = memRes, asgRes' = asgRes,
           \A u \in Users : Taken(u)' <=> Taken(u),
           \A r \in Roles : Refused(r)' <=> Refused(r),
           \A g \in KcGroups :
              \/ GroupFits(g)'
              \/ groupRes'[g] = groupRes[g] /\ akGroup'[g] = akGroup[g],
           \A r \in Roles :
              \/ RoleFits(r)'
              \/ roleRes'[r] = roleRes[r] /\ (akGroup'[r] = akGroup[r] \/ Refused(r)),
           \A u \in Users :
              \/ UserFits(u)'
              \/ userRes'[u] = userRes[u] /\ akUser'[u] = akUser[u]
    PROVE  Fit'
  <1>1. Early' /\ UNCHANGED <<opts, promised>>
    BY DEF Going, Early, CalmStep
  <1>2. Steady
    BY <1>1, SteadyEarly DEF Going, Fit
  <1>3. RowsFit'
    BY <1>1, <1>2, RowsFitOn DEF Going, Fit
  <1> QED
    BY <1>1, <1>3 DEF Fit, Going

\* Taken, Refused and what is due change with the target only.
LEMMA SameTarget ==
    ASSUME opts' = opts, akGroup' = akGroup, akUser' = akUser
    PROVE  /\ \A u : Taken(u)' <=> Taken(u)
           /\ \A r : Refused(r)' <=> Refused(r)
           /\ \A g : DueGroup(g)' = DueGroup(g)
           /\ \A r : DueRole(r)' = DueRole(r)
           /\ \A u : DueUser(u)' = DueUser(u)
  BY DEF Taken, Exists, Refused, Needed, InScope, DueGroup, DueRole, DueUser, DueAs

\* A lookup in the calm plans the row that is due, or a write that gives it.
LEMMA PlanIsDue ==
    ASSUME Fit, NEW k \in {"groups", "roles", "users"}, Needed(k), NEW found \in BOOLEAN
    PROVE  /\ Plan(k, found) = "none" =>
                 opts.apply /\ (found => opts.update) /\ (Op(found) = "update" => found)
           /\ Plan(k, found) # "none" =>
                 Plan(k, found) = DueAs(found) /\ (~found => ~opts.apply)
           /\ Plan(k, found) # "CONFLICT"
  <1>1. opts.apply <=> Applies(k)
    BY NeededApplies DEF Applies
  <1> QED
    BY <1>1 DEF Plan, DueAs, Op

LEMMA FitGroupNested ==
    ASSUME Going, NEW g \in KcGroups, GroupNested(g) PROVE Fit'
  <1>1. /\ phase = "groups" /\ Needed("groups") /\ call = NoCall /\ g \in Nested
        /\ UNCHANGED <<akVars, opts, phase, call, roleRes, userRes, memRes, asgRes, known>>
        /\ groupRes' = [groupRes EXCEPT ![g] = "CONFLICT"] /\ groupRes[g] = "none"
    BY DEF GroupNested, IsNested, At
  <1>2. groupRes'[g] = "CONFLICT" /\ \A h \in KcGroups : h # g => groupRes'[h] = groupRes[h]
    BY <1>1 DEF Going, TypeInv, TypeOK
  <1>3. GroupFits(g)'
    <2>1. GroupFits(g) /\ promised' = promised
      BY DEF Going, Fit, RowsFit, CalmStep
    <2>2. DueGroup(g) = "CONFLICT" /\ DueGroup(g)' = "CONFLICT"
      BY <1>1 DEF DueGroup
    <2> QED
      BY <1>1, <1>2, <2>1, <2>2, SameNeeds DEF GroupFits, Fits
  <1>4. CallFits'
    BY <1>1 DEF CallFits
  <1>5. GroupsSeen'
    <2>1. \A h \in Flat : h # g /\ h \in KcGroups
      BY <1>1 DEF Flat
    <2> QED
      BY <1>1, <1>2, <2>1 DEF GroupsSeen, Going, Fit, Early
  <1>6. RolesSeen' /\ UsersSeen'
    BY <1>1, SameTarget DEF RolesSeen, UsersSeen, Going, Fit, Early, Exists
  <1> QED
    BY <1>1, <1>2, <1>3, <1>4, <1>5, <1>6, SameTarget, FitEarly DEF Early

LEMMA FitGroupLookup ==
    ASSUME Going, NEW g \in KcGroups, GroupLookup(g) PROVE Fit'
  <1> DEFINE found == akGroup[g] # "absent"
             plan == Plan("groups", found)
             w == [kind |-> "group", op |-> Op(found), to |-> g]
  <1>1. /\ phase = "groups" /\ Needed("groups") /\ call = NoCall /\ g \in Flat
        /\ UNCHANGED <<akVars, opts, phase, roleRes, userRes, memRes, asgRes, roleMembers,
                       userPks>>
        /\ groupRes' = [groupRes EXCEPT ![g] = plan] /\ groupRes[g] = "none"
        /\ call' = WriteIf(plan, w)
        /\ groupMembers' = IF found THEN Remember(groupMembers, g, akMembers[g])
                           ELSE groupMembers
    BY DEF GroupLookup, IsNested, At, Flat
  <1>2. groupRes'[g] = plan /\ \A h \in KcGroups : h # g => groupRes'[h] = groupRes[h]
    BY <1>1 DEF Going, TypeInv, TypeOK
  <1>3. /\ plan = "none" => opts.apply /\ (found => opts.update) /\ (Op(found) = "update" => found)
        /\ plan # "none" => plan = DueAs(found) /\ (~found => ~opts.apply)
    BY <1>1, PlanIsDue DEF Going
  <1>4. /\ found => g \in DOMAIN groupMembers'
        /\ DOMAIN groupMembers \subseteq DOMAIN groupMembers'
        /\ \A h \in DOMAIN groupMembers' :
              \/ groupMembers'[h] = akMembers[h]
              \/ h \in DOMAIN groupMembers /\ groupMembers'[h] = groupMembers[h]
    <2>1. CASE found
      <3>1. groupMembers' = [m \in DOMAIN groupMembers \cup {g} |->
                                IF m = g THEN akMembers[g] ELSE groupMembers[m]]
        BY <1>1, <2>1 DEF Remember
      <3> HIDE DEF found
      <3> QED
        BY <3>1
    <2>2. CASE ~found
      BY <1>1, <2>2
    <2> QED
      BY <2>1, <2>2
  <1> HIDE DEF plan
  <1>5. GroupFits(g)'
    <2>1. GroupFits(g) /\ promised' = promised
      BY DEF Going, Fit, RowsFit, CalmStep
    <2>2. DueGroup(g) = DueAs(found) /\ DueGroup(g)' = DueGroup(g)
      BY <1>1, SameTarget DEF DueGroup, Flat
    <2>3. Fits("groups", groupRes[g], DueGroup(g), promised[1][g])
      BY <2>1 DEF GroupFits
    <2>4. Fits("groups", plan, DueGroup(g), promised[1][g])
      BY <1>1, <1>3, <2>2, <2>3 DEF Fits
    <2> QED
      BY <1>1, <1>2, <2>1, <2>2, <2>4, SameNeeds DEF GroupFits, Fits
  <1>6. CallFits'
    <2> SUFFICES ASSUME call' # NoCall PROVE CallFits'
      BY DEF CallFits
    <2>1. call' = w /\ plan = "none"
      BY <1>1 DEF WriteIf
    <2>2. call'.op = Op(found) /\ call'.to = g
      BY <2>1
    <2> QED
      BY <1>1, <1>2, <1>3, <1>4, <2>1, <2>2, SameNeeds DEF CallFits
  <1>7. GroupsSeen'
    <2>1. \A h \in Flat : h \in KcGroups
      BY DEF Flat
    <2>2. \A h \in Flat : groupRes'[h] # "none" =>
             h \in DOMAIN groupMembers' \/ (~opts.apply /\ akGroup[h] = "absent")
      BY <1>2, <1>3, <1>4, <2>1 DEF GroupsSeen, Going, Fit
    <2>3. \A h \in DOMAIN groupMembers' : groupMembers'[h] = akMembers[h]
      BY <1>1, <1>4 DEF GroupsSeen, Going, Fit, Early
    <2> QED
      BY <1>1, <2>2, <2>3 DEF GroupsSeen
  <1>8. RolesSeen' /\ UsersSeen'
    BY <1>1, SameTarget DEF RolesSeen, UsersSeen, Going, Fit, Early, Exists
  <1> QED
    BY <1>1, <1>2, <1>5, <1>6, <1>7, <1>8, SameTarget, FitEarly DEF Early

\* A group or a role that is written in the calm.
LEMMA CalmGroupWrite ==
    ASSUME Going, GroupWrite \/ RoleWrite
    PROVE  /\ call.to \in Names /\ call \in GroupWrites /\ call # NoCall
           /\ akGroup'[call.to] = call.kind
           /\ \A n \in Names : n # call.to => akGroup'[n] = akGroup[n]
           /\ UNCHANGED <<akMembers, akUser, opts, phase, userRes, memRes, asgRes, userPks>>
           /\ call' = NoCall /\ Outcome("ok") = (IF call.op = "create" THEN "CREATED" ELSE "UPDATED")
           /\ GroupWrite =>
                 /\ groupRes' = [groupRes EXCEPT ![call.to] = Outcome("ok")]
                 /\ groupMembers' = IF call.op = "create"
                                      THEN Remember(groupMembers, call.to, {}) ELSE groupMembers
                 /\ UNCHANGED <<roleRes, roleMembers>>
           /\ RoleWrite =>
                 /\ roleRes' = [roleRes EXCEPT ![call.to] = Outcome("ok")]
                 /\ roleMembers' = IF call.op = "create"
                                     THEN Remember(roleMembers, call.to, {}) ELSE roleMembers
                 /\ UNCHANGED <<groupRes, groupMembers>>
  <1>1. call \in GroupWrites /\ call # NoCall /\ phase \in {"groups", "roles"}
    BY DEF Going, TypeInv, CallOK, GroupWrite, RoleWrite
  <1>2. call.to \in Names /\ call.kind # "user"
    BY <1>1 DEF GroupWrites
  <1>3. Accepts(call)
    BY <1>1, <1>2 DEF Going, Fit, CallFits, Accepts, Op
  <1>4. ASSUME NEW answer, Call(call, answer) PROVE answer = "ok" /\ Commit(call)
    BY <1>3, <1>4, CalmCall
  <1>5. Commit(call)
    BY <1>4 DEF GroupWrite, RoleWrite
  <1>6. call \notin UserWrites /\ call \notin MemberWrites
    BY <1>1 DEF GroupWrites, UserWrites, MemberWrites
  <1>7. /\ akGroup' = [akGroup EXCEPT ![call.to] = call.kind]
        /\ UNCHANGED <<akMembers, akUser>>
    BY <1>5, <1>6 DEF Commit
  <1>8. /\ akGroup'[call.to] = call.kind
        /\ \A n \in Names : n # call.to => akGroup'[n] = akGroup[n]
    BY <1>2, <1>7 DEF Going, TypeInv, TypeOK, AkTypeOK
  <1>9. Outcome("ok") = IF call.op = "create" THEN "CREATED" ELSE "UPDATED"
    BY DEF Outcome
  <1>10. /\ UNCHANGED <<opts, phase, userRes, memRes, asgRes, userPks>>
         /\ call' = NoCall
    BY DEF GroupWrite, RoleWrite
  <1>11. ASSUME GroupWrite
         PROVE  /\ groupRes' = [groupRes EXCEPT ![call.to] = Outcome("ok")]
                /\ groupMembers' = IF call.op = "create"
                                      THEN Remember(groupMembers, call.to, {}) ELSE groupMembers
                /\ UNCHANGED <<roleRes, roleMembers>>
    BY <1>4, <1>11 DEF GroupWrite
  <1>12. ASSUME RoleWrite
         PROVE  /\ roleRes' = [roleRes EXCEPT ![call.to] = Outcome("ok")]
                /\ roleMembers' = IF call.op = "create"
                                     THEN Remember(roleMembers, call.to, {}) ELSE roleMembers
                /\ UNCHANGED <<groupRes, groupMembers>>
    BY <1>4, <1>12 DEF RoleWrite
  <1> QED
    BY <1>1, <1>2, <1>7, <1>8, <1>9, <1>10, <1>11, <1>12

\* The row of a write is the row that was due.
LEMMA WriteIsDue ==
    ASSUME Going, call # NoCall, NEW found \in BOOLEAN, call.op = Op(found)
    PROVE  /\ Outcome("ok") = DueAs(found) /\ Outcome("ok") \notin {"none", "CONFLICT"}
           /\ call.op = "create" <=> ~found
  BY DEF Going, Fit, CallFits, DueAs, Outcome, Op

LEMMA FitGroupWrite == ASSUME Going, GroupWrite PROVE Fit'
  <1> DEFINE found == akGroup[call.to] # "absent"
  <1>1. /\ phase = "groups" /\ call # NoCall /\ call.to \in Flat /\ call.kind = "group"
        /\ call.to \in KcGroups /\ call.to \notin Nested
    BY DEF GroupWrite, Going, TypeInv, CallOK, Flat
  <1>2. /\ opts.apply /\ Needed("groups") /\ groupRes[call.to] = "none"
        /\ call.op = Op(found)
        /\ call.op = "update" => call.to \in DOMAIN groupMembers
    BY <1>1 DEF Going, Fit, CallFits
  <1>3. PICK g \in Flat : g = call.to
    BY <1>1
  <1>4. /\ g \in KcGroups /\ g \notin Nested /\ g \in Names
        /\ akGroup'[g] = "group"
        /\ \A n \in Names : n # g => akGroup'[n] = akGroup[n]
        /\ UNCHANGED <<akMembers, akUser, opts, phase, roleRes, userRes, memRes, asgRes,
                       roleMembers, userPks>>
        /\ call' = NoCall
        /\ groupRes' = [groupRes EXCEPT ![g] = Outcome("ok")]
        /\ groupMembers' = IF found THEN groupMembers ELSE Remember(groupMembers, g, {})
    BY <1>1, <1>2, <1>3, CalmGroupWrite, WriteIsDue
  <1>5. Outcome("ok") = DueAs(found) /\ Outcome("ok") # "none"
    BY <1>1, <1>2, WriteIsDue
  <1>6. groupRes'[g] = DueAs(found) /\ \A h \in KcGroups : h # g => groupRes'[h] = groupRes[h]
    BY <1>4, <1>5 DEF Going, TypeInv, TypeOK
  <1>7. \A r \in Roles : Refused(r)' <=> Refused(r)
    <2>1. \A r \in Roles : r \in Names
      BY PairTypes
    <2>2. Needed("groups")' /\ g \in Flat
      BY <1>2, <1>4, SameNeeds
    <2> QED
      BY <1>2, <1>4, <2>1, <2>2 DEF Refused
  <1>8. GroupFits(g)'
    <2>1. GroupFits(g) /\ promised' = promised
      BY <1>4 DEF Going, Fit, RowsFit, CalmStep
    <2>2. DueGroup(g) = DueAs(found)
      BY <1>3, <1>4 DEF DueGroup
    <2>3. promised[1][g] = DueAs(found)
      BY <1>2, <1>3, <2>1, <2>2 DEF GroupFits, Fits
    <2> QED
      BY <1>2, <1>4, <1>5, <1>6, <2>1, <2>3, SameNeeds DEF GroupFits, Fits
  <1>9. GroupsSeen'
    <2>1. \A h \in Flat : h \in KcGroups
      BY DEF Flat
    <2>2. DOMAIN groupMembers' = DOMAIN groupMembers \cup {g}
      <3>1. CASE found
        BY <1>2, <1>3, <1>4, <3>1 DEF Op
      <3>2. CASE ~found
        BY <1>4, <3>2 DEF Remember
      <3> QED
        BY <3>1, <3>2
    <2>3. \A h \in Flat : groupRes'[h] # "none" => h \in DOMAIN groupMembers'
      BY <1>2, <1>6, <2>1, <2>2 DEF GroupsSeen, Going, Fit
    <2>4. ~found => akMembers[g] = {}
      BY <1>3, <1>4 DEF Going, MembersExist
    <2>5. \A h \in DOMAIN groupMembers : groupMembers[h] = akMembers[h]
      BY <1>1 DEF GroupsSeen, Going, Fit, Early
    <2>6. \A h \in DOMAIN groupMembers' : groupMembers'[h] = akMembers[h]
      <3>1. CASE found
        BY <1>4, <2>5, <3>1
      <3>2. CASE ~found
        <4>1. groupMembers' = [m \in DOMAIN groupMembers \cup {g} |->
                                  IF m = g THEN {} ELSE groupMembers[m]]
          BY <1>4, <3>2 DEF Remember
        <4> QED
          BY <2>4, <2>5, <3>2, <4>1
      <3> QED
        BY <3>1, <3>2
    <2> QED
      BY <1>4, <2>3, <2>6 DEF GroupsSeen
  <1>10. \A u \in Users : Taken(u)' <=> Taken(u)
    BY <1>4 DEF Taken, Exists
  <1>11. RolesSeen'
    <2>1. \A r \in Roles : roleRes[r] # "none" => Refused(r) \/ r \in DOMAIN roleMembers
      BY <1>2 DEF Going, Fit, RolesSeen
    <2> QED
      BY <1>1, <1>4, <1>7, <2>1 DEF RolesSeen, Going, Fit, Early
  <1>12. UsersSeen' /\ CallFits'
    BY <1>4, <1>10 DEF UsersSeen, CallFits, Going, Fit, Exists
  <1>13. \A r \in Roles : RoleFits(r)' \/
             (roleRes'[r] = roleRes[r] /\ (akGroup'[r] = akGroup[r] \/ Refused(r)))
    <2>1. \A r \in Roles : r \in Names
      BY PairTypes
    <2>2. Refused(g)
      BY <1>2 DEF Refused
    <2> QED
      BY <1>4, <2>1, <2>2
  <1>14. \A h \in KcGroups :
             GroupFits(h)' \/ (groupRes'[h] = groupRes[h] /\ akGroup'[h] = akGroup[h])
    BY <1>4, <1>6, <1>8, KeycloakAssumption
  <1> QED
    BY <1>1, <1>4, <1>7, <1>9, <1>10, <1>11, <1>12, <1>13, <1>14, FitEarly DEF Early

\* Once the groups are through, the code refuses the roles that are refused.
LEMMA RefusedIs ==
    ASSUME Through, Fit, phase = "roles"
    PROVE  \A r \in Roles : RoleRefused(r) <=> Refused(r)
  <1>1. \A g \in Flat : g \in KcGroups /\ (groupRes[g] # "none" <=> Needed("groups"))
    BY DEF Through, AfterGroups, Flat, Fit, RowsFit, GroupFits, Fits
  <1> QED
    BY <1>1 DEF RoleRefused, Refused, ok_groups

LEMMA FitRoleConflict ==
    ASSUME Going, NEW r \in Roles, RoleConflict(r) PROVE Fit'
  <1>1. /\ phase = "roles" /\ Needed("roles") /\ call = NoCall /\ RoleRefused(r)
        /\ UNCHANGED <<akVars, opts, phase, call, groupRes, userRes, memRes, asgRes, known>>
        /\ roleRes' = [roleRes EXCEPT ![r] = "CONFLICT"] /\ roleRes[r] = "none"
    BY DEF RoleConflict, At
  <1>2. roleRes'[r] = "CONFLICT" /\ \A s \in Roles : s # r => roleRes'[s] = roleRes[s]
    BY <1>1 DEF Going, TypeInv, TypeOK
  <1>3. Refused(r)
    BY <1>1, RefusedIs DEF Going
  <1>4. RoleFits(r)'
    <2>1. RoleFits(r) /\ promised' = promised
      BY DEF Going, Fit, RowsFit, CalmStep
    <2>2. DueRole(r) = "CONFLICT" /\ DueRole(r)' = DueRole(r)
      BY <1>1, <1>3, SameTarget DEF DueRole
    <2> QED
      BY <1>1, <1>2, <2>1, <2>2, SameNeeds DEF RoleFits, Fits
  <1>5. CallFits'
    BY <1>1 DEF CallFits
  <1>6. RolesSeen'
    <2>1. \A s \in Roles : Refused(s)' <=> Refused(s)
      BY <1>1, SameTarget
    <2> QED
      BY <1>1, <1>2, <1>3, <2>1 DEF RolesSeen, Going, Fit, Early
  <1>7. GroupsSeen' /\ UsersSeen'
    BY <1>1, SameTarget DEF GroupsSeen, UsersSeen, Going, Fit, Early, Exists
  <1> QED
    BY <1>1, <1>2, <1>4, <1>5, <1>6, <1>7, SameTarget, FitEarly DEF Early

LEMMA FitRoleLookup ==
    ASSUME Going, NEW r \in Roles, RoleLookup(r) PROVE Fit'
  <1> DEFINE found == akGroup[r] # "absent"
             plan == Plan("roles", found)
             w == [kind |-> "role", op |-> Op(found), to |-> r]
  <1>1. /\ phase = "roles" /\ Needed("roles") /\ call = NoCall /\ ~RoleRefused(r)
        /\ UNCHANGED <<akVars, opts, phase, groupRes, userRes, memRes, asgRes, groupMembers,
                       userPks>>
        /\ roleRes' = [roleRes EXCEPT ![r] = plan] /\ roleRes[r] = "none"
        /\ call' = WriteIf(plan, w)
        /\ roleMembers' = IF found THEN Remember(roleMembers, r, akMembers[r])
                          ELSE roleMembers
    BY DEF RoleLookup, At
  <1>2. roleRes'[r] = plan /\ \A s \in Roles : s # r => roleRes'[s] = roleRes[s]
    BY <1>1 DEF Going, TypeInv, TypeOK
  <1>3. /\ plan = "none" => opts.apply /\ (found => opts.update) /\ (Op(found) = "update" => found)
        /\ plan # "none" => plan = DueAs(found) /\ (~found => ~opts.apply)
        /\ plan # "CONFLICT"
    BY <1>1, PlanIsDue DEF Going
  <1>4. /\ found => r \in DOMAIN roleMembers'
        /\ DOMAIN roleMembers \subseteq DOMAIN roleMembers'
        /\ \A s \in DOMAIN roleMembers' :
              \/ roleMembers'[s] = akMembers[s]
              \/ s \in DOMAIN roleMembers /\ roleMembers'[s] = roleMembers[s]
    <2>1. CASE found
      <3>1. roleMembers' = [m \in DOMAIN roleMembers \cup {r} |->
                               IF m = r THEN akMembers[r] ELSE roleMembers[m]]
        BY <1>1, <2>1 DEF Remember
      <3> HIDE DEF found
      <3> QED
        BY <3>1
    <2>2. CASE ~found
      BY <1>1, <2>2
    <2> QED
      BY <2>1, <2>2
  <1> HIDE DEF plan
  <1>5. ~Refused(r) /\ ~Refused(r)'
    BY <1>1, RefusedIs, SameTarget DEF Going
  <1>6. RoleFits(r)'
    <2>1. RoleFits(r) /\ promised' = promised
      BY DEF Going, Fit, RowsFit, CalmStep
    <2>2. DueRole(r) = DueAs(found) /\ DueRole(r)' = DueRole(r)
      BY <1>1, <1>5, SameTarget DEF DueRole
    <2>3. Fits("roles", roleRes[r], DueRole(r), promised[2][r])
      BY <2>1 DEF RoleFits
    <2>4. Fits("roles", plan, DueRole(r), promised[2][r])
      BY <1>1, <1>3, <2>2, <2>3 DEF Fits
    <2> QED
      BY <1>1, <1>2, <2>1, <2>2, <2>4, SameNeeds DEF RoleFits, Fits
  <1>7. CallFits'
    <2> SUFFICES ASSUME call' # NoCall PROVE CallFits'
      BY DEF CallFits
    <2>1. call' = w /\ plan = "none"
      BY <1>1 DEF WriteIf
    <2>2. call'.op = Op(found) /\ call'.to = r
      BY <2>1
    <2> QED
      BY <1>1, <1>2, <1>3, <1>4, <1>5, <2>1, <2>2, SameNeeds DEF CallFits
  <1>8. RolesSeen'
    <2>1. \A s \in Roles : Refused(s)' <=> Refused(s)
      BY <1>1, SameTarget
    <2>2. \A s \in Roles : s # r /\ roleRes'[s] # "none" =>
             /\ roleRes'[s] = "CONFLICT" <=> Refused(s)
             /\ \/ Refused(s) \/ s \in DOMAIN roleMembers'
                \/ ~opts.apply /\ akGroup[s] = "absent"
      BY <1>2, <1>4 DEF RolesSeen, Going, Fit
    <2>3. plan # "none" => r \in DOMAIN roleMembers' \/ (~opts.apply /\ akGroup[r] = "absent")
      BY <1>3, <1>4
    <2>4. \A s \in DOMAIN roleMembers' : roleMembers'[s] = akMembers[s]
      BY <1>1, <1>4 DEF RolesSeen, Going, Fit, Early
    <2> QED
      BY <1>1, <1>2, <1>3, <1>5, <2>1, <2>2, <2>3, <2>4 DEF RolesSeen
  <1>9. GroupsSeen' /\ UsersSeen'
    BY <1>1, SameTarget DEF GroupsSeen, UsersSeen, Going, Fit, Early, Exists
  <1> QED
    BY <1>1, <1>2, <1>6, <1>7, <1>8, <1>9, SameTarget, FitEarly DEF Early

LEMMA FitRoleWrite == ASSUME Going, RoleWrite PROVE Fit'
  <1> DEFINE found == akGroup[call.to] # "absent"
  <1>1. /\ phase = "roles" /\ call # NoCall /\ call.to \in Roles /\ call.kind = "role"
    BY DEF RoleWrite, Going, TypeInv, CallOK
  <1>2. /\ opts.apply /\ Needed("roles") /\ roleRes[call.to] = "none"
        /\ call.op = Op(found) /\ ~Refused(call.to)
        /\ call.op = "update" => call.to \in DOMAIN roleMembers
    BY <1>1 DEF Going, Fit, CallFits
  <1>3. PICK r \in Roles : r = call.to
    BY <1>1
  <1>4. /\ r \in Names /\ akGroup'[r] = "role"
        /\ \A n \in Names : n # r => akGroup'[n] = akGroup[n]
        /\ UNCHANGED <<akMembers, akUser, opts, phase, groupRes, userRes, memRes, asgRes,
                       groupMembers, userPks>>
        /\ call' = NoCall
        /\ roleRes' = [roleRes EXCEPT ![r] = Outcome("ok")]
        /\ roleMembers' = IF found THEN roleMembers ELSE Remember(roleMembers, r, {})
    BY <1>1, <1>2, <1>3, CalmGroupWrite, WriteIsDue
  <1>5. Outcome("ok") = DueAs(found) /\ Outcome("ok") \notin {"none", "CONFLICT"}
    BY <1>1, <1>2, WriteIsDue
  <1>6. roleRes'[r] = DueAs(found) /\ \A s \in Roles : s # r => roleRes'[s] = roleRes[s]
    BY <1>4, <1>5 DEF Going, TypeInv, TypeOK
  <1>7. ~Refused(r)
    BY <1>2, <1>3
  <1>8. \A s \in Roles : Refused(s)' <=> Refused(s)
    <2>1. \A s \in Roles : s \in Names
      BY PairTypes
    <2>2. Needed("groups")' <=> Needed("groups")
      BY <1>4, SameNeeds
    <2>3. ~Refused(r)'
      BY <1>4, <1>7, <2>2 DEF Refused
    <2>4. \A s \in Roles : s # r => (Refused(s)' <=> Refused(s))
      BY <1>4, <2>1, <2>2 DEF Refused
    <2> QED
      BY <1>7, <2>3, <2>4
  <1>9. RoleFits(r)'
    <2>1. RoleFits(r) /\ promised' = promised
      BY DEF Going, Fit, RowsFit, CalmStep
    <2>2. DueRole(r) = DueAs(found)
      BY <1>3, <1>7 DEF DueRole
    <2>3. promised[2][r] = DueAs(found)
      BY <1>2, <1>3, <2>1, <2>2 DEF RoleFits, Fits
    <2> QED
      BY <1>2, <1>4, <1>5, <1>6, <2>1, <2>3, SameNeeds DEF RoleFits, Fits
  <1>10. RolesSeen'
    <2>1. DOMAIN roleMembers' = DOMAIN roleMembers \cup {r}
      <3>1. CASE found
        BY <1>2, <1>3, <1>4, <3>1 DEF Op
      <3>2. CASE ~found
        BY <1>4, <3>2 DEF Remember
      <3> QED
        BY <3>1, <3>2
    <2>2. \A s \in Roles : s # r /\ roleRes'[s] # "none" =>
             /\ roleRes'[s] = "CONFLICT" <=> Refused(s)
             /\ Refused(s) \/ s \in DOMAIN roleMembers'
      BY <1>2, <1>6, <2>1 DEF RolesSeen, Going, Fit
    <2>3. r \in DOMAIN roleMembers' /\ roleRes'[r] # "CONFLICT"
      BY <1>5, <1>6, <2>1
    <2>4. ~found => akMembers[r] = {}
      BY <1>3, <1>4 DEF Going, MembersExist
    <2>5. \A s \in DOMAIN roleMembers : roleMembers[s] = akMembers[s]
      BY <1>1 DEF RolesSeen, Going, Fit, Early
    <2>6. \A s \in DOMAIN roleMembers' : roleMembers'[s] = akMembers[s]
      <3>1. CASE found
        BY <1>4, <2>5, <3>1
      <3>2. CASE ~found
        <4>1. roleMembers' = [m \in DOMAIN roleMembers \cup {r} |->
                                 IF m = r THEN {} ELSE roleMembers[m]]
          BY <1>4, <3>2 DEF Remember
        <4> QED
          BY <2>4, <2>5, <3>2, <4>1
      <3> QED
        BY <3>1, <3>2
    <2> QED
      BY <1>4, <1>7, <1>8, <2>2, <2>3, <2>6 DEF RolesSeen
  <1>11. \A u \in Users : Taken(u)' <=> Taken(u)
    BY <1>4 DEF Taken, Exists
  <1>12. GroupsSeen'
    <2>1. \A g \in Flat : groupRes[g] # "none" => g \in DOMAIN groupMembers
      BY <1>2 DEF Going, Fit, GroupsSeen
    <2> QED
      BY <1>1, <1>4, <2>1 DEF GroupsSeen, Going, Fit, Early
  <1>13. UsersSeen' /\ CallFits'
    BY <1>4, <1>11 DEF UsersSeen, CallFits, Going, Fit, Exists
  <1>14. ASSUME NEW g \in KcGroups
         PROVE  GroupFits(g)' \/ (groupRes'[g] = groupRes[g] /\ akGroup'[g] = akGroup[g])
    <2>1. CASE g # r
      BY <1>4, <2>1, KeycloakAssumption
    <2>2. CASE g = r
      <3>1. g \in Nested \/ ~Needed("groups")
        BY <1>7, <2>2 DEF Refused, Flat
      <3>2. GroupFits(g) /\ promised' = promised /\ groupRes' = groupRes /\ opts' = opts
        BY <1>4 DEF Going, Fit, RowsFit, CalmStep
      <3>3. g \in Nested => DueGroup(g)' = DueGroup(g)
        BY DEF DueGroup
      <3> QED
        BY <3>1, <3>2, <3>3, SameNeeds DEF GroupFits, Fits
    <2> QED
      BY <2>1, <2>2
  <1>15. \A s \in Roles :
             RoleFits(s)' \/ (roleRes'[s] = roleRes[s] /\ (akGroup'[s] = akGroup[s] \/ Refused(s)))
    BY <1>4, <1>6, <1>9, PairTypes
  <1>16. \A u \in Users : UserFits(u)' \/ (userRes'[u] = userRes[u] /\ akUser'[u] = akUser[u])
    BY <1>4
  <1> QED
    BY <1>1, <1>4, <1>8, <1>10, <1>11, <1>12, <1>13, <1>14, <1>15, <1>16, FitEarly DEF Early

LEMMA FitUserTaken ==
    ASSUME Going, NEW u \in Users, UserTaken(u) PROVE Fit'
  <1>1. /\ phase = "users" /\ Needed("users") /\ call = NoCall /\ Taken(u)
        /\ UNCHANGED <<akVars, opts, phase, call, groupRes, roleRes, memRes, asgRes, known>>
        /\ userRes' = [userRes EXCEPT ![u] = "CONFLICT"] /\ userRes[u] = "none"
    BY DEF UserTaken, At
  <1>2. userRes'[u] = "CONFLICT" /\ \A v \in Users : v # u => userRes'[v] = userRes[v]
    BY <1>1 DEF Going, TypeInv, TypeOK
  <1>3. UserFits(u)'
    <2>1. UserFits(u) /\ promised' = promised
      BY DEF Going, Fit, RowsFit, CalmStep
    <2>2. DueUser(u) = "CONFLICT" /\ DueUser(u)' = DueUser(u)
      BY <1>1, SameTarget DEF DueUser
    <2> QED
      BY <1>1, <1>2, <2>1, <2>2, SameNeeds DEF UserFits, Fits
  <1>4. CallFits'
    BY <1>1 DEF CallFits
  <1>5. UsersSeen'
    <2>1. \A v \in Users : (Taken(v)' <=> Taken(v)) /\ (Exists(v)' <=> Exists(v))
      BY <1>1, SameTarget DEF Exists
    <2> QED
      BY <1>1, <1>2, <2>1 DEF UsersSeen, Going, Fit
  <1>6. GroupsSeen' /\ RolesSeen'
    BY <1>1, SameTarget DEF GroupsSeen, RolesSeen, Going, Fit, Early
  <1> QED
    BY <1>1, <1>2, <1>3, <1>4, <1>5, <1>6, SameTarget, FitEarly DEF Early

LEMMA FitUserLookup ==
    ASSUME Going, NEW u \in Users, UserLookup(u) PROVE Fit'
  <1> DEFINE found == Exists(u)
             plan == Plan("users", found)
             w == [kind |-> "user", op |-> Op(found), to |-> u, email |-> EmailOf[u]]
  <1>1. /\ phase = "users" /\ Needed("users") /\ call = NoCall /\ ~Taken(u)
        /\ UNCHANGED <<akVars, opts, phase, groupRes, roleRes, memRes, asgRes, groupMembers,
                       roleMembers>>
        /\ userRes' = [userRes EXCEPT ![u] = plan] /\ userRes[u] = "none"
        /\ call' = WriteIf(plan, w)
        /\ userPks' = IF found THEN userPks \cup {u} ELSE userPks
    BY DEF UserLookup, At
  <1>2. userRes'[u] = plan /\ \A v \in Users : v # u => userRes'[v] = userRes[v]
    BY <1>1 DEF Going, TypeInv, TypeOK
  <1>3. /\ plan = "none" => opts.apply /\ (found => opts.update) /\ (Op(found) = "update" => found)
        /\ plan # "none" => plan = DueAs(found) /\ (~found => ~opts.apply)
        /\ plan # "CONFLICT"
    <2>1. found \in BOOLEAN
      BY DEF Exists
    <2> QED
      BY <1>1, <2>1, PlanIsDue DEF Going
  <1> HIDE DEF plan
  <1>4. UserFits(u)'
    <2>1. UserFits(u) /\ promised' = promised
      BY DEF Going, Fit, RowsFit, CalmStep
    <2>2. DueUser(u) = DueAs(found) /\ DueUser(u)' = DueUser(u)
      BY <1>1, SameTarget DEF DueUser
    <2>3. Fits("users", userRes[u], DueUser(u), promised[3][u])
      BY <2>1 DEF UserFits
    <2>4. Fits("users", plan, DueUser(u), promised[3][u])
      BY <1>1, <1>3, <2>2, <2>3 DEF Fits
    <2> QED
      BY <1>1, <1>2, <2>1, <2>2, <2>4, SameNeeds DEF UserFits, Fits
  <1>5. \A v \in Users : (Taken(v)' <=> Taken(v)) /\ (Exists(v)' <=> Exists(v))
    BY <1>1, SameTarget DEF Exists
  <1>6. CallFits'
    <2> SUFFICES ASSUME call' # NoCall PROVE CallFits'
      BY DEF CallFits
    <2>1. call' = w /\ plan = "none"
      BY <1>1 DEF WriteIf
    <2>2. call'.op = Op(found) /\ call'.to = u /\ call'.email = EmailOf[u]
      BY <2>1
    <2>3. opts'.apply /\ Needed(phase)' /\ (call'.op = "update" => opts'.update)
      BY <1>1, <1>3, <2>1, <2>2, SameNeeds
    <2>4. userRes'[u] = "none" /\ call'.op = Op(Exists(u)') /\ ~Taken(u)'
      <3>1. call'.op = Op(Exists(u)')
        BY <1>1, <2>2 DEF Exists
      <3> QED
        BY <1>1, <1>2, <1>5, <2>1, <3>1
    <2> QED
      BY <1>1, <2>2, <2>3, <2>4 DEF CallFits
  <1>7. UsersSeen'
    <2>1. \A v \in Users : v # u =>
             /\ userRes'[v] # "none" =>
                   /\ userRes'[v] = "CONFLICT" <=> Taken(v)
                   /\ \/ Taken(v) \/ v \in userPks'
                      \/ ~opts.apply /\ userRes'[v] = "CREATED" /\ ~Exists(v)
             /\ v \in userPks' => ~Taken(v)
      BY <1>1, <1>2 DEF UsersSeen, Going, Fit
    <2>2. plan # "none" => u \in userPks' \/ (~opts.apply /\ plan = "CREATED" /\ ~Exists(u))
      BY <1>1, <1>3 DEF DueAs
    <2> QED
      BY <1>1, <1>2, <1>3, <1>5, <2>1, <2>2 DEF UsersSeen
  <1>8. GroupsSeen' /\ RolesSeen'
    BY <1>1, SameTarget DEF GroupsSeen, RolesSeen, Going, Fit, Early
  <1> QED
    BY <1>1, <1>2, <1>4, <1>6, <1>7, <1>8, SameTarget, FitEarly DEF Early

LEMMA FitUserWrite == ASSUME Going, UserWrite PROVE Fit'
  <1>1. /\ phase = "users" /\ call # NoCall /\ call \in UserWrites
        /\ call \notin GroupWrites /\ call \notin MemberWrites
        /\ call.to \in Users /\ call.kind = "user"
    BY DEF UserWrite, Going, TypeInv, CallOK, UserWrites, GroupWrites, MemberWrites
  <1>2. /\ opts.apply /\ Needed("users") /\ userRes[call.to] = "none"
        /\ call.op = Op(Exists(call.to)) /\ ~Taken(call.to) /\ call.email = EmailOf[call.to]
    BY <1>1 DEF Going, Fit, CallFits
  <1>3. Accepts(call)
    BY <1>1, <1>2 DEF Accepts, Op
  <1>4. ASSUME NEW answer, Call(call, answer) PROVE answer = "ok" /\ Commit(call)
    BY <1>3, <1>4, CalmCall
  <1>5. Commit(call)
    BY <1>4 DEF UserWrite
  <1>6. PICK u \in Users : u = call.to
    BY <1>1
  <1>7. /\ akUser' = [akUser EXCEPT ![u] = [email |-> EmailOf[u], profile |-> "keycloak"]]
        /\ UNCHANGED <<akGroup, akMembers>>
    BY <1>1, <1>2, <1>5, <1>6 DEF Commit
  <1>8. /\ UNCHANGED <<opts, phase, groupRes, roleRes, memRes, asgRes, groupMembers, roleMembers>>
        /\ call' = NoCall
        /\ userRes' = [userRes EXCEPT ![u] = Outcome("ok")]
        /\ userPks' = userPks \cup {u}
    BY <1>4, <1>6 DEF UserWrite
  <1>9. /\ Outcome("ok") = DueAs(Exists(u)) /\ Outcome("ok") \notin {"none", "CONFLICT"}
    <2>1. Exists(u) \in BOOLEAN
      BY DEF Exists
    <2> QED
      BY <1>1, <1>2, <1>6, <2>1, WriteIsDue
  <1>10. userRes'[u] = Outcome("ok") /\ \A v \in Users : v # u => userRes'[v] = userRes[v]
    BY <1>8 DEF Going, TypeInv, TypeOK
  <1>11. /\ akUser'[u] = [email |-> EmailOf[u], profile |-> "keycloak"]
         /\ \A v \in Users : v # u => akUser'[v] = akUser[v]
    BY <1>7 DEF Going, TypeInv, TypeOK, AkTypeOK
  <1>12. ~Taken(u)
    BY <1>2, <1>6
  <1>13. ~Taken(u)'
    BY <1>11 DEF Taken
  <1>14. \A v \in Users : v # u => (Taken(v)' <=> Taken(v)) /\ (Exists(v)' <=> Exists(v))
    BY <1>11 DEF Taken, Exists
  <1>15. UserFits(u)'
    <2>1. UserFits(u) /\ promised' = promised
      BY DEF Going, Fit, RowsFit, CalmStep
    <2>2. DueUser(u) = DueAs(Exists(u))
      BY <1>12 DEF DueUser
    <2>3. promised[3][u] = DueAs(Exists(u))
      BY <1>2, <1>6, <2>1, <2>2 DEF UserFits, Fits
    <2> QED
      BY <1>2, <1>8, <1>9, <1>10, <2>1, <2>3, SameNeeds DEF UserFits, Fits
  <1>16. UsersSeen'
    <2>1. \A v \in Users :
             /\ userRes[v] # "none" =>
                   (userRes[v] = "CONFLICT" <=> Taken(v)) /\ (Taken(v) \/ v \in userPks)
             /\ v \in userPks => ~Taken(v)
      BY <1>2 DEF UsersSeen, Going, Fit
    <2> QED
      BY <1>8, <1>9, <1>10, <1>13, <1>14, <2>1 DEF UsersSeen
  <1>17. \A r \in Roles : Refused(r)' <=> Refused(r)
    BY <1>7, <1>8, SameNeeds DEF Refused
  <1>18. GroupsSeen' /\ RolesSeen' /\ CallFits'
    BY <1>1, <1>7, <1>8, <1>17 DEF GroupsSeen, RolesSeen, CallFits, Going, Fit, Early
  <1>19. \A v \in Users : UserFits(v)' \/ (userRes'[v] = userRes[v] /\ akUser'[v] = akUser[v])
    BY <1>10, <1>11, <1>15
  <1>20. \A v \in Users : Taken(v)' <=> Taken(v)
    BY <1>12, <1>13, <1>14
  <1> QED
    BY <1>1, <1>7, <1>8, <1>16, <1>17, <1>18, <1>19, <1>20, FitEarly DEF Early

\* The later passes: what the run is through with.
LEMMA ResolvedIs ==
    ASSUME TypeInv, Through, Fit, phase \in AfterUsers, Needed("users")
    PROVE  /\ \A u \in Users : u \in resolved_usernames <=> ~Taken(u)
           /\ \A u \in Users : ~Taken(u) =>
                 u \in userPks \/ (~opts.apply /\ userRes[u] = "CREATED" /\ ~Exists(u))
  <1>1. \A u \in Users : userRes[u] # "none"
    BY DEF Through
  <1>2. \A u \in Users :
           /\ userRes[u] = "CONFLICT" <=> Taken(u)
           /\ Taken(u) \/ u \in userPks \/ (~opts.apply /\ userRes[u] = "CREATED" /\ ~Exists(u))
           /\ u \in userPks => ~Taken(u)
    BY <1>1 DEF Fit, UsersSeen
  <1> QED
    BY <1>2 DEF resolved_usernames

\* The row of a pair whose user is resolved, when what the run knows of the
\* members is what the rows need.
LEMMA LinkIsDue ==
    ASSUME TypeInv, MembersExist, NEW p, p[2] \in Users, p[1] \in Names,
           p[2] \in resolved_usernames,
           p[2] \in userPks \/ (~opts.apply /\ ~Exists(p[2])),
           NEW members,
           \/ p[1] \in DOMAIN members
           \/ ~opts.apply /\ akGroup[p[1]] = "absent",
           ~opts.apply /\ p[1] \in DOMAIN members => members[p[1]] = akMembers[p[1]]
    PROVE  IF p[2] \in MembersSeen(members, p[1])
             THEN LinkPlan(p, members, opts.apply) = "SKIPPED"
             ELSE LinkPlan(p, members, opts.apply) = IF opts.apply THEN "none" ELSE "CREATED"
  <1>1. CASE p[1] \in DOMAIN members
    <2>1. p[2] \in members[p[1]] => p[2] \in userPks
      BY <1>1 DEF MembersExist
    <2> QED
      BY <1>1, <2>1 DEF LinkPlan, MembersSeen
  <1>2. CASE p[1] \notin DOMAIN members
    <2>1. ~opts.apply /\ akMembers[p[1]] = {}
      BY <1>2 DEF MembersExist
    <2> QED
      BY <1>2, <2>1 DEF LinkPlan, MembersSeen
  <1> QED
    BY <1>1, <1>2

\* In the calm a member that is added is added.
LEMMA LinkCommitted ==
    ASSUME Going, NEW p, TheLink(p) \in MemberWrites, NEW answer, Call(TheLink(p), answer)
    PROVE  /\ answer = "ok" /\ UNCHANGED <<akGroup, akUser>>
           /\ \A n \in Names : n # p[1] => akMembers'[n] = akMembers[n]
  <1>1. TheLink(p).op = "add" /\ TheLink(p).to = p /\ TheLink(p).kind = "member"
    BY DEF TheLink
  <1>2. TheLink(p) \notin GroupWrites /\ TheLink(p) \notin UserWrites
    BY <1>1 DEF GroupWrites, UserWrites
  <1>3. Accepts(TheLink(p))
    BY <1>1 DEF Accepts
  <1>4. answer = "ok" /\ Commit(TheLink(p))
    BY <1>3, CalmCall
  <1>5. /\ UNCHANGED <<akGroup, akUser>>
        /\ akMembers' = [akMembers EXCEPT ![p[1]] = @ \cup {p[2]}]
    BY <1>1, <1>2, <1>4 DEF Commit
  <1> QED
    BY <1>4, <1>5 DEF Going, TypeInv, TypeOK, AkTypeOK

\* One row of the later passes, and perhaps one member more of a group that the
\* run knows, as the group of a Keycloak group or as that of a role.
LEMMA FitLater ==
    ASSUME Going, NEW n \in Names,
           UNCHANGED <<opts, phase, call, groupRes, roleRes, userRes, known, akGroup, akUser>>,
           call = NoCall, phase \in {"memberships", "assignments"},
           \A m \in Names : m # n => akMembers'[m] = akMembers[m],
           akMembers' = akMembers \/ opts.apply,
           \/ akMembers' = akMembers
           \/ n \in DOMAIN groupMembers /\ n \in Flat /\ Needed("groups")
           \/ n \in DOMAIN roleMembers /\ (n \in Roles => ~Refused(n)),
           \A p \in Memberships : MemberFits(p)' \/ memRes'[p] = memRes[p],
           \A p \in Assignments : AssignmentFits(p)' \/ asgRes'[p] = asgRes[p]
    PROVE  Fit'
  <1>1. UNCHANGED <<opts, promised>>
    BY DEF Going, CalmStep
  <1>2. /\ \A u : Taken(u)' <=> Taken(u)
        /\ \A r : Refused(r)' <=> Refused(r)
    BY SameTarget
  <1>3. Steady
    <2>1. Needed("groups") => \A g \in Flat :
             MembersSeen(groupMembers, g)' = MembersSeen(groupMembers, g)
      <3> SUFFICES ASSUME Needed("groups"), NEW g \in Flat
                   PROVE  MembersSeen(groupMembers, g)' = MembersSeen(groupMembers, g)
        OBVIOUS
      <3>1. g \in Names
        BY PairTypes
      <3>2. g = n => akMembers' = akMembers \/ n \in DOMAIN groupMembers
        <4>1. n \in DOMAIN roleMembers => n \in Roles
          BY DEF Going, TypeInv, TypeOK, IsSnapshot
        <4>2. g \in Roles => Refused(g)
          BY DEF Refused
        <4> QED
          BY <4>1, <4>2
      <3> QED
        BY <3>1, <3>2 DEF MembersSeen
    <2>2. \A r \in Roles : ~Refused(r) =>
             MembersSeen(roleMembers, r)' = MembersSeen(roleMembers, r)
      <3> SUFFICES ASSUME NEW r \in Roles, ~Refused(r)
                   PROVE  MembersSeen(roleMembers, r)' = MembersSeen(roleMembers, r)
        OBVIOUS
      <3>1. r \in Names
        BY PairTypes
      <3>2. r = n => akMembers' = akMembers \/ n \in DOMAIN roleMembers
        BY DEF Refused
      <3> QED
        BY <3>1, <3>2 DEF MembersSeen
    <2> QED
      BY <1>2, <2>1, <2>2 DEF Steady
  <1>4. RowsFit'
    BY <1>1, <1>3, RowsFitOn DEF Going, Fit
  <1>5. GroupsSeen' /\ RolesSeen'
    BY <1>2 DEF GroupsSeen, RolesSeen, Going, Fit, Early
  <1>6. UsersSeen' /\ CallFits'
    BY <1>2 DEF UsersSeen, CallFits, Going, Fit, Exists
  <1> QED
    BY <1>1, <1>4, <1>5, <1>6 DEF Fit, Going

LEMMA FitMember == ASSUME Going, NEW p \in Memberships, Member(p) PROVE Fit'
  <1> DEFINE plan == LinkPlan(p, groupMembers, opts.apply)
  <1>1. /\ phase = "memberships" /\ Needed("memberships") /\ call = NoCall /\ memRes[p] = "none"
        /\ UNCHANGED <<opts, phase, call, groupRes, roleRes, userRes, asgRes, known>>
        /\ Link(memRes, p, plan)
    BY DEF Member, At
  <1>2. /\ p[1] \in Flat /\ p[1] \in Names /\ p[2] \in Users /\ TheLink(p) \in MemberWrites
    BY PairTypes, LinkIs
  <1>3. Needed("groups") /\ Needed("users")
    BY <1>1, NeededIs
  <1>4. phase \in AfterGroups /\ phase \in AfterUsers
    BY <1>1 DEF AfterGroups, AfterRoles, AfterUsers
  <1>5. p[1] \in DOMAIN groupMembers \/ (~opts.apply /\ akGroup[p[1]] = "absent")
    <2>1. p[1] \in KcGroups /\ groupRes[p[1]] # "none"
      BY <1>2, <1>3, <1>4 DEF Going, Through, Flat
    <2> QED
      BY <1>2, <2>1 DEF Going, Fit, GroupsSeen
  <1>6. ~opts.apply /\ p[1] \in DOMAIN groupMembers => groupMembers[p[1]] = akMembers[p[1]]
    BY DEF Going, Fit, GroupsSeen, Early
  <1>7. /\ p[2] \in resolved_usernames <=> ~Taken(p[2])
        /\ ~Taken(p[2]) => p[2] \in userPks \/ (~opts.apply /\ ~Exists(p[2]))
    BY <1>2, <1>3, <1>4, ResolvedIs DEF Going
  <1>8. plan = IF DueMember(p) = "CREATED" /\ opts.apply THEN "none" ELSE DueMember(p)
    <2>1. CASE Taken(p[2])
      BY <1>7, <2>1 DEF LinkPlan, DueMember
    <2>2. CASE ~Taken(p[2])
      BY <1>2, <1>5, <1>6, <1>7, <2>2, LinkIsDue DEF DueMember, Going
    <2> QED
      BY <2>1, <2>2
  <1>9. plan = "none" => opts.apply /\ DueMember(p) = "CREATED"
    BY <1>8 DEF DueMember
  <1> HIDE DEF plan
  <1>10. /\ memRes' = [memRes EXCEPT ![p] = DueMember(p)]
         /\ UNCHANGED <<akGroup, akUser>>
         /\ \A m \in Names : m # p[1] => akMembers'[m] = akMembers[m]
         /\ akMembers' = akMembers \/ opts.apply
    <2>1. CASE plan # "none"
      <3>1. plan = DueMember(p)
        BY <1>8, <2>1
      <3> QED
        BY <1>1, <2>1, <3>1 DEF Link
    <2>2. CASE plan = "none"
      <3>1. PICK answer : /\ Call(TheLink(p), answer)
                          /\ memRes' = [memRes EXCEPT ![p] =
                                           IF answer = "ok" THEN "CREATED" ELSE "FAILED"]
        BY <1>1, <2>2 DEF Link, TheLink
      <3>2. /\ answer = "ok" /\ UNCHANGED <<akGroup, akUser>>
            /\ \A n \in Names : n # p[1] => akMembers'[n] = akMembers[n]
        BY <1>2, <3>1, LinkCommitted
      <3> QED
        BY <1>9, <2>2, <3>1, <3>2
    <2> QED
      BY <2>1, <2>2
  <1>11. DueMember(p) # "none"
    BY DEF DueMember
  <1>12. /\ memRes'[p] = DueMember(p)
         /\ \A q \in Memberships : q # p => memRes'[q] = memRes[q]
    BY <1>10 DEF Going, TypeInv, TypeOK
  <1>13. MemberFits(p) /\ promised' = promised
    BY DEF Going, Fit, RowsFit, CalmStep
  <1>14. opts.apply => promised[4][p] = DueMember(p)
    BY <1>1, <1>13 DEF MemberFits, Fits
  <1>15. MemberFits(p)'
    <2>1. CASE opts.apply
      <3>1. opts'.apply /\ Needed("memberships")' /\ promised'[4][p] = memRes'[p] /\ memRes'[p] # "none"
        BY <1>1, <1>11, <1>12, <1>13, <1>14, <2>1, SameNeeds
      <3> QED
        BY <3>1 DEF MemberFits, Fits
    <2>2. CASE ~opts.apply
      <3>1. akMembers' = akMembers
        BY <1>10, <2>2
      <3>2. DueMember(p)' = DueMember(p)
        BY <1>1, <1>10, <3>1 DEF DueMember, Taken, Exists, MembersSeen
      <3>3. ~opts'.apply /\ Needed("memberships")' /\ memRes'[p] = DueMember(p)'
        BY <1>1, <1>12, <2>2, <3>2, SameNeeds
      <3> QED
        BY <3>3 DEF MemberFits, Fits
    <2> QED
      BY <2>1, <2>2
  <1>16. akMembers' = akMembers \/ p[1] \in DOMAIN groupMembers
    BY <1>5, <1>10
  <1>17. \A q \in Memberships : MemberFits(q)' \/ memRes'[q] = memRes[q]
    BY <1>12, <1>15
  <1>18. \A q \in Assignments : AssignmentFits(q)' \/ asgRes'[q] = asgRes[q]
    BY <1>1
  <1> QED
    BY <1>1, <1>2, <1>3, <1>10, <1>16, <1>17, <1>18, FitLater

LEMMA FitAssign == ASSUME Going, NEW p \in Assignments, Assign(p) PROVE Fit'
  <1> DEFINE conflicted == p[2] \in resolved_usernames /\ p[1] \in role_conflicted
             plan == IF conflicted THEN "CONFLICT"
                     ELSE LinkPlan(p, roleMembers, Applies("roles"))
  <1>1. /\ phase = "assignments" /\ Needed("assignments") /\ call = NoCall /\ asgRes[p] = "none"
        /\ UNCHANGED <<opts, phase, call, groupRes, roleRes, userRes, memRes, known>>
        /\ Link(asgRes, p, plan)
    BY DEF Assign, At
  <1>2. /\ p[1] \in Roles /\ p[1] \in Names /\ p[2] \in Users /\ TheLink(p) \in MemberWrites
    BY PairTypes, LinkIs
  <1>3. Needed("roles") /\ Needed("users") /\ Applies("roles") = opts.apply
    <2>1. InScope("roles")
      BY <1>1, NeededIs
    <2>2. opts.apply \in BOOLEAN
      BY DEF Going, TypeInv, TypeOK, Options
    <2> QED
      BY <2>1, <2>2, NeededIs DEF Applies
  <1>4. phase \in AfterRoles /\ phase \in AfterUsers
    BY <1>1 DEF AfterGroups, AfterRoles, AfterUsers
  <1>5. /\ p[1] \in role_conflicted <=> Refused(p[1])
        /\ \/ Refused(p[1]) \/ p[1] \in DOMAIN roleMembers
           \/ ~opts.apply /\ akGroup[p[1]] = "absent"
    <2>1. roleRes[p[1]] # "none"
      BY <1>2, <1>3, <1>4 DEF Going, Through
    <2> QED
      BY <1>2, <2>1 DEF Going, Fit, RolesSeen, role_conflicted
  <1>6. ~opts.apply /\ p[1] \in DOMAIN roleMembers => roleMembers[p[1]] = akMembers[p[1]]
    BY DEF Going, Fit, RolesSeen, Early
  <1>7. /\ p[2] \in resolved_usernames <=> ~Taken(p[2])
        /\ ~Taken(p[2]) => p[2] \in userPks \/ (~opts.apply /\ ~Exists(p[2]))
    BY <1>2, <1>3, <1>4, ResolvedIs DEF Going
  <1>8. plan = IF DueAssignment(p) = "CREATED" /\ opts.apply THEN "none" ELSE DueAssignment(p)
    <2>1. CASE Taken(p[2])
      BY <1>7, <2>1 DEF LinkPlan, DueAssignment
    <2>2. CASE ~Taken(p[2]) /\ Refused(p[1])
      BY <1>5, <1>7, <2>2 DEF DueAssignment
    <2>3. CASE ~Taken(p[2]) /\ ~Refused(p[1])
      <3>1. plan = LinkPlan(p, roleMembers, opts.apply)
        BY <1>3, <1>5, <2>3
      <3> HIDE DEF plan
      <3> QED
        BY <1>2, <1>5, <1>6, <1>7, <2>3, <3>1, LinkIsDue DEF DueAssignment, Going
    <2> QED
      BY <2>1, <2>2, <2>3
  <1>9. plan = "none" => opts.apply /\ DueAssignment(p) = "CREATED" /\ ~Refused(p[1])
    <2> HIDE DEF plan
    <2> QED
      BY <1>8 DEF DueAssignment
  <1> HIDE DEF plan
  <1>10. /\ asgRes' = [asgRes EXCEPT ![p] = DueAssignment(p)]
         /\ UNCHANGED <<akGroup, akUser>>
         /\ \A m \in Names : m # p[1] => akMembers'[m] = akMembers[m]
         /\ akMembers' = akMembers \/ (opts.apply /\ ~Refused(p[1]))
    <2>1. CASE plan # "none"
      <3>1. plan = DueAssignment(p)
        BY <1>8, <2>1
      <3> QED
        BY <1>1, <2>1, <3>1 DEF Link
    <2>2. CASE plan = "none"
      <3>1. PICK answer : /\ Call(TheLink(p), answer)
                          /\ asgRes' = [asgRes EXCEPT ![p] =
                                           IF answer = "ok" THEN "CREATED" ELSE "FAILED"]
        BY <1>1, <2>2 DEF Link, TheLink
      <3>2. /\ answer = "ok" /\ UNCHANGED <<akGroup, akUser>>
            /\ \A n \in Names : n # p[1] => akMembers'[n] = akMembers[n]
        BY <1>2, <3>1, LinkCommitted
      <3> QED
        BY <1>9, <2>2, <3>1, <3>2
    <2> QED
      BY <2>1, <2>2
  <1>11. DueAssignment(p) # "none"
    BY DEF DueAssignment
  <1>12. /\ asgRes'[p] = DueAssignment(p)
         /\ \A q \in Assignments : q # p => asgRes'[q] = asgRes[q]
    BY <1>10 DEF Going, TypeInv, TypeOK
  <1>13. AssignmentFits(p) /\ promised' = promised
    BY DEF Going, Fit, RowsFit, CalmStep
  <1>14. opts.apply => promised[5][p] = DueAssignment(p)
    BY <1>1, <1>13 DEF AssignmentFits, Fits
  <1>15. AssignmentFits(p)'
    <2>1. CASE opts.apply
      <3>1. opts'.apply /\ Needed("assignments")' /\ promised'[5][p] = asgRes'[p] /\ asgRes'[p] # "none"
        BY <1>1, <1>11, <1>12, <1>13, <1>14, <2>1, SameNeeds
      <3> QED
        BY <3>1 DEF AssignmentFits, Fits
    <2>2. CASE ~opts.apply
      <3>1. akMembers' = akMembers
        BY <1>10, <2>2
      <3>2. DueAssignment(p)' = DueAssignment(p)
        BY <1>1, <1>10, <3>1, SameTarget DEF DueAssignment, MembersSeen
      <3>3. ~opts'.apply /\ Needed("assignments")' /\ asgRes'[p] = DueAssignment(p)'
        BY <1>1, <1>12, <2>2, <3>2, SameNeeds
      <3> QED
        BY <3>3 DEF AssignmentFits, Fits
    <2> QED
      BY <2>1, <2>2
  <1>16. akMembers' = akMembers \/ (p[1] \in DOMAIN roleMembers /\ ~Refused(p[1]))
    BY <1>5, <1>10
  <1>17. \A q \in Memberships : MemberFits(q)' \/ memRes'[q] = memRes[q]
    BY <1>1
  <1>18. \A q \in Assignments : AssignmentFits(q)' \/ asgRes'[q] = asgRes[q]
    BY <1>12, <1>15
  <1> QED
    BY <1>1, <1>2, <1>10, <1>16, <1>17, <1>18, FitLater

LEMMA FitStill ==
    ASSUME Fit, UNCHANGED <<akGroup, akMembers, akUser, opts, promised, rows, known>>,
           Early' => Early, CallFits'
    PROVE  Fit'
  <1>1. /\ \A u : Taken(u)' <=> Taken(u)
        /\ \A r : Refused(r)' <=> Refused(r)
    BY SameTarget
  <1>2. Steady
    BY <1>1 DEF Steady, MembersSeen
  <1>3. RowsFit'
    BY <1>2, RowsFitOn DEF Fit
  <1>4. GroupsSeen' /\ RolesSeen' /\ UsersSeen'
    BY <1>1 DEF GroupsSeen, RolesSeen, UsersSeen, Fit, Exists
  <1> QED
    BY <1>3, <1>4 DEF Fit

LEMMA FitAdvance == ASSUME Going, Advance PROVE Fit'
  <1>1. /\ UNCHANGED <<akGroup, akMembers, akUser, opts, rows, known, call>>
        /\ call = NoCall /\ phase \in Phases /\ phase' = After[phase]
    BY DEF Advance, Running
  <1>2. Early' => Early
    BY <1>1 DEF Early, After, Phases
  <1>3. CallFits'
    BY <1>1 DEF CallFits
  <1> QED
    BY <1>1, <1>2, <1>3, FitStill DEF Going, CalmStep

LEMMA FitMail == ASSUME Going, NEW u \in Users, Mail(u) PROVE Fit'
  <1>1. UNCHANGED <<akGroup, akMembers, akUser, opts, rows, known, call, phase>> /\ call = NoCall
    BY DEF Mail, At
  <1> QED
    BY <1>1, FitStill DEF Going, CalmStep, Early, CallFits

-----------------------------------------------------------------------------
\* The start of a run.

\* A dry run has said nothing yet.
LEMMA FitDryStart ==
    ASSUME NEW o \in Invocations, Start(o), ~o.apply PROVE Fit'
  <1>1. /\ opts' = o /\ call' = NoCall /\ userPks' = {}
        /\ groupRes' = [g \in KcGroups |-> "none"] /\ roleRes' = [r \in Roles |-> "none"]
        /\ userRes' = [u \in Users |-> "none"]
        /\ memRes' = [p \in Memberships |-> "none"] /\ asgRes' = [p \in Assignments |-> "none"]
        /\ groupMembers' = [g \in {} |-> {}] /\ roleMembers' = [r \in {} |-> {}]
    BY DEF Start
  <1>2. RowsFit'
    BY <1>1 DEF RowsFit, GroupFits, RoleFits, UserFits, MemberFits, AssignmentFits, Fits
  <1>3. CallFits' /\ GroupsSeen' /\ RolesSeen' /\ UsersSeen'
    BY <1>1 DEF CallFits, GroupsSeen, RolesSeen, UsersSeen, Flat
  <1> QED
    BY <1>1, <1>2, <1>3 DEF Fit

\* After a dry run in the calm every row is the one that is due.
LEMMA DryRowsAreDue ==
    ASSUME Through, Fit, phase = "done", ~opts.apply
    PROVE  /\ \A g \in KcGroups : groupRes[g] = IF Needed("groups") THEN DueGroup(g) ELSE "none"
           /\ \A r \in Roles : roleRes[r] = IF Needed("roles") THEN DueRole(r) ELSE "none"
           /\ \A u \in Users : userRes[u] = IF Needed("users") THEN DueUser(u) ELSE "none"
           /\ \A p \in Memberships :
                 memRes[p] = IF Needed("memberships") THEN DueMember(p) ELSE "none"
           /\ \A p \in Assignments :
                 asgRes[p] = IF Needed("assignments") THEN DueAssignment(p) ELSE "none"
  BY DEF Through, AfterGroups, AfterRoles, AfterUsers, AfterMembers, AfterAll,
     Fit, RowsFit, GroupFits, RoleFits, UserFits, MemberFits, AssignmentFits, Fits

\* With --apply, what is due is what was due in the dry run.
LEMMA FitAppliedStart ==
    ASSUME WholePlans, Through, Fit, phase = "done", ~opts.apply, opts \in Invocations,
           opts \in Options, NEW o \in Invocations, Start(o),
           opts' = [opts EXCEPT !.apply = TRUE], promised' = rows
    PROVE  Fit'
  <1>1. /\ UNCHANGED <<akGroup, akMembers, akUser>> /\ call' = NoCall /\ userPks' = {}
        /\ groupRes' = [g \in KcGroups |-> "none"] /\ roleRes' = [r \in Roles |-> "none"]
        /\ userRes' = [u \in Users |-> "none"]
        /\ memRes' = [p \in Memberships |-> "none"] /\ asgRes' = [p \in Assignments |-> "none"]
        /\ groupMembers' = [g \in {} |-> {}] /\ roleMembers' = [r \in {} |-> {}]
        /\ phase' = "groups" /\ opts' = o
    BY DEF Start
  <1>2. /\ opts'.scope = opts.scope /\ opts'.apply /\ opts'.update = opts.update
        /\ opts'.mail = opts.mail
    BY DEF Options
  <1>3. WholeScope(opts'.scope)
    <2>1. opts' \in Invocations /\ opts' = [opts EXCEPT !.apply = TRUE]
      BY <1>1
    <2> QED
      BY <1>1, <1>2 DEF WholePlans
  <1>4. \A ph : Needed(ph)' <=> Needed(ph)
    BY <1>2 DEF Needed, InScope
  <1>5. /\ \A r : Refused(r)' <=> Refused(r)
        /\ \A u : (Taken(u)' <=> Taken(u)) /\ (Exists(u)' <=> Exists(u))
    BY <1>1, <1>4 DEF Refused, Taken, Exists
  <1>6. \A found : DueAs(found)' = DueAs(found)
    BY <1>2 DEF DueAs
  <1>7. /\ \A g : DueGroup(g)' = DueGroup(g)
        /\ \A r : DueRole(r)' = DueRole(r)
        /\ \A u : DueUser(u)' = DueUser(u)
    BY <1>1, <1>2, <1>5 DEF DueGroup, DueRole, DueUser, DueAs
  <1>8. \A n : /\ MembersSeen(groupMembers, n) = akMembers[n]
               /\ MembersSeen(roleMembers, n) = akMembers[n]
               /\ MembersSeen(groupMembers, n)' = akMembers[n]
               /\ MembersSeen(roleMembers, n)' = akMembers[n]
    BY <1>1 DEF MembersSeen, Fit, GroupsSeen, RolesSeen, Early
  <1>9. /\ \A p : DueMember(p)' = DueMember(p)
        /\ \A p : DueAssignment(p)' = DueAssignment(p)
    BY <1>5, <1>8 DEF DueMember, DueAssignment
  <1>10. RowsFit'
    <2>1. \A g \in KcGroups : GroupFits(g)'
      BY <1>1, <1>2, <1>4, <1>7, DryRowsAreDue DEF GroupFits, Fits
    <2>2. \A r \in Roles : RoleFits(r)'
      BY <1>1, <1>2, <1>4, <1>7, DryRowsAreDue DEF RoleFits, Fits
    <2>3. \A u \in Users : UserFits(u)'
      BY <1>1, <1>2, <1>4, <1>7, DryRowsAreDue DEF UserFits, Fits
    <2>4. \A p \in Memberships : MemberFits(p)'
      BY <1>1, <1>2, <1>4, <1>9, DryRowsAreDue DEF MemberFits, Fits
    <2>5. \A p \in Assignments : AssignmentFits(p)'
      BY <1>1, <1>2, <1>4, <1>9, DryRowsAreDue DEF AssignmentFits, Fits
    <2> QED
      BY <2>1, <2>2, <2>3, <2>4, <2>5 DEF RowsFit
  <1>11. CallFits' /\ GroupsSeen' /\ RolesSeen' /\ UsersSeen'
    BY <1>1 DEF CallFits, GroupsSeen, RolesSeen, UsersSeen, Flat
  <1> QED
    BY <1>3, <1>10, <1>11 DEF Fit

-----------------------------------------------------------------------------
\* A pass that is over has all its rows.

LEMMA ThroughKeeps ==
    ASSUME Through, opts' = opts, phase' = phase,
           \/ phase = "groups"
           \/ phase = "roles" /\ groupRes' = groupRes
           \/ phase = "users" /\ UNCHANGED <<groupRes, roleRes>>
           \/ phase = "memberships" /\ UNCHANGED <<groupRes, roleRes, userRes>>
           \/ phase = "assignments" /\ UNCHANGED <<groupRes, roleRes, userRes, memRes>>
           \/ UNCHANGED rows
    PROVE  Through'
  <1>1. \A ph : Needed(ph)' <=> Needed(ph)
    BY SameNeeds
  <1> QED
    BY <1>1 DEF Through, AfterGroups, AfterRoles, AfterUsers, AfterMembers, AfterAll

LEMMA ThroughAdvance == ASSUME TypeInv, Through, Advance PROVE Through'
  <1>1. UNCHANGED <<opts, rows>> /\ phase' = After[phase] /\ phase \in Phases
    BY DEF Advance, Running
  <1>2. Needed(phase) => Over(phase)
    BY DEF Advance
  <1>3. \A ph : Needed(ph)' <=> Needed(ph)
    BY <1>1, SameNeeds
  <1>4. /\ DOMAIN groupRes = KcGroups /\ DOMAIN roleRes = Roles /\ DOMAIN userRes = Users
        /\ DOMAIN memRes = Memberships /\ DOMAIN asgRes = Assignments
    BY DEF TypeInv, TypeOK
  <1>5. CASE phase = "groups"
    <2>1. phase' = "roles" /\ (Needed("groups") => \A g \in KcGroups : groupRes[g] # "none")
      BY <1>1, <1>2, <1>4, <1>5 DEF After, Over, Pending
    <2> QED
      BY <1>1, <1>3, <2>1 DEF Through, AfterGroups, AfterRoles, AfterUsers, AfterMembers, AfterAll
  <1>6. CASE phase = "roles"
    <2>1. phase' = "users" /\ (Needed("roles") => \A r \in Roles : roleRes[r] # "none")
      BY <1>1, <1>2, <1>4, <1>6 DEF After, Over, Pending
    <2> QED
      BY <1>1, <1>3, <1>6, <2>1
      DEF Through, AfterGroups, AfterRoles, AfterUsers, AfterMembers, AfterAll
  <1>7. CASE phase = "users"
    <2>1. phase' = "memberships" /\ (Needed("users") => \A u \in Users : userRes[u] # "none")
      BY <1>1, <1>2, <1>4, <1>7 DEF After, Over, Pending
    <2> QED
      BY <1>1, <1>3, <1>7, <2>1
      DEF Through, AfterGroups, AfterRoles, AfterUsers, AfterMembers, AfterAll
  <1>8. CASE phase = "memberships"
    <2>1. /\ phase' = "assignments"
          /\ Needed("memberships") => \A p \in Memberships : memRes[p] # "none"
      BY <1>1, <1>2, <1>4, <1>8 DEF After, Over, Pending
    <2> QED
      BY <1>1, <1>3, <1>8, <2>1
      DEF Through, AfterGroups, AfterRoles, AfterUsers, AfterMembers, AfterAll
  <1>9. CASE phase = "assignments"
    <2>1. /\ phase' = "mail"
          /\ Needed("assignments") => \A p \in Assignments : asgRes[p] # "none"
      BY <1>1, <1>2, <1>4, <1>9 DEF After, Over, Pending
    <2> QED
      BY <1>1, <1>3, <1>9, <2>1
      DEF Through, AfterGroups, AfterRoles, AfterUsers, AfterMembers, AfterAll
  <1>10. CASE phase = "mail"
    <2>1. phase' = "done"
      BY <1>1, <1>10 DEF After
    <2> QED
      BY <1>1, <1>3, <1>10, <2>1
      DEF Through, AfterGroups, AfterRoles, AfterUsers, AfterMembers, AfterAll
  <1> QED
    BY <1>1, <1>5, <1>6, <1>7, <1>8, <1>9, <1>10 DEF Phases

LEMMA ThroughStep == ASSUME TypeInv, Through, [Next]_vars PROVE Through'
  <1>1. CASE \E o \in Invocations : Start(o)
    BY <1>1 DEF Start, Through, AfterGroups, AfterRoles, AfterUsers, AfterMembers, AfterAll
  <1>2. CASE Interrupt
    BY <1>2 DEF Interrupt, Through, AfterGroups, AfterRoles, AfterUsers, AfterMembers, AfterAll
  <1>3. CASE Advance
    BY <1>3, ThroughAdvance
  <1>4. CASE \E g \in KcGroups : GroupNested(g) \/ GroupLookupFails(g) \/ GroupLookup(g)
    BY <1>4, ThroughKeeps DEF GroupNested, GroupLookupFails, GroupLookup, At
  <1>5. CASE \E r \in Roles : RoleConflict(r) \/ RoleLookupFails(r) \/ RoleLookup(r)
    BY <1>5, ThroughKeeps DEF RoleConflict, RoleLookupFails, RoleLookup, At
  <1>6. CASE \E u \in Users : UserTaken(u) \/ UserLookupFails(u) \/ UserLookup(u)
    BY <1>6, ThroughKeeps DEF UserTaken, UserLookupFails, UserLookup, At
  <1>7. CASE GroupWrite \/ RoleWrite \/ UserWrite
    BY <1>7, ThroughKeeps DEF GroupWrite, RoleWrite, UserWrite
  <1>8. CASE (\E p \in Memberships : Member(p)) \/ (\E p \in Assignments : Assign(p))
    BY <1>8, ThroughKeeps DEF Member, Assign, At
  <1>9. CASE \E u \in Users : Mail(u)
    BY <1>9, ThroughKeeps DEF Mail
  <1>10. CASE Environment \/ UNCHANGED vars
    BY <1>10, ThroughKeeps DEF Environment
  <1> QED
    BY <1>1, <1>2, <1>3, <1>4, <1>5, <1>6, <1>7, <1>8, <1>9, <1>10 DEF Next, Run, Pass

-----------------------------------------------------------------------------
\* The plan.

\* In the calm a step of a pass keeps the rows as they are due.
LEMMA FitPass == ASSUME Going, Pass PROVE Fit'
  <1>1. ASSUME Fault PROVE FALSE
    BY <1>1, CalmEnds DEF Going
  <1>2. CASE \E g \in KcGroups : GroupNested(g) \/ GroupLookupFails(g) \/ GroupLookup(g)
    BY <1>1, <1>2, FitGroupNested, FitGroupLookup DEF GroupLookupFails, LookupFails
  <1>3. CASE \E r \in Roles : RoleConflict(r) \/ RoleLookupFails(r) \/ RoleLookup(r)
    BY <1>1, <1>3, FitRoleConflict, FitRoleLookup DEF RoleLookupFails, LookupFails
  <1>4. CASE \E u \in Users : UserTaken(u) \/ UserLookupFails(u) \/ UserLookup(u)
    BY <1>1, <1>4, FitUserTaken, FitUserLookup DEF UserLookupFails, LookupFails
  <1>5. CASE \E u \in Users : Mail(u)
    BY <1>5, FitMail
  <1> QED
    BY <1>2, <1>3, <1>4, <1>5, FitGroupWrite, FitRoleWrite, FitUserWrite, FitMember, FitAssign,
       FitAdvance DEF Pass

LEMMA PassIsPass == ASSUME Pass PROVE Running /\ opts' = opts
  <1>1. CASE \E g \in KcGroups : GroupNested(g) \/ GroupLookupFails(g) \/ GroupLookup(g)
    BY <1>1 DEF GroupNested, GroupLookupFails, GroupLookup, At, Running, Phases
  <1>2. CASE \E r \in Roles : RoleConflict(r) \/ RoleLookupFails(r) \/ RoleLookup(r)
    BY <1>2 DEF RoleConflict, RoleLookupFails, RoleLookup, At, Running, Phases
  <1>3. CASE \E u \in Users : UserTaken(u) \/ UserLookupFails(u) \/ UserLookup(u)
    BY <1>3 DEF UserTaken, UserLookupFails, UserLookup, At, Running, Phases
  <1>4. CASE GroupWrite \/ RoleWrite \/ UserWrite
    BY <1>4 DEF GroupWrite, RoleWrite, UserWrite, Running, Phases
  <1>5. CASE (\E p \in Memberships : Member(p)) \/ (\E p \in Assignments : Assign(p))
    BY <1>5 DEF Member, Assign, At, Running, Phases
  <1>6. CASE (\E u \in Users : Mail(u)) \/ Advance
    BY <1>6 DEF Mail, Advance, At, Running, Phases
  <1> QED
    BY <1>1, <1>2, <1>3, <1>4, <1>5, <1>6 DEF Pass

\* A step that starts no run.
LEMMA Quieter ==
    ASSUME PlanNext, Pass \/ Interrupt \/ Environment
    PROVE  /\ CalmStep /\ opts' = opts
           /\ phase' # "idle" => phase # "idle"
  <1>1. CASE Pass
    BY <1>1, PassIsPass DEF PlanNext, Starts, CalmStep, Running, Phases
  <1>2. CASE Interrupt
    BY <1>2 DEF Interrupt, PlanNext, Starts, CalmStep, Running, Phases
  <1>3. CASE Environment
    BY <1>3 DEF Environment, PlanNext, Starts, CalmStep, Running, Phases
  <1> QED
    BY <1>1, <1>2, <1>3

LEMMA PlanQuiet ==
    ASSUME TypeInv, TypeInv', MembersExist, MembersExist', PlanInv, PlanNext,
           Pass \/ Interrupt \/ Environment
    PROVE  PlanInv'
  <1>1. CalmStep /\ opts' = opts /\ (phase' # "idle" => phase # "idle")
    BY Quieter
  <1>2. Through'
    BY ThroughStep DEF PlanInv, PlanNext
  <1>3. PromisedType' /\ calm' \in BOOLEAN /\ (phase' # "idle" => opts' \in Invocations)
    BY <1>1 DEF PlanInv, PromisedType, CalmStep
  <1>4. CalmInv'
    <2> SUFFICES ASSUME calm', Kept' PROVE Fit'
      BY DEF CalmInv
    <2>1. Fit
      BY <1>1 DEF PlanInv, CalmInv, Kept, CalmStep
    <2>2. CASE Pass
      BY <1>1, <2>1, <2>2, FitPass DEF Going, PlanInv
    <2>3. CASE Interrupt \/ Environment
      BY <1>1, <2>3, CalmEnds DEF Interrupt, Environment
    <2> QED
      BY <2>2, <2>3
  <1> QED
    BY <1>2, <1>3, <1>4 DEF PlanInv

LEMMA PlanStart ==
    ASSUME WholePlans, TypeInv, PlanInv, PlanNext, NEW o \in Invocations, Start(o)
    PROVE  PlanInv'
  <1>1. Starts /\ opts' = o /\ phase' = "groups" /\ UNCHANGED akVars
    BY DEF Start, Starts, Running, Phases
  <1>2. /\ calm' = IF ~o.apply THEN late = {}
                   ELSE calm /\ <<faults, foreign, late>>' = <<faults, foreign, late>>
        /\ promised' = IF phase = "done" /\ calm /\ ~opts.apply
                          /\ opts' = [opts EXCEPT !.apply = TRUE] THEN rows ELSE NoPlan
    BY <1>1 DEF PlanNext
  <1>3. PromisedType' /\ calm' \in BOOLEAN
    BY <1>2 DEF PlanInv, PromisedType, TypeInv, TypeOK
  <1>4. Through'
    BY ThroughStep DEF PlanInv, PlanNext
  <1>5. CalmInv'
    <2> SUFFICES ASSUME calm', Kept' PROVE Fit'
      BY DEF CalmInv
    <2>1. CASE ~o.apply
      BY <2>1, FitDryStart
    <2>2. CASE o.apply
      <3>1. /\ promised' # NoPlan /\ calm
        BY <1>1, <1>2, <2>2 DEF Kept, NoPlan
      <3>2. /\ phase = "done" /\ ~opts.apply /\ promised' = rows
            /\ opts' = [opts EXCEPT !.apply = TRUE]
        BY <1>2, <3>1
      <3>3. Through /\ Fit /\ opts \in Invocations /\ opts \in Options
        BY <3>1, <3>2 DEF PlanInv, CalmInv, Kept, TypeInv, TypeOK
      <3> QED
        BY <3>2, <3>3, FitAppliedStart
    <2> QED
      BY <2>1, <2>2
  <1> QED
    BY <1>1, <1>3, <1>4, <1>5 DEF PlanInv

LEMMA PlanStutters == ASSUME PlanInv, UNCHANGED planVars PROVE PlanInv'
  <1>1. UNCHANGED <<akGroup, akMembers, akUser, opts, promised, rows, known, call, phase, calm>>
    BY DEF planVars
  <1>2. Fit => Fit'
    <2>1. CallFits => CallFits'
      BY <1>1 DEF CallFits, Needed, InScope, Taken, Exists, Refused
    <2> QED
      BY <1>1, <2>1, FitStill DEF Early, Fit
  <1>3. Through'
    BY <1>1, ThroughKeeps DEF PlanInv
  <1> QED
    BY <1>1, <1>2, <1>3 DEF PlanInv, PromisedType, CalmInv, Kept

\* The promise, row by row.
LEMMA PlanKept == ASSUME TypeInv, PlanInv PROVE PlanIsHonoured
  <1> SUFFICES ASSUME phase = "done", opts.apply, promised # NoPlan, calm
               PROVE  promised = rows
    BY DEF PlanIsHonoured
  <1>1. Fit /\ Through
    BY DEF PlanInv, CalmInv, Kept
  <1>2. /\ \A g \in KcGroups : promised[1][g] = groupRes[g]
        /\ \A r \in Roles : promised[2][r] = roleRes[r]
        /\ \A u \in Users : promised[3][u] = userRes[u]
        /\ \A p \in Memberships : promised[4][p] = memRes[p]
        /\ \A p \in Assignments : promised[5][p] = asgRes[p]
    BY <1>1 DEF Through, AfterGroups, AfterRoles, AfterUsers, AfterMembers, AfterAll,
       Fit, RowsFit, GroupFits, RoleFits, UserFits, MemberFits, AssignmentFits, Fits
  <1>3. /\ promised = <<promised[1], promised[2], promised[3], promised[4], promised[5]>>
        /\ promised[1] \in [KcGroups -> Outcomes \cup {"none"}]
        /\ promised[2] \in [Roles -> Outcomes \cup {"none"}]
        /\ promised[3] \in [Users -> Outcomes \cup {"none"}]
        /\ promised[4] \in [Memberships -> Outcomes \cup {"none", "omitted"}]
        /\ promised[5] \in [Assignments -> Outcomes \cup {"none", "omitted"}]
    BY DEF PlanInv, PromisedType
  <1>4. promised[1] = groupRes /\ promised[2] = roleRes /\ promised[3] = userRes
    BY <1>2, <1>3 DEF TypeInv, TypeOK
  <1>5. promised[4] = memRes /\ promised[5] = asgRes
    BY <1>2, <1>3 DEF TypeInv, TypeOK
  <1> QED
    BY <1>3, <1>4, <1>5

\* "A dry run cannot promise a clean plan that --apply then contradicts"
\* (src/README.md:87): if every pass that the run needs is selected itself, and
\* nothing but the tool acts from the beginning of the dry run on, the applied run
\* that follows ends with the rows of the dry run, groups, roles, users, members
\* and assignments, also where only the run itself makes what collides
\* (migrate_roles with ok_groups, migrate_users with planned_emails).  A pass that
\* only supports another is why WholePlans is needed: the dry run of --only
\* memberships plans members of groups that the applied run then does not make.
THEOREM PlansAreHonoured ==
    ASSUME WholePlans PROVE PlanSpec => []PlanIsHonoured
  <1> DEFINE I == TypeInv /\ UserInv /\ MembersExist /\ PlanInv
  <1>1. PlanInit => I
    <2> SUFFICES ASSUME PlanInit PROVE I
      OBVIOUS
    <2>1. TypeInv /\ UserInv
      BY InitType, EmailsInit DEF PlanInit
    <2>2. MembersExist
      BY DEF PlanInit, Init, AkInit, MembersExist
    <2>3. PlanInv
      BY DEF PlanInit, Init, PlanInv, PromisedType, Through, CalmInv, AfterGroups, AfterRoles,
         AfterUsers, AfterMembers, AfterAll
    <2> QED
      BY <2>1, <2>2, <2>3
  <1>2. I /\ [PlanNext]_planVars => I'
    <2> SUFFICES ASSUME TypeInv, UserInv, MembersExist, PlanInv, [PlanNext]_planVars PROVE I'
      OBVIOUS
    <2>1. [Next]_vars
      BY DEF PlanNext, planVars
    <2>2. TypeInv' /\ UserInv' /\ MembersExist'
      BY <2>1, NextType, StepEmails, MembersStep
    <2>3. PlanInv'
      <3>1. CASE UNCHANGED planVars
        BY <3>1, PlanStutters
      <3>2. CASE PlanNext /\ Run
        BY <3>2, PlanStart DEF Run
      <3>3. CASE PlanNext /\ ~Run
        BY <2>2, <3>3, PlanQuiet DEF PlanNext, Next
      <3> QED
        BY <3>1, <3>2, <3>3
    <2> QED
      BY <2>2, <2>3
  <1>3. I => PlanIsHonoured
    BY PlanKept
  <1> QED
    BY <1>1, <1>2, <1>3, PTL DEF PlanSpec
=============================================================================
