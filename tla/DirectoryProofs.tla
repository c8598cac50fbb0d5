-------------------------- MODULE DirectoryProofs --------------------------
(***************************************************************************)
(* For every realm, every target and every number of faults: the types of  *)
(* Directory; that no Authentik group is taken for a Keycloak group and    *)
(* for a realm role, provided that roles are only ever selected with       *)
(* groups or memberships; that what no command line has selected under     *)
(* --apply is never written, not by passes that only support others        *)
(* either, and not by requests that arrive late; that a recovery mail goes *)
(* to an account that its own run made, once at most over all runs, and is *)
(* counted only when it was delivered; and that an address which two       *)
(* accounts will share is flagged.                                         *)
(***************************************************************************)
EXTENDS Directory, TLAPS, FiniteSetTheorems

\* A write is on its way in the passes that make them only, for an object of
\* that pass; a role is never written under the name of a migrated group.
CallOK ==
    call # NoCall =>
      \/ /\ phase = "groups"
         /\ call \in GroupWrites /\ call.kind = "group" /\ call.to \in Flat
      \/ /\ phase = "roles" /\ InScope("roles")
         /\ call \in GroupWrites /\ call.kind = "role" /\ call.to \in Roles
      \/ /\ phase = "users"
         /\ call \in UserWrites

TypeInv == TypeOK /\ CallOK

USE DEF akObjects, akVars, rows, known, mailLoop, history, runVars, vars

-----------------------------------------------------------------------------
\* Authentik.

LEMMA CommitType ==
    ASSUME AkTypeOK, NEW w \in Writes, Commit(w)
    PROVE  /\ akGroup' \in [Names -> {"absent", "other", "group", "role"}]
           /\ akMembers' \in [Names -> SUBSET Users]
           /\ akUser' \in [Users -> Accounts \cup {NoAccount}]
  <1>1. CASE w \in GroupWrites /\ akGroup' = [akGroup EXCEPT ![w.to] = w.kind]
             /\ UNCHANGED <<akMembers, akUser>>
    BY <1>1 DEF AkTypeOK, GroupWrites
  <1>2. CASE w \in UserWrites /\ UNCHANGED <<akGroup, akMembers>>
             /\ akUser' = [akUser EXCEPT ![w.to] =
                              [email |-> w.email, profile |-> "keycloak"]]
    BY <1>2 DEF AkTypeOK, UserWrites, Accounts
  <1>3. CASE w \in MemberWrites /\ UNCHANGED <<akGroup, akUser>>
             /\ akMembers' = [akMembers EXCEPT ![w.to[1]] = @ \cup {w.to[2]}]
    BY <1>3 DEF AkTypeOK, MemberWrites
  <1> QED
    BY <1>1, <1>2, <1>3 DEF Commit

LEMMA FaultType == ASSUME AkTypeOK, Fault PROVE faults' \in 0..MaxFaults
  BY BoundAssumption DEF AkTypeOK, Fault

LEMMA CallType ==
    ASSUME AkTypeOK, NEW w \in Writes, NEW answer, Call(w, answer)
    PROVE  AkTypeOK'
  <1>1. /\ akGroup' \in [Names -> {"absent", "other", "group", "role"}]
        /\ akMembers' \in [Names -> SUBSET Users]
        /\ akUser' \in [Users -> Accounts \cup {NoAccount}]
    <2>1. CASE Commit(w)
      BY <2>1, CommitType
    <2>2. CASE UNCHANGED akObjects
      BY <2>2 DEF AkTypeOK
    <2> QED
      BY <2>1, <2>2 DEF Call
  <1>2. late' \subseteq Writes /\ queued' \in [Users -> Nat]
        /\ foreign' \in 0..MaxForeign
    BY DEF Call, AkTypeOK
  <1>3. faults' \in 0..MaxFaults
    BY FaultType DEF Call, AkTypeOK
  <1> QED
    BY <1>1, <1>2, <1>3 DEF AkTypeOK

LEMMA LateType == ASSUME AkTypeOK, LateCommit PROVE AkTypeOK'
  <1>1. PICK w \in late :
          /\ late' = late \ {w}
          /\ IF Accepts(w) THEN Commit(w) ELSE UNCHANGED akObjects
          /\ UNCHANGED <<queued, faults, foreign>>
    BY DEF LateCommit
  <1>2. w \in Writes
    BY DEF AkTypeOK
  <1>3. /\ akGroup' \in [Names -> {"absent", "other", "group", "role"}]
        /\ akMembers' \in [Names -> SUBSET Users]
        /\ akUser' \in [Users -> Accounts \cup {NoAccount}]
    <2>1. CASE Commit(w)
      BY <1>2, <2>1, CommitType
    <2>2. CASE UNCHANGED akObjects
      BY <2>2 DEF AkTypeOK
    <2> QED
      BY <1>1, <2>1, <2>2
  <1> QED
    BY <1>1, <1>3 DEF AkTypeOK

LEMMA ForeignType == ASSUME AkTypeOK, Foreign PROVE AkTypeOK'
  <1>1. foreign' \in 0..MaxForeign /\ UNCHANGED <<queued, late, faults>>
    BY BoundAssumption DEF Foreign, AkTypeOK
  <1>2. CASE \E n \in Names :
               /\ akGroup[n] = "absent"
               /\ akGroup' = [akGroup EXCEPT ![n] = "other"]
               /\ UNCHANGED <<akMembers, akUser>>
    BY <1>1, <1>2 DEF AkTypeOK
  <1>3. CASE \E u \in Users, e \in Emails :
               /\ ~Exists(u)
               /\ akUser' = [akUser EXCEPT ![u] =
                                [email |-> e, profile |-> "other"]]
               /\ UNCHANGED <<akGroup, akMembers>>
    BY <1>1, <1>3 DEF AkTypeOK, Accounts
  <1>4. CASE \E n \in Names, u \in Users :
               /\ akGroup[n] # "absent" /\ Exists(u) /\ u \notin akMembers[n]
               /\ akMembers' = [akMembers EXCEPT ![n] = @ \cup {u}]
               /\ UNCHANGED <<akGroup, akUser>>
    BY <1>1, <1>4 DEF AkTypeOK
  <1> QED
    BY <1>2, <1>3, <1>4 DEF Foreign

LEMMA LookupFailsType == ASSUME AkTypeOK, LookupFails PROVE AkTypeOK'
  BY FaultType DEF LookupFails, AkTypeOK

-----------------------------------------------------------------------------
\* The type invariant.

LEMMA InitType == Init => TypeInv
  <1> SUFFICES ASSUME Init PROVE TypeInv
    OBVIOUS
  <1>1. AkTypeOK
    BY BoundAssumption DEF Init, AkInit, AkTypeOK
  <1>2. before \in [complete : BOOLEAN,
                    user : [Users -> Accounts \cup {NoAccount}]]
    BY <1>1 DEF Init, AkTypeOK
  <1>3. opts \in Options
    BY DEF Init, Options
  <1> QED
    BY <1>1, <1>2, <1>3 DEF Init, TypeInv, TypeOK, CallOK, IsSnapshot

LEMMA StartType ==
    ASSUME TypeInv, NEW o \in Invocations, Start(o) PROVE TypeInv'
  <1>1. AkTypeOK'
    BY DEF TypeInv, TypeOK, AkTypeOK, Start
  <1>2. before' \in [complete : BOOLEAN,
                     user : [Users -> Accounts \cup {NoAccount}]]
    BY DEF TypeInv, TypeOK, AkTypeOK, Start, Complete
  <1>3. opts' \in Options
    BY InvocationAssumption DEF Start
  <1>4. granted' \subseteq Kinds \cup {"update", "mail"}
    <2>1. o.scope \subseteq Kinds
      BY InvocationAssumption DEF Options
    <2> QED
      BY <2>1 DEF Start, TypeInv, TypeOK
  <1>5. via' \in [Names -> SUBSET {"group", "role"}]
    BY DEF Start, TypeInv, TypeOK
  <1> QED
    BY <1>1, <1>2, <1>3, <1>4, <1>5 DEF Start, TypeInv, TypeOK, CallOK, Phases,
                                             IsSnapshot

LEMMA PlanType ==
    ASSUME NEW k, NEW found
    PROVE  /\ Plan(k, found) \in Outcomes \cup {"none"}
           /\ Plan(k, found) = "none" => Applies(k)
  BY DEF Plan, Outcomes

LEMMA OutcomeType == ASSUME NEW answer PROVE Outcome(answer) \in Outcomes
  BY DEF Outcome, Outcomes

LEMMA RememberType ==
    ASSUME NEW S, NEW f, IsSnapshot(f, S), NEW n \in S, NEW us \in SUBSET Users
    PROVE  IsSnapshot(Remember(f, n, us), S)
  BY DEF Remember, IsSnapshot

LEMMA GroupType ==
    ASSUME TypeInv, NEW g \in KcGroups,
           GroupNested(g) \/ GroupLookupFails(g) \/ GroupLookup(g)
    PROVE  TypeInv'
  <1> USE DEF TypeInv, TypeOK, CallOK, At
  <1>1. CASE GroupNested(g)
    BY <1>1 DEF GroupNested, Outcomes, AkTypeOK, InScope
  <1>2. CASE GroupLookupFails(g)
    <2>1. AkTypeOK'
      BY <1>2, LookupFailsType DEF GroupLookupFails
    <2> QED
      BY <1>2, <2>1 DEF GroupLookupFails, Outcomes, InScope
  <1>3. CASE GroupLookup(g)
    <2> DEFINE found == akGroup[g] # "absent"
               w == [kind |-> "group", op |-> Op(found), to |-> g]
    <2>1. g \in Flat /\ g \in Names /\ phase = "groups" /\ call = NoCall
      BY <1>3, KeycloakAssumption DEF GroupLookup, Flat, IsNested
    <2>2. groupRes' \in [KcGroups -> Outcomes \cup {"none"}]
      BY <1>3, PlanType DEF GroupLookup
    <2>3. w \in GroupWrites
      BY <2>1 DEF GroupWrites, Op
    <2>4. call' \in Writes \cup {NoCall} /\ CallOK'
      BY <1>3, <2>1, <2>3 DEF GroupLookup, WriteIf, Writes
    <2>5. IsSnapshot(groupMembers', Flat)
      BY <1>3, <2>1, RememberType DEF GroupLookup, AkTypeOK
    <2>6. via' \in [Names -> SUBSET {"group", "role"}]
      BY <1>3, <2>1 DEF GroupLookup
    <2>7. AkTypeOK'
      BY <1>3 DEF GroupLookup, AkTypeOK
    <2> QED
      BY <1>3, <2>2, <2>4, <2>5, <2>6, <2>7 DEF GroupLookup
  <1> QED
    BY <1>1, <1>2, <1>3

LEMMA GroupWriteType == ASSUME TypeInv, GroupWrite PROVE TypeInv'
  <1> USE DEF TypeInv, TypeOK, CallOK
  <1> DEFINE g == call.to
  <1>1. call \in GroupWrites /\ call \in Writes /\ g \in Flat /\ g \in Names
    BY KeycloakAssumption DEF GroupWrite, Flat, Writes
  <1>2. PICK answer \in Answers :
          /\ Call(call, answer)
          /\ groupRes' = [groupRes EXCEPT ![g] = Outcome(answer)]
          /\ IF answer = "ok" /\ call.op = "create"
               THEN /\ groupMembers' = Remember(groupMembers, g, {})
                    /\ via' = [via EXCEPT ![g] = @ \cup {"group"}]
               ELSE UNCHANGED <<groupMembers, via>>
    BY DEF GroupWrite
  <1>3. AkTypeOK'
    BY <1>1, <1>2, CallType
  <1>4. groupRes' \in [KcGroups -> Outcomes \cup {"none"}]
    BY <1>2, OutcomeType
  <1>5. IsSnapshot(groupMembers', Flat)
    BY <1>1, <1>2, RememberType
  <1>6. via' \in [Names -> SUBSET {"group", "role"}]
    BY <1>1, <1>2
  <1> QED
    BY <1>3, <1>4, <1>5, <1>6 DEF GroupWrite

LEMMA RoleType ==
    ASSUME TypeInv, NEW r \in Roles,
           RoleConflict(r) \/ RoleLookupFails(r) \/ RoleLookup(r)
    PROVE  TypeInv'
  <1> USE DEF TypeInv, TypeOK, CallOK, At
  <1>1. CASE RoleConflict(r)
    BY <1>1 DEF RoleConflict, Outcomes, AkTypeOK, InScope
  <1>2. CASE RoleLookupFails(r)
    <2>1. AkTypeOK'
      BY <1>2, LookupFailsType DEF RoleLookupFails
    <2> QED
      BY <1>2, <2>1 DEF RoleLookupFails, Outcomes, InScope
  <1>3. CASE RoleLookup(r)
    <2> DEFINE found == akGroup[r] # "absent"
               w == [kind |-> "role", op |-> Op(found), to |-> r]
    <2>1. r \in Names /\ phase = "roles" /\ call = NoCall /\ InScope("roles")
      BY <1>3, KeycloakAssumption DEF RoleLookup, Roles, Needed
    <2>2. roleRes' \in [Roles -> Outcomes \cup {"none"}]
      BY <1>3, PlanType DEF RoleLookup
    <2>3. w \in GroupWrites
      BY <2>1 DEF GroupWrites, Op
    <2>4. call' \in Writes \cup {NoCall} /\ CallOK'
      BY <1>3, <2>1, <2>3 DEF RoleLookup, WriteIf, Writes, InScope
    <2>5. IsSnapshot(roleMembers', Roles)
      BY <1>3, <2>1, RememberType DEF RoleLookup, AkTypeOK
    <2>6. via' \in [Names -> SUBSET {"group", "role"}]
      BY <1>3, <2>1 DEF RoleLookup
    <2>7. AkTypeOK'
      BY <1>3 DEF RoleLookup, AkTypeOK
    <2> QED
      BY <1>3, <2>2, <2>4, <2>5, <2>6, <2>7 DEF RoleLookup
  <1> QED
    BY <1>1, <1>2, <1>3

LEMMA RoleWriteType == ASSUME TypeInv, RoleWrite PROVE TypeInv'
  <1> USE DEF TypeInv, TypeOK, CallOK
  <1> DEFINE r == call.to
  <1>1. call \in GroupWrites /\ call \in Writes /\ r \in Roles /\ r \in Names
    BY KeycloakAssumption DEF RoleWrite, Roles, Writes
  <1>2. PICK answer \in Answers :
          /\ Call(call, answer)
          /\ roleRes' = [roleRes EXCEPT ![r] = Outcome(answer)]
          /\ IF answer = "ok" /\ call.op = "create"
               THEN /\ roleMembers' = Remember(roleMembers, r, {})
                    /\ via' = [via EXCEPT ![r] = @ \cup {"role"}]
               ELSE UNCHANGED <<roleMembers, via>>
    BY DEF RoleWrite
  <1>3. AkTypeOK'
    BY <1>1, <1>2, CallType
  <1>4. roleRes' \in [Roles -> Outcomes \cup {"none"}]
    BY <1>2, OutcomeType
  <1>5. IsSnapshot(roleMembers', Roles)
    BY <1>1, <1>2, RememberType
  <1>6. via' \in [Names -> SUBSET {"group", "role"}]
    BY <1>1, <1>2
  <1> QED
    BY <1>3, <1>4, <1>5, <1>6 DEF RoleWrite

LEMMA UserType ==
    ASSUME TypeInv, NEW u \in Users,
           UserTaken(u) \/ UserLookupFails(u) \/ UserLookup(u)
    PROVE  TypeInv'
  <1> USE DEF TypeInv, TypeOK, CallOK, At
  <1>1. CASE UserTaken(u)
    BY <1>1 DEF UserTaken, Outcomes, AkTypeOK, InScope
  <1>2. CASE UserLookupFails(u)
    <2>1. AkTypeOK'
      BY <1>2, LookupFailsType DEF UserLookupFails
    <2> QED
      BY <1>2, <2>1 DEF UserLookupFails, Outcomes, InScope
  <1>3. CASE UserLookup(u)
    <2> DEFINE w == [kind |-> "user", op |-> Op(Exists(u)), to |-> u,
                     email |-> EmailOf[u]]
    <2>1. EmailOf[u] \in Emails /\ phase = "users" /\ call = NoCall
      BY <1>3, KeycloakAssumption DEF UserLookup
    <2>2. userRes' \in [Users -> Outcomes \cup {"none"}]
      BY <1>3, PlanType DEF UserLookup
    <2>3. w \in UserWrites
      BY <2>1 DEF UserWrites, Op
    <2>4. call' \in Writes \cup {NoCall} /\ CallOK'
      BY <1>3, <2>1, <2>3 DEF UserLookup, WriteIf, Writes
    <2>5. userPks' \subseteq Users /\ planned' \subseteq Emails
          /\ flagged' \subseteq Users
      BY <1>3, <2>1 DEF UserLookup
    <2>6. AkTypeOK'
      BY <1>3 DEF UserLookup, AkTypeOK
    <2> QED
      BY <1>3, <2>2, <2>4, <2>5, <2>6 DEF UserLookup
  <1> QED
    BY <1>1, <1>2, <1>3

LEMMA UserWriteType == ASSUME TypeInv, UserWrite PROVE TypeInv'
  <1> USE DEF TypeInv, TypeOK, CallOK
  <1>1. call \in UserWrites /\ call \in Writes /\ call.to \in Users
    BY DEF UserWrite, UserWrites, Writes
  <1>2. PICK answer \in Answers :
          /\ Call(call, answer)
          /\ userRes' = [userRes EXCEPT ![call.to] = Outcome(answer)]
          /\ userPks' = IF answer = "ok" THEN userPks \cup {call.to}
                        ELSE userPks
    BY DEF UserWrite
  <1>3. AkTypeOK'
    BY <1>1, <1>2, CallType
  <1>4. userRes' \in [Users -> Outcomes \cup {"none"}]
    BY <1>2, OutcomeType
  <1>5. userPks' \subseteq Users
    BY <1>1, <1>2
  <1> QED
    BY <1>3, <1>4, <1>5 DEF UserWrite

\* What a membership pass does to Authentik.
LEMMA LinkType ==
    ASSUME AkTypeOK, NEW p \in Names \X Users,
           \/ UNCHANGED akVars
           \/ \E answer \in Answers :
                Call([kind |-> "member", op |-> "add", to |-> p], answer)
    PROVE  AkTypeOK'
  <1> DEFINE w == [kind |-> "member", op |-> "add", to |-> p]
  <1>1. w \in Writes
    BY DEF Writes, MemberWrites
  <1>2. CASE UNCHANGED akVars
    BY <1>2 DEF AkTypeOK
  <1>3. CASE \E answer \in Answers : Call(w, answer)
    BY <1>1, <1>3, CallType
  <1> QED
    BY <1>2, <1>3

LEMMA LinkPlanType ==
    ASSUME NEW p, NEW members, NEW applies
    PROVE  LinkPlan(p, members, applies) \in Outcomes \cup {"none", "omitted"}
  BY DEF LinkPlan, Outcomes

LEMMA MemberType ==
    ASSUME TypeInv, NEW p \in Memberships, Member(p) PROVE TypeInv'
  <1> USE DEF TypeInv, TypeOK, CallOK, At
  <1> DEFINE plan == LinkPlan(p, groupMembers, opts.apply)
  <1>1. p \in Names \X Users
    BY KeycloakAssumption DEF Memberships, Flat
  <1>2. plan \in Outcomes \cup {"none", "omitted"}
    BY LinkPlanType
  <1>3. Link(memRes, p, plan)
    BY DEF Member
  <1>4. AkTypeOK'
    BY <1>1, <1>3, LinkType DEF Link
  <1>5. memRes' \in [Memberships -> Outcomes \cup {"none", "omitted"}]
    <2> HIDE DEF plan
    <2> QED
      BY <1>2, <1>3 DEF Link, Outcomes
  <1> QED
    BY <1>4, <1>5 DEF Member

LEMMA AssignType ==
    ASSUME TypeInv, NEW p \in Assignments, Assign(p) PROVE TypeInv'
  <1> USE DEF TypeInv, TypeOK, CallOK, At
  <1> DEFINE plan == IF p[2] \in resolved_usernames /\ p[1] \in role_conflicted
                       THEN "CONFLICT"
                       ELSE LinkPlan(p, roleMembers, Applies("roles"))
  <1>1. p \in Names \X Users
    BY KeycloakAssumption DEF Assignments, Roles
  <1>2. plan \in Outcomes \cup {"none", "omitted"}
    BY LinkPlanType DEF Outcomes
  <1>3. Link(asgRes, p, plan)
    BY DEF Assign
  <1>4. AkTypeOK'
    BY <1>1, <1>3, LinkType DEF Link
  <1>5. asgRes' \in [Assignments -> Outcomes \cup {"none", "omitted"}]
    <2> HIDE DEF plan
    <2> QED
      BY <1>2, <1>3 DEF Link, Outcomes
  <1> QED
    BY <1>4, <1>5 DEF Assign

LEMMA MailType == ASSUME TypeInv, NEW u \in Users, Mail(u) PROVE TypeInv'
  <1> USE DEF TypeInv, TypeOK, CallOK, At
  <1>1. PICK status \in {"204", "other"} :
          /\ sent' = sent + Counts(status)
          /\ \/ /\ queued' = [queued EXCEPT ![u] = @ + 1]
                /\ IF status = "204" THEN UNCHANGED faults ELSE Fault
             \/ /\ status = "other" /\ queued' = queued
                /\ Fault
    BY DEF Mail
  <1>2. sent' \in Nat
    BY <1>1 DEF Counts
  <1>3. faults' \in 0..MaxFaults
    BY <1>1, FaultType DEF AkTypeOK
  <1>4. queued' \in [Users -> Nat]
    BY <1>1 DEF AkTypeOK
  <1>5. AkTypeOK'
    BY <1>3, <1>4 DEF Mail, AkTypeOK
  <1> QED
    BY <1>2, <1>5 DEF Mail

LEMMA AdvanceType == ASSUME TypeInv, Advance PROVE TypeInv'
  BY DEF TypeInv, TypeOK, CallOK, AkTypeOK, Advance, After, Running, Phases

LEMMA InterruptType == ASSUME TypeInv, Interrupt PROVE TypeInv'
  <1> USE DEF TypeInv, TypeOK, CallOK
  <1>1. late' \subseteq Writes
    BY DEF Interrupt, AkTypeOK
  <1>2. AkTypeOK'
    BY <1>1, FaultType DEF Interrupt, AkTypeOK
  <1> QED
    BY <1>2 DEF Interrupt

LEMMA EnvironmentType == ASSUME TypeInv, Environment PROVE TypeInv'
  <1>1. AkTypeOK'
    BY LateType, ForeignType DEF TypeInv, TypeOK, Environment
  <1> QED
    BY <1>1 DEF TypeInv, TypeOK, CallOK, Environment, InScope

LEMMA NextType == ASSUME TypeInv, [Next]_vars PROVE TypeInv'
  <1>1. ASSUME NEW o \in Invocations, Start(o) PROVE TypeInv'
    BY <1>1, StartType
  <1>2. ASSUME Pass PROVE TypeInv'
    BY <1>2, GroupType, GroupWriteType, RoleType, RoleWriteType, UserType,
       UserWriteType, MemberType, AssignType, MailType, AdvanceType DEF Pass
  <1>3. CASE UNCHANGED vars
    BY <1>3 DEF TypeInv, TypeOK, CallOK, AkTypeOK, InScope
  <1> QED
    BY <1>1, <1>2, <1>3, InterruptType, EnvironmentType DEF Next, Run

\* Every variable stays in its domain, in every realm and on every target.
THEOREM TypeCorrect == Spec => []TypeOK
  <1>1. Init => TypeInv
    BY InitType
  <1>2. TypeInv /\ [Next]_vars => TypeInv'
    BY NextType
  <1>3. TypeInv => TypeOK
    BY DEF TypeInv
  <1> QED
    BY <1>1, <1>2, <1>3, PTL DEF Spec

-----------------------------------------------------------------------------
\* No group is taken for a role.

\* What the operator has to observe: roles are selected together with the
\* groups they could be confused with, or with memberships, for which the
\* groups pass runs as well.
RolesComeWithGroups ==
    \A o \in Invocations :
        "roles" \in o.scope => o.scope \cap {"groups", "memberships"} # {}

\* The names taken for groups are those of migrated groups, those taken for
\* roles are not; and that is so because the groups pass is through with all
\* its names when the roles pass consults ok_groups.
MergeInv ==
    /\ Running => opts \in Invocations
    /\ phase = "roles" /\ InScope("roles") => Flat \subseteq ok_groups
    /\ phase = "roles" /\ call # NoCall => call.to \notin Flat
    /\ \A n \in Names : /\ "group" \in via[n] => n \in Flat
                        /\ "role" \in via[n] => n \notin Flat

Inv == TypeInv /\ MergeInv

LEMMA MergeInit == Init => MergeInv
  BY DEF Init, MergeInv, Running, Phases

LEMMA MergeStart ==
    ASSUME Inv, NEW o \in Invocations, Start(o) PROVE MergeInv'
  BY DEF Inv, MergeInv, Start, Running

\* Actions that leave alone what MergeInv reads.
LEMMA MergeKeeps ==
    ASSUME Inv, UNCHANGED <<opts, phase, groupRes, via>>,
           call' = call \/ call' = NoCall
    PROVE  MergeInv'
  BY DEF Inv, MergeInv, Running, InScope, ok_groups

LEMMA MergeAdvance ==
    ASSUME RolesComeWithGroups, Inv, Advance PROVE MergeInv'
  <1> USE DEF Inv, MergeInv
  <1>1. Running' => opts' \in Invocations
    BY DEF Advance, Running
  <1>2. (phase = "roles" /\ InScope("roles") => Flat \subseteq ok_groups)'
    <2> SUFFICES ASSUME phase' = "roles", "roles" \in opts.scope
                 PROVE  Flat \subseteq ok_groups'
      BY DEF Advance, InScope
    <2>1. phase = "groups"
      BY DEF Advance, After, Running, Phases
    <2>2. opts \in Invocations
      BY DEF Advance
    <2>3. Needed("groups")
      BY <2>2, InvocationAssumption
      DEF RolesComeWithGroups, Needed, InScope, Options, Kinds
    <2>4. Pending(groupRes) = {}
      BY <2>1, <2>3 DEF Advance, Over
    <2>5. DOMAIN groupRes = KcGroups
      BY DEF TypeInv, TypeOK
    <2> QED
      BY <2>4, <2>5 DEF Pending, ok_groups, Flat, Advance
  <1> QED
    BY <1>1, <1>2 DEF Advance

LEMMA MergeGroup ==
    ASSUME Inv, NEW g \in KcGroups,
           GroupNested(g) \/ GroupLookupFails(g) \/ GroupLookup(g)
    PROVE  MergeInv'
  <1>1. phase = "groups" /\ phase' = "groups" /\ opts' = opts
    BY DEF GroupNested, GroupLookupFails, GroupLookup, At
  <1>2. \A n \in Names : /\ "group" \in via'[n] => n \in Flat
                         /\ "role" \in via'[n] => n \notin Flat
    <2>1. CASE UNCHANGED via
      BY <2>1 DEF Inv, MergeInv
    <2>2. CASE via' = [via EXCEPT ![g] = @ \cup {"group"}] /\ g \in Flat
      BY <2>2 DEF Inv, MergeInv, TypeInv, TypeOK
    <2> QED
      BY <2>1, <2>2 DEF GroupNested, GroupLookupFails, GroupLookup, IsNested,
                        Flat
  <1> QED
    BY <1>1, <1>2 DEF Inv, MergeInv, Running

LEMMA MergeGroupWrite == ASSUME Inv, GroupWrite PROVE MergeInv'
  <1>1. phase = "groups" /\ phase' = "groups" /\ opts' = opts
    BY DEF GroupWrite
  <1>2. call.to \in Flat
    BY DEF GroupWrite, Inv, TypeInv, CallOK
  <1>3. \A n \in Names : /\ "group" \in via'[n] => n \in Flat
                         /\ "role" \in via'[n] => n \notin Flat
    <2>1. CASE UNCHANGED via
      BY <2>1 DEF Inv, MergeInv
    <2>2. CASE via' = [via EXCEPT ![call.to] = @ \cup {"group"}]
      BY <1>2, <2>2 DEF Inv, MergeInv, TypeInv, TypeOK
    <2> QED
      BY <2>1, <2>2 DEF GroupWrite
  <1> QED
    BY <1>1, <1>3 DEF Inv, MergeInv, Running

\* The heart of it: a role that is looked up is not in ok_groups, and so it
\* has the name of no migrated group.
LEMMA MergeRoleLookup ==
    ASSUME Inv, NEW r \in Roles, RoleLookup(r) PROVE MergeInv'
  <1>1. /\ phase = "roles" /\ phase' = "roles" /\ opts' = opts
        /\ groupRes' = groupRes /\ InScope("roles")
    BY DEF RoleLookup, At, Needed
  <1>2. r \notin Flat
    BY <1>1 DEF RoleLookup, RoleRefused, Inv, MergeInv
  <1>3. call' # NoCall => call'.to = r
    BY DEF RoleLookup, WriteIf
  <1>4. \A n \in Names : /\ "group" \in via'[n] => n \in Flat
                         /\ "role" \in via'[n] => n \notin Flat
    <2>1. CASE UNCHANGED via
      BY <2>1 DEF Inv, MergeInv
    <2>2. CASE via' = [via EXCEPT ![r] = @ \cup {"role"}]
      BY <1>2, <2>2 DEF Inv, MergeInv, TypeInv, TypeOK
    <2> QED
      BY <2>1, <2>2 DEF RoleLookup
  <1> QED
    BY <1>1, <1>2, <1>3, <1>4 DEF Inv, MergeInv, Running, InScope, ok_groups

LEMMA MergeRoleWrite == ASSUME Inv, RoleWrite PROVE MergeInv'
  <1>1. /\ phase = "roles" /\ phase' = "roles" /\ opts' = opts
        /\ groupRes' = groupRes /\ call' = NoCall
    BY DEF RoleWrite
  <1>2. call.to \notin Flat
    BY DEF RoleWrite, Inv, MergeInv
  <1>3. \A n \in Names : /\ "group" \in via'[n] => n \in Flat
                         /\ "role" \in via'[n] => n \notin Flat
    <2>1. CASE UNCHANGED via
      BY <2>1 DEF Inv, MergeInv
    <2>2. CASE via' = [via EXCEPT ![call.to] = @ \cup {"role"}]
      BY <1>2, <2>2 DEF Inv, MergeInv, TypeInv, TypeOK
    <2> QED
      BY <2>1, <2>2 DEF RoleWrite
  <1> QED
    BY <1>1, <1>3 DEF Inv, MergeInv, Running, InScope, ok_groups

LEMMA MergePass ==
    ASSUME RolesComeWithGroups, Inv, Pass PROVE MergeInv'
  <1>1. ASSUME NEW r \in Roles, RoleConflict(r) \/ RoleLookupFails(r)
        PROVE  MergeInv'
    BY <1>1, MergeKeeps DEF RoleConflict, RoleLookupFails
  <1>2. ASSUME NEW u \in Users, UserTaken(u) \/ UserLookupFails(u)
        PROVE  MergeInv'
    BY <1>2, MergeKeeps DEF UserTaken, UserLookupFails
  <1>3. ASSUME NEW u \in Users, UserLookup(u) PROVE MergeInv'
    BY <1>3 DEF UserLookup, At, Inv, MergeInv, Running
  <1>4. CASE UserWrite
    BY <1>4, MergeKeeps DEF UserWrite
  <1>5. ASSUME NEW p \in Memberships, Member(p) PROVE MergeInv'
    BY <1>5, MergeKeeps DEF Member
  <1>6. ASSUME NEW p \in Assignments, Assign(p) PROVE MergeInv'
    BY <1>6, MergeKeeps DEF Assign
  <1>7. ASSUME NEW u \in Users, Mail(u) PROVE MergeInv'
    BY <1>7, MergeKeeps DEF Mail
  <1> QED
    BY <1>1, <1>2, <1>3, <1>4, <1>5, <1>6, <1>7, MergeGroup, MergeGroupWrite,
       MergeRoleLookup, MergeRoleWrite, MergeAdvance DEF Pass

LEMMA MergeNext ==
    ASSUME RolesComeWithGroups, Inv, [Next]_vars PROVE MergeInv'
  <1>1. ASSUME NEW o \in Invocations, Start(o) PROVE MergeInv'
    BY <1>1, MergeStart
  <1>2. CASE Interrupt
    BY <1>2 DEF Interrupt, Inv, MergeInv, Running, Phases
  <1>3. CASE Environment
    BY <1>3, MergeKeeps DEF Environment
  <1>4. CASE UNCHANGED vars
    BY <1>4, MergeKeeps
  <1> QED
    BY <1>1, <1>2, <1>3, <1>4, MergePass DEF Next, Run

\* If roles are only selected together with groups or memberships, then no
\* Authentik group is ever taken for a Keycloak group by one run and for a
\* realm role by the same or another one.
THEOREM NeverMerged ==
    ASSUME RolesComeWithGroups PROVE Spec => []NoGroupRoleMerge
  <1>1. Init => Inv
    BY InitType, MergeInit DEF Inv
  <1>2. Inv /\ [Next]_vars => Inv'
    BY NextType, MergeNext DEF Inv
  <1>3. Inv => NoGroupRoleMerge
    <2> SUFFICES ASSUME Inv, NEW n \in Names, via[n] = {"group", "role"}
                 PROVE  FALSE
      BY DEF NoGroupRoleMerge
    <2> QED
      BY DEF Inv, MergeInv
  <1> QED
    BY <1>1, <1>2, <1>3, PTL DEF Spec

-----------------------------------------------------------------------------
\* What was selected.

\* A request is one that a command line so far has selected.  It stays so,
\* however long it is under way.
Allowed(w) ==
    /\ w.op = "update" => "update" \in granted
    /\ w.kind = "group" => "groups" \in granted
    /\ w.kind = "role" => "roles" \in granted
    /\ w.kind = "user" => "users" \in granted
    /\ w.kind = "member" => granted \cap {"memberships", "roles"} # {}

\* The current command line is among those that count.
Granted ==
    /\ opts.apply => opts.scope \subseteq granted
    /\ opts.apply /\ opts.update => "update" \in granted
    /\ opts.mail => "mail" \in granted

GrantInv ==
    /\ Granted
    /\ call # NoCall => Allowed(call)
    /\ \A w \in late : Allowed(w)

-----------------------------------------------------------------------------
\* Authentik.

LEMMA CommitPermitted ==
    ASSUME AkTypeOK, NEW w \in Writes, Allowed(w), Accepts(w), Commit(w),
           queued' = queued
    PROVE  Permitted
  <1>1. CASE w \in GroupWrites /\ akGroup' = [akGroup EXCEPT ![w.to] = w.kind]
             /\ UNCHANGED <<akMembers, akUser>>
    <2>1. w.to \in Names /\ w.kind \in {"group", "role"} /\ w.op \in {"create", "update"}
      BY <1>1 DEF GroupWrites
    <2>2. akGroup[w.to] # "absent" => "update" \in granted
      BY <2>1 DEF Accepts, Allowed
    <2>3. \A n \in Names : akGroup'[n] = IF n = w.to THEN w.kind ELSE akGroup[n]
      BY <1>1 DEF AkTypeOK
    <2> QED
      BY <1>1, <2>1, <2>2, <2>3 DEF Permitted, Allowed
  <1>2. CASE w \in UserWrites /\ UNCHANGED <<akGroup, akMembers>>
             /\ akUser' = [akUser EXCEPT ![w.to] =
                              [email |-> w.email, profile |-> "keycloak"]]
    <2>1. w.to \in Users /\ w.kind = "user" /\ w.op \in {"create", "update"}
      BY <1>2 DEF UserWrites
    <2>2. Exists(w.to) => "update" \in granted
      BY <2>1 DEF Accepts, Allowed
    <2>3. \A u \in Users : u # w.to => akUser'[u] = akUser[u]
      BY <1>2 DEF AkTypeOK
    <2>4. "users" \in granted
      BY <2>1 DEF Allowed
    <2> QED
      BY <1>2, <2>2, <2>3, <2>4 DEF Permitted
  <1>3. CASE w \in MemberWrites /\ UNCHANGED <<akGroup, akUser>>
    <2>1. w.kind = "member"
      BY <1>3 DEF MemberWrites
    <2> QED
      BY <1>3, <2>1 DEF Permitted, Allowed
  <1> QED
    BY <1>1, <1>2, <1>3 DEF Commit

LEMMA NothingPermitted ==
    ASSUME UNCHANGED akObjects, queued' = queued PROVE Permitted
  BY DEF Permitted

\* A call makes what it was asked, and may leave it behind.
LEMMA CallPermitted ==
    ASSUME AkTypeOK, NEW w \in Writes, Allowed(w), NEW answer, Call(w, answer)
    PROVE  Permitted /\ late' \subseteq late \cup {w}
  <1>1. queued' = queued /\ late' \subseteq late \cup {w}
    BY DEF Call
  <1>2. CASE Accepts(w) /\ Commit(w)
    BY <1>1, <1>2, CommitPermitted
  <1>3. CASE UNCHANGED akObjects
    BY <1>1, <1>3, NothingPermitted
  <1> QED
    BY <1>1, <1>2, <1>3 DEF Call

LEMMA EnvironmentPermitted ==
    ASSUME TypeInv, GrantInv, Environment
    PROVE  Permitted /\ late' \subseteq late
  <1>1. CASE LateCommit
    <2>1. PICK w \in late :
            /\ late' = late \ {w}
            /\ IF Accepts(w) THEN Commit(w) ELSE UNCHANGED akObjects
            /\ UNCHANGED <<queued, faults, foreign>>
      BY <1>1 DEF LateCommit
    <2>2. w \in Writes /\ Allowed(w) /\ AkTypeOK
      BY DEF TypeInv, TypeOK, AkTypeOK, GrantInv
    <2> QED
      BY <2>1, <2>2, CommitPermitted, NothingPermitted
  <1>2. CASE Foreign
    <2>1. foreign' # foreign /\ UNCHANGED <<queued, late>>
      BY <1>2 DEF Foreign, TypeInv, TypeOK, AkTypeOK
    <2>2. \A n \in Names : akGroup'[n] \in {akGroup[n], "other"}
      BY <1>2 DEF Foreign, TypeInv, TypeOK, AkTypeOK
    <2>3. \A u \in Users : akUser'[u] = akUser[u] \/ akUser'[u].profile = "other"
      BY <1>2 DEF Foreign, TypeInv, TypeOK, AkTypeOK
    <2> QED
      BY <2>1, <2>2, <2>3 DEF Permitted
  <1> QED
    BY <1>1, <1>2 DEF Environment

-----------------------------------------------------------------------------
\* The run.

\* Steps of a run that go on under the same command line.
LEMMA GrantKeeps ==
    ASSUME GrantInv, UNCHANGED <<opts, granted>>,
           call' # NoCall => call' = call \/ Allowed(call'),
           \A w \in late' : w \in late \/ Allowed(w)
    PROVE  GrantInv'
  BY DEF GrantInv, Granted, Allowed

\* A pass writes only if it is selected under --apply, and modifies only with
\* --update-existing.
LEMMA PlanGrants ==
    ASSUME GrantInv, NEW k \in Kinds, NEW found \in BOOLEAN,
           Plan(k, found) = "none"
    PROVE  k \in granted /\ (found => "update" \in granted)
  <1>1. Applies(k) /\ (found => opts.update)
    BY DEF Plan
  <1> QED
    BY <1>1 DEF Applies, InScope, GrantInv, Granted

LEMMA StartGrants ==
    ASSUME GrantInv, NEW o \in Invocations, Start(o)
    PROVE  GrantInv' /\ Permitted
  <1>1. granted \subseteq granted' /\ late' = late /\ call' = NoCall /\ opts' = o
    BY DEF Start
  <1>2. Granted'
    BY DEF Start, Granted
  <1>3. \A w \in late' : Allowed(w)'
    BY <1>1 DEF GrantInv, Allowed
  <1>4. Permitted
    BY NothingPermitted DEF Start
  <1> QED
    BY <1>1, <1>2, <1>3, <1>4 DEF GrantInv

LEMMA GroupGrants ==
    ASSUME GrantInv, NEW g \in KcGroups,
           GroupNested(g) \/ GroupLookupFails(g) \/ GroupLookup(g)
    PROVE  GrantInv' /\ Permitted
  <1>1. UNCHANGED <<akObjects, queued, late, opts, granted>>
    BY DEF GroupNested, GroupLookupFails, LookupFails, GroupLookup
  <1>2. call' # NoCall => call' = call \/ Allowed(call')
    <2>1. CASE GroupLookup(g)
      <3> DEFINE found == akGroup[g] # "absent"
                 w == [kind |-> "group", op |-> Op(found), to |-> g]
      <3>1. call' = WriteIf(Plan("groups", found), w)
        BY <2>1 DEF GroupLookup
      <3>2. ASSUME Plan("groups", found) = "none" PROVE Allowed(w)
        <4>1. "groups" \in granted /\ (found => "update" \in granted)
          BY <3>2, PlanGrants DEF Kinds
        <4> QED
          BY <4>1 DEF Allowed, Op
      <3> QED
        BY <3>1, <3>2 DEF WriteIf
    <2>2. CASE GroupNested(g) \/ GroupLookupFails(g)
      BY <2>2 DEF GroupNested, GroupLookupFails
    <2> QED
      BY <2>1, <2>2
  <1> QED
    BY <1>1, <1>2, GrantKeeps, NothingPermitted

LEMMA RoleGrants ==
    ASSUME GrantInv, NEW r \in Roles,
           RoleConflict(r) \/ RoleLookupFails(r) \/ RoleLookup(r)
    PROVE  GrantInv' /\ Permitted
  <1>1. UNCHANGED <<akObjects, queued, late, opts, granted>>
    BY DEF RoleConflict, RoleLookupFails, LookupFails, RoleLookup
  <1>2. call' # NoCall => call' = call \/ Allowed(call')
    <2>1. CASE RoleLookup(r)
      <3> DEFINE found == akGroup[r] # "absent"
                 w == [kind |-> "role", op |-> Op(found), to |-> r]
      <3>1. call' = WriteIf(Plan("roles", found), w)
        BY <2>1 DEF RoleLookup
      <3>2. ASSUME Plan("roles", found) = "none" PROVE Allowed(w)
        <4>1. "roles" \in granted /\ (found => "update" \in granted)
          BY <3>2, PlanGrants DEF Kinds
        <4> QED
          BY <4>1 DEF Allowed, Op
      <3> QED
        BY <3>1, <3>2 DEF WriteIf
    <2>2. CASE RoleConflict(r) \/ RoleLookupFails(r)
      BY <2>2 DEF RoleConflict, RoleLookupFails
    <2> QED
      BY <2>1, <2>2
  <1> QED
    BY <1>1, <1>2, GrantKeeps, NothingPermitted

LEMMA UserGrants ==
    ASSUME GrantInv, NEW u \in Users,
           UserTaken(u) \/ UserLookupFails(u) \/ UserLookup(u)
    PROVE  GrantInv' /\ Permitted
  <1>1. UNCHANGED <<akObjects, queued, late, opts, granted>>
    BY DEF UserTaken, UserLookupFails, LookupFails, UserLookup
  <1>2. call' # NoCall => call' = call \/ Allowed(call')
    <2>1. CASE UserLookup(u)
      <3> DEFINE w == [kind |-> "user", op |-> Op(Exists(u)), to |-> u,
                       email |-> EmailOf[u]]
      <3>1. call' = WriteIf(Plan("users", Exists(u)), w)
        BY <2>1 DEF UserLookup
      <3>2. ASSUME Plan("users", Exists(u)) = "none" PROVE Allowed(w)
        <4>1. "users" \in granted /\ (Exists(u) => "update" \in granted)
          BY <3>2, PlanGrants DEF Kinds, Exists
        <4> QED
          BY <4>1 DEF Allowed, Op
      <3> QED
        BY <3>1, <3>2 DEF WriteIf
    <2>2. CASE UserTaken(u) \/ UserLookupFails(u)
      BY <2>2 DEF UserTaken, UserLookupFails
    <2> QED
      BY <2>1, <2>2
  <1> QED
    BY <1>1, <1>2, GrantKeeps, NothingPermitted

\* The write that follows from a lookup.
LEMMA WriteGrants ==
    ASSUME TypeInv, GrantInv, GroupWrite \/ RoleWrite \/ UserWrite
    PROVE  GrantInv' /\ Permitted
  <1>1. call # NoCall /\ call' = NoCall /\ UNCHANGED <<opts, granted>>
    BY DEF GroupWrite, RoleWrite, UserWrite
  <1>2. call \in Writes /\ Allowed(call) /\ AkTypeOK
    BY <1>1 DEF TypeInv, TypeOK, GrantInv
  <1>3. \E answer \in Answers : Call(call, answer)
    BY DEF GroupWrite, RoleWrite, UserWrite
  <1>4. Permitted /\ late' \subseteq late \cup {call}
    BY <1>2, <1>3, CallPermitted
  <1> QED
    BY <1>1, <1>2, <1>4, GrantKeeps

LEMMA LinkGrants ==
    ASSUME TypeInv, GrantInv, NEW p \in Names \X Users, NEW res, NEW plan,
           \/ UNCHANGED akVars
           \/ /\ granted \cap {"memberships", "roles"} # {}
              /\ \E answer \in Answers :
                    Call([kind |-> "member", op |-> "add", to |-> p], answer),
           UNCHANGED <<opts, granted, call>>
    PROVE  GrantInv' /\ Permitted
  <1> DEFINE w == [kind |-> "member", op |-> "add", to |-> p]
  <1>1. CASE UNCHANGED akVars
    BY <1>1, GrantKeeps, NothingPermitted
  <1>2. CASE /\ granted \cap {"memberships", "roles"} # {}
             /\ \E answer \in Answers : Call(w, answer)
    <2>1. w \in Writes /\ AkTypeOK
      BY DEF Writes, MemberWrites, TypeInv, TypeOK
    <2>2. Allowed(w)
      BY <1>2 DEF Allowed
    <2>3. Permitted /\ late' \subseteq late \cup {w}
      BY <1>2, <2>1, <2>2, CallPermitted
    <2> QED
      BY <2>2, <2>3, GrantKeeps
  <1> QED
    BY <1>1, <1>2

LEMMA MemberGrants ==
    ASSUME TypeInv, GrantInv, NEW p \in Memberships, Member(p)
    PROVE  GrantInv' /\ Permitted
  <1>1. p \in Names \X Users
    BY KeycloakAssumption DEF Memberships, Flat
  <1>2. "memberships" \in opts.scope
    BY DEF Member, At, Needed, InScope
  <1>3. LinkPlan(p, groupMembers, opts.apply) = "none" => "memberships" \in granted
    BY <1>2 DEF LinkPlan, GrantInv, Granted
  <1> QED
    BY <1>1, <1>3, LinkGrants DEF Member, Link

LEMMA AssignGrants ==
    ASSUME TypeInv, GrantInv, NEW p \in Assignments, Assign(p)
    PROVE  GrantInv' /\ Permitted
  <1> DEFINE conflict == p[2] \in resolved_usernames /\ p[1] \in role_conflicted
             plan == LinkPlan(p, roleMembers, Applies("roles"))
  <1>1. p \in Names \X Users
    BY KeycloakAssumption DEF Assignments, Roles
  <1>2. plan = "none" => "roles" \in granted
    BY DEF LinkPlan, Applies, InScope, GrantInv, Granted
  <1>3. Link(asgRes, p, IF conflict THEN "CONFLICT" ELSE plan)
    BY DEF Assign
  <1>4. \/ UNCHANGED akVars
        \/ /\ plan = "none"
           /\ \E answer \in Answers :
                 Call([kind |-> "member", op |-> "add", to |-> p], answer)
    <2> HIDE DEF plan, conflict
    <2> QED
      BY <1>3 DEF Link
  <1> QED
    BY <1>1, <1>2, <1>4, LinkGrants DEF Assign

LEMMA MailGrants ==
    ASSUME GrantInv, NEW u \in Users, Mail(u) PROVE GrantInv' /\ Permitted
  <1>1. UNCHANGED <<akObjects, late, foreign, opts, call, granted>>
    BY DEF Mail
  <1>2. "mail" \in granted
    BY DEF Mail, At, Needed, GrantInv, Granted
  <1>3. Permitted
    BY <1>1, <1>2 DEF Permitted
  <1> QED
    BY <1>1, <1>3, GrantKeeps

LEMMA GrantNext ==
    ASSUME TypeInv, GrantInv, [Next]_vars
    PROVE  GrantInv' /\ (Permitted \/ UNCHANGED vars)
  <1>1. ASSUME NEW o \in Invocations, Start(o) PROVE GrantInv' /\ Permitted
    BY <1>1, StartGrants
  <1>2. CASE Advance
    BY <1>2, GrantKeeps, NothingPermitted DEF Advance
  <1>3. CASE Pass
    BY <1>2, <1>3, GroupGrants, RoleGrants, UserGrants, WriteGrants, MemberGrants,
       AssignGrants, MailGrants DEF Pass
  <1>4. CASE Interrupt
    <2>1. call' = NoCall /\ UNCHANGED <<akObjects, queued, opts, granted>>
      BY <1>4 DEF Interrupt
    <2>2. \A w \in late' : w \in late \/ (call # NoCall /\ w = call)
      BY <1>4 DEF Interrupt
    <2> QED
      BY <2>1, <2>2, GrantKeeps, NothingPermitted DEF GrantInv
  <1>5. CASE Environment
    <2>1. UNCHANGED <<opts, call, granted>>
      BY <1>5 DEF Environment
    <2> QED
      BY <1>5, <2>1, EnvironmentPermitted, GrantKeeps
  <1>6. CASE UNCHANGED vars
    BY <1>6, GrantKeeps
  <1> QED
    BY <1>1, <1>3, <1>4, <1>5, <1>6 DEF Next, Run

\* Over any sequence of runs, in any realm: whatever the tool writes was
\* selected under --apply by the current command line or by an earlier one
\* whose request is late, and nothing is modified without --update-existing.
THEOREM WritesWereSelected == Spec => OnlySelectedIsWritten
  <1>1. Init => TypeInv /\ GrantInv
    <2>1. Init => GrantInv
      BY DEF Init, AkInit, GrantInv, Granted
    <2> QED
      BY <2>1, InitType
  <1>2. TypeInv /\ GrantInv /\ [Next]_vars => (TypeInv /\ GrantInv)'
    BY NextType, GrantNext
  <1>3. TypeInv /\ GrantInv /\ [Next]_vars => [Permitted]_vars
    BY GrantNext
  <1> QED
    BY <1>1, <1>2, <1>3, PTL DEF Spec, OnlySelectedIsWritten

-----------------------------------------------------------------------------
\* Recovery mail.

\* The account is as the tool makes it.
Mine(u) == akUser[u] = [email |-> EmailOf[u], profile |-> "keycloak"]

\* Accounts stay, and the tool's stay as they are.
Lasts == \A u \in Users : (Exists(u) => Exists(u)') /\ (Mine(u) => Mine(u)')

OwnEmail(w) == w.kind = "user" => w.email = EmailOf[w.to]

OwnEmails ==
    /\ call # NoCall => OwnEmail(call)
    /\ \A w \in late : OwnEmail(w)

\* What was there when the run began is there.
Lasting == \A u \in Users : before.user[u] # NoAccount => Exists(u)

\* While the run goes on, a pk that is known has its row, or is about to be
\* updated: it is not about to be created.
PksHaveRows ==
    Running =>
        \A u \in userPks :
            \/ userRes[u] # "none"
            \/ call # NoCall /\ call.kind = "user" /\ call.op = "update" /\ call.to = u

NewAccounts ==
    \A u \in userPks :
        userRes[u] = "CREATED" => before.user[u] = NoAccount /\ Mine(u)

\* Who was mailed, now or earlier, has an account, and is not new any more in
\* a later run.
Mailed ==
    /\ \A u \in asked : before.user[u] = NoAccount /\ Mine(u)
    /\ \A u \in Users :
          /\ queued[u] <= 1
          /\ queued[u] # 0 => Exists(u) /\ (u \in asked \/ before.user[u] # NoAccount)

Known == Lasting /\ NewAccounts /\ Mailed
MailInv == OwnEmails /\ PksHaveRows /\ Known

-----------------------------------------------------------------------------
\* Authentik.

LEMMA MineExists == \A u \in Users : Mine(u) => Exists(u)
  BY AccountAssumption, KeycloakAssumption DEF Mine, Exists, Accounts

LEMMA CommitLasts ==
    ASSUME AkTypeOK, NEW w \in Writes, OwnEmail(w), Commit(w) PROVE Lasts
  <1>1. CASE akUser' = akUser
    BY <1>1 DEF Lasts, Mine, Exists
  <1>2. CASE w \in UserWrites
             /\ akUser' = [akUser EXCEPT ![w.to] =
                              [email |-> w.email, profile |-> "keycloak"]]
    <2>1. w.to \in Users /\ w.email = EmailOf[w.to] /\ w.email \in Emails
      BY <1>2 DEF UserWrites, OwnEmail
    <2>2. akUser'[w.to] = [email |-> EmailOf[w.to], profile |-> "keycloak"]
          /\ akUser'[w.to] # NoAccount
      BY <1>2, <2>1, AccountAssumption DEF AkTypeOK, Accounts
    <2>3. \A u \in Users : u # w.to => akUser'[u] = akUser[u]
      BY <1>2, <2>1 DEF AkTypeOK
    <2> QED
      BY <2>2, <2>3 DEF Lasts, Mine, Exists
  <1> QED
    BY <1>1, <1>2 DEF Commit

LEMMA NothingLasts == ASSUME akUser' = akUser PROVE Lasts
  BY DEF Lasts, Mine, Exists

LEMMA CallLasts ==
    ASSUME AkTypeOK, NEW w \in Writes, OwnEmail(w), NEW answer, Call(w, answer)
    PROVE  Lasts /\ late' \subseteq late \cup {w} /\ queued' = queued
  <1>1. late' \subseteq late \cup {w} /\ queued' = queued
    BY DEF Call
  <1>2. Commit(w) \/ UNCHANGED akObjects
    BY DEF Call
  <1> QED
    BY <1>1, <1>2, CommitLasts, NothingLasts

LEMMA EnvironmentLasts ==
    ASSUME TypeInv, OwnEmails, Environment
    PROVE  Lasts /\ late' \subseteq late /\ queued' = queued
  <1>1. CASE LateCommit
    <2>1. PICK w \in late :
            /\ late' = late \ {w}
            /\ IF Accepts(w) THEN Commit(w) ELSE UNCHANGED akObjects
            /\ UNCHANGED <<queued, faults, foreign>>
      BY <1>1 DEF LateCommit
    <2>2. w \in Writes /\ OwnEmail(w) /\ AkTypeOK
      BY DEF TypeInv, TypeOK, AkTypeOK, OwnEmails
    <2>3. Commit(w) \/ UNCHANGED akObjects
      BY <2>1
    <2> QED
      BY <2>1, <2>2, <2>3, CommitLasts, NothingLasts
  <1>2. CASE Foreign
    <2>1. UNCHANGED <<queued, late>>
      BY <1>2 DEF Foreign
    <2>2. CASE akUser' = akUser
      BY <2>1, <2>2, NothingLasts
    <2>3. ASSUME NEW u \in Users, NEW e \in Emails, ~Exists(u),
                 akUser' = [akUser EXCEPT ![u] = [email |-> e, profile |-> "other"]]
          PROVE  Lasts
      <3>1. \A v \in Users : v # u => akUser'[v] = akUser[v]
        BY <2>3 DEF TypeInv, TypeOK, AkTypeOK
      <3> QED
        BY <2>3, <3>1, MineExists DEF Lasts, Mine, Exists
    <2> QED
      BY <1>2, <2>1, <2>2, <2>3 DEF Foreign
  <1> QED
    BY <1>1, <1>2 DEF Environment

-----------------------------------------------------------------------------
\* The run.

\* Steps that make no user row and send no mail.
LEMMA KnownKeeps ==
    ASSUME TypeInv, Known, Lasts, UNCHANGED <<before, userPks, userRes, asked, queued>>
    PROVE  Known'
  <1>1. userPks \subseteq Users /\ asked \subseteq Users
    BY DEF TypeInv, TypeOK
  <1>2. \A u \in Users : Mine(u) => Mine(u)'
    BY DEF Lasts
  <1>3. Lasting'
    BY DEF Known, Lasting, Lasts
  <1>4. NewAccounts'
    BY <1>1, <1>2 DEF Known, NewAccounts
  <1>5. Mailed'
    BY <1>1, <1>2 DEF Known, Mailed, Lasts
  <1> QED
    BY <1>3, <1>4, <1>5 DEF Known

LEMMA OwnKeeps ==
    ASSUME OwnEmails, \A w \in late' : w \in late \/ OwnEmail(w),
           call' # NoCall => call' = call \/ OwnEmail(call')
    PROVE  OwnEmails'
  BY DEF OwnEmails, OwnEmail

\* Lookups of groups and roles, and what the other loops do when no write of
\* a user is pending.
LEMMA OtherPass ==
    ASSUME TypeInv, MailInv, Lasts, UNCHANGED <<before, userPks, userRes, asked, queued>>,
           Running, call = NoCall \/ call.kind # "user",
           call' # NoCall => call' = call \/ OwnEmail(call'),
           \A w \in late' : w \in late \/ OwnEmail(w)
    PROVE  MailInv'
  <1>1. Known' /\ OwnEmails'
    BY KnownKeeps, OwnKeeps DEF MailInv
  <1>2. PksHaveRows'
    BY DEF MailInv, PksHaveRows
  <1> QED
    BY <1>1, <1>2 DEF MailInv

LEMMA GroupMail ==
    ASSUME TypeInv, MailInv, NEW g \in KcGroups,
           GroupNested(g) \/ GroupLookupFails(g) \/ GroupLookup(g)
    PROVE  MailInv'
  <1>1. /\ UNCHANGED <<akObjects, queued, late, before, userPks, userRes, asked>>
        /\ phase = "groups" /\ call = NoCall
    BY DEF GroupNested, GroupLookupFails, LookupFails, GroupLookup, At
  <1>2. call' # NoCall => OwnEmail(call')
    BY <1>1 DEF GroupNested, GroupLookupFails, GroupLookup, WriteIf, OwnEmail
  <1> QED
    BY <1>1, <1>2, NothingLasts, OtherPass DEF Running, Phases

LEMMA RoleMail ==
    ASSUME TypeInv, MailInv, NEW r \in Roles,
           RoleConflict(r) \/ RoleLookupFails(r) \/ RoleLookup(r)
    PROVE  MailInv'
  <1>1. /\ UNCHANGED <<akObjects, queued, late, before, userPks, userRes, asked>>
        /\ phase = "roles" /\ call = NoCall
    BY DEF RoleConflict, RoleLookupFails, LookupFails, RoleLookup, At
  <1>2. call' # NoCall => OwnEmail(call')
    BY <1>1 DEF RoleConflict, RoleLookupFails, RoleLookup, WriteIf, OwnEmail
  <1> QED
    BY <1>1, <1>2, NothingLasts, OtherPass DEF Running, Phases

LEMMA GroupRoleWriteMail ==
    ASSUME TypeInv, MailInv, GroupWrite \/ RoleWrite PROVE MailInv'
  <1>1. /\ UNCHANGED <<before, userPks, userRes, asked>> /\ call' = NoCall
        /\ call # NoCall /\ Running
    BY DEF GroupWrite, RoleWrite, Running, Phases
  <1>2. call \in Writes /\ call.kind # "user" /\ OwnEmail(call) /\ AkTypeOK
    BY <1>1 DEF GroupWrite, RoleWrite, TypeInv, TypeOK, CallOK, OwnEmail
  <1>3. \E answer \in Answers : Call(call, answer)
    BY DEF GroupWrite, RoleWrite
  <1>4. Lasts /\ late' \subseteq late \cup {call} /\ queued' = queued
    BY <1>2, <1>3, CallLasts
  <1> QED
    BY <1>1, <1>2, <1>4, OtherPass

LEMMA LinkMail ==
    ASSUME TypeInv, MailInv, NEW p \in Names \X Users, Running, call = NoCall,
           \/ UNCHANGED akVars
           \/ \E answer \in Answers :
                 Call([kind |-> "member", op |-> "add", to |-> p], answer),
           UNCHANGED <<before, userPks, userRes, asked, call>>
    PROVE  MailInv'
  <1> DEFINE w == [kind |-> "member", op |-> "add", to |-> p]
  <1>1. CASE UNCHANGED akVars
    BY <1>1, NothingLasts, OtherPass
  <1>2. CASE \E answer \in Answers : Call(w, answer)
    <2>1. w \in Writes /\ OwnEmail(w) /\ AkTypeOK
      BY DEF Writes, MemberWrites, OwnEmail, TypeInv, TypeOK
    <2>2. Lasts /\ late' \subseteq late \cup {w} /\ queued' = queued
      BY <1>2, <2>1, CallLasts
    <2> QED
      BY <2>1, <2>2, OtherPass
  <1> QED
    BY <1>1, <1>2

LEMMA MemberAssignMail ==
    ASSUME TypeInv, MailInv, NEW p,
           \/ p \in Memberships /\ Member(p)
           \/ p \in Assignments /\ Assign(p)
    PROVE  MailInv'
  <1>1. p \in Names \X Users
    BY KeycloakAssumption DEF Memberships, Flat, Assignments, Roles
  <1>2. /\ UNCHANGED <<before, userPks, userRes, asked, call>>
        /\ Running /\ call = NoCall
    BY DEF Member, Assign, At, Running, Phases
  <1>3. \/ UNCHANGED akVars
        \/ \E answer \in Answers :
              Call([kind |-> "member", op |-> "add", to |-> p], answer)
    BY DEF Member, Assign, Link
  <1> QED
    BY <1>1, <1>2, <1>3, LinkMail

\* A user that is found, or would be created, by a dry run or not.
LEMMA UserMail ==
    ASSUME TypeInv, MailInv, NEW u \in Users,
           UserTaken(u) \/ UserLookupFails(u) \/ UserLookup(u)
    PROVE  MailInv'
  <1>1. /\ UNCHANGED <<akObjects, queued, late, before, asked>>
        /\ phase' = phase /\ call = NoCall /\ userRes[u] = "none" /\ Running
    BY DEF UserTaken, UserLookupFails, LookupFails, UserLookup, At, Running, Phases
  <1>2. u \notin userPks
    BY <1>1 DEF MailInv, PksHaveRows
  <1>3. userRes \in [Users -> Outcomes \cup {"none"}] /\ userPks \subseteq Users
    BY DEF TypeInv, TypeOK
  <1>4. ASSUME UserTaken(u) \/ UserLookupFails(u) PROVE MailInv'
    <2>1. /\ userPks' = userPks /\ call' = call
          /\ \A v \in Users : v # u => userRes'[v] = userRes[v]
      BY <1>3, <1>4 DEF UserTaken, UserLookupFails
    <2>2. NewAccounts' /\ PksHaveRows'
      BY <1>1, <1>2, <1>3, <2>1 DEF MailInv, Known, NewAccounts, PksHaveRows, Mine
    <2>3. Lasting' /\ Mailed' /\ OwnEmails'
      BY <1>1, <2>1 DEF MailInv, Known, Lasting, Mailed, OwnEmails, OwnEmail, Mine, Exists
    <2> QED
      BY <2>2, <2>3 DEF MailInv, Known
  <1>5. ASSUME UserLookup(u) PROVE MailInv'
    <2> DEFINE plan == Plan("users", Exists(u))
               w == [kind |-> "user", op |-> Op(Exists(u)), to |-> u,
                     email |-> EmailOf[u]]
    <2>1. /\ userRes' = [userRes EXCEPT ![u] = plan]
          /\ call' = IF plan = "none" THEN w ELSE NoCall
          /\ userPks' = IF Exists(u) THEN userPks \cup {u} ELSE userPks
      BY <1>5 DEF UserLookup, WriteIf
    <2>2. /\ \A v \in Users : v # u => userRes'[v] = userRes[v]
          /\ userRes'[u] = plan
      BY <1>3, <2>1
    <2>3. Exists(u) => plan # "CREATED" /\ w.op = "update"
      BY DEF Plan, Op
    <2>4. OwnEmails'
      <3>1. call' # NoCall => OwnEmail(call')
        BY <2>1 DEF OwnEmail
      <3> QED
        BY <1>1, <3>1, OwnKeeps DEF MailInv
    <2>5. NewAccounts'
      <3> HIDE DEF plan
      <3> QED
        BY <1>1, <1>2, <1>3, <2>1, <2>2, <2>3 DEF MailInv, Known, NewAccounts, Mine
    <2>6. PksHaveRows'
      <3>1. ASSUME NEW v \in userPks', v # u PROVE userRes'[v] # "none"
        BY <1>1, <1>3, <2>1, <2>2, <3>1 DEF MailInv, PksHaveRows
      <3>2. ASSUME u \in userPks', userRes'[u] = "none"
            PROVE  call' # NoCall /\ call'.kind = "user" /\ call'.op = "update"
                   /\ call'.to = u
        <4>1. Exists(u) /\ plan = "none"
          BY <1>2, <2>1, <2>2, <3>2
        <4> QED
          BY <2>1, <2>3, <4>1 DEF NoCall
      <3> QED
        BY <3>1, <3>2 DEF PksHaveRows
    <2>7. Lasting' /\ Mailed'
      BY <1>1 DEF MailInv, Known, Lasting, Mailed, Mine, Exists
    <2> QED
      BY <2>4, <2>5, <2>6, <2>7 DEF MailInv, Known
  <1> QED
    BY <1>4, <1>5

\* The heart of it: a create that is answered ok was accepted, so that the
\* account was not there, and so it was not there when the run began.
LEMMA UserWriteMail == ASSUME TypeInv, MailInv, UserWrite PROVE MailInv'
  <1>1. /\ call # NoCall /\ call' = NoCall /\ phase' = phase
        /\ UNCHANGED <<before, asked>> /\ Running
    BY DEF UserWrite, Running, Phases
  <1>2. /\ call \in UserWrites /\ call \in Writes /\ call.to \in Users
        /\ call.kind = "user" /\ OwnEmail(call) /\ AkTypeOK
    BY <1>1 DEF UserWrite, TypeInv, TypeOK, CallOK, UserWrites, Writes, MailInv, OwnEmails
  <1>3. PICK answer \in Answers :
          /\ Call(call, answer)
          /\ userRes' = [userRes EXCEPT ![call.to] = Outcome(answer)]
          /\ userPks' = IF answer = "ok" THEN userPks \cup {call.to} ELSE userPks
    BY DEF UserWrite
  <1>4. Lasts /\ late' \subseteq late \cup {call} /\ queued' = queued
    BY <1>2, <1>3, CallLasts
  <1>5. userRes \in [Users -> Outcomes \cup {"none"}] /\ userPks \subseteq Users
        /\ asked \subseteq Users
    BY DEF TypeInv, TypeOK
  <1>6. /\ \A v \in Users : v # call.to => userRes'[v] = userRes[v]
        /\ userRes'[call.to] = Outcome(answer)
    BY <1>2, <1>3, <1>5
  <1>7. OwnEmails'
    BY <1>1, <1>2, <1>4, OwnKeeps DEF MailInv
  <1>8. PksHaveRows'
    <2>1. Outcome(answer) # "none"
      BY DEF Outcome
    <2>2. ASSUME NEW v \in userPks', v # call.to PROVE userRes'[v] # "none"
      BY <1>1, <1>3, <1>5, <1>6, <2>2 DEF MailInv, PksHaveRows
    <2> QED
      BY <1>6, <2>1, <2>2 DEF PksHaveRows
  <1>9. NewAccounts'
    <2>1. ASSUME NEW v \in userPks', v # call.to, userRes'[v] = "CREATED"
          PROVE  before'.user[v] = NoAccount /\ Mine(v)'
      <3>1. v \in userPks /\ v \in Users /\ userRes[v] = "CREATED"
        BY <1>3, <1>5, <1>6, <2>1
      <3>2. before.user[v] = NoAccount /\ Mine(v)
        BY <3>1 DEF MailInv, Known, NewAccounts
      <3> QED
        BY <1>1, <1>4, <3>1, <3>2 DEF Lasts
    <2>2. ASSUME NEW u \in Users, u = call.to, userRes'[u] = "CREATED"
          PROVE  before'.user[u] = NoAccount /\ Mine(u)'
      <3>1. answer = "ok" /\ call.op = "create"
        BY <1>6, <2>2 DEF Outcome, Answers
      <3>2. Accepts(call) /\ Commit(call)
        BY <1>3, <3>1 DEF Call
      <3>3. ~Exists(u)
        BY <1>2, <2>2, <3>1, <3>2 DEF Accepts
      <3>4. before.user[u] = NoAccount
        BY <2>2, <3>3 DEF MailInv, Known, Lasting
      <3>5. akUser' = [akUser EXCEPT ![u] = [email |-> call.email, profile |-> "keycloak"]]
        BY <1>2, <2>2, <3>2 DEF Commit, GroupWrites, MemberWrites
      <3>6. call.email = EmailOf[u]
        BY <1>2, <2>2 DEF OwnEmail
      <3>7. akUser'[u] = [email |-> EmailOf[u], profile |-> "keycloak"]
        BY <1>2, <2>2, <3>5, <3>6 DEF AkTypeOK
      <3> QED
        BY <1>1, <3>4, <3>7 DEF Mine
    <2>3. userPks' \subseteq Users
      BY <1>2, <1>3, <1>5
    <2> QED
      BY <2>1, <2>2, <2>3 DEF NewAccounts
  <1>10. Lasting' /\ Mailed'
    <2>1. \A v \in Users : Exists(v) => Exists(v)'
      BY <1>4 DEF Lasts
    <2>2. \A v \in Users : Mine(v) => Mine(v)'
      BY <1>4 DEF Lasts
    <2>3. Lasting'
      BY <1>1, <2>1 DEF MailInv, Known, Lasting
    <2>4. Mailed'
      BY <1>1, <1>4, <1>5, <2>1, <2>2 DEF MailInv, Known, Mailed
    <2> QED
      BY <2>3, <2>4
  <1> QED
    BY <1>7, <1>8, <1>9, <1>10 DEF MailInv, Known

LEMMA MailMail == ASSUME TypeInv, MailInv, NEW u \in Users, Mail(u) PROVE MailInv'
  <1>1. /\ UNCHANGED <<akObjects, late, call, before, userPks, userRes, phase>>
        /\ u \in Recipients /\ u \notin asked /\ asked' = asked \cup {u}
    BY DEF Mail
  <1>2. userRes[u] = "CREATED" /\ u \in userPks
    BY <1>1 DEF Recipients, Eligible
  <1>3. before.user[u] = NoAccount /\ Mine(u) /\ Exists(u)
    BY <1>2, MineExists DEF MailInv, Known, NewAccounts
  <1>4. queued[u] = 0 /\ queued \in [Users -> Nat]
    BY <1>1, <1>3 DEF MailInv, Known, Mailed, TypeInv, TypeOK, AkTypeOK
  <1>5. queued' = queued \/ queued' = [queued EXCEPT ![u] = @ + 1]
    BY DEF Mail
  <1>6. \A v \in Users : queued'[v] = queued[v] \/ (v = u /\ queued'[v] = 1)
    BY <1>4, <1>5
  <1>7. Mailed'
    <2>1. \A v \in asked' : before'.user[v] = NoAccount /\ Mine(v)'
      BY <1>1, <1>3 DEF MailInv, Known, Mailed, Mine
    <2>2. \A v \in Users :
             /\ queued'[v] <= 1
             /\ queued'[v] # 0 => Exists(v)' /\ (v \in asked' \/ before'.user[v] # NoAccount)
      BY <1>1, <1>3, <1>6 DEF MailInv, Known, Mailed, Exists
    <2> QED
      BY <2>1, <2>2 DEF Mailed
  <1>8. OwnEmails' /\ PksHaveRows' /\ Lasting' /\ NewAccounts'
    BY <1>1 DEF MailInv, Known, OwnEmails, OwnEmail, PksHaveRows, Running, Lasting,
                NewAccounts, Mine, Exists
  <1> QED
    BY <1>7, <1>8 DEF MailInv, Known

LEMMA StartMail ==
    ASSUME TypeInv, MailInv, NEW o \in Invocations, Start(o) PROVE MailInv'
  <1>1. /\ UNCHANGED akVars /\ call' = NoCall /\ userPks' = {} /\ asked' = {}
        /\ before'.user = akUser
    BY DEF Start
  <1>2. Lasting' /\ NewAccounts' /\ PksHaveRows'
    BY <1>1 DEF Lasting, NewAccounts, PksHaveRows, Exists
  <1>3. Mailed'
    BY <1>1 DEF MailInv, Known, Mailed, Exists
  <1>4. OwnEmails'
    BY <1>1 DEF MailInv, OwnEmails, OwnEmail
  <1> QED
    BY <1>2, <1>3, <1>4 DEF MailInv, Known

LEMMA MailNext == ASSUME TypeInv, MailInv, [Next]_vars PROVE MailInv'
  <1>1. ASSUME NEW o \in Invocations, Start(o) PROVE MailInv'
    BY <1>1, StartMail
  <1>2. CASE Advance
    <2>1. /\ UNCHANGED <<akObjects, queued, late, before, userPks, userRes, asked, call>>
          /\ Running /\ call = NoCall
      BY <1>2 DEF Advance
    <2> QED
      BY <2>1, NothingLasts, OtherPass
  <1>3. CASE Pass
    BY <1>2, <1>3, GroupMail, RoleMail, GroupRoleWriteMail, UserMail, UserWriteMail,
       MemberAssignMail, MailMail DEF Pass
  <1>4. CASE Interrupt
    <2>1. /\ UNCHANGED <<akObjects, queued, before, userPks, userRes, asked>>
          /\ call' = NoCall /\ phase' = "stopped"
      BY <1>4 DEF Interrupt
    <2>2. \A w \in late' : w \in late \/ OwnEmail(w)
      BY <1>4 DEF Interrupt, MailInv, OwnEmails
    <2>3. Known' /\ OwnEmails'
      BY <2>1, <2>2, NothingLasts, KnownKeeps, OwnKeeps DEF MailInv
    <2>4. PksHaveRows'
      BY <2>1 DEF PksHaveRows, Running, Phases
    <2> QED
      BY <2>3, <2>4 DEF MailInv
  <1>5. CASE Environment
    <2>1. UNCHANGED <<before, userPks, userRes, asked, call, phase>>
      BY <1>5 DEF Environment
    <2>2. Lasts /\ late' \subseteq late /\ queued' = queued
      BY <1>5, EnvironmentLasts DEF MailInv
    <2>3. Known' /\ OwnEmails'
      BY <2>1, <2>2, KnownKeeps, OwnKeeps DEF MailInv
    <2>4. PksHaveRows'
      BY <2>1 DEF MailInv, PksHaveRows, Running
    <2> QED
      BY <2>3, <2>4 DEF MailInv
  <1>6. CASE UNCHANGED vars
    <2>1. Known' /\ OwnEmails'
      BY <1>6, NothingLasts, KnownKeeps, OwnKeeps DEF MailInv
    <2>2. PksHaveRows'
      BY <1>6 DEF MailInv, PksHaveRows, Running
    <2> QED
      BY <2>1, <2>2 DEF MailInv
  <1> QED
    BY <1>1, <1>3, <1>4, <1>5, <1>6 DEF Next, Run

LEMMA MailInit == Init => MailInv
  BY DEF Init, AkInit, MailInv, Known, OwnEmails, PksHaveRows, Lasting, NewAccounts,
         Mailed, Exists

\* A recovery mail goes only to somebody whose account this very run made, and
\* to nobody twice, over any sequence of runs, faults and interruptions.
THEOREM MailsWereForNewAccounts == Spec => []MailsOnlyNewAccounts
  <1>1. Init => TypeInv /\ MailInv
    BY InitType, MailInit
  <1>2. TypeInv /\ MailInv /\ [Next]_vars => (TypeInv /\ MailInv)'
    BY NextType, MailNext
  <1>3. MailInv => MailsOnlyNewAccounts
    BY DEF MailInv, Known, Mailed, Mine, MailsOnlyNewAccounts
  <1> QED
    BY <1>1, <1>2, <1>3, PTL DEF Spec

-----------------------------------------------------------------------------
\* Accounts keep their email.

\* The account has the email that Keycloak says.
Theirs(u) == Exists(u) /\ akUser[u].email = EmailOf[u]

\* The write of a user sends that email, and an update found it there.
UserFound(w) ==
    w.kind = "user" => /\ w.email = EmailOf[w.to]
                       /\ w.op = "update" => Theirs(w.to)

UsersFound ==
    /\ call # NoCall => UserFound(call)
    /\ \A w \in late : UserFound(w)

EmailsLast ==
    \A u \in Users : Exists(u) => Exists(u)' /\ akUser'[u].email = akUser[u].email

\* The accounts of the start of the run are there, with their emails.
EmailsKept ==
    \A u \in Users :
        before.user[u] # NoAccount =>
            Exists(u) /\ akUser[u].email = before.user[u].email

UserInv == UsersFound /\ EmailsKept

LEMMA NothingChanges == ASSUME akUser' = akUser PROVE EmailsLast
  BY DEF EmailsLast, Exists

LEMMA CommitEmails ==
    ASSUME AkTypeOK, NEW w \in Writes, UserFound(w), Accepts(w), Commit(w)
    PROVE  EmailsLast
  <1>1. CASE akUser' = akUser
    BY <1>1, NothingChanges
  <1>2. ASSUME w \in UserWrites,
               akUser' = [akUser EXCEPT ![w.to] =
                              [email |-> w.email, profile |-> "keycloak"]]
        PROVE  EmailsLast
    <2>1. w.to \in Users /\ w.email = EmailOf[w.to] /\ w.email \in Emails
          /\ w.op \in {"create", "update"} /\ w.kind = "user"
      BY <1>2 DEF UserWrites, UserFound
    <2>2. \A u \in Users : u # w.to => akUser'[u] = akUser[u]
      BY <1>2, <2>1 DEF AkTypeOK
    <2>3. akUser'[w.to] = [email |-> EmailOf[w.to], profile |-> "keycloak"]
          /\ akUser'[w.to] # NoAccount
      BY <1>2, <2>1, AccountAssumption DEF AkTypeOK, Accounts
    <2>4. Exists(w.to) => akUser[w.to].email = EmailOf[w.to]
      BY <2>1 DEF Accepts, UserFound, Theirs
    <2> QED
      BY <2>1, <2>2, <2>3, <2>4 DEF EmailsLast, Exists
  <1> QED
    BY <1>1, <1>2 DEF Commit

LEMMA TheirsLast == ASSUME EmailsLast, NEW u \in Users, Theirs(u) PROVE Theirs(u)'
  BY DEF EmailsLast, Theirs, Exists

LEMMA FoundLasts ==
    ASSUME EmailsLast, NEW w \in Writes, UserFound(w) PROVE UserFound(w)'
  <1>1. CASE w.kind = "user"
    <2>1. w.to \in Users
      BY <1>1 DEF Writes, GroupWrites, UserWrites, MemberWrites
    <2> QED
      BY <1>1, <2>1, TheirsLast DEF UserFound
  <1> QED
    BY <1>1 DEF UserFound

LEMMA CallEmails ==
    ASSUME AkTypeOK, NEW w \in Writes, UserFound(w), NEW answer, Call(w, answer)
    PROVE  EmailsLast /\ late' \subseteq late \cup {w}
  <1>1. late' \subseteq late \cup {w}
    BY DEF Call
  <1>2. (Accepts(w) /\ Commit(w)) \/ akUser' = akUser
    BY DEF Call
  <1> QED
    BY <1>1, <1>2, CommitEmails, NothingChanges

LEMMA EnvironmentEmails ==
    ASSUME TypeInv, UsersFound, Environment PROVE EmailsLast /\ late' \subseteq late
  <1>1. CASE LateCommit
    <2>1. PICK w \in late :
            /\ late' = late \ {w}
            /\ IF Accepts(w) THEN Commit(w) ELSE UNCHANGED akObjects
      BY <1>1 DEF LateCommit
    <2>2. w \in Writes /\ UserFound(w) /\ AkTypeOK
      BY DEF TypeInv, TypeOK, AkTypeOK, UsersFound
    <2> QED
      BY <2>1, <2>2, CommitEmails, NothingChanges
  <1>2. CASE Foreign
    <2>1. late' = late
      BY <1>2 DEF Foreign
    <2>2. CASE akUser' = akUser
      BY <2>1, <2>2, NothingChanges
    <2>3. ASSUME NEW u \in Users, NEW e \in Emails, ~Exists(u),
                 akUser' = [akUser EXCEPT ![u] = [email |-> e, profile |-> "other"]]
          PROVE  EmailsLast
      BY <2>3 DEF TypeInv, TypeOK, AkTypeOK, EmailsLast, Exists
    <2> QED
      BY <1>2, <2>1, <2>2, <2>3 DEF Foreign
  <1> QED
    BY <1>1, <1>2 DEF Environment

\* A step whose requests are old ones, or not about users, or have found theirs.
LEMMA FoundKeeps ==
    ASSUME TypeInv, UsersFound, EmailsLast,
           \A w \in late' : w \in late \/ (call # NoCall /\ w = call) \/ w.kind # "user",
           call' # NoCall => \/ call' = call
                             \/ call'.kind # "user"
                             \/ \E w \in Writes : call' = w /\ UserFound(w)
    PROVE  UsersFound'
  <1>1. \A w \in late : w \in Writes /\ UserFound(w)
    BY DEF TypeInv, TypeOK, AkTypeOK, UsersFound
  <1>2. call # NoCall => call \in Writes /\ UserFound(call)
    BY DEF TypeInv, TypeOK, UsersFound
  <1>3. ASSUME NEW w, w.kind # "user" PROVE UserFound(w)'
    BY <1>3 DEF UserFound
  <1>4. \A w \in Writes : UserFound(w) => UserFound(w)'
    BY FoundLasts
  <1>5. \A w \in late' : UserFound(w)'
    <2> SUFFICES ASSUME NEW w \in late' PROVE UserFound(w)'
      OBVIOUS
    <2>1. (w \in Writes /\ UserFound(w)) \/ w.kind # "user"
      BY <1>1, <1>2
    <2> QED
      BY <1>3, <1>4, <2>1
  <1>6. ASSUME call' # NoCall PROVE UserFound(call)'
    <2>1. CASE call'.kind # "user"
      BY <2>1 DEF UserFound
    <2>2. CASE \E w \in Writes : call' = w /\ UserFound(w)
      <3>1. PICK w \in Writes : call' = w /\ UserFound(w)
        BY <2>2
      <3>2. UserFound(w)'
        BY <1>4, <3>1
      <3> QED
        BY <3>1, <3>2 DEF UserFound
    <2> QED
      BY <1>2, <1>6, <2>1, <2>2
  <1> QED
    BY <1>5, <1>6 DEF UsersFound

LEMMA EmailsKeep == ASSUME EmailsKept, EmailsLast, before' = before PROVE EmailsKept'
  BY DEF EmailsKept, EmailsLast

\* Steps that send nothing, write nothing, and look at no user.
LEMMA SilentEmails ==
    ASSUME TypeInv, UserInv, UNCHANGED <<akObjects, late, before>>,
           call' # NoCall => call' = call \/ call'.kind # "user"
    PROVE  UserInv' /\ EmailsLast
  BY NothingChanges, FoundKeeps, EmailsKeep DEF UserInv

LEMMA GroupEmails ==
    ASSUME TypeInv, UserInv, NEW g \in KcGroups,
           GroupNested(g) \/ GroupLookupFails(g) \/ GroupLookup(g)
    PROVE  UserInv' /\ EmailsLast
  BY SilentEmails DEF GroupNested, GroupLookupFails, LookupFails, GroupLookup, WriteIf

LEMMA RoleEmails ==
    ASSUME TypeInv, UserInv, NEW r \in Roles,
           RoleConflict(r) \/ RoleLookupFails(r) \/ RoleLookup(r)
    PROVE  UserInv' /\ EmailsLast
  BY SilentEmails DEF RoleConflict, RoleLookupFails, LookupFails, RoleLookup, WriteIf

LEMMA UserEmails ==
    ASSUME TypeInv, UserInv, NEW u \in Users,
           UserTaken(u) \/ UserLookupFails(u) \/ UserLookup(u)
    PROVE  UserInv' /\ EmailsLast
  <1>1. CASE UserTaken(u) \/ UserLookupFails(u)
    BY <1>1, SilentEmails DEF UserTaken, UserLookupFails, LookupFails
  <1>2. CASE UserLookup(u)
    <2> DEFINE w == [kind |-> "user", op |-> Op(Exists(u)), to |-> u, email |-> EmailOf[u]]
    <2>1. /\ UNCHANGED <<akVars, before>> /\ ~Taken(u)
          /\ call' # NoCall => call' = w
      BY <1>2 DEF UserLookup, WriteIf
    <2>2. w \in Writes
      BY KeycloakAssumption DEF Writes, UserWrites, Op
    <2>3. UserFound(w)
      BY <2>1 DEF UserFound, Op, Taken, Theirs
    <2>4. EmailsLast
      BY <2>1, NothingChanges
    <2> HIDE DEF w
    <2>5. UsersFound'
      BY <2>1, <2>2, <2>3, <2>4, FoundKeeps DEF UserInv
    <2> QED
      BY <2>1, <2>4, <2>5, EmailsKeep DEF UserInv
  <1> QED
    BY <1>1, <1>2

LEMMA WriteEmails ==
    ASSUME TypeInv, UserInv, GroupWrite \/ RoleWrite \/ UserWrite
    PROVE  UserInv' /\ EmailsLast
  <1>1. PICK answer : Call(call, answer)
    BY DEF GroupWrite, RoleWrite, UserWrite
  <1>2. call \in Writes /\ UserFound(call) /\ AkTypeOK /\ call' = NoCall /\ before' = before
        /\ call # NoCall
    BY DEF GroupWrite, RoleWrite, UserWrite, TypeInv, TypeOK, UserInv, UsersFound
  <1>3. EmailsLast /\ late' \subseteq late \cup {call}
    BY <1>1, <1>2, CallEmails
  <1> QED
    BY <1>2, <1>3, FoundKeeps, EmailsKeep DEF UserInv

TheLink(p) == [kind |-> "member", op |-> "add", to |-> p]

\* What Member and Assign do to Authentik.
LEMMA LinkIs ==
    ASSUME NEW p, \/ p \in Memberships /\ Member(p)
                  \/ p \in Assignments /\ Assign(p)
    PROVE  /\ TheLink(p) \in MemberWrites /\ TheLink(p) \in Writes
           /\ UNCHANGED akVars \/ \E answer \in Answers : Call(TheLink(p), answer)
           /\ UNCHANGED <<opts, phase, call, groupRes, roleRes, userRes, known,
                          planned, flagged, mailLoop, history>>
  BY KeycloakAssumption DEF Memberships, Flat, Assignments, Roles, Member, Assign, Link,
                            TheLink, Writes, MemberWrites

LEMMA LinkEmails ==
    ASSUME TypeInv, UserInv, NEW p, \/ p \in Memberships /\ Member(p)
                                    \/ p \in Assignments /\ Assign(p)
    PROVE  UserInv' /\ EmailsLast
  <1>1. /\ TheLink(p) \in Writes /\ call' = call /\ before' = before
        /\ UNCHANGED akVars \/ \E answer \in Answers : Call(TheLink(p), answer)
    BY LinkIs
  <1>2. TheLink(p).kind # "user" /\ UserFound(TheLink(p)) /\ AkTypeOK
    BY DEF TheLink, UserFound, TypeInv, TypeOK
  <1>3. EmailsLast /\ late' \subseteq late \cup {TheLink(p)}
    BY <1>1, <1>2, CallEmails, NothingChanges
  <1> QED
    BY <1>1, <1>2, <1>3, FoundKeeps, EmailsKeep DEF UserInv

LEMMA StepEmails == ASSUME TypeInv, UserInv, [Next]_vars PROVE UserInv' /\ EmailsLast
  <1>1. ASSUME NEW o \in Invocations, Start(o) PROVE UserInv' /\ EmailsLast
    <2>1. UNCHANGED <<akObjects, late>> /\ call' = NoCall /\ before'.user = akUser
      BY <1>1 DEF Start
    <2>2. EmailsLast /\ UsersFound'
      BY <2>1, NothingChanges, FoundKeeps DEF UserInv
    <2> QED
      BY <2>1, <2>2 DEF UserInv, EmailsKept, Exists
  <1>2. ASSUME NEW u \in Users, Mail(u) PROVE UserInv' /\ EmailsLast
    BY <1>2, SilentEmails DEF Mail
  <1>3. CASE Advance
    BY <1>3, SilentEmails DEF Advance
  <1>4. CASE Pass
    BY <1>2, <1>3, <1>4, GroupEmails, RoleEmails, UserEmails, WriteEmails, LinkEmails DEF Pass
  <1>5. CASE Interrupt
    <2>1. UNCHANGED <<akObjects, before>> /\ call' = NoCall
          /\ \A w \in late' : w \in late \/ (call # NoCall /\ w = call)
      BY <1>5 DEF Interrupt
    <2> QED
      BY <2>1, NothingChanges, FoundKeeps, EmailsKeep DEF UserInv
  <1>6. CASE Environment
    BY <1>6, EnvironmentEmails, FoundKeeps, EmailsKeep DEF UserInv, Environment
  <1>7. CASE UNCHANGED vars
    BY <1>7, SilentEmails
  <1> QED
    BY <1>1, <1>4, <1>5, <1>6, <1>7 DEF Next, Run

LEMMA EmailsInit == Init => UserInv
  BY DEF Init, AkInit, UserInv, UsersFound, EmailsKept

-----------------------------------------------------------------------------
\* No shared address is silent.

\* The user is new, or about to be.
MadeNew(u) ==
    \/ userRes[u] = "CREATED"
    \/ call # NoCall /\ call.kind = "user" /\ call.op = "create" /\ call.to = u

\* The email of a new user is in planned_emails, which the next user with that
\* email is compared with; and was compared itself with those of all accounts.
FlagInv ==
    \A u \in Users :
        MadeNew(u) /\ EmailOf[u] # NoEmail =>
            /\ EmailOf[u] \in planned
            /\ \A v \in Users : u # v /\ MadeNew(v) /\ EmailOf[u] = EmailOf[v]
                                    => u \in flagged \/ v \in flagged
            /\ \A v \in Users :
                  before.user[v] # NoAccount /\ before.user[v].email = EmailOf[u]
                      => u \in flagged

LEMMA FlagKeeps ==
    ASSUME FlagInv, UNCHANGED <<planned, flagged, before>>,
           \A u \in Users : MadeNew(u)' => MadeNew(u)
    PROVE  FlagInv'
  BY DEF FlagInv

\* A user is only looked up once the last write is answered.
LEMMA FlagLookup ==
    ASSUME TypeInv, EmailsKept, FlagInv, NEW u \in Users, UserLookup(u)
    PROVE  FlagInv'
  <1> DEFINE w == [kind |-> "user", op |-> Op(Exists(u)), to |-> u, email |-> EmailOf[u]]
  <1>1. /\ UNCHANGED <<akVars, before>> /\ call = NoCall /\ userRes[u] = "none"
        /\ userRes' = [userRes EXCEPT ![u] = Plan("users", Exists(u))]
        /\ call' # NoCall => call' = w
        /\ userRes \in [Users -> Outcomes \cup {"none"}]
    BY DEF UserLookup, At, WriteIf, TypeInv, TypeOK
  <1>2. \A v \in Users : v # u => userRes'[v] = userRes[v]
    BY <1>1
  <1>3. \A v \in Users : v # u => (MadeNew(v)' <=> MadeNew(v))
    BY <1>1, <1>2 DEF MadeNew
  <1>4. CASE Exists(u)
    <2>1. UNCHANGED <<planned, flagged>>
      BY <1>4 DEF UserLookup
    <2>2. userRes'[u] = Plan("users", Exists(u)) /\ w.op = "update"
      BY <1>1, <1>4 DEF Op
    <2>3. ~MadeNew(u)'
      BY <1>1, <1>4, <2>2 DEF MadeNew, Plan
    <2> QED
      BY <1>1, <1>3, <2>1, <2>3, FlagKeeps
  <1>5. CASE ~Exists(u)
    <2>1. /\ planned' = planned \cup ({EmailOf[u]} \ {NoEmail})
          /\ flagged' = IF DuplicateEmail(u) THEN flagged \cup {u} ELSE flagged
      BY <1>5 DEF UserLookup
    <2>2. ASSUME EmailOf[u] # NoEmail, NEW v \in Users,
                 before.user[v] # NoAccount, before.user[v].email = EmailOf[u]
          PROVE  u \in flagged'
      <3>1. Exists(v) /\ akUser[v].email = EmailOf[u]
        BY <2>2 DEF EmailsKept
      <3> QED
        BY <2>1, <2>2, <3>1 DEF DuplicateEmail
    <2>3. ASSUME EmailOf[u] # NoEmail, NEW v \in Users, v # u, MadeNew(v),
                 EmailOf[v] = EmailOf[u]
          PROVE  u \in flagged'
      BY <2>1, <2>3 DEF FlagInv, DuplicateEmail
    <2>4. flagged \subseteq flagged' /\ planned \subseteq planned'
          /\ (EmailOf[u] # NoEmail => EmailOf[u] \in planned')
      BY <2>1
    <2>5. ASSUME NEW v \in Users, MadeNew(v)', EmailOf[v] # NoEmail
          PROVE  /\ EmailOf[v] \in planned'
                 /\ \A x \in Users : v # x /\ MadeNew(x)' /\ EmailOf[v] = EmailOf[x]
                                         => v \in flagged' \/ x \in flagged'
                 /\ \A x \in Users :
                       before'.user[x] # NoAccount /\ before'.user[x].email = EmailOf[v]
                           => v \in flagged'
      <3>1. CASE v = u
        BY <1>1, <1>3, <2>2, <2>3, <2>4, <2>5, <3>1
      <3>2. CASE v # u
        BY <1>1, <1>3, <2>3, <2>4, <2>5, <3>2 DEF FlagInv
      <3> QED
        BY <3>1, <3>2
    <2> QED
      BY <2>5 DEF FlagInv
  <1> QED
    BY <1>4, <1>5

LEMMA FlagWrite == ASSUME TypeInv, FlagInv, UserWrite PROVE FlagInv'
  <1>1. PICK answer \in Answers : userRes' = [userRes EXCEPT ![call.to] = Outcome(answer)]
    BY DEF UserWrite
  <1>2. /\ call # NoCall /\ call \in UserWrites /\ call' = NoCall
        /\ UNCHANGED <<planned, flagged, before>>
        /\ userRes \in [Users -> Outcomes \cup {"none"}]
    BY DEF UserWrite, TypeInv, TypeOK, CallOK
  <1>3. ASSUME NEW u \in Users, MadeNew(u)' PROVE MadeNew(u)
    <2>1. userRes'[u] = "CREATED"
      BY <1>2, <1>3 DEF MadeNew
    <2>2. CASE u # call.to
      BY <1>1, <1>2, <2>1, <2>2 DEF MadeNew
    <2>3. CASE u = call.to
      <3>1. Outcome(answer) = "CREATED"
        BY <1>1, <1>2, <2>1, <2>3
      <3>2. call.op = "create" /\ call.kind = "user"
        BY <1>2, <3>1 DEF Outcome, UserWrites
      <3> QED
        BY <1>2, <2>3, <3>2 DEF MadeNew
    <2> QED
      BY <2>2, <2>3
  <1> QED
    BY <1>2, <1>3, FlagKeeps

LEMMA FlagNext == ASSUME TypeInv, UserInv, FlagInv, [Next]_vars PROVE FlagInv'
  <1>1. ASSUME NEW o \in Invocations, Start(o) PROVE FlagInv'
    <2>1. \A u \in Users : ~MadeNew(u)'
      BY <1>1 DEF Start, MadeNew
    <2> QED
      BY <2>1 DEF FlagInv
  <1>2. ASSUME UNCHANGED <<userRes, planned, flagged, before>>,
               call' # NoCall => call' = call \/ call'.kind # "user"
        PROVE  FlagInv'
    BY <1>2, FlagKeeps DEF MadeNew
  <1>3. ASSUME NEW g \in KcGroups, GroupNested(g) \/ GroupLookupFails(g) \/ GroupLookup(g)
        PROVE  FlagInv'
    BY <1>2, <1>3 DEF GroupNested, GroupLookupFails, GroupLookup, WriteIf
  <1>4. ASSUME NEW r \in Roles, RoleConflict(r) \/ RoleLookupFails(r) \/ RoleLookup(r)
        PROVE  FlagInv'
    BY <1>2, <1>4 DEF RoleConflict, RoleLookupFails, RoleLookup, WriteIf
  <1>5. CASE GroupWrite \/ RoleWrite
    BY <1>2, <1>5 DEF GroupWrite, RoleWrite
  <1>6. ASSUME NEW u \in Users, UserTaken(u) \/ UserLookupFails(u) PROVE FlagInv'
    <2>1. \A v \in Users : MadeNew(v)' => MadeNew(v)
      BY <1>6 DEF UserTaken, UserLookupFails, MadeNew, TypeInv, TypeOK
    <2> QED
      BY <1>6, <2>1, FlagKeeps DEF UserTaken, UserLookupFails
  <1>7. ASSUME NEW p, \/ p \in Memberships /\ Member(p)
                      \/ p \in Assignments /\ Assign(p)
        PROVE  FlagInv'
    BY <1>2, <1>7 DEF Member, Assign
  <1>8. ASSUME NEW u \in Users, Mail(u) PROVE FlagInv'
    BY <1>2, <1>8 DEF Mail
  <1>9. CASE Advance \/ Interrupt \/ Environment \/ UNCHANGED vars
    BY <1>2, <1>9 DEF Advance, Interrupt, Environment
  <1>10. ASSUME NEW u \in Users, UserLookup(u) PROVE FlagInv'
    BY <1>10, FlagLookup DEF UserInv
  <1> QED
    BY <1>1, <1>3, <1>4, <1>5, <1>6, <1>7, <1>8, <1>9, <1>10, FlagWrite DEF Next, Run, Pass

\* An address that two accounts will share is never silent, whatever the order
\* of the users, with lookups that fail and accounts made by hand in between
\* (migrator.py, is_duplicate and planned_emails).
THEOREM SharedEmailsAreFlagged == Spec => []DuplicateEmailFlagged
  <1>1. Init => TypeInv /\ UserInv /\ FlagInv
    BY InitType, EmailsInit DEF Init, FlagInv, MadeNew
  <1>2. TypeInv /\ UserInv /\ FlagInv /\ [Next]_vars => (TypeInv /\ UserInv /\ FlagInv)'
    BY NextType, StepEmails, FlagNext
  <1>3. FlagInv => DuplicateEmailFlagged
    <2> SUFFICES ASSUME FlagInv PROVE DuplicateEmailFlagged
      OBVIOUS
    <2>1. \A u \in Users : userRes[u] = "CREATED" => MadeNew(u)
      BY DEF MadeNew
    <2> QED
      BY <2>1 DEF FlagInv, DuplicateEmailFlagged
  <1> QED
    BY <1>1, <1>2, <1>3, PTL DEF Spec

-----------------------------------------------------------------------------
\* The mails that are counted are those that were queued, but for faults.

Queued == {u \in asked : queued[u] = 1}

CountInv ==
    IsFiniteSet(asked) /\ sent <= Cardinality(Queued) /\ Cardinality(Queued) <= sent + faults

\* Who is asked for had no mail queued in any earlier run, so that a queued mail
\* makes it one; the counter is raised only with a queued mail, and if it is
\* not raised with one, faults is.
LEMMA CountMail ==
    ASSUME TypeInv, MailInv, CountInv, NEW u \in Users, Mail(u) PROVE CountInv'
  <1>1. u \in Recipients /\ u \notin asked /\ asked' = asked \cup {u}
    BY DEF Mail
  <1>2. before.user[u] = NoAccount /\ queued[u] = 0
    BY <1>1 DEF Recipients, Eligible, MailInv, Known, NewAccounts, Mailed
  <1>3. queued \in [Users -> Nat] /\ asked \subseteq Users /\ sent \in Nat /\ faults \in Nat
    BY DEF TypeInv, TypeOK, AkTypeOK
  <1>4. PICK status \in {"204", "other"} :
          /\ sent' = sent + Counts(status)
          /\ queued' = [queued EXCEPT ![u] = @ + 1] \/ (queued' = queued /\ status = "other")
          /\ faults' = IF status = "204" THEN faults ELSE faults + 1
    BY DEF Mail, Fault
  <1>5. IsFiniteSet(asked') /\ IsFiniteSet(Queued) /\ u \notin Queued
    BY <1>1, FS_AddElement, FS_Subset DEF CountInv, Queued
  <1>6. \A v \in asked : queued'[v] = queued[v]
    BY <1>1, <1>3, <1>4
  <1>7. CASE queued' = [queued EXCEPT ![u] = @ + 1]
    <2>1. queued'[u] = 1
      BY <1>2, <1>3, <1>7
    <2>2. Queued' = Queued \cup {u}
      BY <1>1, <1>6, <2>1 DEF Queued
    <2>3. Cardinality(Queued') = Cardinality(Queued) + 1 /\ Cardinality(Queued) \in Nat
      BY <1>5, <2>2, FS_AddElement, FS_CardinalityType
    <2>4. sent' <= sent + 1 /\ sent' \in Nat /\ sent' + faults' = sent + faults + 1
      BY <1>3, <1>4 DEF Counts
    <2> QED
      BY <1>3, <1>5, <2>3, <2>4 DEF CountInv
  <1>8. CASE queued' = queued /\ status = "other"
    <2>1. queued'[u] = 0
      BY <1>2, <1>8
    <2>2. Queued' = Queued
      BY <1>1, <1>6, <2>1 DEF Queued
    <2>3. sent' = sent /\ faults' = faults + 1
      BY <1>3, <1>4, <1>8 DEF Counts
    <2>4. Cardinality(Queued) \in Nat
      BY <1>5, FS_CardinalityType
    <2> QED
      BY <1>3, <1>5, <2>2, <2>3, <2>4 DEF CountInv
  <1> QED
    BY <1>4, <1>7, <1>8

LEMMA CountNext == ASSUME TypeInv, MailInv, CountInv, [Next]_vars PROVE CountInv'
  <1>1. ASSUME UNCHANGED <<asked, sent, queued>>, faults' = faults \/ Fault PROVE CountInv'
    <2>1. faults \in Nat /\ sent \in Nat /\ faults' \in {faults, faults + 1}
      BY <1>1 DEF TypeInv, TypeOK, AkTypeOK, Fault
    <2>2. Queued' = Queued /\ IsFiniteSet(Queued)
      BY <1>1, FS_Subset DEF CountInv, Queued
    <2>3. Cardinality(Queued) \in Nat
      BY <2>2, FS_CardinalityType
    <2> QED
      BY <1>1, <2>1, <2>2, <2>3 DEF CountInv
  <1>2. ASSUME NEW w, NEW answer, Call(w, answer)
        PROVE  queued' = queued /\ (faults' = faults \/ Fault)
    BY <1>2 DEF Call
  <1>3. ASSUME NEW o \in Invocations, Start(o) PROVE CountInv'
    <2>1. asked' = {} /\ Queued' = {} /\ sent' = 0 /\ faults' = faults /\ faults \in Nat
      BY <1>3 DEF Start, Queued, TypeInv, TypeOK, AkTypeOK
    <2> QED
      BY <2>1, FS_EmptySet DEF CountInv
  <1>4. ASSUME NEW g \in KcGroups, GroupNested(g) \/ GroupLookupFails(g) \/ GroupLookup(g)
        PROVE  CountInv'
    BY <1>1, <1>4 DEF GroupNested, GroupLookupFails, LookupFails, GroupLookup
  <1>5. ASSUME NEW r \in Roles, RoleConflict(r) \/ RoleLookupFails(r) \/ RoleLookup(r)
        PROVE  CountInv'
    BY <1>1, <1>5 DEF RoleConflict, RoleLookupFails, LookupFails, RoleLookup
  <1>6. ASSUME NEW u \in Users, UserTaken(u) \/ UserLookupFails(u) \/ UserLookup(u)
        PROVE  CountInv'
    BY <1>1, <1>6 DEF UserTaken, UserLookupFails, LookupFails, UserLookup
  <1>7. CASE GroupWrite \/ RoleWrite \/ UserWrite
    BY <1>1, <1>2, <1>7 DEF GroupWrite, RoleWrite, UserWrite
  <1>8. ASSUME NEW p, \/ p \in Memberships /\ Member(p)
                      \/ p \in Assignments /\ Assign(p)
        PROVE  CountInv'
    BY <1>1, <1>2, <1>8, LinkIs
  <1>9. CASE Advance \/ Interrupt \/ UNCHANGED vars
    BY <1>1, <1>9 DEF Advance, Interrupt
  <1>10. CASE Environment
    <2>1. faults' = faults
      BY <1>10 DEF Environment, Foreign, LateCommit
    <2> QED
      BY <1>1, <1>10, <2>1, EnvironmentLasts DEF Environment, MailInv, runVars, mailLoop
  <1> QED
    BY <1>3, <1>4, <1>5, <1>6, <1>7, <1>8, <1>9, <1>10, CountMail DEF Next, Run, Pass

\* The mails that the report counts are those that Authentik has queued for
\* users of this run, but for at most one of each failed call, with calls that
\* fail after their execution and runs that are repeated (cli.py, the send
\* loop).
THEOREM CountedMailsWereQueued == Spec => []SentWasQueued
  <1>1. Init => TypeInv /\ MailInv /\ CountInv
    <2>1. Init => Queued = {} /\ asked = {} /\ sent = 0 /\ faults = 0
      BY DEF Init, AkInit, Queued
    <2> QED
      BY <2>1, InitType, MailInit, FS_EmptySet DEF CountInv
  <1>2. TypeInv /\ MailInv /\ CountInv /\ [Next]_vars => (TypeInv /\ MailInv /\ CountInv)'
    BY NextType, MailNext, CountNext
  <1>3. CountInv => SentWasQueued
    BY DEF CountInv, Queued, SentWasQueued
  <1> QED
    BY <1>1, <1>2, <1>3, PTL DEF Spec
=============================================================================
