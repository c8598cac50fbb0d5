----------------------------- MODULE Authentik -----------------------------
(***************************************************************************)
(* The directory half of the target: Authentik's users, groups and group   *)
(* members, as authentik_client.py uses them.  Group.name and              *)
(* User.username are unique, so an object is named by its natural key and  *)
(* its pk is left out.  A user's email is not unique.                      *)
(*                                                                         *)
(* A write is a request, not an effect: HttpRetry shows that a call that   *)
(* failed may have been executed, or be executed later.  Such requests are *)
(* kept in late and may be committed at any time, or never.                *)
(***************************************************************************)
EXTENDS Naturals

CONSTANTS
    Names,          \* names of groups and of realm roles
    Users,          \* usernames
    Emails,         \* the addresses that occur, with NoEmail
    NoEmail,        \* the empty string
    NoAccount,      \* akUser of a username that Authentik does not have
    MaxFaults,      \* bound: failed calls, failed lookups and interruptions
    MaxForeign      \* bound: objects that administrators make by hand

ASSUME EmailAssumption == NoEmail \in Emails
ASSUME BoundAssumption == MaxFaults \in Nat /\ MaxForeign \in Nat

VARIABLES
    akGroup,        \* per name: absent, other (made by hand), or what the
                    \* attributes written by the tool say: group or role
    akMembers,      \* per name: the users field of the group
    akUser,         \* per username: NoAccount, or the account
    queued,         \* per username: runs for which a recovery mail was queued
    late,           \* abandoned requests that may still be committed
    faults,         \* faults so far
    foreign         \* hand-made objects so far

akObjects == <<akGroup, akMembers, akUser>>
akVars == <<akGroup, akMembers, akUser, queued, late, faults, foreign>>

Accounts == [email : Emails, profile : {"other", "keycloak"}]

\* No username has "no account" for an account.
ASSUME AccountAssumption == NoAccount \notin Accounts

Exists(u) == akUser[u] # NoAccount

GroupWrites == [kind : {"group", "role"}, op : {"create", "update"}, to : Names]
UserWrites ==
    [kind : {"user"}, op : {"create", "update"}, to : Users, email : Emails]
MemberWrites == [kind : {"member"}, op : {"add"}, to : Names \X Users]
Writes == GroupWrites \cup UserWrites \cup MemberWrites

AkTypeOK ==
    /\ akGroup \in [Names -> {"absent", "other", "group", "role"}]
    /\ akMembers \in [Names -> SUBSET Users]
    /\ akUser \in [Users -> Accounts \cup {NoAccount}]
    /\ queued \in [Users -> Nat]
    /\ late \subseteq Writes
    /\ faults \in 0..MaxFaults
    /\ foreign \in 0..MaxForeign

AkInit ==
    /\ akGroup = [n \in Names |-> "absent"]
    /\ akMembers = [n \in Names |-> {}]
    /\ akUser = [u \in Users |-> NoAccount]
    /\ queued = [u \in Users |-> 0]
    /\ late = {}
    /\ faults = 0
    /\ foreign = 0

-----------------------------------------------------------------------------

Fault ==
    /\ faults < MaxFaults
    /\ faults' = faults + 1

\* The unique keys refuse a second create; everything else is repeatable
\* (add_user_to_group on a member answers 204 as well).
Accepts(w) ==
    CASE w.op = "create" /\ w.kind = "user" -> ~Exists(w.to)
      [] w.op = "create" /\ w.kind # "user" -> akGroup[w.to] = "absent"
      [] OTHER -> TRUE

\* A group write replaces attributes, and with them the kc2ak_origin stamp.
Commit(w) ==
    \/ /\ w \in GroupWrites
       /\ akGroup' = [akGroup EXCEPT ![w.to] = w.kind]
       /\ UNCHANGED <<akMembers, akUser>>
    \/ /\ w \in UserWrites
       /\ akUser' = [akUser EXCEPT ![w.to] =
                        [email |-> w.email, profile |-> "keycloak"]]
       /\ UNCHANGED <<akGroup, akMembers>>
    \/ /\ w \in MemberWrites
       /\ akMembers' = [akMembers EXCEPT ![w.to[1]] = @ \cup {w.to[2]}]
       /\ UNCHANGED <<akGroup, akUser>>

\* What the caller of one write call sees: ok after a commit (an attempt that
\* was retried may still be under way), failed otherwise, committed or not.
Call(w, answer) ==
    /\ \/ /\ answer = "ok"
          /\ Accepts(w)
          /\ Commit(w)
          /\ \/ UNCHANGED <<late, faults>>
             \/ Fault /\ late' = late \cup {w}
       \/ /\ answer = "failed"
          /\ UNCHANGED akObjects
          /\ \/ ~Accepts(w) /\ UNCHANGED <<late, faults>>
             \/ Fault /\ late' \in {late, late \cup {w}}
    /\ UNCHANGED <<queued, foreign>>

\* An abandoned request reaches the server.
LateCommit ==
    \E w \in late :
        /\ late' = late \ {w}
        /\ IF Accepts(w) THEN Commit(w) ELSE UNCHANGED akObjects
        /\ UNCHANGED <<queued, faults, foreign>>

\* Administrators work on the same instance, before, between and during runs.
Foreign ==
    /\ foreign < MaxForeign
    /\ foreign' = foreign + 1
    /\ \/ \E n \in Names :
            /\ akGroup[n] = "absent"
            /\ akGroup' = [akGroup EXCEPT ![n] = "other"]
            /\ UNCHANGED <<akMembers, akUser>>
       \/ \E u \in Users, e \in Emails :
            /\ ~Exists(u)
            /\ akUser' = [akUser EXCEPT ![u] = [email |-> e, profile |-> "other"]]
            /\ UNCHANGED <<akGroup, akMembers>>
       \/ \E n \in Names, u \in Users :
            /\ akGroup[n] # "absent" /\ Exists(u) /\ u \notin akMembers[n]
            /\ akMembers' = [akMembers EXCEPT ![n] = @ \cup {u}]
            /\ UNCHANGED <<akGroup, akUser>>
    /\ UNCHANGED <<queued, late, faults>>
=============================================================================
