----------------------------- MODULE MCClients -----------------------------
(***************************************************************************)
(* Two clients to migrate and one that is not, as usual (each client has a *)
(* slug of its own) and with two client ids that have one slug.            *)
(***************************************************************************)
EXTENDS Clients

CONSTANTS c1, c2, c3, s1, s2, m1, m2, m3, e1, e2

MCKcClients == {c1, c2, c3}
MCMigratable == {c1, c2}
MCSlugs == {s1, s2}
MCMapNames == {m1, m2, m3}
MCExprs == {e1, e2}
MCSlugOf == [c \in MCKcClients |-> IF c = c1 THEN s1 ELSE s2]
P(m, e) == [name |-> m, expr |-> e]
MCPayloadsOf ==
    [c \in MCKcClients |->
        IF c = c1 THEN <<P(m1, e1), P(m2, e2)>> ELSE <<P(m3, e1)>>]

OneSlug == [c \in MCKcClients |-> s1]

Cmd(apply, update) == [apply |-> apply, update |-> update]
AllRuns == Options
=============================================================================
