------------------------------- MODULE MCCli -------------------------------
(***************************************************************************)
(* Command lines that are fine (sources, users, clients and mail; sources  *)
(* alone; a dry run; links), and some with one thing that is not.          *)
(***************************************************************************)
EXTENDS Cli

CONSTANTS f1, f2

MCRealms == {{}, {"saml"}, {"oauth"}}
MCSlugs == {f1, f2}

Row(outcome, unmapped) == [outcome |-> outcome, unmapped |-> unmapped]
MCRows ==
    {Row("CREATED", {"role_field"}), Row("CONFLICT", {}),
     Row("SKIPPED", {"standard_scope_claim", "client_field"})}

Much ==
    [wellFormed |-> TRUE, realm |-> TRUE,
     only |-> {"idps", "users", "clients"}, apply |-> TRUE,
     mail |-> TRUE, emailStage |-> TRUE, flow |-> [f \in FlowFlags |-> f1],
     secrets |-> "good", matching |-> TRUE]
Sources ==
    [Much EXCEPT !.only = {"idps"}, !.mail = FALSE,
        !.flow = [f \in FlowFlags |->
                     IF f = "pre_authentication" THEN f2 ELSE None]]
DryRun ==
    [Much EXCEPT !.only = {"roles", "memberships", "clients"},
        !.apply = FALSE, !.mail = FALSE, !.secrets = "not given",
        !.flow = [f \in FlowFlags |->
                     IF f \in {"authorization", "invalidation"} THEN f2
                     ELSE None]]
Links ==
    [Sources EXCEPT !.only = {"roles", "federated-links"},
                    !.secrets = "not given"]

\* Ways to get one thing wrong: those that end the run at once, and options
\* of flows left out or left empty.
Misused(c) ==
    {[c EXCEPT !.realm = FALSE], [c EXCEPT !.emailStage = FALSE],
     [c EXCEPT !.apply = FALSE], [c EXCEPT !.only = @ \ {"clients"}]}
    \cup {[c EXCEPT !.secrets = f] : f \in SecretsFiles \ {"good"}}
FlowsOf(c, fs) == {[c EXCEPT !.flow[f] = v] : f \in fs, v \in {None, Empty}}

MCCommands ==
    {Much, Sources, DryRun, Links, [Links EXCEPT !.secrets = "good"]} \cup Misused(Much)
    \cup FlowsOf(Much, {"authorization"})
    \cup FlowsOf(Sources, {"pre_authentication", "authentication"})
=============================================================================
