-------------------------------- MODULE Cli --------------------------------
(***************************************************************************)
(* The migrate command as a whole (cli.py), again and again: parsing and   *)
(* usage errors, the secrets file, check_preconditions, the passes one     *)
(* after the other, recovery mail, the report and the exit code, with      *)
(* everything that can end it on the way.  A pass is what it can do here:  *)
(* look up the flows it needs, write, and add rows; Directory, Clients and *)
(* Sources look into it.  Between two steps flows may be removed from      *)
(* Authentik, and identity providers added in Keycloak.                    *)
(***************************************************************************)
EXTENDS Naturals, Sequences, FiniteSets

CONSTANTS
    Slugs,          \* of flows
    None, Empty,    \* an option that is not given, or given as ""
    Realms,         \* the sets of providers that the realm may have at first
    Commands,       \* the command lines that are used
    Rows,           \* the kinds of rows that passes produce
    MaxChanges      \* bound: changes to flows and identity providers

Kinds == {"idps", "groups", "roles", "users", "memberships",
          "federated-links", "clients"}
FlowFlags == {"authorization", "invalidation", "pre_authentication",
              "authentication", "enrollment"}
SecretsFiles == {"not given", "good", "exposed", "malformed", "absent",
                 "not text"}
Providers == {"saml", "oauth", "unsupported"}

CommandLines ==
    [wellFormed : BOOLEAN,          \* typer and the environment accept it
     realm : BOOLEAN, only : SUBSET (Kinds \cup {"else"}),
     apply : BOOLEAN, mail : BOOLEAN, emailStage : BOOLEAN,
     flow : [FlowFlags -> Slugs \cup {None, Empty}],
     secrets : SecretsFiles, matching : BOOLEAN]

RowKinds ==
    [outcome : {"CREATED", "SKIPPED", "UPDATED", "CONFLICT", "FAILED"},
     unmapped : SUBSET {"standard_scope_claim", "role_field", "client_field",
                        "protocol_mapper"}]

Reports == [by : {"none", "other", "this"}, rows : SUBSET Rows]
NoReport == [by |-> "none", rows |-> {}]
OtherReport == [by |-> "other", rows |-> {}]

ASSUME CliAssumption ==
    /\ None \notin Slugs /\ Empty \notin Slugs /\ None # Empty
    /\ Realms \subseteq SUBSET Providers
    /\ Commands \subseteq CommandLines
    /\ Rows \subseteq RowKinds
    /\ MaxChanges \in Nat

VARIABLES
    flows,          \* slugs of the flows in Authentik
    idps,           \* the providers in the realm
    changes,
    report          \* the file: none, another run's or part of one, or
                    \* this run's rows

worldVars == <<flows, idps, changes>>

VARIABLES
    cmd,
    pc,             \* idle, parsing, checking, working, ended
    check,          \* index of the next precondition
    pass,           \* index of the next pass
    found,          \* the providers that the first pass has read
    resolved,       \* the flow options this pass has looked up
    rows,           \* the rows so far, as a set
    code            \* the exit code, "none" before

VARIABLES           \* history of the run
    checked,        \* the preconditions that were verified
    wrote,          \* the passes that have written, and "mail"
    changed,        \* something has changed since the checks began
    missed          \* the flow option whose look-up killed the run, or "none"

history == <<checked, wrote, changed, missed>>
runVars == <<cmd, pc, check, pass, found, resolved, rows, code>>
vars == <<worldVars, report, runVars, history>>

Given(slug) == slug \notin {None, Empty}    \* neither None nor falsy

\* The value typer puts in place of an option that is not there.
Idle ==
    [wellFormed |-> FALSE, realm |-> FALSE, only |-> {}, apply |-> FALSE,
     mail |-> FALSE, emailStage |-> FALSE,
     flow |-> [f \in FlowFlags |-> None], secrets |-> "not given",
     matching |-> TRUE]

Init ==
    /\ flows = Slugs
    /\ idps \in Realms
    /\ changes = 0
    /\ report = NoReport
    /\ cmd = Idle
    /\ pc = "idle"
    /\ check = 1
    /\ pass = 1
    /\ found = {}
    /\ resolved = {}
    /\ rows = {}
    /\ code = "none"
    /\ checked = {}
    /\ wrote = {}
    /\ changed = FALSE
    /\ missed = "none"

Alive == pc \in {"parsing", "checking", "working"}

\* typer.Exit, or the exit of a process that dies.
Exit(c) ==
    /\ pc' = "ended"
    /\ code' = c
    /\ UNCHANGED <<worldVars, cmd, check, pass, found, resolved, rows, checked, wrote,
                   changed>>

Start(c) ==
    /\ ~Alive
    /\ cmd' = c
    /\ pc' = "parsing"
    /\ check' = 1
    /\ pass' = 1
    /\ found' = {}
    /\ resolved' = {}
    /\ rows' = {}
    /\ code' = "none"
    /\ checked' = {} /\ wrote' = {} /\ changed' = FALSE /\ missed' = "none"
    /\ report' = IF report = NoReport THEN NoReport ELSE OtherReport
    /\ UNCHANGED worldVars

-----------------------------------------------------------------------------
\* Usage errors.

InScope(k) == k \in cmd.only

UsageError ==
    \/ ~cmd.wellFormed \/ ~cmd.realm
    \/ cmd.mail /\ ~cmd.apply
    \/ ~(cmd.only \subseteq Kinds)
    \/ /\ InScope("clients")
       /\ \E f \in {"authorization", "invalidation"} : ~Given(cmd.flow[f])
    \/ cmd.secrets # "not given" /\ ~InScope("idps")
    \/ ~cmd.matching

\* read_idp_secrets refuses a file that others can read, or that is no JSON
\* object of strings, as misuse; a file it cannot read is a precondition.
RefuseUsage ==
    /\ pc = "parsing"
    /\ \/ (UsageError \/ cmd.secrets \in {"exposed", "malformed"}) /\ Exit("3")
       \/ ~UsageError /\ cmd.secrets = "absent" /\ Exit("2")
    /\ UNCHANGED <<report, missed>>

Parse ==
    /\ pc = "parsing"
    /\ ~UsageError /\ cmd.secrets \in {"not given", "good"}
    /\ pc' = "checking"
    /\ UNCHANGED <<worldVars, report, cmd, check, pass, found, resolved, rows, code,
                   history>>

-----------------------------------------------------------------------------
\* check_preconditions.

Checks == <<"email stage given", "Keycloak", "Authentik", "authorization",
            "invalidation", "pre_authentication", "authentication",
            "enrollment", "recovery flow", "email stage">>
MailChecks == {"email stage given", "recovery flow", "email stage"}
SourceChecks == {"pre_authentication", "authentication", "enrollment"}

Supported == {"saml", "oauth"}    \* source_kind

\* A bug: the flows of clients are only checked for a run that writes.
ClientFlowsConcernedApplied == InScope("clients") /\ cmd.apply

ClientFlowsConcerned == InScope("clients")

\* A bug: what mail needs is not checked unless clients are selected.
MailConcernedWithClients == cmd.mail /\ InScope("clients")

MailConcerned == cmd.mail

\* What is to be checked, as the realm is now: the providers are read for it.
Concerns(n) ==
    \/ n \in {"Keycloak", "Authentik"}
    \/ n \in {"authorization", "invalidation"} /\ ClientFlowsConcerned
    \/ n = "pre_authentication" /\ InScope("idps") /\ "saml" \in idps
    \/ /\ n \in {"authentication", "enrollment"} /\ InScope("idps")
       /\ idps \cap Supported # {} /\ Given(cmd.flow[n])
    \/ n \in MailChecks /\ MailConcerned

\* flow_exists; credentials, brand and stage are whatever they are.
CanHold(n) ==
    /\ n \in FlowFlags => Given(cmd.flow[n]) /\ cmd.flow[n] \in flows
    /\ n = "email stage given" => cmd.emailStage
CanFail(n) ==
    /\ n \in FlowFlags => ~(Given(cmd.flow[n]) /\ cmd.flow[n] \in flows)
    /\ n = "email stage given" => ~cmd.emailStage

\* A request that fails for good (httpx.HTTPError) is reported like a check
\* that does not hold.
CanBeUnreachable(n) ==
    /\ n # "email stage given"
    /\ Concerns(n) \/ (n \in SourceChecks /\ InScope("idps"))

Check ==
    /\ pc = "checking" /\ check <= Len(Checks)
    /\ Concerns(Checks[check]) => CanHold(Checks[check])
    /\ check' = check + 1
    /\ checked' = IF Concerns(Checks[check]) THEN checked \cup {Checks[check]}
                  ELSE checked
    /\ UNCHANGED <<worldVars, report, cmd, pc, pass, found, resolved, rows, code,
                   wrote, changed, missed>>

RefuseCheck ==
    /\ pc = "checking" /\ check <= Len(Checks)
    /\ \/ Concerns(Checks[check]) /\ CanFail(Checks[check])
       \/ CanBeUnreachable(Checks[check])
    /\ Exit("2")
    /\ UNCHANGED <<report, missed>>

-----------------------------------------------------------------------------
\* The passes.

Passes == <<"idps", "groups", "roles", "users", "memberships", "assignments",
            "federated-links", "clients">>

Needed(p) ==
    \/ p \in Kinds /\ InScope(p)
    \/ p = "groups" /\ InScope("memberships")
    \/ p = "users" /\ (InScope("memberships") \/ InScope("roles"))
    \/ p = "assignments" /\ InScope("roles")

\* idps_apply to clients_apply; links are only ever reported.
Writes(p) ==
    /\ cmd.apply /\ p # "federated-links"
    /\ InScope(IF p = "assignments" THEN "roles" ELSE p)

Passing == pc = "working" /\ pass <= Len(Passes) /\ Needed(Passes[pass])
Passed == pc = "working" /\ pass > Len(Passes)
Current == Passes[pass]

Work ==
    /\ pc = "checking" /\ check > Len(Checks)
    /\ pc' = "working"
    /\ found' = IF InScope("idps") THEN idps ELSE {}
    /\ UNCHANGED <<worldVars, report, cmd, check, pass, resolved, rows, code,
                   history>>

\* The options whose flow a pass needs before it writes: the client pass at
\* its beginning, also in a dry run, and the provider pass when it makes or
\* updates a source.
Uses(p) ==
    IF p = "clients" THEN {"authorization", "invalidation"}
    ELSE IF p = "idps" /\ Writes(p)
      THEN {f \in {"pre_authentication"} : "saml" \in found}
           \cup {f \in {"authentication", "enrollment"} :
                     found \cap Supported # {} /\ cmd.flow[f] # None}
    ELSE {}

\* get_flow_pk: an empty slug does not filter, so that the first of all flows
\* is taken; a slug that is not there raises IndexError, and one that was not
\* given AssertionError.
Resolves(slug) ==
    \/ slug = Empty /\ flows # {}
    \/ slug \in flows

\* A bug: what was looked up is kept under the slug, not under the option.
LookUpBySlug ==
    /\ Passing
    /\ \E f \in Uses(Current) \ resolved :
          /\ Resolves(cmd.flow[f])
          /\ resolved' = resolved \cup {cmd.flow[f]}
    /\ UNCHANGED <<worldVars, report, cmd, pc, check, pass, found, rows, code,
                   history>>

LookUp ==
    /\ Passing
    /\ \E f \in Uses(Current) \ resolved :
          /\ Resolves(cmd.flow[f])
          /\ resolved' = resolved \cup {f}
    /\ UNCHANGED <<worldVars, report, cmd, pc, check, pass, found, rows, code,
                   history>>

LookUpFails ==
    /\ Passing
    /\ \E f \in Uses(Current) \ resolved :
          ~Resolves(cmd.flow[f]) /\ missed' = f
    /\ Exit("1")
    /\ report' = report

\* The certificate of a SAML provider is imported before the second and the
\* third flow of its source are looked up.
Equipped(p) ==
    CASE p = "clients" -> Uses(p) \subseteq resolved
      [] p = "idps" ->
            \/ "oauth" \in found /\ Uses(p) \ {"pre_authentication"} \subseteq resolved
            \/ "saml" \in found /\ "pre_authentication" \in resolved
      [] OTHER -> TRUE

Write ==
    /\ Passing
    /\ Writes(Current) /\ Equipped(Current)
    /\ wrote' = wrote \cup {Current}
    /\ UNCHANGED <<worldVars, report, runVars, checked, changed, missed>>

\* A pass returns its rows.  Providers that are skipped need no flow.
EndPass ==
    /\ Passing
    /\ Current = "clients" => Uses("clients") \subseteq resolved
    /\ \E rs \in {{}} \cup {{r} : r \in Rows} : rows' = rows \cup rs
    /\ pass' = pass + 1
    /\ resolved' = {}
    /\ UNCHANGED <<worldVars, report, cmd, pc, check, found, code, history>>

Skip ==
    /\ pc = "working" /\ pass <= Len(Passes) /\ ~Needed(Passes[pass])
    /\ pass' = pass + 1
    /\ UNCHANGED <<worldVars, report, cmd, pc, check, found, resolved, rows, code,
                   history>>

\* The send loop.  Only users this run has made have a pk to send to.
Mail ==
    /\ Passed
    /\ cmd.mail /\ Writes("users")
    /\ wrote' = wrote \cup {"mail"}
    /\ UNCHANGED <<worldVars, report, runVars, checked, changed, missed>>

-----------------------------------------------------------------------------
\* Report and exit code.

NonGating == {"standard_scope_claim", "role_field"}

\* A bug: an entry of any type counts only if it is on a list.
ExitCodeAllowlist(rs) ==
    IF \E r \in rs : r.outcome \in {"CONFLICT", "FAILED"}
                     \/ "protocol_mapper" \in r.unmapped
      THEN "1" ELSE "0"

ExitCode(rs) ==
    IF \E r \in rs : r.outcome \in {"CONFLICT", "FAILED"}
                     \/ \E t \in r.unmapped : t \notin NonGating
      THEN "1" ELSE "0"

Report ==
    /\ Passed
    /\ report' = [by |-> "this", rows |-> rows]
    /\ Exit(ExitCode(rows))
    /\ missed' = missed

\* The file cannot be written, after everything else has been.
ReportFails ==
    /\ Passed
    /\ report' \in {report, OtherReport}
    /\ \E c \in {"1", "killed"} : Exit(c)
    /\ missed' = missed

\* An exception that nobody catches: a secrets file that is no text, a
\* response that is no JSON, a read outside the passes' try blocks that the
\* expired token cuts short.  Or somebody kills the process.
Crash ==
    /\ Alive
    /\ \E c \in {"1", "killed"} :
          /\ pc = "parsing" /\ c = "1" => ~UsageError /\ cmd.secrets = "not text"
          /\ Exit(c)
    /\ UNCHANGED <<report, missed>>

-----------------------------------------------------------------------------
\* Authentik and Keycloak.

Change ==
    /\ changes < MaxChanges
    /\ changes' = changes + 1
    /\ \/ /\ \E f \in flows : flows' = flows \ {f}
          /\ idps' = idps
       \/ /\ \E k \in Providers \ idps : idps' = idps \cup {k}
          /\ flows' = flows
    /\ changed' = (changed \/ pc \in {"checking", "working"})
    /\ UNCHANGED <<report, runVars, checked, wrote, missed>>

Tool ==
    \/ RefuseUsage \/ Parse \/ Check \/ RefuseCheck
    \/ Work \/ LookUp \/ LookUpFails \/ EndPass \/ Skip
    \/ Report \/ ReportFails \/ Crash

Next == (\E c \in Commands : Start(c)) \/ Tool \/ Write \/ Mail \/ Change

\* The tool keeps going: a pass goes through a finite list, so that it does
\* not write for ever.
Spec == Init /\ [][Next]_vars /\ WF_vars(Tool)

-----------------------------------------------------------------------------
\* Every variable stays in its domain.
TypeOK ==
    /\ flows \subseteq Slugs
    /\ idps \subseteq Providers
    /\ changes \in 0..MaxChanges
    /\ report \in Reports
    /\ cmd \in CommandLines
    /\ pc \in {"idle", "parsing", "checking", "working", "ended"}
    /\ check \in 1..Len(Checks) + 1
    /\ pass \in 1..Len(Passes) + 1
    /\ found \subseteq Providers
    /\ resolved \subseteq FlowFlags
    /\ rows \subseteq Rows
    /\ code \in {"none", "0", "1", "2", "3", "killed"}
    /\ checked \subseteq {Checks[i] : i \in DOMAIN Checks}
    /\ wrote \subseteq {Passes[i] : i \in DOMAIN Passes} \cup {"mail"}
    /\ changed \in BOOLEAN
    /\ missed \in FlowFlags \cup {"none"}

\* A run is not killed half-way by a flow that is not there or was not given:
\* check_preconditions has seen to it, unless flows or providers changed after
\* it had begun, or the option was given as an empty string, which it passes
\* over and the passes do not.
NoSurprise ==
    missed # "none" => changed \/ cmd.flow[missed] = Empty

\* Everything written was selected, under --apply, with credentials that were
\* verified; clients and sources with flows that were there, and mail with a
\* recovery flow and a stage (README: "the tool checks both up front").
WritesAreVetted ==
    /\ wrote # {} => cmd.apply /\ {"Keycloak", "Authentik"} \subseteq checked
    /\ \A p \in wrote \ {"mail", "assignments"} : InScope(p)
    /\ "assignments" \in wrote => InScope("roles")
    /\ "clients" \in wrote => {"authorization", "invalidation"} \subseteq checked
    /\ "idps" \in wrote =>
          \/ changed
          \/ /\ "saml" \in found => "pre_authentication" \in checked
             /\ \A f \in {"authentication", "enrollment"} :
                   Given(cmd.flow[f]) => f \in checked
    /\ "mail" \in wrote => MailChecks \subseteq checked /\ InScope("users")

NeedsFollowUp(r) ==
    \/ r.outcome \notin {"CREATED", "SKIPPED", "UPDATED"}
    \/ r.unmapped \ {"standard_scope_claim", "role_field"} # {}

ReportSays ==
    IF report.by # "this" THEN report.by
    ELSE IF \E r \in report.rows : NeedsFollowUp(r) THEN "findings" ELSE "clean"

\* The exit code and the report file together say what Verdict says of them:
\* no write before a refusal, no green without a clean report of this run, no
\* report of another run taken for this one's, and an end.
Contract == INSTANCE Verdict
    WITH stage <- pc, code <- code, apply <- cmd.apply, wrote <- wrote # {},
         report <- ReportSays
ImplementsVerdict == Contract!Spec
=============================================================================
