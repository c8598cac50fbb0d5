------------------------------ MODULE Sources ------------------------------
(***************************************************************************)
(* migrate_idps and migrate_federated_links (migrator.py), run after run:  *)
(* one Authentik source per identity provider, the key pair that holds a   *)
(* SAML provider's signing certificate, and the report on the federated    *)
(* links, which are never written.                                         *)
(*                                                                         *)
(* Authentik is the state source and keypair.  A source is named by its    *)
(* slug and is OAuth or SAML for good.  Names of key pairs are not unique  *)
(* (_saml_signing_kp looks for one so as not to pile them up), so they are *)
(* counted.  A payload is a function from the fields that are sent; names, *)
(* URLs and other fields that are copied are the field of.                 *)
(***************************************************************************)
EXTENDS Naturals, FiniteSets

CONSTANTS
    Aliases,        \* of the realm's identity providers
    KindOf,         \* mappers/idps.py source_kind: oauth, saml or unsupported
    Certified,      \* SAML providers with a signingCertificate
    Slugs,
    SlugOf,         \* slugify, not injective
    Links,          \* federated links: <<user, alias>>
    NoAlias, NoSource,
    Invocations,    \* the command lines that are used
    MaxExecutions,  \* http.py _MAX_ATTEMPTS: how often a call may be executed
    MaxFaults,      \* bound: failed calls and interruptions
    HandMade,       \* slug and kind of the sources administrators may make
    MaxForeign      \* bound: how many of them they make

\* secrets are the aliases that --idp-secrets has a real value for, auth and
\* enroll say whether --authentication-flow and --enrollment-flow are given.
Options == [scope : SUBSET {"idps", "links"}, apply : BOOLEAN, update : BOOLEAN,
            secrets : SUBSET Aliases, auth : BOOLEAN, enroll : BOOLEAN]

ASSUME SourcesAssumption ==
    /\ KindOf \in [Aliases -> {"oauth", "saml", "unsupported"}]
    /\ \A a \in Certified : a \in Aliases /\ KindOf[a] = "saml"
    /\ SlugOf \in [Aliases -> Slugs]
    /\ \A l \in Links : l[2] \in Aliases
    /\ Invocations \subseteq Options
    /\ HandMade \subseteq Slugs \X {"oauth", "saml"}
    /\ MaxExecutions \in Nat \ {0} /\ MaxFaults \in Nat /\ MaxForeign \in Nat

VARIABLES
    source,         \* per slug: NoSource, or the source
    keypair,        \* per alias: how many key pairs have its name
    late,           \* attempts left behind that may still be committed
    faults,
    foreign

akObjects == <<source, keypair>>
akVars == <<akObjects, late, faults, foreign>>

VARIABLES
    opts,           \* the command line of the current run
    phase,          \* idle, idps, links, done, stopped
    res,            \* outcome per provider, "none" without row
    tags,           \* and the types of its unmapped entries, but for those
                    \* about fields and mappers
    cur,            \* the provider being written, or NoAlias
    op,             \* create or update, as its lookup said
    step,           \* keypair, import or write
    linkRes,        \* per link: none, counted, or the row CONFLICT
    live_exists,    \* the cache of that name
    counts          \* and the counts

idpLoop == <<res, tags, cur, op, step>>
linkLoop == <<linkRes, live_exists, counts>>
runVars == <<opts, phase, idpLoop, linkLoop>>
vars == <<akVars, runVars>>

Supported == {a \in Aliases : KindOf[a] # "unsupported"}
InScope(k) == k \in opts.scope

Init ==
    /\ source = [s \in Slugs |-> NoSource]
    /\ keypair = [a \in Certified |-> 0]
    /\ late = {}
    /\ faults = 0
    /\ foreign = 0
    /\ opts = [scope |-> {}, apply |-> FALSE, update |-> FALSE,
               secrets |-> {}, auth |-> FALSE, enroll |-> FALSE]
    /\ phase = "idle"
    /\ res = [a \in Aliases |-> "none"]
    /\ tags = [a \in Aliases |-> {}]
    /\ cur = NoAlias
    /\ op = "none"
    /\ step = "none"
    /\ linkRes = [l \in Links |-> "none"]
    /\ live_exists = [a \in {} |-> FALSE]
    /\ counts = [a \in {} |-> 0]

-----------------------------------------------------------------------------
\* Authentik.

Fault ==
    /\ faults < MaxFaults
    /\ faults' = faults + 1

\* A source without what the payload leaves out.
Bare == [by |-> "kc2ak", secret |-> "", enabled |-> TRUE, auth |-> FALSE,
         enroll |-> FALSE, kp |-> FALSE]

Patch(old, payload) ==
    [f \in DOMAIN old \cup DOMAIN payload |->
        IF f \in DOMAIN payload THEN payload[f] ELSE old[f]]

\* The endpoints are separate per kind, so a source of the other kind is not
\* found by an update; a slug is unique across kinds.
Accepts(w) ==
    CASE w.op = "import" -> TRUE
      [] w.op = "create" -> source[w.to] = NoSource
      [] w.op = "update" ->
            source[w.to] # NoSource /\ source[w.to].kind = w.payload.kind

Commit(w) ==
    \/ /\ w.op = "import"
       /\ keypair' = [keypair EXCEPT ![w.to] = @ + 1]
       /\ source' = source
    \/ /\ w.op = "create"
       /\ source' = [source EXCEPT ![w.to] = Patch(Bare, w.payload)]
       /\ keypair' = keypair
    \/ /\ w.op = "update"
       /\ source' = [source EXCEPT ![w.to] = Patch(@, w.payload)]
       /\ keypair' = keypair

\* n attempts at a request are left behind, told apart from others by the
\* fault that did it; any of them may be executed some day.
Abandon(w, n) ==
    Fault /\ late' = late \cup {<<<<faults', i>>, w>> : i \in 1..n}

\* What the caller of a write sees: ok after a commit (attempts that were
\* retried may still be under way), failed otherwise, executed or not, and if
\* so up to MaxExecutions times (see HttpCall).
Call(w, answer) ==
    /\ \/ /\ answer = "ok"
          /\ Accepts(w)
          /\ Commit(w)
          /\ UNCHANGED <<late, faults>> \/ Abandon(w, MaxExecutions - 1)
       \/ /\ answer = "failed"
          /\ UNCHANGED akObjects
          /\ \/ ~Accepts(w) /\ UNCHANGED <<late, faults>>
             \/ Abandon(w, MaxExecutions)
    /\ foreign' = foreign

\* The attempts at one request are alike, so that one of them stands for all.
LateCommit ==
    /\ \E x \in late :
          /\ \A y \in late : y[1][1] = x[1][1] => y[1][2] <= x[1][2]
          /\ late' = late \ {x}
          /\ IF Accepts(x[2]) THEN Commit(x[2]) ELSE UNCHANGED akObjects
    /\ UNCHANGED <<faults, foreign, runVars>>

\* An administrator sets up a working source by hand.
Foreign ==
    /\ foreign < MaxForeign
    /\ foreign' = foreign + 1
    /\ \E x \in HandMade :
          /\ source[x[1]] = NoSource
          /\ source' = [source EXCEPT ![x[1]] =
                [by |-> "other", of |-> NoAlias, kind |-> x[2],
                 secret |-> "real", enabled |-> TRUE, auth |-> TRUE,
                 enroll |-> TRUE, kp |-> TRUE]]
    /\ UNCHANGED <<keypair, late, faults, runVars>>

-----------------------------------------------------------------------------
\* The run: cli.py.

Running == phase \in {"idps", "links"}

Start(o) ==
    /\ ~Running
    /\ opts' = o
    /\ phase' = "idps"
    /\ res' = [a \in Aliases |-> "none"]
    /\ tags' = [a \in Aliases |-> {}]
    /\ cur' = NoAlias
    /\ op' = "none"
    /\ step' = "none"
    /\ linkRes' = [l \in Links |-> "none"]
    /\ live_exists' = [a \in {} |-> FALSE]
    /\ counts' = [a \in {} |-> 0]
    /\ UNCHANGED akVars

EndIdps ==
    /\ phase = "idps" /\ cur = NoAlias
    /\ InScope("idps") => \A a \in Aliases : res[a] # "none"
    /\ phase' = "links"
    /\ UNCHANGED <<akVars, opts, idpLoop, linkLoop>>

\* The counts go to the rows of the providers, if this run has them.
EndLinks ==
    /\ phase = "links"
    /\ InScope("links") => \A l \in Links : linkRes[l] # "none"
    /\ phase' = "done"
    /\ tags' = [a \in Aliases |->
                   IF InScope("idps") /\ a \in DOMAIN counts
                     THEN tags[a] \cup {"federated_link_unwritable"}
                     ELSE tags[a]]
    /\ UNCHANGED <<akVars, opts, res, cur, op, step, linkLoop>>

\* The process ends without a report: a read outside the try blocks fails
\* (Keycloak's, and the lookup of _source_exists_live), or somebody stops it.
Interrupt ==
    /\ Running
    /\ Fault
    /\ phase' = "stopped"
    /\ UNCHANGED <<akObjects, late, foreign, opts, idpLoop, linkLoop>>

-----------------------------------------------------------------------------
\* migrate_idps.

\* The row of a is written, and the loop goes round.
Row(a, outcome, missing) ==
    /\ res' = [res EXCEPT ![a] = outcome]
    /\ tags' = [tags EXCEPT ![a] = missing]
    /\ cur' = NoAlias
    /\ op' = "none"
    /\ step' = "none"

Goto(a, o, s) ==
    /\ cur' = a
    /\ op' = o
    /\ step' = s
    /\ UNCHANGED <<res, tags>>

Waiting(a) ==
    phase = "idps" /\ InScope("idps") /\ cur = NoAlias /\ res[a] = "none"

NeedsSecret(a) == KindOf[a] = "oauth" /\ a \notin opts.secrets
MissingFlow == ~(opts.auth /\ opts.enroll)

\* A bug: a secret that was not supplied is not reported.
MissingFlowsOnly(a) == IF MissingFlow THEN {"idp_flow_missing"} ELSE {}

\* write_unmapped: of the flags alone, so that a dry run has the same.
Missing(a) ==
    (IF NeedsSecret(a) THEN {"idp_secret_missing"} ELSE {}) \cup
    (IF MissingFlow THEN {"idp_flow_missing"} ELSE {})

Unsupported(a) ==
    /\ Waiting(a)
    /\ KindOf[a] = "unsupported"
    /\ Row(a, "CONFLICT", {})
    /\ UNCHANGED <<akVars, opts, phase, linkLoop>>

\* Any read of the try block fails: the source, the key pair or a flow pk.
ReadFails ==
    /\ \E a \in Supported :
          /\ Waiting(a) \/ (phase = "idps" /\ cur = a /\ step # "import")
          /\ Row(a, "FAILED", {})
    /\ Fault
    /\ UNCHANGED <<akObjects, late, foreign, opts, phase, linkLoop>>

\* A bug: a certificate is looked for, whatever the provider is.
FirstStepKeypair(a) == "keypair"

FirstStep(a) == IF a \in Certified THEN "keypair" ELSE "write"

\* A bug: the plan of an update is a skip.
MatchPlansSkip(a) ==
    /\ Waiting(a)
    /\ KindOf[a] # "unsupported"
    /\ source[SlugOf[a]] # NoSource
    /\ IF opts.update /\ opts.apply THEN Goto(a, "update", FirstStep(a))
       ELSE Row(a, "SKIPPED", {})
    /\ UNCHANGED <<akVars, opts, phase, linkLoop>>

Match(a) ==
    /\ Waiting(a)
    /\ KindOf[a] # "unsupported"
    /\ source[SlugOf[a]] # NoSource
    /\ IF ~opts.update THEN Row(a, "SKIPPED", {})
       ELSE IF opts.apply THEN Goto(a, "update", FirstStep(a))
       ELSE Row(a, "UPDATED", Missing(a))
    /\ UNCHANGED <<akVars, opts, phase, linkLoop>>

New(a) ==
    /\ Waiting(a)
    /\ KindOf[a] # "unsupported"
    /\ source[SlugOf[a]] = NoSource
    /\ IF opts.apply THEN Goto(a, "create", FirstStep(a))
       ELSE Row(a, "CREATED", Missing(a))
    /\ UNCHANGED <<akVars, opts, phase, linkLoop>>

InHand(s) == phase = "idps" /\ cur # NoAlias /\ step = s

\* A bug: the certificate is imported on every run.
KeypairFoundNever == FALSE

KeypairFound == keypair[cur] > 0

\* _saml_signing_kp.
FindKeypair ==
    /\ InHand("keypair")
    /\ Goto(cur, op, IF KeypairFound THEN "write" ELSE "import")
    /\ UNCHANGED <<akVars, opts, phase, linkLoop>>

\* raise_for_status makes a refusal a failure of the provider.
ImportKeypair ==
    /\ InHand("import")
    /\ \E answer \in {"ok", "failed"} :
          /\ Call([op |-> "import", to |-> cur], answer)
          /\ IF answer = "ok" THEN Goto(cur, op, "write")
             ELSE Row(cur, "FAILED", {})
    /\ UNCHANGED <<opts, phase, linkLoop>>

\* A bug: the payload of an update is that of a create.
WhollySentAlways(o) == TRUE

\* On a create, enabled and consumer_secret are always in the payload; on an
\* update only with a real value (is_update of the mappers).
WhollySent(o) == o = "create"

\* A bug: a source is switched on without a secret.
ReadyWithFlows(a) == ~MissingFlow

Ready(a) == ~NeedsSecret(a) /\ ~MissingFlow

Fields(a, o) ==
    {"of", "kind"}
    \cup (IF WhollySent(o) \/ Ready(a) THEN {"enabled"} ELSE {})
    \cup (IF KindOf[a] = "oauth" /\ (WhollySent(o) \/ ~NeedsSecret(a))
            THEN {"secret"} ELSE {})
    \cup (IF opts.auth THEN {"auth"} ELSE {})
    \cup (IF opts.enroll THEN {"enroll"} ELSE {})
    \cup (IF a \in Certified THEN {"kp"} ELSE {})

\* map_oauth_source and map_saml_source.
Payload(a, o) ==
    [f \in Fields(a, o) |->
        CASE f = "of" -> a
          [] f = "kind" -> KindOf[a]
          [] f = "enabled" -> Ready(a)
          [] f = "secret" -> IF NeedsSecret(a) THEN "placeholder" ELSE "real"
          [] OTHER -> TRUE]         \* auth, enroll, kp

Done(o) == IF o = "create" THEN "CREATED" ELSE "UPDATED"

WriteSource ==
    /\ InHand("write")
    /\ \E answer \in {"ok", "failed"} :
          /\ Call([op |-> op, to |-> SlugOf[cur], payload |-> Payload(cur, op)],
                  answer)
          /\ IF answer = "ok" THEN Row(cur, Done(op), Missing(cur))
             ELSE Row(cur, "FAILED", {})
    /\ UNCHANGED <<opts, phase, linkLoop>>

-----------------------------------------------------------------------------
\* migrate_federated_links.

\* A bug: a row is enough, whatever its outcome.
ResolvedWithRow(a) == res[a] # "none"

\* resolved_this_run; every alias has a row when idps are in scope.
Resolved(a) == res[a] \in {"CREATED", "SKIPPED", "UPDATED"}

WaitingLink(l) == phase = "links" /\ InScope("links") /\ linkRes[l] = "none"

\* A bug: the answer is not kept.
KeepNothing(a, exists) == live_exists

\* _source_exists_live asks once per alias.
Keep(a, exists) ==
    [b \in DOMAIN live_exists \cup {a} |->
        IF b = a THEN exists ELSE live_exists[b]]

Count(a) ==
    counts' = [b \in DOMAIN counts \cup {a} |->
                  (IF b \in DOMAIN counts THEN counts[b] ELSE 0)
                  + (IF b = a THEN 1 ELSE 0)]

\* One link, with the lookup for a provider that this run has no row of.
Link(l) ==
    LET a == l[2]
        asked == ~InScope("idps")
        exists == IF a \in DOMAIN live_exists THEN live_exists[a]
                  ELSE source[SlugOf[a]] # NoSource
        found == IF asked THEN exists ELSE Resolved(a)
    IN  /\ WaitingLink(l)
        /\ live_exists' = IF asked THEN Keep(a, exists) ELSE live_exists
        /\ linkRes' = [linkRes EXCEPT ![l] =
                          IF found THEN "counted" ELSE "CONFLICT"]
        /\ IF found THEN Count(a) ELSE counts' = counts
        /\ UNCHANGED <<akVars, opts, phase, idpLoop>>

-----------------------------------------------------------------------------
Pass ==
    \/ \E a \in Aliases : Unsupported(a) \/ Match(a) \/ New(a)
    \/ ReadFails
    \/ FindKeypair \/ ImportKeypair \/ WriteSource
    \/ \E l \in Links : Link(l)
    \/ EndIdps \/ EndLinks

Run == \E o \in Invocations : Start(o)

Next == Run \/ Pass \/ Interrupt \/ LateCommit \/ Foreign

\* The tool is one sequential process: once started it keeps going.
Spec == Init /\ [][Next]_vars /\ WF_vars(Pass)

-----------------------------------------------------------------------------
Sources ==
    [by : {"kc2ak", "other"}, of : Aliases \cup {NoAlias},
     kind : {"oauth", "saml"}, secret : {"", "placeholder", "real"},
     enabled : BOOLEAN, auth : BOOLEAN, enroll : BOOLEAN, kp : BOOLEAN]

ASSUME NoneAssumption == NoAlias \notin Aliases /\ NoSource \notin Sources

\* Every variable stays in its domain; a source has all its fields whatever
\* the payloads leave out, and links are only counted for a known alias.
TypeOK ==
    /\ source \in [Slugs -> Sources \cup {NoSource}]
    /\ keypair \in [Certified -> Nat]
    /\ \A x \in late : x[1] \in (1..MaxFaults) \X (1..MaxExecutions)
                       /\ x[2].op \in {"import", "create", "update"}
    /\ faults \in 0..MaxFaults /\ foreign \in 0..MaxForeign
    /\ opts \in Options
    /\ phase \in {"idle", "idps", "links", "done", "stopped"}
    /\ res \in [Aliases -> {"none", "CREATED", "SKIPPED", "UPDATED",
                            "CONFLICT", "FAILED"}]
    /\ tags \in [Aliases -> SUBSET {"idp_secret_missing", "idp_flow_missing",
                                    "federated_link_unwritable"}]
    /\ cur \in Supported \cup {NoAlias}
    /\ op \in {"none", "create", "update"}
    /\ step \in {"none", "keypair", "import", "write"}
    /\ step \in {"keypair", "import"} => cur \in Certified
    /\ linkRes \in [Links -> {"none", "counted", "CONFLICT"}]
    /\ DOMAIN live_exists \subseteq Aliases
    /\ DOMAIN counts \subseteq Aliases

\* An enabled source works: a source that the tool wrote to and that shows a
\* login button has both flows, a real secret or a key pair if it needs one,
\* whatever sequence of runs, each with other flags, wrote its fields
\* (mappers/idps.py:150-157).
EnabledWorks ==
    \A s \in Slugs :
        source[s] # NoSource /\ source[s].of # NoAlias /\ source[s].enabled =>
            /\ source[s].auth /\ source[s].enroll
            /\ source[s].kind = "oauth" => source[s].secret = "real"
            /\ source[s].of \in Certified => source[s].kp

\* No request of the tool, late ones included, switches off a source that is
\* on, or replaces a real secret with the placeholder (mappers/idps.py:168-170).
NeverSabotaged ==
    [][\A s \in Slugs :
          source[s] # NoSource =>
            /\ source'[s] # NoSource
            /\ source[s].enabled => source'[s].enabled
            /\ source[s].secret = "real" => source'[s].secret = "real"]_vars

\* "N identity providers created disabled" is exact: of the sources that an
\* applied run reports as created, those that are disabled are the ones whose
\* row says that a secret or a flow is missing (cli.py:383-396).
CreatedDisabledIsTold ==
    opts.apply =>
        \A a \in Aliases :
            res[a] = "CREATED" =>
                /\ source[SlugOf[a]] # NoSource
                /\ source[SlugOf[a]].enabled
                      <=> tags[a] \subseteq {"federated_link_unwritable"}

\* A signing certificate is imported once, however often runs are repeated,
\* but for the attempts of calls that failed: those may all be executed, and
\* since names of key pairs are not unique, each leaves one more.
ImportedOnce ==
    \A a \in Certified : keypair[a] <= 1 + MaxExecutions * faults

\* The links of one provider are treated alike, also when its source appears
\* while they are gone through: all are counted or all are conflicts.
LinksTreatedAlike ==
    \A l, m \in Links :
        l[2] = m[2] /\ linkRes[l] # "none" /\ linkRes[m] # "none"
            => linkRes[l] = linkRes[m]

\* A link that an applied run does not report as lost leads to a source that
\* is there, the counts add up, and at the end of a run that has the providers
\* in scope their rows tell of the links (migrator.py:905-912).
CountedLinksHaveSource ==
    opts.apply =>
        \A l \in Links :
            linkRes[l] = "counted" =>
                /\ source[SlugOf[l[2]]] # NoSource
                /\ counts[l[2]] = Cardinality({m \in Links :
                      m[2] = l[2] /\ linkRes[m] = "counted"})
                /\ phase = "done" /\ InScope("idps") =>
                      "federated_link_unwritable" \in tags[l[2]]
=============================================================================
