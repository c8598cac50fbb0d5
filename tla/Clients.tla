------------------------------ MODULE Clients ------------------------------
(***************************************************************************)
(* migrate_clients (migrator.py), run after run: one OAuth2 provider, one  *)
(* application bound to it and the scope mappings attached to it for every *)
(* OIDC client of the realm.  That takes several writes, and any of them   *)
(* can fail, be executed although it failed, or be cut short.              *)
(*                                                                         *)
(* Authentik is the state provider, app, mapping.  A provider is named by  *)
(* its client_id, an application by its slug, a mapping by its name: these *)
(* are unique there, and a create whose key is taken is refused.  In       *)
(* Keycloak a protocol mapper may be edited, also while a run is under     *)
(* way.  Payload fields other than those, and the report's unmapped        *)
(* entries, are left to Payloads.                                          *)
(***************************************************************************)
EXTENDS Naturals, Sequences, FiniteSets

CONSTANTS
    KcClients,      \* client ids of the realm
    Migratable,     \* those is_migratable_client accepts
    Slugs,
    SlugOf,         \* slugify: KcClients -> Slugs, not injective
    MapNames,       \* names of scope mappings
    Exprs,          \* and their expressions
    PayloadsOf,     \* per client: standard_payloads, then mapper_payloads, a
                    \* sequence of [name, expr] that begins with openid,
                    \* before anything is edited
    NoProvider, NoApp, NoMapping, NoClient,
    Omitted,        \* a field that a payload does not have
    Invocations,    \* the command lines that are used
    MaxFaults,      \* bound: failed calls and interruptions
    MaxForeign,     \* bound: providers that administrators make by hand
    MaxEdits        \* bound: edits of protocol mappers in Keycloak

Options == [apply : BOOLEAN, update : BOOLEAN]
Payloads == [name : MapNames, expr : Exprs]

ASSUME ClientsAssumption ==
    /\ Migratable \subseteq KcClients
    /\ SlugOf \in [KcClients -> Slugs]
    /\ PayloadsOf \in [KcClients -> Seq(Payloads) \ {<<>>}]
    /\ Invocations \subseteq Options
    /\ MaxFaults \in Nat /\ MaxForeign \in Nat /\ MaxEdits \in Nat

VARIABLES
    kc,             \* per client: its payloads as Keycloak stands
    edits,
    ever            \* history: every payload that any client has had

kcVars == <<kc, edits, ever>>

VARIABLES
    provider,       \* per client id: NoProvider, or who made it and the names
                    \* of the mappings attached to it (property_mappings)
    app,            \* per slug: NoApp, or the client whose provider it has
    mapping,        \* per name: NoMapping, or its expression
    late,           \* abandoned requests that may still be committed
    faults,
    foreign

akObjects == <<provider, app, mapping>>
akVars == <<akObjects, late, faults, foreign>>

VARIABLES
    opts,           \* the command line of the current run
    seen,           \* the payloads of the clients as this run has read them
    phase,          \* idle, run, done, stopped
    res,            \* the report row per client, "none" without row
    cur,            \* the client that is being created, or NoClient
    step,           \* what comes next for it
    next,           \* the index of the next of its payloads
    mapper_pks      \* the names of the mappings found or created for it

runVars == <<opts, seen, phase, res, cur, step, next, mapper_pks>>
vars == <<kcVars, akVars, runVars>>

Providers == [by : {"kc2ak", "other"}, maps : SUBSET MapNames]
MappingWrites == [kind : {"mapping"}, to : MapNames, expr : Exprs]
ProviderWrites ==
    [kind : {"provider"}, op : {"create", "update"}, to : Migratable,
     maps : (SUBSET MapNames) \cup {Omitted}]
AppWrites == [kind : {"app"}, to : Slugs, client : Migratable]
Writes == MappingWrites \cup ProviderWrites \cup AppWrites

\* Nothing that is there is taken for something that is not.
ASSUME NoneAssumption ==
    /\ NoProvider \notin Providers /\ NoApp \notin Migratable
    /\ NoMapping \notin Exprs /\ NoClient \notin Migratable
    /\ \A ms \in SUBSET MapNames : ms # Omitted

Init ==
    /\ kc = PayloadsOf
    /\ edits = 0
    /\ ever = UNION {{PayloadsOf[c][i] : i \in DOMAIN PayloadsOf[c]} :
                        c \in KcClients}
    /\ provider = [c \in Migratable |-> NoProvider]
    /\ app = [s \in Slugs |-> NoApp]
    /\ mapping = [m \in MapNames |-> NoMapping]
    /\ late = {}
    /\ faults = 0
    /\ foreign = 0
    /\ opts = [apply |-> FALSE, update |-> FALSE]
    /\ seen = PayloadsOf
    /\ phase = "idle"
    /\ res = [c \in Migratable |-> "none"]
    /\ cur = NoClient
    /\ step = "none"
    /\ next = 1
    /\ mapper_pks = {}

-----------------------------------------------------------------------------
\* Authentik.

Fault ==
    /\ faults < MaxFaults
    /\ faults' = faults + 1

Accepts(w) ==
    \/ w \in MappingWrites /\ mapping[w.to] = NoMapping
    \/ w \in ProviderWrites /\ (w.op = "create" => provider[w.to] = NoProvider)
    \/ w \in AppWrites /\ app[w.to] = NoApp

\* PATCH leaves alone what the payload does not have.
Commit(w) ==
    \/ /\ w \in MappingWrites
       /\ mapping' = [mapping EXCEPT ![w.to] = w.expr]
       /\ UNCHANGED <<provider, app>>
    \/ /\ w \in ProviderWrites
       /\ provider' = [provider EXCEPT ![w.to] =
             [by |-> IF w.op = "create" THEN "kc2ak" ELSE @.by,
              maps |-> IF w.maps = Omitted THEN @.maps ELSE w.maps]]
       /\ UNCHANGED <<app, mapping>>
    \/ /\ w \in AppWrites
       /\ app' = [app EXCEPT ![w.to] = w.client]
       /\ UNCHANGED <<provider, mapping>>

\* What the caller of a write sees: ok after a commit (an attempt that was
\* retried may still be under way), failed otherwise, committed or not (see
\* HttpRetry).
Call(w, answer) ==
    /\ \/ /\ answer = "ok"
          /\ Accepts(w)
          /\ Commit(w)
          /\ \/ UNCHANGED <<late, faults>>
             \/ Fault /\ late' = late \cup {w}
       \/ /\ answer = "failed"
          /\ UNCHANGED akObjects
          /\ \/ ~Accepts(w) /\ UNCHANGED <<late, faults>>
             \/ Fault /\ late' \in {late, late \cup {w}}
    /\ UNCHANGED foreign

LateCommit ==
    /\ \E w \in late :
          /\ late' = late \ {w}
          /\ IF Accepts(w) THEN Commit(w) ELSE UNCHANGED akObjects
    /\ UNCHANGED <<kcVars, faults, foreign, runVars>>

\* An administrator makes a provider by hand, without application, and
\* attaches some of the mappings there are.
Foreign ==
    /\ foreign < MaxForeign
    /\ foreign' = foreign + 1
    /\ \E c \in Migratable, ms \in SUBSET MapNames :
          /\ provider[c] = NoProvider
          /\ \A m \in ms : mapping[m] # NoMapping
          /\ provider' = [provider EXCEPT ![c] = [by |-> "other", maps |-> ms]]
    /\ UNCHANGED <<kcVars, app, mapping, late, faults, runVars>>

\* An administrator of Keycloak edits a protocol mapper, so that it is
\* translated to another expression under the same name.  The openid mapping,
\* which comes first, is the tool's own.
Edit ==
    /\ edits < MaxEdits
    /\ edits' = edits + 1
    /\ \E c \in Migratable : \E i \in DOMAIN kc[c] \ {1}, e \in Exprs :
          /\ e # kc[c][i].expr
          /\ kc' = [kc EXCEPT ![c][i].expr = e]
          /\ ever' = ever \cup {[name |-> kc[c][i].name, expr |-> e]}
    /\ UNCHANGED <<akVars, runVars>>

-----------------------------------------------------------------------------
\* The run.

\* The clients are read, with their protocol mappers, before the loop begins.
Start(o) ==
    /\ phase # "run"
    /\ opts' = o
    /\ seen' = kc
    /\ phase' = "run"
    /\ res' = [c \in Migratable |-> "none"]
    /\ cur' = NoClient
    /\ step' = "none"
    /\ next' = 1
    /\ mapper_pks' = {}
    /\ UNCHANGED <<kcVars, akVars>>

\* A bug: the loop over the payloads is not started anew.
RowNotReset(c, outcome) ==
    /\ res' = [res EXCEPT ![c] = outcome]
    /\ cur' = NoClient
    /\ step' = "none"
    /\ UNCHANGED <<next, mapper_pks>>

\* The row of the client in hand is written, and the loop goes round.
Row(c, outcome) ==
    /\ res' = [res EXCEPT ![c] = outcome]
    /\ cur' = NoClient
    /\ step' = "none"
    /\ next' = 1
    /\ mapper_pks' = {}

\* The client in hand needs a write.
Write(c, s) ==
    /\ cur' = c
    /\ step' = s
    /\ UNCHANGED <<res, next, mapper_pks>>

Fails(c) == Row(c, "FAILED") /\ UNCHANGED akVars

Waiting(c) == phase = "run" /\ cur = NoClient /\ res[c] = "none"

\* One of the reads inside the try block fails, in Keycloak or Authentik.
ReadFails ==
    /\ \E c \in Migratable :
          /\ Waiting(c) \/ (phase = "run" /\ cur = c /\ step = "maps")
          /\ Row(c, "FAILED")
    /\ Fault
    /\ UNCHANGED <<kcVars, akObjects, late, foreign, opts, seen, phase>>

\* A bug: a missing application is only made under --update-existing.
MatchRepairsOnUpdate(c) ==
    /\ Waiting(c)
    /\ provider[c] # NoProvider
    /\ IF ~opts.update THEN Row(c, "SKIPPED")
       ELSE IF ~opts.apply THEN Row(c, "UPDATED")
       ELSE Write(c, IF app[SlugOf[c]] = NoApp THEN "app" ELSE "update")
    /\ UNCHANGED <<kcVars, akVars, opts, seen, phase>>

\* The provider is there.  A missing application is made whatever the flags
\* say of updates: an interrupted run left half a pair.
Match(c) ==
    /\ Waiting(c)
    /\ provider[c] # NoProvider
    /\ IF app[SlugOf[c]] = NoApp
         THEN IF opts.apply THEN Write(c, "app") ELSE Row(c, "CREATED")
         ELSE IF ~opts.update THEN Row(c, "SKIPPED")
              ELSE IF opts.apply THEN Write(c, "update") ELSE Row(c, "UPDATED")
    /\ UNCHANGED <<kcVars, akVars, opts, seen, phase>>

New(c) ==
    /\ Waiting(c)
    /\ provider[c] = NoProvider
    /\ IF opts.apply THEN Write(c, "maps") ELSE Row(c, "CREATED")
    /\ UNCHANGED <<kcVars, akVars, opts, seen, phase>>

InHand(s) == phase = "run" /\ cur # NoClient /\ step = s

Payload == seen[cur][next]

\* A bug: mappings are created without being looked for.
MappingFoundNever == FALSE

MappingFound == mapping[Payload.name] # NoMapping

\* The pk is appended to mapper_pks and the inner loop goes round.
Attach ==
    /\ mapper_pks' = mapper_pks \cup {Payload.name}
    /\ next' = next + 1
    /\ step' = "maps"
    /\ UNCHANGED <<res, cur>>

\* find_scope_mapping_by_name; a name that is not there has to be created.
FindMapping ==
    /\ InHand("maps")
    /\ next <= Len(seen[cur])
    /\ IF MappingFound THEN Attach ELSE Write(cur, "create")
    /\ UNCHANGED <<kcVars, akVars, opts, seen, phase>>

\* A bug: a mapping that was refused is left out.
CreateMappingOrNot ==
    /\ InHand("create")
    /\ \E answer \in {"ok", "failed"} :
          /\ Call([kind |-> "mapping", to |-> Payload.name,
                   expr |-> Payload.expr], answer)
          /\ next' = next + 1
          /\ step' = "maps"
          /\ mapper_pks' = IF answer = "ok" THEN mapper_pks \cup {Payload.name}
                           ELSE mapper_pks
          /\ UNCHANGED <<res, cur>>
    /\ UNCHANGED <<kcVars, opts, seen, phase>>

CreateMapping ==
    /\ InHand("create")
    /\ \E answer \in {"ok", "failed"} :
          /\ Call([kind |-> "mapping", to |-> Payload.name,
                   expr |-> Payload.expr], answer)
          /\ IF answer = "ok" THEN Attach ELSE Row(cur, "FAILED")
    /\ UNCHANGED <<kcVars, opts, seen, phase>>

\* With all mappings in hand the provider is created, with them attached.
CreateProvider ==
    /\ InHand("maps")
    /\ next > Len(seen[cur])
    /\ \E answer \in {"ok", "failed"} :
          /\ Call([kind |-> "provider", op |-> "create", to |-> cur,
                   maps |-> mapper_pks], answer)
          /\ IF answer = "ok" THEN Write(cur, "app") ELSE Row(cur, "FAILED")
    /\ UNCHANGED <<kcVars, opts, seen, phase>>

CreateApplication ==
    /\ InHand("app")
    /\ \E answer \in {"ok", "failed"} :
          /\ Call([kind |-> "app", to |-> SlugOf[cur], client |-> cur], answer)
          /\ Row(cur, IF answer = "ok" THEN "CREATED" ELSE "FAILED")
    /\ UNCHANGED <<kcVars, opts, seen, phase>>

\* A bug: the payload of an update has property_mappings as well.
UpdatePayloadWithMappings(c) ==
    [kind |-> "provider", op |-> "update", to |-> c,
     maps |-> {seen[c][i].name : i \in DOMAIN seen[c]}]

UpdatePayload(c) ==
    [kind |-> "provider", op |-> "update", to |-> c, maps |-> Omitted]

UpdateProvider ==
    /\ InHand("update")
    /\ \E answer \in {"ok", "failed"} :
          /\ Call(UpdatePayload(cur), answer)
          /\ Row(cur, IF answer = "ok" THEN "UPDATED" ELSE "FAILED")
    /\ UNCHANGED <<kcVars, opts, seen, phase>>

Finish ==
    /\ phase = "run" /\ cur = NoClient
    /\ \A c \in Migratable : res[c] # "none"
    /\ phase' = "done"
    /\ UNCHANGED <<kcVars, akVars, opts, seen, res, cur, step, next,
                   mapper_pks>>

\* The process ends in the middle: a Keycloak read outside the try block
\* fails, or somebody stops it.
Interrupt ==
    /\ phase = "run"
    /\ Fault
    /\ phase' = "stopped"
    /\ UNCHANGED <<kcVars, akObjects, late, foreign, opts, seen, res, cur, step,
                   next, mapper_pks>>

Pass ==
    \/ ReadFails
    \/ \E c \in Migratable : Match(c) \/ New(c)
    \/ FindMapping \/ CreateMapping \/ CreateProvider \/ CreateApplication
    \/ UpdateProvider
    \/ Finish

Run == \E o \in Invocations : Start(o)

Next == Run \/ Pass \/ Interrupt \/ LateCommit \/ Foreign \/ Edit

\* The tool is one sequential process: once started it keeps going.
Spec == Init /\ [][Next]_vars /\ WF_vars(Pass)

\* An operator who, whatever else is run, comes back to an applied run.
RerunSpec ==
    Spec /\ SF_vars(\E o \in Invocations : o.apply /\ Start(o))

-----------------------------------------------------------------------------
\* Every variable stays in its domain; the place in the loop over the payloads
\* belongs to the client in hand.
TypeOK ==
    /\ kc \in [KcClients -> Seq(Payloads)]
    /\ edits \in 0..MaxEdits
    /\ ever \subseteq Payloads
    /\ seen \in [KcClients -> Seq(Payloads)]
    /\ \A c \in KcClients :
          /\ Len(kc[c]) = Len(PayloadsOf[c])
          /\ Len(seen[c]) = Len(PayloadsOf[c])
    /\ provider \in [Migratable -> Providers \cup {NoProvider}]
    /\ app \in [Slugs -> Migratable \cup {NoApp}]
    /\ mapping \in [MapNames -> Exprs \cup {NoMapping}]
    /\ late \subseteq Writes
    /\ faults \in 0..MaxFaults /\ foreign \in 0..MaxForeign
    /\ opts \in Options
    /\ phase \in {"idle", "run", "done", "stopped"}
    /\ res \in [Migratable ->
                   {"none", "CREATED", "SKIPPED", "UPDATED", "FAILED"}]
    /\ cur \in Migratable \cup {NoClient}
    /\ step \in {"none", "maps", "create", "app", "update"}
    /\ next \in Nat
    /\ mapper_pks \subseteq MapNames
    /\ IF cur = NoClient THEN next = 1 /\ mapper_pks = {}
       ELSE next <= Len(PayloadsOf[cur]) + 1

HasPair(c) == provider[c] # NoProvider /\ app[SlugOf[c]] = c

\* A row of an applied run that is not FAILED is about a whole pair: the
\* provider, and an application at its slug that is bound to it, also when
\* the run found half a pair (migrator.py:980-984).
RowMeansPair ==
    opts.apply =>
        \A c \in Migratable : res[c] \notin {"none", "FAILED"} => HasPair(c)

\* Tokens keep their contents: a provider made by the tool has a mapping for
\* every translated mapper of its client, with an expression that this mapper
\* has or had, whatever failed, was interrupted or was done twice before it
\* was made (README, "Nothing about tokens is guessed").  For a mapper that
\* was never edited that is its expression.
ClaimsAreAttached ==
    \A c \in Migratable :
        provider[c] # NoProvider /\ provider[c].by = "kc2ak" =>
            \A i \in DOMAIN kc[c] :
                LET name == kc[c][i].name
                IN  /\ name \in provider[c].maps
                    /\ [name |-> name, expr |-> mapping[name]] \in ever

\* Nothing that is attached to a provider is ever taken off again, and so what
\* somebody attached by hand survives --update-existing, which mappings are
\* no part of (migrator.py:991-996).
MappingsStayAttached ==
    [][\A c \in Migratable :
          provider[c] # NoProvider =>
              provider[c].maps \subseteq provider'[c].maps]_vars

\* "Interrupted run completes without duplicates" (migrator.py:997-1002): if
\* runs are repeated and faults stop some day, every client has its pair.
Converges == <>[](\A c \in Migratable : HasPair(c))
=============================================================================
