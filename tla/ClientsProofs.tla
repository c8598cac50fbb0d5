---------------------------- MODULE ClientsProofs ----------------------------
(***************************************************************************)
(* For every realm, every target and every number of faults and edits: the *)
(* types of Clients, that what is attached to a provider stays attached,   *)
(* that tokens keep their contents, and that a row that is not FAILED is   *)
(* about a whole pair if no two clients have one slug.                     *)
(***************************************************************************)
EXTENDS Clients, SequenceTheorems, TLAPS

USE DEF kcVars, akObjects, akVars, runVars, vars

-----------------------------------------------------------------------------
\* Authentik.

AkType ==
    /\ provider \in [Migratable -> Providers \cup {NoProvider}]
    /\ app \in [Slugs -> Migratable \cup {NoApp}]
    /\ mapping \in [MapNames -> Exprs \cup {NoMapping}]
    /\ late \subseteq Writes
    /\ faults \in 0..MaxFaults /\ foreign \in 0..MaxForeign

KcType ==
    /\ kc \in [KcClients -> Seq(Payloads)]
    /\ edits \in 0..MaxEdits
    /\ ever \subseteq Payloads
    /\ \A c \in KcClients : Len(kc[c]) = Len(PayloadsOf[c])

\* The loop over the payloads stands at one of them, or behind the last; when a
\* mapping is about to be created it stands at one.  A provider that is about to
\* be updated, or to get its application, is there.
PlaceOK ==
    /\ next >= 1
    /\ cur # NoClient /\ step = "create" => next <= Len(PayloadsOf[cur])
    /\ cur # NoClient /\ step \in {"app", "update"} => provider[cur] # NoProvider

RunType ==
    /\ seen \in [KcClients -> Seq(Payloads)]
    /\ \A c \in KcClients : Len(seen[c]) = Len(PayloadsOf[c])
    /\ opts \in Options
    /\ phase \in {"idle", "run", "done", "stopped"}
    /\ res \in [Migratable ->
                   {"none", "CREATED", "SKIPPED", "UPDATED", "FAILED"}]
    /\ cur \in Migratable \cup {NoClient}
    /\ step \in {"none", "maps", "create", "app", "update"}
    /\ next \in Nat
    /\ mapper_pks \subseteq MapNames
    /\ IF cur = NoClient THEN next = 1 /\ mapper_pks = {}
       ELSE next <= Len(PayloadsOf[cur]) + 1
    /\ PlaceOK

LEMMA FaultType == ASSUME AkType, Fault PROVE faults' \in 0..MaxFaults
  BY ClientsAssumption DEF AkType, Fault

\* A create has mappings, and an update finds its provider.
Founded(w) ==
    w \in ProviderWrites =>
        IF w.op = "create" THEN w.maps # Omitted
        ELSE w.maps = Omitted /\ provider[w.to] # NoProvider

LEMMA CommitType ==
    ASSUME AkType, NEW w \in Writes, Founded(w), Commit(w)
    PROVE  /\ provider' \in [Migratable -> Providers \cup {NoProvider}]
           /\ app' \in [Slugs -> Migratable \cup {NoApp}]
           /\ mapping' \in [MapNames -> Exprs \cup {NoMapping}]
  <1>1. CASE w \in MappingWrites /\ mapping' = [mapping EXCEPT ![w.to] = w.expr]
             /\ UNCHANGED <<provider, app>>
    BY <1>1 DEF AkType, MappingWrites
  <1>2. CASE w \in AppWrites /\ app' = [app EXCEPT ![w.to] = w.client]
             /\ UNCHANGED <<provider, mapping>>
    BY <1>2 DEF AkType, AppWrites
  <1>3. ASSUME w \in ProviderWrites, UNCHANGED <<app, mapping>>,
               provider' = [provider EXCEPT ![w.to] =
                   [by |-> IF w.op = "create" THEN "kc2ak" ELSE @.by,
                    maps |-> IF w.maps = Omitted THEN @.maps ELSE w.maps]]
        PROVE  provider' \in [Migratable -> Providers \cup {NoProvider}]
    <2>1. w.to \in Migratable /\ w.op \in {"create", "update"}
          /\ w.maps \in (SUBSET MapNames) \cup {Omitted}
      BY <1>3 DEF ProviderWrites
    <2>2. CASE w.op = "create"
      <3>1. provider' = [provider EXCEPT ![w.to] = [by |-> "kc2ak", maps |-> w.maps]]
        BY <1>3, <2>2 DEF Founded
      <3>2. [by |-> "kc2ak", maps |-> w.maps] \in Providers
        BY <1>3, <2>1, <2>2 DEF Providers, Founded
      <3> QED
        BY <3>1, <3>2 DEF AkType
    <2>3. CASE w.op = "update"
      <3>1. provider' = [provider EXCEPT ![w.to] =
                           [by |-> provider[w.to].by, maps |-> provider[w.to].maps]]
        BY <1>3, <2>3 DEF Founded
      <3>2. provider[w.to] \in Providers
        BY <1>3, <2>1, <2>3 DEF Founded, AkType
      <3>3. [by |-> provider[w.to].by, maps |-> provider[w.to].maps] \in Providers
        BY <3>2 DEF Providers
      <3> QED
        BY <3>1, <3>3 DEF AkType
    <2> QED
      BY <2>1, <2>2, <2>3
  <1> QED
    BY <1>1, <1>2, <1>3 DEF Commit, AkType

Ak == AkType /\ \A w \in late : Founded(w)

TypeInv == Ak /\ KcType /\ RunType

\* Nothing in Authentik is taken away or replaced, and nothing is detached.
Lasts ==
    /\ \A c \in Migratable :
          provider[c] # NoProvider =>
              /\ provider'[c] # NoProvider /\ provider'[c].by = provider[c].by
              /\ provider[c].maps \subseteq provider'[c].maps
    /\ \A s \in Slugs : app[s] # NoApp => app'[s] = app[s]
    /\ \A m \in MapNames : mapping[m] # NoMapping => mapping'[m] = mapping[m]

LEMMA NothingLasts == ASSUME UNCHANGED akObjects PROVE Lasts
  BY DEF Lasts

LEMMA CommitLasts ==
    ASSUME AkType, NEW w \in Writes, Founded(w), Accepts(w), Commit(w)
    PROVE  Lasts
  <1>1. ASSUME w \in MappingWrites, mapping' = [mapping EXCEPT ![w.to] = w.expr],
               UNCHANGED <<provider, app>>
        PROVE  Lasts
    <2>1. mapping[w.to] = NoMapping
      BY <1>1 DEF Accepts, MappingWrites, ProviderWrites, AppWrites
    <2> QED
      BY <1>1, <2>1 DEF Lasts, AkType
  <1>2. ASSUME w \in AppWrites, app' = [app EXCEPT ![w.to] = w.client],
               UNCHANGED <<provider, mapping>>
        PROVE  Lasts
    <2>1. app[w.to] = NoApp
      BY <1>2 DEF Accepts, MappingWrites, ProviderWrites, AppWrites
    <2> QED
      BY <1>2, <2>1 DEF Lasts, AkType
  <1>3. ASSUME w \in ProviderWrites, UNCHANGED <<app, mapping>>,
               provider' = [provider EXCEPT ![w.to] =
                   [by |-> IF w.op = "create" THEN "kc2ak" ELSE @.by,
                    maps |-> IF w.maps = Omitted THEN @.maps ELSE w.maps]]
        PROVE  Lasts
    <2>1. w.to \in Migratable /\ (w.op = "create" => provider[w.to] = NoProvider)
      BY <1>3 DEF Accepts, MappingWrites, ProviderWrites, AppWrites
    <2>2. \A c \in Migratable : c # w.to => provider'[c] = provider[c]
      BY <1>3, <2>1 DEF AkType
    <2>3. ASSUME provider[w.to] # NoProvider
          PROVE  /\ provider'[w.to] # NoProvider
                 /\ provider'[w.to].by = provider[w.to].by
                 /\ provider[w.to].maps \subseteq provider'[w.to].maps
      <3>1. w.op # "create" /\ w.maps = Omitted
        BY <1>3, <2>1, <2>3 DEF Founded
      <3>2. provider'[w.to] = [by |-> provider[w.to].by, maps |-> provider[w.to].maps]
        BY <1>3, <2>1, <3>1 DEF AkType
      <3>3. provider[w.to] \in Providers
        BY <2>1, <2>3 DEF AkType
      <3>4. provider'[w.to] \in Providers
        BY <3>2, <3>3 DEF Providers
      <3> QED
        BY <3>2, <3>4, NoneAssumption
    <2> QED
      BY <1>3, <2>2, <2>3 DEF Lasts
  <1> QED
    BY <1>1, <1>2, <1>3 DEF Commit

LEMMA FoundedLasts == ASSUME Lasts, NEW w, Founded(w) PROVE Founded(w)'
  BY DEF Lasts, Founded, ProviderWrites

LEMMA CallAk ==
    ASSUME Ak, NEW w \in Writes, Founded(w), NEW answer, Call(w, answer)
    PROVE  Ak' /\ Lasts /\ late' \subseteq late \cup {w}
           /\ (answer = "ok" => Accepts(w) /\ Commit(w))
  <1>1. /\ provider' \in [Migratable -> Providers \cup {NoProvider}]
        /\ app' \in [Slugs -> Migratable \cup {NoApp}]
        /\ mapping' \in [MapNames -> Exprs \cup {NoMapping}]
        /\ Lasts
    <2>1. CASE Accepts(w) /\ Commit(w)
      BY <2>1, CommitType, CommitLasts DEF Ak
    <2>2. CASE UNCHANGED akObjects
      BY <2>2, NothingLasts DEF Ak, AkType
    <2> QED
      BY <2>1, <2>2 DEF Call
  <1>2. late' \subseteq late \cup {w} /\ foreign' = foreign
        /\ (answer = "ok" => Accepts(w) /\ Commit(w))
    BY DEF Call
  <1>3. faults' \in 0..MaxFaults
    BY FaultType DEF Call, Ak, AkType
  <1>4. \A x \in late' : Founded(x)'
    BY <1>1, <1>2, FoundedLasts DEF Ak
  <1> QED
    BY <1>1, <1>2, <1>3, <1>4 DEF Ak, AkType

LEMMA LateAk == ASSUME Ak, LateCommit PROVE Ak' /\ Lasts
  <1>1. PICK w \in late :
          /\ late' = late \ {w}
          /\ IF Accepts(w) THEN Commit(w) ELSE UNCHANGED akObjects
    BY DEF LateCommit
  <1>2. w \in Writes /\ Founded(w) /\ UNCHANGED <<faults, foreign>>
    BY DEF LateCommit, Ak, AkType
  <1>3. /\ provider' \in [Migratable -> Providers \cup {NoProvider}]
        /\ app' \in [Slugs -> Migratable \cup {NoApp}]
        /\ mapping' \in [MapNames -> Exprs \cup {NoMapping}]
        /\ Lasts
    <2>1. CASE Accepts(w) /\ Commit(w)
      BY <1>2, <2>1, CommitType, CommitLasts DEF Ak
    <2>2. CASE UNCHANGED akObjects
      BY <2>2, NothingLasts DEF Ak, AkType
    <2> QED
      BY <1>1, <2>1, <2>2
  <1>4. \A x \in late' : Founded(x)'
    BY <1>1, <1>3, FoundedLasts DEF Ak
  <1> QED
    BY <1>1, <1>2, <1>3, <1>4 DEF Ak, AkType

LEMMA ForeignAk == ASSUME Ak, Foreign PROVE Ak' /\ Lasts
  <1>1. PICK c \in Migratable, ms \in SUBSET MapNames :
          /\ provider[c] = NoProvider
          /\ provider' = [provider EXCEPT ![c] = [by |-> "other", maps |-> ms]]
    BY DEF Foreign
  <1>2. foreign' \in 0..MaxForeign /\ UNCHANGED <<app, mapping, late, faults>>
    BY ClientsAssumption DEF Foreign, Ak, AkType
  <1>3. provider' \in [Migratable -> Providers \cup {NoProvider}]
    BY <1>1 DEF Ak, AkType, Providers
  <1>4. Lasts
    BY <1>1, <1>2 DEF Ak, AkType, Lasts
  <1> QED
    BY <1>2, <1>3, <1>4, FoundedLasts DEF Ak, AkType

-----------------------------------------------------------------------------
\* The type invariant.

LEMMA PayloadsType ==
    \A c \in KcClients :
        PayloadsOf[c] \in Seq(Payloads) /\ Len(PayloadsOf[c]) \in Nat
  BY ClientsAssumption

LEMMA InitType == Init => TypeInv
  <1> SUFFICES ASSUME Init PROVE TypeInv
    OBVIOUS
  <1>1. Ak
    BY ClientsAssumption DEF Init, Ak, AkType
  <1>2. KcType
    <2>1. ever \subseteq Payloads
      BY PayloadsType, ElementOfSeq DEF Init
    <2> QED
      BY <2>1, ClientsAssumption, PayloadsType DEF Init, KcType
  <1>3. RunType
    BY ClientsAssumption, PayloadsType, NoneAssumption DEF Init, RunType, PlaceOK, Options
  <1> QED
    BY <1>1, <1>2, <1>3 DEF TypeInv

LEMMA EditType == ASSUME KcType, Edit PROVE KcType'
  <1>1. PICK c \in Migratable : \E i \in DOMAIN kc[c] \ {1}, e \in Exprs :
          /\ kc' = [kc EXCEPT ![c][i].expr = e]
          /\ ever' = ever \cup {[name |-> kc[c][i].name, expr |-> e]}
    BY DEF Edit
  <1>2. PICK i \in DOMAIN kc[c], e \in Exprs :
          /\ kc' = [kc EXCEPT ![c][i].expr = e]
          /\ ever' = ever \cup {[name |-> kc[c][i].name, expr |-> e]}
    BY <1>1
  <1>3. c \in KcClients /\ kc[c] \in Seq(Payloads) /\ i \in 1..Len(kc[c])
    BY <1>2, ClientsAssumption DEF KcType
  <1>4. kc[c][i] \in Payloads
    BY <1>3, ElementOfSeq
  <1> DEFINE p == [kc[c][i] EXCEPT !.expr = e]
  <1>5. p \in Payloads /\ [name |-> kc[c][i].name, expr |-> e] \in Payloads
    BY <1>4 DEF Payloads
  <1>6. kc' = [kc EXCEPT ![c] = [kc[c] EXCEPT ![i] = p]]
    BY <1>2
  <1>7. [kc[c] EXCEPT ![i] = p] \in Seq(Payloads)
        /\ Len([kc[c] EXCEPT ![i] = p]) = Len(kc[c])
    BY <1>3, <1>5, ExceptSeq
  <1>8. kc' \in [KcClients -> Seq(Payloads)]
        /\ \A d \in KcClients : Len(kc'[d]) = Len(kc[d])
    <2> HIDE DEF p
    <2> QED
      BY <1>3, <1>6, <1>7 DEF KcType
  <1>9. edits' \in 0..MaxEdits
    BY ClientsAssumption DEF Edit, KcType
  <1> QED
    BY <1>2, <1>5, <1>8, <1>9 DEF KcType

Outcomes == {"none", "CREATED", "SKIPPED", "UPDATED", "FAILED"}

LEMMA RowType ==
    ASSUME RunType, NEW c \in Migratable, NEW o \in Outcomes, Row(c, o),
           UNCHANGED <<opts, seen, phase>>
    PROVE  RunType'
  BY DEF RunType, Row, PlaceOK, Outcomes

LEMMA WriteType ==
    ASSUME RunType, NEW c \in Migratable, cur \in {c, NoClient},
           NEW s \in {"maps", "create", "app", "update"}, Write(c, s),
           s = "create" => next <= Len(PayloadsOf[c]),
           s \in {"app", "update"} => provider'[c] # NoProvider,
           UNCHANGED <<opts, seen, phase>>
    PROVE  RunType'
  <1>1. next' <= Len(PayloadsOf[c]) + 1 /\ cur' = c /\ cur' # NoClient
    BY PayloadsType, ClientsAssumption, NoneAssumption DEF RunType, Write
  <1> QED
    BY <1>1 DEF RunType, Write, PlaceOK

LEMMA AttachType ==
    ASSUME RunType, cur # NoClient, next <= Len(PayloadsOf[cur]),
           Payload \in Payloads, Attach, UNCHANGED <<opts, seen, phase>>
    PROVE  RunType'
  <1>1. Payload.name \in MapNames /\ cur \in KcClients
    BY ClientsAssumption DEF RunType, Payloads
  <1> QED
    BY <1>1, PayloadsType DEF RunType, Attach, PlaceOK

LEMMA InHandType ==
    ASSUME RunType, cur # NoClient
    PROVE  cur \in Migratable /\ cur \in KcClients
           /\ Len(seen[cur]) = Len(PayloadsOf[cur])
  BY ClientsAssumption DEF RunType

LEMMA PayloadType ==
    ASSUME RunType, cur # NoClient, next <= Len(PayloadsOf[cur])
    PROVE  Payload \in Payloads
  <1>1. seen[cur] \in Seq(Payloads) /\ next \in 1..Len(seen[cur])
    BY InHandType DEF RunType, PlaceOK
  <1> QED
    BY <1>1, ElementOfSeq DEF Payload

LEMMA AkKeeps == ASSUME Ak, UNCHANGED akVars PROVE Ak' /\ Lasts
  BY NothingLasts DEF Ak, AkType, Founded

LEMMA KcKeeps == ASSUME KcType, UNCHANGED kcVars PROVE KcType'
  BY DEF KcType

\* Variables of the run alone do not change: its place stays right, for
\* providers stay.
LEMMA RunKeeps == ASSUME RunType, UNCHANGED runVars, Lasts PROVE RunType'
  BY DEF RunType, PlaceOK, Lasts

LEMMA StartType ==
    ASSUME TypeInv, NEW o \in Invocations, Start(o) PROVE TypeInv' /\ Lasts
  <1>1. UNCHANGED <<kcVars, akVars>> /\ opts' \in Options
    BY ClientsAssumption DEF Start
  <1>2. RunType'
    BY <1>1, NoneAssumption DEF Start, TypeInv, KcType, RunType, PlaceOK
  <1> QED
    BY <1>1, <1>2, AkKeeps, KcKeeps DEF TypeInv

LEMMA ReadFailsType == ASSUME TypeInv, ReadFails PROVE TypeInv' /\ Lasts
  <1>1. PICK c \in Migratable : Row(c, "FAILED")
    BY DEF ReadFails
  <1>2. UNCHANGED <<kcVars, akObjects, late, foreign, opts, seen, phase>> /\ Fault
    BY DEF ReadFails
  <1>3. RunType'
    BY <1>1, <1>2, RowType DEF TypeInv, Outcomes
  <1>4. Ak' /\ Lasts
    BY <1>2, FaultType, NothingLasts DEF TypeInv, Ak, AkType, Founded
  <1> QED
    BY <1>2, <1>3, <1>4, KcKeeps DEF TypeInv

LEMMA MatchType ==
    ASSUME TypeInv, NEW c \in Migratable, Match(c) \/ New(c)
    PROVE  TypeInv' /\ Lasts
  <1>1. UNCHANGED <<kcVars, akVars, opts, seen, phase>> /\ cur = NoClient
    BY DEF Match, New, Waiting
  <1>2. \/ \E o \in Outcomes : Row(c, o)
        \/ \E s \in {"maps", "app", "update"} :
              Write(c, s) /\ (s \in {"app", "update"} => provider'[c] # NoProvider)
    BY <1>1 DEF Match, New, Outcomes
  <1>3. RunType'
    BY <1>1, <1>2, RowType, WriteType DEF TypeInv
  <1> QED
    BY <1>1, <1>3, AkKeeps, KcKeeps DEF TypeInv

LEMMA FindMappingType == ASSUME TypeInv, FindMapping PROVE TypeInv' /\ Lasts
  <1>1. /\ UNCHANGED <<kcVars, akVars, opts, seen, phase>>
        /\ cur # NoClient /\ cur \in Migratable /\ next <= Len(PayloadsOf[cur])
    BY InHandType DEF FindMapping, InHand, TypeInv
  <1>2. ASSUME Attach PROVE RunType'
    BY <1>1, <1>2, PayloadType, AttachType DEF TypeInv
  <1>3. ASSUME Write(cur, "create") PROVE RunType'
    BY <1>1, <1>3, WriteType DEF TypeInv
  <1>4. RunType'
    BY <1>2, <1>3 DEF FindMapping
  <1> QED
    BY <1>1, <1>4, AkKeeps, KcKeeps DEF TypeInv

MappingWrite == [kind |-> "mapping", to |-> Payload.name, expr |-> Payload.expr]

LEMMA CreateMappingType == ASSUME TypeInv, CreateMapping PROVE TypeInv' /\ Lasts
  <1>1. /\ UNCHANGED <<kcVars, opts, seen, phase>>
        /\ cur # NoClient /\ cur \in Migratable /\ next <= Len(PayloadsOf[cur])
    BY InHandType DEF CreateMapping, InHand, TypeInv, RunType, PlaceOK
  <1>2. Payload \in Payloads
    BY <1>1, PayloadType DEF TypeInv
  <1>3. MappingWrite \in Writes /\ Founded(MappingWrite)
    BY <1>2 DEF MappingWrite, Payloads, Writes, MappingWrites, Founded, ProviderWrites
  <1>4. PICK answer \in {"ok", "failed"} :
          /\ Call(MappingWrite, answer)
          /\ IF answer = "ok" THEN Attach ELSE Row(cur, "FAILED")
    BY DEF CreateMapping, MappingWrite
  <1>5. Ak' /\ Lasts
    BY <1>3, <1>4, CallAk DEF TypeInv
  <1>6. ASSUME Attach PROVE RunType'
    BY <1>1, <1>2, <1>6, AttachType DEF TypeInv
  <1>7. ASSUME Row(cur, "FAILED") PROVE RunType'
    BY <1>1, <1>7, RowType DEF TypeInv, Outcomes
  <1> QED
    BY <1>1, <1>4, <1>5, <1>6, <1>7, KcKeeps DEF TypeInv

ProviderWrite ==
    [kind |-> "provider", op |-> "create", to |-> cur, maps |-> mapper_pks]

LEMMA CreateProviderType == ASSUME TypeInv, CreateProvider PROVE TypeInv' /\ Lasts
  <1>1. /\ UNCHANGED <<kcVars, opts, seen, phase>>
        /\ cur # NoClient /\ cur \in Migratable /\ mapper_pks \in SUBSET MapNames
    BY InHandType DEF CreateProvider, InHand, TypeInv, RunType
  <1>2. ProviderWrite \in ProviderWrites
    BY <1>1 DEF ProviderWrite, ProviderWrites
  <1>3. ProviderWrite \in Writes /\ Founded(ProviderWrite)
    BY <1>1, <1>2, NoneAssumption DEF ProviderWrite, Writes, Founded
  <1>4. PICK answer \in {"ok", "failed"} :
          /\ Call(ProviderWrite, answer)
          /\ IF answer = "ok" THEN Write(cur, "app") ELSE Row(cur, "FAILED")
    BY DEF CreateProvider, ProviderWrite
  <1>5. Ak' /\ Lasts /\ (answer = "ok" => Commit(ProviderWrite))
    BY <1>3, <1>4, CallAk DEF TypeInv
  <1>6. CASE answer = "ok"
    <2>1. provider' = [provider EXCEPT ![cur] = [by |-> "kc2ak", maps |-> mapper_pks]]
      BY <1>1, <1>5, <1>6, NoneAssumption
      DEF Commit, ProviderWrite, MappingWrites, ProviderWrites, AppWrites
    <2>2. [by |-> "kc2ak", maps |-> mapper_pks] \in Providers
      BY <1>1 DEF Providers
    <2>3. provider'[cur] # NoProvider
      BY <1>1, <2>1, <2>2, NoneAssumption DEF TypeInv, Ak, AkType
    <2>4. RunType'
      BY <1>1, <1>4, <1>6, <2>3, WriteType DEF TypeInv
    <2> QED
      BY <1>1, <1>5, <2>4, KcKeeps DEF TypeInv
  <1>7. CASE Row(cur, "FAILED")
    BY <1>1, <1>5, <1>7, RowType, KcKeeps DEF TypeInv, Outcomes
  <1> QED
    BY <1>4, <1>6, <1>7

LEMMA WriteRowType ==
    ASSUME TypeInv, cur # NoClient, NEW w \in Writes, Founded(w), NEW o \in Outcomes,
           NEW answer \in {"ok", "failed"}, Call(w, answer),
           Row(cur, IF answer = "ok" THEN o ELSE "FAILED"),
           UNCHANGED <<kcVars, opts, seen, phase>>
    PROVE  TypeInv' /\ Lasts
  <1>1. Ak' /\ Lasts
    BY CallAk DEF TypeInv
  <1>2. RunType'
    BY InHandType, RowType DEF TypeInv, Outcomes
  <1> QED
    BY <1>1, <1>2, KcKeeps DEF TypeInv

AppWrite == [kind |-> "app", to |-> SlugOf[cur], client |-> cur]

LEMMA AppWriteFounded ==
    ASSUME TypeInv, cur # NoClient
    PROVE  AppWrite \in AppWrites /\ AppWrite \in Writes /\ Founded(AppWrite)
  <1>1. cur \in Migratable /\ SlugOf[cur] \in Slugs
    BY InHandType, ClientsAssumption DEF TypeInv
  <1> QED
    BY <1>1 DEF AppWrite, AppWrites, Writes, Founded, ProviderWrites

LEMMA CreateApplicationType ==
    ASSUME TypeInv, CreateApplication PROVE TypeInv' /\ Lasts
  <1>1. cur # NoClient /\ UNCHANGED <<kcVars, opts, seen, phase>>
    BY DEF CreateApplication, InHand
  <1>2. PICK answer \in {"ok", "failed"} :
          /\ Call(AppWrite, answer)
          /\ Row(cur, IF answer = "ok" THEN "CREATED" ELSE "FAILED")
    BY DEF CreateApplication, AppWrite
  <1> QED
    BY <1>1, <1>2, AppWriteFounded, WriteRowType DEF Outcomes

LEMMA UpdateFounded ==
    ASSUME TypeInv, cur # NoClient, step = "update"
    PROVE  UpdatePayload(cur) \in Writes /\ Founded(UpdatePayload(cur))
  <1>1. cur \in Migratable /\ provider[cur] # NoProvider
    BY InHandType DEF TypeInv, RunType, PlaceOK
  <1> QED
    BY <1>1 DEF UpdatePayload, Writes, Founded, ProviderWrites

LEMMA UpdateProviderType == ASSUME TypeInv, UpdateProvider PROVE TypeInv' /\ Lasts
  <1>1. cur # NoClient /\ step = "update" /\ UNCHANGED <<kcVars, opts, seen, phase>>
    BY DEF UpdateProvider, InHand
  <1>2. PICK answer \in {"ok", "failed"} :
          /\ Call(UpdatePayload(cur), answer)
          /\ Row(cur, IF answer = "ok" THEN "UPDATED" ELSE "FAILED")
    BY DEF UpdateProvider
  <1> QED
    BY <1>1, <1>2, UpdateFounded, WriteRowType DEF Outcomes

LEMMA NextType == ASSUME TypeInv, [Next]_vars PROVE TypeInv' /\ Lasts
  <1>1. ASSUME NEW o \in Invocations, Start(o) PROVE TypeInv' /\ Lasts
    BY <1>1, StartType
  <1>2. CASE Finish
    <2>1. UNCHANGED <<kcVars, akVars>> /\ RunType'
      BY <1>2 DEF Finish, TypeInv, RunType, PlaceOK
    <2> QED
      BY <2>1, AkKeeps, KcKeeps DEF TypeInv
  <1>3. CASE Interrupt
    <2>1. UNCHANGED <<kcVars, akObjects, late, foreign>> /\ Fault /\ RunType'
      BY <1>3 DEF Interrupt, TypeInv, RunType, PlaceOK
    <2>2. Ak' /\ Lasts
      BY <2>1, FaultType, NothingLasts DEF TypeInv, Ak, AkType, Founded
    <2> QED
      BY <2>1, <2>2, KcKeeps DEF TypeInv
  <1>4. CASE LateCommit
    <2>1. UNCHANGED <<kcVars, runVars>>
      BY <1>4 DEF LateCommit
    <2> QED
      BY <1>4, <2>1, LateAk, KcKeeps, RunKeeps DEF TypeInv
  <1>5. CASE Foreign
    <2>1. UNCHANGED <<kcVars, runVars>>
      BY <1>5 DEF Foreign
    <2> QED
      BY <1>5, <2>1, ForeignAk, KcKeeps, RunKeeps DEF TypeInv
  <1>6. CASE Edit
    <2>1. UNCHANGED <<akVars, runVars>>
      BY <1>6 DEF Edit
    <2> QED
      BY <1>6, <2>1, AkKeeps, EditType, RunKeeps DEF TypeInv
  <1>7. CASE UNCHANGED vars
    BY <1>7, AkKeeps, KcKeeps, RunKeeps DEF TypeInv
  <1>8. CASE Pass
    BY <1>2, <1>8, ReadFailsType, MatchType, FindMappingType, CreateMappingType,
       CreateProviderType, CreateApplicationType, UpdateProviderType DEF Pass
  <1> QED
    BY <1>1, <1>3, <1>4, <1>5, <1>6, <1>7, <1>8 DEF Next, Run

\* Every variable stays in its domain, in every realm and on every target.
THEOREM TypeCorrect == Spec => []TypeOK
  <1>1. Init => TypeInv
    BY InitType
  <1>2. TypeInv /\ [Next]_vars => TypeInv'
    BY NextType
  <1>3. TypeInv => TypeOK
    BY DEF TypeInv, Ak, AkType, KcType, RunType, TypeOK
  <1> QED
    BY <1>1, <1>2, <1>3, PTL DEF Spec

\* What is attached to a provider is never taken off again, by no run, no
\* request that arrives late and no administrator's work.
THEOREM NothingIsDetached == Spec => MappingsStayAttached
  <1>1. Init => TypeInv
    BY InitType
  <1>2. TypeInv /\ [Next]_vars => TypeInv'
    BY NextType
  <1>3. TypeInv /\ [Next]_vars =>
          [\A c \in Migratable :
              provider[c] # NoProvider =>
                  provider[c].maps \subseteq provider'[c].maps]_vars
    BY NextType DEF Lasts
  <1> QED
    BY <1>1, <1>2, <1>3, PTL DEF Spec, MappingsStayAttached

-----------------------------------------------------------------------------
\* Tokens keep their contents.

NamesOf(c) == {PayloadsOf[c][i].name : i \in DOMAIN PayloadsOf[c]}

Present == {m \in MapNames : mapping[m] # NoMapping}

\* An edit changes an expression only, and ever forgets nothing: it has all
\* that a run has read.
Remembered ==
    \A c \in KcClients : \A i \in DOMAIN PayloadsOf[c] :
        /\ kc[c][i].name = PayloadsOf[c][i].name /\ kc[c][i] \in ever
        /\ seen[c][i].name = PayloadsOf[c][i].name /\ seen[c][i] \in ever

\* A mapping has an expression that a client has or had under its name.
Genuine == \A m \in Present : [name |-> m, expr |-> mapping[m]] \in ever

\* What is attached to a provider is there, and of a provider that the tool
\* made nothing is missing.
Whole ==
    \A c \in Migratable :
        provider[c] # NoProvider =>
            /\ provider[c].maps \subseteq Present
            /\ provider[c].by = "kc2ak" => NamesOf(c) \subseteq provider[c].maps

\* The same of the requests that will write them, however late.
Honest(w) ==
    /\ w \in MappingWrites => [name |-> w.to, expr |-> w.expr] \in ever
    /\ w \in ProviderWrites /\ w.op = "create" =>
           NamesOf(w.to) \subseteq w.maps /\ w.maps \subseteq Present

\* The loop over the payloads has attached what is behind it.
Gathered ==
    /\ mapper_pks \subseteq Present
    /\ cur # NoClient =>
          \A i \in DOMAIN PayloadsOf[cur] :
              i < next => PayloadsOf[cur][i].name \in mapper_pks

Target == Genuine /\ Whole /\ \A w \in late : Honest(w)
ClaimInv == Remembered /\ Gathered /\ Target

LEMMA PresentLasts == ASSUME Lasts PROVE Present \subseteq Present'
  BY DEF Lasts, Present

LEMMA HonestLasts ==
    ASSUME Lasts, ever \subseteq ever', NEW w, Honest(w) PROVE Honest(w)'
  BY PresentLasts DEF Honest

LEMMA NothingWritten ==
    ASSUME Target, UNCHANGED akObjects, ever \subseteq ever',
           late' \subseteq late
    PROVE  Target'
  <1>1. \A w \in late' : Honest(w)'
    BY NothingLasts, HonestLasts DEF Target
  <1> QED
    BY <1>1 DEF Target, Genuine, Whole, Present

LEMMA CommitTarget ==
    ASSUME AkType, Target, NEW w \in Writes, Founded(w), Honest(w), Accepts(w),
           Commit(w), ever' = ever
    PROVE  Genuine' /\ Whole'
  <1>1. Present \subseteq Present'
    BY CommitLasts, PresentLasts
  <1>2. ASSUME w \in MappingWrites, mapping' = [mapping EXCEPT ![w.to] = w.expr],
               UNCHANGED <<provider, app>>
        PROVE  Genuine' /\ Whole'
    <2>1. w.to \in MapNames /\ [name |-> w.to, expr |-> w.expr] \in ever
      BY <1>2 DEF Honest, MappingWrites
    <2>2. Genuine'
      BY <1>2, <2>1 DEF AkType, Target, Genuine, Present
    <2>3. Whole'
      BY <1>1, <1>2 DEF Target, Whole
    <2> QED
      BY <2>2, <2>3
  <1>3. ASSUME w \in AppWrites, UNCHANGED <<provider, mapping>>
        PROVE  Genuine' /\ Whole'
    BY <1>3 DEF Target, Genuine, Whole, Present
  <1>4. ASSUME w \in ProviderWrites, UNCHANGED <<app, mapping>>,
               provider' = [provider EXCEPT ![w.to] =
                   [by |-> IF w.op = "create" THEN "kc2ak" ELSE @.by,
                    maps |-> IF w.maps = Omitted THEN @.maps ELSE w.maps]]
        PROVE  Genuine' /\ Whole'
    <2>1. w.to \in Migratable /\ \A c \in Migratable :
              c # w.to => provider'[c] = provider[c]
      BY <1>4 DEF AkType, ProviderWrites
    <2>2. Present' = Present
      BY <1>4 DEF Present
    <2>3. CASE w.op = "create"
      <3>1. provider'[w.to] = [by |-> "kc2ak", maps |-> w.maps]
        BY <1>4, <2>1, <2>3 DEF AkType, Founded
      <3>2. NamesOf(w.to) \subseteq w.maps /\ w.maps \subseteq Present
        BY <1>4, <2>3 DEF Honest
      <3>3. Whole'
        BY <2>1, <2>2, <3>1, <3>2 DEF Target, Whole
      <3> QED
        BY <1>4, <2>2, <3>3 DEF Target, Genuine
    <2>4. CASE w.op # "create"
      <3>1. provider[w.to] # NoProvider
            /\ provider'[w.to] = [by |-> provider[w.to].by, maps |-> provider[w.to].maps]
        BY <1>4, <2>1, <2>4 DEF AkType, Founded
      <3>2. Whole'
        BY <2>1, <2>2, <3>1 DEF Target, Whole
      <3> QED
        BY <1>4, <2>2, <3>2 DEF Target, Genuine
    <2> QED
      BY <2>3, <2>4
  <1> QED
    BY <1>2, <1>3, <1>4 DEF Commit

LEMMA CallTarget ==
    ASSUME Ak, Target, NEW w \in Writes, Founded(w), Honest(w), NEW answer,
           Call(w, answer), ever' = ever
    PROVE  Target'
  <1>1. Lasts /\ late' \subseteq late \cup {w}
    BY CallAk
  <1>2. Genuine' /\ Whole'
    <2>1. CASE Accepts(w) /\ Commit(w)
      BY <2>1, CommitTarget DEF Ak
    <2>2. CASE UNCHANGED akObjects
      BY <2>2 DEF Target, Genuine, Whole, Present
    <2> QED
      BY <2>1, <2>2 DEF Call
  <1>3. \A x \in late' : Honest(x)'
    BY <1>1, HonestLasts DEF Target
  <1> QED
    BY <1>2, <1>3 DEF Target

LEMMA LateTarget == ASSUME Ak, Target, LateCommit PROVE Target'
  <1>1. PICK w \in late :
          /\ late' = late \ {w}
          /\ IF Accepts(w) THEN Commit(w) ELSE UNCHANGED akObjects
    BY DEF LateCommit
  <1>2. w \in Writes /\ Founded(w) /\ Honest(w) /\ ever' = ever
    BY DEF LateCommit, Ak, AkType, Target
  <1>3. Genuine' /\ Whole'
    <2>1. CASE Accepts(w) /\ Commit(w)
      BY <1>2, <2>1, CommitTarget DEF Ak
    <2>2. CASE UNCHANGED akObjects
      BY <1>2, <2>2 DEF Target, Genuine, Whole, Present
    <2> QED
      BY <1>1, <2>1, <2>2
  <1>4. \A x \in late' : Honest(x)'
    BY <1>1, <1>2, LateAk, HonestLasts DEF Target
  <1> QED
    BY <1>3, <1>4 DEF Target

LEMMA ForeignTarget == ASSUME Ak, Target, Foreign PROVE Target'
  <1>1. PICK c \in Migratable, ms \in SUBSET MapNames :
          /\ \A m \in ms : mapping[m] # NoMapping
          /\ provider' = [provider EXCEPT ![c] = [by |-> "other", maps |-> ms]]
    BY DEF Foreign
  <1>2. UNCHANGED <<mapping, late, ever>>
    BY DEF Foreign
  <1>3. provider'[c] = [by |-> "other", maps |-> ms]
        /\ \A d \in Migratable : d # c => provider'[d] = provider[d]
    BY <1>1 DEF Ak, AkType
  <1>4. Whole'
    BY <1>1, <1>2, <1>3 DEF Target, Whole, Present
  <1>5. \A x \in late' : Honest(x)'
    BY <1>2, ForeignAk, HonestLasts DEF Target
  <1> QED
    BY <1>2, <1>4, <1>5 DEF Target, Genuine, Present

\* A row, and the place in the loop.
LEMMA RowGathers ==
    ASSUME NEW c, NEW o, Row(c, o) PROVE Gathered'
  BY DEF Row, Gathered

LEMMA WriteGathers ==
    ASSUME TypeInv, Gathered, Lasts, NEW c \in Migratable, cur \in {c, NoClient},
           NEW s, Write(c, s)
    PROVE  Gathered'
  <1>1. mapper_pks \subseteq Present'
    BY PresentLasts DEF Gathered
  <1>2. cur = NoClient => next = 1
    BY DEF TypeInv, RunType
  <1>3. \A i \in DOMAIN PayloadsOf[c] : i >= 1 /\ i \in Nat
    BY PayloadsType, ClientsAssumption
  <1> QED
    BY <1>1, <1>2, <1>3 DEF Write, Gathered

LEMMA AttachGathers ==
    ASSUME TypeInv, Remembered, Gathered, Lasts, cur # NoClient,
           next <= Len(PayloadsOf[cur]), Attach, mapping'[Payload.name] # NoMapping
    PROVE  Gathered'
  <1>1. cur \in KcClients /\ next \in DOMAIN PayloadsOf[cur] /\ next \in Nat
        /\ PayloadsOf[cur] \in Seq(Payloads)
    BY InHandType, PayloadsType DEF TypeInv, RunType, PlaceOK
  <1>2. Payload.name = PayloadsOf[cur][next].name
    BY <1>1 DEF Payload, Remembered
  <1>3. Payload.name \in MapNames
    BY PayloadType DEF TypeInv, Payloads
  <1>4. mapper_pks' \subseteq Present'
    BY <1>3, PresentLasts DEF Gathered, Attach, Present
  <1>5. \A i \in DOMAIN PayloadsOf[cur] : i \in Nat
    BY <1>1
  <1>6. ASSUME NEW i \in DOMAIN PayloadsOf[cur], i < next'
        PROVE  PayloadsOf[cur][i].name \in mapper_pks'
    <2>1. i < next \/ i = next
      BY <1>1, <1>5, <1>6 DEF Attach
    <2> QED
      BY <1>2, <2>1 DEF Gathered, Attach
  <1> QED
    BY <1>4, <1>6 DEF Gathered, Attach

\* A step of the run that writes nothing, and leaves what it has read.
LEMMA QuietClaim ==
    ASSUME TypeInv, ClaimInv, UNCHANGED <<kcVars, akObjects, late, seen>>, Gathered'
    PROVE  ClaimInv'
  <1>1. Target'
    BY NothingWritten DEF ClaimInv
  <1> QED
    BY <1>1 DEF ClaimInv, Remembered

LEMMA CallClaim ==
    ASSUME TypeInv, ClaimInv, NEW w \in Writes, Founded(w), Honest(w), NEW answer,
           Call(w, answer), UNCHANGED <<kcVars, seen>>, Gathered'
    PROVE  ClaimInv'
  <1>1. Target'
    BY CallTarget DEF ClaimInv, TypeInv
  <1> QED
    BY <1>1 DEF ClaimInv, Remembered

LEMMA StartClaim ==
    ASSUME TypeInv, ClaimInv, NEW o \in Invocations, Start(o) PROVE ClaimInv'
  <1>1. Gathered'
    BY DEF Start, Gathered
  <1>2. Remembered'
    BY DEF Start, ClaimInv, Remembered
  <1>3. Target'
    BY NothingWritten DEF Start, ClaimInv
  <1> QED
    BY <1>1, <1>2, <1>3 DEF ClaimInv

LEMMA FindMappingClaim == ASSUME TypeInv, ClaimInv, FindMapping PROVE ClaimInv'
  <1>1. /\ UNCHANGED <<kcVars, akVars, seen>>
        /\ cur # NoClient /\ cur \in Migratable /\ next <= Len(PayloadsOf[cur])
    BY InHandType DEF FindMapping, InHand, TypeInv
  <1>2. CASE MappingFound
    BY <1>1, <1>2, NothingLasts, AttachGathers, QuietClaim
    DEF FindMapping, MappingFound, ClaimInv
  <1>3. CASE ~MappingFound
    BY <1>1, <1>3, NothingLasts, WriteGathers, QuietClaim DEF FindMapping, ClaimInv
  <1> QED
    BY <1>2, <1>3

LEMMA CreateMappingClaim == ASSUME TypeInv, ClaimInv, CreateMapping PROVE ClaimInv'
  <1>1. /\ UNCHANGED <<kcVars, seen>> /\ cur # NoClient /\ cur \in KcClients
        /\ next \in DOMAIN PayloadsOf[cur] /\ next <= Len(PayloadsOf[cur])
    BY InHandType, PayloadsType DEF CreateMapping, InHand, TypeInv, RunType, PlaceOK
  <1>2. Payload \in Payloads /\ Payload \in ever
    BY <1>1, PayloadType DEF TypeInv, ClaimInv, Remembered, Payload
  <1>3. MappingWrite \in MappingWrites
    BY <1>2 DEF MappingWrite, Payloads, MappingWrites
  <1>4. MappingWrite \in Writes /\ Founded(MappingWrite)
    BY <1>3 DEF MappingWrite, Writes, Founded, ProviderWrites
  <1>5. Honest(MappingWrite)
    BY <1>2 DEF Honest, MappingWrite, ProviderWrites, Payloads
  <1>6. PICK answer \in {"ok", "failed"} :
          /\ Call(MappingWrite, answer)
          /\ IF answer = "ok" THEN Attach ELSE Row(cur, "FAILED")
    BY DEF CreateMapping, MappingWrite
  <1>7. Lasts /\ (answer = "ok" => Commit(MappingWrite))
    BY <1>4, <1>6, CallAk DEF TypeInv
  <1>8. ASSUME answer = "ok" PROVE Gathered'
    <2>1. mapping' = [mapping EXCEPT ![Payload.name] = Payload.expr]
      BY <1>3, <1>7, <1>8 DEF Commit, MappingWrite, MappingWrites, ProviderWrites, AppWrites
    <2>2. mapping'[Payload.name] # NoMapping
      BY <1>2, <2>1, NoneAssumption DEF TypeInv, Ak, AkType, Payloads
    <2> QED
      BY <1>1, <1>6, <1>7, <1>8, <2>2, AttachGathers DEF ClaimInv
  <1>9. ASSUME answer # "ok" PROVE Gathered'
    BY <1>6, <1>9, RowGathers
  <1> QED
    BY <1>1, <1>4, <1>5, <1>6, <1>8, <1>9, CallClaim

LEMMA CreateProviderClaim == ASSUME TypeInv, ClaimInv, CreateProvider PROVE ClaimInv'
  <1>1. /\ UNCHANGED <<kcVars, seen>> /\ cur # NoClient /\ cur \in Migratable
        /\ cur \in KcClients /\ next > Len(PayloadsOf[cur]) /\ next \in Nat
        /\ mapper_pks \in SUBSET MapNames
    BY InHandType DEF CreateProvider, InHand, TypeInv, RunType
  <1>2. ProviderWrite \in ProviderWrites
    BY <1>1 DEF ProviderWrite, ProviderWrites
  <1>3. ProviderWrite \in Writes /\ Founded(ProviderWrite)
    BY <1>1, <1>2, NoneAssumption DEF ProviderWrite, Writes, Founded
  <1>4. \A i \in DOMAIN PayloadsOf[cur] : i < next
    BY <1>1, PayloadsType
  <1>5. NamesOf(cur) \subseteq mapper_pks /\ mapper_pks \subseteq Present
    BY <1>1, <1>4 DEF NamesOf, ClaimInv, Gathered
  <1>6. Honest(ProviderWrite)
    BY <1>5 DEF Honest, ProviderWrite, MappingWrites
  <1>7. PICK answer \in {"ok", "failed"} :
          /\ Call(ProviderWrite, answer)
          /\ IF answer = "ok" THEN Write(cur, "app") ELSE Row(cur, "FAILED")
    BY DEF CreateProvider, ProviderWrite
  <1>8. Lasts
    BY <1>3, <1>7, CallAk DEF TypeInv
  <1>9. Gathered'
    BY <1>1, <1>7, <1>8, RowGathers, WriteGathers DEF ClaimInv
  <1> QED
    BY <1>1, <1>3, <1>6, <1>7, <1>9, CallClaim

LEMMA CreateApplicationClaim ==
    ASSUME TypeInv, ClaimInv, CreateApplication PROVE ClaimInv'
  <1>1. cur # NoClient /\ UNCHANGED <<kcVars, seen>>
    BY DEF CreateApplication, InHand
  <1>2. PICK answer \in {"ok", "failed"} :
          /\ Call(AppWrite, answer)
          /\ Row(cur, IF answer = "ok" THEN "CREATED" ELSE "FAILED")
    BY DEF CreateApplication, AppWrite
  <1>3. Honest(AppWrite)
    BY DEF Honest, AppWrite, MappingWrites, ProviderWrites
  <1> QED
    BY <1>1, <1>2, <1>3, AppWriteFounded, RowGathers, CallClaim

LEMMA UpdateProviderClaim ==
    ASSUME TypeInv, ClaimInv, UpdateProvider PROVE ClaimInv'
  <1>1. cur # NoClient /\ step = "update" /\ UNCHANGED <<kcVars, seen>>
    BY DEF UpdateProvider, InHand
  <1>2. PICK answer \in {"ok", "failed"} :
          /\ Call(UpdatePayload(cur), answer)
          /\ Row(cur, IF answer = "ok" THEN "UPDATED" ELSE "FAILED")
    BY DEF UpdateProvider
  <1>3. Honest(UpdatePayload(cur))
    BY DEF Honest, UpdatePayload, MappingWrites
  <1> QED
    BY <1>1, <1>2, <1>3, UpdateFounded, RowGathers, CallClaim

LEMMA EditClaim == ASSUME TypeInv, ClaimInv, Edit PROVE ClaimInv'
  <1>1. PICK c \in Migratable : \E i \in DOMAIN kc[c] \ {1}, e \in Exprs :
          /\ kc' = [kc EXCEPT ![c][i].expr = e]
          /\ ever' = ever \cup {[name |-> kc[c][i].name, expr |-> e]}
    BY DEF Edit
  <1>2. PICK i \in DOMAIN kc[c], e \in Exprs :
          /\ kc' = [kc EXCEPT ![c][i].expr = e]
          /\ ever' = ever \cup {[name |-> kc[c][i].name, expr |-> e]}
    BY <1>1
  <1>3. c \in KcClients /\ kc[c] \in Seq(Payloads) /\ i \in 1..Len(kc[c])
        /\ UNCHANGED <<akVars, runVars>>
    BY <1>2, ClientsAssumption DEF Edit, TypeInv, KcType
  <1>4. kc[c][i] \in Payloads
    BY <1>3, ElementOfSeq
  <1> DEFINE p == [kc[c][i] EXCEPT !.expr = e]
  <1>5. p.name = kc[c][i].name /\ p \in ever'
    BY <1>2, <1>4 DEF Payloads
  <1>6. kc' = [kc EXCEPT ![c] = [kc[c] EXCEPT ![i] = p]]
    BY <1>2
  <1>7. /\ \A d \in KcClients : d # c => kc'[d] = kc[d]
        /\ \A j \in DOMAIN kc[c] : kc'[c][j] = IF j = i THEN p ELSE kc[c][j]
    <2> HIDE DEF p
    <2> QED
      BY <1>3, <1>6 DEF TypeInv, KcType
  <1>8. DOMAIN kc[c] = DOMAIN PayloadsOf[c]
    BY <1>3, PayloadsType DEF TypeInv, KcType
  <1>9. Remembered'
    <2> HIDE DEF p
    <2>1. ever \subseteq ever' /\ seen' = seen
      BY <1>2, <1>3
    <2> QED
      BY <1>5, <1>7, <1>8, <2>1 DEF ClaimInv, Remembered
  <1>10. Target'
    BY <1>2, <1>3, NothingWritten DEF ClaimInv
  <1> QED
    BY <1>3, <1>9, <1>10 DEF ClaimInv, Gathered, Present

LEMMA InitClaim == Init => ClaimInv
  <1> SUFFICES ASSUME Init PROVE ClaimInv
    OBVIOUS
  <1>1. Remembered
    BY DEF Init, Remembered
  <1>2. Gathered /\ Target
    BY DEF Init, Gathered, Target, Genuine, Whole, Present
  <1> QED
    BY <1>1, <1>2 DEF ClaimInv

LEMMA NextClaim == ASSUME TypeInv, ClaimInv, [Next]_vars PROVE ClaimInv'
  <1>1. ASSUME NEW o \in Invocations, Start(o) PROVE ClaimInv'
    BY <1>1, StartClaim
  <1>2. CASE ReadFails
    BY <1>2, RowGathers, QuietClaim DEF ReadFails
  <1>3. ASSUME NEW c \in Migratable, Match(c) \/ New(c) PROVE ClaimInv'
    <2>1. UNCHANGED <<kcVars, akVars, seen>> /\ cur = NoClient
      BY <1>3 DEF Match, New, Waiting
    <2>2. (\E o \in Outcomes : Row(c, o)) \/ (\E s \in {"maps", "app", "update"} : Write(c, s))
      BY <1>3 DEF Match, New, Outcomes
    <2>3. Gathered'
      BY <2>1, <2>2, NothingLasts, RowGathers, WriteGathers DEF ClaimInv
    <2> QED
      BY <2>1, <2>3, QuietClaim
  <1>4. CASE Finish \/ Interrupt \/ UNCHANGED vars
    <2>1. UNCHANGED <<kcVars, akObjects, late, seen, cur, next, mapper_pks>>
      BY <1>4 DEF Finish, Interrupt
    <2> QED
      BY <2>1, QuietClaim DEF ClaimInv, Gathered, Present
  <1>5. CASE LateCommit \/ Foreign
    <2>1. UNCHANGED <<kcVars, runVars>> /\ Lasts /\ Target'
      BY <1>5, LateAk, ForeignAk, LateTarget, ForeignTarget
      DEF LateCommit, Foreign, TypeInv, ClaimInv
    <2> QED
      BY <2>1, PresentLasts DEF ClaimInv, Remembered, Gathered
  <1>6. CASE Pass
    BY <1>2, <1>3, <1>4, <1>6, FindMappingClaim, CreateMappingClaim,
       CreateProviderClaim, CreateApplicationClaim, UpdateProviderClaim DEF Pass
  <1> QED
    BY <1>1, <1>4, <1>5, <1>6, EditClaim DEF Next, Run

\* Tokens keep their contents: a provider that the tool made has a mapping for
\* every translated mapper of its client, with an expression that this mapper
\* has or had, whatever fails, is interrupted, arrives late or is edited.
THEOREM ClaimsStayAttached == Spec => []ClaimsAreAttached
  <1>1. Init => TypeInv /\ ClaimInv
    BY InitType, InitClaim
  <1>2. TypeInv /\ ClaimInv /\ [Next]_vars => (TypeInv /\ ClaimInv)'
    BY NextType, NextClaim
  <1>3. TypeInv /\ ClaimInv => ClaimsAreAttached
    <2> SUFFICES ASSUME TypeInv, ClaimInv, NEW c \in Migratable,
                        provider[c] # NoProvider, provider[c].by = "kc2ak",
                        NEW i \in DOMAIN kc[c]
                 PROVE  /\ kc[c][i].name \in provider[c].maps
                        /\ [name |-> kc[c][i].name,
                            expr |-> mapping[kc[c][i].name]] \in ever
      BY DEF ClaimsAreAttached
    <2>1. c \in KcClients /\ i \in DOMAIN PayloadsOf[c]
      BY ClientsAssumption, PayloadsType DEF TypeInv, KcType
    <2>2. kc[c][i].name \in NamesOf(c)
      BY <2>1 DEF NamesOf, ClaimInv, Remembered
    <2>3. kc[c][i].name \in provider[c].maps /\ kc[c][i].name \in Present
      BY <2>2 DEF ClaimInv, Target, Whole
    <2> QED
      BY <2>3 DEF ClaimInv, Target, Genuine
  <1> QED
    BY <1>1, <1>2, <1>3, PTL DEF Spec

-----------------------------------------------------------------------------
\* A row is about a whole pair.

\* No two clients that are migrated have one slug; without this the run
\* clients_one_slug finds a row without its pair.
SlugsDiffer == \A c, d \in Migratable : SlugOf[c] = SlugOf[d] => c = d

\* An application has the slug of its client, and so have the requests for one.
Bound ==
    /\ \A s \in Slugs : app[s] # NoApp => SlugOf[app[s]] = s
    /\ \A w \in late \cap AppWrites : w.to = SlugOf[w.client]

\* A provider is updated if the other half of its pair was found.
UpdateHasApp ==
    cur # NoClient /\ step = "update" => app[SlugOf[cur]] # NoApp

PairInv == Bound /\ UpdateHasApp /\ RowMeansPair

LEMMA PairLasts ==
    ASSUME TypeInv, Lasts, NEW c \in Migratable, HasPair(c) PROVE HasPair(c)'
  <1>1. SlugOf[c] \in Slugs /\ c # NoApp
    BY ClientsAssumption, NoneAssumption
  <1> QED
    BY <1>1 DEF Lasts, HasPair

LEMMA CommitBound ==
    ASSUME AkType, Bound, NEW w \in Writes, w \in AppWrites => w.to = SlugOf[w.client],
           Commit(w)
    PROVE  \A s \in Slugs : app'[s] # NoApp => SlugOf[app'[s]] = s
  <1>1. CASE app' = app
    BY <1>1 DEF Bound
  <1>2. CASE w \in AppWrites /\ app' = [app EXCEPT ![w.to] = w.client]
    BY <1>2 DEF AkType, AppWrites, Bound
  <1> QED
    BY <1>1, <1>2 DEF Commit

LEMMA CallBound ==
    ASSUME Ak, Bound, NEW w \in Writes, w \in AppWrites => w.to = SlugOf[w.client],
           NEW answer, Call(w, answer)
    PROVE  Bound'
  <1>1. late' \subseteq late \cup {w}
    BY DEF Call
  <1>2. \A s \in Slugs : app'[s] # NoApp => SlugOf[app'[s]] = s
    <2>1. CASE Commit(w)
      BY <2>1, CommitBound DEF Ak
    <2>2. CASE UNCHANGED akObjects
      BY <2>2 DEF Bound
    <2> QED
      BY <2>1, <2>2 DEF Call
  <1> QED
    BY <1>1, <1>2 DEF Bound

LEMMA LateBound == ASSUME Ak, Bound, LateCommit PROVE Bound'
  <1>1. PICK w \in late :
          /\ late' = late \ {w}
          /\ IF Accepts(w) THEN Commit(w) ELSE UNCHANGED akObjects
    BY DEF LateCommit
  <1>2. w \in Writes /\ (w \in AppWrites => w.to = SlugOf[w.client])
    BY DEF Ak, AkType, Bound
  <1>3. \A s \in Slugs : app'[s] # NoApp => SlugOf[app'[s]] = s
    <2>1. CASE Commit(w)
      BY <1>2, <2>1, CommitBound DEF Ak
    <2>2. CASE UNCHANGED akObjects
      BY <2>2 DEF Bound
    <2> QED
      BY <1>1, <2>1, <2>2
  <1> QED
    BY <1>1, <1>3 DEF Bound

LEMMA QuietBound == ASSUME Bound, UNCHANGED app, late' \subseteq late PROVE Bound'
  BY DEF Bound

\* An old row keeps its pair; what is to be shown is that a new one has it.
LEMMA RowPair ==
    ASSUME TypeInv, RowMeansPair, Lasts, NEW c \in Migratable, NEW o \in Outcomes,
           Row(c, o), opts' = opts, opts.apply /\ o # "FAILED" => HasPair(c)'
    PROVE  RowMeansPair'
  <1>1. \A d \in Migratable : d # c => res'[d] = res[d]
    BY DEF TypeInv, RunType, Row
  <1>2. res'[c] = o
    BY DEF TypeInv, RunType, Row
  <1>3. ASSUME opts.apply, NEW d \in Migratable, res'[d] \notin {"none", "FAILED"}
        PROVE  HasPair(d)'
    <2>1. CASE d = c
      BY <1>2, <1>3, <2>1
    <2>2. CASE d # c
      BY <1>1, <1>3, <2>2, PairLasts DEF RowMeansPair
    <2> QED
      BY <2>1, <2>2
  <1> QED
    BY <1>3 DEF RowMeansPair

LEMMA QuietPair ==
    ASSUME TypeInv, RowMeansPair, Lasts, UNCHANGED <<opts, res>> PROVE RowMeansPair'
  BY PairLasts DEF RowMeansPair

\* Whoever finds an application at the slug of a client has found its own.
LEMMA OwnApp ==
    ASSUME SlugsDiffer, TypeInv, Bound, NEW c \in Migratable, app[SlugOf[c]] # NoApp
    PROVE  app[SlugOf[c]] = c
  <1>1. SlugOf[c] \in Slugs /\ app[SlugOf[c]] \in Migratable
    BY ClientsAssumption DEF TypeInv, Ak, AkType
  <1> QED
    BY <1>1 DEF Bound, SlugsDiffer

LEMMA MatchPair ==
    ASSUME SlugsDiffer, TypeInv, PairInv, NEW c \in Migratable, Match(c) \/ New(c)
    PROVE  PairInv'
  <1>1. UNCHANGED <<akVars, opts>> /\ Lasts
    BY NothingLasts DEF Match, New
  <1>2. \/ \E s : Write(c, s)
        \/ \E o \in Outcomes : Row(c, o) /\ (opts.apply => HasPair(c))
    <2>1. CASE New(c)
      BY <2>1 DEF New, Outcomes
    <2>2. CASE Match(c) /\ app[SlugOf[c]] = NoApp
      BY <2>2 DEF Match, Outcomes
    <2>3. CASE Match(c) /\ app[SlugOf[c]] # NoApp
      BY <2>3, OwnApp DEF Match, Outcomes, HasPair, PairInv
    <2> QED
      BY <2>1, <2>2, <2>3
  <1>3. RowMeansPair'
    BY <1>1, <1>2, RowPair, QuietPair, PairLasts DEF Write, PairInv
  <1>4. UpdateHasApp'
    <2>1. CASE \E o \in Outcomes : Row(c, o)
      BY <2>1 DEF Row, UpdateHasApp
    <2>2. ASSUME NEW s, Write(c, s) PROVE s = "update" => app[SlugOf[c]] # NoApp
      BY <2>2 DEF Match, New, Write, Row, Waiting
    <2>3. ASSUME NEW s, Write(c, s) PROVE UpdateHasApp'
      BY <1>1, <2>2, <2>3 DEF Write, UpdateHasApp
    <2> QED
      BY <1>2, <2>1, <2>3
  <1> QED
    BY <1>1, <1>3, <1>4, QuietBound DEF PairInv

\* A write that is answered with a row.
LEMMA WriteRowPair ==
    ASSUME TypeInv, PairInv, NEW c \in Migratable, NEW w \in Writes, Founded(w),
           w \in AppWrites => w.to = SlugOf[w.client], NEW o \in Outcomes,
           NEW answer \in {"ok", "failed"}, Call(w, answer),
           Row(c, IF answer = "ok" THEN o ELSE "FAILED"), opts' = opts,
           answer = "ok" => HasPair(c)'
    PROVE  PairInv'
  <1>1. Lasts
    BY CallAk DEF TypeInv
  <1>2. Bound'
    BY CallBound DEF TypeInv, PairInv
  <1>3. RowMeansPair'
    BY <1>1, RowPair DEF PairInv, Outcomes
  <1>4. UpdateHasApp'
    BY DEF Row, UpdateHasApp
  <1> QED
    BY <1>2, <1>3, <1>4 DEF PairInv

LEMMA CreateApplicationPair ==
    ASSUME TypeInv, PairInv, CreateApplication PROVE PairInv'
  <1>1. cur # NoClient /\ step = "app" /\ opts' = opts /\ cur \in Migratable
        /\ SlugOf[cur] \in Slugs /\ provider[cur] # NoProvider
    BY InHandType, ClientsAssumption
    DEF CreateApplication, InHand, TypeInv, RunType, PlaceOK
  <1>2. PICK answer \in {"ok", "failed"} :
          /\ Call(AppWrite, answer)
          /\ Row(cur, IF answer = "ok" THEN "CREATED" ELSE "FAILED")
    BY DEF CreateApplication, AppWrite
  <1>3. AppWrite.to = SlugOf[AppWrite.client]
    BY DEF AppWrite
  <1>4. AppWrite \in AppWrites /\ AppWrite \in Writes /\ Founded(AppWrite)
    BY <1>1, AppWriteFounded
  <1>5. Lasts /\ (answer = "ok" => Commit(AppWrite))
    BY <1>2, <1>4, CallAk DEF TypeInv
  <1>6. ASSUME answer = "ok"
        PROVE  \A c \in Migratable : c = cur => provider'[c] # NoProvider
                                                /\ app'[SlugOf[c]] = c
    <2>1. app' = [app EXCEPT ![SlugOf[cur]] = cur]
      BY <1>4, <1>5, <1>6 DEF Commit, AppWrite, MappingWrites, ProviderWrites, AppWrites
    <2> QED
      BY <1>1, <1>5, <2>1 DEF Lasts, TypeInv, Ak, AkType
  <1>7. PICK c \in Migratable : c = cur
    BY <1>1
  <1>8. answer = "ok" => HasPair(c)'
    BY <1>6, <1>7 DEF HasPair
  <1>9. Row(c, IF answer = "ok" THEN "CREATED" ELSE "FAILED")
    BY <1>2, <1>7
  <1> QED
    BY <1>1, <1>2, <1>3, <1>4, <1>8, <1>9, WriteRowPair DEF Outcomes

LEMMA UpdateProviderPair ==
    ASSUME SlugsDiffer, TypeInv, PairInv, UpdateProvider PROVE PairInv'
  <1>1. cur # NoClient /\ step = "update" /\ opts' = opts /\ cur \in Migratable
        /\ provider[cur] # NoProvider
    BY InHandType DEF UpdateProvider, InHand, TypeInv, RunType, PlaceOK
  <1>2. PICK answer \in {"ok", "failed"} :
          /\ Call(UpdatePayload(cur), answer)
          /\ Row(cur, IF answer = "ok" THEN "UPDATED" ELSE "FAILED")
    BY DEF UpdateProvider
  <1>3. UpdatePayload(cur) \in Writes /\ Founded(UpdatePayload(cur))
        /\ UpdatePayload(cur) \notin AppWrites
    BY <1>1, UpdateFounded DEF UpdatePayload, AppWrites
  <1>4. PICK c \in Migratable : c = cur
    BY <1>1
  <1>5. HasPair(c)
    BY <1>1, <1>4, OwnApp DEF HasPair, PairInv, UpdateHasApp
  <1>6. HasPair(c)'
    BY <1>2, <1>3, <1>5, CallAk, PairLasts DEF TypeInv
  <1>7. Row(c, IF answer = "ok" THEN "UPDATED" ELSE "FAILED")
    BY <1>2, <1>4
  <1> QED
    BY <1>1, <1>2, <1>3, <1>6, <1>7, WriteRowPair DEF Outcomes

\* Mappings and providers that are written on the way to the pair.
LEMMA OnTheWayPair ==
    ASSUME TypeInv, PairInv, NEW w \in Writes, Founded(w), w \notin AppWrites,
           NEW answer, Call(w, answer), opts' = opts,
           \/ UNCHANGED res /\ step' # "update"
           \/ \E c \in Migratable : Row(c, "FAILED")
    PROVE  PairInv'
  <1>1. Lasts
    BY CallAk DEF TypeInv
  <1>2. Bound'
    BY CallBound DEF TypeInv, PairInv
  <1>3. RowMeansPair'
    BY <1>1, RowPair, QuietPair DEF PairInv, Outcomes
  <1>4. UpdateHasApp'
    BY DEF Row, UpdateHasApp
  <1> QED
    BY <1>2, <1>3, <1>4 DEF PairInv

LEMMA CreateMappingPair == ASSUME TypeInv, PairInv, CreateMapping PROVE PairInv'
  <1>1. /\ cur # NoClient /\ cur \in Migratable /\ next <= Len(PayloadsOf[cur])
        /\ opts' = opts
    BY InHandType DEF CreateMapping, InHand, TypeInv, RunType, PlaceOK
  <1>2. Payload \in Payloads
    BY <1>1, PayloadType DEF TypeInv
  <1>3. MappingWrite \in Writes /\ Founded(MappingWrite) /\ MappingWrite \notin AppWrites
    BY <1>2 DEF MappingWrite, Payloads, Writes, MappingWrites, Founded,
                ProviderWrites, AppWrites
  <1>4. PICK answer \in {"ok", "failed"} :
          /\ Call(MappingWrite, answer)
          /\ IF answer = "ok" THEN Attach ELSE Row(cur, "FAILED")
    BY DEF CreateMapping, MappingWrite
  <1> QED
    BY <1>1, <1>3, <1>4, OnTheWayPair DEF Attach

LEMMA CreateProviderPair == ASSUME TypeInv, PairInv, CreateProvider PROVE PairInv'
  <1>1. /\ cur # NoClient /\ cur \in Migratable /\ opts' = opts
        /\ mapper_pks \in SUBSET MapNames
    BY InHandType DEF CreateProvider, InHand, TypeInv, RunType
  <1>2. ProviderWrite \in ProviderWrites /\ ProviderWrite \notin AppWrites
    BY <1>1 DEF ProviderWrite, ProviderWrites, AppWrites
  <1>3. ProviderWrite \in Writes /\ Founded(ProviderWrite)
    BY <1>1, <1>2, NoneAssumption DEF ProviderWrite, Writes, Founded
  <1>4. PICK answer \in {"ok", "failed"} :
          /\ Call(ProviderWrite, answer)
          /\ IF answer = "ok" THEN Write(cur, "app") ELSE Row(cur, "FAILED")
    BY DEF CreateProvider, ProviderWrite
  <1> QED
    BY <1>1, <1>2, <1>3, <1>4, OnTheWayPair DEF Write

\* Steps that leave the rows and the client in hand alone.
LEMMA QuietPairInv ==
    ASSUME TypeInv, PairInv, Lasts, Bound', UNCHANGED <<opts, res, cur, step>>
    PROVE  PairInv'
  <1>1. UpdateHasApp'
    <2>1. cur # NoClient => SlugOf[cur] \in Slugs
      BY InHandType, ClientsAssumption DEF TypeInv
    <2> QED
      BY <2>1, NoneAssumption DEF PairInv, UpdateHasApp, Lasts
  <1> QED
    BY <1>1, QuietPair DEF PairInv

LEMMA NextPair ==
    ASSUME SlugsDiffer, TypeInv, PairInv, [Next]_vars PROVE PairInv'
  <1>1. ASSUME NEW o \in Invocations, Start(o) PROVE PairInv'
    <2>1. Bound'
      BY <1>1, QuietBound DEF Start, PairInv
    <2> QED
      BY <1>1, <2>1 DEF Start, PairInv, UpdateHasApp, RowMeansPair
  <1>2. CASE ReadFails
    <2>1. UNCHANGED <<akObjects, late, opts>> /\ Lasts
      BY <1>2, NothingLasts DEF ReadFails
    <2>2. PICK c \in Migratable : Row(c, "FAILED")
      BY <1>2 DEF ReadFails
    <2>3. RowMeansPair'
      BY <2>1, <2>2, RowPair DEF PairInv, Outcomes
    <2> QED
      BY <2>1, <2>2, <2>3, QuietBound DEF PairInv, UpdateHasApp, Row
  <1>3. CASE FindMapping
    <2>1. UNCHANGED <<akVars, opts, res>> /\ step' # "update" /\ Lasts
      BY <1>3, NothingLasts DEF FindMapping, Attach, Write
    <2> QED
      BY <2>1, QuietBound, QuietPair DEF PairInv, UpdateHasApp
  <1>4. CASE Finish \/ Interrupt \/ Edit \/ Foreign \/ UNCHANGED vars
    <2>1. UNCHANGED <<app, late, opts, res, cur, step>>
      BY <1>4 DEF Finish, Interrupt, Edit, Foreign
    <2> QED
      BY <2>1, NextType, QuietBound, QuietPairInv DEF PairInv
  <1>5. CASE LateCommit
    <2>1. UNCHANGED <<opts, res, cur, step>>
      BY <1>5 DEF LateCommit
    <2> QED
      BY <1>5, <2>1, LateAk, LateBound, QuietPairInv DEF TypeInv, PairInv
  <1>6. CASE Pass
    BY <1>2, <1>3, <1>4, <1>6, MatchPair, CreateMappingPair, CreateProviderPair,
       CreateApplicationPair, UpdateProviderPair DEF Pass
  <1> QED
    BY <1>1, <1>4, <1>5, <1>6 DEF Next, Run

LEMMA InitPair == Init => PairInv
  BY DEF Init, PairInv, Bound, UpdateHasApp, RowMeansPair

\* If no two clients have one slug, then a row of an applied run that is not
\* FAILED is about a provider and its own application, also if the run found
\* half a pair or requests of earlier runs arrive meanwhile.
THEOREM RowsMeanPairs ==
    ASSUME SlugsDiffer PROVE Spec => []RowMeansPair
  <1>1. Init => TypeInv /\ PairInv
    BY InitType, InitPair
  <1>2. TypeInv /\ PairInv /\ [Next]_vars => (TypeInv /\ PairInv)'
    BY NextType, NextPair
  <1>3. PairInv => RowMeansPair
    BY DEF PairInv
  <1> QED
    BY <1>1, <1>2, <1>3, PTL DEF Spec
=============================================================================
