---------------------------- MODULE SourcesProofs ----------------------------
(***************************************************************************)
(* For every realm, every sequence of command lines and every number of    *)
(* faults: the types of Sources, that an enabled source works and is never *)
(* sabotaged, how often a certificate is imported, and that the report on  *)
(* providers and links tells what is in Authentik, and that a dry run      *)
(* tells what the applied run will do.                                     *)
(***************************************************************************)
EXTENDS SourcesPlan, FiniteSetTheorems, TLAPS

USE DEF akObjects, akVars, idpLoop, linkLoop, runVars, vars

-----------------------------------------------------------------------------
\* Authentik.

FieldNames == {"of", "kind", "secret", "enabled", "auth", "enroll", "kp"}

\* What a create or an update sends: a switch-on comes with all that a working
\* source needs, and an update sends no placeholder and no switch-off.
GoodPayload(p, o) ==
    /\ DOMAIN p \subseteq FieldNames /\ "of" \in DOMAIN p /\ "kind" \in DOMAIN p
    /\ p["of"] \in Supported /\ p["kind"] = KindOf[p["of"]]
    /\ \A f \in DOMAIN p \cap {"auth", "enroll", "kp"} : p[f] = TRUE
    /\ p["of"] \in Certified => "kp" \in DOMAIN p
    /\ o = "create" => "enabled" \in DOMAIN p
    /\ "enabled" \in DOMAIN p =>
          /\ p["enabled"] \in BOOLEAN
          /\ o = "update" => p["enabled"] = TRUE
          /\ p["enabled"] = TRUE =>
                /\ "auth" \in DOMAIN p /\ "enroll" \in DOMAIN p
                /\ p["kind"] = "oauth" => "secret" \in DOMAIN p /\ p["secret"] = "real"
    /\ "secret" \in DOMAIN p =>
          /\ p["secret"] \in {"placeholder", "real"}
          /\ o = "update" => p["secret"] = "real"

IsWrite(w) ==
    \/ w.op = "import" /\ w.to \in Certified
    \/ w.op \in {"create", "update"} /\ w.to \in Slugs /\ GoodPayload(w.payload, w.op)

\* An update finds its source.
Founded(w) == w.op = "update" => source[w.to] # NoSource

\* The attempts that may be left behind.
Attempts == (1..MaxFaults) \X (1..MaxExecutions)

AkType ==
    /\ source \in [Slugs -> Sources \cup {NoSource}]
    /\ keypair \in [Certified -> Nat]
    /\ \A x \in late : x[1] \in Attempts /\ IsWrite(x[2])
    /\ faults \in 0..MaxFaults /\ foreign \in 0..MaxForeign

LEMMA FaultType == ASSUME AkType, Fault PROVE faults' \in 1..MaxFaults
  BY SourcesAssumption DEF AkType, Fault

LEMMA BareFields ==
    /\ DOMAIN Bare = {"by", "secret", "enabled", "auth", "enroll", "kp"}
    /\ Bare["by"] = "kc2ak" /\ Bare["secret"] = "" /\ Bare["enabled"] = TRUE
    /\ Bare["auth"] = FALSE /\ Bare["enroll"] = FALSE /\ Bare["kp"] = FALSE
  BY DEF Bare

AllFields == FieldNames \cup {"by"}

\* A source is a function of its fields.
LEMMA SourceFields ==
    ASSUME NEW x \in Sources
    PROVE  /\ DOMAIN x = AllFields
           /\ x["by"] \in {"kc2ak", "other"} /\ x["of"] \in Aliases \cup {NoAlias}
           /\ x["kind"] \in {"oauth", "saml"} /\ x["secret"] \in {"", "placeholder", "real"}
           /\ x["enabled"] \in BOOLEAN /\ x["auth"] \in BOOLEAN
           /\ x["enroll"] \in BOOLEAN /\ x["kp"] \in BOOLEAN
  BY DEF Sources, AllFields, FieldNames

LEMMA FieldsSource ==
    ASSUME NEW x, x = [f \in AllFields |-> x[f]],
           x["by"] \in {"kc2ak", "other"}, x["of"] \in Aliases \cup {NoAlias},
           x["kind"] \in {"oauth", "saml"}, x["secret"] \in {"", "placeholder", "real"},
           x["enabled"] \in BOOLEAN, x["auth"] \in BOOLEAN,
           x["enroll"] \in BOOLEAN, x["kp"] \in BOOLEAN
    PROVE  x \in Sources
  BY DEF Sources, AllFields, FieldNames

LEMMA PatchFields ==
    ASSUME NEW old, NEW p, DOMAIN old \cup DOMAIN p = AllFields
    PROVE  /\ Patch(old, p) = [f \in AllFields |-> Patch(old, p)[f]]
           /\ \A f \in AllFields :
                 Patch(old, p)[f] = IF f \in DOMAIN p THEN p[f] ELSE old[f]
  BY DEF Patch

\* A login button is there only if it works.
Works(x) ==
    x.enabled =>
        /\ x.auth /\ x.enroll
        /\ x.kind = "oauth" => x.secret = "real"
        /\ x.of \in Certified => x.kp

LEMMA CreatePatch ==
    ASSUME NEW p, GoodPayload(p, "create")
    PROVE  Patch(Bare, p) \in Sources /\ Works(Patch(Bare, p))
           /\ Patch(Bare, p).enabled = p["enabled"]
  <1> DEFINE x == Patch(Bare, p)
  <1>1. DOMAIN Bare \cup DOMAIN p = AllFields
    BY BareFields DEF GoodPayload, AllFields, FieldNames
  <1>2. /\ x = [f \in AllFields |-> x[f]]
        /\ \A f \in AllFields : x[f] = IF f \in DOMAIN p THEN p[f] ELSE Bare[f]
    BY <1>1, PatchFields
  <1> HIDE DEF x
  <1>3. /\ x["by"] = "kc2ak" /\ x["of"] = p["of"] /\ x["kind"] = p["kind"]
        /\ x["enabled"] = p["enabled"] /\ x["enabled"] \in BOOLEAN
    <2>1. {"by", "of", "kind", "enabled"} \subseteq AllFields /\ "by" \notin FieldNames
      BY DEF AllFields, FieldNames
    <2>2. "by" \notin DOMAIN p /\ {"of", "kind", "enabled"} \subseteq DOMAIN p
          /\ p["enabled"] \in BOOLEAN
      BY <2>1 DEF GoodPayload
    <2> QED
      BY <1>2, <2>1, <2>2, BareFields
  <1>4. /\ x["secret"] = IF "secret" \in DOMAIN p THEN p["secret"] ELSE ""
        /\ x["auth"] = IF "auth" \in DOMAIN p THEN TRUE ELSE FALSE
        /\ x["enroll"] = IF "enroll" \in DOMAIN p THEN TRUE ELSE FALSE
        /\ x["kp"] = IF "kp" \in DOMAIN p THEN TRUE ELSE FALSE
    <2>1. {"secret", "auth", "enroll", "kp"} \subseteq AllFields
      BY DEF AllFields, FieldNames
    <2> QED
      BY <1>2, <2>1, BareFields DEF GoodPayload
  <1>5. x \in Sources
    <2>1. x["of"] \in Aliases \cup {NoAlias} /\ x["kind"] \in {"oauth", "saml"}
      BY <1>3, SourcesAssumption DEF GoodPayload, Supported
    <2>2. x["secret"] \in {"", "placeholder", "real"}
          /\ x["auth"] \in BOOLEAN /\ x["enroll"] \in BOOLEAN /\ x["kp"] \in BOOLEAN
      BY <1>4 DEF GoodPayload
    <2>3. x = [f \in AllFields |-> x[f]]
      BY <1>2
    <2> QED
      BY <1>3, <2>1, <2>2, <2>3, FieldsSource
  <1>6. Works(x)
    BY <1>3, <1>4 DEF GoodPayload, Works
  <1> QED
    BY <1>3, <1>5, <1>6 DEF x

\* An update switches nothing off and takes no secret away.
LEMMA UpdatePatch ==
    ASSUME NEW p, GoodPayload(p, "update"), NEW old \in Sources,
           old.kind = p.kind
    PROVE  /\ Patch(old, p) \in Sources
           /\ old.enabled => Patch(old, p).enabled
           /\ old.secret = "real" => Patch(old, p).secret = "real"
           /\ Works(old) => Works(Patch(old, p))
  <1> DEFINE x == Patch(old, p)
  <1>1. DOMAIN old \cup DOMAIN p = AllFields
    BY SourceFields DEF GoodPayload, AllFields
  <1>2. /\ x = [f \in AllFields |-> x[f]]
        /\ \A f \in AllFields : x[f] = IF f \in DOMAIN p THEN p[f] ELSE old[f]
    BY <1>1, PatchFields
  <1> HIDE DEF x
  <1>3. x["by"] = old["by"] /\ x["of"] = p["of"] /\ x["kind"] = p["kind"]
    BY <1>2 DEF AllFields, FieldNames, GoodPayload
  <1>4. /\ x["secret"] = IF "secret" \in DOMAIN p THEN "real" ELSE old["secret"]
        /\ x["enabled"] = IF "enabled" \in DOMAIN p THEN TRUE ELSE old["enabled"]
        /\ x["auth"] = IF "auth" \in DOMAIN p THEN TRUE ELSE old["auth"]
        /\ x["enroll"] = IF "enroll" \in DOMAIN p THEN TRUE ELSE old["enroll"]
        /\ x["kp"] = IF "kp" \in DOMAIN p THEN TRUE ELSE old["kp"]
    BY <1>2 DEF AllFields, FieldNames, GoodPayload
  <1>5. x \in Sources
    BY <1>2, <1>3, <1>4, SourceFields, FieldsSource, SourcesAssumption
    DEF GoodPayload, Supported
  <1>6. Works(old) => Works(x)
    BY <1>3, <1>4 DEF GoodPayload, Works
  <1> QED
    BY <1>4, <1>5, <1>6 DEF x

LEMMA GoodFields ==
    ASSUME NEW a \in Supported, NEW o \in {"create", "update"}, opts \in Options,
           NEW p, DOMAIN p = Fields(a, o),
           p["of"] = a, p["kind"] = KindOf[a],
           "enabled" \in Fields(a, o) => p["enabled"] = Ready(a),
           "secret" \in Fields(a, o) =>
              p["secret"] = IF NeedsSecret(a) THEN "placeholder" ELSE "real",
           \A f \in Fields(a, o) \cap {"auth", "enroll", "kp"} : p[f] = TRUE
    PROVE  GoodPayload(p, o) /\ (o = "create" => p["enabled"] = Ready(a))
  <1>1. DOMAIN p = Fields(a, o)
    OBVIOUS
  <1>2. opts.auth \in BOOLEAN /\ opts.enroll \in BOOLEAN
    BY DEF Options
  <1>3. /\ Fields(a, o) \subseteq FieldNames
        /\ "of" \in Fields(a, o) /\ "kind" \in Fields(a, o)
        /\ "enabled" \in Fields(a, o) <=> (o = "create" \/ Ready(a))
        /\ "secret" \in Fields(a, o) <=>
              (KindOf[a] = "oauth" /\ (o = "create" \/ ~NeedsSecret(a)))
        /\ "auth" \in Fields(a, o) <=> opts.auth
        /\ "enroll" \in Fields(a, o) <=> opts.enroll
        /\ "kp" \in Fields(a, o) <=> a \in Certified
    BY <1>2 DEF Fields, WhollySent, FieldNames
  <1>4. Ready(a) \in BOOLEAN /\ (Ready(a) => opts.auth /\ opts.enroll /\ ~NeedsSecret(a))
    BY DEF Ready, MissingFlow
  <1>5. "enabled" \in DOMAIN p =>
          /\ p["enabled"] \in BOOLEAN
          /\ o = "update" => p["enabled"] = TRUE
          /\ p["enabled"] = TRUE =>
                /\ "auth" \in DOMAIN p /\ "enroll" \in DOMAIN p
                /\ p["kind"] = "oauth" => "secret" \in DOMAIN p /\ p["secret"] = "real"
    <2>1. CASE Ready(a)
      BY <1>1, <1>3, <1>4, <2>1
    <2>2. CASE ~Ready(a)
      BY <1>1, <1>3, <1>4, <2>2
    <2> QED
      BY <2>1, <2>2
  <1>6. "secret" \in DOMAIN p =>
          /\ p["secret"] \in {"placeholder", "real"}
          /\ o = "update" => p["secret"] = "real"
    BY <1>1, <1>3
  <1>7. /\ DOMAIN p \subseteq FieldNames /\ "of" \in DOMAIN p /\ "kind" \in DOMAIN p
        /\ p["of"] \in Supported /\ p["kind"] = KindOf[p["of"]]
        /\ \A f \in DOMAIN p \cap {"auth", "enroll", "kp"} : p[f] = TRUE
        /\ p["of"] \in Certified => "kp" \in DOMAIN p
        /\ o = "create" => "enabled" \in DOMAIN p
    BY <1>1, <1>3
  <1>8. GoodPayload(p, o)
    BY <1>5, <1>6, <1>7 DEF GoodPayload
  <1> QED
    BY <1>3, <1>8

LEMMA PayloadGood ==
    ASSUME NEW a \in Supported, NEW o \in {"create", "update"}, opts \in Options
    PROVE  GoodPayload(Payload(a, o), o) /\ Payload(a, o)["of"] = a
           /\ (o = "create" => Payload(a, o)["enabled"] = Ready(a))
  <1>1. "of" \in Fields(a, o) /\ "kind" \in Fields(a, o)
    BY DEF Fields
  <1> HIDE DEF Fields, Ready, NeedsSecret
  <1>2. Payload(a, o)["of"] = a /\ Payload(a, o)["kind"] = KindOf[a]
    BY <1>1 DEF Payload
  <1>3. "enabled" \in Fields(a, o) => Payload(a, o)["enabled"] = Ready(a)
    BY DEF Payload
  <1>4. "secret" \in Fields(a, o) =>
           Payload(a, o)["secret"] = IF NeedsSecret(a) THEN "placeholder" ELSE "real"
    BY DEF Payload
  <1>5. \A f \in Fields(a, o) \cap {"auth", "enroll", "kp"} : Payload(a, o)[f] = TRUE
    BY DEF Payload
  <1>6. DOMAIN Payload(a, o) = Fields(a, o)
    BY DEF Payload
  <1>7. GoodPayload(Payload(a, o), o)
        /\ (o = "create" => Payload(a, o)["enabled"] = Ready(a))
    BY <1>2, <1>3, <1>4, <1>5, <1>6, GoodFields
  <1> QED
    BY <1>2, <1>7

-----------------------------------------------------------------------------
\* What a write does to the sources and key pairs.

\* No source is taken away or sabotaged, and no key pair either.
Lasts ==
    /\ \A s \in Slugs :
          source[s] # NoSource =>
            /\ source'[s] # NoSource
            /\ source[s].enabled => source'[s].enabled
            /\ source[s].secret = "real" => source'[s].secret = "real"
    /\ \A a \in Certified : keypair'[a] >= keypair[a]

\* All sources that are there work.
AllWork == \A s \in Slugs : source[s] # NoSource => Works(source[s])

LEMMA NothingLasts == ASSUME AkType, UNCHANGED akObjects PROVE Lasts
  BY DEF Lasts, AkType

LEMMA CommitKeeps ==
    ASSUME AkType, NEW w, IsWrite(w), Accepts(w), Commit(w)
    PROVE  /\ source' \in [Slugs -> Sources \cup {NoSource}]
           /\ keypair' \in [Certified -> Nat]
           /\ Lasts /\ (AllWork => AllWork')
  <1>1. CASE w.op = "import"
    <2>1. keypair' = [keypair EXCEPT ![w.to] = @ + 1] /\ source' = source
          /\ w.to \in Certified
      BY <1>1 DEF Commit, IsWrite
    <2> QED
      BY <2>1 DEF AkType, Lasts, AllWork
  <1>2. CASE w.op = "create"
    <2>1. /\ source' = [source EXCEPT ![w.to] = Patch(Bare, w.payload)]
          /\ keypair' = keypair /\ w.to \in Slugs /\ source[w.to] = NoSource
          /\ GoodPayload(w.payload, "create")
      BY <1>2 DEF Commit, IsWrite, Accepts
    <2>2. Patch(Bare, w.payload) \in Sources /\ Works(Patch(Bare, w.payload))
      BY <2>1, CreatePatch
    <2> QED
      BY <2>1, <2>2 DEF AkType, Lasts, AllWork
  <1>3. CASE w.op = "update"
    <2>1. /\ source' = [source EXCEPT ![w.to] = Patch(source[w.to], w.payload)]
          /\ keypair' = keypair /\ w.to \in Slugs /\ source[w.to] # NoSource
          /\ GoodPayload(w.payload, "update") /\ source[w.to].kind = w.payload.kind
      BY <1>3 DEF Commit, IsWrite, Accepts
    <2>2. source[w.to] \in Sources
      BY <2>1 DEF AkType
    <2>3. /\ Patch(source[w.to], w.payload) \in Sources
          /\ source[w.to].enabled => Patch(source[w.to], w.payload).enabled
          /\ source[w.to].secret = "real" => Patch(source[w.to], w.payload).secret = "real"
          /\ Works(source[w.to]) => Works(Patch(source[w.to], w.payload))
      BY <2>1, <2>2, UpdatePatch
    <2>4. Patch(source[w.to], w.payload) # NoSource
      BY <2>3, NoneAssumption
    <2> HIDE DEF Works
    <2>5. source' \in [Slugs -> Sources \cup {NoSource}]
      BY <2>1, <2>3 DEF AkType
    <2>6. \A s \in Slugs : source'[s] = IF s = w.to THEN Patch(source[w.to], w.payload)
                                       ELSE source[s]
      BY <2>1 DEF AkType
    <2>7. Lasts
      BY <2>1, <2>3, <2>4, <2>6 DEF AkType, Lasts
    <2>8. AllWork => AllWork'
      BY <2>1, <2>3, <2>6 DEF AllWork
    <2> QED
      BY <2>1, <2>5, <2>7, <2>8 DEF AkType
  <1> QED
    BY <1>1, <1>2, <1>3 DEF IsWrite


-----------------------------------------------------------------------------
\* The type invariant, and what every step keeps.

Ak == AkType /\ \A x \in late : Founded(x[2])

Keeps == Lasts /\ (AllWork => AllWork')

\* A provider in hand has an operation and a step; the certificate is only
\* looked for if there is one, and an update has found its source.
Place ==
    IF cur = NoAlias THEN op = "none" /\ step = "none"
    ELSE /\ op \in {"create", "update"}
         /\ step \in {"keypair", "import", "write"}
         /\ step \in {"keypair", "import"} => cur \in Certified
         /\ op = "update" => source[SlugOf[cur]] # NoSource

LoopType ==
    /\ res \in [Aliases -> {"none", "CREATED", "SKIPPED", "UPDATED",
                            "CONFLICT", "FAILED"}]
    /\ tags \in [Aliases -> SUBSET {"idp_secret_missing", "idp_flow_missing",
                                    "federated_link_unwritable"}]
    /\ cur \in Supported \cup {NoAlias}

RunType ==
    /\ opts \in Options
    /\ phase \in {"idle", "idps", "links", "done", "stopped"}
    /\ linkRes \in [Links -> {"none", "counted", "CONFLICT"}]
    /\ DOMAIN live_exists \subseteq Aliases
    /\ DOMAIN counts \subseteq Aliases

TypeInv == Ak /\ Place /\ LoopType /\ RunType

LEMMA Slugged == ASSUME NEW a \in Supported PROVE a \in Aliases /\ SlugOf[a] \in Slugs
  BY SourcesAssumption DEF Supported

LEMMA NotNone == NoAlias \notin Supported
  BY NoneAssumption DEF Supported

LEMMA CallAk ==
    ASSUME Ak, NEW w, IsWrite(w), Founded(w), NEW answer, Call(w, answer)
    PROVE  /\ Ak' /\ Keeps
           /\ answer = "ok" => Accepts(w) /\ Commit(w)
  <1>1. /\ source' \in [Slugs -> Sources \cup {NoSource}]
        /\ keypair' \in [Certified -> Nat]
        /\ Keeps
    <2>1. CASE Accepts(w) /\ Commit(w)
      BY <2>1, CommitKeeps DEF Ak, Keeps
    <2>2. CASE UNCHANGED akObjects
      BY <2>2, NothingLasts DEF Ak, AkType, Keeps, AllWork
    <2> QED
      BY <2>1, <2>2 DEF Call
  <1>2. /\ faults' \in 0..MaxFaults /\ foreign' \in 0..MaxForeign
        /\ \A x \in late' : x[1] \in Attempts /\ IsWrite(x[2]) /\ Founded(x[2])
    <2>1. CASE UNCHANGED <<late, faults>>
      BY <2>1 DEF Call, Ak, AkType
    <2>2. ASSUME NEW n \in {MaxExecutions - 1, MaxExecutions}, Abandon(w, n)
          PROVE  /\ faults' \in 0..MaxFaults
                 /\ \A x \in late' : x[1] \in Attempts /\ IsWrite(x[2]) /\ Founded(x[2])
      <3>1. faults' \in 1..MaxFaults /\ \A i \in 1..n : i \in 1..MaxExecutions
        BY <2>2, FaultType, SourcesAssumption DEF Abandon, Ak
      <3>2. \A x \in late' : x \in late \/ \E i \in 1..n : x = <<<<faults', i>>, w>>
        BY <2>2 DEF Abandon
      <3>3. ASSUME NEW i \in 1..n PROVE <<faults', i>> \in Attempts
        BY <3>1 DEF Attempts
      <3> QED
        BY <3>1, <3>2, <3>3 DEF Ak, AkType
    <2>3. foreign' \in 0..MaxForeign
      BY DEF Call, Ak, AkType
    <2>4. CASE Abandon(w, MaxExecutions - 1) \/ Abandon(w, MaxExecutions)
      BY <2>2, <2>3, <2>4
    <2> QED
      BY <2>1, <2>4 DEF Call
  <1>3. \A x \in late' : IsWrite(x[2]) /\ Founded(x[2])'
    BY <1>1, <1>2 DEF Keeps, Lasts, Founded, IsWrite
  <1> QED
    BY <1>1, <1>2, <1>3 DEF Ak, AkType, Call

LEMMA QuietKeeps == ASSUME Ak, UNCHANGED akVars PROVE Ak' /\ Keeps
  BY NothingLasts DEF Ak, AkType, Founded, Keeps, AllWork

LEMMA LateStep == ASSUME TypeInv, LateCommit PROVE TypeInv' /\ Keeps
  <1>1. PICK x \in late :
          /\ late' = late \ {x}
          /\ IF Accepts(x[2]) THEN Commit(x[2]) ELSE UNCHANGED akObjects
    BY DEF LateCommit
  <1>2. AkType /\ IsWrite(x[2]) /\ UNCHANGED <<faults, foreign, runVars>>
    BY DEF LateCommit, TypeInv, Ak, AkType
  <1>3. /\ source' \in [Slugs -> Sources \cup {NoSource}]
        /\ keypair' \in [Certified -> Nat]
        /\ Keeps
    <2>1. CASE Accepts(x[2]) /\ Commit(x[2])
      BY <1>2, <2>1, CommitKeeps DEF Keeps
    <2>2. CASE UNCHANGED akObjects
      BY <1>2, <2>2, NothingLasts DEF AkType, Keeps, AllWork
    <2> QED
      BY <1>1, <2>1, <2>2
  <1>4. \A y \in late' : Founded(y[2])'
    BY <1>1, <1>3 DEF TypeInv, Ak, AkType, IsWrite, Founded, Keeps, Lasts
  <1>5. Ak'
    BY <1>1, <1>2, <1>3, <1>4 DEF Ak, AkType
  <1>6. Place'
    BY <1>2, <1>3, Slugged DEF TypeInv, Place, LoopType, Keeps, Lasts
  <1> QED
    BY <1>2, <1>3, <1>5, <1>6 DEF TypeInv, LoopType, RunType

LEMMA ForeignStep == ASSUME TypeInv, Foreign PROVE TypeInv' /\ Keeps
  <1>1. PICK x \in HandMade :
          /\ source[x[1]] = NoSource
          /\ source' = [source EXCEPT ![x[1]] =
                [by |-> "other", of |-> NoAlias, kind |-> x[2],
                 secret |-> "real", enabled |-> TRUE, auth |-> TRUE,
                 enroll |-> TRUE, kp |-> TRUE]]
    BY DEF Foreign
  <1> DEFINE made == [by |-> "other", of |-> NoAlias, kind |-> x[2],
                      secret |-> "real", enabled |-> TRUE, auth |-> TRUE,
                      enroll |-> TRUE, kp |-> TRUE]
  <1>2. x[1] \in Slugs /\ x[2] \in {"oauth", "saml"}
    BY <1>1, SourcesAssumption
  <1>3. made \in Sources /\ Works(made)
    BY <1>2 DEF Sources, Works
  <1>4. \A s \in Slugs : source'[s] = IF s = x[1] THEN made ELSE source[s]
    BY <1>1, <1>2 DEF TypeInv, Ak, AkType
  <1>5. source' \in [Slugs -> Sources \cup {NoSource}]
    BY <1>1, <1>2, <1>3 DEF TypeInv, Ak, AkType
  <1>6. UNCHANGED <<keypair, late, faults, runVars>> /\ foreign' \in 0..MaxForeign
    BY SourcesAssumption DEF Foreign, TypeInv, Ak, AkType
  <1> HIDE DEF made
  <1>7. Keeps
    <2>1. Lasts
      BY <1>1, <1>3, <1>4, <1>6, NoneAssumption DEF Lasts, TypeInv, Ak, AkType
    <2> QED
      BY <2>1, <1>3, <1>4 DEF Keeps, AllWork
  <1>8. \A y \in late' : Founded(y[2])'
    BY <1>6, <1>7 DEF TypeInv, Ak, AkType, IsWrite, Founded, Keeps, Lasts
  <1>9. Ak'
    BY <1>5, <1>6, <1>8 DEF Ak, AkType, TypeInv
  <1>10. Place'
    BY <1>6, <1>7, Slugged DEF TypeInv, Place, LoopType, Keeps, Lasts
  <1> QED
    BY <1>6, <1>7, <1>9, <1>10 DEF TypeInv, LoopType, RunType


\* The steps of the run.

LEMMA StartStep ==
    ASSUME TypeInv, NEW o \in Invocations, Start(o) PROVE TypeInv' /\ Keeps
  BY QuietKeeps, SourcesAssumption DEF Start, TypeInv, Place, LoopType, RunType

LEMMA QuietPlace ==
    ASSUME TypeInv, UNCHANGED <<akVars, cur, op, step>> PROVE Ak' /\ Place' /\ Keeps
  BY QuietKeeps DEF TypeInv, Place

LEMMA EndStep == ASSUME TypeInv, EndIdps \/ EndLinks PROVE TypeInv' /\ Keeps
  <1>1. Ak' /\ Place' /\ Keeps
    BY QuietPlace DEF EndIdps, EndLinks
  <1>2. CASE EndIdps
    BY <1>1, <1>2 DEF EndIdps, TypeInv, LoopType, RunType
  <1>3. CASE EndLinks
    BY <1>1, <1>3 DEF EndLinks, TypeInv, LoopType, RunType
  <1> QED
    BY <1>2, <1>3

LEMMA InterruptStep == ASSUME TypeInv, Interrupt PROVE TypeInv' /\ Keeps
  <1>1. Ak' /\ Keeps
    BY NothingLasts, FaultType DEF Interrupt, TypeInv, Ak, AkType, Founded, Keeps, AllWork
  <1> QED
    BY <1>1 DEF Interrupt, TypeInv, Place, LoopType, RunType

MissingTypes == {"idp_secret_missing", "idp_flow_missing"}

LEMMA MissingType == ASSUME NEW a PROVE Missing(a) \subseteq MissingTypes
  BY DEF Missing, MissingTypes

\* A row for a provider without source, or that is at an end, and a step to one.
LEMMA RowPlace ==
    ASSUME TypeInv, NEW a \in Aliases, NEW missing \in SUBSET MissingTypes,
           NEW outcome \in {"CREATED", "SKIPPED", "UPDATED", "CONFLICT", "FAILED"},
           Row(a, outcome, missing)
    PROVE  Place' /\ LoopType'
  BY DEF Row, TypeInv, Place, LoopType, MissingTypes

LEMMA GotoPlace ==
    ASSUME TypeInv, NEW a \in Supported, NEW o \in {"create", "update"},
           NEW s \in {"keypair", "import", "write"},
           s \in {"keypair", "import"} => a \in Certified,
           o = "update" => source'[SlugOf[a]] # NoSource,
           Goto(a, o, s)
    PROVE  Place' /\ LoopType'
  BY NotNone DEF Goto, TypeInv, Place, LoopType

LEMMA FirstStepIs ==
    ASSUME NEW a \in Supported
    PROVE  /\ FirstStep(a) \in {"keypair", "write"}
           /\ FirstStep(a) = "keypair" => a \in Certified
  BY DEF FirstStep

LEMMA UnsupportedStep ==
    ASSUME TypeInv, NEW a \in Aliases, Unsupported(a) PROVE TypeInv' /\ Keeps
  BY RowPlace, QuietKeeps DEF Unsupported, TypeInv, RunType

LEMMA ReadFailsStep == ASSUME TypeInv, ReadFails PROVE TypeInv' /\ Keeps
  <1>1. PICK a \in Supported : Row(a, "FAILED", {})
    BY DEF ReadFails
  <1>2. Place' /\ LoopType'
    BY <1>1, RowPlace, Slugged
  <1>3. Ak' /\ Keeps
    BY NothingLasts, FaultType DEF ReadFails, TypeInv, Ak, AkType, Founded, Keeps, AllWork
  <1> QED
    BY <1>2, <1>3 DEF ReadFails, TypeInv, RunType

LEMMA MatchStep ==
    ASSUME TypeInv, NEW a \in Aliases, Match(a) PROVE TypeInv' /\ Keeps
  <1>1. a \in Supported /\ UNCHANGED <<akVars, opts, phase, linkLoop>>
    BY DEF Match, Supported
  <1>2. Ak' /\ Keeps
    BY <1>1, QuietKeeps DEF TypeInv
  <1>3. CASE Row(a, "SKIPPED", {})
    BY <1>1, <1>2, <1>3, RowPlace DEF TypeInv, RunType
  <1>4. CASE Row(a, "UPDATED", Missing(a))
    BY <1>1, <1>2, <1>4, RowPlace, MissingType DEF TypeInv, RunType
  <1>5. CASE Goto(a, "update", FirstStep(a))
    <2>1. source'[SlugOf[a]] # NoSource
      BY <1>1 DEF Match
    <2> QED
      BY <1>1, <1>2, <1>5, <2>1, GotoPlace, FirstStepIs DEF TypeInv, RunType
  <1> QED
    BY <1>3, <1>4, <1>5 DEF Match

LEMMA NewStep ==
    ASSUME TypeInv, NEW a \in Aliases, New(a) PROVE TypeInv' /\ Keeps
  <1>1. a \in Supported /\ UNCHANGED <<akVars, opts, phase, linkLoop>>
    BY DEF New, Supported
  <1>2. Ak' /\ Keeps
    BY <1>1, QuietKeeps DEF TypeInv
  <1>3. CASE Row(a, "CREATED", Missing(a))
    BY <1>1, <1>2, <1>3, RowPlace, MissingType DEF TypeInv, RunType
  <1>4. CASE Goto(a, "create", FirstStep(a))
    BY <1>1, <1>2, <1>4, GotoPlace, FirstStepIs DEF TypeInv, RunType
  <1> QED
    BY <1>3, <1>4 DEF New

\* The provider in hand, as a constant of the step.
LEMMA InHandIs ==
    ASSUME TypeInv, NEW s, InHand(s)
    PROVE  \E a \in Supported, o \in {"create", "update"} :
              /\ cur = a /\ op = o /\ step = s /\ a \in Aliases /\ a # NoAlias
              /\ s \in {"keypair", "import"} => a \in Certified
              /\ o = "update" => source[SlugOf[a]] # NoSource
  BY Slugged DEF TypeInv, Place, LoopType, InHand

LEMMA FindKeypairStep == ASSUME TypeInv, FindKeypair PROVE TypeInv' /\ Keeps
  <1>1. PICK a \in Supported, o \in {"create", "update"} :
              /\ cur = a /\ op = o /\ a \in Certified
              /\ o = "update" => source[SlugOf[a]] # NoSource
    BY InHandIs DEF FindKeypair
  <1>2. UNCHANGED <<akVars, opts, phase, linkLoop>>
        /\ (Goto(a, o, "write") \/ Goto(a, o, "import"))
    BY <1>1 DEF FindKeypair
  <1>3. Ak' /\ Keeps
    BY <1>2, QuietKeeps DEF TypeInv
  <1> QED
    BY <1>1, <1>2, <1>3, GotoPlace DEF TypeInv, RunType

LEMMA ImportWrite == ASSUME NEW a \in Certified
                     PROVE  IsWrite([op |-> "import", to |-> a])
                            /\ Founded([op |-> "import", to |-> a])
  BY DEF IsWrite, Founded

LEMMA ImportKeypairStep == ASSUME TypeInv, ImportKeypair PROVE TypeInv' /\ Keeps
  <1>1. PICK a \in Supported, o \in {"create", "update"} :
              /\ cur = a /\ op = o /\ a \in Certified /\ a \in Aliases
              /\ o = "update" => source[SlugOf[a]] # NoSource
    BY InHandIs DEF ImportKeypair
  <1>2. PICK answer \in {"ok", "failed"} :
              /\ Call([op |-> "import", to |-> a], answer)
              /\ IF answer = "ok" THEN Goto(a, o, "write") ELSE Row(a, "FAILED", {})
    BY <1>1 DEF ImportKeypair
  <1>3. Ak' /\ Keeps
    BY <1>1, <1>2, CallAk, ImportWrite DEF TypeInv
  <1>4. UNCHANGED <<opts, phase, linkLoop>>
    BY DEF ImportKeypair
  <1>5. CASE Goto(a, o, "write")
    <2>1. o = "update" => source'[SlugOf[a]] # NoSource
      BY <1>1, <1>3, Slugged DEF Keeps, Lasts
    <2> QED
      BY <1>1, <1>3, <1>4, <1>5, <2>1, GotoPlace DEF TypeInv, RunType
  <1>6. CASE Row(a, "FAILED", {})
    BY <1>1, <1>3, <1>4, <1>6, RowPlace DEF TypeInv, RunType
  <1> QED
    BY <1>2, <1>5, <1>6

TheWrite(a, o) == [op |-> o, to |-> SlugOf[a], payload |-> Payload(a, o)]

LEMMA SourceWrite ==
    ASSUME TypeInv, NEW a \in Supported, NEW o \in {"create", "update"},
           o = "update" => source[SlugOf[a]] # NoSource
    PROVE  IsWrite(TheWrite(a, o)) /\ Founded(TheWrite(a, o))
  <1>1. GoodPayload(Payload(a, o), o)
    BY PayloadGood DEF TypeInv, RunType
  <1> QED
    BY <1>1, Slugged DEF IsWrite, Founded, TheWrite

\* What WriteSource is, with the provider in hand as a constant.
LEMMA WriteSourceIs ==
    ASSUME TypeInv, WriteSource
    PROVE  \E a \in Supported, o \in {"create", "update"}, answer \in {"ok", "failed"} :
              /\ cur = a /\ op = o /\ a \in Aliases /\ phase = "idps" /\ step = "write"
              /\ o = "update" => source[SlugOf[a]] # NoSource
              /\ Call(TheWrite(a, o), answer)
              /\ IF answer = "ok" THEN Row(a, Done(o), Missing(a)) ELSE Row(a, "FAILED", {})
              /\ UNCHANGED <<opts, phase, linkLoop>>
  <1>1. PICK a \in Supported, o \in {"create", "update"} :
              /\ cur = a /\ op = o /\ a \in Aliases
              /\ o = "update" => source[SlugOf[a]] # NoSource
    BY InHandIs DEF WriteSource
  <1>2. PICK answer \in {"ok", "failed"} :
          /\ Call([op |-> op, to |-> SlugOf[cur], payload |-> Payload(cur, op)], answer)
          /\ IF answer = "ok" THEN Row(cur, Done(op), Missing(cur))
             ELSE Row(cur, "FAILED", {})
    BY DEF WriteSource
  <1>3. Call(TheWrite(a, o), answer)
    BY <1>1, <1>2 DEF TheWrite
  <1> QED
    BY <1>1, <1>2, <1>3 DEF WriteSource, InHand

LEMMA WriteSourceStep == ASSUME TypeInv, WriteSource PROVE TypeInv' /\ Keeps
  <1>1. PICK a \in Supported, o \in {"create", "update"}, answer \in {"ok", "failed"} :
              /\ a \in Aliases
              /\ o = "update" => source[SlugOf[a]] # NoSource
              /\ Call(TheWrite(a, o), answer)
              /\ IF answer = "ok" THEN Row(a, Done(o), Missing(a)) ELSE Row(a, "FAILED", {})
              /\ UNCHANGED <<opts, phase, linkLoop>>
    BY WriteSourceIs
  <1>2. Ak' /\ Keeps
    BY <1>1, CallAk, SourceWrite DEF TypeInv
  <1>3. Done(o) \in {"CREATED", "UPDATED"}
    BY DEF Done
  <1>4. Place' /\ LoopType'
    BY <1>1, <1>3, RowPlace, MissingType
  <1> QED
    BY <1>1, <1>2, <1>4 DEF TypeInv, RunType

LEMMA LinkStep ==
    ASSUME TypeInv, NEW l \in Links, Link(l) PROVE TypeInv' /\ Keeps
  <1>1. Ak' /\ Place' /\ Keeps
    BY QuietPlace DEF Link
  <1>2. l[2] \in Aliases
    BY SourcesAssumption
  <1>3. /\ DOMAIN live_exists' \subseteq Aliases
        /\ DOMAIN counts' \subseteq Aliases
    BY <1>2 DEF Link, Keep, Count, TypeInv, RunType
  <1>4. linkRes' \in [Links -> {"none", "counted", "CONFLICT"}]
    BY DEF Link, TypeInv, RunType
  <1> QED
    BY <1>1, <1>3, <1>4 DEF Link, TypeInv, LoopType, RunType


LEMMA InitType == Init => TypeInv /\ AllWork
  <1> SUFFICES ASSUME Init PROVE TypeInv /\ AllWork
    OBVIOUS
  <1>1. Ak /\ AllWork
    BY SourcesAssumption DEF Init, Ak, AkType, AllWork
  <1>2. opts \in Options
    BY DEF Init, Options
  <1> QED
    BY <1>1, <1>2 DEF Init, TypeInv, Place, LoopType, RunType

LEMMA StepKeeps == ASSUME TypeInv, [Next]_vars PROVE TypeInv' /\ Keeps
  <1>1. CASE Run
    BY <1>1, StartStep DEF Run
  <1>2. CASE Pass
    BY <1>2, UnsupportedStep, MatchStep, NewStep, ReadFailsStep, FindKeypairStep,
       ImportKeypairStep, WriteSourceStep, LinkStep, EndStep DEF Pass
  <1>3. CASE Interrupt \/ LateCommit \/ Foreign
    BY <1>3, InterruptStep, LateStep, ForeignStep
  <1>4. CASE UNCHANGED vars
    BY <1>4, QuietKeeps DEF TypeInv, Place, LoopType, RunType
  <1> QED
    BY <1>1, <1>2, <1>3, <1>4 DEF Next

LEMMA TypeInvOK == TypeInv => TypeOK
  BY NotNone DEF TypeInv, Ak, AkType, Attempts, IsWrite, Place, LoopType, RunType, TypeOK

LEMMA TypesAlways == Spec => []TypeInv
  <1>1. Init => TypeInv
    BY InitType
  <1>2. TypeInv /\ [Next]_vars => TypeInv'
    BY StepKeeps
  <1> QED
    BY <1>1, <1>2, PTL DEF Spec

\* Every variable of Sources stays in its domain: a source has all its fields
\* whatever the payloads leave out, also those of requests that were abandoned
\* runs ago (mappers/idps.py), and links are only counted for known providers.
THEOREM TypeCorrect == Spec => []TypeOK
  BY TypesAlways, TypeInvOK, PTL

\* A login button works: no sequence of runs, with whatever flags, faults and
\* late requests, puts together an enabled source that lacks a flow, its real
\* secret or its key pair (mappers/idps.py:150-157).
THEOREM LoginsWork == Spec => []EnabledWorks
  <1>1. Init => AllWork
    BY InitType
  <1>2. TypeInv /\ AllWork /\ [Next]_vars => AllWork'
    BY StepKeeps DEF Keeps
  <1>3. AllWork => EnabledWorks
    BY DEF AllWork, Works, EnabledWorks
  <1> QED
    BY <1>1, <1>2, <1>3, TypesAlways, PTL DEF Spec

\* No request of the tool, and no edit that is modelled, switches off a source
\* that is on, replaces a real secret with the placeholder or removes a source
\* (mappers/idps.py:168-170).
THEOREM NothingIsSabotaged == Spec => NeverSabotaged
  <1>1. TypeInv /\ [Next]_vars =>
           [\A s \in Slugs :
               source[s] # NoSource =>
                 /\ source'[s] # NoSource
                 /\ source[s].enabled => source'[s].enabled
                 /\ source[s].secret = "real" => source'[s].secret = "real"]_vars
    BY StepKeeps DEF Keeps, Lasts
  <1> QED
    BY <1>1, TypesAlways, PTL DEF Spec, NeverSabotaged

-----------------------------------------------------------------------------
\* How often a certificate is imported.

\* The imports of a's certificate that were abandoned and may still arrive.
LateImports(a) == {x \in late : x[2].op = "import" /\ x[2].to = a}

\* The key pairs of a that there are or may yet be.
Owed(a) == keypair[a] + Cardinality(LateImports(a))

\* What the faults so far account for.
Budget == MaxExecutions * faults

\* Each fault leaves at most the attempts of one import behind, and a run only
\* imports when it has found no key pair, which all that are there were then
\* late.
KeyInv ==
    /\ IsFiniteSet(late)
    /\ \A a \in Certified :
          /\ Owed(a) <= 1 + Budget
          /\ keypair[a] = 0 \/ (cur = a /\ step = "import") => Owed(a) <= Budget

LEMMA BudgetType ==
    ASSUME faults \in Nat
    PROVE  /\ Budget \in Nat /\ MaxExecutions \in Nat \ {0}
           /\ faults' = faults => Budget' = Budget
           /\ faults' = faults + 1 => Budget' = Budget + MaxExecutions
  <1>1. MaxExecutions \in Nat \ {0}
    BY SourcesAssumption
  <1>2. MaxExecutions * faults \in Nat
        /\ MaxExecutions * (faults + 1) = MaxExecutions * faults + MaxExecutions
    BY <1>1
  <1> QED
    BY <1>1, <1>2 DEF Budget

LEMMA LateImportsType ==
    ASSUME IsFiniteSet(late), NEW a
    PROVE  IsFiniteSet(LateImports(a)) /\ Cardinality(LateImports(a)) \in Nat
  <1>1. LateImports(a) \subseteq late
    BY DEF LateImports
  <1> QED
    BY <1>1, FS_Subset, FS_CardinalityType

\* What a request does to the key pairs of a when it is committed.
Imports(w, a) == IF w.op = "import" /\ w.to = a THEN 1 ELSE 0

LEMMA CommitImports ==
    ASSUME AkType, NEW w, Commit(w), NEW a \in Certified
    PROVE  keypair'[a] = keypair[a] + Imports(w, a)
  BY DEF AkType, Commit, Imports

\* There are n attempts of one call.
LEMMA CopiesAre ==
    ASSUME NEW n \in Nat, NEW f, NEW w
    PROVE  /\ IsFiniteSet({<<<<f, i>>, w>> : i \in 1..n})
           /\ Cardinality({<<<<f, i>>, w>> : i \in 1..n}) <= n
  <1> DEFINE T == {<<<<f, i>>, w>> : i \in 1..n}
             m == [i \in 1..n |-> <<<<f, i>>, w>>]
  <1>1. IsFiniteSet(1..n) /\ Cardinality(1..n) = n
    <2>1. IsFiniteSet(1..n) /\ Cardinality(1..n) = IF 1 > n THEN 0 ELSE n - 1 + 1
      BY FS_Interval
    <2> QED
      BY <2>1
  <1>2. m \in Surjection(1..n, T)
    BY DEF Surjection
  <1> HIDE DEF T, m
  <1>3. IsFiniteSet(T) /\ Cardinality(T) <= Cardinality(1..n)
    BY <1>1, <1>2, FS_Surjection
  <1> QED
    BY <1>1, <1>3 DEF T

LEMMA AbandonImports ==
    ASSUME IsFiniteSet(late), NEW w, NEW n \in Nat, Abandon(w, n), NEW a
    PROVE  /\ IsFiniteSet(late)' /\ faults' = faults + 1
           /\ IF Imports(w, a) = 1
                THEN Cardinality(LateImports(a)') <= Cardinality(LateImports(a)) + n
                ELSE LateImports(a)' = LateImports(a)
  <1> DEFINE T == {<<<<faults', i>>, w>> : i \in 1..n}
  <1>1. late' = late \cup T /\ faults' = faults + 1
    BY DEF Abandon, Fault
  <1>2. LateImports(a)' = IF w.op = "import" /\ w.to = a THEN LateImports(a) \cup T
                          ELSE LateImports(a)
    BY <1>1 DEF LateImports
  <1>3. IsFiniteSet(LateImports(a)) /\ Cardinality(LateImports(a)) \in Nat
    BY LateImportsType
  <1>4. IsFiniteSet(T) /\ Cardinality(T) <= n
    BY CopiesAre
  <1> HIDE DEF T
  <1>5. Cardinality(LateImports(a) \cup T) <= Cardinality(LateImports(a)) + n
    <2>1. /\ IsFiniteSet(LateImports(a) \cup T) /\ IsFiniteSet(LateImports(a) \cap T)
          /\ Cardinality(LateImports(a) \cup T) =
                Cardinality(LateImports(a)) + Cardinality(T)
                - Cardinality(LateImports(a) \cap T)
      BY <1>3, <1>4, FS_Union, FS_Subset
    <2>2. Cardinality(LateImports(a) \cap T) \in Nat /\ Cardinality(T) \in Nat
      BY <1>4, <2>1, FS_CardinalityType
    <2> QED
      BY <1>3, <1>4, <2>1, <2>2
  <1>6. IsFiniteSet(late)'
    BY <1>1, <1>4, FS_Union
  <1> QED
    BY <1>1, <1>2, <1>5, <1>6 DEF Imports


\* Nothing happens to the key pairs and abandoned requests, and no import is
\* about to be sent that was not.
LEMMA KeysQuiet ==
    ASSUME TypeInv, KeyInv, UNCHANGED keypair, UNCHANGED late,
           faults' \in {faults, faults + 1},
           \A a \in Certified : (cur = a /\ step = "import")' =>
              keypair[a] = 0 \/ (cur = a /\ step = "import")
    PROVE  KeyInv'
  <1>1. IsFiniteSet(late)' /\ \A a \in Certified : LateImports(a)' = LateImports(a)
    BY DEF KeyInv, LateImports
  <1>2. \A a \in Certified : Owed(a)' = Owed(a) /\ Owed(a) \in Nat
    BY <1>1, LateImportsType DEF KeyInv, Owed, TypeInv, Ak, AkType
  <1>3. Budget \in Nat /\ Budget' \in Nat /\ Budget' >= Budget
    BY BudgetType DEF TypeInv, Ak, AkType
  <1> QED
    BY <1>1, <1>2, <1>3 DEF KeyInv, TypeInv, Ak, AkType

\* A request that the run sends: one import for a certificate that has none,
\* or a source.
LEMMA CallKeys ==
    ASSUME TypeInv, KeyInv, NEW w, NEW answer, Call(w, answer), IsWrite(w),
           \A a \in Certified : Imports(w, a) = 1 => Owed(a) <= Budget,
           cur' = NoAlias \/ step' = "write"
    PROVE  KeyInv'
  <1>1. ASSUME NEW a \in Certified
        PROVE  /\ IsFiniteSet(late)'
               /\ Owed(a)' <= 1 + Budget'
               /\ keypair'[a] = 0 => Owed(a)' <= Budget'
    <2> DEFINE L == Cardinality(LateImports(a))
               k == keypair[a]
               d == Imports(w, a)
               M == MaxExecutions
    <2>1. L \in Nat /\ k \in Nat /\ d \in {0, 1} /\ faults \in Nat
      BY LateImportsType DEF KeyInv, TypeInv, Ak, AkType, Imports
    <2>2. /\ Budget \in Nat /\ M \in Nat \ {0}
          /\ faults' = faults => Budget' = Budget
          /\ faults' = faults + 1 => Budget' = Budget + M
      BY <2>1, BudgetType
    <2>3. /\ k + L <= 1 + Budget /\ (k = 0 => k + L <= Budget)
          /\ d = 1 => k + L <= Budget
      BY DEF KeyInv, Owed
    <2>4. ASSUME NEW n \in Nat, Abandon(w, n)
          PROVE  /\ IsFiniteSet(late)' /\ L' \in Nat /\ Budget' = Budget + M
                 /\ d = 0 => L' = L
                 /\ d = 1 => L' <= L + n
      <3>1. /\ IsFiniteSet(late)' /\ faults' = faults + 1
            /\ IF Imports(w, a) = 1
                 THEN Cardinality(LateImports(a)') <= Cardinality(LateImports(a)) + n
                 ELSE LateImports(a)' = LateImports(a)
        BY <2>4, AbandonImports DEF KeyInv
      <3>2. LateImports(a)' \subseteq late'
        BY DEF LateImports
      <3>3. Cardinality(LateImports(a)') \in Nat
        BY <3>1, <3>2, FS_Subset, FS_CardinalityType
      <3>4. d = 0 => L' = L
        BY <3>1
      <3>5. d = 1 => L' <= L + n
        BY <3>1
      <3> QED
        BY <2>2, <3>1, <3>3, <3>4, <3>5
    <2>5. Owed(a)' = keypair'[a] + L'
      BY DEF Owed
    <2>6. CASE UNCHANGED <<late, faults>> /\ (keypair'[a] = k + d \/ keypair'[a] = k)
      <3>1. L' = L /\ Budget' = Budget /\ IsFiniteSet(late)'
        BY <2>2, <2>6 DEF LateImports, KeyInv
      <3> HIDE DEF L, k, d, M
      <3> QED
        BY <2>1, <2>2, <2>3, <2>5, <2>6, <3>1
    <2>7. CASE Abandon(w, M - 1) /\ keypair'[a] = k + d
      <3>1. M - 1 \in Nat
        BY <2>2
      <3>2. /\ IsFiniteSet(late)' /\ L' \in Nat /\ Budget' = Budget + M
            /\ d = 0 => L' = L
            /\ d = 1 => L' <= L + (M - 1)
        BY <2>4, <2>7, <3>1
      <3> HIDE DEF L, k, d, M
      <3>3. CASE d = 0
        <4>1. L' = L /\ Budget' = Budget + M
          BY <3>3, <3>2
        <4>2. keypair'[a] = k
          BY <2>1, <2>7, <3>3
        <4> QED
          BY <2>1, <2>2, <2>3, <2>5, <3>2, <4>1, <4>2
      <3>4. CASE d = 1
        <4>0. /\ keypair'[a] = k + 1 /\ keypair'[a] \in Nat
              /\ L' <= L + (M - 1)
          BY <2>1, <2>7, <3>2, <3>4
        <4>1. keypair'[a] + L' <= k + L + M /\ keypair'[a] + L' \in Nat
          <5>1. keypair'[a] \in Nat /\ L' \in Nat /\ k \in Nat /\ L \in Nat
            BY <2>1, <3>2, <4>0
          <5>2. M \in Nat
            BY <2>2
          <5>3. keypair'[a] + L' \in Nat
            BY <5>1
          <5>4. \A p, q, x, y, m \in Nat :
                   p = x + 1 /\ q <= y + (m - 1) => p + q <= x + y + m
            OBVIOUS
          <5>5. keypair'[a] + L' <= k + L + M
            BY <4>0, <5>1, <5>2, <5>4
          <5> QED
            BY <5>3, <5>5
        <4>2. k + L <= Budget
          BY <2>3, <3>4
        <4>3. keypair'[a] + L' <= Budget'
          BY <2>1, <2>2, <3>2, <4>1, <4>2
        <4> QED
          BY <2>2, <2>5, <3>2, <4>1, <4>3
      <3> QED
        BY <2>1, <3>3, <3>4
    <2>8. CASE Abandon(w, M) /\ keypair'[a] = k
      <3>1. /\ IsFiniteSet(late)' /\ L' \in Nat /\ Budget' = Budget + M
            /\ d = 0 => L' = L
            /\ d = 1 => L' <= L + M
        BY <2>2, <2>4, <2>8
      <3> HIDE DEF L, k, d, M
      <3>3. CASE d = 0
        <4>1. L' = L /\ Budget' = Budget + M
          BY <3>3, <3>1
        <4>2. keypair'[a] = k
          BY <2>1, <2>8, <3>3
        <4> QED
          BY <2>1, <2>2, <2>3, <2>5, <3>1, <4>1, <4>2
      <3>4. CASE d = 1
        <4>0. /\ keypair'[a] = k /\ keypair'[a] \in Nat
              /\ L' <= L + M
          BY <2>1, <2>8, <3>1, <3>4
        <4>1. keypair'[a] + L' <= k + L + M /\ keypair'[a] + L' \in Nat
          <5>1. keypair'[a] \in Nat /\ L' \in Nat /\ k \in Nat /\ L \in Nat
            BY <2>1, <3>1, <4>0
          <5>2. M \in Nat
            BY <2>2
          <5>3. keypair'[a] + L' \in Nat
            BY <5>1
          <5>4. \A p, q, x, y, m \in Nat :
                   p = x /\ q <= y + m => p + q <= x + y + m
            OBVIOUS
          <5>5. keypair'[a] + L' <= k + L + M
            BY <4>0, <5>1, <5>2, <5>4
          <5> QED
            BY <5>3, <5>5
        <4>2. k + L <= Budget
          BY <2>3, <3>4
        <4>3. keypair'[a] + L' <= Budget'
          BY <2>1, <2>2, <3>1, <4>1, <4>2
        <4> QED
          BY <2>2, <2>5, <3>1, <4>1, <4>3
      <3> QED
        BY <2>1, <3>3, <3>4
    <2>9. CASE answer = "ok"
      <3>1. keypair'[a] = k + d
        BY <2>9, CommitImports DEF Call, TypeInv, Ak
      <3>2. UNCHANGED <<late, faults>> \/ Abandon(w, M - 1)
        BY <2>9 DEF Call
      <3> QED
        BY <2>6, <2>7, <3>1, <3>2
    <2>10. CASE answer = "failed"
      <3>1. keypair'[a] = k
        BY <2>10 DEF Call
      <3>2. UNCHANGED <<late, faults>> \/ Abandon(w, M)
        BY <2>10 DEF Call
      <3> QED
        BY <2>6, <2>8, <3>1, <3>2
    <2> QED
      BY <2>9, <2>10 DEF Call
  <1>2. IsFiniteSet(late)'
    <2>1. MaxExecutions \in Nat /\ MaxExecutions - 1 \in Nat
      BY SourcesAssumption
    <2> QED
      BY <2>1, AbandonImports DEF Call, KeyInv
  <1>3. \A a \in Certified : a # NoAlias
    BY SourcesAssumption, NoneAssumption
  <1> QED
    BY <1>1, <1>2, <1>3 DEF KeyInv

\* A request that arrives late was already counted.
LEMMA LateKeys == ASSUME TypeInv, KeyInv, LateCommit PROVE KeyInv'
  <1>1. PICK x \in late :
          /\ late' = late \ {x}
          /\ IF Accepts(x[2]) THEN Commit(x[2]) ELSE UNCHANGED akObjects
    BY DEF LateCommit
  <1>2. UNCHANGED <<faults, cur, step>> /\ AkType
    BY DEF LateCommit, TypeInv, Ak
  <1>3. IsFiniteSet(late)'
    BY <1>1, FS_Subset DEF KeyInv
  <1>4. ASSUME NEW a \in Certified
        PROVE  Owed(a)' = Owed(a) /\ (keypair'[a] = 0 => keypair[a] = 0)
    <2>1. /\ IsFiniteSet(LateImports(a)) /\ Cardinality(LateImports(a)) \in Nat
          /\ keypair[a] \in Nat
      BY <1>2, LateImportsType DEF KeyInv, AkType
    <2>2. CASE x[2].op = "import" /\ x[2].to = a
      <3>1. keypair'[a] = keypair[a] + 1
        BY <1>1, <1>2, <2>2, CommitImports DEF Accepts, Imports
      <3>2. LateImports(a)' = LateImports(a) \ {x} /\ x \in LateImports(a)
        BY <1>1, <2>2 DEF LateImports
      <3>3. Cardinality(LateImports(a)') = Cardinality(LateImports(a)) - 1
        BY <2>1, <3>2, FS_RemoveElement
      <3> QED
        BY <2>1, <3>1, <3>3 DEF Owed
    <2>3. CASE ~(x[2].op = "import" /\ x[2].to = a)
      <3>1. keypair'[a] = keypair[a]
        BY <1>1, <1>2, <2>1, <2>3, CommitImports DEF Imports
      <3>2. LateImports(a)' = LateImports(a)
        BY <1>1, <2>3 DEF LateImports
      <3> QED
        BY <3>1, <3>2 DEF Owed
    <2> QED
      BY <2>2, <2>3
  <1>5. Budget' = Budget
    BY <1>2 DEF Budget
  <1> QED
    BY <1>2, <1>3, <1>4, <1>5 DEF KeyInv

LEMMA KeyStep == ASSUME TypeInv, KeyInv, [Next]_vars PROVE KeyInv'
  <1> USE DEF TypeInv, Ak, AkType
  <1>1. CASE Run
    BY <1>1, KeysQuiet DEF Run, Start
  <1>2. CASE Pass
    <2>1. CASE FindKeypair
      <3>1. PICK a \in Supported, o \in {"create", "update"} :
               cur = a /\ op = o /\ step = "keypair"
        BY <2>1, InHandIs DEF FindKeypair
      <3>2. cur' = a /\ (step' = "import" => keypair[a] = 0) /\ UNCHANGED akVars
        BY <2>1, <3>1, InHandIs DEF FindKeypair, KeypairFound, Goto
      <3> QED
        BY <3>2, KeysQuiet
    <2>2. CASE ImportKeypair
      <3>1. PICK a \in Supported, o \in {"create", "update"} :
               cur = a /\ op = o /\ step = "import" /\ a \in Certified
        BY <2>2, InHandIs DEF ImportKeypair
      <3>2. PICK answer : Call([op |-> "import", to |-> a], answer)
        BY <2>2, <3>1 DEF ImportKeypair
      <3>3. cur' = NoAlias \/ step' = "write"
        BY <2>2 DEF ImportKeypair, Row, Goto
      <3>4. \A b \in Certified :
               Imports([op |-> "import", to |-> a], b) = 1 => Owed(b) <= Budget
        BY <3>1 DEF Imports, KeyInv
      <3> QED
        BY <3>1, <3>2, <3>3, <3>4, CallKeys, ImportWrite
    <2>3. CASE WriteSource
      <3>1. PICK a \in Supported, o \in {"create", "update"}, answer \in {"ok", "failed"} :
              /\ o = "update" => source[SlugOf[a]] # NoSource
              /\ Call(TheWrite(a, o), answer)
              /\ IF answer = "ok" THEN Row(a, Done(o), Missing(a)) ELSE Row(a, "FAILED", {})
        BY <2>3, WriteSourceIs
      <3>2. cur' = NoAlias
        BY <3>1 DEF Row
      <3>3. \A b \in Certified : Imports(TheWrite(a, o), b) = 0
        BY DEF Imports, TheWrite
      <3> QED
        BY <3>1, <3>2, <3>3, CallKeys, SourceWrite
    <2>4. CASE ReadFails
      <3>1. cur' = NoAlias /\ step' = "none" /\ UNCHANGED akObjects /\ late' = late /\ Fault
        BY <2>4 DEF ReadFails, Row
      <3> QED
        BY <3>1, KeysQuiet DEF Fault
    <2>5. CASE \E a \in Aliases : Unsupported(a) \/ Match(a) \/ New(a)
      <3>1. UNCHANGED akVars /\ step' # "import"
        BY <2>5 DEF Unsupported, Match, New, Row, Goto, FirstStep
      <3> QED
        BY <3>1, KeysQuiet
    <2>6. CASE (\E l \in Links : Link(l)) \/ EndIdps \/ EndLinks
      BY <2>6, KeysQuiet DEF Link, EndIdps, EndLinks
    <2> QED
      BY <1>2, <2>1, <2>2, <2>3, <2>4, <2>5, <2>6 DEF Pass
  <1>3. CASE Interrupt
    BY <1>3, KeysQuiet DEF Interrupt, Fault
  <1>4. CASE LateCommit
    BY <1>4, LateKeys
  <1>5. CASE Foreign
    BY <1>5, KeysQuiet DEF Foreign
  <1>6. CASE UNCHANGED vars
    BY <1>6, KeysQuiet
  <1> QED
    BY <1>1, <1>2, <1>3, <1>4, <1>5, <1>6 DEF Next

\* A signing certificate is imported once, however many runs there are, but for
\* the attempts of failed or retried calls: each fault can cost as many copies
\* as a call has attempts, since _saml_signing_kp looks for the key pair before
\* they have arrived.
THEOREM CertificatesImportedOnce == Spec => []ImportedOnce
  <1>1. Init => KeyInv
    <2> SUFFICES ASSUME Init PROVE KeyInv
      OBVIOUS
    <2>1. late = {} /\ IsFiniteSet({}) /\ Cardinality({}) = 0
      BY FS_EmptySet DEF Init
    <2>2. \A a \in Certified : LateImports(a) = {}
      BY <2>1 DEF LateImports
    <2>3. faults = 0 /\ \A a \in Certified : keypair[a] = 0
      BY DEF Init
    <2>4. \A a \in Certified : Owed(a) = 0
      BY <2>1, <2>2, <2>3 DEF Owed
    <2>5. Budget \in Nat
      BY <2>3, BudgetType
    <2> QED
      BY <2>1, <2>4, <2>5 DEF KeyInv
  <1>2. TypeInv /\ KeyInv /\ [Next]_vars => KeyInv'
    BY KeyStep
  <1>3. TypeInv /\ KeyInv => ImportedOnce
    <2> SUFFICES ASSUME TypeInv, KeyInv, NEW a \in Certified
                 PROVE  keypair[a] <= 1 + MaxExecutions * faults
      BY DEF ImportedOnce
    <2>1. Cardinality(LateImports(a)) \in Nat /\ keypair[a] \in Nat /\ Budget \in Nat
      BY LateImportsType, BudgetType DEF KeyInv, TypeInv, Ak, AkType
    <2>2. keypair[a] <= 1 + Budget
      BY <2>1 DEF KeyInv, Owed
    <2> QED
      BY <2>2 DEF Budget
  <1> QED
    BY <1>1, <1>2, <1>3, TypesAlways, PTL DEF Spec


-----------------------------------------------------------------------------
\* The report on the providers.

\* A provider with a row of a write or a skip has its source, in an applied run.
ResolvedThere ==
    opts.apply => \A a \in Aliases : Resolved(a) => source[SlugOf[a]] # NoSource

LEMMA SlugType == ASSUME NEW a \in Aliases PROVE SlugOf[a] \in Slugs
  BY SourcesAssumption

LEMMA ThereQuiet ==
    ASSUME ResolvedThere, Lasts, UNCHANGED <<opts, res>> PROVE ResolvedThere'
  BY SlugType DEF ResolvedThere, Lasts, Resolved

LEMMA ThereRow ==
    ASSUME TypeInv, ResolvedThere, Lasts, opts' = opts, NEW a \in Aliases,
           NEW outcome, NEW missing, Row(a, outcome, missing),
           opts.apply /\ outcome \in {"CREATED", "SKIPPED", "UPDATED"} =>
              source'[SlugOf[a]] # NoSource
    PROVE  ResolvedThere'
  BY SlugType DEF ResolvedThere, Lasts, Resolved, Row, TypeInv, LoopType

LEMMA CommitThere ==
    ASSUME TypeInv, NEW w, IsWrite(w), Founded(w), w.op # "import", Accepts(w), Commit(w)
    PROVE  source'[w.to] # NoSource
  <1>1. CASE w.op = "create"
    <2>1. /\ source' = [source EXCEPT ![w.to] = Patch(Bare, w.payload)]
          /\ w.to \in Slugs /\ GoodPayload(w.payload, "create")
      BY <1>1 DEF Commit, IsWrite
    <2>2. Patch(Bare, w.payload) \in Sources
      BY <2>1, CreatePatch
    <2> QED
      BY <2>1, <2>2, NoneAssumption DEF TypeInv, Ak, AkType
  <1>2. CASE w.op = "update"
    <2>1. Lasts
      BY CommitKeeps DEF TypeInv, Ak
    <2> QED
      BY <1>2, <2>1 DEF Founded, IsWrite, Lasts
  <1> QED
    BY <1>1, <1>2 DEF IsWrite

LEMMA ThereStep == ASSUME TypeInv, ResolvedThere, [Next]_vars PROVE ResolvedThere'
  <1>1. Lasts
    BY StepKeeps DEF Keeps
  <1>2. CASE Run
    BY <1>2 DEF Run, Start, ResolvedThere, Resolved
  <1>3. CASE Pass
    <2>1. CASE FindKeypair \/ EndIdps \/ EndLinks \/ \E l \in Links : Link(l)
      BY <1>1, <2>1, ThereQuiet DEF FindKeypair, Goto, EndIdps, EndLinks, Link
    <2>2. CASE ReadFails
      <3>1. PICK a \in Supported : Row(a, "FAILED", {}) /\ opts' = opts
        BY <2>2 DEF ReadFails
      <3> QED
        BY <1>1, <3>1, ThereRow, Slugged
    <2>3. ASSUME NEW a \in Aliases, Unsupported(a) \/ Match(a) \/ New(a)
          PROVE  ResolvedThere'
      <3>1. CASE Unsupported(a)
        BY <1>1, <3>1, ThereRow DEF Unsupported
      <3>2. CASE Match(a)
        <4>1. source'[SlugOf[a]] # NoSource /\ opts' = opts
          BY <3>2 DEF Match
        <4>2. \/ Row(a, "SKIPPED", {}) \/ Row(a, "UPDATED", Missing(a))
              \/ UNCHANGED res
          BY <3>2 DEF Match, Goto
        <4> QED
          BY <1>1, <4>1, <4>2, ThereRow, ThereQuiet
      <3>3. CASE New(a)
        <4>1. opts' = opts /\ (UNCHANGED res \/ (~opts.apply /\ Row(a, "CREATED", Missing(a))))
          BY <3>3 DEF New, Goto
        <4> QED
          BY <1>1, <4>1, ThereRow, ThereQuiet
      <3> QED
        BY <2>3, <3>1, <3>2, <3>3
    <2>4. CASE ImportKeypair
      <3>1. PICK a \in Supported, o \in {"create", "update"} : cur = a /\ a \in Aliases
        BY <2>4, InHandIs DEF ImportKeypair
      <3>2. opts' = opts /\ (UNCHANGED res \/ Row(a, "FAILED", {}))
        BY <2>4, <3>1 DEF ImportKeypair, Goto
      <3> QED
        BY <1>1, <3>1, <3>2, ThereRow, ThereQuiet
    <2>5. CASE WriteSource
      <3>1. PICK a \in Supported, o \in {"create", "update"}, answer \in {"ok", "failed"} :
              /\ a \in Aliases /\ opts' = opts
              /\ o = "update" => source[SlugOf[a]] # NoSource
              /\ Call(TheWrite(a, o), answer)
              /\ IF answer = "ok" THEN Row(a, Done(o), Missing(a)) ELSE Row(a, "FAILED", {})
        BY <2>5, WriteSourceIs
      <3>2. IsWrite(TheWrite(a, o)) /\ Founded(TheWrite(a, o))
            /\ TheWrite(a, o).to = SlugOf[a] /\ TheWrite(a, o).op # "import"
        BY <3>1, SourceWrite DEF TheWrite
      <3>3. answer = "ok" => source'[SlugOf[a]] # NoSource
        BY <3>1, <3>2, CommitThere DEF Call
      <3> QED
        BY <1>1, <3>1, <3>3, ThereRow
    <2> QED
      BY <1>3, <2>1, <2>2, <2>3, <2>4, <2>5 DEF Pass
  <1>4. CASE Interrupt \/ LateCommit \/ Foreign \/ UNCHANGED vars
    BY <1>1, <1>4, ThereQuiet DEF Interrupt, LateCommit, Foreign
  <1> QED
    BY <1>2, <1>3, <1>4 DEF Next


-----------------------------------------------------------------------------
\* The report on the links.

\* How the links of a are treated: as this run's row says, or as the one lookup
\* has said.
Treated(a) ==
    IF InScope("idps") THEN IF Resolved(a) THEN "counted" ELSE "CONFLICT"
    ELSE IF live_exists[a] THEN "counted" ELSE "CONFLICT"

Counted(a) == {l \in Links : l[2] = a /\ linkRes[l] = "counted"}

Tidy ==
    phase \in {"idle", "idps"} =>
        /\ \A l \in Links : linkRes[l] = "none"
        /\ DOMAIN live_exists = {} /\ DOMAIN counts = {}

Uniform ==
    \A l \in Links :
        linkRes[l] # "none" =>
            /\ linkRes[l] = Treated(l[2])
            /\ ~InScope("idps") => l[2] \in DOMAIN live_exists

\* A source that was found is there, and stays.
Seen ==
    \A a \in DOMAIN live_exists :
        live_exists[a] \in BOOLEAN
        /\ (live_exists[a] => source[SlugOf[a]] # NoSource)

CountOK(a) ==
    /\ IsFiniteSet(Counted(a))
    /\ IF a \in DOMAIN counts THEN counts[a] = Cardinality(Counted(a))
       ELSE Counted(a) = {}

Told ==
    phase = "done" /\ InScope("idps") =>
        \A a \in DOMAIN counts : "federated_link_unwritable" \in tags[a]

LinkInv == Tidy /\ Uniform /\ Seen /\ (\A a \in Aliases : CountOK(a)) /\ Told

NoneTreated ==
    /\ \A l \in Links : linkRes[l] = "none"
    /\ DOMAIN live_exists = {} /\ DOMAIN counts = {}

LEMMA NoLinks == NoneTreated => LinkInv
  <1> SUFFICES ASSUME NoneTreated PROVE LinkInv
    OBVIOUS
  <1>1. \A a \in Aliases : Counted(a) = {} /\ IsFiniteSet({})
    BY FS_EmptySet DEF Counted, NoneTreated
  <1> QED
    BY <1>1 DEF LinkInv, Tidy, Uniform, Seen, CountOK, Told, NoneTreated

LEMMA CountedQuiet ==
    ASSUME LinkInv, UNCHANGED linkLoop PROVE \A a \in Aliases : CountOK(a)'
  <1>1. \A a \in Aliases : Counted(a)' = Counted(a)
    BY DEF Counted
  <1> QED
    BY <1>1 DEF LinkInv, CountOK

\* A step that leaves the loop over the links alone.
LEMMA LinksQuiet ==
    ASSUME TypeInv, LinkInv, Lasts, UNCHANGED <<opts, linkLoop>>,
           phase' = "idle" => phase = "idle", phase' = "idps" => phase = "idps",
           phase' = "done" => phase = "done" /\ tags' = tags,
           res' = res \/ phase = "idps"
    PROVE  LinkInv'
  <1>1. \A a \in Aliases : CountOK(a)'
    BY CountedQuiet
  <1>2. Tidy'
    BY DEF LinkInv, Tidy
  <1>3. Uniform'
    <2>1. CASE res' = res
      BY <2>1 DEF LinkInv, Uniform, Treated, Resolved, InScope
    <2>2. CASE phase = "idps"
      BY <2>2 DEF LinkInv, Uniform, Tidy
    <2> QED
      BY <2>1, <2>2
  <1>4. Seen'
    BY SlugType DEF LinkInv, Seen, Lasts, TypeInv, RunType
  <1>5. Told'
    BY DEF LinkInv, Told, InScope
  <1> QED
    BY <1>1, <1>2, <1>3, <1>4, <1>5 DEF LinkInv

LEMMA LinkLinks ==
    ASSUME TypeInv, LinkInv, NEW l \in Links, Link(l) PROVE LinkInv'
  <1> DEFINE asked == ~InScope("idps")
             exists == IF l[2] \in DOMAIN live_exists THEN live_exists[l[2]]
                       ELSE source[SlugOf[l[2]]] # NoSource
             found == IF asked THEN exists ELSE Resolved(l[2])
  <1>1. /\ phase = "links" /\ linkRes[l] = "none" /\ l[2] \in Aliases
        /\ live_exists' = IF asked THEN Keep(l[2], exists) ELSE live_exists
        /\ linkRes' = [linkRes EXCEPT ![l] = IF found THEN "counted" ELSE "CONFLICT"]
        /\ IF found THEN Count(l[2]) ELSE counts' = counts
        /\ UNCHANGED <<akVars, opts, phase, idpLoop>>
    BY SourcesAssumption DEF Link, WaitingLink
  <1>2. exists \in BOOLEAN /\ (exists => source[SlugOf[l[2]]] # NoSource)
        /\ (l[2] \in DOMAIN live_exists => exists = live_exists[l[2]])
    <2>1. CASE l[2] \in DOMAIN live_exists
      <3>1. exists = live_exists[l[2]]
        BY <2>1
      <3>2. live_exists[l[2]] \in BOOLEAN
            /\ (live_exists[l[2]] => source[SlugOf[l[2]]] # NoSource)
        BY <2>1 DEF LinkInv, Seen
      <3> QED
        BY <3>1, <3>2
    <2>2. CASE l[2] \notin DOMAIN live_exists
      <3>1. exists = (source[SlugOf[l[2]]] # NoSource)
        BY <2>2
      <3> QED
        BY <2>2, <3>1
    <2> QED
      BY <2>1, <2>2
  <1>3. found \in BOOLEAN /\ asked \in BOOLEAN /\ (asked => found = exists)
        /\ (~asked => found = Resolved(l[2])) /\ (asked <=> ~InScope("idps"))
    <2>1. asked \in BOOLEAN /\ (asked <=> ~InScope("idps"))
      BY DEF InScope
    <2> HIDE DEF exists, asked
    <2>2. (asked => found = exists) /\ (~asked => found = Resolved(l[2]))
      BY <2>1
    <2>3. Resolved(l[2]) \in BOOLEAN
      BY DEF Resolved
    <2> QED
      BY <1>2, <2>1, <2>2, <2>3
  <1> HIDE DEF exists, found, asked
  <1>4. Tidy'
    BY <1>1 DEF Tidy
  <1>5. Seen'
    <2>1. CASE ~asked
      BY <1>1, <2>1 DEF LinkInv, Seen
    <2>2. CASE asked
      <3>1. /\ DOMAIN live_exists' = DOMAIN live_exists \cup {l[2]}
            /\ \A b \in DOMAIN live_exists' :
                  live_exists'[b] = IF b = l[2] THEN exists ELSE live_exists[b]
        BY <1>1, <2>2 DEF Keep
      <3> QED
        BY <1>1, <1>2, <3>1 DEF LinkInv, Seen
    <2> QED
      BY <1>3, <2>1, <2>2
  <1>6. Uniform'
    <2> SUFFICES ASSUME NEW m \in Links, linkRes'[m] # "none"
                 PROVE  /\ linkRes'[m] = Treated(m[2])'
                        /\ ~InScope("idps") => m[2] \in DOMAIN live_exists'
      BY <1>1 DEF Uniform, InScope
    <2>1. linkRes'[m] = IF m = l THEN IF found THEN "counted" ELSE "CONFLICT"
                        ELSE linkRes[m]
      BY <1>1 DEF TypeInv, RunType
    <2>2. CASE InScope("idps")
      <3>1. Treated(m[2])' = IF Resolved(m[2]) THEN "counted" ELSE "CONFLICT"
        BY <1>1, <2>2 DEF Treated, Resolved, InScope
      <3>2. CASE m = l
        BY <1>3, <2>1, <2>2, <3>1, <3>2
      <3>3. CASE m # l
        BY <2>1, <2>2, <3>1, <3>3 DEF LinkInv, Uniform, Treated
      <3> QED
        BY <2>2, <3>2, <3>3
    <2>3. CASE ~InScope("idps")
      <3>1. /\ DOMAIN live_exists' = DOMAIN live_exists \cup {l[2]}
            /\ \A b \in DOMAIN live_exists' :
                  live_exists'[b] = IF b = l[2] THEN exists ELSE live_exists[b]
        BY <1>1, <1>3, <2>3 DEF Keep
      <3>2. Treated(m[2])' = IF live_exists'[m[2]] THEN "counted" ELSE "CONFLICT"
        BY <1>1, <2>3 DEF Treated, InScope
      <3>3. CASE m = l
        BY <1>3, <2>1, <2>3, <3>1, <3>2, <3>3
      <3>4. CASE m # l
        <4>1. linkRes[m] = (IF live_exists[m[2]] THEN "counted" ELSE "CONFLICT")
              /\ m[2] \in DOMAIN live_exists
          BY <2>1, <2>3, <3>4 DEF LinkInv, Uniform, Treated
        <4>2. live_exists'[m[2]] = live_exists[m[2]]
          BY <1>2, <3>1, <4>1
        <4> QED
          BY <2>1, <3>1, <3>2, <3>4, <4>1, <4>2
      <3> QED
        BY <3>3, <3>4
    <2> QED
      BY <2>2, <2>3
  <1>7. \A a \in Aliases : CountOK(a)'
    <2> SUFFICES ASSUME NEW a \in Aliases PROVE CountOK(a)'
      OBVIOUS
    <2>1. CountOK(a) /\ l \notin Counted(a)
      BY <1>1 DEF LinkInv, Counted
    <2>2. CASE found /\ a = l[2]
      <3>1. Counted(a)' = Counted(a) \cup {l}
        BY <1>1, <2>2 DEF Counted, TypeInv, RunType
      <3>2. /\ IsFiniteSet(Counted(a)')
            /\ Cardinality(Counted(a)') = Cardinality(Counted(a)) + 1
        BY <2>1, <3>1, FS_AddElement DEF CountOK
      <3>3. a \in DOMAIN counts' /\
            counts'[a] = (IF a \in DOMAIN counts THEN counts[a] ELSE 0) + 1
        BY <1>1, <2>2 DEF Count
      <3>4. a \notin DOMAIN counts => Cardinality(Counted(a)) = 0
        BY <2>1, FS_EmptySet DEF CountOK
      <3> QED
        BY <2>1, <3>2, <3>3, <3>4 DEF CountOK
    <2>3. CASE ~(found /\ a = l[2])
      <3>1. Counted(a)' = Counted(a)
        BY <1>1, <2>3 DEF Counted, TypeInv, RunType
      <3>2. /\ a \in DOMAIN counts' <=> a \in DOMAIN counts
            /\ a \in DOMAIN counts => \/ counts'[a] = counts[a] + 0
                                     \/ counts'[a] = counts[a]
        <4>1. CASE found
          <5>1. a # l[2]
            BY <2>3, <4>1
          <5>2. /\ DOMAIN counts' = DOMAIN counts \cup {l[2]}
                /\ \A b \in DOMAIN counts : b # l[2] => counts'[b] = counts[b] + 0
            BY <1>1, <4>1 DEF Count
          <5> QED
            BY <5>1, <5>2
        <4>2. CASE ~found
          BY <1>1, <4>2
        <4> QED
          BY <4>1, <4>2
      <3>3. a \in DOMAIN counts => counts[a] \in Nat
        BY <2>1, FS_CardinalityType DEF CountOK
      <3> QED
        BY <2>1, <3>1, <3>2, <3>3 DEF CountOK
    <2> QED
      BY <1>3, <2>2, <2>3
  <1>8. Told'
    BY <1>1 DEF Told
  <1> QED
    BY <1>4, <1>5, <1>6, <1>7, <1>8 DEF LinkInv


LEMMA LinkInvStep == ASSUME TypeInv, LinkInv, [Next]_vars PROVE LinkInv'
  <1>1. Lasts
    BY StepKeeps DEF Keeps
  <1>2. CASE Run
    <2>1. PICK o \in Invocations : Start(o)
      BY <1>2 DEF Run
    <2>2. NoneTreated'
      BY <2>1 DEF Start, NoneTreated
    <2> QED
      BY <2>2, NoLinks, PTL
  <1>3. CASE Pass
    <2>1. CASE \E l \in Links : Link(l)
      BY <2>1, LinkLinks
    <2>2. CASE EndIdps
      BY <1>1, <2>2, LinksQuiet DEF EndIdps
    <2>3. CASE EndLinks
      <3>1. \A a \in Aliases : CountOK(a)'
        BY <2>3, CountedQuiet DEF EndLinks
      <3>2. Tidy' /\ Uniform' /\ Seen'
        BY <2>3 DEF EndLinks, LinkInv, Tidy, Uniform, Treated, Resolved, InScope, Seen
      <3>3. Told'
        BY <2>3 DEF EndLinks, Told, InScope, TypeInv, RunType
      <3> QED
        BY <3>1, <3>2, <3>3 DEF LinkInv
    <2>4. CASE ReadFails \/ \E a \in Aliases : Unsupported(a) \/ Match(a) \/ New(a)
      BY <1>1, <2>4, LinksQuiet DEF ReadFails, Unsupported, Match, New, Waiting
    <2>5. CASE FindKeypair \/ ImportKeypair \/ WriteSource
      BY <1>1, <2>5, LinksQuiet DEF FindKeypair, ImportKeypair, WriteSource, InHand
    <2> QED
      BY <1>3, <2>1, <2>2, <2>3, <2>4, <2>5 DEF Pass
  <1>4. CASE Interrupt \/ LateCommit \/ Foreign \/ UNCHANGED vars
    BY <1>1, <1>4, LinksQuiet DEF Interrupt, LateCommit, Foreign
  <1> QED
    BY <1>2, <1>3, <1>4 DEF Next


LEMMA ReportAlways == Spec => [](TypeInv /\ ResolvedThere /\ LinkInv)
  <1>1. Init => ResolvedThere /\ LinkInv
    <2> SUFFICES ASSUME Init PROVE ResolvedThere /\ LinkInv
      OBVIOUS
    <2>1. NoneTreated
      BY DEF Init, NoneTreated
    <2>2. ResolvedThere
      BY DEF Init, ResolvedThere
    <2> QED
      BY <2>1, <2>2, NoLinks
  <1>2. TypeInv /\ ResolvedThere /\ LinkInv /\ [Next]_vars => ResolvedThere' /\ LinkInv'
    BY ThereStep, LinkInvStep
  <1> QED
    BY <1>1, <1>2, TypesAlways, PTL DEF Spec

\* The links of one provider are treated alike, although requests and
\* administrators add sources while the loop is at them: the rows of the
\* providers stand still, and one lookup decides for all (_source_exists_live).
THEOREM LinksAlike == Spec => []LinksTreatedAlike
  <1>1. LinkInv => LinksTreatedAlike
    BY DEF LinkInv, Uniform, Treated, LinksTreatedAlike
  <1> QED
    BY <1>1, ReportAlways, PTL

\* A link that an applied run counts has a source to belong to, the count of its
\* provider is the number of such links, and at the end the provider's row tells
\* of them if the run has one (migrator.py:905-912).
THEOREM LinksAreTold == Spec => []CountedLinksHaveSource
  <1>1. TypeInv /\ ResolvedThere /\ LinkInv => CountedLinksHaveSource
    <2> SUFFICES ASSUME TypeInv, ResolvedThere, LinkInv, opts.apply,
                        NEW l \in Links, linkRes[l] = "counted"
                 PROVE  /\ source[SlugOf[l[2]]] # NoSource
                        /\ counts[l[2]] = Cardinality({m \in Links :
                              m[2] = l[2] /\ linkRes[m] = "counted"})
                        /\ phase = "done" /\ InScope("idps") =>
                              "federated_link_unwritable" \in tags[l[2]]
      BY DEF CountedLinksHaveSource
    <2>1. l[2] \in Aliases /\ l \in Counted(l[2])
      BY SourcesAssumption DEF Counted
    <2>2. l[2] \in DOMAIN counts /\ counts[l[2]] = Cardinality(Counted(l[2]))
      BY <2>1 DEF LinkInv, CountOK
    <2>3. source[SlugOf[l[2]]] # NoSource
      <3>1. "counted" = Treated(l[2]) /\ (~InScope("idps") => l[2] \in DOMAIN live_exists)
        BY DEF LinkInv, Uniform
      <3>2. CASE InScope("idps")
        BY <2>1, <3>1, <3>2 DEF Treated, ResolvedThere
      <3>3. CASE ~InScope("idps")
        <4>1. live_exists[l[2]]
          BY <3>1, <3>3 DEF Treated
        <4> QED
          BY <3>1, <3>3, <4>1 DEF LinkInv, Seen
      <3> QED
        BY <3>2, <3>3
    <2> QED
      BY <2>2, <2>3 DEF Counted, LinkInv, Told
  <1> QED
    BY <1>1, ReportAlways, PTL

-----------------------------------------------------------------------------
\* What is said of providers that were created.

\* No two providers that are migrated have one slug.  Without this a second
\* provider can update the source of the first, and with a secret of its own
\* switch it on after the row of the first was written.
SlugsDiffer == \A a, b \in Supported : SlugOf[a] = SlugOf[b] => a = b

UpdatesTo(s) == {x \in late : x[2].op = "update" /\ x[2].to = s}

\* A source that this run has created is as its row says, and no request is left
\* that could change it.
Exact(a) ==
    /\ a \in Supported
    /\ source[SlugOf[a]] # NoSource
    /\ source[SlugOf[a]].enabled <=> tags[a] \subseteq {"federated_link_unwritable"}
    /\ UpdatesTo(SlugOf[a]) = {}

CreatedInv ==
    opts.apply =>
        /\ cur # NoAlias => res[cur] = "none"
        /\ \A a \in Aliases : res[a] = "CREATED" => Exact(a)

LEMMA CommitElsewhere ==
    ASSUME AkType, NEW w, IsWrite(w), Accepts(w), Commit(w),
           NEW s \in Slugs, source[s] # NoSource, ~(w.op = "update" /\ w.to = s)
    PROVE  source'[s] = source[s]
  BY DEF AkType, IsWrite, Accepts, Commit

\* A source that is there stays as it is, and nothing new can change it.
Settled(s) == source'[s] = source[s] /\ UpdatesTo(s)' \subseteq UpdatesTo(s)

LEMMA CallSettled ==
    ASSUME AkType, NEW w, IsWrite(w), NEW answer, Call(w, answer),
           NEW s \in Slugs, source[s] # NoSource, ~(w.op = "update" /\ w.to = s)
    PROVE  Settled(s)
  <1>1. source'[s] = source[s]
    BY CommitElsewhere DEF Call
  <1>2. \A x \in late' : x \in late \/ x[2] = w
    BY DEF Call, Abandon
  <1> QED
    BY <1>1, <1>2 DEF Settled, UpdatesTo

LEMMA LateSettled ==
    ASSUME AkType, LateCommit, NEW s \in Slugs, source[s] # NoSource, UpdatesTo(s) = {}
    PROVE  Settled(s)
  <1>1. PICK x \in late :
          /\ late' = late \ {x}
          /\ IF Accepts(x[2]) THEN Commit(x[2]) ELSE UNCHANGED akObjects
    BY DEF LateCommit
  <1>2. IsWrite(x[2]) /\ ~(x[2].op = "update" /\ x[2].to = s)
    BY DEF AkType, UpdatesTo
  <1>3. source'[s] = source[s]
    BY <1>1, <1>2, CommitElsewhere
  <1> QED
    BY <1>1, <1>3 DEF Settled, UpdatesTo

LEMMA ExactSettled ==
    ASSUME NEW a \in Aliases, Exact(a), Settled(SlugOf[a]),
           tags'[a] = tags[a]
           \/ tags'[a] = tags[a] \cup {"federated_link_unwritable"}
    PROVE  Exact(a)'
  BY DEF Exact, Settled

\* A step that writes no row and takes nothing new in hand.
LEMMA CreatedQuiet ==
    ASSUME TypeInv, CreatedInv, UNCHANGED <<opts, res>>, cur' = cur \/ cur' = NoAlias,
           \A a \in Aliases :
              res[a] = "CREATED" /\ Exact(a) =>
                 /\ Settled(SlugOf[a])
                 /\ \/ tags'[a] = tags[a]
                    \/ tags'[a] = tags[a] \cup {"federated_link_unwritable"}
    PROVE  CreatedInv'
  BY ExactSettled DEF CreatedInv, TypeInv

\* The row of the provider in hand, or of one that has none.
LEMMA CreatedRow ==
    ASSUME TypeInv, CreatedInv, opts' = opts, NEW a \in Aliases,
           NEW outcome, NEW missing, Row(a, outcome, missing),
           opts.apply => \A b \in Aliases :
               b # a /\ res[b] = "CREATED" /\ Exact(b) => Settled(SlugOf[b]),
           opts.apply /\ outcome = "CREATED" => Exact(a)'
    PROVE  CreatedInv'
  <1> SUFFICES ASSUME opts.apply, NEW b \in Aliases, res'[b] = "CREATED" PROVE Exact(b)'
    BY DEF CreatedInv, Row
  <1>1. CASE b = a
    BY <1>1 DEF Row, TypeInv, LoopType
  <1>2. CASE b # a
    <2>1. res[b] = "CREATED" /\ tags'[b] = tags[b]
      BY <1>2 DEF Row, TypeInv, LoopType
    <2>2. Exact(b)
      BY <2>1 DEF CreatedInv
    <2> QED
      BY <1>2, <2>1, <2>2, ExactSettled
  <1> QED
    BY <1>1, <1>2


LEMMA CreatedGoto ==
    ASSUME TypeInv, CreatedInv, UNCHANGED <<akVars, opts>>, NEW a \in Aliases,
           res[a] = "none", NEW o, NEW s, Goto(a, o, s)
    PROVE  CreatedInv'
  <1>1. \A b \in Aliases : Settled(SlugOf[b])
    BY DEF Settled, UpdatesTo
  <1>2. UNCHANGED <<res, tags>> /\ cur' = a
    BY DEF Goto
  <1> QED
    BY <1>1, <1>2, ExactSettled DEF CreatedInv

LEMMA ReadyMissing ==
    ASSUME NEW a, opts \in Options
    PROVE  Ready(a) <=> Missing(a) \subseteq {"federated_link_unwritable"}
  BY DEF Ready, Missing

\* A create that is accepted makes a source as the row will say, and no request
\* to change it can be under way, since those have found it.
LEMMA CreatedExact ==
    ASSUME TypeInv, NEW a \in Supported, a \in Aliases,
           Call(TheWrite(a, "create"), "ok"), Row(a, "CREATED", Missing(a)),
           opts' = opts
    PROVE  Exact(a)'
  <1> DEFINE s == SlugOf[a]
             w == TheWrite(a, "create")
  <1>1. /\ source[s] = NoSource /\ s \in Slugs
        /\ source' = [source EXCEPT ![s] = Patch(Bare, Payload(a, "create"))]
    BY SlugType DEF Call, Accepts, Commit, TheWrite
  <1>2. /\ GoodPayload(Payload(a, "create"), "create")
        /\ Payload(a, "create")["enabled"] = Ready(a)
    BY PayloadGood DEF TypeInv, RunType
  <1>3. /\ Patch(Bare, Payload(a, "create")) \in Sources
        /\ Patch(Bare, Payload(a, "create")).enabled = Ready(a)
    BY <1>2, CreatePatch
  <1>4. source'[s] = Patch(Bare, Payload(a, "create"))
    BY <1>1 DEF TypeInv, Ak, AkType
  <1>5. source'[s] # NoSource /\ source'[s].enabled = Ready(a)
    BY <1>3, <1>4, NoneAssumption
  <1>6. tags'[a] = Missing(a)
    BY DEF Row, TypeInv, LoopType
  <1>7. Ready(a) <=> tags'[a] \subseteq {"federated_link_unwritable"}
    BY <1>6, ReadyMissing DEF TypeInv, RunType
  <1>8. UpdatesTo(s)' = {}
    <2>1. (\A x \in late' : x \in late \/ x[2] = w) /\ w.op = "create"
      BY DEF Call, Abandon, TheWrite
    <2>2. UpdatesTo(s) = {}
      BY <1>1 DEF UpdatesTo, TypeInv, Ak, Founded
    <2> QED
      BY <2>1, <2>2 DEF UpdatesTo
  <1> HIDE DEF s
  <1>9. source'[s].enabled <=> tags'[a] \subseteq {"federated_link_unwritable"}
    BY <1>5, <1>7
  <1> QED
    BY <1>5, <1>8, <1>9 DEF Exact, s

LEMMA CreatedStep ==
    ASSUME SlugsDiffer, TypeInv, CreatedInv, [Next]_vars PROVE CreatedInv'
  <1> USE DEF TypeInv, Ak
  <1>1. CASE Run
    BY <1>1 DEF Run, Start, CreatedInv
  <1>2. CASE Pass
    <2>1. CASE (\E l \in Links : Link(l)) \/ EndIdps \/ EndLinks
      <3>1. UNCHANGED <<akVars, opts, res, cur>>
            /\ \A a \in Aliases :
                  \/ tags'[a] = tags[a]
                  \/ tags'[a] = tags[a] \cup {"federated_link_unwritable"}
        BY <2>1 DEF Link, EndIdps, EndLinks
      <3> QED
        BY <3>1, CreatedQuiet DEF Settled, UpdatesTo
    <2>2. CASE FindKeypair
      BY <2>2, CreatedQuiet DEF FindKeypair, Goto, Settled, UpdatesTo
    <2>3. CASE ReadFails
      <3>1. PICK a \in Supported : Row(a, "FAILED", {}) /\ opts' = opts
                                   /\ UNCHANGED <<source, late>>
        BY <2>3 DEF ReadFails
      <3> QED
        BY <3>1, CreatedRow, Slugged DEF Settled, UpdatesTo
    <2>4. ASSUME NEW a \in Aliases, Unsupported(a) \/ Match(a) \/ New(a)
          PROVE  CreatedInv'
      <3>1. UNCHANGED <<akVars, opts>> /\ res[a] = "none"
        BY <2>4 DEF Unsupported, Match, New, Waiting
      <3>2. \/ \E o, s : Goto(a, o, s)
            \/ \E outcome, missing : /\ Row(a, outcome, missing)
                                     /\ opts.apply => outcome # "CREATED"
        BY <2>4 DEF Unsupported, Match, New
      <3> QED
        BY <3>1, <3>2, CreatedGoto, CreatedRow DEF Settled, UpdatesTo
    <2>5. CASE ImportKeypair
      <3>1. PICK a \in Supported, o \in {"create", "update"} :
               cur = a /\ a \in Aliases /\ a \in Certified
        BY <2>5, InHandIs DEF ImportKeypair
      <3>2. PICK answer \in {"ok", "failed"} :
               /\ Call([op |-> "import", to |-> a], answer)
               /\ (UNCHANGED <<res, tags>> /\ cur' = cur) \/ Row(a, "FAILED", {})
               /\ opts' = opts
        BY <2>5, <3>1 DEF ImportKeypair, Goto
      <3>3. \A b \in Aliases : Exact(b) => Settled(SlugOf[b])
        BY <3>1, <3>2, CallSettled, ImportWrite, SlugType DEF Exact
      <3> QED
        BY <3>1, <3>2, <3>3, CreatedRow, CreatedQuiet
    <2>6. CASE WriteSource
      <3>1. PICK a \in Supported, o \in {"create", "update"}, answer \in {"ok", "failed"} :
              /\ a \in Aliases /\ opts' = opts
              /\ o = "update" => source[SlugOf[a]] # NoSource
              /\ Call(TheWrite(a, o), answer)
              /\ IF answer = "ok" THEN Row(a, Done(o), Missing(a)) ELSE Row(a, "FAILED", {})
        BY <2>6, WriteSourceIs
      <3>2. \A b \in Aliases : b # a /\ Exact(b) => Settled(SlugOf[b])
        <4>1. TheWrite(a, o).to = SlugOf[a] /\ IsWrite(TheWrite(a, o))
          BY <3>1, SourceWrite DEF TheWrite
        <4> QED
          BY <3>1, <4>1, CallSettled, SlugType DEF Exact, SlugsDiffer
      <3>3. CASE answer = "ok" /\ o = "create"
        <4>1. Exact(a)'
          BY <3>1, <3>3, CreatedExact DEF Done
        <4> QED
          BY <3>1, <3>2, <3>3, <4>1, CreatedRow
      <3>4. CASE ~(answer = "ok" /\ o = "create")
        <4>1. Row(a, "UPDATED", Missing(a)) \/ Row(a, "FAILED", {})
          BY <3>1, <3>4 DEF Done
        <4> QED
          BY <3>1, <3>2, <4>1, CreatedRow
      <3> QED
        BY <3>3, <3>4
    <2> QED
      BY <1>2, <2>1, <2>2, <2>3, <2>4, <2>5, <2>6 DEF Pass
  <1>3. CASE Interrupt \/ UNCHANGED vars
    BY <1>3, CreatedQuiet DEF Interrupt, Settled, UpdatesTo
  <1>4. CASE LateCommit
    <2>1. \A a \in Aliases : Exact(a) => Settled(SlugOf[a])
      BY <1>4, LateSettled, SlugType DEF Exact
    <2> QED
      BY <1>4, <2>1, CreatedQuiet DEF LateCommit
  <1>5. CASE Foreign
    <2>1. \A s \in Slugs : source[s] # NoSource => Settled(s)
      BY <1>5 DEF Foreign, Settled, UpdatesTo, AkType
    <2> QED
      BY <1>5, <2>1, CreatedQuiet, SlugType DEF Foreign, Exact
  <1> QED
    BY <1>1, <1>2, <1>3, <1>4, <1>5 DEF Next

\* "N identity providers created disabled" is exact if no two of them have one
\* slug: an applied run's row says that something is missing just for those of
\* its sources that are switched off, whatever late requests and administrators
\* do meanwhile (cli.py:389-398).
THEOREM CreatedDisabledExact ==
    ASSUME SlugsDiffer PROVE Spec => []CreatedDisabledIsTold
  <1>1. Init => CreatedInv
    BY DEF Init, CreatedInv
  <1>2. TypeInv /\ CreatedInv /\ [Next]_vars => CreatedInv'
    BY CreatedStep
  <1>3. CreatedInv => CreatedDisabledIsTold
    BY DEF CreatedInv, Exact, CreatedDisabledIsTold
  <1> QED
    BY <1>1, <1>2, <1>3, TypesAlways, PTL DEF Spec

-----------------------------------------------------------------------------
\* What a dry run promises.

FedTag == "federated_link_unwritable"

\* The row that a provider gets from a run in which only the tool acts.
Due(a) ==
    IF a \notin Supported THEN "CONFLICT"
    ELSE IF source[SlugOf[a]] = NoSource THEN "CREATED"
    ELSE IF opts.update THEN "UPDATED" ELSE "SKIPPED"

DueTags(a) == IF Due(a) \in {"CREATED", "UPDATED"} THEN Missing(a) ELSE {}

\* A provider's entries before those of the links are added.
Said(a) == tags[a] \ {FedTag}

\* The source that a dry run finds is of another type, which an update refuses.
Mismatch(a) ==
    /\ a \in Supported
    /\ source[SlugOf[a]] # NoSource
    /\ source[SlugOf[a]].kind # KindOf[a]

AllRows ==
    InScope("idps") /\ phase \in {"links", "done"} => \A a \in Aliases : res[a] # "none"

\* A dry run says what is due; nothing changes, so it stays due.
DryRow(a) ==
    IF res[a] = "none" THEN Said(a) = {}
    ELSE InScope("idps") /\ res[a] = Due(a) /\ Said(a) = DueTags(a)

\* The lookup of the provider in hand is still true.
HandOK ==
    cur # NoAlias =>
        /\ InScope("idps") /\ res[cur] = "none"
        /\ op = "create" => source[SlugOf[cur]] = NoSource
        /\ op = "update" => opts.update

\* In the applied run, a provider without row is promised what is due, and the
\* others have what they were promised.
AppliedRow(a) ==
    IF ~InScope("idps")
      THEN res[a] = "none" /\ Said(a) = {}
           /\ promised.res[a] = "none" /\ promised.tags[a] = {}
    ELSE IF res[a] = "none"
      THEN promised.res[a] = Due(a) /\ promised.tags[a] = DueTags(a)
    ELSE \/ promised.res[a] = res[a] /\ promised.tags[a] = Said(a)
         \/ Mismatch(a)

PromisedType ==
    promised = NoPlan
    \/ promised \in
          [res : [Aliases -> {"none", "CREATED", "SKIPPED", "UPDATED", "CONFLICT", "FAILED"}],
           tags : [Aliases -> SUBSET {"idp_secret_missing", "idp_flow_missing",
                                      "federated_link_unwritable"}]]

DryInv == ~opts.apply /\ calm => cur = NoAlias /\ \A a \in Aliases : DryRow(a)

AppliedInv ==
    opts.apply /\ promised # NoPlan /\ calm => HandOK /\ \A a \in Aliases : AppliedRow(a)

PlanInv == AllRows /\ PromisedType /\ calm \in BOOLEAN /\ DryInv /\ AppliedInv

\* What PlanNext adds to a step that starts no run.
CalmStep ==
    /\ promised' = promised
    /\ calm' = (calm /\ <<faults, foreign, late>>' = <<faults, foreign, late>>)

LEMMA SameDue ==
    ASSUME TypeInv, NEW a \in Aliases, opts' = opts,
           a \in Supported => source'[SlugOf[a]] = source[SlugOf[a]]
    PROVE  Due(a)' = Due(a) /\ DueTags(a)' = DueTags(a) /\ (Mismatch(a)' <=> Mismatch(a))
  BY DEF Due, DueTags, Mismatch, Missing, NeedsSecret, MissingFlow

\* A row that is not touched, and whose source is not.
LEMMA SameRow ==
    ASSUME TypeInv, NEW a \in Aliases, opts' = opts, promised' = promised,
           res'[a] = res[a], Said(a)' = Said(a),
           a \in Supported => source'[SlugOf[a]] = source[SlugOf[a]]
    PROVE  (DryRow(a) => DryRow(a)') /\ (AppliedRow(a) => AppliedRow(a)')
  BY SameDue DEF DryRow, AppliedRow, InScope

\* A step that writes no row.
LEMMA PlanQuiet ==
    ASSUME TypeInv, PlanInv, CalmStep, AllRows', UNCHANGED <<opts, res>>,
           \A a \in Aliases : Said(a)' = Said(a),
           calm' => source' = source,
           calm' /\ ~opts.apply => cur' = NoAlias,
           calm' /\ opts.apply /\ promised # NoPlan => HandOK'
    PROVE  PlanInv'
  <1>1. \A a \in Aliases : calm' => (DryRow(a) => DryRow(a)') /\ (AppliedRow(a) => AppliedRow(a)')
    BY SameRow DEF CalmStep
  <1>2. calm' => calm
    BY DEF CalmStep, PlanInv
  <1>3. DryInv' /\ AppliedInv'
    BY <1>1, <1>2 DEF DryInv, AppliedInv, PlanInv, CalmStep
  <1> QED
    BY <1>3 DEF PlanInv, CalmStep, PromisedType

\* A step that writes the row that is due, or one of another type's source.
LEMMA PlanRow ==
    ASSUME TypeInv, PlanInv, CalmStep, UNCHANGED <<opts, phase>>, phase = "idps",
           InScope("idps"), NEW a \in Aliases, NEW outcome, outcome # "none",
           NEW missing \in SUBSET MissingTypes, Row(a, outcome, missing), res[a] = "none",
           calm' => \A b \in Supported : b # a => source'[SlugOf[b]] = source[SlugOf[b]],
           calm' /\ ~opts.apply => source' = source
                                   /\ outcome = Due(a) /\ missing = DueTags(a),
           calm' /\ opts.apply => \/ outcome = Due(a) /\ missing = DueTags(a)
                                  \/ Mismatch(a)'
    PROVE  PlanInv'
  <1>1. /\ res'[a] = outcome /\ Said(a)' = missing
        /\ \A b \in Aliases : b # a => res'[b] = res[b] /\ Said(b)' = Said(b)
        /\ cur' = NoAlias
    BY DEF Row, TypeInv, LoopType, Said, MissingTypes, FedTag
  <1>2. calm' => calm
    BY DEF CalmStep, PlanInv
  <1>3. ASSUME NEW b \in Aliases, b # a, calm'
        PROVE  (DryRow(b) => DryRow(b)') /\ (AppliedRow(b) => AppliedRow(b)')
    BY <1>1, <1>3, SameRow DEF CalmStep
  <1>4. calm' /\ ~opts.apply => DryRow(a)'
    BY <1>1, SameDue DEF DryRow, InScope
  <1>5. calm' /\ opts.apply /\ promised # NoPlan /\ AppliedRow(a) => AppliedRow(a)'
    BY <1>1 DEF AppliedRow, InScope, CalmStep
  <1>6. DryInv' /\ AppliedInv'
    BY <1>1, <1>2, <1>3, <1>4, <1>5 DEF DryInv, AppliedInv, PlanInv, CalmStep, HandOK
  <1>7. AllRows'
    BY DEF AllRows
  <1> QED
    BY <1>6, <1>7 DEF PlanInv, CalmStep, PromisedType

LEMMA PlanStart ==
    ASSUME TypeInv, PlanInv, PlanNext, NEW o \in Invocations, Start(o)
    PROVE  PlanInv'
  <1>1. /\ Starts /\ opts' = o /\ phase' = "idps" /\ cur' = NoAlias
        /\ \A a \in Aliases : res'[a] = "none" /\ Said(a)' = {}
    BY DEF Start, Starts, Running, Said
  <1>2. /\ source' = source /\ calm' \in BOOLEAN
        /\ (calm' /\ o.apply) => calm
    BY <1>1 DEF Start, PlanNext, PlanInv
  <1>3. \/ promised' = NoPlan
        \/ /\ promised' = Rows /\ phase = "done" /\ ~opts.apply
           /\ o = [opts EXCEPT !.apply = TRUE]
    BY <1>1 DEF PlanNext
  <1>4. AllRows'
    BY <1>1 DEF AllRows
  <1>5. PromisedType'
    <2>1. Rows \in [res : [Aliases -> {"none", "CREATED", "SKIPPED", "UPDATED", "CONFLICT", "FAILED"}],
                    tags : [Aliases -> SUBSET {"idp_secret_missing", "idp_flow_missing",
                                               "federated_link_unwritable"}]]
      BY DEF Rows, TypeInv, LoopType
    <2> QED
      BY <1>3, <2>1 DEF PromisedType
  <1>6. DryInv'
    BY <1>1 DEF DryInv, DryRow
  <1>7. ASSUME promised' # NoPlan, calm', o.apply, NEW a \in Aliases
        PROVE  AppliedRow(a)'
    <2>1. /\ phase = "done" /\ ~opts.apply /\ calm
          /\ o.scope = opts.scope /\ o.update = opts.update /\ o.secrets = opts.secrets
          /\ o.auth = opts.auth /\ o.enroll = opts.enroll
      BY <1>2, <1>3, <1>7 DEF TypeInv, RunType, Options
    <2>2. promised'.res[a] = res[a] /\ promised'.tags[a] = Said(a)
      BY <1>3, <1>7 DEF Rows, Said, FedTag
    <2>3. DryRow(a)
      BY <1>7, <2>1 DEF PlanInv, DryInv
    <2>4. Due(a)' = Due(a) /\ DueTags(a)' = DueTags(a)
      BY <1>1, <1>2, <2>1 DEF Due, DueTags, Missing, NeedsSecret, MissingFlow
    <2>5. (InScope("idps"))' <=> InScope("idps")
      BY <1>1, <2>1 DEF InScope
    <2>6. CASE InScope("idps")
      <3>1. res[a] # "none"
        BY <2>1, <2>6, <1>7 DEF PlanInv, AllRows
      <3> QED
        BY <1>1, <1>7, <2>2, <2>3, <2>4, <2>5, <2>6, <3>1 DEF AppliedRow, DryRow
    <2>7. CASE ~InScope("idps")
      <3>1. res[a] = "none" /\ Said(a) = {}
        BY <2>3, <2>7 DEF DryRow
      <3> QED
        BY <1>1, <1>7, <2>2, <2>5, <2>7, <3>1 DEF AppliedRow
    <2> QED
      BY <2>6, <2>7
  <1>8. AppliedInv'
    BY <1>1, <1>7 DEF AppliedInv, HandOK
  <1> QED
    BY <1>2, <1>4, <1>5, <1>6, <1>8 DEF PlanInv

LEMMA Quieter ==
    ASSUME TypeInv, PlanNext, ~Run PROVE CalmStep
  <1>1. ~Starts
    <2>1. CASE Pass
      BY <2>1 DEF Pass, Unsupported, Match, New, Waiting, ReadFails, FindKeypair, ImportKeypair,
         WriteSource, InHand, Link, WaitingLink, EndIdps, EndLinks, Starts, Running
    <2>2. CASE Interrupt \/ LateCommit \/ Foreign
      BY <2>2 DEF Interrupt, LateCommit, Foreign, Starts, Running
    <2> QED
      BY <2>1, <2>2 DEF PlanNext, Next
  <1> QED
    BY <1>1 DEF PlanNext, CalmStep

\* A fault ends the calm, and so do a late request and an administrator.
LEMMA CalmEnds ==
    ASSUME TypeInv, CalmStep, calm', Fault \/ LateCommit \/ Foreign PROVE FALSE
  <1>1. faults' = faults /\ foreign' = foreign /\ late' = late
    BY DEF CalmStep
  <1>2. CASE Fault
    <2>1. faults \in Nat /\ faults' = faults + 1
      BY <1>2, SourcesAssumption DEF Fault, TypeInv, Ak, AkType
    <2> QED
      BY <1>1, <2>1
  <1>3. CASE LateCommit
    <2>1. PICK x \in late : late' = late \ {x}
      BY <1>3 DEF LateCommit
    <2>2. x \in late /\ x \notin late'
      BY <2>1
    <2> QED
      BY <1>1, <2>2
  <1>4. CASE Foreign
    <2>1. foreign \in Nat /\ foreign' = foreign + 1
      BY <1>4, SourcesAssumption DEF Foreign, TypeInv, Ak, AkType
    <2> QED
      BY <1>1, <2>1
  <1> QED
    BY <1>2, <1>3, <1>4

LEMMA CalmCall ==
    ASSUME TypeInv, CalmStep, calm', NEW w, NEW answer, Call(w, answer)
    PROVE  \/ answer = "ok" /\ Accepts(w) /\ Commit(w)
           \/ answer = "failed" /\ ~Accepts(w) /\ UNCHANGED akObjects
  BY CalmEnds DEF Call, Abandon

LEMMA PlanLookup ==
    ASSUME TypeInv, PlanInv, CalmStep, NEW a \in Aliases,
           Unsupported(a) \/ Match(a) \/ New(a)
    PROVE  PlanInv'
  <1>1. /\ UNCHANGED <<akVars, opts, phase>> /\ phase = "idps" /\ InScope("idps")
        /\ cur = NoAlias /\ res[a] = "none"
    BY DEF Unsupported, Match, New, Waiting
  <1>2. {} \in SUBSET MissingTypes /\ Missing(a) \in SUBSET MissingTypes
    BY MissingType
  <1>3. CASE Unsupported(a)
    <2>1. Row(a, "CONFLICT", {}) /\ Due(a) = "CONFLICT" /\ DueTags(a) = {}
      BY <1>3 DEF Unsupported, Due, DueTags, Supported
    <2> QED
      BY <1>1, <1>2, <2>1, PlanRow
  <1>4. CASE (Match(a) \/ New(a)) /\ \E o, s : Goto(a, o, s)
    <2>1. /\ opts.apply /\ UNCHANGED <<res, tags>> /\ cur' = a
          /\ op' = "create" => source[SlugOf[a]] = NoSource
          /\ op' = "update" => opts.update
      <3>1. PICK o, s : Goto(a, o, s)
        BY <1>4
      <3>2. UNCHANGED <<res, tags>> /\ cur' = a
        BY <3>1 DEF Goto
      <3>3. \/ opts.apply /\ op' = "update" /\ opts.update
            \/ opts.apply /\ op' = "create" /\ source[SlugOf[a]] = NoSource
        BY <1>1, <1>4, <3>2, NotNone DEF Match, New, Goto, Row, Supported
      <3> QED
        BY <3>2, <3>3
    <2>2. HandOK'
      BY <1>1, <2>1 DEF HandOK, InScope
    <2>3. \A b \in Aliases : Said(b)' = Said(b)
      BY <2>1 DEF Said
    <2>4. AllRows'
      BY <1>1 DEF AllRows
    <2> QED
      BY <1>1, <2>1, <2>2, <2>3, <2>4, PlanQuiet
  <1>5. CASE (Match(a) \/ New(a)) /\ ~\E o, s : Goto(a, o, s)
    <2>1. a \in Supported
      BY <1>5 DEF Match, New, Supported
    <2>2. PICK outcome \in {"CREATED", "UPDATED", "SKIPPED"}, missing \in {{}, Missing(a)} :
             Row(a, outcome, missing) /\ outcome = Due(a) /\ missing = DueTags(a)
      BY <1>5, <2>1 DEF Match, New, Due, DueTags
    <2> QED
      BY <1>1, <1>2, <2>2, PlanRow
  <1> QED
    BY <1>3, <1>4, <1>5

LEMMA PlanFault ==
    ASSUME TypeInv, PlanInv, CalmStep, NEW a \in Supported, Fault,
           UNCHANGED <<opts, phase>>, Row(a, "FAILED", {}), phase = "idps"
    PROVE  PlanInv'
  <1>1. ~calm'
    BY CalmEnds
  <1>2. AllRows'
    BY DEF AllRows
  <1> QED
    BY <1>1, <1>2 DEF PlanInv, PromisedType, DryInv, AppliedInv, CalmStep

LEMMA PlanKeypair ==
    ASSUME TypeInv, PlanInv, CalmStep, FindKeypair \/ ImportKeypair
    PROVE  PlanInv'
  <1>1. PICK a \in Supported, o \in {"create", "update"} :
            cur = a /\ op = o /\ a \in Certified /\ a \in Aliases /\ a # NoAlias
    BY InHandIs DEF FindKeypair, ImportKeypair
  <1>2. phase = "idps" /\ UNCHANGED <<opts, phase>>
    BY DEF FindKeypair, ImportKeypair, InHand
  <1>3. AllRows'
    BY <1>2 DEF AllRows
  <1>4. CASE ~calm'
    BY <1>3, <1>4 DEF PlanInv, PromisedType, DryInv, AppliedInv, CalmStep
  <1>5. CASE calm'
    <2>1. source' = source /\ \E s : Goto(a, o, s)
      <3>1. CASE FindKeypair
        BY <1>1, <3>1 DEF FindKeypair
      <3>2. CASE ImportKeypair
        <4>1. PICK answer \in {"ok", "failed"} :
                 /\ Call([op |-> "import", to |-> a], answer)
                 /\ IF answer = "ok" THEN Goto(a, o, "write") ELSE Row(a, "FAILED", {})
          BY <1>1, <3>2 DEF ImportKeypair
        <4>2. answer = "ok" /\ Commit([op |-> "import", to |-> a])
          <5>1. Accepts([op |-> "import", to |-> a])
            BY DEF Accepts
          <5> QED
            BY <1>5, <4>1, <5>1, CalmCall
        <4> QED
          BY <4>1, <4>2 DEF Commit
      <3> QED
        BY <3>1, <3>2
    <2>2. UNCHANGED <<res, tags>> /\ cur' = cur /\ op' = op
      BY <1>1, <2>1 DEF Goto
    <2>3. \A b \in Aliases : Said(b)' = Said(b)
      BY <2>2 DEF Said
    <2>4. calm
      BY <1>5 DEF CalmStep
    <2>5. ~opts.apply => cur' = NoAlias
      BY <2>2, <2>4 DEF PlanInv, DryInv
    <2>6. opts.apply /\ promised # NoPlan => HandOK'
      BY <1>2, <2>1, <2>2, <2>4 DEF PlanInv, AppliedInv, HandOK, InScope
    <2> QED
      BY <1>2, <1>3, <2>1, <2>2, <2>3, <2>5, <2>6, PlanQuiet
  <1> QED
    BY <1>4, <1>5

\* In the calm, a write does what is due, unless its source is of another type.
LEMMA PlanWrite ==
    ASSUME SlugsDiffer, TypeInv, PlanInv, CalmStep, WriteSource
    PROVE  PlanInv'
  <1>1. PICK a \in Supported, o \in {"create", "update"}, answer \in {"ok", "failed"} :
              /\ cur = a /\ op = o /\ a \in Aliases /\ phase = "idps"
              /\ o = "update" => source[SlugOf[a]] # NoSource
              /\ Call(TheWrite(a, o), answer)
              /\ IF answer = "ok" THEN Row(a, Done(o), Missing(a)) ELSE Row(a, "FAILED", {})
              /\ UNCHANGED <<opts, phase>>
    BY WriteSourceIs
  <1>2. AllRows'
    BY <1>1 DEF AllRows
  <1>3. CASE ~(calm' /\ opts.apply /\ promised # NoPlan)
    <2>1. calm' /\ ~opts.apply => FALSE
      BY <1>1, NotNone DEF CalmStep, PlanInv, DryInv
    <2> QED
      BY <1>1, <1>2, <1>3, <2>1 DEF PlanInv, PromisedType, DryInv, AppliedInv, CalmStep
  <1>4. CASE calm' /\ opts.apply /\ promised # NoPlan
    <2>1. /\ InScope("idps") /\ res[a] = "none"
          /\ o = "create" => source[SlugOf[a]] = NoSource
          /\ o = "update" => opts.update
      BY <1>1, <1>4, NotNone DEF CalmStep, PlanInv, AppliedInv, HandOK
    <2>2. \/ answer = "ok" /\ Accepts(TheWrite(a, o)) /\ Commit(TheWrite(a, o))
          \/ answer = "failed" /\ ~Accepts(TheWrite(a, o)) /\ source' = source
      BY <1>1, <1>4, CalmCall
    <2>3. \A b \in Supported : b # a => source'[SlugOf[b]] = source[SlugOf[b]]
      <3>1. \A s \in Slugs : s # SlugOf[a] => source'[s] = source[s]
        BY <2>2 DEF Commit, TheWrite, TypeInv, Ak, AkType
      <3> QED
        BY <3>1, Slugged DEF SlugsDiffer
    <2>4. {} \in SUBSET MissingTypes /\ Missing(a) \in SUBSET MissingTypes
      BY MissingType
    <2>5. CASE answer = "ok"
      <3>1. Done(o) = Due(a) /\ Missing(a) = DueTags(a) /\ Done(o) # "none"
        BY <1>1, <2>1 DEF Done, Due, DueTags
      <3> QED
        BY <1>1, <1>4, <2>1, <2>3, <2>4, <2>5, <3>1, PlanRow
    <2>6. CASE answer = "failed"
      <3>1. o = "update" /\ source' = source /\ Mismatch(a)
        <4>1. o # "create"
          BY <2>1, <2>2, <2>6 DEF Accepts, TheWrite
        <4>2. Payload(a, o).kind = KindOf[a]
          BY <1>1, PayloadGood DEF TypeInv, RunType, Payload, Fields
        <4> QED
          BY <1>1, <2>2, <2>6, <4>1, <4>2 DEF Accepts, TheWrite, Mismatch
      <3>2. Mismatch(a)'
        BY <3>1 DEF Mismatch
      <3> QED
        BY <1>1, <1>4, <2>1, <2>3, <2>4, <2>6, <3>2, PlanRow
    <2> QED
      BY <2>5, <2>6
  <1> QED
    BY <1>3, <1>4

LEMMA PlanLinks ==
    ASSUME TypeInv, PlanInv, CalmStep, (\E l \in Links : Link(l)) \/ EndIdps \/ EndLinks
    PROVE  PlanInv'
  <1>1. UNCHANGED <<akVars, opts, res, cur, op>>
    BY DEF Link, EndIdps, EndLinks
  <1>2. \A a \in Aliases : Said(a)' = Said(a)
    BY DEF Link, EndIdps, EndLinks, Said, FedTag, TypeInv, LoopType
  <1>3. AllRows'
    BY <1>1 DEF Link, EndIdps, EndLinks, PlanInv, AllRows, InScope
  <1>4. HandOK => HandOK'
    BY <1>1 DEF HandOK, InScope
  <1>5. calm' => calm
    BY DEF CalmStep
  <1> QED
    BY <1>1, <1>2, <1>3, <1>4, <1>5, PlanQuiet DEF PlanInv, DryInv, AppliedInv

LEMMA PlanStep ==
    ASSUME SlugsDiffer, TypeInv, PlanInv, [PlanNext]_planVars PROVE PlanInv'
  <1>1. CASE PlanNext /\ Run
    BY <1>1, PlanStart DEF Run
  <1>2. CASE PlanNext /\ ~Run
    <2>1. CalmStep
      BY <1>2, Quieter
    <2>2. CASE Pass
      <3>1. CASE ReadFails
        BY <2>1, <3>1, PlanFault DEF ReadFails, Waiting
      <3> QED
        BY <2>1, <2>2, <3>1, PlanLookup, PlanKeypair, PlanWrite, PlanLinks DEF Pass
    <2>3. CASE Interrupt \/ LateCommit \/ Foreign
      <3>1. ~calm'
        BY <2>1, <2>3, CalmEnds DEF Interrupt
      <3>2. UNCHANGED <<opts, res>> /\ (phase' = phase \/ phase' = "stopped")
        BY <2>3 DEF Interrupt, LateCommit, Foreign
      <3>3. AllRows'
        BY <3>2 DEF PlanInv, AllRows, InScope
      <3> QED
        BY <2>1, <3>1, <3>3 DEF PlanInv, PromisedType, DryInv, AppliedInv, CalmStep
    <2> QED
      BY <1>2, <2>2, <2>3 DEF PlanNext, Next
  <1>3. CASE UNCHANGED planVars
    BY <1>3 DEF planVars, PlanInv, AllRows, PromisedType, DryInv, AppliedInv, HandOK,
       DryRow, AppliedRow, Said, Due, DueTags, Mismatch, Missing, NeedsSecret, MissingFlow,
       InScope
  <1> QED
    BY <1>1, <1>2, <1>3

LEMMA PlanKept == ASSUME TypeInv, PlanInv PROVE PlanIsHonoured
  <1> SUFFICES ASSUME phase = "links", opts.apply, promised # NoPlan, calm, SlugsMatch
               PROVE  promised = Rows
    BY DEF PlanIsHonoured
  <1>1. ASSUME NEW a \in Aliases
        PROVE  promised.res[a] = res[a] /\ promised.tags[a] = Said(a)
    <2>1. AppliedRow(a) /\ ~Mismatch(a)
      BY DEF PlanInv, AppliedInv, SlugsMatch, Mismatch
    <2>2. InScope("idps") => res[a] # "none"
      BY DEF PlanInv, AllRows
    <2> QED
      BY <2>1, <2>2 DEF AppliedRow
  <1>2. promised \in
          [res : [Aliases -> {"none", "CREATED", "SKIPPED", "UPDATED", "CONFLICT", "FAILED"}],
           tags : [Aliases -> SUBSET {"idp_secret_missing", "idp_flow_missing",
                                      "federated_link_unwritable"}]]
    BY DEF PlanInv, PromisedType
  <1>3. promised.res = res
    BY <1>1, <1>2 DEF TypeInv, LoopType
  <1>4. promised.tags = [a \in Aliases |-> tags[a] \ {"federated_link_unwritable"}]
    BY <1>1, <1>2 DEF Said, FedTag
  <1> QED
    BY <1>2, <1>3, <1>4 DEF Rows

\* A dry run tells what the applied run will do, if no two providers have one
\* slug and no source of another type is in the way: when the same command line
\* follows with --apply and nothing else happens meanwhile, no fault, no late
\* request and no administrator, every provider gets the outcome and the entries
\* of the dry run (migrator.py:139-143).
THEOREM DryRunIsHonoured ==
    ASSUME SlugsDiffer PROVE PlanSpec => []PlanIsHonoured
  <1>1. PlanInit => TypeInv /\ PlanInv
    <2> SUFFICES ASSUME PlanInit PROVE TypeInv /\ PlanInv
      OBVIOUS
    <2>1. TypeInv
      BY InitType DEF PlanInit
    <2>2. PlanInv
      BY DEF PlanInit, Init, PlanInv, AllRows, PromisedType, DryInv, AppliedInv, InScope
    <2> QED
      BY <2>1, <2>2
  <1>2. TypeInv /\ PlanInv /\ [PlanNext]_planVars => TypeInv' /\ PlanInv'
    <2> SUFFICES ASSUME TypeInv, PlanInv, [PlanNext]_planVars PROVE TypeInv' /\ PlanInv'
      OBVIOUS
    <2>1. [Next]_vars
      BY DEF PlanNext, planVars
    <2> QED
      BY <2>1, StepKeeps, PlanStep
  <1>3. TypeInv /\ PlanInv => PlanIsHonoured
    BY PlanKept
  <1> QED
    BY <1>1, <1>2, <1>3, PTL DEF PlanSpec
=============================================================================
