--------------------------- MODULE PayloadsProofs ---------------------------
(***************************************************************************)
(* For every client that Keycloak can have, with any combination of        *)
(* grants, redirects, scopes, mappers and fields: its payload is one that  *)
(* Authentik takes, what is lost without a word is what Silent names, no   *)
(* more and no less, nothing is invented, and who exits green has what the *)
(* client had, but for that.                                               *)
(***************************************************************************)
EXTENDS Payloads, FiniteSetTheorems, TLAPS

\* What Migrate makes of a client.
Result(c) ==
    [provider |-> map_provider(c),
     claims |-> standard_scope_mappings(c),
     mappings |-> Attached(c),
     unmapped |-> unmapped(c)]

UniqueNames(c) == \A m, n \in c.mappers : m.name = n.name => m = n

Inv == kc \in ClientReps /\ UniqueNames(kc) /\ (out = <<>> \/ out = <<Result(kc)>>)

LEMMA InvHolds == Spec => []Inv
  <1>1. Init => Inv
    BY PayloadsAssumption DEF Init, Inv, UniqueNames
  <1>2. Inv /\ [Next]_vars => Inv'
    BY DEF Inv, Next, Migrate, vars, Result
  <1> QED
    BY <1>1, <1>2, PTL DEF Spec

LEMMA OutIs ==
    ASSUME Inv, Migrated
    PROVE  /\ Out.provider = map_provider(kc)
           /\ Out.claims = standard_scope_mappings(kc)
           /\ Out.mappings = Attached(kc)
           /\ Out.unmapped = unmapped(kc)
  <1>1. Out = Result(kc)
    BY DEF Inv, Migrated, Out
  <1> QED
    BY <1>1 DEF Result

-----------------------------------------------------------------------------
\* The grants.

\* Each comes at most once in a sequence, and A are those that occur.
Lists(s, A) == s \in Seq(Grants) /\ IsInjective(s) /\ ToSet(s) = A

LEMMA ListsNothing == Lists(<<>>, {})
  BY DEF Lists, IsInjective, ToSet

LEMMA ListsOne == ASSUME NEW g \in Grants PROVE Lists(<<g>>, {g})
  BY DEF Lists, IsInjective, ToSet

LEMMA ListsBoth ==
    ASSUME NEW s, NEW t, NEW A, NEW B, Lists(s, A), Lists(t, B), A \cap B = {}
    PROVE  Lists(s \o t, A \cup B)
  <1> DEFINE st == s \o t
  <1>1. /\ st \in Seq(Grants) /\ Len(st) = Len(s) + Len(t)
        /\ Len(s) \in Nat /\ Len(t) \in Nat
        /\ \A i \in 1..Len(s) : st[i] = s[i]
        /\ \A i \in 1..Len(t) : st[Len(s) + i] = t[i]
        /\ DOMAIN s = 1..Len(s) /\ DOMAIN t = 1..Len(t) /\ DOMAIN st = 1..Len(st)
    BY DEF Lists
  <1>2. \A i \in DOMAIN s : s[i] \in A
    BY DEF Lists, ToSet
  <1>3. \A i \in DOMAIN t : t[i] \in B
    BY DEF Lists, ToSet
  <1> HIDE DEF st
  <1>4. \A k \in DOMAIN st :
           \/ k \in DOMAIN s /\ st[k] = s[k]
           \/ k - Len(s) \in DOMAIN t /\ st[k] = t[k - Len(s)]
    <2> TAKE k \in DOMAIN st
    <2>1. CASE k <= Len(s)
      BY <1>1, <2>1
    <2>2. CASE k > Len(s)
      <3>1. k - Len(s) \in 1..Len(t) /\ Len(s) + (k - Len(s)) = k
        BY <1>1, <2>2
      <3> QED
        BY <1>1, <3>1
    <2> QED
      BY <1>1, <2>1, <2>2
  <1>5. IsInjective(st)
    <2> SUFFICES ASSUME NEW a \in DOMAIN st, NEW b \in DOMAIN st, st[a] = st[b] PROVE a = b
      BY DEF IsInjective
    <2>1. CASE a \in DOMAIN s /\ st[a] = s[a] /\ b \in DOMAIN s /\ st[b] = s[b]
      BY <2>1 DEF Lists, IsInjective
    <2>2. CASE /\ a - Len(s) \in DOMAIN t /\ st[a] = t[a - Len(s)]
               /\ b - Len(s) \in DOMAIN t /\ st[b] = t[b - Len(s)]
      <3>1. a - Len(s) = b - Len(s)
        BY <2>2 DEF Lists, IsInjective
      <3> QED
        BY <1>1, <3>1
    <2> QED
      BY <1>2, <1>3, <1>4, <2>1, <2>2
  <1>6. ToSet(st) = A \cup B
    <2>1. ToSet(s) = A /\ ToSet(t) = B
      BY DEF Lists
    <2>2. ToSet(st) \subseteq A \cup B
      BY <1>2, <1>3, <1>4 DEF ToSet
    <2>3. A \subseteq ToSet(st)
      BY <1>1, <2>1 DEF ToSet
    <2>4. B \subseteq ToSet(st)
      <3> SUFFICES ASSUME NEW i \in 1..Len(t) PROVE t[i] \in ToSet(st)
        BY <1>1, <2>1 DEF ToSet
      <3>1. Len(s) + i \in DOMAIN st
        BY <1>1
      <3> QED
        BY <1>1, <3>1 DEF ToSet
    <2> QED
      BY <2>2, <2>3, <2>4
  <1> QED
    BY <1>1, <1>5, <1>6 DEF Lists, st

Some(cond, g) == IF cond THEN <<g>> ELSE <<>>

LEMMA ListsSome ==
    ASSUME NEW cond \in BOOLEAN, NEW g \in Grants PROVE Lists(Some(cond, g), When(cond, g))
  BY ListsNothing, ListsOne DEF Some, When

\* The grants of a client, in one set.
GrantsOf(c) ==
    When(c.standard, "authorization_code") \cup When(c.implicit, "implicit")
    \cup When(c.standard /\ c.implicit, "hybrid")
    \cup When(c.service, "client_credentials") \cup When(c.direct, "password")
    \cup When(c.device = "true", "device_code") \cup When(Refresh(c), "refresh_token")

LEMMA GrantsAre ==
    ASSUME NEW c \in ClientReps PROVE Lists(map_grant_types(c), GrantsOf(c))
  <1> DEFINE s1 == Some(c.standard, "authorization_code")
             s2 == Some(c.implicit, "implicit")
             s3 == Some(Hybrid(c), "hybrid")
             s4 == Some(c.service, "client_credentials")
             s5 == Some(c.direct, "password")
             s6 == Some(c.device = "true", "device_code")
             s7 == Some(Refresh(c), "refresh_token")
             A1 == When(c.standard, "authorization_code")
             A2 == When(c.implicit, "implicit")
             A3 == When(Hybrid(c), "hybrid")
             A4 == When(c.service, "client_credentials")
             A5 == When(c.direct, "password")
             A6 == When(c.device = "true", "device_code")
             A7 == When(Refresh(c), "refresh_token")
  <1>1. /\ c.standard \in BOOLEAN /\ c.implicit \in BOOLEAN /\ c.service \in BOOLEAN
        /\ c.direct \in BOOLEAN
    BY DEF ClientReps
  <1>2. Lists(s1, A1) /\ Lists(s2, A2) /\ Lists(s3, A3) /\ Lists(s4, A4)
        /\ Lists(s5, A5) /\ Lists(s6, A6) /\ Lists(s7, A7)
    <2>1. Hybrid(c) \in BOOLEAN /\ Refresh(c) \in BOOLEAN /\ (c.device = "true") \in BOOLEAN
      BY <1>1 DEF Hybrid, Refresh
    <2> QED
      BY <1>1, <2>1, ListsSome DEF Grants
  <1>3. /\ A1 \cap A2 = {} /\ (A1 \cup A2) \cap A3 = {}
        /\ A4 \cap A5 = {} /\ (A4 \cup A5) \cap A6 = {}
        /\ (A1 \cup A2 \cup A3) \cap A7 = {}
        /\ (A1 \cup A2 \cup A3 \cup A7) \cap (A4 \cup A5 \cup A6) = {}
        /\ (A1 \cup A2 \cup A3) \cap (A4 \cup A5 \cup A6) = {}
        /\ (A1 \cup A2 \cup A3 \cup (A4 \cup A5 \cup A6)) \cap A7 = {}
    BY DEF When
  <1>4. GrantsOf(c) = A1 \cup A2 \cup A3 \cup A7 \cup (A4 \cup A5 \cup A6)
        /\ GrantsOf(c) = A1 \cup A2 \cup A3 \cup (A4 \cup A5 \cup A6) \cup A7
    BY DEF GrantsOf, Hybrid
  <1>5. map_grant_types(c) =
           IF c.service THEN ((s1 \o s2 \o s3) \o s7) \o (s4 \o s5 \o s6)
                        ELSE ((s1 \o s2 \o s3) \o (s4 \o s5 \o s6)) \o s7
    BY DEF map_grant_types, Some
  <1> HIDE DEF s1, s2, s3, s4, s5, s6, s7, A1, A2, A3, A4, A5, A6, A7
  <1>6. Lists(s1 \o s2, A1 \cup A2) /\ Lists(s4 \o s5, A4 \cup A5)
    BY <1>2, <1>3, ListsBoth
  <1>7. Lists(s1 \o s2 \o s3, A1 \cup A2 \cup A3)
    BY <1>2, <1>3, <1>6, ListsBoth
  <1>8. Lists(s4 \o s5 \o s6, A4 \cup A5 \cup A6)
    BY <1>2, <1>3, <1>6, ListsBoth
  <1>9. CASE c.service
    <2>1. Lists((s1 \o s2 \o s3) \o s7, A1 \cup A2 \cup A3 \cup A7)
      BY <1>2, <1>3, <1>7, ListsBoth
    <2>2. Lists(((s1 \o s2 \o s3) \o s7) \o (s4 \o s5 \o s6),
                A1 \cup A2 \cup A3 \cup A7 \cup (A4 \cup A5 \cup A6))
      BY <1>3, <1>8, <2>1, ListsBoth
    <2> QED
      BY <1>4, <1>5, <1>9, <2>2
  <1>10. CASE ~c.service
    <2>1. Lists((s1 \o s2 \o s3) \o (s4 \o s5 \o s6), A1 \cup A2 \cup A3 \cup (A4 \cup A5 \cup A6))
      BY <1>3, <1>7, <1>8, ListsBoth
    <2>2. Lists(((s1 \o s2 \o s3) \o (s4 \o s5 \o s6)) \o s7,
                A1 \cup A2 \cup A3 \cup (A4 \cup A5 \cup A6) \cup A7)
      BY <1>2, <1>3, <2>1, ListsBoth
    <2> QED
      BY <1>4, <1>5, <1>10, <2>2
  <1> QED
    BY <1>9, <1>10


-----------------------------------------------------------------------------
\* The provider carries the redirects and at most one logout method.

LEMMA RedirectsAre ==
    ASSUME NEW U, U \subseteq Uris
    PROVE  /\ {map_redirect_uri(u) : u \in U} \subseteq Entries
           /\ {e.uri : e \in {map_redirect_uri(u) : u \in U}} = U
  <1>1. \A u \in U : map_redirect_uri(u) \in Entries /\ map_redirect_uri(u).uri = u
    BY DEF map_redirect_uri, Entries
  <1> QED
    BY <1>1

LEMMA PostLogoutIs ==
    ASSUME NEW c \in ClientReps
    PROVE  /\ PostLogoutUris(c) \subseteq Uris
           /\ PostLogoutUris(c) = IF c.postLogout = "+" THEN c.uris
                                  ELSE IF c.postLogout = "list" THEN c.listed ELSE {}
  <1>1. c.postLogout \in {"absent", "-", "+", "list"} /\ c.uris \subseteq Uris
        /\ c.listed \subseteq Uris
    BY DEF ClientReps
  <1> QED
    BY <1>1 DEF PostLogoutUris

LEMMA ChannelsAre ==
    ASSUME NEW c \in ClientReps
    PROVE  /\ Selected(c) \in Channels /\ Unselected(c) \in Channels
           /\ Channels = {Selected(c), Unselected(c)} /\ Selected(c) # Unselected(c)
           /\ Unselected(c) = IF c.front THEN "backchannel" ELSE "frontchannel"
  <1>1. c.front \in BOOLEAN
    BY DEF ClientReps
  <1>2. Unselected(c) \in Channels /\ Unselected(c) # Selected(c)
    <2>1. \E ch \in Channels : ch # Selected(c)
      BY DEF Channels, Selected
    <2> QED
      BY <2>1 DEF Unselected
  <1> QED
    BY <1>1, <1>2 DEF Channels, Selected

-----------------------------------------------------------------------------
\* What unmapped says.

UntranslatableOf(c) == {m \in c.mappers : ~translatable(m)}
DroppedOf(c) == UNION {DroppedClaims(s) : s \in Declared(c)}
FieldsOf(c) ==
    When(c.webOrigins, "webOrigins")
    \cup UnmappedGrants(c)
    \cup {ch \in c.logoutUrls : ch = Unselected(c) /\ map_logout(c).method # {}}
    \cup When(c.lifespans, "token_lifespans")
    \cup When(c.default \ StandardScopes # {}, "defaultClientScopes")

LEMMA UnmappedIs ==
    ASSUME NEW c
    PROVE  unmapped(c) = {Entry("client_field", f) : f \in FieldsOf(c)}
                         \cup {Entry("protocol_mapper", m.name) : m \in UntranslatableOf(c)}
                         \cup {Entry("standard_scope_claim", x) : x \in DroppedOf(c)}
                         \cup When(c.roles, Entry("client_role", "role"))
  BY DEF unmapped, unmapped_client_fields, standard_unmapped, FieldsOf, UntranslatableOf,
         DroppedOf

LEMMA EntriesAre ==
    ASSUME NEW t, NEW n PROVE Entry(t, n).type = t /\ Entry(t, n).name = n
  BY DEF Entry

LEMMA DroppedAre ==
    ASSUME NEW c PROVE DroppedOf(c) \subseteq {"given_name", "family_name", "email_verified"}
  BY DEF DroppedOf, DroppedClaims

LEMMA FieldsAre ==
    ASSUME NEW c \in ClientReps
    PROVE  FieldsOf(c) \subseteq Channels \cup {"webOrigins", "ciba", "token_lifespans",
                                               "defaultClientScopes"}
  <1>1. c.logoutUrls \subseteq Channels
    BY DEF ClientReps
  <1> QED
    BY <1>1 DEF FieldsOf, When, UnmappedGrants

\* The payload is one that Authentik takes.
THEOREM PayloadsAreTaken == Spec => []TypeOK
  <1>1. ASSUME Inv, Migrated PROVE TypeOK
    <2> DEFINE p == map_provider(kc)
    <2>1. /\ Out.provider = p /\ Out.mappings = Attached(kc)
          /\ Out.unmapped = unmapped(kc)
      BY <1>1, OutIs
    <2>2. kc \in ClientReps
      BY <1>1 DEF Inv
    <2>3. /\ p.grants = map_grant_types(kc)
          /\ p.logins = {map_redirect_uri(u) : u \in kc.uris}
          /\ p.logouts = {map_redirect_uri(u) : u \in PostLogoutUris(kc)}
          /\ p.logout = map_logout(kc) /\ p.secret = ~kc.public
      BY DEF map_provider
    <2> HIDE DEF p
    <2>4. IsInjective(p.grants) /\ ToSet(p.grants) \subseteq Grants
      <3>1. Lists(p.grants, GrantsOf(kc))
        BY <2>2, <2>3, GrantsAre
      <3> QED
        BY <3>1 DEF Lists, ToSet
    <2>5. p.logins \subseteq Entries /\ p.logouts \subseteq Entries
      <3>1. kc.uris \subseteq Uris
        BY <2>2 DEF ClientReps
      <3> QED
        BY <2>2, <2>3, <3>1, RedirectsAre, PostLogoutIs
    <2>6. p.logout.method = p.logout.urls /\ Cardinality(p.logout.urls) <= 1
      <3>1. p.logout.method = p.logout.urls /\ p.logout.urls \subseteq {Selected(kc)}
        BY <2>3 DEF map_logout
      <3>2. IsFiniteSet({Selected(kc)}) /\ Cardinality({Selected(kc)}) = 1
        BY FS_Singleton
      <3>3. Cardinality(p.logout.urls) <= Cardinality({Selected(kc)})
        BY <3>1, <3>2, FS_Subset
      <3> QED
        BY <3>1, <3>2, <3>3
    <2>7. p.secret \in BOOLEAN
      BY <2>3
    <2>8. Out.mappings \subseteq Mappers
      BY <2>1, <2>2 DEF ClientReps, Attached
    <2>9. Out.unmapped \subseteq Unmapped
      <3>1. \A f \in FieldsOf(kc) : Entry("client_field", f) \in Unmapped
        BY <2>2, FieldsAre DEF Entry, Unmapped
      <3>2. \A m \in UntranslatableOf(kc) : Entry("protocol_mapper", m.name) \in Unmapped
        <4>1. \A m \in UntranslatableOf(kc) : m.name \in MapperNames
          BY <2>2 DEF ClientReps, UntranslatableOf, Mappers
        <4> QED
          BY <4>1 DEF Entry, Unmapped
      <3>3. \A x \in DroppedOf(kc) : Entry("standard_scope_claim", x) \in Unmapped
        BY DroppedAre DEF Entry, Unmapped
      <3>4. Entry("client_role", "role") \in Unmapped
        BY DEF Entry, Unmapped
      <3> QED
        BY <2>1, <3>1, <3>2, <3>3, <3>4, UnmappedIs DEF When
    <2> QED
      BY <2>1, <2>2, <2>4, <2>5, <2>6, <2>7, <2>8, <2>9 DEF TypeOK
  <1>2. Inv => TypeOK
    BY <1>1 DEF Inv, TypeOK
  <1> QED
    BY <1>2, InvHolds, PTL


-----------------------------------------------------------------------------
\* Nothing is lost without a word.

\* A pair is in a tagged set if the tag is that of the set.
LEMMA TaggedIs ==
    ASSUME NEW t, NEW X, NEW z PROVE z \in Tagged(t, X) <=> \E x \in X : z = <<t, x>>
  BY DEF Tagged

LEMMA FieldMeans ==
    /\ \A ch \in Channels : Means(Entry("client_field", ch)) = {<<"channel", ch>>}
    /\ Means(Entry("client_field", "ciba")) = {<<"grant", "ciba">>}
    /\ Means(Entry("client_field", "defaultClientScopes"))
          = Tagged("scope", kc.default \ StandardScopes)
    /\ Means(Entry("client_field", "webOrigins")) = {<<"other", "webOrigins">>}
    /\ Means(Entry("client_field", "token_lifespans")) = {<<"other", "token_lifespans">>}
  BY EntriesAre DEF Means, Channels

LEMMA OtherMeans ==
    /\ \A m : Means(Entry("protocol_mapper", m)) = {<<"mapper", m>>}
    /\ \A x : Means(Entry("standard_scope_claim", x)) = {<<"claim", x>>}
    /\ Means(Entry("client_role", "role")) = {<<"other", "role">>}
  BY EntriesAre DEF Means

LostChannels(c) ==
    {ch \in c.logoutUrls : ch = Unselected(c) /\ map_logout(c).method # {}}
LostOthers(c) ==
    When(c.webOrigins, "webOrigins") \cup When(c.lifespans, "token_lifespans")
    \cup When(c.roles, "role")

LEMMA ReportedIs ==
    ASSUME Inv, Migrated
    PROVE  Reported = Tagged("mapper", NamesOf(UntranslatableOf(kc))) \cup Tagged("claim", DroppedOf(kc))
                      \cup Tagged("other", LostOthers(kc))
                      \cup Tagged("channel", LostChannels(kc))
                      \cup Tagged("grant", UnmappedGrants(kc))
                      \cup Tagged("scope", kc.default \ StandardScopes)
  <1> DEFINE fields == {Entry("client_field", f) : f \in FieldsOf(kc)}
             mappers == {Entry("protocol_mapper", m.name) : m \in UntranslatableOf(kc)}
             dropped == {Entry("standard_scope_claim", x) : x \in DroppedOf(kc)}
             roles == When(kc.roles, Entry("client_role", "role"))
  <1>1. Out.unmapped = fields \cup mappers \cup dropped \cup roles
    BY OutIs, UnmappedIs
  <1>2. kc \in ClientReps
    BY DEF Inv
  <1>3. UNION {Means(e) : e \in mappers} = Tagged("mapper", NamesOf(UntranslatableOf(kc)))
    BY OtherMeans DEF Tagged, NamesOf
  <1>4. UNION {Means(e) : e \in dropped} = Tagged("claim", DroppedOf(kc))
    BY OtherMeans DEF Tagged
  <1>5. UNION {Means(e) : e \in roles} = Tagged("other", When(kc.roles, "role"))
    BY OtherMeans DEF Tagged, When
  <1>6. UNION {Means(e) : e \in fields}
           = Tagged("other", When(kc.webOrigins, "webOrigins")
                             \cup When(kc.lifespans, "token_lifespans"))
             \cup Tagged("channel", LostChannels(kc)) \cup Tagged("grant", UnmappedGrants(kc))
             \cup Tagged("scope", kc.default \ StandardScopes)
    <2>2. LostChannels(kc) \subseteq Channels
      BY <1>2 DEF LostChannels, ClientReps
    <2>3. FieldsOf(kc) = When(kc.webOrigins, "webOrigins") \cup UnmappedGrants(kc)
                         \cup LostChannels(kc) \cup When(kc.lifespans, "token_lifespans")
                         \cup When(kc.default \ StandardScopes # {}, "defaultClientScopes")
      BY DEF FieldsOf, LostChannels
    <2>4. \A z : z \in Tagged("channel", LostChannels(kc)) <=>
                    \E f \in LostChannels(kc) : z \in Means(Entry("client_field", f))
      BY <2>2, FieldMeans, TaggedIs
    <2>5. \A z : z \in Tagged("grant", UnmappedGrants(kc)) <=>
                    \E f \in UnmappedGrants(kc) : z \in Means(Entry("client_field", f))
      BY FieldMeans, TaggedIs DEF UnmappedGrants
    <2>6. \A z : z \in Tagged("scope", kc.default \ StandardScopes) <=>
                    \E f \in When(kc.default \ StandardScopes # {}, "defaultClientScopes") :
                        z \in Means(Entry("client_field", f))
      BY FieldMeans DEF When, Tagged
    <2>7. \A z : z \in Tagged("other", When(kc.webOrigins, "webOrigins")
                                       \cup When(kc.lifespans, "token_lifespans")) <=>
                    \E f \in When(kc.webOrigins, "webOrigins")
                             \cup When(kc.lifespans, "token_lifespans") :
                        z \in Means(Entry("client_field", f))
      BY FieldMeans, TaggedIs DEF When
    <2>8. ASSUME NEW z
          PROVE  z \in UNION {Means(e) : e \in fields} <=>
                    \E f \in FieldsOf(kc) : z \in Means(Entry("client_field", f))
      OBVIOUS
    <2> HIDE DEF fields
    <2> QED
      BY <2>3, <2>4, <2>5, <2>6, <2>7, <2>8
  <1>7. LostOthers(kc) = When(kc.webOrigins, "webOrigins")
                         \cup When(kc.lifespans, "token_lifespans") \cup When(kc.roles, "role")
    BY DEF LostOthers
  <1>9. \A t, A, B : Tagged(t, A \cup B) = Tagged(t, A) \cup Tagged(t, B)
    BY DEF Tagged
  <1> HIDE DEF fields, mappers, dropped, roles
  <1>8. Reported = (UNION {Means(e) : e \in fields}) \cup (UNION {Means(e) : e \in mappers})
                   \cup (UNION {Means(e) : e \in dropped}) \cup (UNION {Means(e) : e \in roles})
    BY <1>1 DEF Reported
  <1> QED
    BY <1>3, <1>4, <1>5, <1>6, <1>7, <1>8, <1>9

LEMMA CarriedIs ==
    ASSUME Inv, Migrated
    PROVE  Carried = Tagged("grant", GrantsOf(kc)) \cup Tagged("login", kc.uris)
                     \cup Tagged("logout", PostLogoutUris(kc))
                     \cup Tagged("channel", kc.logoutUrls \cap {Selected(kc)})
                     \cup Tagged("secret", When(~kc.public, "secret"))
                     \cup Tagged("claim", standard_scope_mappings(kc))
                     \cup Tagged("mapper", NamesOf(Attached(kc)))
  <1> DEFINE p == map_provider(kc)
  <1>1. /\ Out.provider = p /\ Out.mappings = Attached(kc)
        /\ Out.claims = standard_scope_mappings(kc)
    BY OutIs
  <1>2. kc \in ClientReps /\ kc.uris \subseteq Uris
    BY DEF Inv, ClientReps
  <1>3. /\ p.grants = map_grant_types(kc)
        /\ p.logins = {map_redirect_uri(u) : u \in kc.uris}
        /\ p.logouts = {map_redirect_uri(u) : u \in PostLogoutUris(kc)}
        /\ p.logout = map_logout(kc) /\ p.secret = ~kc.public
    BY DEF map_provider
  <1> HIDE DEF p
  <1>4. ToSet(p.grants) = GrantsOf(kc)
    BY <1>2, <1>3, GrantsAre DEF Lists
  <1>5. {e.uri : e \in p.logins} = kc.uris
    BY <1>2, <1>3, RedirectsAre
  <1>6. {e.uri : e \in p.logouts} = PostLogoutUris(kc)
    BY <1>2, <1>3, RedirectsAre, PostLogoutIs
  <1>7. p.logout.method = kc.logoutUrls \cap {Selected(kc)}
    BY <1>3 DEF map_logout
  <1> QED
    BY <1>1, <1>3, <1>4, <1>5, <1>6, <1>7 DEF Carried


\* The features of a client, each under its tag, in the words of the code.
FeaturesOf(c) ==
    Tagged("grant", GrantsOf(c) \cup UnmappedGrants(c)
                    \cup When(SilentRefresh(c), "refresh_token"))
    \cup Tagged("login", c.uris) \cup Tagged("logout", PostLogoutUris(c))
    \cup Tagged("channel", c.logoutUrls) \cup Tagged("secret", When(~c.public, "secret"))
    \cup Tagged("claim", standard_scope_mappings(c) \cup DroppedOf(c))
    \cup Tagged("scope", (c.default \cup c.optional) \ StandardScopes)
    \cup Tagged("mapper", NamesOf(c.mappers)) \cup Tagged("other", LostOthers(c))

LEMMA FeaturesAre ==
    ASSUME NEW c \in ClientReps PROVE Features(c) = FeaturesOf(c)
  <1> DEFINE refresh == \/ c.useRefresh # "false" /\ (c.standard \/ c.direct \/ c.device = "true")
                        \/ c.ccRefresh = "true" /\ c.service
  <1>1. refresh <=> Refresh(c) \/ SilentRefresh(c)
    BY DEF Refresh, SilentRefresh
  <1> HIDE DEF refresh
  <1>5. When(refresh, "refresh_token")
           = When(Refresh(c), "refresh_token") \cup When(SilentRefresh(c), "refresh_token")
    BY <1>1 DEF When
  <1>2. When(c.standard, "authorization_code") \cup When(c.implicit, "implicit")
        \cup When(c.standard /\ c.implicit, "hybrid")
        \cup When(c.service, "client_credentials") \cup When(c.direct, "password")
        \cup When(c.device = "true", "device_code") \cup When(c.ciba = "true", "ciba")
        \cup When(refresh, "refresh_token")
        = GrantsOf(c) \cup UnmappedGrants(c) \cup When(SilentRefresh(c), "refresh_token")
    <2>1. UnmappedGrants(c) = When(c.ciba = "true", "ciba")
      BY DEF UnmappedGrants, When
    <2> QED
      BY <1>5, <2>1 DEF GrantsOf
  <1>3. UNION {Claims(s) \cup DroppedClaims(s) : s \in c.default \cup c.optional}
        = standard_scope_mappings(c) \cup DroppedOf(c)
    <2>1. Claims("openid") = {} /\ DroppedClaims("openid") = {}
      BY DEF Claims, DroppedClaims
    <2>2. \A s : s \notin StandardScopes => Claims(s) = {} /\ DroppedClaims(s) = {}
      BY DEF Claims, DroppedClaims, StandardScopes
    <2>3. ASSUME NEW x
          PROVE  x \in UNION {Claims(s) \cup DroppedClaims(s) : s \in c.default \cup c.optional}
                 <=> \E s \in Declared(c) : x \in Claims(s) \/ x \in DroppedClaims(s)
      BY <2>1, <2>2 DEF Declared
    <2> QED
      BY <2>3 DEF standard_scope_mappings, DroppedOf
  <1>4. PostLogoutUris(c) = IF c.postLogout = "+" THEN c.uris
                            ELSE IF c.postLogout = "list" THEN c.listed ELSE {}
    BY PostLogoutIs
  <1> QED
    BY <1>2, <1>3, <1>4 DEF Features, FeaturesOf, LostOthers, refresh

LEMMA ChannelsAreTold ==
    ASSUME NEW c \in ClientReps
    PROVE  c.logoutUrls \ ((c.logoutUrls \cap {Selected(c)}) \cup LostChannels(c))
              = SilentChannels(c)
  <1>1. c.logoutUrls \subseteq {Selected(c), Unselected(c)} /\ Selected(c) # Unselected(c)
    BY ChannelsAre DEF ClientReps
  <1>2. SilentChannels(c) = IF c.logoutUrls = {Unselected(c)} THEN {Unselected(c)} ELSE {}
    BY ChannelsAre DEF SilentChannels
  <1>3. CASE Selected(c) \in c.logoutUrls
    <2>1. LostChannels(c) = c.logoutUrls \cap {Unselected(c)}
      BY <1>3 DEF LostChannels, map_logout
    <2> QED
      BY <1>1, <1>2, <1>3, <2>1
  <1>4. CASE Selected(c) \notin c.logoutUrls
    <2>1. LostChannels(c) = {}
      BY <1>4 DEF LostChannels, map_logout
    <2>2. c.logoutUrls = {} \/ c.logoutUrls = {Unselected(c)}
      BY <1>1, <1>4
    <2> QED
      BY <1>1, <1>2, <1>4, <2>1, <2>2
  <1> QED
    BY <1>3, <1>4

\* Every mapper of a client is attached, refused as no mapper that can be
\* translated, or silent, and one of the three only.
LEMMA MappersAreTold ==
    ASSUME NEW c \in ClientReps, UniqueNames(c)
    PROVE  /\ NamesOf(c.mappers) \ (NamesOf(Attached(c)) \cup NamesOf(UntranslatableOf(c)))
                 = NamesOf(SilentMappers(c))
           /\ NamesOf(Attached(c)) \cap NamesOf(UntranslatableOf(c)) = {}
           /\ NamesOf(Attached(c)) \subseteq NamesOf(c.mappers)
           /\ NamesOf(UntranslatableOf(c)) \subseteq NamesOf(c.mappers)
  <1>1. Declared(c) = StandardScopes \cap ({"openid"} \cup c.default \cup c.optional)
    BY DEF Declared, StandardScopes
  <1>2. \A m \in c.mappers : m \in SilentMappers(c) <=>
            m \notin Attached(c) /\ m \notin UntranslatableOf(c)
    BY <1>1 DEF SilentMappers, Attached, UntranslatableOf
  <1>3. /\ SilentMappers(c) \subseteq c.mappers /\ Attached(c) \subseteq c.mappers
        /\ UntranslatableOf(c) \subseteq c.mappers /\ Attached(c) \cap UntranslatableOf(c) = {}
    BY DEF SilentMappers, Attached, UntranslatableOf
  <1>4. \A m, n \in c.mappers : m.name = n.name => m = n
    BY DEF UniqueNames
  <1> QED
    BY <1>2, <1>3, <1>4 DEF NamesOf

LEMMA InTagged ==
    ASSUME NEW t, NEW u, NEW X, NEW x PROVE <<t, x>> \in Tagged(u, X) <=> t = u /\ x \in X
  BY DEF Tagged

Tags ==
    {"grant", "login", "logout", "channel", "secret", "claim", "scope", "mapper", "other"}

\* A is exactly what is in B and neither in C nor in D, and the latter are
\* apart.
Splits(A, B, C, D) == B \ (C \cup D) = A /\ C \cap D = {}

LEMMA LostExactly ==
    ASSUME Inv, Migrated PROVE Splits(Silent(kc), Features(kc), Carried, Reported)
  <1>1. kc \in ClientReps /\ UniqueNames(kc)
    BY DEF Inv
  <1>0. Features(kc) = FeaturesOf(kc)
    BY <1>1, FeaturesAre
  <1> DEFINE S(t, x) == <<t, x>> \in Silent(kc)
             F(t, x) == <<t, x>> \in Features(kc)
             C(t, x) == <<t, x>> \in Carried
             R(t, x) == <<t, x>> \in Reported
             Told(t, x) == /\ F(t, x) /\ ~C(t, x) /\ ~R(t, x) <=> S(t, x)
                           /\ ~(C(t, x) /\ R(t, x))
  <1>2. \A x : Told("grant", x)
    <2>1. GrantsOf(kc) \cap UnmappedGrants(kc) = {}
      BY DEF GrantsOf, UnmappedGrants, When
    <2>2. When(SilentRefresh(kc), "refresh_token") \cap (GrantsOf(kc) \cup UnmappedGrants(kc)) = {}
      BY DEF GrantsOf, UnmappedGrants, When, SilentRefresh, Refresh
    <2>3. TAKE x
    <2>4. C("grant", x) <=> x \in GrantsOf(kc)
      BY CarriedIs, InTagged
    <2>5. R("grant", x) <=> x \in UnmappedGrants(kc)
      BY ReportedIs, InTagged
    <2>6. S("grant", x) <=> x \in When(SilentRefresh(kc), "refresh_token")
      BY InTagged DEF Silent
    <2>7. F("grant", x) <=> x \in GrantsOf(kc) \cup UnmappedGrants(kc)
                                  \cup When(SilentRefresh(kc), "refresh_token")
      BY <1>0, InTagged DEF FeaturesOf
    <2> QED
      BY <2>1, <2>2, <2>4, <2>5, <2>6, <2>7
  <1>3. \A x : Told("channel", x)
    <2>1. TAKE x
    <2>2. C("channel", x) <=> x \in kc.logoutUrls \cap {Selected(kc)}
      BY CarriedIs, InTagged
    <2>3. R("channel", x) <=> x \in LostChannels(kc)
      BY ReportedIs, InTagged
    <2>4. S("channel", x) <=> x \in SilentChannels(kc)
      BY InTagged DEF Silent
    <2>5. F("channel", x) <=> x \in kc.logoutUrls
      BY <1>0, InTagged DEF FeaturesOf
    <2>6. (kc.logoutUrls \cap {Selected(kc)}) \cap LostChannels(kc) = {}
      BY <1>1, ChannelsAre DEF LostChannels
    <2> QED
      BY <1>1, <2>2, <2>3, <2>4, <2>5, <2>6, ChannelsAreTold
  <1>4. \A x : Told("mapper", x)
    <2>1. TAKE x
    <2>2. C("mapper", x) <=> x \in NamesOf(Attached(kc))
      BY CarriedIs, InTagged
    <2>3. R("mapper", x) <=> x \in NamesOf(UntranslatableOf(kc))
      BY ReportedIs, InTagged
    <2>4. S("mapper", x) <=> x \in NamesOf(SilentMappers(kc))
      BY InTagged DEF Silent
    <2>5. F("mapper", x) <=> x \in NamesOf(kc.mappers)
      BY <1>0, InTagged DEF FeaturesOf
    <2> QED
      BY <1>1, <2>2, <2>3, <2>4, <2>5, MappersAreTold
  <1>5. \A x : Told("claim", x)
    <2>1. TAKE x
    <2>2. C("claim", x) <=> x \in standard_scope_mappings(kc)
      BY CarriedIs, InTagged
    <2>3. R("claim", x) <=> x \in DroppedOf(kc)
      BY ReportedIs, InTagged
    <2>4. ~S("claim", x)
      BY InTagged DEF Silent
    <2>5. F("claim", x) <=> x \in standard_scope_mappings(kc) \cup DroppedOf(kc)
      BY <1>0, InTagged DEF FeaturesOf
    <2>6. standard_scope_mappings(kc) \cap DroppedOf(kc) = {}
      BY DEF standard_scope_mappings, DroppedOf, Claims, DroppedClaims
    <2> QED
      BY <2>2, <2>3, <2>4, <2>5, <2>6
  <1>6. \A x : Told("scope", x)
    <2>1. TAKE x
    <2>2. ~C("scope", x)
      BY CarriedIs, InTagged
    <2>3. R("scope", x) <=> x \in kc.default \ StandardScopes
      BY ReportedIs, InTagged
    <2>4. S("scope", x) <=> x \in (kc.optional \ kc.default) \ StandardScopes
      BY InTagged DEF Silent
    <2>5. F("scope", x) <=> x \in (kc.default \cup kc.optional) \ StandardScopes
      BY <1>0, InTagged DEF FeaturesOf
    <2> QED
      BY <2>2, <2>3, <2>4, <2>5
  <1>7. \A x : Told("login", x) /\ Told("logout", x) /\ Told("secret", x)
    <2>1. TAKE x
    <2>2. \A t \in {"login", "logout", "secret"} : C(t, x) <=> F(t, x)
      BY <1>0, CarriedIs, InTagged DEF FeaturesOf
    <2>3. \A t \in {"login", "logout", "secret"} : ~R(t, x) /\ ~S(t, x)
      BY ReportedIs, InTagged DEF Silent
    <2> QED
      BY <2>2, <2>3
  <1>8. \A x : Told("other", x)
    <2>1. TAKE x
    <2>2. ~C("other", x) /\ ~S("other", x)
      BY CarriedIs, InTagged DEF Silent
    <2>3. R("other", x) <=> F("other", x)
      BY <1>0, ReportedIs, InTagged DEF FeaturesOf
    <2> QED
      BY <2>2, <2>3
  <1>9. \A t \in Tags : \A x : Told(t, x)
    BY <1>2, <1>3, <1>4, <1>5, <1>6, <1>7, <1>8 DEF Tags
  <1>10. ASSUME NEW z \in Silent(kc) \cup Features(kc) \cup Carried
         PROVE  \E t \in Tags : \E x : z = <<t, x>>
    <2>1. CASE z \in Silent(kc)
      BY <2>1, TaggedIs DEF Silent, Tags
    <2>2. CASE z \in Features(kc)
      BY <1>0, <2>2, TaggedIs DEF FeaturesOf, Tags
    <2>3. CASE z \in Carried
      BY <2>3, CarriedIs, TaggedIs DEF Tags
    <2> QED
      BY <2>1, <2>2, <2>3
  <1>11. Features(kc) \ (Carried \cup Reported) = Silent(kc)
    <2>1. ASSUME NEW z \in Features(kc) \ (Carried \cup Reported) PROVE z \in Silent(kc)
      BY <1>9, <1>10, <2>1
    <2>2. ASSUME NEW z \in Silent(kc) PROVE z \in Features(kc) \ (Carried \cup Reported)
      BY <1>9, <1>10, <2>2
    <2> QED
      BY <2>1, <2>2
  <1>12. Carried \cap Reported = {}
    <2> SUFFICES ASSUME NEW z \in Carried, z \in Reported PROVE FALSE
      OBVIOUS
    <2> QED
      BY <1>9, <1>10
  <1> QED
    BY <1>11, <1>12 DEF Splits

\* Every feature of every client is carried over or has an entry, never both,
\* and what is neither is what Silent names, no more and no less
\* (mappers/clients.py, the fields that are recorded "only where something
\* real would be lost").
THEOREM NothingElseIsLostSilently == Spec => []CarriedOrReported
  <1>1. Inv => CarriedOrReported
    BY LostExactly DEF CarriedOrReported, Splits, Inv
  <1> QED
    BY <1>1, InvHolds, PTL

\* What is granted, redirected to or told to a client is something it had, and
\* so is what the row says it lost.
THEOREM NothingIsInvented == Spec => []NothingInvented
  <1>1. ASSUME Inv, Migrated PROVE Carried \cup Reported \subseteq Features(kc)
    <2>1. kc \in ClientReps
      BY <1>1 DEF Inv
    <2>3. /\ LostChannels(kc) \subseteq kc.logoutUrls
          /\ NamesOf(UntranslatableOf(kc)) \subseteq NamesOf(kc.mappers)
          /\ NamesOf(Attached(kc)) \subseteq NamesOf(kc.mappers)
      BY DEF LostChannels, UntranslatableOf, Attached, NamesOf
    <2>2. Carried \subseteq Features(kc)
      BY <1>1, <2>1, <2>3, CarriedIs, FeaturesAre DEF FeaturesOf, Tagged
    <2>4. Reported \subseteq Features(kc)
      BY <1>1, <2>1, <2>3, ReportedIs, FeaturesAre DEF FeaturesOf, Tagged
    <2> QED
      BY <2>2, <2>4
  <1>2. Inv => NothingInvented
    BY <1>1 DEF NothingInvented
  <1> QED
    BY <1>2, InvHolds, PTL

\* A client whose row leaves the exit code at 0 has in Authentik what it had,
\* but for the claims that no client keeps (report.py, the categories that do
\* not gate the exit code) and the losses that Silent names one by one.
THEOREM GreenClientsAreFaithful == Spec => []GreenIsFaithful
  <1>1. ASSUME Inv, Migrated, \A e \in Out.unmapped : e.type \in NonGating
        PROVE  Features(kc) \ Carried \subseteq
                   Silent(kc) \cup Tagged("claim", {"given_name", "family_name", "email_verified"})
    <2>1. Out.unmapped = unmapped(kc)
      BY <1>1, OutIs
    <2>2. /\ \A f \in FieldsOf(kc) : Entry("client_field", f) \in Out.unmapped
          /\ \A m \in UntranslatableOf(kc) : Entry("protocol_mapper", m.name) \in Out.unmapped
          /\ kc.roles => Entry("client_role", "role") \in Out.unmapped
      BY <2>1, UnmappedIs DEF When
    <2>3. FieldsOf(kc) = {} /\ UntranslatableOf(kc) = {} /\ ~kc.roles
      BY <1>1, <2>2, EntriesAre DEF NonGating
    <2>4. /\ LostChannels(kc) = {} /\ UnmappedGrants(kc) = {} /\ LostOthers(kc) = {}
          /\ kc.default \ StandardScopes = {}
      <3>1. LostChannels(kc) \subseteq FieldsOf(kc) /\ UnmappedGrants(kc) \subseteq FieldsOf(kc)
        BY DEF LostChannels, FieldsOf
      <3>2. ~kc.webOrigins /\ ~kc.lifespans /\ kc.default \ StandardScopes = {}
        BY <2>3 DEF FieldsOf, When
      <3> QED
        BY <2>3, <3>1, <3>2 DEF LostOthers, When
    <2>5. Reported = Tagged("claim", DroppedOf(kc))
      BY <1>1, <2>3, <2>4, ReportedIs DEF Tagged, NamesOf
    <2>6. Tagged("claim", DroppedOf(kc))
             \subseteq Tagged("claim", {"given_name", "family_name", "email_verified"})
      BY DroppedAre DEF Tagged
    <2> QED
      BY <1>1, <2>5, <2>6, LostExactly DEF Splits
  <1>2. Inv => GreenIsFaithful
    BY <1>1 DEF GreenIsFaithful
  <1> QED
    BY <1>2, InvHolds, PTL
=============================================================================
