------------------------------ MODULE Payloads ------------------------------
(***************************************************************************)
(* What becomes of everything an OIDC client has in Keycloak: the mappers  *)
(* behind the payloads that Clients writes (mappers/clients.py,            *)
(* mappers/protocol_mappers.py) and the entries of unmapped, which decide  *)
(* on the exit code.  A behaviour takes one client of the realm through    *)
(* migrate_clients and ends.  URIs and names are values; that a wildcard   *)
(* becomes an anchored regular expression is a matter of text and left     *)
(* out, so that an entry has its URI and its matching mode.                *)
(***************************************************************************)
EXTENDS Sequences, FiniteSets, SequencesExt

CONSTANTS
    Uris, Wild,     \* redirect URIs, those with a wildcard
    MapperNames,    \* names of protocol mappers
    Clients         \* of the realm

Switches == {"absent", "true", "false"}    \* an attribute of a client
Texts == {"absent", "empty", "given"}      \* a value in a mapper's config
Channels == {"backchannel", "frontchannel"}
StandardScopes == {"openid", "profile", "email"}
Whitelisted ==
    {"oidc-usermodel-property-mapper", "oidc-usermodel-attribute-mapper",
     "oidc-full-name-mapper", "oidc-group-membership-mapper",
     "oidc-audience-mapper", "oidc-hardcoded-claim-mapper"}

\* value is user.attribute, included.client.audience or claim.value.
Mappers ==
    [name : MapperNames, type : Whitelisted \cup {"other"}, claim : Texts,
     value : Texts \cup {"username", "email", "name"}]

\* The scope mappings of a client are named kc2ak: <client> / <name>; these are
\* the names of those for the standard scopes, and a mapper may have one too.
StandardName ==
    [openid |-> "standard-openid", profile |-> "standard-profile",
     email |-> "standard-email"]

ClientReps ==
    [standard : BOOLEAN, implicit : BOOLEAN, direct : BOOLEAN, service : BOOLEAN,
     device : Switches, ciba : Switches, useRefresh : Switches, ccRefresh : Switches,
     public : BOOLEAN, front : BOOLEAN, logoutUrls : SUBSET Channels,
     uris : SUBSET Uris, postLogout : {"absent", "-", "+", "list"}, listed : SUBSET Uris,
     default : SUBSET (StandardScopes \cup {"phone"}),
     optional : SUBSET {"profile", "email", "phone"},
     mappers : SUBSET Mappers, webOrigins : BOOLEAN, lifespans : BOOLEAN,
     roles : BOOLEAN, builtin : BOOLEAN, saml : BOOLEAN]

\* Keycloak has no two mappers of one name in a client.
ASSUME PayloadsAssumption ==
    /\ Wild \subseteq Uris
    /\ Clients \subseteq ClientReps
    /\ \A c \in Clients : \A m, n \in c.mappers : m.name = n.name => m = n

VARIABLES
    kc,             \* the client
    out             \* <<>>, or what it becomes: <<[provider, mappings, unmapped]>>

vars == <<kc, out>>

Init == kc \in Clients /\ out = <<>>

is_migratable_client(c) == ~c.saml /\ ~c.builtin

-----------------------------------------------------------------------------
\* The provider.

Hybrid(c) == c.standard /\ c.implicit

\* use.refresh.tokens is on, client_credentials.use_refresh_token is off by
\* default.
Refresh(c) ==
    \/ (c.standard \/ c.direct) /\ c.useRefresh # "false"
    \/ c.service /\ c.ccRefresh = "true"

map_grant_types(c) ==
    LET If(cond, g) == IF cond THEN <<g>> ELSE <<>>
        early == If(c.standard, "authorization_code") \o If(c.implicit, "implicit")
                 \o If(Hybrid(c), "hybrid")
        late == If(c.service, "client_credentials") \o If(c.direct, "password")
                \o If(c.device = "true", "device_code")
        refresh == If(Refresh(c), "refresh_token")
    IN  IF c.service THEN early \o refresh \o late ELSE early \o late \o refresh

Selected(c) == IF c.front THEN "frontchannel" ELSE "backchannel"

\* A bug: the method is written when there is nowhere to send the logout.
map_logout_bare(c) == [method |-> {Selected(c)}, urls |-> c.logoutUrls \cap {Selected(c)}]

\* At most one method, and its URL.
map_logout(c) ==
    LET carried == c.logoutUrls \cap {Selected(c)}
    IN  [method |-> carried, urls |-> carried]

map_redirect_uri(u) == [uri |-> u, mode |-> IF u \in Wild THEN "regex" ELSE "strict"]

PostLogoutUris(c) ==
    CASE c.postLogout \in {"absent", "-"} -> {}
      [] c.postLogout = "+" -> c.uris
      [] c.postLogout = "list" -> c.listed

map_provider(c) ==
    [grants |-> map_grant_types(c),
     logins |-> {map_redirect_uri(u) : u \in c.uris},
     logouts |-> {map_redirect_uri(u) : u \in PostLogoutUris(c)},
     logout |-> map_logout(c),
     secret |-> ~c.public]

-----------------------------------------------------------------------------
\* The scope mappings: one for each standard scope, and one for each mapper.

\* A bug: they are attached as Authentik does it for providers made by hand.
DeclaredAlways(c) == StandardScopes

Declared(c) == {"openid"} \cup (StandardScopes \cap (c.default \cup c.optional))

translatable(m) ==
    CASE m.type = "oidc-usermodel-property-mapper" ->
            m.value \in {"username", "email", "name"} /\ m.claim = "given"
      [] m.type = "oidc-usermodel-attribute-mapper" ->
            m.value \notin {"absent", "empty"} /\ m.claim = "given"
      [] m.type = "oidc-full-name-mapper" -> TRUE
      [] m.type = "oidc-group-membership-mapper" -> m.claim = "given"
      [] m.type = "oidc-audience-mapper" -> m.value \notin {"absent", "empty"}
      [] m.type = "oidc-hardcoded-claim-mapper" ->
            m.value # "absent" /\ m.claim = "given"
      [] OTHER -> FALSE

Claims(s) ==
    CASE s = "profile" -> {"name", "preferred_username"}
      [] s = "email" -> {"email"}
      [] OTHER -> {}

DroppedClaims(s) ==
    CASE s = "profile" -> {"given_name", "family_name"}
      [] s = "email" -> {"email_verified"}
      [] OTHER -> {}

standard_scope_mappings(c) == UNION {Claims(s) : s \in Declared(c)}

\* The standard payloads come first, and each is found by name or created: a
\* mapper with the name of one of them gets that mapping for its own.
Attached(c) ==
    {m \in c.mappers : translatable(m) /\ \A s \in Declared(c) : m.name # StandardName[s]}

-----------------------------------------------------------------------------
\* The entries of unmapped.

When(cond, x) == IF cond THEN {x} ELSE {}
Entry(type, name) == [type |-> type, name |-> name]

Unselected(c) == CHOOSE ch \in Channels : ch # Selected(c)

UnmappedGrants(c) == {s \in {"ciba"} : c[s] = "true"}

unmapped_client_fields(c) ==
    LET lost ==
            When(c.webOrigins, "webOrigins")
            \cup UnmappedGrants(c)
            \cup {ch \in c.logoutUrls : ch = Unselected(c) /\ map_logout(c).method # {}}
            \cup When(c.lifespans, "token_lifespans")
            \cup When(c.default \ StandardScopes # {}, "defaultClientScopes")
    IN  {Entry("client_field", f) : f \in lost}

\* A bug: what optional scopes lose is not recorded.
StandardUnmappedOfDefaults(c) ==
    {Entry("standard_scope_claim", x) : x \in UNION {DroppedClaims(s) : s \in c.default}}

standard_unmapped(c) ==
    {Entry("standard_scope_claim", x) : x \in UNION {DroppedClaims(s) : s \in Declared(c)}}

unmapped(c) ==
    unmapped_client_fields(c)
    \cup {Entry("protocol_mapper", m.name) : m \in {x \in c.mappers : ~translatable(x)}}
    \cup standard_unmapped(c)
    \cup When(c.roles, Entry("client_role", "role"))

\* translate_client_protocol_mappers, standard_scope_mappings, the fields and
\* roles that are lost, map_provider, and find-or-create of the mappings, for
\* one client.
Migrate ==
    /\ out = <<>> /\ is_migratable_client(kc)
    /\ out' = <<[provider |-> map_provider(kc),
                 claims |-> standard_scope_mappings(kc),
                 mappings |-> Attached(kc),
                 unmapped |-> unmapped(kc)]>>
    /\ kc' = kc

Next == Migrate

Spec == Init /\ [][Next]_vars

-----------------------------------------------------------------------------
Grants == {"authorization_code", "implicit", "hybrid", "refresh_token",
           "client_credentials", "password", "device_code"}
Entries == [uri : Uris, mode : {"strict", "regex"}]
Unmapped ==
    [type : {"client_field"},
     name : Channels \cup {"webOrigins", "ciba", "token_lifespans",
                           "defaultClientScopes"}]
    \cup [type : {"protocol_mapper"}, name : MapperNames]
    \cup [type : {"standard_scope_claim"},
          name : {"given_name", "family_name", "email_verified"}]
    \cup [type : {"client_role"}, name : {"role"}]

Out == out[1]
Migrated == out # <<>>

\* The payload is one that Authentik takes: no grant comes twice, and a logout
\* method has a URL.
TypeOK ==
    /\ kc \in ClientReps
    /\ Migrated =>
          /\ IsInjective(Out.provider.grants)
          /\ ToSet(Out.provider.grants) \subseteq Grants
          /\ Out.provider.logins \subseteq Entries
          /\ Out.provider.logouts \subseteq Entries
          /\ Out.provider.logout.method = Out.provider.logout.urls
          /\ Cardinality(Out.provider.logout.urls) <= 1
          /\ Out.provider.secret \in BOOLEAN
          /\ Out.mappings \subseteq Mappers
          /\ Out.unmapped \subseteq Unmapped

NamesOf(mappers) == {m.name : m \in mappers}

Tagged(tag, xs) == {<<tag, x>> : x \in xs}

\* What Keycloak does for a client: it issues a refresh token in the flows of
\* users, the device flow is one, unless that is switched off, and for the
\* client itself only where that is switched on.  (One that comes with ciba is
\* lost with ciba.)
Features(c) ==
    Tagged("grant",
        When(c.standard, "authorization_code") \cup When(c.implicit, "implicit")
        \cup When(c.standard /\ c.implicit, "hybrid")
        \cup When(c.service, "client_credentials") \cup When(c.direct, "password")
        \cup When(c.device = "true", "device_code") \cup When(c.ciba = "true", "ciba")
        \cup When(\/ c.useRefresh # "false" /\ (c.standard \/ c.direct \/ c.device = "true")
                  \/ c.ccRefresh = "true" /\ c.service, "refresh_token"))
    \cup Tagged("login", c.uris)
    \cup Tagged("logout", IF c.postLogout = "+" THEN c.uris
                          ELSE IF c.postLogout = "list" THEN c.listed ELSE {})
    \cup Tagged("channel", c.logoutUrls)
    \cup Tagged("secret", When(~c.public, "secret"))
    \cup Tagged("claim", UNION {Claims(s) \cup DroppedClaims(s) : s \in c.default \cup c.optional})
    \cup Tagged("scope", (c.default \cup c.optional) \ StandardScopes)
    \cup Tagged("mapper", NamesOf(c.mappers))
    \cup Tagged("other", When(c.webOrigins, "webOrigins")
                         \cup When(c.lifespans, "token_lifespans") \cup When(c.roles, "role"))

Carried ==
    Tagged("grant", ToSet(Out.provider.grants))
    \cup Tagged("login", {e.uri : e \in Out.provider.logins})
    \cup Tagged("logout", {e.uri : e \in Out.provider.logouts})
    \cup Tagged("channel", Out.provider.logout.method)
    \cup Tagged("secret", When(Out.provider.secret, "secret"))
    \cup Tagged("claim", Out.claims)
    \cup Tagged("mapper", NamesOf(Out.mappings))

Means(e) ==
    CASE e.type = "protocol_mapper" -> {<<"mapper", e.name>>}
      [] e.type = "standard_scope_claim" -> {<<"claim", e.name>>}
      [] e.type = "client_role" -> {<<"other", "role">>}
      [] e.type = "client_field" ->
            CASE e.name \in Channels -> {<<"channel", e.name>>}
              [] e.name = "ciba" -> {<<"grant", "ciba">>}
              [] e.name = "defaultClientScopes" -> Tagged("scope", kc.default \ StandardScopes)
              [] OTHER -> {<<"other", e.name>>}
Reported == UNION {Means(e) : e \in Out.unmapped}

\* The losses without a word, all of them:
\* - the refresh token of a client whose only user flow is the device flow,
\*   although "it is included whenever Keycloak itself would issue one"
\*   (mappers/clients.py:205-206);
\* - a mapper with the name of a standard mapping of its client, although a
\*   migration that drops it "can never exit green" (README.md:118-119);
\* - the logout URL of the unselected channel when the selected one has none,
\*   although, "if Keycloak also has one", it "is reported"
\*   (mappers/clients.py:265-266) and README.md:225-228 says the same;
\* - optional scopes that are not standard, which only default ones are
\*   looked at for (mappers/clients.py:400-402).
SilentRefresh(c) ==
    /\ c.device = "true" /\ c.useRefresh # "false"
    /\ ~c.standard /\ ~c.direct /\ ~(c.service /\ c.ccRefresh = "true")
SilentMappers(c) ==
    {m \in c.mappers : translatable(m) /\
        \E s \in StandardScopes \cap ({"openid"} \cup c.default \cup c.optional) :
            m.name = StandardName[s]}
SilentChannels(c) ==
    LET unused == {IF c.front THEN "backchannel" ELSE "frontchannel"}
    IN  IF c.logoutUrls = unused THEN unused ELSE {}
Silent(c) ==
    Tagged("grant", When(SilentRefresh(c), "refresh_token"))
    \cup Tagged("mapper", NamesOf(SilentMappers(c)))
    \cup Tagged("channel", SilentChannels(c))
    \cup Tagged("scope", (c.optional \ c.default) \ StandardScopes)

\* Everything a client has is carried over, or the row has an entry for it, and
\* never both ("recorded only where something real would be lost", and
\* "reporting them would be false"), but for what Silent names, which is lost
\* without a word exactly then.
CarriedOrReported ==
    Migrated =>
        /\ Features(kc) \ (Carried \cup Reported) = Silent(kc)
        /\ Carried \cap Reported = {}

\* The provider grants, redirects to and tells nothing that the client did
\* not ("it narrows it to what the source client actually declared"), and no
\* entry is there for a thing it never had.
NothingInvented ==
    Migrated => Carried \cup Reported \subseteq Features(kc)

\* A bug: all fields are taken for properties of every migration.
NonGatingFields == {"standard_scope_claim", "role_field", "client_field"}

NonGating == {"standard_scope_claim", "role_field"}

\* A client that leaves the exit code at 0 has in Authentik what it had, but for
\* the claims that no client keeps, which the categories that do not gate the
\* exit code are for, and the losses that Silent names, by which the promise
\* "can never exit green" (README.md:116-119) fails.
GreenIsFaithful ==
    Migrated /\ (\A e \in Out.unmapped : e.type \in NonGating) =>
        Features(kc) \ Carried \subseteq
            Silent(kc) \cup Tagged("claim", {"given_name", "family_name", "email_verified"})

\* What the docstring of map_grant_types says of the refresh token: "Dropping it
\* would leave a migrated app unable to renew a token, so it is included
\* whenever Keycloak itself would issue one" (mappers/clients.py:204-206).
RefreshIsKept ==
    Migrated /\ <<"grant", "refresh_token">> \in Features(kc) =>
        <<"grant", "refresh_token">> \in Carried
=============================================================================
