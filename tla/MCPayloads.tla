----------------------------- MODULE MCPayloads -----------------------------
(***************************************************************************)
(* A client that has nothing, and all that differ from it in one concern:  *)
(* grants, logout, redirects, scopes, mappers, their names, or the rest.   *)
(***************************************************************************)
EXTENDS Payloads

CONSTANTS u1, u2, m1, m2

MCUris == {u1, u2}
MCWild == {u2}
MCMapperNames == {m1, m2, "standard-openid", "standard-email"}

Bare ==
    [standard |-> FALSE, implicit |-> FALSE, direct |-> FALSE, service |-> FALSE,
     device |-> "absent", ciba |-> "absent", useRefresh |-> "absent",
     ccRefresh |-> "absent", public |-> FALSE, front |-> FALSE, logoutUrls |-> {},
     uris |-> {}, postLogout |-> "absent", listed |-> {}, default |-> {},
     optional |-> {}, mappers |-> {}, webOrigins |-> FALSE, lifespans |-> FALSE,
     roles |-> FALSE, builtin |-> FALSE, saml |-> FALSE]

ByGrants ==
    {[Bare EXCEPT !.standard = s, !.implicit = i, !.direct = d, !.service = v,
        !.device = e, !.ciba = b, !.useRefresh = r, !.ccRefresh = q] :
        s, i, d, v \in BOOLEAN, e, b \in {"absent", "true"}, r, q \in Switches}
ByLogout ==
    {[Bare EXCEPT !.front = f, !.logoutUrls = us, !.public = f] :
        f \in BOOLEAN, us \in SUBSET Channels}
ByRedirects ==
    {[Bare EXCEPT !.uris = us, !.postLogout = p, !.listed = ls] :
        us, ls \in SUBSET MCUris, p \in {"absent", "-", "+", "list"}}
ByScopes ==
    {[Bare EXCEPT !.default = ds, !.optional = os] :
        ds \in SUBSET {"openid", "profile", "email", "phone"},
        os \in SUBSET {"profile", "email", "phone"}}
ByMappers ==
    LET other == [name |-> m2, type |-> "other", claim |-> "absent", value |-> "absent"]
    IN  {[Bare EXCEPT !.mappers = ms] : ms \in {{m} : m \in {x \in Mappers : x.name = m1}}
            \cup {{m, other} : m \in [name : {m1}, type : Whitelisted, claim : {"given"},
                                      value : {"empty"}]}}
ByNames ==
    {[Bare EXCEPT !.default = ds, !.optional = os,
        !.mappers = {[name |-> n, type |-> t, claim |-> "given", value |-> "given"] : n \in ns}] :
        ds, os \in SUBSET {"profile", "email"}, ns \in SUBSET MCMapperNames,
        t \in {"oidc-hardcoded-claim-mapper", "other"}}
ByRest ==
    {[Bare EXCEPT !.webOrigins = w, !.lifespans = l, !.roles = r, !.builtin = b, !.saml = s] :
        w, l, r, b, s \in BOOLEAN}

MCClients ==
    ByGrants \cup ByLogout \cup ByRedirects \cup ByScopes \cup ByMappers \cup ByNames
    \cup ByRest
=============================================================================
