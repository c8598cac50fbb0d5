----------------------------- MODULE MCSources -----------------------------
(***************************************************************************)
(* Three identity providers: an OAuth one, a SAML one with a certificate   *)
(* and one of an unsupported type; two users are linked to the first.      *)
(***************************************************************************)
EXTENDS SourcesPlan

CONSTANTS oauth1, saml1, odd1, s1, s2, u1, u2

MCAliases == {oauth1, saml1, odd1}
MCKindOf == [a \in MCAliases |-> CASE a = oauth1 -> "oauth"
                                   [] a = saml1 -> "saml"
                                   [] a = odd1 -> "unsupported"]
MCCertified == {saml1}
MCSlugs == {s1, s2}
MCSlugOf == [a \in MCAliases |-> IF a = oauth1 THEN s1 ELSE s2]
MCLinks == {<<u1, oauth1>>, <<u2, oauth1>>, <<u1, odd1>>}
MCHandMade == MCSlugs \X {"oauth", "saml"}
SameKind == {<<s1, "oauth">>, <<s2, "saml">>}

Cmd(scope, apply, update, secrets, auth, enroll) ==
    [scope |-> scope, apply |-> apply, update |-> update,
     secrets |-> secrets, auth |-> auth, enroll |-> enroll]

\* First without secrets and flows, or with the first of the flows, then with
\* more, and with less again.
Thicker ==
    {Cmd({"idps"}, TRUE, up, sec, fl[1], fl[2]) :
        up \in BOOLEAN, sec \in {{}, {oauth1}},
        fl \in {<<FALSE, FALSE>>, <<TRUE, FALSE>>, <<TRUE, TRUE>>}}

\* Links with, without and before the providers.
LinkRuns ==
    {Cmd({"idps", "links"}, TRUE, FALSE, {oauth1}, TRUE, TRUE),
     Cmd({"idps", "links"}, FALSE, FALSE, {}, FALSE, FALSE),
     Cmd({"links"}, TRUE, FALSE, {}, TRUE, TRUE)}

\* Dry runs, each with its applied counterpart above.
DryRuns ==
    {Cmd({"idps"}, FALSE, up, {}, fl, fl) :
        up, fl \in BOOLEAN}

AllRuns == Thicker \cup LinkRuns \cup DryRuns
=============================================================================
