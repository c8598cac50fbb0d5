------------------------------- MODULE Pages -------------------------------
(***************************************************************************)
(* Reading one list of Keycloak (keycloak_client.py): authenticate and the *)
(* generator _paginate behind get_users, get_groups, get_group_members,    *)
(* get_clients, get_roles, get_client_roles and get_identity_providers, or *)
(* one of the reads that take a single request (get_user_realm_roles,      *)
(* get_idp_mappers, get_federated_identities).                             *)
(* The list may change between two requests, for the passes write to       *)
(* Authentik between two pages, and the access token, which is acquired    *)
(* once, may expire.  Keycloak is list; an element stands for an object    *)
(* with an id of its own.                                                  *)
(***************************************************************************)
EXTENDS Naturals, Sequences, FiniteSets, SequencesExt, FiniteSetsExt

CONSTANTS
    Elements,       \* what the list can hold
    Lists,          \* the lists that a read may begin with
    PageSize,       \* page_size
    MaxChanges      \* bound: insertions and removals during one read

ASSUME PagesAssumption ==
    /\ Lists \subseteq {s \in Seq(Elements) : IsInjective(s)}
    /\ PageSize \in Nat \ {0}
    /\ MaxChanges \in Nat

VARIABLES
    list,           \* the list in Keycloak, in the order of its replies
    used,           \* ids that were ever given: none is given twice
    token,          \* _access_token: none, valid, expired
    pc,             \* the read: idle, reading, done, raised
    paged,          \* it takes a page after the other
    first,          \* the offset
    got             \* everything yielded by this read

kcVars == <<list, used>>
readVars == <<pc, paged, first, got>>

VARIABLES           \* history of the read
    inserted,       \* how many elements were added during it,
    removed,        \* how many were taken out,
    stayed          \* and which were there from its beginning on

history == <<inserted, removed, stayed>>
vars == <<kcVars, token, readVars, history>>

Init ==
    /\ list \in Lists
    /\ used = ToSet(list)
    /\ token = "none"
    /\ pc = "idle"
    /\ paged = TRUE
    /\ first = 0
    /\ got = <<>>
    /\ inserted = 0
    /\ removed = 0
    /\ stayed = {}

-----------------------------------------------------------------------------
\* Keycloak.

\* What changes before or after is the list that another read begins with.
MayChange == pc = "reading" /\ inserted + removed < MaxChanges

\* Somebody makes an object, which gets any place in the order (lists are
\* sorted by name, say) and an id of its own; which id does not matter.
Add ==
    /\ MayChange
    /\ Elements \ used # {}
    /\ \E i \in 1..Len(list) + 1 :
          LET new == CHOOSE e \in Elements : e \notin used
          IN  list' = InsertAt(list, i, new) /\ used' = used \cup {new}
    /\ inserted' = inserted + 1
    /\ UNCHANGED <<token, readVars, removed, stayed>>

Delete ==
    /\ MayChange
    /\ \E i \in 1..Len(list) :
          /\ list' = RemoveAt(list, i)
          /\ stayed' = stayed \ {list[i]}
    /\ removed' = removed + 1
    /\ UNCHANGED <<used, token, readVars, inserted>>

\* The token's life is a matter of Keycloak's settings.
Expire ==
    /\ token = "valid"
    /\ token' = "expired"
    /\ UNCHANGED <<kcVars, readVars, history>>

\* What a request for max elements from an offset on is answered with.
Page(offset) == SubSeq(list, offset + 1, Min({offset + PageSize, Len(list)}))

-----------------------------------------------------------------------------
\* The client.

\* authenticate: credentials are exchanged for a token; when they are rejected
\* KeycloakAuthError is raised, and nothing changes.
Authenticate ==
    /\ token = "none"
    /\ token' = "valid"
    /\ UNCHANGED <<kcVars, readVars, history>>

\* A get_* function is called, and its generator started.
Begin ==
    /\ pc = "idle"
    /\ pc' = "reading"
    /\ paged' \in BOOLEAN
    /\ first' = 0
    /\ got' = <<>>
    /\ stayed' = ToSet(list)
    /\ UNCHANGED <<kcVars, token, inserted, removed>>

\* A bug: a page that is not longer than asked for is the last.
LastNotLonger(page) == Len(page) <= PageSize

\* A bug: the end is where it was when the read began.
LastByCount(page) == first + PageSize >= Cardinality(stayed) + removed

\* Nothing, or less than a page.
LastPage(page) == page = <<>> \/ Len(page) < PageSize

\* A bug: offsets are counted from one.
NextOffsetByOne == first + PageSize - 1

NextOffset == first + PageSize

\* One page arrives; all of it is yielded before the next is asked for.
Fetch ==
    /\ pc = "reading" /\ paged
    /\ token = "valid"
    /\ got' = got \o Page(first)
    /\ IF LastPage(Page(first))
         THEN pc' = "done" /\ first' = first
         ELSE pc' = pc /\ first' = NextOffset
    /\ UNCHANGED <<kcVars, token, paged, history>>

\* The whole list comes in one response.
FetchWhole ==
    /\ pc = "reading" /\ ~paged
    /\ token = "valid"
    /\ got' = list
    /\ pc' = "done"
    /\ UNCHANGED <<kcVars, token, paged, first, history>>

\* A bug: a request that was not authorised is sent again.
RaiseNot401 ==
    /\ pc = "reading"
    /\ pc' = IF token = "valid" THEN "raised" ELSE pc
    /\ UNCHANGED <<kcVars, token, paged, first, got, history>>

\* _auth_headers without a token, raise_for_status on 401 and every other
\* status of 400 and more, or a request that request_with_retry gave up.  The
\* caller has the pages before.
Raise ==
    /\ pc = "reading"
    /\ pc' = "raised"
    /\ UNCHANGED <<kcVars, token, paged, first, got, history>>

Client == Authenticate \/ Begin \/ Fetch \/ FetchWhole \/ Raise

\* The generator is used up.
Settled == pc \in {"done", "raised"} /\ UNCHANGED vars

Next == Client \/ Add \/ Delete \/ Expire \/ Settled

\* A read goes on by itself: the passes iterate over it to its end.
Spec == Init /\ [][Next]_vars /\ WF_vars(Fetch \/ FetchWhole \/ Raise)

-----------------------------------------------------------------------------
\* Every variable stays in its domain, and an unfinished read stands at the
\* beginning of a page.
TypeOK ==
    /\ list \in Seq(Elements) /\ IsInjective(list) /\ ToSet(list) \subseteq used
    /\ used \subseteq Elements
    /\ token \in {"none", "valid", "expired"}
    /\ pc \in {"idle", "reading", "done", "raised"}
    /\ paged \in BOOLEAN
    /\ first \in Nat /\ first % PageSize = 0
    /\ got \in Seq(Elements)
    /\ inserted \in Nat /\ removed \in Nat
    /\ stayed \subseteq ToSet(list)

\* A list that nobody touches is read whole, in its order and once, also when
\* its last page is exactly full (keycloak_client.py:228-245).
StillListIsReadExactly ==
    pc = "done" /\ inserted + removed = 0 => got = list

\* Each removal makes a read miss at most one of the elements that were there
\* all the time, and an insertion none; each insertion makes it yield at most
\* one twice, and a removal none ("every entity read from Keycloak must appear
\* exactly once", report.py:106-107, rests on this).
DriftBounded ==
    /\ pc = "done" => Cardinality(stayed \ ToSet(got)) <= removed
    /\ Len(got) - Cardinality(ToSet(got)) <= inserted

\* A read that was begun ends: with its last page, or with an exception when
\* the token is not valid any more.
ReadsEnd == pc = "reading" ~> pc \in {"done", "raised"}
=============================================================================
