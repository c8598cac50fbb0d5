# kc2ak in TLA+

A model of `kc2ak` (`src/src/kc2ak`), the command-line tool that migrates a
Keycloak realm to Authentik: groups, realm roles, users, memberships, role
assignments, OIDC clients and identity providers. The tool is one sequential
process that is run by hand, again and again, against a live Authentik: first
without and then with `--apply`, in selections (`--only`), interrupted, with
calls that time out and are retried, while administrators work on the same
instance. That, and not what one undisturbed run does, is what is modelled.

Contents: [inventory](#inventory), [modules](#modules-and-the-code),
[what is checked](#what-the-runs-check), [bounds](#bounds),
[fairness](#fairness), [proofs](#proofs), [disagreements between code and
docs](#where-code-and-docs-disagree), [what is not
modelled](#what-is-not-modelled), [plan](#plan).

## Inventory

| component | state | operations | what is hard |
|---|---|---|---|
| HTTP retry (`http.py`) | attempt counter | `request_with_retry` | a timed-out attempt may have been executed, or be executed later |
| Authentik client (`authentik_client.py`) | none; Authentik is the state | one lookup, create or update per object | answers lost after the effect; unique keys refuse the retry |
| Keycloak client (`keycloak_client.py`) | access token, page offsets | `authenticate`, `_paginate` and the reads that need one request | lists change between two pages; the token expires during a run, outside every `try` |
| groups, roles, users (`migrator.py`, `mappers/`) | rows, `ok_groups`, `group_pks`, `group_members`, `role_*`, `user_pks`, `resolved_usernames`, `planned_emails` | `migrate_groups`, `migrate_roles`, `migrate_users` | groups and roles share Authentik's group namespace; emails are not unique; look up, then act |
| memberships, role assignments (`migrator.py`) | the maps above, as snapshots | `migrate_memberships`, `migrate_role_assignments` | pairs are dropped without a row; snapshots are stale when used |
| clients (`migrator.py`, `mappers/clients.py`, `mappers/protocol_mappers.py`) | `mapper_pks`, rows | `migrate_clients`: mappings, provider, application | several writes per client, each of which can fail alone |
| identity providers, links (`migrator.py`, `mappers/idps.py`) | rows, `live_exists`, `counts` | `migrate_idps`, `_saml_signing_kp`, `migrate_federated_links` | runs with thinner inputs update sources that work; slugs collide |
| recovery mail (`cli.py`, `report.py`) | `sent` | `eligible_for_recovery_mail`, the send loop | not idempotent, and sent through the retry loop |
| client payload mappers (`mappers/clients.py`, `mappers/protocol_mappers.py`) | none | `map_provider`, `standard_scope_mappings`, `translate_protocol_mapper`, `unmapped_client_fields` | what one function carries over and what another reports as lost have to add up to what the client had |
| command line and report (`cli.py`, `report.py`) | scope and apply flags, entity lists, the report file | usage errors, phases of `migrate`, `write_report`, `exit_code` | supporting passes must run dry; a run that ends early leaves an older report |
| preconditions (`preconditions.py`) | none | `check_preconditions` before the first write | what was checked may be gone, or new, when it is used |
| configuration, secrets, redaction (`config.py`, `idp_secrets.py`, `redact.py`) | none | reading, string replacement | which kind of error a bad file is |

How they interact: `cli.migrate` calls the `migrate_*` functions in the order
identity providers, groups, roles, users, memberships, role assignments,
federated links, clients, recovery mail, and hands each what the earlier ones
learnt (`ok_groups`, `user_pks`, `resolved_usernames`, `idp_results`, and so
on). Each of them reads Keycloak, looks an object up in Authentik, and either
writes a report row at once or makes a write whose answer decides the row. All
writes go through `request_with_retry`. Memory is lost at the end of a run;
only Authentik carries over to the next one.

What makes each part correct:

- HTTP retry: executions are bounded by attempts, a success was one, the loop
  gives up only at the last attempt and does end.
- Groups and roles: an Authentik group never stands for a Keycloak group and
  for a role at once.
- Every pass: a row that claims an object is right, in spite of stale
  snapshots; a run without FAILED rows left nothing out; a re-run creates
  nothing; what is not selected is not written; repeated runs get everything
  there; the dry run announces what the applied run does.
- Mail: to new accounts only, and counted only when Authentik took it on.
- Clients: a row means provider and application; a provider has all translated
  claims; updates take none away.
- Payloads: what a client has is carried over or reported, not both, and
  nothing is added to it.
- Reads: a list that nobody touches is read exactly; one that changes loses or
  repeats no more than the changes explain.
- Command: whatever is written was checked before; exit code and report file
  mean the same thing in every way a run can end.
- Sources: an enabled source works; a source that works is never switched off;
  those created disabled are told of; certificates do not pile up; links are
  counted only when there is a source to link to.

The hazards behind these, each with its line, are listed in `PROJECT.json`.

## Modules and the code

Three groups of modules model the passes and share no state, as the passes
share none: the directory, the clients, and the sources. What they do share is
how a write call behaves, and that is taken from the retry loop. Around them are
the command as a whole (`Cli`), in which a pass is only what it can do to the
run, and the reads behind the passes (`Pages`). `Payloads` looks into one step
of `Clients`, the making of a payload.

**HttpCall, HttpRetry.** `HttpRetry` is `request_with_retry` for one write
request over a network that loses, delays and reorders. `attempt` is the loop
variable, `pc` the place in the loop body; `Receive` and `TransportError` are
the branches after `client.request`, `Wake` is the end of `time.sleep`. The
server (`Serve`, `ServeStale`) may execute an attempt and lose the answer, or
execute it after the client has given up on it. `HttpCall` is what callers may
rely on, and `HttpRetry` is checked and proved to implement it
(`ImplementsCall`, mapping `applied` and `reply` to themselves).

From `HttpCall` the other modules take their operator `Call(w, answer)`: `ok`
only after a commit; `failed` with or without one; and an abandoned request
stays in `late`, from where `LateCommit` may commit it at any time, during
this run or a later one, or never. One call is up to three requests. `Sources`
keeps all that are left behind, up to `MaxExecutions`, because key pair names
are not unique, so that each of them adds one. `Directory` and `Clients` keep one: names of what is created
there are unique, so that a repeated create is refused, and a repeated update or
addition has the effect of the last one. Left out is that such an update takes
effect twice with another write between the two.

**Authentik, Directory.** `Authentik` is the target: `akGroup` (who made a
group, and with which origin stamp), `akMembers`, `akUser`, with unique names
and usernames, and administrators who add objects (`Foreign`). `Directory` is
the run, and the run after that:

| model | code |
|---|---|
| `Start(o)` | a new process with command line `o` (`scope`, `apply`, `update`, `mail`) |
| `Needed`, `Applies`, `Advance` | which passes run and which may write (`cli.py:254-284`), in their order |
| `GroupNested`, `GroupLookup`, `GroupLookupFails`, `GroupWrite` | the loop body of `migrate_groups`: branches without a write, failed lookup, write with its answer |
| `RoleConflict`, `RoleLookup`, `RoleLookupFails`, `RoleWrite` | `migrate_roles` |
| `UserTaken`, `UserLookup`, `UserLookupFails`, `UserWrite` | `migrate_users`, with `planned_emails` and the duplicate flag |
| `Member`, `Assign` | `migrate_memberships`, `migrate_role_assignments`; a pair without row is `"omitted"` |
| `Mail` | one turn of the send loop; a 204 says that a mail was queued, not that it arrives (`authentik_client.py:217-219`), and so does `queued`, which counts runs and not copies |
| `Interrupt` | a Keycloak read outside the `try` blocks fails, or the process is stopped |

`call` holds the write that follows from a lookup, so that the environment can
act between the two. `before`, `via` and `granted` are history variables that
only properties read. `DirectoryPlan` adds the memory of a dry run to compare
an applied run with; `DirectoryClaims` states sentences of the docs that the
code does not keep; `MCDirectory` has the realms and command lines, and
`MCDirectoryPlan` combines them with plans.

**Clients** is `migrate_clients`: `Match` (the provider exists: finish the
application, skip or update), `New`, `FindMapping` and `CreateMapping` (the
inner loop over scope mappings), `CreateProvider`, `CreateApplication`,
`UpdateProvider`. A payload is the pair of a mapping's name and expression.
`kc` is what Keycloak's protocol mappers say at the moment, which `Edit`
changes, `seen` what this run has read of it, and `ever` the history of all
that was ever there.

**Sources** is `migrate_idps` (`Unsupported`, `Match`, `New`, `WriteSource`),
`_saml_signing_kp` (`FindKeypair`, `ImportKeypair`) and
`migrate_federated_links` (`Link`, `EndLinks`). A payload is a function whose
domain is the set of fields that are sent, because `mappers/idps.py` leaves
fields out of updates; `Patch` is what a PATCH does with it. `SourcesPlan` is
to `Sources` what `DirectoryPlan` is to `Directory`.

**Pages** is one read of a Keycloak list: `Begin` the call of a `get_...`
function, `Fetch` a turn of the loop in `_paginate`, with `first` the offset and
`LastPage` the two ways to stop, `FetchWhole` the reads that are not paginated,
`Raise` the end by `raise_for_status`. `Add` and `Delete` are what others do to
the list between two requests, `Expire` the end of the token, which nothing
renews. Elements are ids and never given twice; a page is counted from the
offset, whatever the list has become.

**Verdict, Cli.** `Verdict` is what a caller of the command may conclude from
its exit code and from the report file: five variables that say in what stage
the run is, its exit code, whether writes are enabled, whether any happened, and
whose report the file is. `Cli` implements it (`ImplementsVerdict`, where the
file's content is reduced to whether a row needs a follow-up). Its actions are,
in the order of `cli.migrate`:

| model | code |
|---|---|
| `Start(c)` | typer, with command line `c` and the environment |
| `RefuseUsage`, `Parse` | usage errors, `_parse_only`, `Config.from_env`, `read_idp_secrets` (exit code 3; 2 for a file that cannot be read) |
| `Check`, `RefuseCheck` | one item of `check_preconditions`, and `HTTPError` on the way (exit code 2) |
| `Work`, `Skip`, `EndPass` | the passes, with the rows they return |
| `LookUp`, `LookUpFails` | `get_flow_pk`: at the beginning of the client pass, before a source is written in the provider pass |
| `Write`, `Mail` | any write of a pass, any mail |
| `Report`, `ReportFails` | `write_report` and `exit_code`; the path cannot be written |
| `Crash` | an exception nobody catches, or a signal |
| `Change` | a flow is removed, or a provider made, between any two steps |

`checked`, `wrote`, `changed` and `missed` are history variables.

**Payloads** takes one Keycloak client through the mappers: `map_provider` with
grant types, redirects and logout, `Declared` and `standard_scope_mappings`,
`translatable` for the whitelist of protocol mappers, and the four sources of
`unmapped`. The properties compare it with `Features`, which says what Keycloak
does for such a client and is written from the docstrings, not from these
functions. What Keycloak may leave out (`attributes`, a mapper's config) has the
values absent and empty, because defaults are half of the logic. Protocol mappers
have names, which the names of their scope mappings are made of, and the standard
scopes of a client have such names too: `Attached` is what is left when each
mapping is found by its name or created. The part of a mapping's name that says
the client is taken to keep clients apart. `Silent` says exactly what is lost
without an entry.

Abstractions common to all: objects are named by their natural key, and pks
are left out; the order of a loop over objects is left open, which includes
the code's; fields that are only copied, wording and counts are left out, and
unmapped entries wherever they are not what is asked about (they are in
`Payloads`, and in `Sources` those about secrets and flows). Definitions under a
comment `A bug:` are not part of any specification: they are variants of a
definition that the properties have to tell from the real one.

## What the runs check

Runs whose result is *holds*:

| run | specification | shows |
|---|---|---|
| `http_retry` | `HttpRetry!Spec` | executions bounded by attempts (`EffectsBounded`), giving up at the last attempt only (`GivesUpLast`), and the implementation of `HttpCall`, answer included |
| `directory_apply` | `Directory!Spec`, full applied runs with mail or updates | a finished run without FAILED rows is complete (`ReportComplete`); mail (`MailsOnlyNewAccounts`, `SentWasQueued`) |
| `directory_pieces` | `MCDirectoryPlan`: `PlanSpec`, dry runs and applied runs, one selection after the other | `NoGroupRoleMerge`, `ReportSound`, `RerunCreatesNothing`, `OnlySelectedIsWritten`; the applied run has the rows of the dry run (`PlanIsHonoured`); shared addresses are flagged (`DuplicateEmailFlagged`) |
| `directory_converges` | `Directory!RerunSpec`, the odd realm | `Converges`, from any mess that faults and interruptions leave |
| `clients` | `Clients!RerunSpec`, all flags, with an edit | `RowMeansPair`, `ClaimsAreAttached`, `MappingsStayAttached`; half-made clients are completed (`Converges`) |
| `sources` | `SourcesPlan!PlanSpec`, every combination of flows, secret and updates, dry runs, and links | `EnabledWorks`, `NeverSabotaged`, `CreatedDisabledIsTold`, `ImportedOnce`, `LinksTreatedAlike`, `CountedLinksHaveSource`; what the dry run says of providers, secrets and flows is what happens (`PlanIsHonoured`) |
| `pages` | `Pages!Spec`, lists of up to six elements | an undisturbed list is read exactly (`StillListIsReadExactly`); each removal costs at most one element and each insertion repeats at most one (`DriftBounded`); reads end (`ReadsEnd`) |
| `cli` | `Cli!Spec`, good and bad command lines in any order | only a change behind its back, or an empty option, kills a run with a look-up (`NoSurprise`); writes were vetted (`WritesAreVetted`); exit code and report keep the contract (`ImplementsVerdict`) |
| `payloads` | `Payloads!Spec`, one concern of a client at a time | what is lost without an entry is what `Silent` lists, no more and no less (`CarriedOrReported`); `NothingInvented`; exit code 0 hides nothing else (`GreenIsFaithful`) |

A note on what these results mean. `ReportSound` is about rows that claim an
object; a FAILED row claims nothing, and its object may exist, when only the
answer to its create was lost. `ReportComplete` excuses what the report shows
as CONFLICT. `SentWasQueued` compares the reported number with the mails that
Authentik has queued; nobody here learns whether they arrive. `ImportedOnce`
allows `MaxExecutions` extra key pairs per fault: names of key pairs are not
unique, and a call that fails may have been executed as often as it was sent,
three times in `http.py`; an interruption of the process in the middle of a
call is a failed call and an interruption, two faults. The plan properties
are about selections in which each pass that is needed is selected itself, and
about sources whose slugs are distinct and not held by a source of another
type; what two aliases of one slug do to each other, whose secret a source
then has included, is not checked. `ClaimsAreAttached` allows an expression that the mapper had before an
edit, since the code finds mappings by name whatever their expression
(`migrator.py:1114`), and completes half-made clients without patching them on
purpose (`migrator.py:991-996`). `CarriedOrReported` says of what `Silent` names
that it is lost without an entry, and `GreenIsFaithful` excepts it: four losses of
the code, against what its documentation says of three of them, listed below. `NoSurprise` excepts the empty option, which is the
code's behaviour and listed below. Exit code 1 does not tell a run with findings
from one that died: `Verdict` says so, and what it promises for 1 is weak on
purpose.

## Where code and docs disagree

Three runs end in a counterexample to one sentence of a doc, a comment or a
docstring, quoted in `PROJECT.json`:

- `directory_merge`: `--only roles`, then `--only groups`: the groups pass
  looks by name only and takes the role's group for its own. Selecting roles
  always with groups or memberships avoids it, as `NeverMerged` proves.
- `clients_one_slug`: `slugify` makes one slug of two client ids; the second
  client is SKIPPED on a re-run and never gets its application.
- `payloads_refresh`: a client whose only flow of users is the device flow gets no
  `refresh_token` (`mappers/clients.py:241`) though Keycloak issues one there, and
  no entry says so; the docstring has it that it "is included whenever Keycloak
  itself would issue one" (`mappers/clients.py:204-206`).

Others that were met while modelling are in the model as the code has them:

- A user whose update was rejected counts as resolved, and gets its memberships
  although its row is FAILED (`migrator.py:496`).
- A protocol mapper called `standard-email` has the mapping name of the standard
  mapping of its client, and is dropped without an entry
  (`mappers/clients.py:347`, `migrator.py:1114`), though a migration that drops
  part of a token's contents "can never exit green" (`README.md:116-119`). It is
  one of the losses in `Silent`.
- A mapping that an unfinished run has left behind is used although its Keycloak
  mapper was edited since (`migrator.py:1114`), and the row is CREATED:
  `ClaimsAreAttached` promises no more than an expression that the mapper had.
- "Every entity read from Keycloak must appear exactly once" (`report.py:106`)
  holds of a list that nobody touches: an object that is inserted before the
  offset makes another one come twice, and one that is removed hides another
  (`Pages`: the bounds of `DriftBounded` are reached).
- `--authentication-flow ""` passes the preconditions (`preconditions.py:87`
  tests truth) and is then looked up (`migrator.py:222` tests `is None`) with a
  slug that filters nothing, so that the first of all flows is used.
- The URL of the logout channel that is not selected is only reported when the
  selected one has a URL (`mappers/clients.py:396`): a client that has only the
  other one loses it without an entry, under exit code 0. The docstring of
  `map_logout` (`mappers/clients.py:265-266`) and `README.md:225-228` say that it
  is reported. In `Silent`.
- `optionalClientScopes` other than the standard ones are lost without an entry,
  while `defaultClientScopes` are reported (`mappers/clients.py:400`). In `Silent`.
- The claims of optional scopes are attached under `openid`, which is always
  requested (`mappers/clients.py:344-352`), so that they are not optional any
  more.
- The refresh token is put in front of `client_credentials` "so the list reads
  in enum order", but at the end, behind `password` and `device_code`, when there
  is none (`mappers/clients.py:237-251`).
- "A dry run always prints the exact number of recipients" (`README.md`) counts
  new users also when users are not selected, and then none of them is made.

## Bounds

Every bound is a CONSTANT: `MaxAttempts` and `MaxExecutions`, `MaxFaults` (failed calls, failed
lookups and interruptions together), `MaxForeign` (acts of administrators).
Runs of the tool are not bounded: state spaces are finite because memory is
reset by `Start`.

- `MaxAttempts` and `MaxExecutions` are 3, the code's own value.
- *Directory, first realm*: two names and two users are the least with a name
  that is both a group and a role, a role that is not, and two users with one
  email. Faults: 2 in `directory_apply`, so that a lost answer can be followed
  by another or by an interruption; 1 where many selections multiply the
  states, `directory_pieces` with its plans included. One foreign act is enough to take a name, a username or an email, or to
  add a member to a group while its snapshot is in use.
- *Directory, dry runs and pieces*: plans are compared with their execution
  when nothing else has acted in between (`calm`); the fault and the foreign act
  are for the other properties of the run, and come before the plan for this one.
- *Directory, second realm*: a nested group, a composite and a built-in role,
  a disabled user and one without address, which the first realm lacks.
- *Clients*: two clients with slugs of their own, one with two mappings, so
  that a failure falls between them, and one client that is not migratable;
  two faults; one provider made by hand, with any of the mappings that are
  there; one edit of a mapper; all four combinations of the flags.
- *Sources*: one provider of each kind, each with a slug of its own; one fault;
  applied runs with and without updates and secret, and with no flow, the
  authentication flow, or both, one after the other (an enrollment flow alone is
  to the code what an authentication flow alone is); two links of one provider, so that
  its source can appear between them, and one of the unsupported provider.
- *Pages*: `PageSize` 2 and lists of up to six: empty, short, exactly full and
  one longer, each over several pages. Three changes are enough for a removal
  and an insertion before the offset and one more after it.
- *Cli*: two flows; no, a SAML or an OAuth provider at first, and one change;
  four command lines that are fine, and variants of them with one thing wrong;
  one row of each class of outcome and entry. Look-ups that find nothing because
  the flow is gone, or was not given, are met here; that an empty slug can meet a
  list without any flow takes more changes than one, and is left to the theorem.
- *Payloads*: two redirect URIs, one with a wildcard; clients that differ from a
  bare one in one concern, all its values combined (grants with their
  attributes, logout, redirects, scopes, mappers, their names together with the
  standard scopes, what is always reported).
  No function of the code reads fields of two of these concerns.

## Fairness

`Spec` of every module has weak fairness on the steps of the tool only: it is
one sequential process whose calls end, because `build_client` gives every
request a timeout. In `Pages` that is `WF(Fetch \/ FetchWhole
\/ Raise)`: a read that was begun goes on, because the passes iterate over it to
its end; in `Cli` it is `WF(Tool)`, and in `Verdict` the weaker promise that a
run ends. Nothing is assumed of Authentik, of Keycloak, of abandoned requests or
of administrators. `RerunSpec`, used where convergence is checked, adds an
operator: in `Directory` one who starts the tool again whenever it has ended,
in `Clients` one who comes back to an applied run whatever else is run in
between (strong fairness, as an applied run can be started only between runs).
Without an operator an interrupted migration stays interrupted. Faults stop because they are bounded,
which is what "converges once faults stop" needs. Deadlock is checked in all
passing runs but `payloads`, which is one step per client: the tool can always
be started again.

## Proofs

Checked by the TLA+ proof system for every value of the constants.

**HttpRetryProofs**, from `MaxAttempts \in Nat \ {0}`: `TypeCorrect`,
`EffectsAreBounded`, `GivesUpOnlyAtTheLast` and `ImplementsCallSafety` (initial
states map to initial states and each step to a step or a stutter of
`HttpCall`). `EffectsBounded` is not inductive alone: that the count of
attempts left behind cannot grow without an attempt being in flight needs `cur`
to be none outside of `wait`; that a retry stays within the bound needs
`attempt < MaxAttempts` in `backoff`; and that a success was executed has to be
known from the response on. `Inv` adds these.

**DirectoryProofs**, from the assumptions on the constants that `Authentik` and
`Directory` declare:

- `TypeCorrect`: `Spec => []TypeOK` for any realm, any number of users, groups
  and roles, any faults. The answer to a write uses what the lookup left in
  `call`, so the type invariant is inductive only with `CallOK`: which kinds of
  write can be pending in which pass, for which names.
- `NeverMerged`: `Spec => []NoGroupRoleMerge`, if `roles` is only selected
  together with `groups` or `memberships` (`RolesComeWithGroups`; without it
  the run `directory_merge` is the counterexample). `NoGroupRoleMerge` speaks
  of several runs, while `ok_groups` forgets at the end of each: it is not
  inductive. `MergeInv` says why it holds. Names taken for groups are those of
  flat groups of the realm, names taken for roles are not; that is preserved
  because in a roles pass the groups pass, dry or not, is through with all
  flat groups, so that `ok_groups` has them all, and because no role write
  that is pending has the name of one. What Authentik holds, and so what
  retries, late requests and administrators do, does not enter the argument.
- `WritesWereSelected`: `Spec => OnlySelectedIsWritten`. A step is permitted if
  what it writes was selected, but the step that writes is not the one that
  decided to: the lookup of a pass leaves a request in `call`, and a request that
  timed out takes effect in a later run with other options. `GrantInv` therefore
  follows requests: those of `call` and those in `late` were selected by some
  command line (`Allowed`), and the current one counts among these (`Granted`).
  `CommitPermitted` is the step from requests to effects. It uses that Authentik
  refuses to create what exists (`Accepts`): else a delayed create would be an
  update that nobody asked for.
- `MailsWereForNewAccounts`: `Spec => []MailsOnlyNewAccounts`. Its property looks
  at `asked` and `queued`, its reason is how a row becomes `CREATED`. `MailInv`
  says that accounts last and the tool's keep the e-mail of the realm (`Lasting`,
  `OwnEmails`); that a known pk has its row or is about to be updated, never
  created (`PksHaveRows`); that an account with a `CREATED` row was not there when
  the run began (`NewAccounts`); and that whoever has a mail queued has an account, so that
  no later run can create it (`Mailed`). The step that matters is
  `UserWriteMail`: a create that is answered ok was accepted, and was not accepted
  unless the account was not there.
- `CountedMailsWereQueued`: `Spec => []SentWasQueued`. `CountInv` bounds the count,
  from both sides, by the number of accounts that a mail was queued for in this
  run, not by what `queued` adds up to: with mail to new accounts only, these are
  the same.
- `SharedEmailsAreFlagged`: `Spec => []DuplicateEmailFlagged`. `FlagInv` extends
  the property to the create that is pending, and adds that its e-mail is in
  `planned`, which the next user is compared with; `UserInv`, that accounts of the
  start of the run keep their e-mails.

  These three also use that no username has `NoAccount` for an account
  (`AccountAssumption`).

**DirectoryReportProofs** is about what the rows of the report are worth.

Under `RolesComeWithGroups`, as for `NeverMerged`:

- `RowsTellTheTruth` (`ReportSound`), `SilenceIsSuccess` (`ReportComplete`) and
  `RerunsAreSafe` (`RerunCreatesNothing`). They share one invariant, `ReportInv`.
  A row is true when it is written; that it stays true needs that groups,
  members and stamps last (`GroupsLast`), which needs that no request, also of an
  earlier run, updates a role's group into a migrated group (`GroupInv`). Rows
  about members rest on snapshots: `SnapInv` says that what a lookup kept is
  still so, `Order` and `Passed` which rows are settled in which phase, and
  `GroupRows` to `AssignmentRows` what each outcome stands for, FAILED and
  CONFLICT included, from which `ReportComplete` is read off at the end.
  `Rerun` is the part about a target that was complete at the start.

  Without the condition the first two are false, and TLC has shown it: a run of
  roles only after an interrupted run of groups only, whose update arrives late
  and takes the stamp off a role whose row is written; and a run of roles only
  that stamps a name which is also a group's, so that the full run after it
  takes the role for a conflict and makes none of its assignments, although
  Authentik has the stamp. These are further faces of the collision in `directory_merge`. For
  `RerunCreatesNothing` no counterexample was found; the proof uses the condition.

For plans, under `WholePlans`: a selection that is run dry and then applied
contains what its passes need, users for roles, groups and users for memberships.

- `PlansAreHonoured`: `PlanSpec => []DirectoryPlan!PlanIsHonoured`. `DueGroup` to
  `DueAssignment` are the rows that things get from a run in which only the tool
  acts. In the calm, `Fit` holds. In the dry run a row is the one that is due, and
  nothing changes, so that it stays due. In the applied run after it, a row is the
  one that was promised, and what has no row yet is promised what is due now
  (`RowsFit`); a write under way is the one that is due, and will be accepted
  (`CallFits`). Rows of later passes are decided by the caches of earlier ones, so
  that caches must say what rows say (`GroupsSeen`, `RolesSeen`, `UsersSeen`). The
  difference between the runs is that the applied one changes Authentik while it
  looks: `Steady` says why this changes no row that is due. A group that is written
  was to be a conflict for the role of its name anyhow, as `ok_groups` has it in
  both runs; a member that is added is added to a group whose members the run has
  copied before. `MembersExist` adds that only accounts are members, and only of
  groups that are there, so that who is new to the applied run is nobody's member.
  `CalmEnds` excludes faults, late requests and administrators.

  Without the condition it is false: on an empty target the dry run of
  `--only memberships` has a CREATED row for each membership, and the applied one
  a FAILED row, since the passes for groups and users only support it and make
  nothing. The sentence of the README of kc2ak is about collisions, and these are
  foreseen in any case; the selections of `MCDirectoryPlan` keep the condition.

**ClientsProofs**, from `ClientsAssumption` and that the values for "none" are none
of the things they stand next to (`NoneAssumption`, true of the code's `None`):

- `TypeCorrect`, with `Founded`: what an abandoned request would make is of the
  right kind.
- `NothingIsDetached` (`MappingsStayAttached`), from types: an update of a
  provider omits its mappings, and a create is not accepted where one is.
- `ClaimsStayAttached` (`ClaimsAreAttached`). The provider gets its claims in one
  request, which was made up from what an inner loop found, and may arrive in a
  later run. `ClaimInv` follows them: `Remembered`, an edit forgets no expression
  and keeps the names; `Gathered`, what the loop is past is in `mapper_pks`;
  `Honest`, pending requests carry all names of their client; `Genuine` and
  `Whole`, Authentik has them.
- `RowsMeanPairs` (`RowMeansPair`), if no two clients have one slug
  (`SlugsDiffer`; without it the run `clients_one_slug` is the counterexample).
  `PairInv` adds that applications, and pending requests for them, have the slug
  of their client, and that an update is only decided on where the application
  was found.

**SourcesProofs**, from `SourcesAssumption` and a `NoneAssumption` of the same kind:

- `TypeCorrect`, `LoginsWork` (`EnabledWorks`) and `NothingIsSabotaged`
  (`NeverSabotaged`). All three rest on `GoodPayload`, which is carried by the
  request in the making and by every abandoned one: a payload that switches on
  has all that a working source needs, and an update has no switch-off and no
  placeholder.
- `CertificatesImportedOnce` (`ImportedOnce`). Key pairs that are there do not
  bound those that will be: `KeyInv` bounds the sum with the imports that were
  abandoned (`Owed`), by `MaxExecutions` per fault, plus one once a key pair is
  there; a run imports only when it has found none.
- `LinksAlike` (`LinksTreatedAlike`) and `LinksAreTold`
  (`CountedLinksHaveSource`). `LinkInv`: every link has been treated as the row of
  its provider, or the cached lookup, says (`Uniform`), and this does not change
  until the loop ends; what the lookup found is there and stays (`Seen`); the
  counter of a provider is the number of its counted links (`CountOK`).
- `CreatedDisabledExact` (`CreatedDisabledIsTold`), if no two providers have one
  slug (`SlugsDiffer`). `CreatedInv` says more: no update for a source that this
  run created is left in `late`. With colliding slugs it is false: under
  `--update-existing` a second provider, which has a secret, finds the source of
  the first by its slug and switches it on after the row of the first was
  written.
- `DryRunIsHonoured` (`SourcesPlan!PlanIsHonoured`), if slugs differ. `Due` is the
  row that a provider gets from a run in which only the tool acts. `PlanInv`: in
  the dry run every row is the one due (`DryRow`), and nothing changes, so that it
  stays due; in the applied run after it every provider without row is promised
  what is due now, and the others have what they were promised (`AppliedRow`), but
  for those whose source is of another type (`Mismatch`); and the lookup of the
  provider in hand is still true (`HandOK`), so that Authentik can only refuse an
  update of the wrong type. A fault, a late request and an administrator end the
  calm (`CalmEnds`). With one slug for two new providers it is false: the dry run
  announces two creates, and the second finds the source of the first.

**PayloadsProofs**, from `PayloadsAssumption`: `PayloadsAreTaken` (`TypeOK`),
`NothingElseIsLostSilently` (`CarriedOrReported`, with `Silent` exact), `NothingIsInvented`
(`NothingInvented`) and `GreenClientsAreFaithful` (`GreenIsFaithful`), for every
client that Keycloak can have. The run varies one concern of a client at a time;
the theorems allow any combination, so that nothing depends on which functions
read which fields, but for names of mappers and scopes, which are varied together. There is one step, and the invariant is that its result is the
mappers' (`Inv`); the work is in the lemmas that compute both sides: `CarriedIs`,
`ReportedIs` and `FeaturesAre` write them as unions of tagged sets, one per
concern, `GrantsAre` goes through the grant types, `Apart` and `LostNothing` compare
concern by concern.

**CliProofs**, from `CliAssumption`, for any set of flows, command lines, rows
and any number of changes:

- `TypeCorrect`, inductive as it is.
- `NeverSurprised` and `WritesWereVetted`: `NoSurprise` speaks of the end of a
  run, `check_preconditions` of its beginning. The invariant in between says
  what a passed check means. `Vetted`: those that depend on the command line
  alone are in `checked` once `check` is past them. `Standing`: as long as
  nothing has changed, whatever is a concern was checked and still holds.
  `Ready`: the passes begin after the last check and, if nothing has changed,
  with the providers that the checks saw. Then a SAML source that is written had
  its pre-authentication flow checked. With that a look-up of a given option
  in an unchanged world cannot fail.
- `ImplementsVerdictSafety`: initial states map to initial states, and each
  step of `Cli` to one of `Verdict` or a stutter. It needs, on top of the types,
  that the file is none, another run's, or this run's with its rows, and that
  the exit code is computed from those rows.

**PagesProofs**, from `PagesAssumption`:

- `TypeCorrect`, where what `InsertAt` and `RemoveAt` make of a sequence without
  repetition is stated as lemmas first.
- `StillListsAreReadExactly`, for lists of any length and any page size. The
  invariant is that `got` is the part of the list before the offset and that the
  offset lies within it; the lemma `PageAppends` is where a full last page, an
  empty page and a short one are told apart.
- `DriftIsBounded` (`DriftBounded`), for any number of changes. The property
  counts what is missed when the read is over and what was repeated so far;
  neither is inductive, for a change does its harm later. `DriftInv` counts the
  elements on the wrong side of the offset: those before it that were not yielded
  (`Missed`) against the removals, and those behind it that were (`Again`),
  together with the repetitions so far, against the insertions. A change moves at
  most one element across the offset (`AddShifts`, `DeleteShifts`), and a page turns
  members of `Again` into repetitions one for one (`DriftFetch`).

Only model-checked: liveness (`Converges`, `ReadsEnd`, the answer of
`ImplementsCall`, the end of `ImplementsVerdict`), as `ENABLED` is out of the
prover's reach. Every invariant and action property that a passing run checks is
also a theorem, some of them under the condition that is named with it above.

## What is not modelled

- Outside of `Pages`, Keycloak is a constant, but for edited mappers in `Clients`
  and new providers in `Cli`. A read that fails in a `try` block is a
  `...Fails` action, one outside is `Interrupt`, `Crash` or `Raise`. That a
  disturbed list makes a pass miss or repeat an object is shown of the read
  only, and not carried through the passes.
- A kill between `write_report` (`cli.py:480`) and the exit (`cli.py:481-484`):
  `Cli.Report` is both in one step. The caller would see the status of the kill
  next to a whole report; no documented meaning of an exit code is about this.
- Slugs that collide, outside of `clients_one_slug`.
- Text: expressions, the regular expressions made of wildcards, names, URLs,
  reasons. Fields of sources that are copied.
- The counts of the report and what is printed: `compute_recovery_mail` and
  `_build_counts` are derived from rows that are modelled; nothing reads them.
- `redact.py`: string replacement in what is logged. That every line passes
  through it is a matter of call sites and not of states.
- Deletion: the tool has none, and administrators only add here. With
  deletions `ReportSound` would be about the past, and convergence a race.

## Plan

Done, in this order: `HttpCall`, `HttpRetry` and its proofs; `Authentik`,
`Directory`, its plans and claims, and its proofs;
`Clients`; `Sources` and its plans; `Pages` and its proof; mappers that are
edited, in `Clients`; `Verdict`, `Cli` and its proofs; `Payloads`; the proofs of
`Clients`, `Sources`, of the report and the plans of `Directory`, of `Payloads` and of what a
disturbed read misses.

Next, by importance:

1. The condition `RolesComeWithGroups` for `RerunCreatesNothing`: whether the
   property holds without it.
2. A pass over a list that changes: `Directory` with users that are read twice
   or not at all.
