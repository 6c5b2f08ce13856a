# TLA+ verification of the FABRIC Credential Manager

The Credential Manager issues FABRIC tokens to users who logged in at CILogon
through Vouch, keeps a table of the tokens it issued so that they can be listed,
revoked and deleted, and hands out keys for LLM models that a LiteLLM proxy
serves. A web application in the same repository shows tokens and keys and lets
operators manage storage. This directory holds TLA+ models of both, the
configurations under which TLC checks them, and proofs that TLAPS checks.

Contents: [the system](#the-system), [modules](#modules),
[correspondence](#correspondence-with-the-code), [runs](#runs),
[findings](#findings), [other disagreements](#other-disagreements), [bounds](#bounds), [fairness](#fairness),
[proofs](#proofs), [what is only model-checked](#what-is-only-model-checked),
[what is not modelled](#what-is-not-modelled), [plan](#plan).

## The system

A FastAPI service (`src/fabric_cm/credmgr/swagger_server`) runs each synchronous
handler in a thread of a pool. Handlers call `OAuthCredMgr`, which calls a
Postgres table through `DbApi` (every `DbApi` method is one transaction of its
own; no transaction spans two of them), CILogon, the FABRIC Core API and
LiteLLM. Nothing else coordinates two requests: no lock, no queue, no
transaction around a request. The web app (`src/cm-app`) runs in browsers and
talks to the service, to the Core API and to a storage service behind a proxy
route; its pages are event handlers over React state, and every `await` in them
lets other handlers run.

| component | state | operations | talks to |
|---|---|---|---|
| Token endpoints: `core/oauth_credmgr.py`, `response/tokens_controller.py` | none of their own between requests; within a request, what was read | create, refresh, revoke, delete one, delete all, list, revoke list, validate; every read first sweeps expired rows | table, encoder, Core API, CILogon |
| Tokens table: `db/db_api.py`, `db/__init__.py` | rows: hash, state, expiry, owner, project | query (filters, expiry, page), add, update by hash, remove by hash | |
| Token encoder: `token/token_encoder.py` | none | lifetime check, claims, signature | Core API, or else LDAP |
| Core API client: `external_apis/core_api.py` | none | whoami, roles, projects (paginated), membership | Core API |
| Project registry in LDAP: `external_apis/ldap.py` | none; one connection at a time, under a lock | groups of a user: membership of a project, roles | COmanage |
| LLM key endpoints: `oauth_credmgr.py` 511-758 | none between requests | create, delete, list with purge of expired keys, models | LiteLLM, LlmKeys table |
| LiteLLM client: `external_apis/litellm_api.py` | users and keys in the proxy | create user, add to team, generate, list, info, delete | |
| Authorization: `swagger_server/dependencies.py`, `routes.py` | none | login cookie or Bearer token to claims, on the event loop, before the handler is given a thread | validate |
| CLI login: `tokens_controller.py` 412-671 | parameters in a cookie of the browser | `create_cli`, twice across a login redirect | create |
| Refresh tokens: `oauth_credmgr.py` 288-381 | none; CILogon keeps which are good, clients hold them | refresh, revoke | CILogon |
| Web app, login: `use-user-status.ts`, `http-service.ts`, `use-session-timeout.ts`, header and modal | status and user in `sessionStorage`, two timers, two warnings | whoami, login, logout, interceptor of answers | service, Vouch |
| Web app, tokens: `app/cm/page.tsx` | projects, selected project and tab, list | list, create, revoke | service, Core API |
| Web app, storage: `app/storage/page.tsx` | selected cluster, lists, ticks, a cached token, a job behind a spinner | loads, batches, single calls | storage service, service |

What is hard in it:

* **Interleaving and atomicity.** Revoke reads in one transaction and updates in
  another. Creation counts the user's tokens, then talks to the Core API, then
  sweeps, then inserts. Deletion reads a page and removes row by row. Sweeps that
  any request starts (validate and the revoke list: for *all* users) remove, by
  hash, rows they selected some transactions ago.
* **Limits.** `get_tokens` returns 5 rows unless told otherwise; several callers
  take them for all rows.
* **Time.** `expires_at`, `iat`, `exp`, the expiry of the sweep and of the reported
  state are separate readings of the clock.
* **Identity.** Rows are found by a hash of the token. Equal claims in one second
  give equal tokens.
* **Credentials.** A Bearer token is checked on the event loop, before the handler waits
  for a thread, and not after; two routes that make tokens have no such check; a
  login cookie outlives what a tab remembers of it, and other tabs replace it. A
  refresh token is good once, and the service is its only way to the client.
* **One cookie, several logins.** The parameters of a CLI login wait in a cookie that
  all tabs of the browser share.
* **Pages under change.** Four loops read a list page by page, each with another rule
  to go on and to stop, while the list changes.
* **Answers out of order.** The pages show what the last answer says, and handlers go
  on after an `await` with the project or cluster of the time they were called.
* **Claims from several calls.** A token says what three or four calls to the registry
  answered, one after the other; memberships, names and roles change in between.
* **Partial failure.** Any call may raise; what was committed stays. LLM keys live
  in two systems with no transaction over both, and some failures are swallowed.

What makes it correct: a confirmed revocation or deletion is final and a later
validation never answers Valid; rows change only for their owner and vanish only
when expired or deleted by their owner; an answer with lists is complete, or is a full
page; quotas hold up to a stated overshoot, where they are below the page; what a token
says of its user was so; a key in use is on record; only expiry or the owner ends a key;
a request ends unless the Core API's pages keep it. A CLI login gets the token it asked
for, once. A refresh token makes one FABRIC token and a revoked one none. A killed token
does nothing that was not under way, and a user without login and refresh token gets no
more tokens. A list read in peace is exact. A tab takes nobody for somebody else, and a
page that has settled shows what is there, of what is selected, unless an older answer
came last.

## Modules

| module | models | composes |
|---|---|---|
| `TokenStore` | the table and the queries of `db_api.py`, as operators on a set of rows | |
| `CoreRoles` | role records of the Core API and the operator test of `utils.py` | |
| `CredMgr` | the token endpoints as a state machine over a pool of worker threads | `TokenStore`, `CoreRoles` |
| `TokenLedger` | abstract: what the endpoints promise, with no table, page, request or thread | implemented by `CredMgr` (refinement mapping at its end) |
| `LlmKeys` | the LLM key endpoints over LiteLLM and the LlmKeys table, with failing calls | `CoreRoles` |
| `CliFlow` | `create_cli` for several programs and the tabs of one browser | |
| `RefreshFlow` | refresh tokens at CILogon, in the service and with clients | |
| `Authorization` | who a request acts for: cookie or Bearer token, checked before the handler gets a thread, or neither on the open routes | |
| `TokenClaims` | one request for a token, from its parameters to the signature, while the registry (Core API or LDAP) changes | |
| `Paging` | the four loops that read a list page by page | |
| `WebSession` | what a tab knows of the login, its warnings, and the cookie | |
| `TokensPage` | the page of tokens and its calls in flight | |
| `StoragePage` | the operators' storage page: loads, ticks, jobs | |
| `CredMgr_proofs` | theorems about `CredMgr`: its invariant, complete answers, the quota, the refinement of `TokenLedger` | |
| `Authorization_proofs` | theorems about `Authorization` and `TokenClaims` | |
| `LlmKeys_proofs`, `RefreshFlow_proofs`, `CliFlow_proofs`, `WebSession_proofs`, `StoragePage_proofs` | theorems about these modules | |
| `Pages_proofs` | theorems about `TokensPage` and `Paging` | |
| `MCCredMgr`, `MCLlmKeys`, `MCAuthorization` | symmetry for TLC | |
| `MCRegistry` | `TokenClaims` and `Paging` for TLC, in one run: a behaviour is a request of the one or a loop of the other, and its next-state relation is the disjunction of theirs | |

## Correspondence with the code

**Requests.** `CredMgr` and `LlmKeys` have a function `req` from worker threads to
request records. `op` is the endpoint, `pc` the next call that reads or changes
shared state; code between two such calls touches local variables only and is part
of the action before or after. `rows`/`left` are rows or keys read and still to be
handled. `Abort` is any call raising (or the process stopping) between two actions;
`Reply` is the client hearing the answer. Fields and variables commented
"history" do not exist in the program; properties read them and no guard does,
with two exceptions that describe clients and not the service: `Known` (clients
only name tokens that were issued) and the bound `Room`.

**CredMgr.** A row is `[id, jwt, state, expires]`. `jwt` stands for the token and
for its hash (PBKDF2 with a fixed salt): the claims that tell tokens apart are
user, project, the id token they were taken from, `iat` and `exp`. The clock may have
several ticks to a second (`Second`): rows keep the tick, `iat` and `exp` are cut to the
second (`WholeSecond`), as the encoder does. Per endpoint the sequence of `pc` is

| endpoint | steps |
|---|---|
| create | [`lookup`] [`sweep` `sweeping`* `query` (CheckLimit)] `stamp` `encode` `sweep` `sweeping`* `add` |
| refresh | as create, without the parts in brackets |
| revoke | `lookup` `sweep` `sweeping`* `query` (RevokeRead) `update` |
| delete one / all | `select` `removing`* |
| list, revoke list, validate | `sweep` `sweeping`* `query` |

`lookup` is for a project given by its name, the second brackets are for long-lived tokens
only. `Sweep`/`SweepRemove` are
`delete_expired_tokens`: read a page of expired rows, remove them one transaction
each. `Stamp` and `Encode` are separate since the encoder calls the Core API in
between and reads the clock again. `Slice` keeps the freedom the database has in
ordering rows of equal expiry, and the rule that a limit counts only beside an
offset. `RevokeUpdate` raises when no row or several have the hash
(`one_or_none`).

**LlmKeys.** `keys` and `users` are LiteLLM's, `rows` the LlmKeys table. A call may
fail at most `MaxFaults` times in a behaviour; a failed LiteLLM call may have been
carried out (`Erase`, `Purge`, `Generate`). `list_keys` turns LiteLLM's errors into
an empty list (`ListFails`), the count swallows every other exception, and the
removal of a row is best effort (`RemoveRow`); what the code does not catch is
`Abort`. When the count raised before its own import of datetime (`undated`), `Generate` makes
the key and then raises.

**TokenClaims.** One request: `Start` checks its parameters, `Resolve` looks a project's
name up (`get_project_id`), `ReadProjects` and `ReadRoles` are the calls of
`get_user_and_project_info`, `ReadLdap` the query that replaces them when the Core API is
disabled, and `Sign` checks the lifetime and signs. `said` are the encoder's claims (`Say` is
the end of `_add_fabric_claims`), `id` its `project_id`. `Edit` is anything that changes in the
registry, and `past` remembers what it ever had since the request began. Whoever asks is
one user, whose email and uuid do not change. A role that has a project's id in its name
is that project here; `Exclude` takes such roles out. In LDAP a group is a role, or it shows
the membership of a project, or both, and `ReadLdap` has the two ways in which
`exclude_uuid_roles` raises.

**CliFlow.** A tab is `closed`, then goes through `sent` (the request is under way with
the cookies the browser had), `choose` and `create` (inside the handler), `answer`
(under way back) and ends at `login`, `page`, `code`, `done` or `failed`. The two phases of
`create_cli` are one handler in the code and here: `Handle` merges the cookie into
the URL's parameters, checks them and goes to the login or on. `jar` is the cookie;
answers, not handlers, change it (`ArriveLogin` sets it, `ArrivePage` clears it, an error
leaves it). `Fail` is an exception or a lost answer at any point, with or without
the token made. A program knows its own port, so `to` identifies a login. `disturbed`
records that something came in a login's way.

**RefreshFlow.** `live` is CILogon's: a refresh token is good until it is used or
revoked. `refresh_token` is `Check`, `Rotate` (CILogon's part and the answer, which may be
lost) and `Generate` (the token is made or an error is told, which does not carry the
new refresh token); `revoke_token` is `Revoke`. All short-lived tokens of a login
carry the one refresh token of the cookie (`Create`).

**Authorization.** `Arrive` is a request with any of the credentials a client may send.
`Accept` is the dependency the route declares (`get_login_claims` for create and delete,
`get_login_or_token_claims` for the others); it is `async` and runs on the event loop, so
any number of requests may be past it (`queued`) while `Threads` handlers run (`TakeUp`).
`AcceptOpen` are the two routes without a dependency: `create_cli`, which looks at the
cookie itself, and `POST /tokens/refresh`, which asks CILogon about the refresh token
(`Admit`; `grants` are the users whose refresh token CILogon takes). `Create` makes a token,
`Delete` removes one row, as often as the handler does, `Revoke` changes a row, `EndGrant` is
`POST /tokens/revoke`, and `Finish` is any handler that changes none of this or fails. What
the transactions of one handler do to each other is in `CredMgr`; here a revocation is
one step.

**Paging.** One state machine with four loops; `loop` chooses one at the start. A page
is cut out of the sorted list as it is when the request is served. `CoreOffset`,
`WebDone`, `MembersDone` and `Done` are the rules to go on and to stop as the code has
them. `TokenProjects` and `ProjectFound` are what the service makes of the result.

**WebSession.** `store` is `sessionStorage`, `shown` the React state of the page, `cookie` the
browser's. A page that was left by a click goes on running (`page` is `login` or `logout`)
until the next comes, so late answers still store a status. `Load` is a page load,
`Refused` the interceptor's reaction to 401 and 403, `Warn`, `Close` and `CountedDown` the timers
and the modal, `Elsewhere` another tab that logs in or out. `Tick` waits for timers that
are due: the tab is not asleep. The delays of the timers (`First`, `Second`) and the counts
the warnings begin with (`LeftFirst`, `LeftSecond`) are constants of their own in the code,
and here; the assumption is that each pair reaches the end of the cookie's life.

**TokensPage.** Each call has a request, a moment when the service handles it (`Handle`)
and an answer or an error (`AnswerList`, `AnswerChange`, `LoadProjects`), and answers come
in any order. Of a project's tokens only a version number is kept: a list is current
if it has the latest. A handler that continues after its await uses the project
selected when it was called (`sel`).

**StoragePage.** `calls` are the loads under way, each with the cluster it was started
for and the number of the load; `asked` counts them. `cached` says whether `ensureToken` finds
a good token: a load without one makes one, and a new token makes React run the effects
that load the subvolumes again (`LoadToken`), as new groups do (`GroupsLoaded`). The lists of
project members and of all subvolumes, offered in forms, matter only as loads that may make
a token (`Aside`). `job` is what runs behind the full-page spinner, a single call or a batch,
one name after the other; while there is one nothing can be clicked. Its closing loads are
those of the render it began in, whose token may be too old by then (`fresh`). Capabilities
are put on all clusters at once (`Touched`). The list a load brings may have any names
(`Display`): it was read at some moment before, others change the clusters too, and
groups whose call failed are left out. `Found` is what the search leaves to tick. Names
stand for users and subvolumes; what capabilities they have is left out. The model begins
when the first lists have come.

LiteLLM, the Core API and CILogon are external: their part is what the code relies
on (LiteLLM gives every key a fresh id, keeps its owner, and lists a user's keys).

Definitions whose comment starts with "Fault:" are not part of any specification.
Each is a plausible bug in the definition after it; substituting it makes the
property it belongs to fail, which shows that the property constrains that code.

## Runs

| run | module / cfg | instance | shows |
|---|---|---|---|
| `revoke` | `MCCredMgr` / `CredMgrRevoke` | 2 users, 2 threads, 2 tokens, page of 1, clock to 2 | `AckedIsFinal`, `NeverValidAgain`, `RevokeListExact`; `ImplementsLedger`, `RemovalJustified`, `OnlyOwnerRevokes` |
| `lists` | `MCCredMgr` / `CredMgrPages` | 1 user, 2 threads, 2 tokens, page of 1, quota of 0, refresh, 2 ticks to a second, clock to 3 | `RowWithinToken`, `DeleteAllDeletesAll`, `ListComplete`; `Answered` under fairness |
| `quota_shipped` | `MCCredMgr` / `CredMgrQuota` | quota and page of 5 as shipped, 1 thread, 7 tokens | refutes `LLTOvershootBounded` |
| `llm_keys` | `MCLlmKeys` / `LlmKeys` | limit 1, 3 keys, 2 threads, 1 failing call, clock to 2 | `Recorded`, `LlmQuotaBounded`, `ListingComplete`, `ErasureJustified` |
| `cli_login` | `CliFlow` | 2 programs, 2 projects of which any may be active, lifetimes 4 and 9 hours with a limit of 8, 1 fault | `TokenAsAsked`, `NotAgainAfterPage`, `OneTokenPerTab`; `Served` under fairness |
| `refresh` | `RefreshFlow` | 2 clients, 3 refresh tokens, 1 fault | `RefreshedUsable`, `RevokedStaysDead`, `OneTokenPerRefresh` |
| `bearer` | `MCAuthorization` / `Authorization` | 2 users, one an operator, 3 requests, 1 thread, 1 token of lifetime 1, cookies good at 0 only, clock to 2 | `RevokedActsBounded`; `OutStaysOut` |
| `registry` | `MCRegistry` | 2 projects, 1 name, lifetimes 1 and 2 with 1 as the short one, 2 changes, with and without the Core API; or lists of up to 5 items, pages of 2, 3 changes | `ClaimsHeld`, `LongLivedForHolders`; `ExactWhenQuiet`, `MissedOrTwice`; `Ends` under fairness |
| `web_session` | `WebSession` | 2 users, one enrolled, 2 calls, 2 logins, cookie good for 3, warnings at 1 and 2, clock to 4 | `SameUser`, `NotToldToLogIn`, `NoEarlyLogout`; `Settles` under fairness |
| `tokens_page` | `TokensPage` | 3 projects, one of them a service project, 2 calls at a time, 5 lists, 2 changes | `ListCurrent`, `ListOfSelected` |
| `storage_page` | `StoragePage` | 2 clusters, 2 lists of 2 names, the two lists offered in forms taken as one, 2 acts, 1 fault | `ListOfCluster`, `BatchExact`; `SpinnerEnds` under fairness |
| `operator_blind` | `MCCredMgr` / `OperatorBlind` | 2 users, one an operator, 1 thread, 1 token | refutes `OperatorFindsAll` |

The properties:

* `AckedIsFinal`: after a confirmed revocation or owner's deletion, no row of the
  token is left that is not revoked. `NeverValidAgain`: a validation that began
  after that never answers Valid. Both are about transactions of several requests
  in any order, with sweeps and failures in between.
* `RowWithinToken`: a row claims a longer life than its token by less than a second.
  `expires_at` keeps fractions of a second that `exp` lacks, so it may be later; that it is
  not later by more holds because it is taken before the token is signed.
* `DeleteAllDeletesAll`: `DELETE /tokens` that answers ok has deleted all it found or a full
  page; `RevokeListExact`: the revoke list lacks a revoked hash only if it is a full page of
  tokens that expire no earlier. Both run with more rows than the page holds. The
  code's own claim, that all are deleted or listed, is not what it does: see
  [Other disagreements](#other-disagreements). `ListComplete`: a list without paging has every
  row that was there when the request began and still is.
* `RemovalJustified`, `OnlyOwnerRevokes`: what a step may do to a row, and for whom.
* `LLTOvershootBounded`: at most one long-lived token per thread past the quota. It is
  proved for quotas below the page limit (`QuotaSound`) and refuted for the shipped ones.
* `ImplementsLedger`: every behaviour is one of `TokenLedger`, where tokens are
  issued once, revoked at most once, and go only after expiry or on request.
* `Answered`: a request ends, unless it stays with the Core API for good, whose pages the
  service may read without end (`Paging`); of each visit there nothing is assumed.
* `Recorded`: a key a client got and that works has a row. `LlmQuotaBounded`: at most
  one key per further thread, and one per failed call, past the limit.
  `ListingComplete`: nothing the caller still has is missing from an answer, unless
  the swallowed error blinded it. `ErasureJustified`: keys end by expiry or owner.
* `TokenAsAsked`: the parameters a program's token is made with are those the program
  asked for, though several logins write the cookie. `NotAgainAfterPage`: after a page
  with the token was shown, a request without parameters does not make another.
  `OneTokenPerTab`: a login with nothing in its way makes one token, and logins in
  each other's way no more than tabs and faults account for. `Served`: a login with
  nothing in its way ends with the token.
* `RefreshedUsable`: what a client got by refreshing stays good until it revokes it
  or a request of its own fails after CILogon was asked; other clients of the same
  login do not spoil it. `RevokedStaysDead`: a refresh token confirmed as revoked is
  not accepted again. `OneTokenPerRefresh`: retries and races make no second token
  from one refresh token.
* `RevokedActsBounded`: a token that was revoked or deleted acts at most once for each
  request that was past the check by it then. Their number is not bounded by the
  threads: requests wait for a thread after the check. `OutStaysOut`: once a user's login
  is over, the refresh token ended, and nothing let in is under way, nobody makes a token
  for the user any more, so a token is no way to the next.
* `ClaimsHeld`: each project and role in a token was the user's, and the project active, at
  some time since the token was asked for; it is for the project asked for by its id, or
  one that alone had the name asked for; and no role of a project gets in. Its two
  halves rest on different code: with the Core API on the checks in `core_api.py`
  215-244, with LDAP on an exception that is raised for another reason.
  `LongLivedForHolders`: a token that is not short-lived is for one project, of which
  the user was an active member and token holder at once.
* `ExactWhenQuiet`: without changes each loop returns each item once (the tokens page:
  its first page). `MissedOrTwice`: only a removal makes a loop miss what was there
  throughout, only an addition makes it give an item twice. `Ends`: every loop ends,
  except the service's once it was given more than there is, since it stops on
  equality only (`core_api.py` 188).
* `SameUser`, `NotToldToLogIn`: the tab takes the user for the one who holds the cookie,
  and asks for a login only who needs one, except where another tab changed the
  cookie, or an answer came while the page was being left. `NoEarlyLogout`: a
  countdown ends no login that has time left. `Settles`: "Checking authentication..." ends
  unless the user is not enrolled, who is left with it for good.
* `ListCurrent`, `ListOfSelected`: once the calls are answered, and the list asked for last
  is the one on display, it holds all this page did, among the first 200 tokens
  (`credential-manager-service.ts` 56), and is the selected project's; the exceptions (a
  list overtaken by an older one, a change told as an error, a project changed while a
  revoke was under way) are in the property.
* `ListOfCluster`: a list from the last load is the selected cluster's; while that load is
  under way, failed, or was overtaken, a list of another cluster may be on display, and a
  deletion from it acts on the selected cluster. `BatchExact`: a job deletes nothing the
  list did not name, asks for each name once, on the selected cluster, and what it
  counts as deleted is gone. `SpinnerEnds`: the page comes back, also from the handler
  that returns with the spinner shown (`page.tsx` 889), since its button is disabled then.

`Twin(jwt)` marks a token that was stored twice, which two equal creates within a
second do. Properties about single tokens exclude it.

Deadlock checking is off in every run: the workload is bounded (rows ever added, the
clock), and a behaviour that used it up stops.

## Findings

A run that is expected to fail checks one statement that the repository makes, and
TLC refutes it by what the code does.

| run | statement | counterexample |
|---|---|---|
| `quota_shipped` | "max-llt-count-per-project = 5" (`config_template` 43) and "already has ... long lived tokens" (`oauth_credmgr.py` 280) | the count comes from one page of five rows and is compared with `>`: a single thread makes seven, one after the other |
| `operator_blind` | "Facility Operator query all tokens" (`oauth_credmgr.py` 403) | the role name is looked up among role records; operators get "not found" |

## Other disagreements

Found while modelling, in the models as the code has them, and checked by no run of
their own:

* `oauth_credmgr.py` 485: `delete_tokens` removes one page of five rows, and
  `tokens_controller.py` 127 answers that all tokens "have been successfully deleted".
  `DeleteAllDeletesAll` says what holds: all, or no less than a page.
* `oauth_credmgr.py` 439: the revoke list ("list of revoked identity token hashes", 424)
  is one such page too; `RevokeListExact` says which.
* `oauth_credmgr.py` 196: `expires_at` is not the token's `exp` but up to a second later.
* `core_api.py` 188: the loop over pages ends only when the number fetched equals the total.
* `oauth_credmgr.py` 593: datetime is imported inside the `try` of the count; an error before
  it becomes an UnboundLocalError after the key was made.
* `app/storage/page.tsx` 769, 801, 827: the loads at the end of a job do not know the token the
  job made and make another.
* `db/__init__.py` 45: the hash "can be used as a database lookup key"
  (`oauth_credmgr.py` 133), but two equal creates within one second store it twice, and
  `update_token` then raises.
* `token_encoder.py` 92: the shipped `token-lifetime` of one hour refuses the default of four
  that `src/README.md` 126 grants ("non-holders limited to 4 hours").
* `db_api.py` 194: a limit without an offset is dropped ("maximum number of results to
  return per page", `tokens_controller.py` 307).
* `ldap.py` 106: a user without an LDAP profile is not told "User is not a member of
  project", since the test is made for users with one only. `token_encoder.py` 122 then
  iterates over None and raises, which is why `ClaimsHeld` holds nevertheless.
* `token_encoder.py` 123: the roles from LDAP are strings, and `role["name"]` raises on any. With
  the Core API disabled only users without roles get tokens, short-lived ones, although
  `ldap.py` 101 collects roles for them.
* `oauth_credmgr.py` 606: two concurrent creates pass the count of LLM keys together
  ("Enforce max active LLM keys per user (limit: 10)", 588). `LlmQuotaBounded` says by how
  much the limit is exceeded at most.

## Bounds

| constant | bounds | why it is enough |
|---|---|---|
| `Requests` (2) | requests at the same time | every property relates one request to the steps of others, and a second thread serves any number of other requests one after the other; the proofs cover any number |
| `MaxTokens` (2; 7 in `quota_shipped`), via `Room` | rows ever added | two rows are one more than the page, and show a twin |
| `MaxRefresh` (1) | refreshes | one makes a token that bypassed the count |
| `MaxClock` (2; 3 with two ticks to a second) | the clock | a token of lifetime 1 is issued, expires at 1 and counts as expired at 2; with two ticks a row is stamped and signed within one second or in two |
| `PageLimit` (1; 5 where it must be as shipped) | | one less than the rows there are, so that pages cut |
| `MaxLLT`, `MaxLlmKeys` (0 or 5, and 1) | | `lists` has a long lifetime refused as soon as there is a row; two creates at once pass, so a deletion still meets more rows than a page; `revoke` leaves the quota out of reach; the keys reach and pass theirs |
| `MaxKeys` (3), `MaxFaults` (1) | keys ever generated, failing calls | one more key than limit and second thread allow; one failure at every call |
| `Logins` (2), `MaxFaults` (1) of `CliFlow` | programs; failures, reloads, expiries of the cookie | two logins meet in the cookie in every order; a third only repeats what a second does to it |
| `MaxGiven` (3), `MaxFaults` (1) of `RefreshFlow` | refresh tokens given, failures | the first of a login, the one a client gets for it, and the next, or that of a second login |
| `Requests` (3), `Threads` (1), `MaxTokens` (1), `CookieEnd` (1) of `Authorization` | | two requests past the check by one token while a third kills it, more than there are threads; the token of a refresh at 1 is good when the logins have ended |
| `MaxEdits` (2), `AtFirst` of `TokenClaims` | changes of the registry, what it has at first | the request makes three calls after its start, so two changes can come between any of them; two changes from any of the 16 first registries give the others that a call tells apart, and the proofs cover all of them |
| `N` (5), `Limit` (2), `MaxListChanges` (3) of `Paging` | items, page, changes | three pages, full and not, with a change between any two; `MaxOffset` (2 `N`) is where a loop that never ends is cut off |
| `MaxLogins` (2), `MaxClock` (4) of `WebSession` | | two users' cookies, each of which can run out |
| `MaxLists` (5), `MaxChanges` (2), `Calls` (2) of `TokensPage` | | the first list, one per change and two selections; two calls cross in either order |
| `MaxActs` (2), `MaxFaults` (1) of `StoragePage` | clicks that start something and ageing of the token, failing calls | a switch of clusters and a job in either order, or a job with a token that is or gets too old, with a call that fails |

The types of states are not checked on the runs but proved (`TypeCorrect` and its like).
Users and threads are model values and interchangeable (`Symmetry`), except in `lists`,
which checks liveness, and where the instance has one of each. `WebSession`,
`StoragePage`, `Paging` and `CliFlow` check liveness and use no symmetry.

## Fairness

`Answered` needs `WF_vars(Step(r))` for each thread `r`. A worker thread
that has a request runs until its handler returns; the operating system schedules
it, and each transaction it makes returns or raises (`Abort`, on which no fairness is
assumed). The calls to the Core API (`Lookup`, `Encode`) are not part of `Step` and no fairness
is assumed of them: their loop over pages may go on for ever, and the property allows a
request to stay there. No fairness is assumed of clients or of the clock. The property is
not void: `sweeping` and `removing` loop over rows that other requests take away.

The other modules assume weak fairness of what a program does once it has started,
and of nothing a user, another tab or a list's owner does:

* `CliFlow`, `Served`: for each tab, handlers return, answers arrive and the page with the
  token runs its script (`Server`, `Arrive`, `Deliver`). Logging in is the user's.
* `Paging`, `Ends`: the request for the next page is served (`Fetch`); of a request of
  `TokenClaims`, which shares the run, nothing is assumed.
* `WebSession`, `Settles`: the whoami request is answered or fails (`WhoAmI`).
* `StoragePage`, `SpinnerEnds`: each call of a job is answered or fails, and the handler
  goes on (`Job`).

## Proofs

Eight modules prove theorems for all values of the constants that the assumptions
allow. The assumptions are `CredMgrAssumption` and `NoneAssumption` (Python's None is no
token), `LlmAssumption`, `RefreshAssumption`, `AuthorizationAssumption`, `ClaimsAssumption`,
`StorageAssumption`, `SessionAssumption`, `CliAssumption` and `NoCookieAssumption`: types of
the constants, None different from all values it stands beside, at least one worker
thread and finitely many requests (`Authorization`), finitely many tabs (`CliFlow`), and
warnings in order whose countdowns reach the end of the cookie's life (`WebSession`). `TokensPage`
and `Paging` have assumptions too, of which only `Paging`'s (a page holds at least one
item) is used.

| module | theorem | property |
|---|---|---|
| `CredMgr_proofs` | `TypeCorrect` | `TypeOK` |
| | `RevocationFinal`, `ValidationSound` | `AckedIsFinal`, `NeverValidAgain` |
| | `RowNeverOutlives` | `RowWithinToken` |
| | `RemovalSound`, `OwnershipSound` | `RemovalJustified`, `OnlyOwnerRevokes` |
| | `ListSound` | `ListComplete` |
| | `DeleteAllSound`, `RevokeListSound` | `DeleteAllDeletesAll`, `RevokeListExact` |
| | `QuotaSound` (finitely many threads) | `LLTOvershootBounded` if `MaxLLT < PageLimit`, else `NoneRefused` |
| | `LedgerImplemented` | `ImplementsLedger` |
| `LlmKeys_proofs` | `TypeCorrect` | `TypeOK` |
| | `KeysRecorded`, `ErasureSound`, `ListingSound` | `Recorded`, `ErasureJustified`, `ListingComplete` |
| | `QuotaSound` (finitely many threads) | `LlmQuotaBounded` |
| `RefreshFlow_proofs` | `RefreshSound`, `RevocationFinal`, `RotationSound` | `RefreshedUsable`, `RevokedStaysDead`, `OneTokenPerRefresh` |
| `Authorization_proofs` | `LateActsBounded`, `OutSound` | `RevokedActsBounded`, `OutStaysOut` |
| | `ClaimsTyped`, `ClaimsSound`, `HoldersSound` | `ClaimsTypeOK`, `ClaimsHeld`, `LongLivedForHolders` of `TokenClaims` |
| `CliFlow_proofs` | `TypeCorrect` | `TypeOK` |
| | `AsAskedFor`, `NotMadeAgain`, `OneEach` | `TokenAsAsked`, `NotAgainAfterPage`, `OneTokenPerTab` |
| `Pages_proofs` | `PageTyped`, `ShownCurrent`, `ShownSelected` | `TypeOK`, `ListCurrent`, `ListOfSelected` of `TokensPage` |
| | `ReadTyped`, `ReadMissedOrTwice`, `ReadExactly` | `ReadTypeOK`, `MissedOrTwice`, `ExactWhenQuiet` of `Paging` |
| `WebSession_proofs` | `UserSound`, `LoginSound` | `SameUser`, `NotToldToLogIn` |
| | `LogoutSound` | `NoEarlyLogout` |
| `StoragePage_proofs` | `ListsSound`, `BatchesSound` | `ListOfCluster`, `BatchExact` |

Each module also proves that its invariant (`IInv`, `PageInv` and `ReadInv` in
`Pages_proofs`, `ClaimsInv` for `TokenClaims`) holds in every reachable state, as `Inductive`
or `Invariance`, and that
the types do; the others follow from that. There is one lemma per action, over a few lemmas on what kinds of step do
to the invariant (`ReadOnlyStep`, `TableStep`, `RemoveStep`; `RequestStep`, `QuietStep`,
`NewKeyStep`; `LeaveStep`, `AnswerStep`, `HandlerStep`; `RequestsStay`; `SayInv`, `Unsigned`).

*CredMgr.* `AckedIsFinal` alone is not inductive: a request that is about to answer
"ok" must already have achieved what its answer confirms, and a row must not
reappear. `IInv` adds `Table` (rows were stored under ids of their own, which no two
share, and outlive their token by less than a second), and for each request: `Shape` (which steps
belong to which endpoint, and what the request names), `InHand` (the rows it carries
were stored and have the expiry of the row in the table; a sweep carries expired
rows, a deletion rows of its caller), `Stamped` (the stamped expiry is before the
token's `exp` plus a second), `RevokeState` and `DeleteState` (what a request has achieved before
it answers), `ValidateState` (what a validation knew when it began). `AddToken` is the
critical step: a token that is added again makes a `Twin`, about which nothing is
claimed; a token that is added for the first time cannot be one that was
acknowledged, since clients only know tokens that were stored.

*The ledger.* With `IInv`, each step of `CredMgr` is a step of `TokenLedger` or leaves it
as it is. A row that a sweep or a deletion removes is still the row that was read,
or is gone (`InHand`), so the removal is `Retire`, of something expired or asked for, or
nothing (`RemoveIsRetire`). An update is `Revoke`, or nothing when the row was revoked
meanwhile (`RevokeUpdateStep`). An insertion is `Issue` for a token never seen, `Double`
when the token was stored before, and nothing after that (`AddTokenStep`). What leaves
the table alone is `Ask` (`QuietStep`), and the clock is `Pass`.

*LlmKeys.* `IInv` adds `Made` (every key at hand was generated and shares its id with
no other key), `Shape`, and `Established`: a key to be handed out is on record unless
it is gone; a row to be removed has lost its key; a key to be deleted is the
caller's. `RemoveRowKeeps` is why the order of the two deletions matters: the row
that goes is of a key that is gone, and ids are never given twice.

*The number of keys.* `LlmQuotaBounded` counts, so it needs an invariant that counts more
than the keys: `Due` are the requests that will make a key without another look at how
many there are, those past the count and those about to count for a user LiteLLM
does not know, whose count fails and is taken as a pass. The keys at work plus those
due stay within the bound (`Quota`): a count below the limit lets in one more, and
there are at most as many as threads; a user becomes unknown to LiteLLM at this point
only by a failed `EnsureUser`, which the bound counts.

*Lists.* A second invariant on top of `IInv`, `Lists`, follows what a list request saw
when it began. In `CredMgr` no row of a stored token appears later that is not a twin
(`RowsAppear`), so the one read holds all that are left. In `LlmKeys` no key comes back
(`KeysAppear`), so a key the caller still has is kept or left to be looked at, until
the loop has looked at all of them.

`DeleteAllSound` and `RevokeListSound` say what one page can do, for any number of rows.
Two more invariants follow the request, one for each. `Emptying`: what a deletion of all
tokens saw when it began is deleted or in hand, or else as many tokens as a page holds
are (`Handles`; `PageSize` is what a page holds), and an answer "ok" leaves nothing in
hand. `RevokeLists`: a token that was revoked when the list was asked for is in the
answer, unless the answer is a full page of rows that expire no earlier (`PageListed`),
and what is in the answer is revoked (`OnlyRevoked`), since a revocation is never taken
back.

*The number of long-lived tokens.* `QuotaSound` has two cases. With a quota below the
page limit the invariant `LongLivedQuota`, as for the keys, counts tokens and the
requests past the check (`Carrying`). The check brings their sum to at most the quota
plus the threads, since a page that can hold more than the quota is all there is
(`Checked`); an insertion turns one that carries into a token (`AddedCarried`, which is
why `MadeFor` says that a token is made for those who asked, and that one of a refresh
shows it); a revocation maps rows onto rows (`LongLivedMoves`). From the page limit on,
which is the shipped configuration ([Findings](#findings)), a page never holds more
rows than the quota, so the comparison never refuses anybody: `NoneRefused`.

*RefreshFlow.* That a refreshed token stays good rests on nobody else having it. `IInv`
therefore follows a refresh token from CILogon to the client: new in a request it is
good and `Private` (`NewOwn`), and so it stays in the client's hands unless the client's
own request has used it up or failed (`HeldOwn`). The token that every client of a
login got with it is not private, and nothing is claimed of it. A request that CILogon
answered is the only one for which it did so (`Spent`), hence one FABRIC token per
refresh token.

*Authorization.* The bound needs more than the count of late acts: for a killed token,
what it did plus the requests that are past the check with it (`Pending`) is at most
the number that were past it when it was killed (`LateBound`). Killing establishes it,
an act moves one from pending to done, and the check lets no request in for a token
that is killed (`KilledIsOut`, which rests on a token having one entry: `Entries`).
`OutSound` is a property of steps: with no good cookie, no grant and no request under
way that could make a token for the user, none of these comes back (a new login is left
out), and `OutStep` goes through the actions to say that none makes a token for the user.

*TokenClaims.* The invariant says of each step what is known so far, in terms of `past`
and not of the registry, which may be another by then: the project in hand is the one
asked for, or alone had the name at some time (`Chosen`, `Alone`), and the claims in hand
were so, holder and membership together (`SaidInv`, `Had`, `HadAsHolder`). A change only
adds to the past (`PastGrows`), and a call reads a registry that is part of it
(`PastInv`), so each keeps what is known. `ReadLdapInv` is where the exception for users without profile is
needed: without it the project asked for would be signed unchecked.

*CliFlow.* What makes the shared cookie harmless is where a tab stands whose parameters
are in it. `CookieInv`: they are those of an open tab's program, that tab has gone to
the login and lost them (`Back`, which it stays), and no page with its token was ever
shown (`EverShown`). So a request with parameters of its own makes nothing of the
cookie (`Merged`), one without takes all of it, and neither mixes two logins
(`AskInv`): hence `TokenAsAsked`. A token made from the cookie is then a first one, and
the page that delivers it clears the cookie and leaves a member behind, who is not
sent to the login again (`ShownInv`): hence `NotAgainAfterPage`. `OneTokenPerTab` counts:
the tokens and the tabs that can still make one (`Able`) are together no more than
tabs and faults (`CountInv`), and a login that is not `disturbed` is alone (`AloneInv`), so
its token is the only one. `Least` (a set of numbers has a least one, from the
well-foundedness of the order) gives the first active project its type.

*TokensPage.* A list can be older than the tokens only while a change is under way
whose answer will ask for the list again: `Latest` says so of the list on display and
of every list under way with the last number, with `Changing` for the exception. A
change that ends takes the exception with it and in the same step asks for a list
with a new number, of which nothing is known yet, or it failed and is `lost`.
`SelectedInv` does the same for the selected project, with `sel` for what the handler
of a change will ask for.

*Paging.* The proof needs no induction over the list. Ranks map a list one to one onto
1 to its length (`RankBijection`), so the page behind an offset has as many items as
the ranks say (`PageSize`); putting an item in moves others back by one, taking one out
moves them forward (`RankMoves`). Then, as long as nothing was taken out, all that was
there from the beginning has been given up to the offset (`ReachedInv`); as long as
nothing was put in, all that was given is before the offset and was given once
(`OnceInv`), so that what was fetched counts what was found; and a loop that stops, by
whichever rule, is then at the end of the list.

*WebSession.* `IInv` relates what the tab remembers (`Holder`, `NoLogin`), what it shows
(`Believed`) and what whoami will answer (`Current`) to the cookie, as long as no other
tab changed it and no late answer was stored; `Forgot` is why a page left by a click
does not take the old login along. For the timers: they were set after the cookie
was made (`SetLate`), and what a warning leaves to count down reaches the end of the
cookie's life (the assumption on `LeftFirst` and `LeftSecond`), so that a countdown is
over no earlier than the cookie.

*StoragePage.* Loads are numbered (`Numbered`), and the last one asked for of a list is
for the selected cluster (`Fresh`), because each switch of clusters asks anew; an older
answer may overwrite a newer, but then the list on display is not from the last
load, and the property says so. `Ticked` (only names of the list are ticked) is what
keeps a batch to names the operator saw.

## What is only model-checked

* Liveness (`Answered`, `Served`, `Ends`, `Settles`, `SpinnerEnds`): out of the prover's
  reach, as is everything with ENABLED.
* The statements under [Findings](#findings).

## What is not modelled

* Signatures, cookies and the claims that are carried along (email, scope, tags, names). In
  `CredMgr` token holders and roles are constants; that they change during a request is
  in `TokenClaims`, which follows one request and reads a list of projects in one piece
  (the pages of such a list are in `Paging`). The CSRF check (`dependencies.py` 31) returns
  True before it looks at anything.
* Filters of `GET /tokens` other than the owner, and tokens without a project, which take
  the same path as the others.
* `project_name`, `scope` and `comment` of a CLI login, which behave like `project_id`.
* LLM keys whose expiry cannot be read, keys that LiteLLM makes without this service,
  budgets, and the endpoint that lists models, which keeps no state.
* Of the web app: forms and their checks, the page that validates a pasted token, the
  LLM page (one list, built like the page of tokens), keyrings and the read-only
  storage view of users who are no operators, the proxy route, which hands calls on
  without state, and S3 calls that no page makes.
* The lock around LDAP's connection (each query is a step of its own), the list of ignored
  groups, and group names that contain a project's id by accident.
* Swagger models, response headers, version, logging and configuration: generated
  code, formatting, and start-up parameters, which are constants of the modules.
  nginx, Vouch and Postgres containers.

## Plan

Order: the token table and its endpoints first, since every other part relies on
what they promise; then the LLM keys, the other part with state in two places; then
what comes before the endpoints (logins, credentials) and after them (pages).

1. `TokenStore`, `CredMgr`, `TokenLedger`, `CoreRoles`, `LlmKeys`, with proofs: done.
2. The refinement of `TokenLedger` by `CredMgr`, proved: done.
3. `RefreshFlow`, with proofs: done.
4. `Authorization`, with proofs: done.
5. `CliFlow`, with proofs: done.
6. `Paging`, with proofs: done.
7. `WebSession`, `StoragePage` and `TokensPage`, with proofs: done.
8. `TokenClaims`, with proofs: done.

Next:

* `Authorization` over the steps of `CredMgr` instead of those of the ledger, so that the
  sweep of a validation may also come between check and act of another request.
