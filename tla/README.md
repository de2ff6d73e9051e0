# unifi-voucher-proxy in TLA+

The proxy stands between small clients (a kiosk, a phone, a script) and a UniFi
console. It holds the console's full-control API key; a client holds a token
that lets it list sites and list, create or revoke guest vouchers on some
sites, within ceilings and within a call quota. This directory specifies what
the proxy does with a request, checks it on small instances with TLC, and
proves the main properties for every value of the constants with TLAPS.

Source references are to the repository's `src/*.rs`, tests and README.

- [1. The system](#1-the-system): inventory of components, state, interactions
- [2. The modules](#2-the-modules): which models what, and how to read them
- [3. The runs](#3-the-runs): what TLC checks, with which bounds
- [4. The proofs](#4-the-proofs): what TLAPS proves, and along which argument
- [5. Where code and documentation disagree](#5-where-code-and-documentation-disagree)
- [6. Assumptions and omissions](#6-assumptions-and-omissions)
- [7. The plan](#7-the-plan)

## 1. The system

| component | state | operations | what makes it correct |
|---|---|---|---|
| Live (`state.rs`) | one `ArcSwap<Live>`: tokens, limits, limiters, console client; never changed in place | startup, `reload` on SIGHUP (store a new Live), `live()` | whoever loaded a Live keeps a consistent one; a rejected reload changes nothing |
| Caller extractor (`state.rs`) | none of its own | `from_request_parts`: address quota, headers, authenticate, expiry | nothing is verified before the address paid; no lapsed or unknown token is admitted |
| Authenticator (`auth.rs`) | cache of proven secrets, under a mutex | `authenticate` | cache is bounded, never changes an answer, failures pay the whole scan |
| Policy (`policy.rs`, `config.rs`) | none | `CreateVoucherRequest::parse`, `enforce`, `TokenConfig::effective_*`, `has_scope`, `allows_site`, `is_expired_at` | a token override never widens a global limit; every refusal names its real cause |
| Rate limits (`ratelimit.rs`) | a limiter per token name, one keyed by address | `check`, `check_ip` | no budget is overdrawn or leaks, however many threads spend it |
| REST routes (`routes.rs`) | none | five handlers, `not_allowed`, `healthz`, `finish` | scope and site before quota, quota before body, body before console; one record per exit |
| Upstream (`upstream.rs`) | connection pool, one per Live | `send` with a timeout, `validate_id` | the key goes to the configured console only; the client is told what happened there, as far as it can be known; every call ends |
| Audit log, metrics (`audit.rs`, `metrics.rs`) | log lines; counters under mutexes | `AuditRecord::emit`, `rejected`, `record_*` | log, counters and answers tell one story |
| GraphQL (`graphql.rs`) | none | queries and mutations that fan out into several calls | the same rules per field as per REST call |
| Models (`model.rs`, `filter_sites`) | none | `list_field`, `Site::list`, `Voucher::list`, the filters of both interfaces | no site outside the token's is shown; both interfaces read one body alike |
| Config (`config.rs`) | none | `load`, `validate` | no configuration becomes Live that breaks the other components; check-config says of a file what serve does with it |
| TLS (`tls.rs`) | none | `client_config`, the pinned verifier | only the pinned certificate is accepted, when one is pinned |
| Server process (`main.rs`) | listeners, signal tasks | `serve`, SIGHUP loop, graceful shutdown, one-shot commands | reloads never disturb requests; shutdown waits for open requests and nothing else |
| Secrets, errors (`secret.rs`, `error.rs`) | none | redacted printing; status and kind of each error | kinds are shared by the answer, the log and the counters |
| Fake controller (`bin/fake_controller.rs`) | test double | | not part of the program |

**How they interact.** The router applies the body limit and then runs the
Caller extractor, which loads the current Live, charges the peer address on it,
verifies the token with its Authenticator and builds a Caller: the token and
its effective ceilings. The `Json` extractor of a create then awaits the whole
body. The handler loads Live *again*, asks the Caller for scope and site,
charges the token on this second Live's limiters, parses and enforces the body
with the Caller's ceilings, and awaits the console through the second Live's
client. `finish` writes counters and audit line and shapes the answer. The client of a
Live owns a connection pool: a reload replaces both, while calls of the old one
go on. Around all of it `serve` starts the listeners and one task each for
SIGHUP, for the metrics listener and for graceful shutdown; the operator edits
the file, runs `check-config`, and sends signals whenever he likes.

**What is hard here.** Everything shared is shared by all of the runtime's
threads: limiters, cache, counters, Live. A reload can fall between the two
loads of one request, while its body trickles in, or during the Argon2 scan. A
token can lapse in the same places. The console may act on a call after the
proxy gave up on it. A client that leaves has its handler dropped wherever it
waits. A certificate is verified once per connection, and a pool, a redirect, a
reload and a new certificate lie between that and the sending of the key. The
file may be edited between a signal and its reading, and the process may die
anywhere. `PROJECT.json` lists these hazards line by line, each with the property
that would notice it going wrong, or with the reason why none does.

## 2. The modules

| module | what it is |
|---|---|
| `Policy` | pure decisions: ceilings, rate, scope, site, expiry, `Enforce`, `Authenticate` (first matching token) |
| `PolicyTable` | every edit of a limits section and one token, as a state machine over `Policy`; the promises about those decisions |
| `Authenticator` | `authenticate`, step by step, run by concurrent workers, with its cache |
| `Mediation` | the abstract promise: granted before the console acts, at most once, told the truth |
| `Caller` | what REST handlers and GraphQL resolvers share: configurations, scopes and calls, `TokenCap`, `Permits`, `Checked` |
| `Proxy` | the life of concurrent REST requests: admission, budgets, handlers, console, reloads, time |
| `ProxyProperties` | what `Proxy` satisfies, its refinement of `Mediation`, and the sentences of the documentation it does not keep |
| `GraphQL` | the life of concurrent documents, each with several fields that charge and call by themselves |
| `GraphQLProperties` | what `GraphQL` satisfies, and how each of its fields refines `Mediation` |
| `Configuration` | pure decisions about the file: `Loads`, `Builds`, `Accepted`, `ChecksOut`, and how the console has to prove itself (`Verifies`) |
| `Models` | pure readings of the console's JSON: `ListField`, `IdOf`, `FilterSites`, what each interface tells of the sites |
| `Upstream` | concurrent calls to the console: connection, pool, status, body, timeouts; reloads; a console that changes its certificate, and a stranger on the path |
| `UpstreamProperties` | what `Upstream` satisfies, its refinement of `Mediation`, and a sentence that is not kept |
| `Server` | the process: start, signals, reloads, shutdown, death, restart; the operator's file; clients' connections |
| `ServerProperties` | what `Server` satisfies |
| `MCPolicyTable`, `MCAuthenticator`, `MCProxy`, `MCGraphQL`, `MCUpstream`, `MCServer` | values for TLC |
| `TokenLemmas`, `CallerLemmas` | lemmas about least indices, `Enforce`, `TokenCap`, `Checked` and `Permits`, which several proofs cite |
| `PolicyTableProofs`, `AuthenticatorProofs`, `ProxyProofs`, `GraphQLProofs`, `ServerProofs`, `UpstreamProofs` | the theorems about each component |

`Proxy` and `GraphQL` extend `Caller`, which extends `Policy`, and use its
`Authenticate` where the code calls `authenticate`; `Authenticator` shows that the concurrent, cached code computes
that same operator (`AnswersAreTheScans`). So they compose: neither of them
need carry the cache. That both take `Permits`, `TokenCap` and `Checked` from
`Caller` is the code's own structure: `state.rs`, `ratelimit.rs`, `policy.rs`
and `upstream.rs` are shared, and the order in which they are asked is what
each of the two modules has for itself.

`Upstream` is the inside of the steps `Forward`, `Succeed`, `Fail` and `GiveUp`
of `Proxy`, and of `Send` to `GiveUp` of `GraphQL`: all three implement
`Mediation`, which is what the outer two rely on, and `CallsEnd` is why `GiveUp`
may be fair there. `Server` is the outside of `Reload`: `LiveIsSound` says
that a configuration that `Proxy` or `Upstream` meets is one that was accepted,
which is what their assumptions on `Configs` ask (`UpstreamAssumption`), and
`EveryRequestSettles` is why its `Respond` may be fair. `Server` and `Upstream`
take what a configuration is from `Configuration`, and `Upstream` what a body
is from `Models`.

### Policy and PolicyTable

A token is a record; an absent override is `None`. Numbers are compared and
never added, so u32 and u64 widths do not matter. `Enforce` keeps the order of
`policy.rs:55-91`; the first failing check names the refusal. `EffectiveRateLimit`
keeps the code's treatment of 0.

`PolicyTable` is a state machine so that a property can speak of *an edit*:
`TighteningNeverGrants` compares what is granted before and after.

### Authenticator

| action | code |
|---|---|
| `Call(w, s)` | a request enters `authenticate` on thread `w` |
| `Lookup(w)` | the first lock of the cache: hit returns, miss goes on |
| `Verify(w)` | one hash of the loop; the first match is kept and the loop goes on |
| `Unknown(w)` | the loop ended without a match: return, cache nothing |
| `Remember(w)` | the second lock: insert and return |

### Proxy

A request goes through `pc`:

    idle -Arrive-> arrived -PassIp-> verifying -Admit-> reading -ReadBody-> ready -Forward-> upstream -> done
                                               \ all but create --------->/

and every refusal leads to `done`; `Disconnect` leads to `gone`.

| action | code |
|---|---|
| `RefuseLength` | `RequestBodyLimitLayer` refuses a declared length |
| `Healthz`, `NotAllowed` | the two routes without a Caller |
| `RefuseIp`, `PassIp` | the extractor loads Live and charges the address (state.rs:162-181) |
| `RefuseToken`, `RefuseExpired`, `Admit` | headers, Argon2 scan, expiry, the Caller (state.rs:183-217) |
| `ReadBody` | the `Json` extractor has the whole body of a create |
| `Info` | the info handler: counted, not audited, not charged |
| `RefuseScopeOrSite`, `RefuseQuota`, `RefuseBody`, `Forward` | a handler from its load of Live to its refusal or to the send |
| `Succeed`, `Fail`, `GiveUp` | `Upstream::send` returns: 2xx, an error status, a timeout or no connection; then `finish` |
| `Disconnect` | the client closed its connection; hyper drops the future at its await |
| `Console` | external: the console carries out the call or refuses it, whenever it likes |
| `Reload` | `AppState::reload` succeeded: new Live, full budgets |
| `Replenish` | external: governor returns one unit to one budget |
| `Tick` | the clock that expiry is read from |

`cfgs` is the sequence of configurations that were Live, and `authGen` and
`liveGen` say which of them the extractor and the handler of each request
loaded. That keeps the two loads apart, which is where the hazards are.
`paid`, `sent` and the per-request `log` are history: who paid a unit of which
budget of the current Live, under which configuration and at what time the
request was sent, and what it left in log and counters. No guard reads `paid`,
`sent` or `log`.

**Step boundaries.** A step ends at every `await` (body, console) and around
the Argon2 scan. Within a step the code does one shared operation that can
conflict, the spending of one unit, which governor does atomically. A step
loads Live and spends on it; if a reload lands between the load and the
spending, the unit comes off a limiter that only holders of the old Live can
reach, so the step is as good as taken before the reload. The scan itself
blocks its thread without an await, so no disconnect can fall into it; reloads
and the clock can, and in the model do.

**Budgets.** `left[k]` is what budget `k` of the current Live still holds, for
token names and for peer addresses. `Cap` builds it like `from_config`: the
last metered token of a name wins, a rate of 0 builds no limiter. governor's
GCRA is a counter that starts at its quota and regains units one by one up to
it; *when* it does is left open, so the model allows every timing.

### GraphQL

A document goes through `pc`: idle, reading (it has a Caller, its body is
awaited), executing, done or gone. Each of its root fields goes through
`field`: waiting, calling, and then ok, failed or dropped.

| action | code |
|---|---|
| `Admit` | the Caller extractor of `graphql_handler`; what it refuses is in `Proxy` |
| `Unreadable` | the `GraphQLRequest` extractor refuses the body: a 400 of its own, no count, no line |
| `RefuseDocument` | the document does not fit schema, depth or complexity (graphql.rs:26-40) |
| `SkipAll` | `schema.execute` has nothing to do, as the directives of the document skip every field: answered ok and recorded at once |
| `Execute` | `schema.execute` begins on a document with fields |
| `Info` | the `info` resolver: no charge, no call |
| `RefuseScopeOrSite`, `RefuseQuota`, `RefuseInput`, `Send` | a resolver from its load of Live to its refusal or to the send |
| `Succeed`, `Fail`, `GiveUp` | its call returns; only success is counted |
| `Disconnect` | the client leaves; the handler is dropped with all of its fields |
| `Console`, `Reload`, `Replenish` | as in `Proxy` |

`Conclude` is the tail of `graphql_handler`: one count and one audit line for
the document. It runs in the step of the field that ends the execution, as
nothing is awaited between the two.

async-graphql is external and modelled by what the resolvers rely on: fields of
a query run concurrently, fields of a mutation one after the other, and as no
field of the schema is nullable, the first error ends the execution and drops
what still runs (`FailField`). Every field has its own `liveGen`: resolvers load
Live one by one, while the Caller, and so the ceilings, stay those of
`authGen`. The lapse of a token is left to `Proxy`: after admission nothing in
`graphql.rs` looks at the clock.

### Configuration and Models

A content of the file is a record of what `validate` and `Live::build` look at:
whether it parses, the API key, the tokens as far as they can be wrong (name,
hash, scopes), the scheme of the host in five spellings, the three TLS switches
and the pins as a set of certificates and one malformed entry. `Accepted` is
what `serve` starts with and a reload installs, `ChecksOut` what check-config
passes: two different pieces of code.

A JSON body is its shape: an array, an object, a scalar or nothing. An array is
the set of its items, as nothing depends on their order. Of an object `data`,
`vouchers` and the first other field that hold an array matter; each is a set of
arrays, empty or of one. An item of an array is what it has under `id` and
`_id`, with its JSON type, because REST compares a string under `id` only and
GraphQL takes a number or `_id` as well.

### Upstream

A call goes through `at`: idle, connecting, sent (the request and its key are
out), reading (the status is there), done.

| action | code |
|---|---|
| `Begin` | a handler calls a named function of its Live's client |
| `Reuse` | reqwest takes an idle connection of that client's pool; external |
| `Connect` | a new connection, verified by the mode of `client_config` (tls.rs:175); the peer is the console or a stranger |
| `ConnectFails` | refused, unreachable or not verified |
| `Respond` | external: the peer acts and answers, also after the proxy stopped waiting |
| `Headers` | `req.send().await` returns; redirects are off (upstream.rs:38) |
| `Body` | the whole body: the connection is idle again, and the end of `send` (`Conclude`) |
| `BodyLost` | `text()` fails, or what came is no JSON: an empty body (upstream.rs:102-107) |
| `TimeOut` | `connect_timeout` or `timeout` before the status; in the body it is a `BodyLost` |
| `Reload` | a new Live, whose client has an empty pool |
| `Rotate` | external: the console gets another certificate and closes its connections |

`presented` is the certificate the console has now, `link[c]` the connection
that call `c` used. A stranger presents any certificate whose key the console
does not have. That a peer acted is counted in `acts`: `send` is written so
that no call is sent twice.

### Server

| action | code |
|---|---|
| `Start`, `Bind`, `BindFails`, `Serve` | `serve` in its order: load and build, the two listeners, the metrics task, the reload task, the accept loop |
| `HandleHangup`, `HandleTerm` | a task is polled for the first time and installs its signal handler |
| `Hangup`, `Term` | a signal: kept for its handler, or, without one, the end of the process |
| `Take`, `Load` (with `Read`), `Store`, `Count` | the SIGHUP loop: `recv`, `Config::load` and `Live::build`, the store, `record_reload` |
| `Drain`, `StopMetrics`, `Exit` | graceful shutdown of the listeners; `serve` returns when its last connection is closed |
| `Kill` | external: SIGKILL, out of memory, a panic (the release build aborts) |
| `Dial`, `Accept`, `Request`, `Complete`, `Leave` | a connection, as hyper and its client move it |
| `Answer`, `AnswerPartly` (together `Respond`), `TakeRest` | a handler returns: its answer fits the socket, or the rest of it waits until the client reads |
| `Edit` | external: the operator saves another content |

A process without a metrics listener is one whose `stopper["metrics"]` never
gets its handler. As PID 1 of a container a signal without a handler does
nothing, which is a stuttering step. tokio keeps one pending signal of a kind:
several SIGHUPs may be answered by one reload, and `NoHangupIsLost` says that
this loses nothing. What a request does inside is in the other modules; here it
is owed by its client (`owing`), worked on, and answered; an answer too large for
the socket is `writing` until its client has read it. `tried` and `verdicts` are
history: what a reload read last, and how many of the contents it read were
acceptable and how many were not.

### Faulty variants

Next to a definition there may be variants such as
`MaySpendOneMore` or `GiveUpAndRetry`. No specification uses them. Each is a
plausible bug; substituted for the definition, it makes a named property fail,
which shows that the property can fail:

| property | variant | the bug |
|---|---|---|
| `AcceptsExactlyTheRange`, `TighteningNeverGrants` | `EnforceZeroValidityIsUnlimited` | a validity ceiling of 0 read as "no ceiling" |
| `OverridesNeverWiden` | `MaxVouchersTokenWins` | the override replaces the limit |
| `BadRequestIsTheRequestsFault` | `EnforceCountIsBadRequest` | a ceiling refusal reported as the request's own fault |
| `TypeOK` (auth) | `ReturnNext` | index off by one |
| `CacheBounded` | `RememberAnything` | failures are cached |
| `AnswersAreTheScans` | `RememberEarly`, `VerifyKeepingLast` | the scan stops at a match; the last match wins |
| `TypeOK` (requests), `LogonsWithinIpQuota` (quotas) | `MaySpendOneMore` | one unit more than the quota |
| `OnlyEntitledIsForwarded` | `PermitsAnySite`, `MaxValidityOfLimits` | `require_site` forgotten; a token's own validity ceiling ignored |
| `AnswerMatchesTraffic` | `SucceedOnAnyStatus` | the status is not looked at |
| `RecordsAgree` | `FinishOnlyOk` | errors return before they are counted |
| `CountedVouchersWereIssued` | `GiveUpCounting` | vouchers counted as asked for |
| `MediatesCalls` | `GiveUpAndRetry` | a timed-out create is sent again |
| `WorkWithinQuota` | `ChargePeersOnly`, `RefuseBodyForFree` | token units are checked but not taken; the ceilings are enforced before the charge |
| `BudgetsConserved` | `ReloadKeepingBudgets` | a reload carries the limiters over |
| `EveryRequestSettles` | `GiveUpOnAnswer` | no timeout on a silent console |
| `TypeOK` (documents) | `MaySpendOneMore` | one unit more than the quota |
| `CallsWithinQuota` | `ChargeOncePerDocument` | a document pays for its first call only |
| `AddsNoReach` | `GlobalCeilings`, `MaxValidityOfLimits` | a resolver enforces the global limits, not the Caller's ceilings; a token's own validity ceiling ignored |
| `MutationsStopAtAFailure`, `AnswerTellsTheDocument` | `SucceedOnAnyStatus` | the status is not looked at |
| `VouchersAreCounted` | `SucceedCountingLast` | vouchers are counted with the last field |
| `DocumentRecordedOnce` | `ConcludeOnlyOk` | a document with errors is not recorded |
| `ExecutingDocumentsGoOn` | `FailAlone` | the first error does not end the execution |
| `MediatesCalls` (documents) | `GiveUpAndRetry` | a call that timed out is sent again |
| `TypeOK` (console) | `TimeOutAndRetry` | a call that timed out is sent again |
| `KeyGoesWhereConfigured` | `HeadersFollowing`, `VerifiesLoosely` | redirects are followed; pins widen what public roots accept |
| `PinnedCallsReachTheConsole` | `ReuseAny` | one pool for the clients of all configurations |
| `OnlyRequestErrorsAreQuoted` | `ConcludeQuoting` | the console's message is looked at before the status |
| `MediatesCalls` (console) | `ConcludeBelow400` | a redirect counts as success |
| `InterfacesAgreeOnSites` | `ListFieldVouchersFirst` | the envelope of a create is looked for first |
| `ListsAreWholeOrEmpty` | `BodyLostKeeping` | what came of a body is read as if it were all |
| `CallsEnd` | `TimeOutConnecting` | only the connection has a timeout |
| `TypeOK` (server) | `BindSpawning` | the reload task starts before the server |
| `LiveIsSound` | `LoadUnbuilt` | what loads is installed before it is built |
| `ReloadsAreCounted` | `CountAccepted`, `RecordReloadSwapped` | a rejected reload leaves the loop before it is counted; the two counters are mixed up |
| `CheckConfigAgrees` | `AnyPins` | `validate` leaves the pins to the TLS client |
| `NoHangupIsLost` | `CountForgetting` | signals that came during a reload are dropped |
| `ShutdownEnds` | `DrainKeepingIdle` | idle connections are kept |

## 3. The runs

| run | instance | properties |
|---|---|---|
| `policy` | all limits with 0-2 vouchers, validity 0, 2, 4, rate 0 or 2; all overrides absent, below, at and above; requests around every bound; caps shrunk to 2 and 3 so that each can be the binding one | `AcceptsExactlyTheRange`, `OverridesNeverWiden`, `BadRequestIsTheRequestsFault`, `TighteningNeverGrants` |
| `auth` | three workers, four secrets; five token lists, with none, one, two and three entries, some with one secret twice | `TypeOK`, `CacheBounded`, `AnswersAreTheScans` |
| `requests` | two requests, each any of fourteen kinds, one of them longer than its token's own ceiling and inside the global one, two configurations, one reload, one clock tick | `TypeOK`, `OnlyEntitledIsForwarded`, `AnswerMatchesTraffic`, `RecordsAgree`, `CountedVouchersWereIssued`, `MediatesCalls` |
| `quotas` | two requests, a good create, a create over the ceilings with another token of the same name, or a list of sites, on an address quota of 2 and a token quota of 1 or the other way around; one unit regained per budget; a reload that turns the two quotas around; under `FairSpec` | `BudgetsConserved`, `WorkWithinQuota`, `LogonsWithinIpQuota`, `EveryRequestSettles` |
| `documents` | two documents, each any of eight: three mutations, two of two fields and one over its token's own validity ceiling, two queries of two, one with nothing left to execute, one that does not fit the schema, one unreadable; token quotas of 1 and 2, one unit regained, one reload that changes site and quota | `TypeOK`, `CallsWithinQuota`, `AddsNoReach`, `MutationsStopAtAFailure`, `AnswerTellsTheDocument`, `VouchersAreCounted`, `DocumentRecordedOnce`, `ExecutingDocumentsGoOn`, `MediatesCalls` |
| `console` | one call that lists the sites of a token of site a, one create; three configurations (pinned, public roots, plaintext), a reload between any two; two certificates of the console, the second from a public root, and a stranger with one of its own; five site lists and an error of the request; for a create a 2xx, a redirect, 400, 401 and 500, each error with a message; under `FairSpec` | `TypeOK`, `KeyGoesWhereConfigured`, `PinnedCallsReachTheConsole`, `OnlyRequestErrorsAreQuoted`, `InterfacesAgreeOnSites`, `ListsAreWholeOrEmpty`, `MediatesCalls`, `CallsEnd` |
| `server` | four contents, two good ones, one with a broken hash and one with a malformed pin; two clients; two reloads per process; any number of edits, deaths and restarts; under `FairSpec` | `TypeOK`, `LiveIsSound`, `ReloadsAreCounted`, `CheckConfigAgrees`, `NoHangupIsLost`, `ShutdownEnds` |
| `rate_raised`, `one_config`, `audited`, `unpaid_parsing`, `other_sites` | the smallest instance that shows it | see section 5 |

**Why the bounds are enough.** The only state two requests share is the
budgets and Live. Two requests are what it takes to race for one unit. The two configurations of `requests` differ in what matters to a
request in flight: the second revokes the kiosk's token and lifts every rate. A second
reload would only repeat the first, as nothing depends on a generation but
whether it is the one loaded. One tick makes the phone's token lapse; it can
fall before sending, before the expiry check, or after it. One unit regained,
in `quotas` and `documents`, shows that `refilled` is accounted for. For every
invariant, and for the refinements of `Mediation`, the proofs of section 4 close
what these bounds leave open.

In `documents`, two fields are what it takes for one to fail while the other
waits, calls or is done, and two documents with two calls each overdraw a quota
of one and a quota of two. The reload can fall between any two fields, and
takes the token's site away. The token has ceilings of its own below the
global ones, on count and on validity, so that the two can be told apart, and
lacks one scope.

In `console`, two calls are what it takes for one to leave a connection that
the other finds, under its own configuration or under another. With two
configurations in a row a call of the first can connect, be in flight and end
after the second is Live. The certificates are one that only a pin accepts, one
that both may accept, and one that neither may. The bodies are the
documented list, alone and next to the envelope of a create, the older and mixed
identifiers, and the two shapes that only `list_field` knows; the theorems of
section 4 hold for every body. In `server`, two contents that are good tell
whether Live is the old one or the new one, and the two bad ones are those that
`load` alone, or the building alone, would let through. Two reloads are a
signal that arrives while another is answered. A second client matters for
shutdown, which must not end with the first.

`CHECK_DEADLOCK FALSE` is set for `Proxy`, `GraphQL` and `Upstream`: their
requests, documents and calls are finitely many, and once all are done and the
bounds are reached nothing is left to do. `Server` never stops, and is checked
for it. Requests are interchangeable, so are workers and documents, and all
three are symmetry sets, except in runs that check liveness.

**Fairness.** `FairSpec` asks `WF(Handle(r))` of each request: an enabled step
of the proxy's own is eventually taken. tokio polls a woken task, the handlers
hold no lock across an await, and `reqwest` is built with `timeout`
(upstream.rs:34), so the wait for a console ends by itself: that is why
`GiveUp` is part of `Handle`. Bodies, disconnects, the console, reloads,
refills and the clock get no fairness: none of them has to happen.
`EveryRequestSettles` therefore stops at `reading`, where the code does wait
for the client without a limit of its own. In the same way `FairSpec` of
`Upstream` is fair to each call's own steps, timeouts included, and asks nothing
of the peer, the operator or the pool. `FairSpec` of `Server` is fair to the
reload loop, to the steps of shutdown and to `Respond`: a handler comes to its
end by the two properties just named (`EveryRequestSettles` once the body is
there). They say nothing of the writing of what it returns, so whether an answer
fits the socket is left open, and `TakeRest` is the client's. Starting, clients,
signals, edits and restarts get none either, so `ShutdownEnds` excepts the two
waits without a limit: a client that began a request and does not finish it, and
one that does not read an answer too large for its socket. `axum::serve`
(main.rs:162-167) has a timeout for neither. Where a run checks a document in execution,
`ExecutingDocumentsGoOn` is an invariant instead: something of it is always
under way that a timeout ends, or may start.

## 4. The proofs

`tlapm` checks every theorem below, to the last leaf, with no assumption but the
named `ASSUME`s of the modules: types of the constants, names disjoint from
addresses, finitely many requests, configurations that were accepted.

| theorem | what it says, for all values of the constants |
|---|---|
| `PolicyTableProofs`: `AcceptsExactly`, `NeverWider`, `BadRequestStays`, `TighteningIsMonotone` | the four properties of `PolicyTable` |
| `AuthenticatorProofs!Typing` | types |
| `AuthenticatorProofs!CacheIsInvisible` | what is cached, and what a call returns, is the first match of a scan, for any number of workers and tokens |
| `AuthenticatorProofs!CacheStaysBounded` | the cache never outgrows the token list |
| `ProxyProofs!Typing` | types; in particular no budget goes below zero |
| `ProxyProofs!Conservation` | every unit of every budget is accounted for |
| `ProxyProofs!QuotaBoundsWork`, `IpQuotaBoundsLogons` | the requests of a token that its scope, sites and quota let through, whether they reach the console or are refused over their body, and those of an address whose token is looked at, are at most its quota and what was regained |
| `ProxyProofs!OnlyEntitled` | what reaches the console had a token in force, its scope and its site, and stays inside the token's and the global ceilings on count and validity |
| `ProxyProofs!AnswersAreTrue` | a refusal means nothing was sent, an ok that the console acted |
| `ProxyProofs!EveryExitIsRecorded` | a handler that ends by itself counts its request once, and says in log and counter what the client was told |
| `ProxyProofs!OnlyIssuedAreCounted` | vouchers are counted for what the console carried out only, and as many as were asked for |
| `ProxyProofs!ImplementsMediation` | `Proxy` implements `Mediation` |
| `GraphQLProofs!Typing` | types; no budget goes below zero |
| `GraphQLProofs!Quota` | the calls of all fields of all documents stay within what their budget gave |
| `GraphQLProofs!Reach` | every call has the scope and the site of its token and stays inside the token's and the global ceilings of its Caller's configuration, on count and validity |
| `GraphQLProofs!InOrder` | a mutation of any length stops at its first failure |
| `GraphQLProofs!Answers` | without errors everything was carried out, with errors nothing was called or exactly one field failed |
| `GraphQLProofs!Vouchers` | the counters are the calls that came back and the vouchers they made |
| `GraphQLProofs!RecordedAsAWhole` | one count and one line for a document that ends, none for any other |
| `GraphQLProofs!NoHang` | a document in execution has a call out, or a field that may start |
| `GraphQLProofs!ImplementsMediation` | every root field implements `Mediation` |
| `ServerProofs!Typing` | types; a reload task is there only with a server |
| `ServerProofs!LiveStaysSound` | what serves was accepted as a whole, whatever is saved and whenever it is read |
| `ServerProofs!EveryReloadCounted` | a rejected reload leaves Live alone, an accepted one replaces it; `ok` counts the acceptable contents that were read, `failed` the others |
| `ServerProofs!CheckConfigIsRight` | check-config and serve accept the same files |
| `UpstreamProofs!Typing` | types; no call is carried out twice |
| `UpstreamProofs!KeyStaysWhereConfigured` | the key goes to the configured host, in the clear only where that is allowed, else to a certificate that is trusted |
| `UpstreamProofs!PinsReachTheConsole` | with the console's certificates pinned, only the console is called |
| `UpstreamProofs!QuotedForRequestErrors` | the console is quoted for errors of the request only |
| `UpstreamProofs!SitesAreTheTokens` | of any body with the documented list, both interfaces tell exactly the token's own sites |
| `UpstreamProofs!ListsStayWhole` | all of a list, or nothing; never a part |
| `UpstreamProofs!ImplementsMediation` | a call implements `Mediation` |

**The argument for Proxy.** None of these properties is inductive alone. That
a forwarded create was within its ceilings, for instance, rests on what the
handler checked under `authGen`'s configuration, while `Reload` changes `cfgs`.
The inductive invariant `IInv` is a conjunction of

- `TypeOK`;
- for each request `Local(r)`: what its `pc` says about `authGen`, `liveGen`,
  `wire` and `answer`; past the extractor it is `Admitted`, with a token that its
  secret proves and that had not lapsed when the request was sent; before its
  handler nothing is on the wire; a forwarded one is `Entitled`;
- `Paying(r)`: under the current Live, a request that had its token looked at has
  paid for its address, and one that its scope and sites let through, and its
  quota did not turn away, for its token;
- `AnswerOk(r)`: the pairs of `answer` and `wire` that can occur;
- `BudgetsConserved`.

`Paying` is the link: it says that the requests to be counted are among those
that paid, and `BudgetsConserved` says how many can have paid (`WithinBudget`). The per-request conjuncts
mention no other request, so each action has a lemma about the one request it
moves; `Frame` and `Assemble` carry the rest over. `ReloadStep` is the one that
disturbs them all: generations only grow, so what was said about
`cfgs[authGen[r]]` stays as it was, and nobody has paid the new Live anything.

What a request leaves behind is a second invariant, `LogInv`, proved on top of
`IInv`: a request that has not ended in its handler has an empty log (`Blank`),
and one that has ended there has the one count and the last line that fit
`answer` (`Recorded`). A request ends but once, so that `Write` always starts from a blank log
(`FirstWrite`): nothing of `RecordsAgree` depends on how many exits there are,
only on each of them passing `finish`.

**The argument for Authenticator.** While a worker scans, `found[w]` is the
first match among the first `tried[w]` hashes (or 0), and every cached index is
the first match of all. `TokenLemmas` gives least elements of finite sets of
indices. The bound of the cache is an injection from cached secrets to indices.

**The argument for Server.** A reload has four steps, between which the operator
edits and the process may die. `Decided` says what each step knows of the
content read: about to be stored or stored means accepted, rejected means not.
`Tallied` says that the counters are the verdicts on what was read, less the one
in hand.
That a rejected content is not Live follows from `LiveIsSound`, so the two are
proved together. Everything else of the process leaves the variables of a reload
alone (`AsideKeepsIInv`) or ends it (`HaltKeepsIInv`), and `Dormant` says that
only a process that is up has a handler that could revive it.

**The argument for Upstream.** The decision whom to trust is made when a
connection is established, and used whenever the key is sent on it. `Established`
says of a connection that it names a configuration that was Live, and is
`Authentic` under it: its host, and a certificate that its mode of `client_config`
accepts from a peer that has the key. All connections, pooled or in use, are
(`Pooled`, `Carried`); `Reload` only appends to `cfgs`, so they stay so, and
`Rotate` only takes some away. A call uses one of its own generation. `Truthful`
relates what is returned to what was received; `Mediation` follows because an
`ok` has a status 200 behind it, and a peer acts at most once, with its answer.

What is read off a body is proved in two halves. For any value that `Models`
can build, `ListedOfPlain`, `IdsOfPlain` and `RestOfPlain` say what each
interface makes of a body whose items carry an `id` that is text; no state is
involved. `Truthful` then ties that body to the call: what is returned with an `ok` is the
body of the peer's reply or `Null`. A list is never in part because those two
are the only choices, whatever was lost on the way.

**The argument for GraphQL.** Documents take the place of requests, and each
has a number of fields that no constant bounds. `IInv` is types, `BudgetsConserved`
and for each document `Sound`:

- `Progress`: what its `pc` says about its fields, its Caller and its answer.
  While it executes no field has failed, since a failure ends the execution in
  the same step; once it is over at most one has;
- `FieldSound(d, i)`: which `field` and `wire` go together; a field that made a
  call was allowed to, and has the generation it was charged under;
- `InTurn`: in a mutation, whatever is not `waiting` has only `ok`s before it;
- `RecordedOnce` and `Tallied`, which are inductive as they stand.

`liveGen` of a field is the receipt of its charge, so the calls of a token are
among the places that paid its budget, and `Quota` follows from
`BudgetsConserved` as in `Proxy`. The charge itself is the one step that touches
shared state, and `ChargeBalances` accounts for it. `Tallied` states a sum over
the fields as the end of a sequence of running totals: `TallyMore` extends that
sequence by the field that came back, and no induction over the fields is
needed. `NoHang` looks at the first field that is not `ok`: it is called, or in
a query it is waiting, or in a mutation it is waiting with only `ok`s before it.

A field refines `Mediation` with what its resolver returns in the place of what
a client is told, as a client hears of the first failure only. The step that
drops fields moves the one that failed: a dropped field was neither decided nor
told, or was decided and stays untold.

`StepEffect` reduces every action to what it does to one document, `Frame` and
`Assemble` carry the others, as in `Proxy`. That what passed `Permits` is
allowed (`PassedIsAllowed`) is proved once for both, in `CallerLemmas`, over
the definitions both take from `Caller`.

**What TLC alone checks.** `EveryRequestSettles`, `CallsEnd`, `NoHangupIsLost` and
`ShutdownEnds`, because liveness under fairness is out of the prover's reach,
and the counterexamples of section 5. `Authenticate` is a `CHOOSE`, not a recursion, so that it could be
proved about.

## 5. Where code and documentation disagree

Each of these runs ends in a counterexample of the named property, which is a
sentence of the repository.

| run | the sentence | what the code does |
|---|---|---|
| `rate_raised` | "A token may tighten it, never raise it." (README.md:155, of the rate) | the smaller of token rate and global rate wins, and 0 is the smaller: it then means no limit (config.rs:263) |
| `one_config` | "A request either sees the whole old configuration or the whole new one" (state.rs:22-24) | extractor and handler load Live separately (state.rs:162, routes.rs:276) |
| `audited` | "with every call written to an audit log" (README.md:14-15) | a handler dropped at its await never reaches `finish` (routes.rs:297) |
| `unpaid_parsing` | the quota is spent "*before* anything parses client-supplied data", as "it also has to bound the work a caller can make the proxy itself do" (state.rs:127-130) | the `Json` extractor parses the body of a create before its handler runs (routes.rs:273): what is no JSON is never paid for, and what is JSON is parsed over the quota too |
| `other_sites` | "A token scoped to specific sites must not learn that other sites exist." (routes.rs:216) | `filter_sites` returns a body without an array under `data` as it is (routes.rs:221-223); `list_field` reads such bodies, and GraphQL filters them |

More were met that have no run of their own:

- "Each token gets its own limiter" (ratelimit.rs:26-27): limiters are keyed by
  name, and names need not be distinct (ratelimit.rs:43), so two tokens of one
  name share the limiter of the later one. `quotas` has two such tokens, and
  `BudgetsConserved` and `WorkWithinQuota` hold of what they share;
- a GraphQL document is parsed and checked against the schema before any of its
  fields is charged (graphql.rs), which state.rs:127-130 excludes as well;
- `finish` counts a call of the console for every request, refused ones too
  (routes.rs:371), where metrics.rs:110 has "Calls made to the controller"; a
  GraphQL resolver counts only the calls that succeed (graphql.rs:145);
- `describe` goes by the first word of a document, so a mutation behind a comment
  is recorded as a query (graphql.rs:263), where audit.rs:6-7 has "it records
  the acting token, the operation, and the outcome";
- over its quota a request leaves two audit lines, one from `charge` and one from
  `finish` (state.rs:138), where audit.rs:3 has "One line per request";
- `info` turns a u32 ceiling into an `i32` (graphql.rs:132), so that one past
  2^31 - 1 is shown as a negative number;
- `normalize_host` knows schemes in lower case only: `HTTPS://console` becomes a
  host named `HTTPS` (upstream.rs:213), where `is_plaintext` does look at the
  host in lower case (config.rs:137);
- "`serve` catches this when it builds the TLS config" (config.rs:389-390, of an empty
  list of pins): `client_config` would build one that accepts no certificate
  (tls.rs:181-192), so `validate` is the only place that does catch it;
- `fetch-fingerprint` follows redirects (tls.rs:224-228) and prints the certificate
  that it saw last;
- a create whose 2xx loses its body is told ok, and issued vouchers are counted,
  without their codes.

`one_config` is milder than it sounds: `OnlyEntitledIsForwarded` and the quota
theorems hold across the mixture, as they are stated over the configuration
that each half loaded.

## 6. Assumptions and omissions

Assumed of the outside world:

- SHA-256 is injective on the secrets presented, and a hash verifies only the
  secret it was made from;
- a 2xx of the console means that it did what was asked;
- the server has the peer's address (main.rs starts it with connect info);
- governor's budgets are atomic and hold at most their quota.

Left out, with the reason:

- texts: error messages, `short_reqwest_error`, `clamp`, the rendering of metrics,
  redaction, spellings of fingerprints, names and codes in answers. A request
  body is one of none, oversized, unreadable, malformed, vouchers; a voucher
  name is blank or not, and a number of characters;
- figment's merging, serde and the defaults: a file is missing, does not parse or
  parses, and the environment may hold an API key;
- handshakes and signatures, which are rustls's; a peer that presents a certificate
  has its key;
- what a reload does not replace (bind address, body limit, playground): they are
  fixed in the router, and no model has them;
- budgets over several configurations: a reload or a restart fills all of them,
  and the code sets no bound over it;
- HTTP/2 and several requests on one connection at once;
- a body that outgrows the limit while it streams is refused by the same
  extractor as an unreadable one and counts as unreadable;
- path segments that do not decode, which axum refuses by itself;
- the sweep of idle addresses (ratelimit.rs:70-72): it forgets full budgets only;
- `ProxyError::Internal`: no REST request can reach it, as serialising a
  parsed request does not fail;
- of GraphQL: depth and complexity limits are part of whether a document fits;
  sub-selections of a field, which call nothing; the texts and extensions of
  errors; the values of `info`; the SDL route, which records as `Info` does;
- the metrics listener and the playground, which only read;
- the one-shot commands hash-token, fetch-fingerprint and healthcheck, the fake
  controller, tests and build files.

## 7. The plan

In the order of what they add:

1. **Refinements**: that `Proxy`'s `Authenticate` step is what `Authenticator`
   computes, and that `Server`'s `Take` to `Count` are the atomic `Reload` of `Proxy`.
2. **The rest of the code**: `assess_strength` (its bounds are numbers), the sweep of
   idle addresses, the one-shot commands.
