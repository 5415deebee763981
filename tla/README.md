# TLA+ specifications of mountainKing

mountainKing is a GraphQL gateway in Go: clients send GraphQL queries and
mutations, the gateway executes them on data sources (StarRocks, ClickHouse,
Prometheus), caches results, limits rates, and serves SQL templates that can be
edited while it runs. This directory models the parts of it that keep state,
run concurrently or fail in parts, checks them with TLC on small instances, and
proves the most important safety properties with TLAPS for every value of the
constants.

Paths below are relative to the repository.

## 1. The system

| Component | State | Operations | What is hard |
|---|---|---|---|
| Circuit breaker, `internal/datasource/circuit_breaker.go` | state, failure/success/half-open counters, time of opening | `AllowRequest`, `RecordSuccess`, `RecordFailure` | results arrive in another state than the one their call was admitted in |
| Data source manager, `internal/datasource/manager.go`, `reconnect.go` | sources, their status, one goroutine per reconnect loop | `Init`, `Get`, `HealthCheckAll`, `CloseAll`, the loop | status written by several goroutines from observations made outside the lock; shutdown during a connect; float backoff |
| Adapters, `internal/adapter/*` | connection, available flag, breaker | `Connect`, `Execute`, `ExecuteWrite`, `HealthCheck`, `Close` | which outcomes are reported to the breaker; how errors are wrapped |
| Retry, `pkg/retry` | attempt | `Do`, `IsTransient`, `IsBusiness` | classification of wrapped errors, backoff against cancellation |
| Memory cache, `internal/cache/memory.go` | LRU entries, byte counter | `Get`, `Set`, `Delete`, `DeleteByPrefix`, `Clear` | the counter is kept beside the LRU, in steps of its own |
| Cache layer, `internal/cache/layer.go` | backend, singleflight group | `GetOrLoad`, `ClearByDatasource`, `ClearAll` | a load, an expiry and a clearing of one key at the same time; a failing Redis |
| Template engine, `internal/template` | registry with hashes, semaphore, cooldown, watcher's timer | `Execute`, `Reload`, the watch loop | reload while queries run, broken files, two kinds of reloaders |
| Data loader, `internal/graphql/dataloader` | pending requests and a timer per source | `Load`, `Close`, timer callback | a callback that waits for the mutex while its timer is "stopped" |
| Fallback rate limiter, `internal/ratelimit/fallback.go` | flag, `sync.Once`, probe goroutine | `Allow`, `Stop`, the probe | flag and Once change in separate steps |
| Local and distributed limiters, `internal/ratelimit/local.go`, `distributed.go` | token buckets (in memory, in Redis by a Lua script) | `Allow`, cleanup | several instances with clocks of their own, cleanup of buckets in use |
| Mutation pipeline, `internal/graphql/resolver/mutation*.go`, `internal/adapter/starrocks/mutation_*.go` | switch of the configuration, audit log | the steps of `executeMutation` | order of checks, positions of parameters, audit of half-failed writes, invalidation after a write |
| Table queries, `internal/graphql/resolver/query.go`, the SQL query builders | none | `starrocks` resolver, `Build`, `BuildCount` | pages and counts of a table that others write; cursors |
| Prometheus, `internal/adapter/prometheus` | available flag, connection gauge | `Connect`, `Execute`, `HealthCheck`, `Close` | the gauge on every path; points and warnings |
| Configuration and start, `internal/config`, `cmd/server` | configuration, components built | `LoadConfig`, `ValidateConfig`, `main` | validation and construction read the same settings by different rules |
| Hot reload of the configuration, `internal/config/hotreload.go` | snapshot, callbacks | `OnChange`, watch loop, `reload` | readers of the snapshot during a reload, debounce |
| Authentication failure limiter, `internal/middleware/auth_failure_limiter.go` | failures and bans per address | `Check`, `RecordFailure`, cleanup | windows and bans that end while being extended |
| Middleware chain, `internal/middleware` | concurrency slots | one decision per request | slots on every way out, keys behind proxies, exemptions |
| Health endpoints, `internal/health` | none | liveness, readiness | readiness calls `HealthCheckAll`, concurrently with the loops |
| Server and main, `internal/server`, `cmd/server` | start and stop order | the shutdown sequence of `main` | components closed while handlers still run |
| Template rendering, `internal/template/{validator,funcmap,renderer,sanitizer,pagination}.go` | none | `validateParams`, the functions of a template, `sanitizeSQL`, `wrapWithPagination` | several readings of one value: validator, function, scanner, database |

How they interact: a GraphQL resolver goes through the middleware (limiters,
authentication, concurrency), calls the template engine or the data source
manager; the template engine calls the cache layer, whose loader calls an
adapter; adapters call their breaker; readiness requests run health checks,
which write the manager's status and the breaker; the watcher and the
`reloadTemplates` mutation reload the engine and clear the cache layer; the
Redis client is shared by cache and limiters.

What makes them correct: no availability or breaker state is wrong for ever
after an outage; limits (probes, memory, entries, batch size, concurrency)
hold under every interleaving; every caller returns; cached data does not go
back in time and comes from the current template; nothing stays open after
shutdown. `PROJECT.json` lists the hazards line by line with the properties
that cover them.

## 2. Modules

| Module | Models | Granularity |
|---|---|---|
| `CircuitBreaker` | the breaker with callers that read, write and check health through it as the adapters do | one action per method of the breaker (they hold its mutex), the backend's answer in between |
| `FallbackLimiter` | `Allow`, degradation, the recovery probe, `Stop`, a Redis that fails and returns | one action per atomic operation |
| `GrantBudget` | abstract: what a rate limiter promises about each key | |
| `TokenBuckets` | the local limiter with its table and cleanup, the Lua script called by instances with clocks of their own; both implement `GrantBudget` | one action per `Allow`, cleanup and tick |
| `AuthFailures` | `Check`, `RecordFailure`, cleanup | one action per call, and a clock |
| `Gateway` | the middleware chain, the handlers, and the shutdown beside them | one action per middleware that can stop or park a request |
| `DataSourceManager` | `Init`, reconnect loops, `HealthCheckAll` by concurrent readiness requests, `CloseAll` | one action per critical section and per call of an adapter |
| `BackoffLoops` | the reconnect loop's duration arithmetic, with the range of `time.Duration`, and `retry.Do` around a driver or an adapter | one action per attempt, per unit of waiting and per end of a wait |
| `DataLoader` | `Load`, flush by size, timer, cancellation, `Close` | one action per critical section and per delivery |
| `HotReload` | the watch loop, its debounce timer, reloads that may overlap, the callback of `main` | one action per step of `reload` between which another goroutine can run |
| `Mutations` | the four mutations from the arguments to statement, parameters, write, audit and invalidation | composes with `HotReload`, which flips the switch; one action per exit of the pipeline and per step of a write |
| `MemoryCache` | all operations over a model of the LRU library | one action per call of the LRU, callback and atomic counter update |
| `CacheLayer` | the steps of `GetOrLoad` with singleflight and of clearing, over a memory cache or over a Redis whose calls can fail (variable `backend`) | one action per backend call |
| `CachedReads` | readers of `CacheLayer` while the data changes | composes `CacheLayer` with a loader that reads a versioned source |
| `TemplateEngine` | `Execute`, `Reload`, watcher, with `CacheLayer` as its cache | composes `CacheLayer` with a loader that runs the SQL of the template looked up |
| `TemplateRendering` | validation and conversion of parameters, template functions, the SQL scanner, pagination, the resolver's page | one action per stage, the scanner one character (or pair) at a time |
| `TableQueries` | resolver, query builders of both SQL adapters, a database that executes the statement, a client that pages | one action per statement and per answer |
| `MetricQueries` | the Prometheus adapter under concurrent calls | one action per half of a round trip |
| `Startup` | loading, validation and construction of the components | one action per stage of `main` |
| `HttpServer`, `DataAccess`, `Service` | put parts side by side | a behaviour belongs to the part `about` names |
| `MC_*` | values of constants that a `.cfg` cannot write | |
| `CountingFacts` | lemmas that the proofs share: least and largest numbers, sizes of intervals, powers of two | |
| `CircuitBreakerProofs`, `DataSourceManagerProofs`, `CachedReadsProofs`, `TemplateEngineProofs` | theorems and proofs about the module of that name | |
| `HttpServerProofs` | theorems about `FallbackLimiter`, `TokenBuckets`, `Gateway`, `AuthFailures` and `HttpServer` | |
| `DataAccessProofs` | theorems about `DataLoader`, `BackoffLoops`, `Mutations` and `DataAccess` | |
| `ServiceProofs` | theorems about `Startup`, `TableQueries`, `MetricQueries`, `TemplateRendering`, `MemoryCache` and `Service` | |

`HttpServer`, `DataAccess` and `Service` check parts together that share no
state: an initial choice (`about`) says which part takes steps, so their
invariants and properties are those of the parts, each over all its behaviours.
Parts that do share state are composed for real: `Mutations` with `HotReload`
(the switch), `CachedReads` and `TemplateEngine` with `CacheLayer` (the entries
and the flight table), the requests with the shutdown in `Gateway`.

`map` in `PROJECT.json` gives the source lines of every definition. Data is
abstracted: a cached value or a template text is its version, an entry's size is
a small number, an address is a model value, a statement is its clauses and its
parameters, a token is the facts that are checked about it. Only in
`TemplateRendering` is SQL a sequence of characters, since its properties are
about how characters are read. History variables, used only by properties:
`streak` and `probes` in `CircuitBreaker`, `newest` and `floor` in
`CachedReads`, `overlapped` in `MemoryCache` and `HotReload`, `grants` in
`TokenBuckets`, `failedAt` and `banEnd` in `AuthFailures`, `forced` in
`Gateway`, `seen` in `TemplateRendering`.

Operators named `X_Y` (`AllowHalfOpen_OffByOne`) are mutants of `X`: plausible
mistakes, one for every property, that the property detects. No specification
uses them.

Points of modelling a reader may want to check:

* **Time** is a nondeterministic event (the open duration elapses, a timer
  fires, a TTL passes, the cooldown ends), except in `BackoffLoops`,
  `TokenBuckets` and `AuthFailures`, which compute with it.
* **Tokens** in `TokenBuckets` are measured in the time that refills them, so
  that the arithmetic stays in the integers. The script sees whole seconds of
  the caller's clock; `Slack` is how far two readings may be apart, and the
  assumption `Slack <= Window` says the clocks agree within a window. The
  script's ttl is twice the whole seconds of the window (`distributed.go:98`),
  so it need not be longer than the window; `TtlOutlastsWindow` assumes that it
  is. For a window under a second it is not: the ttl is 0, `EXPIRE` deletes
  every bucket as it is written, and nothing is limited.
* **Sources** of `DataSourceManager` are SQL sources or Prometheus (`Http`).
  Prometheus needs no connection to execute, and its health check sets the
  available flag itself, so the properties about connections are claimed of SQL
  sources. A health check runs in the context of its readiness request, which
  the client may cancel; the check then fails although the source is up.
* **Undefined conversion.** A `float64` out of range converted to `int64` is
  implementation-defined in Go; `BackoffLoops` and `TemplateRendering`
  (`int64Of`) choose between the results of amd64 (the most negative integer)
  and arm64 (the largest one).
* **sync.Once** in `FallbackLimiter` is replaced by the probe while callers may
  use it; the model lets callers see the old or the new one in either order.
* **A limiter's answer** in `Gateway` is left open: what the limiters decide is
  the subject of the modules beside it.
* **Bytes** in `MemoryCache`: `Bytes` sums the lengths of the held values by
  counting their units, a definition without recursion that the proofs can
  reason about. A single value longer than the whole limit empties the cache
  and is stored all the same; `ValuesFit` excludes it from `MemoryBounded`.
* **The database** of `TableQueries` orders rows that compare equal in any way
  it likes, and rows are appended between any two statements. That of
  `TemplateRendering` returns any rows of the result, a choice of its own for
  every page, unless the client orders by a column that is unique
  (`UniqueColumns`).
* **PromQL** of `MetricQueries`: an expression is known by how it ends, which
  decides where the matchers that `appendLabelMatchers` appends come to stand:
  on the only selector, on the last of several, or behind a bracket, where they
  do not parse (`Parses`, `Selectors`, `InForce`: what Prometheus makes of it).
* **ReadSQL** in `TemplateRendering` is a reference reading of StarRocks
  literals, written independently of the scanner, against which `ReadsAsMeant`
  compares.
* **The breaker is not wired**: no code outside tests calls
  `SetCircuitBreaker`, so the adapters run without one
  (`official_document/architecture.md:78` says otherwise). `CircuitBreaker`
  shows what the breaker does once it is set.
* **Nor are** the data loader, `RecordFailure` of the failure limiter,
  `executeParallel`, `internal/server/batch.go`, `middleware/authz.go` and the
  `Server` type's own start and shutdown.

## 3. Runs

All with TLC; the constants are in the `.cfg`.

| Run | Checks | Result |
|---|---|---|
| `breaker` | counters count what they say, probes are bounded, late results do not move an open breaker, and once the backend stays healthy the breaker closes for good, with health checks that report to it, as ClickHouse's do | holds |
| `server` | *fallback*: at most one probe, a live probe switches back. *buckets*: both limiters implement `GrantBudget`. *failures*: a ban lasts its duration, and is earned by failures of one window (`BansAreJust`). *requests*: `LimitsHold`: slots are accounted for on every way out, probes are served when slots are gone, keys follow callers (the name of a token or API key, or the last address that is no proxy of a one-line `X-Forwarded-For`), depth counts fragments; sources close after the drain (or its timeout), shutdown and requests end | holds |
| `manager` | an available SQL source is connected, an unconnected one has a loop; a source of either kind that stays up becomes available for good while somebody goes on asking for readiness and no longer cancels; every loop ends after `CloseAll` | holds |
| `reads` | one load of a key at a time; reads never go back in time; only loaded data is cached; every `GetOrLoad` returns | holds |
| `template` | no template is lost, set back to an older text or to older fragments by a reload, with templates and fragments that are broken and repaired (a broken fragment takes effect as a missing one); the registry comes to hold what is on disk; every query ends and returns its slot | holds |
| `data_access` | *loop*: the first 30 waits of a reconnect loop never shrink, `Do` retries transient errors only, waiting twice as long each time. *loader*: `OnItsWay`: pending requests have a flush to come, a request is in one place; every `Load` returns. *mutation*: the statement writes the columns and values of every row, and selects by every filter, as the client gave them; the audit log, when on, fits what happened; the switch settles on what the file says, for a file that is edited in place or renamed over, without reloads that overlap and without the environment | holds |
| `service` | *start*: Redis is there when needed, a serving process does what its configuration says (`StartsAsConfigured`). *tables*: rows answer the filters as the client wrote them, a walk by offset whose pages are not cut in silence sees every row, pages and totals agree. *metrics*: the gauge is exact; a query of one selector is answered only with its filters (those with `NOT_REGEX` apart) in force by name, kind and value, with an entry per series and a warning per point that is no number. *templates*: the database reads the literals of what the client gave, integers beyond int64 apart, what validation accepts renders, a walk over pages is given as many rows as there are, and every one of them if it orders by a unique column; totals are exact. *memory*: the byte counter and the two limits (`DualLimits`) | holds |
| `limiter_stuck` | the limiter returns to Redis | violated |
| `backoff_overflow` | the 31st wait | violated |
| `retry_adapters` | `Do` around the errors the adapters return | violated |
| `cursor_paging` | paging with `endCursor` moves on | violated |
| `mutations_toggle` | mutations switched on without restart work | violated |

A property that says one thing in several parts (`LimitsHold`, `DualLimits`)
is a conjunction of named definitions, each with its own comment. The type
invariants of the modules with proofs are part of their inductive invariants
(section 4) and are proved rather than checked.

Each violated run checks one statement of a document or comment, which
`findings` in `PROJECT.json` quotes beside the line that contradicts it.

### Observations not stated as runs

Found while choosing the properties above.

Caches, sources and limiters:

* With its defaults (one probe, two successes) a breaker that only calls feed
  cannot close: a slot is not given back and nothing resets HALF_OPEN. The
  health checks of ClickHouse rescue theirs; those of StarRocks report nothing
  (`starrocks/adapter.go:296-319`): with `HealthFeeds = FALSE` and these defaults
  TLC finds `RecoversWhenHealthy` violated, although `course/09-resilience.md:49`
  says that enough successes close the breaker.
* A health check that pinged before a reconnect and records after it marks a
  connected source unavailable (`manager.go:192`). The next readiness request
  repairs it, hence `ProbedSpec`; without one the status stays wrong. So does a
  readiness request that is cancelled: `health.go:99` hands its context down,
  the ping fails, and a source that is up is marked unavailable
  (`manager.go:189-197`). `RecoversWhenUp` is about the time when requests are
  no longer cancelled.
* Prometheus' health check makes its source available without `Connect`
  (`prometheus/adapter.go:509-541`) while its reconnect loop goes on.
* Tokens without `sub` all have the rate key `jwt:` and share one bucket
  (`auth.go:165`, `ratelimit.go:78`). Of several `X-Forwarded-For` lines only the
  first is read (`auth_failure_limiter.go:145`): a line of the client in front of
  the proxy's own one decides the key.
* `CloseAll` closes `stopCh` and does not wait for the loops: a `Connect` under
  way may succeed after its adapter was closed, and stays open.
* `Clear` zeroes the byte counter after `Purge`; a `Set` in between is never
  counted, so `MemUsedIsExact` excludes a `Clear` that overlaps. Concurrent
  `Set`s all find room before any takes it, so `MemoryBounded` allows a value
  per further goroutine.
* With Redis a `Get` that fails, a load, and a `Set` that fails leave an older
  entry behind for the next reader: `MonotonicReads` is claimed for memory only.
* `RedisCache.Clear` is `FlushDB`: with one Redis for cache and limiter,
  clearing the cache gives every client a full bucket (`Reset` of
  `GrantBudget`).
* `RecordFailure` bans from the second failure on, whatever the threshold; with
  a threshold of 1 the first failure bans nobody.

Templates:

* `Reload` clears the cache before it replaces the registry, and queries in
  flight keep the old text: a result of the old SQL can be cached afterwards
  until its TTL ends. An edit of a shared fragment changes no template's hash
  and clears nothing.
* A broken template keeps its last text, as
  `official_document/sql-template-engine.md:565` says; a broken shared fragment is
  skipped and the templates are registered again without it
  (`loader.go:54-62`, `242-274`), so queries that use it fail to render.
* An empty result is cached with the full TTL: its JSON is never zero bytes
  long, which is what the short TTL is for.
* An optional parameter that is absent and has no default is a render error
  (`missingkey=error`), also under `default`, which
  `official_document/sql-template-engine.md:249` shows for this case; an empty
  `string[]` passes validation and fails in `safeInList`; a float default of
  `NaN` or `Inf` is taken by `parseDefaultValue` and fails in `safeFloat`.
  `ValidatedRenders` names these three and excludes every other.
* An enum on a `string[]` compares the printed list and so refuses everything;
  defaults are not checked against the constraints.
* `first: -1` asks for no rows and cutting the page panics; `first: 0` always
  has a next page.
* A whole float beyond int64 for an integer parameter (1e19 in the JSON of the
  parameters) is accepted by `convertInt` (`validator.go:128`) and by `safeInt` and
  reaches the SQL as the least or the greatest int64; `ReadsAsMeant` excludes it.
* A page has an `ORDER BY` only if the client passes `orderBy`
  (`pagination.go:57-76`), so the pages of an unordered walk may repeat rows and
  miss others; their counts still add up. Without `first` and with a
  `max_result_rows` of 0 or less nothing is cut and there is no warning, yet the
  statement asks for that many rows and one.

Queries and mutations:

* ClickHouse cuts a limit above 100000 (`maxQueryLimit`) without saying so, and
  the cut page looks like the last one; only a positive `max_result_rows` below
  it adds the warning that tells (`CutsAreTold`; nothing validates the setting).
  A result cut to `max_result_rows` has a warning but no next page; the walk of
  `WalkSeesEverything` stops at a warning. ClickHouse clamps a negative offset
  to 0, so a client that adds the length of its page to it gets rows twice.
* Every `IN` and `NOT_IN` of the `starrocks` query is refused: `buildINClause`
  takes nothing but a list (`starrocks/query_builder.go:225`), and the schema has
  `value: String!` (`starrocks.graphql:30`). `course/graphql-query-cookbook.md:100`
  and `official_document/graphql-api.md:34` say that they work.
* A metric entry has no labels, the instant value 0 and no range values:
  the resolver (`query.go:300-369`) asserts other Go types than the adapter
  produces. `official_document/getting-started.md:98` and `:106` ask for them. The
  model computes the answer like that; `MetricsAnswered` is about the entries and
  warnings that do arrive.
* `NOT_REGEX` filters (`official_document/graphql-api.md:41`) are left out of what is
  sent; in a query of several selectors the filters restrict the last one only;
  behind `rate(x[5m])`, which the same document shows with a filter (`:116-121`),
  they do not parse and the query fails.
* A write that was applied and whose answer is lost is logged as failed, and no
  cache is cleared; template results are never cleared by a mutation (their
  keys do not start with `cache:{ds}:`). A batch of no rows passes validation.
  With the audit log off (`logging.audit.enabled`) nothing is logged.

Configuration:

* Only `mutations.enabled` has a callback; `README.md:81` and
  `official_document/configuration.md` also name log level, rate limits and TTL.
* `SwitchFollowsFile` excludes three cases in which the switch does not follow.
  The update of a ConfigMap volume swaps a link of another name, and the watch
  loop passes over its event (`hotreload.go:145`, against the comments at 41-42
  and 99-100). Two reloads that overlap, which needs a reload longer than the
  debounce interval, can leave the older value in force. And a value from the
  environment stands until a reload finds a change in the file, which then
  undoes it, since the reloader's viper instance has no environment (`:57`;
  `config.go:311-312` says that the environment overrides the file).
* What validation accepts may still not start: an empty JWT algorithm, a key of
  another algorithm, a fractional memory size. A method with blanks around it is
  accepted and means no authentication; `ServesAsConfigured` names this case.

### Bounds

* Two goroutines per role, three where it matters: every race in these
  components is between two goroutines, a third one lets two of them be in a
  window the other opened (two followers of a load, two callers that degrade).
* Breaker: failure threshold 2, two probe slots, three successes to close, so
  that slots run out before the successes are complete, as with the defaults.
* Memory: four keys, three entries, three bytes and values of one or two: one
  insertion evicts several entries, concurrent insertions meet the entry limit,
  and three long values would exceed what `MemoryBounded` allows two threads.
  Threads are symmetric, and so are the keys with the prefix and those without
  it. When an entry expires is left open: any `Get` may find it expired.
* Edits, outages, backend flips and versions are capped by `MaxEdits`,
  `MaxOutages`, `MaxFlips`, `MaxVersion`: two of each let the second happen
  while the first is still being handled.
* Buckets: a window of two seconds, clocks half a second apart, twelve half
  seconds (longer than the time after which an idle bucket is dropped), a table
  for one key less than there are.
* Failures: threshold 2, a ban longer than the window, and time for a window, a
  ban and another window.
* Requests: two connections for one slot, and eight configurations each with
  the requests that tell its cases apart.
* `template` has a watcher callback, the mutation, and three queries for two
  slots; its workloads either edit files or query, with one query beside edits.
* `manager` has a source of each kind and one that `Init` skips; `MaxFaults`
  counts outages and cancelled requests together.
* `BackoffLoops` uses the real default values (5s, 60s, 2^63-1 ns) in units of
  5s; 30 attempts are the last in range.
* `DataLoader`: three loads, two timers, batches of two. `Mutations`: one call
  at a time (calls share nothing but the switch) beside two reloads and two
  edits; workloads for every check of the pipeline.
* Tables of up to three rows and a client that reads up to four pages, with two
  result rows at most and a `maxQueryLimit` of three, so that pages are below,
  at and above both. Metric queries with none, one and two filters on
  expressions of every kind, answered by up to three series with points of
  every kind.
* Template results of 0, 1, 3 and 4 rows with pages of one to five, ordered by a
  unique column, by another one, or not at all; SQL texts of up to nine
  characters, which holds a literal with an escape on both sides; numbers 0, 1,
  1.5, the ends of int64 and the first number beyond it.

### Fairness

* Weak fairness of a goroutine's own next step: Go's scheduler is preemptive,
  calls to backends have timeouts (`context.WithTimeout`, driver timeouts),
  timers fire. So for the steps of a request in `Gateway`, of the shutdown, of a
  mutation and of a reload.
* Strong fairness of `ReloadSteps` in `TemplateEngine`: `sync.Mutex` hands the
  lock to a waiter that has starved for 1 ms.
* Strong fairness of arriving requests in `CircuitBreaker` and of readiness
  requests in `ProbedSpec`: assumptions about the clients (an orchestrator's
  readiness probe goes on for ever), named as such.
* Strong fairness of a reconnect loop taking its stop: the `select` of the loop
  chooses at random between a fired timer and the closed `stopCh`, so it cannot
  miss the latter for ever.
* Never assumed: that a backend recovers, that a request arrives or is
  cancelled, that a signal comes, that somebody calls `Stop`, `Close` or
  `Clear`.
* `CHECK_DEADLOCK FALSE` where the modelled life ends: after `CloseAll`, after
  the exit of the process, after the last bounded attempt or page, when time is
  up, when every `Load` has returned.

## 4. Proofs

Checked by TLAPS for all values of the constants allowed by the named
assumptions of the modules, which TLC evaluates for the constants of the runs.
An inductive invariant stands at the end of its component's module under
"Inductive invariant", where TLC has checked it on the instance of the run, or
in the proof module if only the proof uses it.

`CountingFacts` holds what the other proof modules share. The library's
induction theorems take an operator as a parameter and cannot be used here, so
induction is stated of a set of numbers (`Induction`, from the least element of
a set), and what a loop over a list computes is derived from it once: that the
recursion behind `SumFunction` and `FlattenSeq` has a solution, what a sum up to
a position is (`SumUpTo`), where the elements of each list stand in a flattened
one (`FlattenFacts`, `FlattenSlice`), what is left of a list when elements are
skipped (`KeptFacts`), and how the lengths count what was kept (`SumCounts`,
`FlattenCounts`). The modules write their loops with these two operators for
that reason.

`CircuitBreakerProofs`:

* `Inv` is inductive: the failure count of CLOSED is the number of failures
  since the last success and below the threshold; the probes still out are no
  more than the slots counted (`SlotsCountProbes`); fewer successes than needed
  were counted in HALF_OPEN. The relation between slots and probes is what makes
  `ProbesBounded` inductive: the counter alone says nothing of the calls that
  are out. `OpenIsSticky` follows from a case split over the actions and needs
  no invariant.

`DataSourceManagerProofs`:

* `AvailableIsConnected`, `UnconnectedHasLoop` and `StatusCoherent`, all of SQL
  sources beside any number of Prometheus ones, are inductive
  together with `WorkInProgress`: a loop that has not connected has no
  connection beside it and no health check that is about to report success for
  its source, so a result recorded late cannot mark an unconnected source
  available.

`CachedReadsProofs`:

* `SingleLoader` from `FlightsAreLoads` (the flight table names exactly the
  goroutines that load).
* `MonotonicReads` rests on `FreshLoads`: a value that has been loaded and not
  yet returned is at least as new as what was returned and what is cached for
  its key, because load and store are both inside the singleflight section.
  Stated of the memory backend; the other two hold with either.
* `CachedIsLoaded` with `StoresLoaded`: a goroutine about to store holds what
  its loader returned, and no other step puts a value in.

`TemplateEngineProofs`:

* `RegistryAdvances` from `ReloadInv`: one goroutine holds `reloadMu`
  (`OneReload`); what it has read, templates and fragments, follows the registry
  it is going to replace (`ReloadFollows`), and neither is ahead of the disk.
  A fragment that does not load is missing from what was read, and takes effect
  like that. Without the lock the
  second conjunct is lost as soon as another reload replaces the registry.

`HttpServerProofs`:

* *Fallback limiter.* `AtMostOneProbe` and `UsedOnceHasProbe` are inductive
  together with "a live probe means a used Once": a second probe can start only
  through an unused Once.
* *Token buckets.* Both limiters implement `GrantBudget` (`LocalBudget`,
  `SharedBudget`), for any keys, instances, rates, skews and table sizes. The
  mapping gives a key what its bucket would hold if it were refilled now (for
  the shared one: by the fastest clock), and a full budget if it has none.
  `BucketInv` (a bucket holds at most a window and was not written after its
  last request, up to the lead of the fastest clock) is what makes forgetting
  safe: an idle bucket has refilled before the cleanup or the ttl takes it
  (`TtlOutlastsWindow`), so that dropping it is a stutter.
* *Requests and shutdown.* `LimitsHold` and `DrainedBeforeClose` from
  `GatewayInv`. `WayIsKept` says what the place of a request implies (no slot
  before it asked, no answer before the end); `ShutdownIsOrdered` that behind a
  drain that was not forced nothing is open. Two lemmas are about the functions
  of the chain: `ClientIPIsLastUntrusted` (reading the first line of
  `X-Forwarded-For` from its end finds the last address that is not a trusted proxy) and `DepthCoversFields`
  (a document whose levels, fragments included, are within the limit nests no
  more fields than that).
* *Failed authentications.* `BansAreJust` from `FailureInv`: a record counts no
  more failures than there were since it began, and carries the last ban of its
  address until that is over (`RecordsAreRight`), so what the cleanup drops
  carries no ban that lasts.
* `ServerInvariants` and `ServerKeepsBudgets` carry all of these over to
  `HttpServer`, which the `server` run checks.

`DataAccessProofs`:

* *Data loader.* `OnItsWay` from `LoaderInv`: an entry of the timers map names a
  timer that will flush its source (`MapNamesTimers`), batches share neither
  requests nor callers (`BatchesApart`), a caller waits exactly while its request
  is pending, in a batch or in its channel (`CallersWait`).
* *Retry loops.* `RetriesBackOff` from `DoBacksOff`, which counts the calls and
  the waited units by the attempt; `DoRetriesTransient` says that `Do` around a
  driver keeps what `retry_adapters` finds broken around the adapters.
  `ReconnectWaitsAsDocumented` and `LoopWaitsNeverShrink` assume `DoublingFits`
  (the product of every attempt is in the range of a duration): with the first
  thirty attempts of the default configuration it holds, as the constants of
  `data_access` show, and `backoff_overflow` shows that it cannot be dropped.
* *Mutations.* `AuditTellsTheTruth` with `AuditSoFar` (what the log says at each
  step of a call under way) and `OnlyAdmittedWrites` (a statement on its way was
  built from arguments that passed every check, of a caller who may write,
  whatever the switch says by now), which is a theorem of its own.
* *Statements.* `StatementsDoWhatWasAsked` for filters, rows and lists of any
  length compares every column and value of SET and of every inserted row, and
  the column, operator and values of every condition, with the arguments: the parameters behind the placeholders of the i-th condition are a cut
  of the parameter list, and the sum of the marks in front of it is where the
  values of the i-th filter begin in the flattened values, behind those of SET.
  It rests on `WellFormed`, what the GraphQL schema makes of the arguments.
* `AccessInvariants` carries them over to `DataAccess`.

`ServiceProofs`:

* *Start.* `StartsAsConfigured` from `BuiltAsConfigured`: after each stage of
  `main` the components built so far fit a configuration that was found valid.
  It holds for every value of `Configs`.
* *Table queries.* `PageAnswersQuery` and `WalkSeesEverything` from `QueryInv`.
  `MatchingIsWanted` shows that WHERE with its bound parameters selects the rows the
  client's filters mean, for any list of filters with null ones among them.
  Between the two statements and between pages rows are appended, so
  `ReadAnswersQuery` relates what was read to the table of then, a prefix of the
  table of now (`TableGrows`), whose wanted rows are a prefix of today's; a walk
  has seen the wanted rows from its start to its present offset (`WalkSoFar`),
  and a short page reaches the end of what the client knew. Only the arguments of
  the schema are assumed (`StarRocksArgs`), and nothing of `max_result_rows` and
  `maxQueryLimit`; IN and NOT_IN never reach the database. A walk whose `first` is
  above `maxQueryLimit` on ClickHouse is covered only if its cuts are told
  (`CutsAreTold`). The walk has to start at an offset
  that is not negative: ClickHouse clamps a negative one to 0, and the second
  page would repeat rows of the first.
* *Prometheus.* `ConnsCounted`: the gauge moves with the set of calls that have
  a connection open. `MetricsAnswered` from `MetricInv`: a body is a response
  until it has been converted, and what is sent for a call under way is what the
  two loops that skip filters make of its arguments (`QueriesUnderWay`); the set of
  these matchers is the set of filters, by name, sign and value (`MatchersFacts`),
  and the warnings are a sum over the series. Labels and values of the entries
  are not part of it.
* *Template pages.* `TemplateWalkSeesEverything` from `RenderInv`: a walk from the
  start that was never told of a truncation has been given as many rows as its
  offset says, and if it orders by a unique column exactly the rows in front of
  it (`TemplateWalkSoFar`). That is all the proof uses of the database
  (`RowsFacts`): how many rows a page has, and which ones if the order is unique.
  It holds for any templates and any `max_result_rows`; without `first` only for a
  positive one.
* *Template parameters.* `ValidatedRenders` from `RenderedFromValid`: what is
  rendered has passed `validateParams`, so every parameter with a schema has a
  value of its type (`ParamsAreValued`, along the list of schemas), and a pipeline
  whose functions take that type gives a text (`PipelineTakes`, along the list of
  functions). It assumes `TemplatesFit`: parameters have different names, defaults
  are what the loader parses, and each pipeline fits the type of its parameter.
  The loader checks only the defaults; the rest is up to the template's author.
* *What the database reads.* `OneStatement` from `ScannedAsRead`, for any SQL and
  any templates: turn by turn the scanner of `sanitizeSQL` is inside of a string
  exactly where the database is (`InStep`), although the scanner takes a pair such
  as `\'` or `''` in one turn and the database reads it in two. So what the
  scanner lets through has no open string and no separator outside of strings.
  `PlainSQL` leaves out quoted identifiers and optimizer hints, which the reader of
  the model does not know. `QuoteReadsBack` is the other half of `ReadsAsMeant`:
  what `quote` makes of any text is read, behind any SQL that ends outside of
  strings, as one literal equal to the text without NUL.
* *Memory cache.* `MemUsedIsExact` and `DualLimits` from `MemoryInv`. At every
  moment `memUsed` and what threads have promised to add equal the bytes held
  and what is still due to be put in or given back (`Accounted`), and a thread
  that has found room leaves at most one value per other thread above the limit
  (`Allowed`). Both need that no two threads set one key (`SetsApart`, what the
  singleflight group of the cache layer guarantees) and that a `Clear` nobody
  overlaps finds the list empty when it zeroes the counter (`ClearAlone`). The
  lemmas on `Total` (adding, dropping and changing one element) stand before it.
* `ServiceInvariants` carries them over to `Service`.

Only model-checked:

* all liveness properties, since fairness and ENABLED are beyond the prover:
  `RecoversWhenHealthy`, `RecoversWhenUp`, `LoopsStop`, `CallsReturn`,
  `CatchesUp`, `QueriesEnd`, `ProbeSwitchesBack`, `RunsToTheEnd`, `LoadsReturn`,
  `SwitchFollowsFile`;
* `ReadsAsMeant` as a whole: it depends on what the texts of the templates mean to
  the database (a text may open a comment that a later one closes), which the
  requests of the run give as data. `TemplateOneStatement` and `QuoteReadsBack`
  are the parts of it that hold of any template;
* the violated statements, as far as they are not restricted as above.

## 5. Plan

Done: the modules above, and the proofs of every safety invariant and action
property of the runs but `ReadsAsMeant`, of which two parts are proved. Next would
be `ReadsAsMeant` for templates whose texts are closed (no string or comment
reaches from one into the next), and what the readers of a template share with
the reloads.

## 6. Not modelled

* Generated GraphQL code; logging, metrics, tracing and the masking of log
  fields (nothing reads them back).
* Query normalisation and cache keys of `internal/cache` (a tokenizer on
  characters, without a caller outside the tests).
* JSON, gob, signatures of tokens, the syntax of PromQL and of text/template:
  libraries, or conversions no property is about. Of PromQL the classes the
  validator tells apart are modelled.
* `executeParallel`, `authz.go`, `batch.go` and the `Server` type's start and
  shutdown: not used by the program.
* Body limit, compression, request ids and security headers: each decides on one
  request alone and changes no state.
* The directory bookkeeping of the template watcher, DSN building, scanning and
  conversion of column values, default values of the configuration.
