# logmcp: formal model

TLA+ models of logmcp, a Go server that gives AI assistants authenticated access to
log files (and to extensions, macros, databases, documents) over the Model Context
Protocol. The models follow the code under `src/`; where a document and the code
disagree, the model does what the code does, the disagreement is listed under Findings,
and the properties that hold stop short of it.

Every module is parsed with SANY, the runs are checked with TLC, the theorems of the
`*Proofs` modules are checked with TLAPS (`tlapm`).

## The system

| component | state it keeps | operations | who calls it |
|---|---|---|---|
| `auth.RateLimiter` (`internal/auth/ratelimit.go`) | failure timestamps per address, own mutex | `IsBlocked`, `Record`, `PruneAll` | `auth.Middleware`, ticker of `Server.Start` |
| `auth.VerifyCache` (`internal/auth/cache.go`) | token -> entry with expiry, own mutex | `Verify` | `auth.Middleware` |
| `logs.Manager` (`internal/logs/logs.go`) | whitelist, blacklist, journald flag, cached listing, RWMutex | `IsAllowed`, `FileInfo`, `ReadFile`, `SearchFile`, `ListAccessible`, `Update` | tool handlers, `Reload`, macros |
| `mcp.Server` (`internal/mcp/server.go`) | config, token entries, limiters, verify cache, notify service, dispatcher, pools, RWMutex | `New`, `Reload`, `buildHandler`, handlers, `Start` | `cmd/root.go`, net/http |
| dispatcher, rpc, clitool (`internal/extensions`) | a lazily made Redis client; the request list and reply keys in Redis | `Call`, `Close`, `List`, `Verify` | extension tools, macros |
| the tool registry (`registerTools` in `server.go`) | the tools that are served, filled once by `New` | `toolEnabled`, `trackTool`, `AddTool` | mcp-go, for every `tools/call` |
| `macro` | loaded macro files; the results of a run while it lasts | `LoadDir`, `Run` | macro tools |
| `database` | a pool of connections, a cache of schemas | `Get`, `Close`, `Invalidate` | database tools |
| `rag` | chunks as vector sets, ID sets and metadata keys in Redis | `Drop`, `Add`, `Search` | `logmcp rag`, `rag_query` |
| `notify` | the parsed telegram.yaml | `Send`, `BotsForUser` | notify tools |
| config and token commands (`internal/config`, `cmd/token.go`) | `config.yaml` | `Load`, `BackfillComments`, `token add/remove/renew` | server start, reload, operator |
| setup, quickstart, service, security, check, client config | none that outlives the command | one-shot commands | operator |

How they interact. A request enters `buildHandler`'s `protected` handler, which copies
`cfg`, `tokenEntries`, both limiters and the verify cache under `Server.mu`, and runs
`auth.Middleware` on the copies: address blocked? header? token known (static list, or
cache and then the authenticator command)? An accepted request reaches mcp-go, which
calls `httpContextFunc` (under `Server.mu` again) and a tool handler; most handlers use
the one `logs.Manager`, which has its own lock. `SIGHUP` makes a goroutine of `serve`
run `Reload`, which takes `Server.mu`, replaces the objects one by one and, still holding
it, calls `logs.Manager.Update`. `SIGTERM` makes a goroutine of `Start` shut the HTTP
server down and close the dispatcher and the pool.

What is hard about it:

* two locks, one taken inside the other by `Reload`, and a directory scan under the
  inner one;
* objects replaced by a reload while requests go on using the old ones;
* check-then-act across unlocked intervals: `IsBlocked`/`Record`, cache lookup/store,
  `IsAllowed`/`open`;
* time: a sliding window pruned lazily, entries that expire, a listing cached for 30 s;
* signals that merge, a process that ends while a goroutine still works;
* state outside the process: log files replaced by links, a token store that revokes,
  a config file that several programs rewrite, Redis lists and vector sets, databases
  that hang.

The hazards that follow from this are listed, each at its line and with the properties
that cover it, in `PROJECT.json`.

What makes each component correct:

* rate limiter: a verdict depends on the failures of the window only; a block ends; the
  overshoot by concurrent requests is bounded; memory is given back;
* verify cache: nobody is accepted long after the revocation; nobody waits for a command
  of another token; the mutex is always given back;
* log manager: what is served is allowed, under the lists of the call's time; the cached
  listing belongs to the present lists; every call is answered;
* server: what a request copied fits together; admission on the authority of its own
  config; lists never older than the config that admitted; the last edit is applied;
* shutdown: requests are drained before the process ends;
* dispatcher: a caller gets the result of its own call, in time or an error; what was
  given up does not start any more; no Redis client is left open;
* readers: the lines asked for, each once, in order, wherever the source ends;
* RAG: a finished index run leaves exactly the present files, whatever it found; a query
  outside a run is exact;
* tool registry: a name has one handler, the one its place in the order of registration
  gives it, whatever macros and extensions are called;
* macros: a run answers from its own parameters and results, and reads nothing the lists
  do not allow, wherever a path comes from;
* notifications: bot, token and chat of one message come from one telegram.yaml, and a
  message is posted at most once;
* database tools: a refresh is fresh, an answer not too old, a hanging server no one
  else's problem;
* config file: no command locks everybody out; a command changes what it says only.

## Modules

| module | models | state and actions |
|---|---|---|
| `SlidingWindow` | abstract specification of a rate limiter | `recent`, how many failures of an address are at most so many ticks old, exact at every moment |
| `RateLimiter` | `ratelimit.go` with the requests of `auth.Middleware` | `failures` is the map of timestamps, as ages; `Consult` = `IsBlocked` and the branch on it, `Fail` = the paths that end in `recordFailure`, `Finish` = the answer, `PruneAll` = the ticker, `Tick` = time |
| `VerifyCache` | `cache.go` with its callers, the authenticator behind it | `left` is the remaining life of an entry, `mu` the mutex; `Lock`, `Hit`, `Miss`, `Decide` (the command), `Store`, `Drop`, `Reply` are the steps of `Verify`; `Revoke`, `Grant` are the authenticator's side |
| `Calls` | the tool calls that run at once | |
| `FileAccess` | abstract specification of the log manager, for one call | `access`, where the call is; `since`, the settings in force since it began; `content`, what it was served |
| `LogManager`, `MCLogManager` | `logs.Manager` under concurrent tool calls | `acl`, `cached`, `left`, `writer` are the Manager's fields and lock, `target` what a path resolves to now; `Check`, `Decide`, `Clean`, `Copy`, `Open` are the steps of reading or inspecting a file, `Lookup`, `Acquire`, `Scan`, `Stat`, `Probe`, `EndScan` those of `ListAccessible`; `Open` and `Scan` also fail, for a file that has gone or cannot be opened |
| `Server`, `MCServer` | `Reload` on SIGHUP against the request path | `srv` holds the fields under `Server.mu`, `caches` every verify cache made, `reload` the goroutine, `req` the requests; `Lock`, `UpdateAcl`, `SwapCache`, `Unlock` are the steps of `Reload`, `Snapshot`, `Resolve`, `Command`, `Store`, `Context`, `Access`, `StartScan`, `EndScan` those of a request |
| `Macro` | `macro.Runner.Run`, its four kinds of steps and the templates, over `FileAccess` | `run`, per call the definition, the parameters, the position and the results; `BeginRead`, `ServeRead`, `EndRead`, `NoRead` are `execReadFile`, `CallExtension`, `Journalctl`, `UnknownStep` the other steps, `StartRun`, `EndRun` the handler around them |
| `Notify` | `notify_send`, the service and its reload | `telegram` is telegram.yaml, `service` the server's field, `note` the calls; `Pick` is the locked copy and the choice of the bot, `Post` the HTTP request |
| `Tools`, `MCTools` | `registerTools`, calls of the tools in the registry, `Reload` as far as they notice it; composes `Macro`, `Notify` and `FileAccess` | `setup`, what `New` found; `registry`, filled by one `Register` per registration, in their order, before the server is `Serving`; `reload` under `Server.mu` in three steps: config, lists, service |
| `Shutdown` | `Start`'s signal goroutine, the main goroutine, open requests | the listener, `httpSrv` and the process |
| `ToolCall` | abstract specification of an extension call | how each call has ended, whose result it got, what has been started |
| `RpcChannel` | `Dispatcher.Call` and `Close`, `clitool.Call`, `rpc.Call`; Redis, its client and the worker as the code uses them | `Dispatch`, `Connect` (the lazy client), `Spawn`, `Collect` (subprocess), `Push`, `Pop`, `GiveUp`, `Break` (Redis) are a caller's steps; `Take`, `Execute`, `Reply`, `Discard`, `ExpireReplies`, `Tick` happen around it |
| `Readers` | the line loops of `ReadFile`, `ReadJournald`, `SearchFile`, `SearchJournald` | the log is delivered line by line; `Ring` (tail), `lines` (head), `Search` (`results`, `before`, `pending`) are the loops' variables; `ScanTail`, `ScanHead`, `ScanSearch` the loop bodies, `EndOfSource`, `Fail`, `Return*` the ways out |
| `Chunker` | `chunk.go` | functions, no state: `Gathered` is a turn of the loop of `splitLargeSection` and `Parts` the loop, `SplitByRunes` the fallback, `Pieces` the loop of `splitSections` |
| `RagIndex`, `MCRagIndex` | `Store.Drop`/`Add`/`Search`, `logmcp rag index` | `redis` is the vector set, the ID set and the metadata; `ix` the index run: `Start`, `Drop` (SMEMBERS) with the commands of its pipeline `DeleteVectors`, `DeleteIds`, `DeleteMetadata`, `IndexFile` with those of `Add`, `AddVector`, `AddId`, `AddMetadata`, then `Continue`, or `Abort` at any of them; `Refuse` is a command that Redis refuses while those behind it in the pipeline are carried out; `search` a query (`Query`, `LookUp` or `LookUpFails` for each hit, `Answer`) |
| `SchemaStore` | `pool.go`, `schema.go` and the handlers of `db.go` | `cache`, `mutex` per connection, `pool`; `Invalidate`, `Hit`, `Miss`, `Query`, `Fetched`, `FetchFails` are the steps of `SchemaStore.Get`, `GetConnection`, `Run` those of a statement, `Close` shutdown |
| `ConfigFile`, `MCConfigFile` | `config.yaml` among `token add/remove/renew`, `setup`, the server's start | `file`; `Add`, `Remove`, `Renew`, `Setup`, `SetupStdio`, `Serve` read it and decide, `Truncate` and `Write` are `os.WriteFile`, `Backfill` is `BackfillComments`, `Abort` a kill |
| `AuthProofs` | the theorems about `RateLimiter` and `VerifyCache`, whose names are disjoint for that | |
| `LogsProofs` | the theorems about `LogManager` and `Readers`, whose names are disjoint for that | |
| `ServerProofs`, `RpcChannelProofs`, `SchemaStoreProofs`, `ConfigFileProofs`, `ToolsProofs`, `RagIndexProofs` | the theorems about the module each is named after | |

Abstractions. A timestamp is an age, a deadline the ticks that are left. A pattern list
is the set of paths it matches. Tokens, commands, configs, paths and addresses are model
values. A short critical section in which nothing is observed is one step; where another
party can come between two steps of the code (unlocked intervals, the file system, the
authenticator) they are separate actions. `Server` abstracts what the modules of its parts
detail: a limiter may refuse any request, a cache entry may expire at any time, a tool
either takes the read lock of the Manager once or scans under its write lock.
`RateLimiter` models one of the two tiers; `Middleware` consults and records into both
alike, and a request refused by the other tier is a `Finish`.
`Readers` reduces a line to two facts: is it inside the time window, does it match.
`Chunker` reduces a document to the lengths of its paragraphs, section by section. `RagIndex`
has one source, one index run at
a time; the 30 days after which keys expire and the merge of several sources by score are
left out, and so is a pipeline that the Redis client repeats (its commands are idempotent). `SchemaStore` reduces a schema to its version. `ConfigFile` reduces a config to
its token values, the legacy `auth.token` and one field for what lets a config do without
tokens (an authenticator, stdio scopes). A token is a number that nobody has drawn before,
or `Blank`, the empty one that `setup` takes when it is typed in.
`Macro` gives a step one argument, the one that decides something, and takes a JSON value
as the two texts that templates can get out of it; text that no list matches is one value.
The contents of a file are its path. `Macro` and `Tools` are built on `FileAccess`, not on
`LogManager`: `LogManager` is shown to implement it. `Tools` lets calls of those tools
begin that take several steps among which others' steps matter; the seven tools that are
registered first have one name between them. In `RpcChannel` the server and the worker
share one clock, as `expires_at` presupposes, and a deadline is compared in whole ticks.

Details of the code that an abstraction takes together or leaves out:

* `ConfigFile`: `os.ExpandEnv` (`config.go:276`) replaces `$VAR`s before a file is parsed. The
  environment is taken to be the same for all programs, so a token `$x` is a value like any
  other, or, when nothing is in `$x`, it is `Blank`; what it does to other fields is left
  out. `validate`
  does not forbid two tokens of one name (`config.go:325-335`), of which `token remove` takes
  both and `token renew` the first; no command makes such a file, and a file edited by hand
  is taken to have none.
* `SchemaStore`: `sql.Open` fails only for a data source name that does not parse
  (`pool.go:51-54`); the call then ends as with `FetchFails` or `Run`. A connection that is
  opened after the one `Close` stays known to the pool, as `ConnectionsNotLeaked` says, but
  nobody closes it any more; so does a Redis client that `RpcChannel` makes after the
  Dispatcher's `Close`.
* `LogManager`: a file that is missing, a directory or not readable is one outcome, at each
  step that looks at it; a row of a listing that says readable=false for such a file is taken
  with the rows that are missing.
* `Readers`: offsets are not negative; the handler passes on whatever it is given
  (`server.go:522`), and a negative one shortens the page.
* `Server`: `serve` has called `signal.Notify`; a SIGHUP before that (`root.go:60-74`) ends
  the process.
* `RpcChannel`, `VerifyCache`: a command is gone when its timeout has passed; the code waits
  longer when a grandchild of it keeps the output pipe open.
* `RagIndex`: an `EXPIRE` that Redis refuses ends the run like any failure, after everything
  else of its pipeline; it is an `Abort` there.

## Runs

| run | module, bounds | properties | shows |
|---|---|---|---|
| `ratelimit` | `RateLimiter`: 2 addresses, 3 requests, limit 2, window 1 | `OldestFirst`, `OvershootBounded`, `ImplementsSlidingWindow`, `BlockEnds`, `MemoryReclaimed` | three requests are enough to overshoot a limit of two; a window of one tick has failures inside, on and past the boundary |
| `verifycache` | `VerifyCache`: 2 tokens, 2 requests, TTL 2, lag 1 | `CacheTypeOK`, `EntryBounded`, `AcceptedWhileKnown`, `NobodyWaitsForTheCommand` | a store that races a revocation, two requests of the same or of different tokens |
| `logmanager` | `MCLogManager`: 2 files, one replaceable by a link, the journal, 2 settings of which one blacklists the journal, 2 calls | `TypeOK`, `ImplementsFileAccess`, `CacheMatchesSettings`, `CallsAnswered` | a link put in place at every point between check and open; a scan against a read and an `Update`; every step is one that `FileAccess` allows or none |
| `server` | `MCServer`: 3 configs and a broken file, 1 edit, 2 requests, 2 tokens | `TypeOK`, `SnapshotConsistent`, `AdmittedByAuthority`, `AclNotOlderThanAuth`, `LastEditApplied`, `RequestsAnswered` | a reload from each config (token list, command A, command B) to each, or to a file that does not load, at every point of two requests |
| `rpc` | `RpcChannel`: 2 calls, timeout 2, each push at most twice | `TypeOK`, `ImplementsToolCall`, `ClientNotLeaked`, `CallReturns` | a repeated or lost push, a worker that dies, is late or serves another call first, a `Close` among the calls |
| `tools` | `MCTools`: 2 calls, 3 setups, 3 macros, 2 lists, 2 telegram.yaml and a broken one, 1 reload, 1 edit | `RegistryExact`, `AnswerExact`, `MacroReadsAllowed`, `SentAsConfigured` | macros and extensions that take each other's and the server's names; two runs step by step, a path out of an extension's answer, steps that fail; lists and service replaced at every point of them |
| `readers` | `Readers`: every log of up to 5 lines, 3 lines or matches, offset 2, context 2 | `ReadExact`, `SearchExact` | the ring buffer goes round once and a bit; contexts meet, overlap and are cut off by the end |
| `rag` | `MCRagIndex`: 2 files, 3 documents (of no chunk, of one that is not the first, of two with one too long), 3 runs with 1 refused command each, 1 edit, 2 hits; all sections of up to 4 paragraphs for the splitter | `Replaced`, `QuietSearchExact`, `NothingLost` | a run that dies at any Redis command or has one refused, an edit, the run that repairs it, queries all along, whose look-ups may fail |
| `schema` | `SchemaStore`: 2 connections of which one may hang, 2 calls, TTL 1, lag 1, 1 change | `TypeOK`, `RefreshIsFresh`, `AgeBounded`, `ConnectionsNotLeaked`, `OthersServed` | a refresh during another call's fetch, expiry while waiting for the mutex, `Close` at any point |
| `config_file` | `MCConfigFile`: 2 programs, 2 token names, 5 first files, 4 token values | `TypeOK`, `WrittenLoads`, `SoleCommandExact` | two programs one step apart at every step, a kill after the truncation, garbled files |
| `authenticator_timeout` | `MCServer` with two timeouts | `AuthenticatorApplied`, violated | finding 1 below |
| `shutdown` | `Shutdown`: 2 requests, grace 2 | `ShutdownDrains`, violated | finding 2 below |

The bounds. Requests are interchangeable and each touches one token, address or path, so
two of them show every race of a pair; the limiter has three because its limit is two.
For the server one edit from each config to each is checked; its safety properties are
proved for any number of edits. In `tools` the reload can come between any two steps of
both calls, and one is enough: a second would only replace what the first has replaced.
Constants that are bounds and not parameters of the program: `MaxEdits` and `MaxAlters`
stop the outside world from changing things, `MaxReloads` and `MaxRuns` the operator,
`MaxRefused` the commands Redis refuses in one run (its proofs hold for any number),
`MaxValue` the supply of tokens (of which `Given` are taken by the first file), `MaxPushes` the Redis client's retries (three
in its defaults; two show every effect of one too many), `MaxLines` and the other `Max*` of
`Readers` its inputs. `MaxLag` stops time while an answer is on its way to a cache: it is
the assumption under which the promise of the verify cache and of the schema cache is
stated. In the safety
runs with interchangeable calls or files (`tools`, `rag`, `config_file`) TLC takes states that
differ by a permutation of these as one. Each property is
also checked to fail under a mutant of the code it is about (`mutants` in
`PROJECT.json`; the mutants stand before the definitions they change).

Fairness. Goroutines are scheduled, so each step of a request or of the reload is weakly
fair; a step that waits for a `sync.Mutex` or `sync.RWMutex` is strongly fair, because
both wake waiters in order and starve neither side. An authenticator command is killed
at its timeout, so it ends in `Server` and `RateLimiter`; in `VerifyCache` nothing is
assumed of it, which makes `NobodyWaitsForTheCommand` stronger. In `RpcChannel` time passes
and callers run, but Redis and the worker owe nothing: `CallReturns` rests on the timeouts
alone. In `SchemaStore` the databases outside `Hanging` answer, with rows or an error.
Nothing is assumed of the operator, of clients or of other programs. `Tools`, `Readers`,
`RagIndex` and `ConfigFile` have safety properties only and assume no fairness.

Deadlock is checked in the runs of `RateLimiter`, `VerifyCache`, `LogManager`, `Server`,
`RpcChannel`, `Tools` and `SchemaStore`. The others really stop: a reader returns, the process of
`Shutdown` ends, and `RagIndex` and `ConfigFile` come to the end of their bounds on runs
and token values.

## Findings

1. `authenticator_timeout`: `Reload` keeps the verify cache when the command is unchanged
   (`internal/mcp/server.go:1049`), and with it the closure that captured the old
   `timeout_seconds`. The new value is not used until a restart or a change of command.
2. `shutdown`: `ListenAndServe` returns as soon as `Shutdown` has closed the listeners;
   `Start` returns nil, `serve` and `main` return, and the process ends while the signal
   goroutine still drains requests (`internal/mcp/server.go:920-928`, `cmd/root.go:82`).

Other disagreements met while modelling. The checked properties and the theorems say nothing
of what the code does in the first five cases, so that they hold either way; the modules state
what the documents say as a property of its own, and TLC refutes it when the
cfg of the named run has it in place of the run's properties:

* `FailureStops` (`tools`): a macro's `journalctl` step that fails or times out counts as an
  empty result with an error in it, and the run goes on (`internal/macro/steps.go:181-188`),
  while `internal/macro/runner.go:28-29` and `docs/MACRO.md:83` and `:172` say that a failure or
  a timeout stops the macro; the comment in `execJournalctl` accounts for a journal without
  entries only;
* `TailSkipsFromEnd` (`readers`): in tail mode over a file `offset` is ignored
  (`internal/logs/logs.go:406-439`), although `internal/mcp/tools/read_log.md:21` describes it
  for both modes; over the journal it takes effect only when fewer lines exist than were asked
  for, and then skips too many. `ReadExact` is about tail without an offset;
* `ResultsLimited` (`readers`): `collectMatches` leaves its loop only when no after-context is
  pending (`internal/logs/logs.go:545`); a match inside the context of the last permitted one is
  returned too and opens another context, so `search_log` exceeds `max_results`
  (`internal/mcp/tools/search_log.md:24`) by any number. `SearchExact` allows both: to return
  the matches in that context and to leave them out;
* `ChunksBounded` (`rag`): a paragraph longer than `maxChunkRunes` is kept whole when a section
  is split (`internal/rag/chunk.go:134-141`), and `splitByRunes` is left with sections that have
  no paragraph at all, against the comments at `chunk.go:86` and `:119-121`. `NothingLost` leaves
  open into how many pieces such a paragraph goes;
* `TopKReturned` (`rag`): `Store.Search` drops a hit whose `HGETALL` fails
  (`internal/rag/store.go:161-164`) and succeeds with what is left, possibly nothing, while
  `internal/rag/query.go:16` says that the topK most relevant chunks are returned.
  `QuietSearchExact` claims their number only when every hit's metadata could be read;
* a blacklisted journal is not readable (`IsAllowed` denies it, as `docs/CONFIG.md:279`
  says: "Blacklist takes precedence"), but `list_logs` shows it as readable whenever
  `journald` is on (`internal/logs/logs.go:266-268`). The attempt to prove that a listing
  shows what a read would be allowed failed on it; `Lists` in `FileAccess` permits it;
* `setup` takes an empty token that is typed in (`cmd/setup.go:366`, the prompt at 668-685),
  writes it and says "Setup complete. Start the server with: sudo logmcp serve"
  (`cmd/setup.go:173-174`), but `Load` refuses the file (`internal/config/config.go:329-330`);
  `WrittenLoads` excepts this case;
* `setup` reads the config with `Load`, which expands `$VAR`s, and writes the expanded
  values back; its stdio branch drops all tokens;
* macro names: `docs/MACRO.md:55` asks for names that are unique across all tools. A macro
  called `db_query` displaces the db tool, which yields (`trackTool`), while `rag_query` and
  the notify tools take their names from a macro; `RegistryExact` states the order;
* a `read_file` step has no timeout: `ReadFile` has a `ctx` parameter
  (`internal/logs/logs.go:389`) but does not look at it;
* after a reload `check_config` shows the new `tools.disabled`, but the registry is that of
  the start;
* `token add` on a file with the legacy `auth.token` drops that token, since
  `loadConfigRaw` (`cmd/token.go:169`) does not migrate it as `Load` does;
* two programs that rewrite `config.yaml` at once can garble it, for example when
  `BackfillComments` appends (`internal/config/backfill.go:120`) between the truncation and
  the write of another; the states with `garbled` in `ConfigFile` are these.

## Proofs

What TLC checks for small constants, the theorems establish for all.

* `AuthProofs`, rate limiter. `OvershootIsBounded`: a request joins those in flight only while
  fewer than `MaxFailures` failures are stored, and leaves them by adding at most one;
  `OvershootBounded` is inductive with the types. `AlwaysOldestFirst` (`OldestFirst`): failures
  lie in time order, because the clock is read under the mutex, so a new one is the youngest,
  and time passes for all alike.
  `VerdictIsExact` rests on it: on an ordered slice, what the loop of `prune` leaves is
  exactly what lies in the window (`PruneExact`), so the verdict is the exact one.
  `WindowIsExact` is the refinement of `SlidingWindow`, which keeps counts only: what
  `prune` drops changes none of them (`PruneKeepsCounts`), `Record` adds one to each
  (`AppendCounts`) and a tick shifts them (`TickCounts`), so every step is one of the exact
  window's, or, for the ticker's, none.
* `AuthProofs`, verify cache. `EntryBounded` needs `CacheFresh`: a positive answer under way was
  given at most `lag` ticks ago, hence its token was known then. From `CacheInv`,
  `EntriesAreBounded` and the action property `AcceptedOnlyWhileKnown` follow.
* `RpcChannelProofs`. `IInv` says that what is in the request list or in the worker's hands
  belongs to a call that has pushed, that reply lists hold results of their own call only,
  that the life of an envelope never exceeds what its caller still waits
  (`ExpiresInTime`: `expires_at` is computed before BLPOP starts to count), and that the
  open client is the Dispatcher's. From it follow `ClientIsNotLeaked` and, step by step,
  the simulation `KeepsThePromise`: every step of the callers, Redis and the worker is a
  step of `ToolCall` or none. `ExpiresInTime` is what makes "service unavailable" final: a
  worker that pops the request afterwards finds it expired.
* `LogsProofs`, log manager. The refinement `KeepsThePromise`: every step of `LogManager` is one
  of four kinds, quiet, a begin, an answer or an end, and each kind is a step of
  `FileAccess` or a stutter. The invariant ties a call to its own time: the settings in
  force and those it has copied are in `since`, and what a scan, which keeps `Update` out by
  the lock, has collected so far is what the present settings list.
  `CacheBelongs`: the cached listing, which `Update` empties under the same lock, calls
  readable only what the present settings list.
* `LogsProofs`, readers. `ReadExact` and `SearchExact` say which lines an answer has by
  counting: a line is among the last `n` if fewer than `n` of those kept come after it. The
  lemmas on sequences that list a set connect the two, place by place (`PlaceOfListed`), so that
  no recursion is needed. Both say nothing of the cases that Findings names: tail with an offset,
  and which of the matches in the last context are returned. `ReadsExactly` needs that the ring has the last `n` lines kept, each
  at the place its count leaves when divided by `n` (`InRing`): the two copies that unroll it
  then give them in order (`RingPlace`, `OtherPlace`). `SearchesExactly` needs, of every
  match, that what trails it is the beginning of the lines kept after it, and, of the last one,
  that `pending` is just what it still wants (`Trails`, `Matched`), and that `before` has the
  numbers right before the next line (`Rolling`).
* `SchemaStoreProofs`. `RefreshSeesAll` needs that neither the cached schema nor one that
  is being fetched is older than what a waiting refresh has asked for (`Fresh`): the
  invalidation comes before the wait for the mutex, so who fetches later sees the change.
  `AnswersNotTooOld` needs that age and remaining life of an entry add up to at most
  `TTL + MaxLag` (`Aged`). `NothingLeaks` is inductive but for the numbering of the pool's
  connections (`Pooled`), since opening one and putting it into the pool are under one lock.
* `ConfigFileProofs`. `NobodyLockedOut`: whatever programs do to each other, what is in
  the file is empty or something one of them was about to write, and that loads unless a
  blank token was typed in. It rests on
  `Keyed` (a config without an authenticator or stdio scopes keeps a token) for the file
  and for what each program holds, and on `FirstLoads`, the assumption that the first file
  loads. `CommandsAreExact` needs that a generated value is new (`Below`, from `Given`) and,
  for a program that nothing has overlapped, that what it holds, and then the file, differ
  from what it read as its command says (`ProgInv`).
* `ToolsProofs`. `MacrosReadWhatIsAllowed` needs that a call is inside the log manager only
  at a `read_file` step with a path (`StepsRead`): the end of a step takes everything it was
  served out of the manager, and the settings of one step are among those of the call.
  `MacrosAnswerExactly` rests on `LatestGrows`: putting the outcome of the next step into
  the result is the same as taking, for each id, the outcome of its last step, though ids
  may repeat. `RunInv` ties the position to the outcomes: behind the last one, or at the
  end because of a failure; how a run goes on after a failed `journalctl` is left open
  (Findings). `NamesServedInOrder` (`RegistryExact`) needs `RegInv`: after
  any number of registrations each name served belongs to the latest of them that claimed
  it and did not yield to an earlier one, and `tracked` is the set of the names served; the
  order of the claims is fixed by `ClaimsArranged`. `NotesAsConfigured`
  (`SentAsConfigured`) rests on it: `notify_send` is served only if `New` found a
  service, a service is never taken away by a reload (`ServiceStays`), so the copy that a
  call takes under the lock is one of the services that were in force during the call
  (`NotesInv`).
* `RagIndexProofs`. `IndexReplaces` (`Replaced`) follows a run through its pipelines. While
  it walks the files, the vector set and the ID set hold the chunks of the files read less
  those still to be added, up to one chunk that is half way (`Content`); before that, what
  each `DEL` has emptied; all this holds until a command is refused, and a run with a refused
  command never gets on to `Continue` (`RefuseSteps`). That metadata is not orphaned needs more than the keys: between
  `DEL` of the ID set and that of the metadata the IDs are known only to the run
  (`Reachable`). `QuietSearchesAreExact` needs that results are always chunks of the index
  with their text, that hits and results together are
  as many as were asked for, or all, as long as no look-up has failed (`Counted`), that each
  looked-up hit becomes a result of its own (`HitBecomesResult`), and that the vector set is finite, which holds because
  it grows one chunk at a time. What the chunker makes of a document is a parameter of
  these two: they hold for any numbering of chunks with text.
* `RagIndexProofs`, chunker. `SplitIsExact` and `TextIsKept` (`NothingLost`) are about loops
  of any length, which `Chunker` writes as recursive functions. Two lemmas make these
  accessible. `Iteration`: a loop whose turns are functions on a set has a course; so the
  recursive definition denotes what its equation says (`RunesType`, `PartsType`).
  `Induction`: what holds before the first turn and is kept by each holds after the last; it
  is about a set of numbers, hence needs no operator as a parameter. The loop invariant of
  `splitLargeSection` (`GatheredInv`) says that the paragraphs so far are in the pieces, in
  order, that every piece but the last is full, that `size` is the length of the last
  one, and that a piece of ordinary paragraphs fits a chunk (`OrdinaryFits`); it is kept if a paragraph is blank (`Turn`), fits (`LastPieceGrows`) or not
  (`PieceBegins`). `Gathering` is that of `splitSections`, kept by each section
  (`SectionJoins`).
* `ServerProofs`. `SnapshotConsistent` is not inductive: inside `Reload` the fields do
  not fit. `ServerBacked` says what holds instead (while `oldCmd` is kept, it names the
  command of the present cache), and caches keep their authenticator for ever
  (`CachesStay`). `AdmittedByAuthority` needs that each cache holds only tokens its own
  command vouched for, also those that no config uses any more (`CachesVouched`), and
  what a request carries (`EntriesListed`, `StoresVouched`). `AclIsNotOlder` needs the
  order of versions between disk, server and lists (`VersionInv`).

The theorems rest on the named assumptions of the modules only (distinct model values, types
of the constants, finitely many requests in `RateLimiter`, a first config file that loads, in
`Tools` that `notify_send` is not the name of another of the server's own tools), which TLC
evaluates in the runs.

Only model-checked: the eight liveness properties (`BlockEnds`, `MemoryReclaimed`,
`NobodyWaitsForTheCommand`, `CallsAnswered`, `LastEditApplied`, `RequestsAnswered`,
`CallReturns`, `OthersServed`), since fairness and ENABLED are out of the prover's reach, and
absence of deadlock (what it rests on is proved with `TypeOK` of `LogManager`, `Server` and
`SchemaStore`: whoever holds the Manager's write lock or a schema mutex is at a step that
waits for no lock). Every invariant and every action property that a run checks is proved.

## Not modelled

See `components` in `PROJECT.json` for each part and the reason. In short: interactive
commands, the environment check and report generation, which run once and keep no state
(what `setup` does to `config.yaml` is in `ConfigFile`); the resources and the status
handlers, which only read; scopes, glob and timestamp syntax, rendering and parsing, TLS,
audit output. `Tools` leaves out what a reload cannot change because it happened before:
how extensions are asked for their tool lists, and the parsing of macro files.

## Plan

In the order of importance, with what is done:

1. request authentication and reload (`RateLimiter`, `VerifyCache`, `Server`), log access
   (`LogManager` implements `FileAccess`), shutdown (`Shutdown`): modelled, and but for
   `Shutdown` proved;
2. `RpcChannel` implements `ToolCall`: modelled and proved;
3. the tool layer (`Macro`, `Notify`, `Tools`): modelled and proved;
4. `SchemaStore`, `ConfigFile`: modelled and proved; `RagIndex` with `Chunker`: modelled
   and proved; `Readers`: modelled and proved;
5. to model next: several RAG sources merged by score; the stdio transport, which has the
   tools without authentication and reload.
