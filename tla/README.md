# A TLA+ verification project for V.E.L.O.C.I.T.Y.-MCP

V.E.L.O.C.I.T.Y.-MCP is a Model Context Protocol server written in Rust. It serves tools
over stdio, HTTP (plain, batch, streamable, SSE, WebSocket) and a shared-memory mailbox, in
two encodings (JSON-RPC and the binary NDA/TLV frames), and runs plugin tools in WASM guests
or in child processes. This directory holds TLA+ models of its components, the TLC
configurations that check them on small instances, and TLAPS proofs of the results that
matter most.

Paths below are relative to the repository's root. To check a module:
`tlc -config <run>.cfg <module of the run>`, and `tlapm <name>Proofs.tla` for the proofs (eight
modules, listed in section 2; the slowest takes a few minutes).
`PROJECT.json` lists the runs, the source lines of every definition, the hazards each
property is for, and a mutant for every property.

## 1. Inventory

### Modelled: what actors share

| Component | State | Operations | Who shares it | What makes it correct |
|---|---|---|---|---|
| Shared-memory channel: `src/ipc/shmem.rs`, `run_shmem_loop_inner` of `src/protocol/nmcp_binary.rs`, `client/src/transport/*shmem*.rs` | state byte, two lengths, input and output region, request sequence number, two auto-reset events | client `send_raw`; server wait, claim, copy, dispatch, publish, signal; restart; Ctrl+C | two processes, no lock | an answer belongs to its call; a request runs once; no region is read while written; no lost wake-up |
| Token bucket: `RateLimiter` of `src/rate_limit.rs` | `tokens_scaled`, `last_refill_ms` | `refill`, `try_acquire`, `available_tokens` | every request thread, atomics only | time is credited once; no more is granted than burst plus credit |
| Per-peer limits: `src/rate_limit.rs` | LRU of buckets | `check_rate_limit_for_peer` | requests of every peer | nobody is throttled for what others sent |
| Audit registry: `src/audit.rs`, the export and summary handlers of `src/transport/http.rs` | session → log map, ring buffers, `AUDIT_SEQUENCE`, files | `get_or_create`, `record_full`, `remove`, `flush_all`, `flush_to_file`, the exports and the summary | request threads, the idle clean-up, shutdown | bounded; entries land in the registered log of their session; a flush loses nothing |
| Request context: thread-locals of `src/audit.rs`, `CANCELLED_IDS` and `dispatch` of `src/protocol/json_rpc.rs`, handlers of `src/transport/http.rs` and `src/middleware.rs` | session and transport per worker thread, cancellation set | POST, NDA, batch, streamable and WebSocket handlers; `notifications/cancelled`; `tools/call` | tasks that move between runtime workers at each `await` | entries and cancellations stay with their session |
| HTTP sessions: `src/transport/http.rs` | session table, idle clock, request metrics | the protected routes, DELETE, the idle clean-up | request tasks, the clean-up task | metrics balance; an active session is not evicted |
| SSE broadcast: `src/transport/http.rs` | subscriber list, bounded channels, connection gauge, last generation seen | `sse_handler`, heartbeat, `broadcast_event`, `watch_registry_changes` | clients, the watcher, streamable requests | changes reach every subscriber; the gauge is right |
| stdio transport: `run_stdio_loop` of `src/protocol/json_rpc.rs`, `src/main.rs` | stdin, channel, stdout, shutdown flag | format detection, reader thread, JSON loop with its dispatch, NDA loop | reader thread, main thread, signal handler | answers in order, as JSON-RPC asks, none lost at end of input, Ctrl+C ends the loop |
| HTTP start and shutdown: `src/main.rs`, `run_http_server` | two flags, signal handler, connections, audit entries | handler installation, accept loops, graceful shutdown, drain, runtime drop, flush | main, signal handler, connections | a signal stops the server; finished calls are in the flushed log |
| Client library: `client/src/` | pipes, child process, handshake state, request ids | `initialize`, calls, notifications, `close`, over four transports | tasks that share a client and may be cancelled | answers to their request; no call after close; calls end |
| WASM dispatch: `src/plugins/mod.rs`, `call_tool_binary` of `src/registry.rs`, `src/wasm_runtime/` | `WASM_TOOL_REGISTRY`, runtime cache, the guest's table, capability report | JSON call, registration, binary call with retry and fallback, eviction after a trap | request threads | guest code of a request runs at most once |
| Tool registry: `src/registry.rs`, `encoded_tools_list_result` of `src/protocol/nda_native.rs` | built-in, engine, converted, macro and plugin tools; generation; two list caches; frame cache | `register_tool_lazy`, `load_plugins`, `cache_nmcp_frame`, `get_tools`, discovery | request threads | a cached list under the current generation is what a rebuild returns |
| Child processes: `src/plugins/mod.rs`, `src/sandbox.rs`, `src/nda_executor.rs`, `shell_exec` and the C# engine of `src/registry.rs` | child, pipes with a capacity, reader threads, deadline | spawn, write, poll, read, kill, reap | caller, reader threads, the program and its descendants | output is whole or reported cut; a call ends at its deadline |
| Outbound HTTP: `http_request`, `directory_tree` of `src/registry.rs` | resolver thread, attempts | URL checks, resolution with a deadline, retries | caller, resolver, remote server | no effect beyond the attempts |
| Streaming `src/streaming.rs`, sampling `src/sampling.rs` | chunk channel and progress table; handler mutex, conversations | chunking, sending, eviction; requests, nested requests, history | producers, receivers, callbacks | no chunk or turn lost or in the wrong stream; nobody waits for ever |
| Connectors: `src/oauth2.rs` | token store and its file, authorization states, webhooks | calls with refresh, code exchange, validation of a state, delivery with retries | callers, provider | a fresh token is sent; a refresh token is used once; a state is accepted once |
| Marketplace: `src/plugins/marketplace.rs` | index and installed files, plugin directory | install, uninstall, update, review | requests with a copy each | what is installed is complete |
| Resources, subscriptions, prompts: `src/resources.rs` | resources, subscriptions, queue of updates; prompts; one database connection | registration, paging, reading; filling | requests, pollers | pages in order; the newest updates kept; a prompt as its template means |
| Response cache: `src/middleware.rs` | LRU with expiry | look-up, store, clean-up | requests | a hit is fresh and a success |
| File tools: `src/registry.rs` | files, the frame cache | read, write, edit, move, list, convert | threads of a server | a file is what one call wrote |
| Edge server: `crates/velocity-mcp-edge/src/main.rs`, `crates/velocity-mcp-core` | bucket per client, connections | addresses behind proxies, keys, limits, dispatch | connections | every request is charged to its client, and each answer is its own |
| Nested prototype: `nested-poc/prototype_tools.rs` | registry in a file with a lock file, or in a PostgreSQL table | publish, reclaim, retry | processes | published means stored; a call ends |

### Modelled: sequential parts

| Component | What is hard |
|---|---|
| Configuration: `src/config.rs`, `src/main.rs` | which of four sources wins, and what was validated when |
| NDA frame codec: `src/protocol/nda_native.rs`, `client/src/transport/nda_codec.rs`, the copy in `src/registry.rs` | a decoder, a walk that only skips and two field extractors must agree |
| NDA documents and converters: `src/nda_document.rs`, `src/nda_converter.rs` | offsets into a pool, an odd Merkle leaf, cells and rows |
| Edge tools: `crates/velocity-mcp-edge/src/tools.rs` | a hand-written expression parser, Base64, the calendar |
| WASI host: `src/wasm_runtime/wasi.rs`, `wasi_net.rs` | files and sockets share numbers; partial reads |
| Language runtimes: `src/wasm_runtime/*.rs` | what is left in a guest when a request fails half-way |
| Runtime registry, module cache, plugin manifests: `src/wasm_runtime/mod.rs`, `src/plugins/mod.rs` | state read twice around a compilation; a directory that changes while it is scanned |

How they interact: a transport (stdio, HTTP, shared memory) decodes a request and calls
`dispatch`, which checks the rate limit, reads the tool registry, runs a tool (built-in, WASM,
process plugin), and records an audit entry under the session and transport found in the
thread-local context. Registrations bump the registry's generation, which the SSE watcher
polls and turns into `notifications/tools/list_changed`. Shutdown flushes the audit registry.
The removal of a session ends its audit log.

### Not modelled

| Part | Why |
|---|---|
| `src/observability`, `src/error.rs` | set-up of a logger, formatting of errors: no state |
| `src/benchmark.rs`, `bench_nda/`, `macros/` | measurements and compile-time code generation |
| `src/sandbox/linux_seccomp.rs`, job objects | the first has no caller; the second is the operating system's |
| Guest interpreters, C# engine, vendored Lua | external: whatever they can report is a choice of the model |
| Hash, signature, encryption and TLS functions, PDF and image conversion, PostgreSQL's wire format | libraries' or bit-level work; a hash is a constructor, an answer is lost or not |
| CGI entry of the edge crate, `pg_probe`, `tls_startup_probe` of the nested prototype | one pass without state |
| `initialize`, health, logging answers, metrics text, JSON and CSV text of the exports | wording |
| The nested prototype's copies of the edge tools | the same functions as in `EdgeTools`, not checked again |

### What is hard here

Shared memory without a lock between processes that may time out, die and restart; lock-free
arithmetic; thread-local state under tasks that change threads; locks held across `await` or a
callback; double-checked creation with eviction; caches keyed by a counter that several locks
bump; a retry that must know whether the first attempt ran; pipes that fill up; files written
in several steps by requests with copies of their own; shutdown that meets blocking reads; two
decoders of one format. `PROJECT.json` lists each of these under `hazards`, at its line.

## 2. The modules

One module per component. The runs of the shared-memory channel, of the SSE broadcast and of the
tool registry use the component's module itself; for the others an `MC…` module extends several
components that do not share state, and `part`, chosen at the start, says which of them
moves, so that a run costs the sum of its parts and not their product. `…Proofs` modules hold
the theorems, several components to a module:

| Module | Proves about |
|---|---|
| `ShmemChannelProofs` | `ShmemChannel` |
| `RateLimiterProofs` | `RateLimiter`, `TokenBudget`, `PeerLimits` |
| `ContextProofs` | `RequestContext`, `AuditRegistry` |
| `ServicesProofs` | `SseBroadcast`, `RuntimeHost`, `Prompts`, `BuiltinTools`, `OutboundHttp` |
| `TransportsProofs` | `StdioServer`, `HttpLifecycle`, `McpClient`, `NestedPlugins` |
| `RuntimesProofs` | `WasmDispatch`, `ChildProcess`, `Sampling`, `Streaming` |
| `WebProofs` | `HttpSessions`, `Connectors`, `Configuration`, `Marketplace`, `Resources`, `ResponseCache`, `EdgeServer` |
| `ToolsProofs` | `ToolRegistry`, `LanguageRuntimes`, `WasiHost` |

Conventions:

- A step is what the code does without another actor being able to see the middle: one access
  to shared memory or to an atomic, one critical section, one stretch between two `await`s, one
  system call on a file.
- Inputs the code does not control (what a client sends, whether a guest traps, whether a write
  fails) are chosen with `\E`. Counters that only bound the exploration are named as bounds in
  the `CONSTANTS`.
- An operator that stands before the definition it differs from, with the same parameters
  (`ClientForgetsEvent` before `ClientSetEvent`), is a faulty variant for mutation, and no
  specification uses it.
- A property of a run may be a conjunction of named parts; every part has been broken by a
  faulty variant of its own.

**ShmemChannel.** `cpc` walks the client through `send_raw`: length, two halves of the body,
`REQ_READY`, event, spin and wait, then drain, reset and copy; `spc` walks the server through
its loop. The body is two cells, so that a copy that races with a write can be torn. `cur` is
the number of the call, a cell holds the number of the call that wrote it, and `execs`,
`outcome` are history. `ClientDeadline` may fire at any wait; the time-out path drains the
event and stores `IDLE`, as the code does, while the server goes on. `ServerCrash` loses the
server's locals and leaves the mapping; `ServerRestart` and the three `ServerReset…` steps
clear the header. The Windows build is modelled; the other build polls and has no events.
`Format` chooses the NDA client, or the JSON client with its check of the answer's id.

**RateLimiter, TokenBudget, PeerLimits.** The bucket's two atomics and, per thread, the values
it loaded. The clock may stand still or jump. `applied` and `granted` are history: the
milliseconds whose tokens were added and the number of permits given. `TokenBudget` says what
callers may rely on, without threads or loops: time passes, credit is deposited once, a granted
call withdraws one token. `ImplementsBudget` is the refinement. `PeerLimits` is the LRU under
its mutex; `passed`, `born` and `refused` are history.

**AuditRegistry.** A log is a number; a thread that holds an `Arc` keeps it after its removal
from the map. `Lookup` is the read-locked fast path, `Insert` the write-locked re-check with
eviction, `DrawNumber` and `Push` the two halves of `record_full`. `FlushAll` holds the read
lock for as long as it runs, `FlushSession` does not; `Export`, `WriteFile`, `Count` are the
parts of `flush_to_file`, and `WriteFails` its error, after which `flush_all` gives up.
`ExportLog`, `Aggregate…` and `Summar…` are the administrator's three requests; the summary
takes its locks one after the other.

**RequestContext.** `session_id` and `transport` are per worker, `on` says which worker polls a
task. `Enter` is a handler's start, `Call`/`CallNda`, `Limited`, `Record`, `Finish` the
`tools/call` arm up to its answer, `Resume` the continuation of a socket on any free worker,
`Leave` the guard's drop. `asked` marks that a cancellation came in time.

**HttpSessions.** The layers a request passes in order (peer limit, authentication, content
type, session), the table touched by five kinds of handler, `Cleanup` one interval of
`cleanup_sessions`. The two atomics of `record_request` are two steps.

**SseBroadcast.** `Connect`, `Subscribe`, `Open` are `sse_handler` around its two lock waits,
`Acquire`, `Send` are `broadcast_event` under the lock with one bounded send at a time,
`Hello`, `Beat`, `BeatFails`, `Unsubscribe` the tasks it spawns. A frame is 0 or a generation.
`Stalled` clients keep their connection and do not read.

**StdioServer.** A line is a kind and a number; an oversized line is two pieces. `Peek` is the
format detection, `ReadLine` and `ReaderEnds` the reader thread, `Receive`, `Timeout`,
`Disconnected` the three results of `recv_timeout`, `Nda…` the binary loop. What a line is
answered with follows `handle_request`: the kinds differ in whether `id` is given, null or
absent and in whether the method is known. The first line has at least four bytes or is blank:
the peeked bytes are put back in front of the line they came from.

**HttpLifecycle.** `stage` is the main thread from the first handler to the flush; `handler` is
what Ctrl+C does. ctrlc refuses a second handler, which is what `SetHandler` says. `tls`
says whether the server's own accept loop is used, which is dropped, or axum's graceful shutdown,
which waits.

**McpClient.** Tasks that share a client over one of four transports. Over stdio the pipes are
taken out of the child for a call; `Cancel` drops a task together with what it holds. The
child may crash, in the middle of a line too, which does not parse and drops the pipes; its stderr may fill. The shared-memory transports appear as `ShmemChannel`
shows them from outside: the answer may be another request's.

**NestedPlugins.** Two stores. The file store is modelled by its system calls: create the lock
file, look at its age, remove it, read, write the temporary file, rename; an inode may be open
in two writers. The PostgreSQL store sends a statement, may lose the answer, and sends it once
more on a new connection.

**WasmDispatch.** Each of the three functions that hold the runtime cache's mutex is a step;
`pc` is where `call_tool_binary` is between them. `loaded` and `program` are inside the guest,
`registry` and `fallback` outside, which is why they can disagree after a trap. One language
(two languages share only the mutex).

**ChildProcess.** The child writes chunks into pipes of `PipeSize` and blocks when one is full;
an heir keeps them open. The four callers differ in what they read before, while and after
they wait. `PollRunning` may find the deadline reached, and `AnswerTimeout` may come at any time.

**OutboundHttp.** `Validate` checks the URL, `Resolved` and `DnsTimeout` race, `Serve` is what the
remote server does, `Transport` and `Respond` are what the caller hears of it; the body of a success may still
fail to be read (`ReadBody`), which ends the call and is not retried. `DirectoryTree` is a function
of a directory tree to lines, compared with `Preorder`: `BuildTree` is `build_tree` as a function of the levels
left above the depth limit, `ListEntries` its loop and `NextEntry` one turn of it; the state of the loop
carries what is left of the limit on entries, the `remaining` all levels share.

**Streaming, Sampling.** A task sends chunks through a bounded channel whose receiver may go
away, while another stream evicts its state. A sampling request holds the handler's mutex over
the callback, which may itself ask; conversations are cleared and evicted meanwhile.

**ToolRegistry.** A list is built registry by registry (`Miss`, `DiscoverTools`,
`AddConverted`, `AddMacros`, `AddPlugins`, `Store`) while other threads register. A change and
its bump are one step: the change is made under a lock that is released after the bump, and
every reader takes it. The engine's tools are the exception, and there the bump is a step.

**EdgeServer.** `handle_request` up to the body, then the rest, for connections that share the
table of buckets and its sweep; the environment (limits, keys, origins, proxies) is chosen at
the start. Error codes are named by their decimal form.

**Connectors.** A call is a look-up, perhaps a second reading of the token and a refresh with that, and the
request, each a step; the provider's grants and refresh tokens are history. `rotating` are the connectors
whose provider replaces the refresh token at a refresh; the others' stays the same. Authorizations and webhooks are
flows with variables of their own.

**Configuration.** A source is a function from settings to values; `ReadConfig`,
`ApplyEnv`, `Validate`, `Serve` are the order of `main`: file, environment, validation,
arguments. A running server may `Save`.

**ResponseCache.** Look-up, handler, body, store: between them others store, evict and expire. The
LRU is `entries`, from keys to what is kept, and `recent`, its keys in the order of their use.

**Marketplace.** `Load` of two files, `Fetch` of the plugin, `Truncate…` and `Fill…` of each file;
any of them may fail, and `MarketCrash` may come in between. `set_enabled` is left out: nothing but its
unit test calls it.

**Resources, Prompts.** One mutex, so an operation is a step; a listing is several. `Filled`
substitutes arguments in any order of the map.

**BuiltinTools.** System calls on inodes: an edit reads, then truncates, then writes. `Route` is
where a call goes: to the engine's lock, the frames or a built-in tool.

**NdaCodec.** `EncodeValue` and `ReceiveBytes` give the decoders every bounded value, or any
bytes; `Build`, `BuildEncrypted`, `Damage` make frames. Encoders and decoders are recursive
operators, so this module has no theorems.

**NdaDocuments, EdgeTools.** Compilation and conversion as functions on small sequences; the
parser against the grammar, whose trees say which operation applies to what, and where a root or a
logarithm has no value (`Defined`, from the sign of its argument). A string of the pool may be bytes that are
no UTF-8 (`Garbled`), which the reader does not look at and `GetString` refuses. A cell holds its text or
the index of a shared one (`CellValue`), which may be out of range or no number.

**WasiHost, LanguageRuntimes, RuntimeHost.** Host functions as steps of a single guest; the
thirteen runtimes as records of the five ways the host drives a guest. PHP, C#, Java, Julia, Perl and R have
one program slot (`bench_tools/interp_core/interp.c:2682`), so that a registration changes what every tool of
that guest runs; Ruby, Lua and MicroPython execute the source, QuickJS and TypeScript keep handles, Go
has a module per call and Rust one it keeps. `SetLimit`, `ReadKey`,
`Lookup`, `CompileModule` around the module cache's lock; `StartScan`, `StatManifest`, `ReadManifest`,
`StorePlugins` for the plugin directory, which changes in between.

## 3. The runs

| Run | Instance | What it shows |
|---|---|---|
| `shmem_faults` | JSON client, 3 calls, 2 timeouts, 1 crash, 1 signal | `OutputExclusive` always; `ExactUntilTimeout`: own answers and no request run twice, across crashes, until a call times out; `JsonAnswerOwnUnlessTorn`: the id check keeps late answers out unless the input was copied while it was written |
| `shmem_live` | NDA client, 3 calls, no fault, fair | `CallsReturn`: no lost wake-up |
| `rate_limiter` | 2 threads, scale 2, burst 3, rate 1, 3 ms, 3 calls; 3 peers, 2 buckets, burst 2 | `ImplementsBudget`: the atomics implement `TokenBudget`; `PeersApart` = `PeerIsolated` (a peer is turned away only after a burst of its own) and `PeerGrantBounded` (one burst per bucket it was given, and the refill) |
| `context` | 2 workers, a post, an NDA request, a batch of two, a stream, 2 sessions, one id; audit registry with 2 recorders, 1 flusher, 3 sessions, limit 2, rings of 2, 3 records, 1 removal, 1 flush | `AuditRouted`; `CancelsKept` = `CancelOwn`, `CancelHonoured`; `EntriesKept` = `RegistryBounded`, `NoOrphanEntry`, `LogsIsolated`, `ExportsExact`, `SummaryGrows`; `FlushCovers`: a completed flush leaves no older entry behind |
| `sse` | 2 clients, 1 producer, capacity 1, room for 1 subscriber, 2 changes, 1 beat, fair | `GaugeCoversOpen`; `ChangesDelivered` if clients read |
| `transports` | stdio: 3 lines of 8 kinds; HTTP: with and without TLS, 2 connections, 2 calls; client: 2 tasks, 4 transports, 1 cancel, 1 crash; nested: 2 instances, 3 stores, 1 restart, 2 lost answers; fair | `LinesAnswered` = `EofDrains`, `AnswersInOrder`, `RequestsAnswered`, `StopsPromptly`; `CallsFlushed`; `SendsHonest` = `AnswersOwn`, `ClosedStaysClosed`, `HandshakeInOrder`; `StoresExact` = `PublishedExact`, `AppliedAtMostTwice`, `NativeExact`; `TransportsEnd` = `JsonLoopStops`, `EarlySignalStops`, `FlagStops`, `SendsEnd`, `OrphanReclaimed`, `NestedRequestsEnd` |
| `runtimes` | WASM: 2 threads, 2 tools, every failure, 3 requests; child: pipes of 2, four callers; HTTP: every status and loss; 2 streams, 1 state; 3 samplers, 1 conversation kept; fair | `ExecutedAtMostOnce`; `OutputKept` = `PluginOutputWhole`, `TruncationReported`, `SandboxCleansUp`, `EngineAnswerWhole`; `OutboundExact` = `EffectsWithinAttempts`, `TreeListsPreorder`; `ChunksWhole` = `StreamWhole`, `ChunksCounted`; `TurnsKept` = `TurnsApart`, `HistoryBounded`; `CallsEnd`: all five end |
| `registry` | 2 threads, 2 names, 1 frame, 4 operations, an engine that answers or one that never does | `ListsCurrent` = `CacheCoherent`, `RegisteredListed`, `FramesBounded` |
| `web` | 2 requests at a time in each part; one provider of each kind; tables of 1 or 2; clocks of 2 to 4 ticks; 1 crash | `SessionsKept` = `MetricsBalance`, `ActiveKept`; `EdgeHonest` = `EdgeBudget`, `ClientCharged`, `RemainingHonest`, `ToolRunsInOrder`, `AnswersOwnRequest`; `ConnectorsHonest` = `SentFresh`, `RefreshChain`, `StateOnce`, `WebhookHonest`; `SettingsHonest` = `OffOnPurpose`, `NoBlankKey`, `ServedIsValid`, `SavedReloads`; `HitsHonest` = `HitFresh`, `HitSucceeded`; `InstallsKept` = `InstalledComplete`, `NothingForgotten` (requests one at a time and a file system that works; downloads, checksums and extractions may fail); `ResourcesKept` = `PagesInOrder`, `NewestKept`, `SubscriptionsBounded`; `PromptsHonest` = `FilledAsMeant`, `RequiredShown`, `BlocksKept`, `OneDatabase`; `FilesWhole` = `EditAllOrNothing`, `WrittenWhole`, `SomeCallMoves` |
| `codec` | values of depth 4 and every buffer of 4 bytes below 8; 3 triples, strings with bytes that are no UTF-8; sheets with shared cells; 5 symbols with roots and logarithms; 3 host calls; a language of each kind, 4 requests; 2 loaders; 2 scans of 2 files with 2 edits | `ValuesReturn` = `RoundTrip`, `SkipMirrorsDecode`, `ExtractAsDecoded`, `CallAsEncoded`; `FramesReturn` = `ParsedAsBuilt`, `NothingTrails`, `FlatKeepsLeaves`, `CachedArgsReturn`, `DirectListSame`; `DocumentsKept` = `CompiledReads`, `ReadResolves`, `MerkleCatches`, `WrapKeepsWords`, `CellsOwnValues`, `DumpCovers`; `ToolsExact` = `MathAsGrammar`, `Base64Returns`, `DateIsCalendar`, `SlugStable`, `TruncateKeepsPrefix`, `FormattedReads`; `WasiExact` = `StdinWhole`, `ReceivedWhole`, `FdNeverReused`; `RunsAsAsked` = `RunsRegistered`, `ArgsWhole`, `BudgetPerRequest`; `HostedAsAsked` = `MeteredAsAsked`, `ListedRoutable`, `CalledAsListed`, `CalledExecutable`, `LoadedInWindow` |
| `shmem_stale` (violation) | NDA client, 2 calls, 1 timeout | `StaleResponseDetected` fails: the late answer passes the sequence check, since only the client writes the sequence number |
| `context_socket_audit` (violation) | 2 workers, 2 sockets | `AuditIsolated` fails: a socket sets the thread-local once and resumes on a worker with another session |

### Other claims of the code that its behaviours do not satisfy

The modules state each of these as a property, at their end unless a run above checks it under
stronger conditions. Adding it to the run of the module (or to the instance named here) makes
TLC print the behaviour.

| Property | The claim | Instance | What happens |
|---|---|---|---|
| `ShutdownExits` | `src/main.rs:158` "Install Ctrl+C handler for graceful shutdown" | `shmem_live`, 1 timeout, 1 signal | an idle shared-memory server waits without limit (`src/ipc/shmem.rs:197`) and does not see the flag |
| `PeerBudget` | one burst per peer | `rate_limiter` | an evicted peer comes back with a full bucket |
| `FlushCountsWritten` | `src/audit.rs:250` "Returns the number of entries written." | `context` | the log is counted after the write |
| `FlushCovers` | `src/audit.rs:398` "Flush all session audit logs to disk." | `context` with 2 flushers, 2 flushes | the older of two exports of a session can be written last |
| `EvictsOldest` | `src/audit.rs:356` "evicted oldest session" | `context` | an arbitrary key goes |
| `CancelOwn` without `SocketsQuiet` | `src/protocol/json_rpc.rs:41` "prevents one client's cancellation from affecting another client's request" | 2 workers, 2 sockets | a socket's key is made from another session's cell |
| `TransportLabelled` | `src/audit.rs:37` "Transport layer" | `context` | a batch carries the transport of the worker's previous request |
| `CancelHonoured` | `src/protocol/json_rpc.rs:63` "Evict oldest entries" | 3 posts, 2 ids, `MaxCancelled` 1 | the full set is emptied, calls in flight included |
| `StreamedKept` | `src/transport/http.rs:868` "Evict sessions that have been idle beyond SESSION_TTL." | `web` | a full table does not refresh, and requests that only name a session do not count |
| `ChangesDelivered` | `docs/API.md:363` "to every `/v1/sse` subscriber within one second" | 2 subscribers, `Stalled = {c1}` | one client that does not read stops every broadcast |
| `GaugeReturnsToZero` | `src/transport/http.rs:115` "Number of active SSE connections" | `sse` | a client that goes while `sse_handler` waits for a lock stays counted |
| `OversizeNotParsed` | `src/protocol/json_rpc.rs:528` "rejected before JSON parsing" | `transports` | the rest of an oversized line is parsed as a request |
| `StdioStops` | `src/protocol/json_rpc.rs:526` "the server can exit cleanly even when stdin is blocking" | `transports` | the first read and the NDA loop do not see Ctrl+C |
| `ParseErrorsAnswered` | `src/protocol/json_rpc.rs:529` "Parse errors and unknown methods return proper JSON-RPC error responses." | `transports` | a line that is not UTF-8 ends the server without an answer |
| `NullIdAnswered` | `src/protocol/json_rpc.rs:139` an explicit null id is a present member | `transports` | a null id with an unknown method, or one of a notification, gets no answer |
| `SignalStops` | `src/main.rs:209` "Set up Ctrl+C to also set our local shutdown" | `transports` | ctrlc refuses a second handler, and Ctrl+C after the copy sets a flag nobody reads |
| `FlagStops` | `src/transport/http.rs:1634` "This function blocks until the shutdown signal is received." | `ServeFairSpec` | graceful shutdown waits for a client without limit |
| `SendsEndAlways`, `CloseEnds` | sends and `close` return | `transports` | a child that fills its stderr pipe, which nobody reads, stops both |
| `UsableAfterCancel` | a dropped call costs others nothing | `transports` | it takes the child's pipes along |
| `BinaryAnswersOwn` | a request gets its own answer | `transports` | over NDA shared memory it may get that of a call that timed out |
| `OneWriter`, `NeverTorn` | `nested-poc/prototype_tools.rs:1569` "so only one writer enters the critical section at a time", `:1553` "never a torn/partial file" | `transports` | a slow owner's lock is reclaimed, and both write the same temporary file |
| `EdgeExact`, `VersionCounts` | the in-guest client and `version` are exact | `transports` | a statement whose answer was lost is sent again |
| `EveryCallRegisters` | `src/plugins/mod.rs:597` "The JSON path registers as a side effect of every call" | `runtimes` | the second JSON call of a tool is refused as a duplicate |
| `RebuiltAfterTrap` | `src/plugins/mod.rs:451` "will be rebuilt on the next call" | `runtimes` | the tool stays refused for the life of the process |
| `FallbackProven` | `src/registry.rs:769` "A failed registration proves there is no binary executor" | `runtimes` | the loser of two registrations reports a working tool as unsupported |
| `TrappedDiscarded` | `src/plugins/mod.rs:421` "the cached instance cannot be trusted again" | `runtimes` | a trap during registration leaves the instance cached (after a trap in a call it is discarded) |
| `RightProgram` | `src/plugins/mod.rs:478` "rather than allowing silent overwrites" | `SharedSlot = TRUE` | where a guest has one program slot, a call runs another tool's source |
| `HardDeadline` | `src/sandbox.rs:12` "Hard deadline with process kill (30s default)" | `runtimes` | the deadline is looked at only after stderr has ended |
| `PluginTimeout` | `src/plugins/mod.rs:333` "Execute the command with timeout" | `runtimes` | a descendant that keeps the pipes open holds the call |
| `NoZombie`, `PipesDrained`, `EngineStderrDrained` | children are reaped and read | `runtimes` | a killed child is not waited for; one that fills a pipe nobody reads cannot end |
| `ServerErrorsRetried` | `src/registry.rs:1914` "Retry on 5xx server errors (transient)" | `runtimes` | the HTTP client reports them as errors, which take the other branch |
| `PostOnce` | a POST is carried out once | `runtimes` | it is sent again when the answer is lost |
| `SuccessReported` | a request the server answered with success is reported so | `runtimes` | a body that cannot be read makes it a failure (`src/registry.rs:1926`) |
| `LastEntryCloses` | the last line of a directory has the closing branch | `runtimes` | not when the limit cuts the listing |
| `FinalChunkSent` | a stream ends with a final chunk | `runtimes`, `Lengths` with 0 | an empty result has no chunk |
| `RecursionEnds` | `src/sampling.rs:4` "recursive/agentic behaviors" | `runtimes` | a callback that asks waits for the mutex its own request holds |
| `AnswerFollowsQuestion` | `src/sampling.rs:270` "Track assistant response in conversation history" | `runtimes` | after an eviction or a clear the answer opens a conversation of its own |
| `CacheCoherent` | `src/registry.rs:53` "rebuild only when the tool set actually changes" | `Engines = {"flaky"}` | discovery that fails in one thread and succeeds in another leaves a list no rebuild returns |
| `ConvertedCallable` | `src/registry.rs:2246` "executes via fast binary path" | `registry` | a converted tool stays listed after its frame was evicted |
| `HealthAlwaysAnswered`, `LimitHeadersOnAll`, `TrackedBounded` | `crates/velocity-mcp-edge/src/main.rs:632` "always allowed", `:656` "to all responses", `:288` "to bound memory" | `web` | the limit comes before the health check; early answers carry no headers; a table of live buckets grows |
| `WildcardOnlyIfAsked` | `crates/velocity-mcp-edge/src/main.rs:17` "Set to `"*"` to allow all origins. When unset, no CORS headers are sent." | `web` | a list whose entries are all blank allows all origins |
| `RefreshNeverFails`, `FileCurrent` | `src/oauth2.rs:905` "automatic token refresh", `:9` "Persistent file-based token storage" | `web` | of two refreshes one fails; a refresh is not written to the file |
| `DeliveredOnce`, `PendingKept` | a webhook is delivered once; `src/oauth2.rs:572` "clearing stale entries" | `web` | a lost answer repeats it; new authorizations are cleared too |
| `ServedIsValidAlways`, `SavedReloadsAlways`, `FileSetsEngine` | `src/config.rs:518` "Max request size must be greater than 0", `:8` "Configuration priority" | `web` | arguments come after validation; metering that is off is not saved; the engine's path is read from elsewhere (`src/registry.rs:2291`) |
| `ClearForgets`, `HitOwn`, `BodyReturned` | `src/middleware.rs:126` "Clear all entries", `:82` "so the caller can still use it" | `web` | an answer under way is stored after the clear; the key leaves out what was asked; a body that cannot be read is lost |
| `ReviewsKept`, `SurvivesCrash` | a submitted review is kept | `web` | requests write back copies; a truncated file is read as empty |
| `UpdateKeepsPlugin`, `NoStrayDirectory` | `src/plugins/marketplace.rs:520` "Update an installed plugin to the latest version" | `web` | a failed download leaves no plugin; a refused install leaves a directory |
| `ListedAsRead` | a resource is read as it is listed | `web` | a URI registered twice is listed twice and read as a file |
| `FilledAsMeantAlways`, `PathHonoured` | a prompt as its template means; the database that was set | `web` | a value with a placeholder is filled again, or not; the first connection stays |
| `WrittenWholeAlways`, `FailedKeepsFile`, `ReadWithinLimit`, `ListingSucceeds`, `ConvertNotBlocked` | file tools alone with their file | `web` | two writers overlay each other; a full disk leaves the file empty; size and content are read apart; an entry may vanish; a conversion waits for the engine |
| `MoveKeepsDestination` | `src/registry.rs:1125` "Check if destination already exists" | `web` | a file made in between is replaced, as the comment admits |
| `EveryValueReturns` | `src/registry.rs:2701` "preserves all JSON types and supports round-trip conversion" | `codec` | an integer above `i64::MAX` comes back as a float; deeper values do not come back |
| `CallAsDecodedAlways`, `ExtractAsDecodedAlways` | `src/protocol/nda_native.rs:672` "matching serde_json indexing semantics" | `codec` | of a name given twice, another one counts |
| `DecodeMirrorsSkip`, `ParsersAgree`, `FlatIdKept` | the readers of a frame agree | `codec` | the walk accepts what is no UTF-8; parsers differ on trailing bytes; an id that is no number becomes 0 |
| `LongStringsKept`, `MerkleCoversCommands`, `UnsignedHasNone` | `src/nda_document.rs:353` "Verify the document's Merkle root integrity" | `codec` | lengths wrap at 2^16; commands are outside the root; text may look like a signature |
| `ReadResolvesAlways`, `EveryValuedCellStored` | a document that was read can be shown; a cell with a value is kept | `codec` | `get_string` fails on bytes that are no UTF-8, which `read` does not check (`src/nda_document.rs:314`); a shared index that is no number or out of range stores nothing (`src/nda_converter.rs:365`) |
| `EveryCellStored`, `SharedIndexRight`, `ParagraphsKept` | converters keep what they convert | `codec` | 15 rows and 4 columns are kept; an item of several runs shifts the rest; nested text ends a paragraph |
| `TruncateWithinLimit` | `crates/velocity-mcp-edge/src/tools.rs:133` "For truncate: maximum output length." | `codec` | three dots come on top of the limit |
| `FormattedReadsAlways`, `EllipsisMeansCut`, `OnlyEncodingsDecode` | the edge tools' descriptions | `codec` | keys are printed without escapes; an ellipsis without a cut; malformed Base64 is accepted |
| `EveryFileClosable`, `ThreeIsThePreopen`, `ReadyMeansOpen` | descriptors behave as POSIX's | `codec` | a file at the sockets' base cannot be closed; 3 may be a file; a poll calls a closed number ready |
| `RunsOwnSource` | `src/plugins/mod.rs:397` "detect duplicate registrations that would silently hijack" | `codec` | in a guest with one program slot, registering another tool replaces the program, and registering the first again is skipped as unchanged |
| `RunsRegisteredAlways`, `ArgsWholeAlways`, `HandlesFreed` | `src/wasm_runtime/lua.rs:276` and others | `codec` | a half-done registration stays; re-encoded arguments are not measured; QuickJS handles are lost |
| `MeteredAlways`, `RoutableAlways`, `LiveListed` | a module has the limit of its key; tools have hosts | `codec` | the limit is read twice; a runtime registered again leaves tools behind |
| `LoadedWithinLimit`, `LastLoadWins` | manifests are limited; a reload shows the directory | `codec` | the file grows after its size was read; an older scan is stored last |

### Bounds, and why they are enough

Every hazard of the first table is a meeting of two actors, so two threads, clients or calls
meet and a third one (a third call after a timeout, a third session at a limit of two, a third
sampler) shows what is left behind. Limits (`MaxSessions`, `MaxEntries`, `Cap`,
`MaxSubscribers`, `MaxFrames`, `MAX_PEER_BUCKETS`, `MAX_STATES`, `CacheSize` and their like) are
1 or 2 so that they are reached, except where the question is what happens below them
(`MaxCancelled` 5). Three shared-memory calls are what a late answer needs: the call
that times out, the one that meets its answer, and one after that. `MaxTimeouts` 2 lets the
second call time out as well. Capacity 1 with two changes makes the watcher wait at a full
channel. The JSON client is the one checked with faults because its id check adds a property;
the theorems of section 4 hold for both clients. The scale of the token bucket is 2 instead of
1000 and its burst is 3, so that a refill is cut and a bucket can hold less than one token. A
pipe of two chunks and programs that write three fill it.

In `NdaCodec` a byte is below 8 and a length takes one byte, so that all buffers of four bytes,
the depth limit and a string that ends beyond its buffer are met; in `NdaDocuments` lengths are
modulo 3, so that they wrap. The calendar is walked day by day across 1970, 1999/2000 and the end of
2099. Expressions of five symbols hold two binary operators, or a unary one with parentheses.
`Sign` is exact for every divisor and every argument of a root or logarithm that five symbols can spell.
Four requests are two registrations, a third that is skipped, and a call. A budget
of one point is used up by every call, so that one request's budget shows if it is left to the next. The five runtimes
that share PHP's record (C#, Java, Julia, Perl, R), and MicroPython, which shares Lua's, are not run again;
the theorem covers them all.

Bounds on counters stop a model, not the program: that is why the configurations say
`CHECK_DEADLOCK FALSE`, and why liveness is checked with the bounds far enough out that what is
waited for can still happen.

### Fairness

- `ShmemChannel`: weak fairness of the client's and of the server's step. The operating system
  schedules both; calls, deadlines, crashes and signals are never forced.
- `SseBroadcast`: weak fairness of the watcher's tick (an interval timer) and of the handler and
  the reads of clients that read; strong fairness of taking the lock and of a send, since
  tokio's lock and channel permits are first come, first served.
- `StdioServer`: weak fairness of the main and of the reader thread; the client need not write
  or close.
- `HttpLifecycle`: weak fairness of main and of tools that return; `PoliteSpec`, which the run
  uses, adds clients that close their connections.
- `McpClient`: strong fairness of a task's step and of `close` (tokio's mutex is first come,
  first served) and weak fairness of the server process.
- `NestedPlugins`: weak fairness of an instance's step and of time.
- `WasmDispatch`: weak fairness of every thread: guests return or trap.
- `ChildProcess`: weak fairness of caller, readers and program; a program that hangs has no step
  to be fair to.
- `OutboundHttp`, `Streaming`, `Sampling`: weak fairness of every call's own steps, and of a
  receiver that is still there.

In the runs with parts, the fairness of a part holds in its own behaviours only.

## 4. What is proved

For every value of the constants that satisfies the named `ASSUME`; no further assumption is
used unless stated. Each invariant below is inductive: `…Init`, `…Step` and a theorem that
combines them.

### ShmemChannelProofs

- `OutputExclusiveHolds`: the client never copies an answer while the server handles a request.
  The property is not inductive, since a client that has seen an answer reads the region some
  steps later. `ExclusionInv` adds that the state byte is what both sides' positions say it is.
- `TypeCorrect`: `TypeInv` is `TypeOK` with `InputWritten`: a request that is ready has been
  written, so the number read from a cell is that of a call.
- `OwnAnswerHolds`, `AtMostOnceHolds` and, together, `ExactUntilTimeoutHolds`: until a call times
  out, answers belong to their call and requests run once, crashes and restarts included.
  `UntilTimeoutInv` has three parts: `LockStep` (client and server take turns), `RequestFresh` (a
  request waiting to be claimed is the current call and has not run) and `AnswerFresh` (what is
  being published is for the current call).
- `JsonAnswerOwnHolds`: after timeouts too, an answer the JSON client accepts is its own, unless
  the server copied its input while it was written. `BodiesWhole` says that the id an answer
  carries is that of the call it answers, in the server's hands and in the output region; it
  need not say whose answer that is, since the client compares the id.

### RateLimiterProofs

- `TypeCorrect`, `CreditedOnceHolds`, `NoOverGrantHolds`, `RefillMonotoneHolds` for any number of
  threads. `RLInv` is `TypeOK`, `LocalInv` (what a thread has loaded is not in the future),
  `Ledger` (the intervals that threads have claimed and not yet added are disjoint from each
  other and from what was added, and lie before the last refill) and `Paid` (grants and
  remaining tokens together are covered by the burst and the time added).
- `ImplementsBudgetHolds`: `RateLimiter` implements `TokenBudget`. Under the mapping, the addition
  of a claimed interval is a deposit, the successful exchange of `try_acquire` a withdrawal, a
  tick of the clock passes time, and every other step stutters; `Ledger` is what makes a
  deposit one of time not yet deposited.
- `PeerIsolatedHolds`, `PeerGrantBoundedHolds` and, together, `PeersApartHold`: for any peers and
  any size of the table. The invariant relates each bucket to what its peer was let through: a
  tracked peer's tokens and its passed requests make up at least a burst, and the bursts and
  the refill cover both.

### ContextProofs

- `AuditRoutedHolds`: an entry of a request that does not resume after an `await` carries that
  request's session. `RoutedInv` needs that a worker is held by one task (`Exclusive`) and that
  the cell of a worker that polls such a task is its own (`CellIsOwn`).
- `CancelsKeptHold`: `CancelOwn` always, and `CancelsKept` while fewer cancellations were asked for
  than the set holds (`Roomy`; the run has room for all it can ask for). `CancelInv` says that
  what is in the set was asked for, that what was asked for is in the set or was called, and that
  of two calls that execute no two have one session and one id. `Roomy` is needed: a full set is
  emptied, which section 3 lists.
- `EntriesKeptHolds`: `EntriesKept`, whose first three parts, `RegistryBounded`, `NoOrphanEntry` and
  `LogsIsolated`, are also `RegistryHolds`. `AuditInv` gives each log an
  owner (`Owners`: the map, the threads that hold it and the entries in it agree), says that a
  log in a thread's hands is the registered one or was dropped (`NotOrphaned`), and that a number
  is drawn once. `LogsInv` says that a ring holds recorded entries, each once, up to its limit.
  `ExportInv` follows an export between its steps: what it has to have is in its answer, in a log it
  has still to copy, or was trimmed (`Walk`); no log is copied twice, so nothing is twice in the answer; and
  while no log was dropped, what the summary has counted is at most what it has copied and the
  logs it has still to copy (`Summary`, counted with the sets `Slots` of places in those logs).
  That the sort gives every entry once and newest first is `SortedArranges`, an
  induction on the length of what is sorted: numbers are drawn once, so the order is total.
- `FlushCoversHolds`, with one flusher: a flush that reports success has written every entry that
  was registered when it began. `FlushInv` accounts for each entry that is due: its log is still on the
  flusher's list, or it is in the exported text, in the file, or trimmed from the ring. With two
  flushers it is false (section 3).

### ServicesProofs

- `GaugeCoversOpenHolds`: `CountedInv` says exactly which clients the gauge counts, those that
  have begun and whose heartbeat has not taken them off; the open ones are among them.
- `LockHeldWhileSendingHolds`: at most one broadcaster is between its `retain` and its last send.
- `HostedAsAskedAlways`: `MeteredInv` says that an entry of the module cache has the limit of its key
  unless the limit changed between the engine and the key. `RoutedInv` ties the table of tools to
  the guests that have them. `PluginInv` says that what a scan has found, and so what it stored, was
  in its file since the scan's load began, and that all of it can be executed. `CalledListed`, that
  `get_tools` and `call_tool` take the same of several tools with one name, is about data only:
  the first tool of a name among the plugins' tools put together is the first of the first plugin that
  has one (`FirstFlattened`, by induction on the number of plugins).
- `PromptsHonestAlways`: a template and its arguments are a text and a function from words to
  texts (`Sub`). Replacing one argument after the other is a composition of such functions, and it
  is the function with all arguments if no argument has a placeholder in it (`SubSub`,
  `FilledOneMore`, `FilledIs`): the order of the map does not matter. From this follow what an answer
  shows (`NoneShown`) and that a block gives a block whatever fails (`BlocksAsMany`); `AnswerInv`
  adds that the connection is the one of the first reading.
- `FilesWholeAlways`: `CallInv` says where a call can be with something changed or open: nothing
  before its write, and an edit that writes was found in full and is not a dry run. `FrameInv`
  says that the holder of the frame cache runs a frame of a tool that does not cache one, so
  it never waits for itself. `InodesInv` is about files that two writers never had open at
  once: such a file holds what one of its writers put out, or its writer is at it or failed, and
  it is empty while it is open for writing (`Alone`). The property is about names, the
  invariant about inodes, since `rename` moves a name while a writer has the file open.
- `OutboundExactAlways`: `HttpCallInv` bounds what the server carried out by the attempt a call is at,
  one less before the request of this attempt was served, and says that a method or header that is
  refused is refused in the first attempt, and that nothing but transport errors was heard before an
  attempt is repeated (`Unheard`). That `DirectoryTree` lists the first entries of `Preorder`
  (`TreeIsPreorder`) is an induction on the levels (`LevelsWalk`) around one on the entries of a directory
  (`DirectoryWalks`). `Walked` is what both keep: the entries printed are those of the preorder so
  far, cut at the limit, that are not excluded, and the counter is what the preorder so far leaves of it
  (`NextWalks`); so a subdirectory that uses the limit up ends the loops of all levels above it.

### TransportsProofs

- `CallsFlushedHolds`: a call that began is recorded or still in its handler (`CallsAccounted`), and
  when the runtime is gone no handler is left.
- `LinesAnsweredHolds`: `StdioInv` follows every piece of a line through stdin, the channel and the
  output: they are in order in each and across them (`WaitInOrder`, `OutInOrder`), a line that
  wants an answer waits or has it (`NoneLost`), one thread reads at a time (`OneReader`), and the
  main thread leaves only when both are empty or at Ctrl+C (`Drained`, `Prompt`).
- `SendsHonestHolds`: `ClientInv` says that the mutex is held by the task that writes or reads,
  that while the pipes exist the one request in them is that task's (`OneUnderWay`: this is why a
  cancelled task that takes the pipes with it cannot leave an answer to the next), that a closed
  client sends nothing new, and that `initialized` exists only after `initialize` was handled.
- `StoresExactHolds`: for the file store, unless a lock was reclaimed from a living owner, the one
  in the critical section holds the lock, the temporary file is what it is to publish, and the registry
  is the ledger of the changes so far (`FileExact`); for the database, how often a statement may
  have been applied follows from whether the connection was a kept one (`PgExact`).

### RuntimesProofs

- `ExecutedAtMostOnceHolds`: `OnceInv` says that a request that may still make a binary attempt
  has not run, and that one which falls back after a run finds its name in
  `WASM_TOOL_REGISTRY`, so that the JSON path refuses it.
- `OutputKeptHolds`: chunks are conserved, those in a pipe, kept and cut being together those
  written, and a pipe that has ended stays so; what each of the four callers has read when it
  answers follows from where it is.
- `TurnsKeptHolds`: the messages of the request that holds the mutex are the last ones of its
  conversation, and a request that has not begun or has been answered adds none.
- `ChunksWholeHolds`: what was received, what is in the channel and what is left to send are, in this order,
  the chunks of the result; a key that one stream uses counts no more than was sent.

### WebProofs

- `SessionsKeptHolds`: handlers that are between the two atomics of `record_request` are counted as sets,
  which change by one handler at a time; the entry of a session carries the tick of its last
  streamable request, which is what the idle clean-up compares.
- `ConnectorsHonestHolds`: a token on its way outlasts the rest of the call; while nothing was
  spoiled (an answer lost, a token evicted, a code exchanged meanwhile) the stored refresh
  token is the one the provider accepts or that of the refresh under way; a state is with one flow.
- `SettingsHonestHolds`: each source holds values of its settings, what was merged is off only if a
  source says so, and what is served is what the merge and the arguments give.
- `InstallsKeptHolds`: as long as no request overlapped another and no removal or write of a file failed (`disturbed`),
  `Orderly` holds: there is at most one request; its
  copies are the files until it writes, and agree with the directories while it does.
- `ResourcesKeptHolds`: the pages a client has seen are a prefix of the list with the cursor at its
  length, and the queue is a run of numbers that ends with the last update.
- `HitsHonestHolds`: `CacheInv` says that every entry, and every body on its way to the cache, is a
  success with an expiry of its time plus `TTL`.
- `EdgeHonestHolds`, under `KeysFit`: no configured key is longer than `MaxKeyLen`. It is needed
  because `timing_safe_eq` compares the lengths and the first 256 bytes, so that two longer keys of one
  length may pass for each other. `Covered` is the budget in inductive form: since any request of an
  address, the requests let through and what its bucket holds now are at most the capacity and the
  refill. The sweep keeps it because a bucket old enough to be swept is full. `BodiesChecked`
  says that a request whose body is awaited has passed the layers before it.

### ToolsProofs

- `CacheCoherentHolds`, `RegisteredListedHolds`, `FramesBoundedHolds` and, together,
  `ListsCurrentHolds`, under `Steady` (discovery always succeeds or always fails): a list cached
  under the current generation is what a rebuild returns, and a tool whose registration has
  returned is in the next list. `CoherentInv` says of a builder whose
  generation is still current that what it has collected is a prefix of the rebuilt list
  (`Prefix`), that generations are never ahead (`Behind`) and what the engine's cell can hold
  (`Settled`). `Steady` is needed: with `Engines = {"flaky"}` TLC finds a counterexample.
- `RunsAsAskedHolds`: `Recorded` says that the host's table is what was asked for, and that the
  guest's program of a tool is what was asked for that tool or, where there is one program slot, for the tool
  registered last (`Resident`), except where a registration was cut short since; Rust, which keeps its
  first instance, is excepted.
- `WasiExactHolds`: a read splits the bytes into those delivered and those left. `FdsInv`: numbers of
  files are below `nextFd`, those of sockets in `SOCKET_FD_BASE` and above and below their own counter, and a
  closed number has been handed out already.

### Assumptions on constants

Bounds of the exploration are naturals, and model values for "nobody" are not among the actors.
The assumptions that say more, and where they come from:

| Assumption | What it says | Why |
|---|---|---|
| `StreamingAssumption` | chunk sizes are not 0 | `chunks(0)` panics |
| `SamplingAssumption`, `CacheAssumption`, `AuditAssumption`, `PeerAssumption`, `RegistryAssumption` | the limits are not 0 | they are non-zero constants of the code, or `NonZeroUsize` |
| `ResourcesAssumption` | the queue holds at least 2 | a full queue gives up half of itself |
| `ConnectorsAssumption` | the refresh buffer covers a call, and a token lives longer than one | a margin of 300 s against two time-outs of 30 s; the second is the provider's |
| `EdgeAssumption` | a minute and the life of a connection are not 0; keys and proxy chains are sequences | types and constants of the code |
| `MarketAssumption`, `HttpAssumption`, `ChildAssumption`, `LangAssumption` | versions, times, sizes and lengths are naturals, handlers are finitely many | types of the code |
| `NestedAssumption` | half-written text is not a registry | the parser refuses it |
| `HostAssumption` | the tools of a manifest that parses are a sequence | the field is a `Vec` |
| `TextsAssumption` | texts are sequences of words, none of which is the mark of a value that is no text | the mark is the model's |
| `FilesAssumption` | there are finitely many files; no tool outside the match has the name of one in it; edits and texts are sequences | the match on the name comes first; types of the code |
| `OutboundAssumption` | statuses, depths and limits are naturals; a directory is a sequence whose entries have a directory or the mark of a file below them | types of the code; what `read_dir` and `is_dir` answer |
| `WasiAssumption` | sockets are numbered above the standard descriptors; the sum of the lengths of buffers is a natural | a constant of the code; the sum is a fold, whose value needs an induction |

TLC evaluates all of them on every run of their module.

### Induction

The facts about data that the theorems rest on (a flattened sequence, texts with replacements, a
sorted answer, applied edits, a walk of directories) are proved by induction on a length. The
library states induction for an operator, which the provers here cannot be given, so `Least` and
`SetInduction` derive it for the members of a set from `NatLessThanWellFounded` and `WFMin`, which
speak of sets; `SeqInduction` is the same for the sequences of a set. A recursive function is
first shown to exist (`FlatExists`, `FillExists`, `EditorExists`, `PassesExists`, `BuildExists`)
and then unfolded.

### Only model-checked

- Liveness: `CallsReturn`, `ChangesDelivered`, `TransportsEnd`, `CallsEnd`. It rests on fairness and
  `ENABLED`, which are out of this prover's reach.
- What recursive operators compute: `ValuesReturn`, `FramesReturn` (`NdaCodec`), `DocumentsKept`
  (`NdaDocuments`), `ToolsExact` (`EdgeTools`).
  The provers cannot use a module that declares one. Recursion over nested values has no
  natural bound to recurse on, so restating it as functions would make these models
  longer and further from the code.

## 5. What is left

1. Restate the encoder and the walk of `NdaCodec` over values of bounded depth, as functions, and
   prove `ValuesReturn` by induction on the depth.
2. Compose: `HttpSessions` with `AuditRegistry` (a removal ends a log), `ToolRegistry` with
   `SseBroadcast` (a generation is what the watcher polls), `McpClient` over `ShmemChannel`
   instead of its summary.
3. A second refinement: a call channel that delivers each answer to its call, under
   `ShmemChannel` until the first timeout.
4. Model the non-Windows build of the shared-memory channel, and the CGI entry of the edge crate.
