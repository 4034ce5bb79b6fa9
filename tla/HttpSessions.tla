--------------------------- MODULE HttpSessions ----------------------------
(***************************************************************************)
(* The protected routes of src/transport/http.rs: the layers every request *)
(* passes (rate limit, authentication, content type), the session table    *)
(* with its limit and its idle clean-up, and the request metrics.  A       *)
(* handler's accesses to shared state are separate steps: the two atomics  *)
(* of record_request, and the session entry touched before the task that   *)
(* serves a streamable request is spawned.  One tick is an interval of     *)
(* cleanup_sessions.  The removal of a session's audit log, which happens  *)
(* under the same lock, is the Remove of AuditRegistry.                    *)
(***************************************************************************)
EXTENDS Integers, FiniteSets

CONSTANTS
    ApiKey,        \* security.api_key: "none", "empty" or "set"
    Slots,         \* requests in progress at a time
    Sids,          \* valid session ids clients present
    Fresh,         \* ids the server makes up (Uuid::new_v4)
    MAX_SESSIONS,
    SESSION_TTL,   \* in ticks
    MaxTicks,      \* bound: ticks
    MaxRequests,   \* bound: requests served
    MaxRefusals    \* bound: requests turned away by the layers

ASSUME HttpAssumption == IsFiniteSet(Slots) /\ SESSION_TTL \in Nat

VARIABLES
    stopping,  \* the shutdown flag
    ticks,
    sessions,  \* the table: id -> last_activity
    metrics,   \* the counters of HttpMetrics
    slot,      \* the handlers in progress
    nreq,
    calls,     \* history: requests handed to the dispatcher, or refused by the flag
    streamed,  \* history: tick of the session's last streamable request
    wasFull    \* history: a streamable request met a full table

httpVars == <<stopping, ticks, sessions, metrics, slot, nreq,
              calls, streamed, wasFull>>

Never == -1
Ids == Sids \cup Fresh
Kinds == {"post", "batch", "stream", "sse", "socket", "delete"}
Tokens == {"absent", "empty", "set"}   \* what follows "Bearer "
Free == [at |-> "free", kind |-> "post", sid |-> "none", ok |-> FALSE]

HttpInit ==
    /\ stopping = FALSE
    /\ ticks = 0
    /\ sessions = [s \in {} |-> 0]
    /\ metrics = [total |-> 0, ok |-> 0, failed |-> 0, auth |-> 0, limited |-> 0]
    /\ slot = [r \in Slots |-> Free]
    /\ nreq = 0
    /\ calls = 0
    /\ streamed = [s \in Ids |-> Never]
    /\ wasFull = FALSE

\* auth_middleware: without a configured key everyone passes; an empty key
\* authenticates nobody.  token is what follows "Bearer ".
Authorized(token) == ApiKey = "none" \/ (ApiKey = "set" /\ token = "set")

\* sanitize_session_id: an id that is absent or malformed becomes a new one.
Resolve(raw) ==
    IF raw \in Sids THEN {raw} ELSE Fresh \ DOMAIN sessions

\* rate_limit_middleware, then auth_middleware, turn a request away and count it.
Refuse(token, limited) ==
    /\ metrics.limited + metrics.auth < MaxRefusals
    /\ IF limited THEN metrics' = [metrics EXCEPT !.limited = @ + 1]
       ELSE ~Authorized(token) /\ metrics' = [metrics EXCEPT !.auth = @ + 1]
    /\ UNCHANGED <<stopping, ticks, sessions, slot, nreq, calls,
                   streamed, wasFull>>

\* A request that passes both, and request_validator_middleware, which answers a
\* body of another type without counting it, reaches its handler.
Request(r, kind, raw, token) ==
    /\ slot[r] = Free /\ nreq < MaxRequests
    /\ Authorized(token)
    /\ nreq' = nreq + 1
    /\ \E s \in Resolve(raw) :
         slot' = [slot EXCEPT ![r] = [at |-> "handler", kind |-> kind, sid |-> s, ok |-> TRUE]]
    /\ UNCHANGED <<stopping, ticks, sessions, metrics, calls, streamed, wasFull>>

\* Faulty variant: a request refused during shutdown is not counted.
PostUncounted(r, ok) ==
    /\ slot[r].at = "handler" /\ slot[r].kind \in {"post", "batch"}
    /\ calls' = calls + 1
    /\ IF stopping
         THEN slot' = [slot EXCEPT ![r] = Free]
         ELSE slot' = [slot EXCEPT ![r].at = "count",
                                   ![r].ok = ok \/ slot[r].kind = "batch"]
    /\ UNCHANGED <<stopping, ticks, sessions, metrics, nreq, streamed, wasFull>>

\* handle_json_rpc, handle_nda_rpc, handle_batch: refused during shutdown,
\* otherwise dispatched.  None of them looks at the session table.  A batch
\* always answers 200, even when it is refused as too large.
Post(r, ok) ==
    /\ slot[r].at = "handler" /\ slot[r].kind \in {"post", "batch"}
    /\ calls' = calls + 1
    /\ slot' = [slot EXCEPT ![r].at = "count",
                            ![r].ok = ~stopping /\ (ok \/ slot[r].kind = "batch")]
    /\ UNCHANGED <<stopping, ticks, sessions, metrics, nreq, streamed, wasFull>>

\* Faulty variant: a streamable request does not refresh a session it finds.
StreamOpenStale(r) ==
    LET s == slot[r].sid IN
       /\ slot[r].at = "handler" /\ slot[r].kind = "stream"
       /\ streamed' = [streamed EXCEPT ![s] = ticks]
       /\ IF Cardinality(DOMAIN sessions) >= MAX_SESSIONS
            THEN wasFull' = TRUE /\ UNCHANGED sessions
            ELSE /\ sessions' = [t \in DOMAIN sessions \cup {s} |->
                                   IF t \in DOMAIN sessions THEN sessions[t] ELSE ticks]
                 /\ UNCHANGED wasFull
       /\ slot' = [slot EXCEPT ![r].at = "spawned"]
       /\ UNCHANGED <<stopping, ticks, metrics, nreq, calls>>

\* handle_streamable under the write lock: at the limit the entry is neither
\* created nor refreshed; the request is served all the same.
StreamOpen(r) ==
    LET s == slot[r].sid
    IN /\ slot[r].at = "handler" /\ slot[r].kind = "stream"
       /\ streamed' = [streamed EXCEPT ![s] = ticks]
       /\ IF Cardinality(DOMAIN sessions) >= MAX_SESSIONS
            THEN wasFull' = TRUE /\ UNCHANGED sessions
            ELSE /\ sessions' = [t \in DOMAIN sessions \cup {s} |->
                                   IF t = s THEN ticks ELSE sessions[t]]
                 /\ UNCHANGED wasFull
       /\ slot' = [slot EXCEPT ![r].at = "spawned"]
       /\ UNCHANGED <<stopping, ticks, metrics, nreq, calls>>

\* The spawned task: it gives up when the client has gone before the session
\* event, otherwise it dispatches and counts a success.  It ignores the flag.
StreamRun(r, gone) ==
    /\ slot[r].at = "spawned"
    /\ IF gone
         THEN slot' = [slot EXCEPT ![r] = Free] /\ UNCHANGED calls
         ELSE /\ calls' = calls + 1
              /\ slot' = [slot EXCEPT ![r].at = "count"]
    /\ UNCHANGED <<stopping, ticks, sessions, metrics, nreq, streamed, wasFull>>

\* sse_handler: a session is created when there is room; one that exists keeps
\* its last activity.
SseOpen(r) ==
    LET s == slot[r].sid IN
    /\ slot[r].at = "handler" /\ slot[r].kind = "sse"
    /\ sessions' = IF s \in DOMAIN sessions \/ Cardinality(DOMAIN sessions) >= MAX_SESSIONS
                     THEN sessions
                     ELSE [t \in DOMAIN sessions \cup {s} |->
                             IF t = s THEN ticks ELSE sessions[t]]
    /\ slot' = [slot EXCEPT ![r] = Free]
    /\ UNCHANGED <<stopping, ticks, metrics, nreq, calls, streamed, wasFull>>

\* handle_websocket, one message: limited, oversized, unparsable and batch
\* messages are answered and not counted; a dispatched one counts as a success
\* only when it has an answer.  The session is made up and is in no table.
SocketMessage(r, outcome) ==
    /\ slot[r].at = "handler" /\ slot[r].kind = "socket"
    /\ IF outcome = "refused"
         THEN slot' = [slot EXCEPT ![r] = Free] /\ UNCHANGED calls
         ELSE /\ calls' = calls + 1
              /\ slot' = [slot EXCEPT ![r].at = "count", ![r].ok = (outcome = "answer")]
    /\ UNCHANGED <<stopping, ticks, sessions, metrics, nreq, streamed, wasFull>>

\* delete_session: the entry and the log go under one lock; an id that is not in
\* the table is 404 and its log stays.
DeleteSession(r) ==
    LET s == slot[r].sid IN
    /\ slot[r].at = "handler" /\ slot[r].kind = "delete"
    /\ IF s \in DOMAIN sessions
         THEN /\ sessions' = [t \in DOMAIN sessions \ {s} |-> sessions[t]]
              /\ streamed' = [streamed EXCEPT ![s] = Never]
         ELSE UNCHANGED <<sessions, streamed>>
    /\ slot' = [slot EXCEPT ![r] = Free]
    /\ UNCHANGED <<stopping, ticks, metrics, nreq, calls, wasFull>>

\* record_request: total_requests first ...
CountTotal(r) ==
    /\ slot[r].at = "count"
    /\ metrics' = [metrics EXCEPT !.total = @ + 1]
    /\ slot' = [slot EXCEPT ![r].at = "outcome"]
    /\ UNCHANGED <<stopping, ticks, sessions, nreq, calls, streamed, wasFull>>

\* ... and the outcome with a second atomic.
CountOutcome(r) ==
    /\ slot[r].at = "outcome"
    /\ metrics' = IF slot[r].ok THEN [metrics EXCEPT !.ok = @ + 1]
                                ELSE [metrics EXCEPT !.failed = @ + 1]
    /\ slot' = [slot EXCEPT ![r] = Free]
    /\ UNCHANGED <<stopping, ticks, sessions, nreq, calls, streamed, wasFull>>

\* Faulty variant: a session is evicted one tick early.
CleanupEarly ==
    LET idle == {s \in DOMAIN sessions : ticks - sessions[s] >= SESSION_TTL - 1} IN
    /\ ~stopping
    /\ sessions' = [s \in DOMAIN sessions \ idle |-> sessions[s]]
    /\ UNCHANGED <<stopping, ticks, metrics, slot, nreq, calls, streamed, wasFull>>

\* cleanup_sessions, on a timer until shutdown.
Cleanup ==
    LET idle == {s \in DOMAIN sessions : ticks - sessions[s] >= SESSION_TTL} IN
    /\ ~stopping
    /\ sessions' = [s \in DOMAIN sessions \ idle |-> sessions[s]]
    /\ UNCHANGED <<stopping, ticks, metrics, slot, nreq, calls, streamed, wasFull>>

TimePasses ==
    /\ ticks < MaxTicks
    /\ ticks' = ticks + 1
    /\ UNCHANGED <<stopping, sessions, metrics, slot, nreq, calls,
                   streamed, wasFull>>

Stop ==
    /\ ~stopping
    /\ stopping' = TRUE
    /\ UNCHANGED <<ticks, sessions, metrics, slot, nreq, calls,
                   streamed, wasFull>>

HttpNext ==
    \/ \E tok \in Tokens, lim \in BOOLEAN : Refuse(tok, lim)
    \/ \E r \in Slots :
         \/ \E k \in Kinds, raw \in Sids \cup {"bad"}, tok \in Tokens : Request(r, k, raw, tok)
         \/ \E ok \in BOOLEAN : Post(r, ok)
         \/ StreamOpen(r)
         \/ \E gone \in BOOLEAN : StreamRun(r, gone)
         \/ SseOpen(r)
         \/ \E o \in {"refused", "answer", "silent"} : SocketMessage(r, o)
         \/ DeleteSession(r)
         \/ CountTotal(r) \/ CountOutcome(r)
    \/ Cleanup \/ TimePasses \/ Stop

HttpSpec == HttpInit /\ [][HttpNext]_httpVars

-----------------------------------------------------------------------------
\* Type invariant; the table stays within MAX_SESSIONS.
HttpTypeOK ==
    /\ stopping \in BOOLEAN /\ ticks \in 0..MaxTicks
    /\ DOMAIN sessions \subseteq Ids /\ Cardinality(DOMAIN sessions) <= MAX_SESSIONS
    /\ \A s \in DOMAIN sessions : sessions[s] \in 0..ticks
    /\ \A r \in Slots : slot[r].at \in {"free", "handler", "spawned", "count", "outcome"}
    /\ nreq \in 0..MaxRequests /\ calls \in 0..nreq
    /\ streamed \in [Ids -> Never..MaxTicks] /\ wasFull \in BOOLEAN

\* Every request that reached the dispatcher, or that the shutdown flag refused,
\* is counted once in total_requests and once as a success or a failure, whatever
\* the interleaving of the atomics; a handler that has not finished counting is
\* the only difference.
MetricsBalance ==
    LET At(st) == Cardinality({r \in Slots : slot[r].at = st}) IN
    /\ metrics.total = metrics.ok + metrics.failed + At("outcome")
    /\ calls = metrics.total + At("count")

\* A session with a streamable request within SESSION_TTL is in the table, unless
\* it was deleted or the table was full: neither the clean-up nor another session
\* can take it away, although the entry is touched before the request is served.
ActiveKept ==
    \A s \in Ids :
        streamed[s] # Never /\ ticks - streamed[s] < SESSION_TTL /\ ~wasFull
            => s \in DOMAIN sessions /\ sessions[s] = streamed[s]

\* Handlers, streams and the idle clean-up share the table and the counters: an active
\* session is kept, and every request is counted once.
SessionsKept == MetricsBalance /\ ActiveKept

-----------------------------------------------------------------------------
(* Claims the code does not satisfy. *)

\* "Evict sessions that have been idle beyond SESSION_TTL": the table does not know
\* of requests posted with the session's id, and a full table does not refresh.
StreamedKept ==
    \A s \in Ids : streamed[s] # Never /\ ticks - streamed[s] < SESSION_TTL
                       => s \in DOMAIN sessions
=============================================================================
