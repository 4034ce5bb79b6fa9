----------------------------- MODULE EdgeServer -----------------------------
(***************************************************************************)
(* The edge deployment: velocity-mcp-edge's HTTP server over the pure      *)
(* request handler of velocity-mcp-core.                                   *)
(*                                                                         *)
(* A connection serves one request after another.  A request is read by    *)
(* handle_request up to the point where the body has to be awaited; the    *)
(* rest, from the body to the response, runs without another await.  All   *)
(* connections share one token bucket per client address.  The bucket is   *)
(* exact here: EdgeCapacity tokens per Minute ticks, counted in units of   *)
(* 1/Minute token.                                                         *)
(*                                                                         *)
(* An address is "proxy" (loopback, unspecified or private: trusted) or a  *)
(* client's; "junk" is a chain entry that does not parse.  A parameter of  *)
(* a JSON-RPC request is a string, or Other for any value that is not one. *)
(***************************************************************************)
EXTENDS Naturals, Sequences, FiniteSets, SequencesExt

CONSTANTS
  EdgeConns,          \* connections
  EdgeRequests,       \* the requests clients may send
  EdgeEnvs,           \* environments the process may be started in
  EdgeToolNames,      \* tools of edge_tool_definitions
  EdgeCapacity,       \* RATE_LIMIT_PER_MINUTE, 0: no limit
  Minute,             \* ticks of the refill window and of the idle limit
  MaxTracked,         \* 1000 in the code: tracked addresses before a sweep
  MaxKeyLen,          \* 256 in the code
  ConnTime,           \* ticks a connection may live
  EdgeClock, EdgeTotal   \* bounds: ticks and requests of a behaviour

ASSUME EdgeAssumption ==
  /\ EdgeCapacity \in Nat /\ MaxTracked \in Nat /\ MaxKeyLen \in Nat
  /\ Minute \in Nat \ {0} /\ ConnTime \in Nat \ {0}
  /\ EdgeClock \in Nat /\ EdgeTotal \in Nat
  /\ \A req \in EdgeRequests : /\ req.chain \in Seq(STRING) /\ req.key \in Seq(Nat)
                               /\ req.body \in Nat /\ req.length \in Nat
  /\ \A env \in EdgeEnvs : env.key \in Seq(Nat) /\ env.max \in Nat

VARIABLES
  config,     \* ServerConfig
  now,        \* the monotonic clock
  buckets,    \* RateLimiter.buckets
  conn,       \* connection -> what it is doing
  reply,      \* connection -> the response it sent last, <<>> before one
  total,      \* requests that arrived
  spent       \* address -> ticks at which a request of it was let through

edgeVars == <<config, now, buckets, conn, reply, total, spent>>

Unset == "unset"
Other == "#"          \* a JSON value that is not a string
NoId == 0             \* Option::None

(***************************************************************************)
(* velocity-mcp-core.  An error code is named by its decimal form.         *)
(***************************************************************************)
OkResponse(id) == [id |-> id, code |-> "none", tool |-> "none"]
ErrorResponse(id, code) == [id |-> id, code |-> code, tool |-> "none"]

\* params[f].as_str().unwrap_or(""); params that are no object have no fields.
Text(params, f) == IF f \in DOMAIN params /\ params[f] # Other THEN params[f] ELSE ""

ToolsCall(rpc) ==
  IF Text(rpc.params, "name") = "" THEN ErrorResponse(rpc.id, "-32602")
  ELSE [OkResponse(rpc.id) EXCEPT !.tool =
          IF /\ Text(rpc.params, "name") \in EdgeToolNames
             /\ Text(rpc.params, "arguments") # "bad"
          THEN "output" ELSE "isError"]

ResourcesRead(rpc) ==
  ErrorResponse(rpc.id, IF Text(rpc.params, "uri") = "" THEN "-32602" ELSE "-32001")

PromptsGet(rpc) ==
  ErrorResponse(rpc.id, IF Text(rpc.params, "name") = "" THEN "-32602" ELSE "-32001")

CompletionComplete(rpc) ==
  IF /\ Text(rpc.params, "ref.type") \in {"ref/prompt", "ref/resource"}
     /\ Text(rpc.params, "argument.name") # ""
  THEN OkResponse(rpc.id) ELSE ErrorResponse(rpc.id, "-32602")

Handlers == {"initialize", "ping", "tools/list", "resources/list",
             "resources/templates/list", "prompts/list"}

Notifications == {"notifications/initialized", "notifications/cancelled"}

\* A mutant of Dispatch: the version is not looked at.
DispatchAnyVersion(rpc) ==
  IF rpc.method \in Handlers THEN OkResponse(rpc.id)
  ELSE IF rpc.method = "tools/call" THEN ToolsCall(rpc)
  ELSE IF rpc.method \in Notifications THEN OkResponse(NoId)
  ELSE ErrorResponse(rpc.id, "-32601")

Dispatch(rpc) ==
  IF rpc.jsonrpc # "2.0" \/ rpc.method = "" THEN ErrorResponse(rpc.id, "-32600")
  ELSE IF rpc.method \in Handlers THEN OkResponse(rpc.id)
  ELSE IF rpc.method \in Notifications THEN OkResponse(NoId)
  ELSE IF rpc.method = "tools/call" THEN ToolsCall(rpc)
  ELSE IF rpc.method = "resources/read" THEN ResourcesRead(rpc)
  ELSE IF rpc.method = "prompts/get" THEN PromptsGet(rpc)
  ELSE IF rpc.method = "completion/complete" THEN CompletionComplete(rpc)
  ELSE ErrorResponse(rpc.id, "-32601")

(***************************************************************************)
(* Configuration                                                           *)
(***************************************************************************)
\* split(','), trim and the filter on empty entries leave a set of origins;
\* the empty list is also the sign for "all origins".  A key that is unset
\* and one that is blank are both the empty sequence.
FromEnv(env) ==
  [cors    |-> env.origins # {Unset},
   origins |-> env.origins \ {"*", ""},
   key     |-> env.key,
   max     |-> env.max]

AuthEnabled == config.key # <<>>
OriginAllowed(origin) ==
  config.cors /\ (config.origins = {} \/ origin \in config.origins)

(***************************************************************************)
(* Token buckets                                                           *)
(***************************************************************************)
Full == EdgeCapacity * Minute
Lesser(a, b) == IF a <= b THEN a ELSE b
Refilled(b) == [tokens |-> Lesser(Full, b.tokens + (now - b.last) * EdgeCapacity),
                last |-> now]
\* A mutant of Expired: half the interval.
ExpiredEarly(b) == now - b.last > Minute \div 2

Expired(b) == now - b.last > Minute

\* The map after a check's sweep, with the bucket of ip in it.
Swept(ip) ==
  LET kept == IF Cardinality(DOMAIN buckets) > MaxTracked
              THEN {a \in DOMAIN buckets : ~ Expired(buckets[a])}
              ELSE DOMAIN buckets
  IN  [a \in kept \union {ip} |->
         IF a \in kept THEN buckets[a] ELSE [tokens |-> Full, last |-> now]]

\* A mutant of Remaining: the stored count, not refilled.
RemainingStored(ip) ==
  IF ip \in DOMAIN buckets THEN buckets[ip].tokens \div Minute ELSE EdgeCapacity

\* get_info: what the headers of a response say.
Remaining(ip) ==
  IF ip \in DOMAIN buckets THEN Refilled(buckets[ip]).tokens \div Minute
                           ELSE EdgeCapacity

(***************************************************************************)
(* Requests                                                                *)
(***************************************************************************)
Trusted(ip) == ip = "proxy"

\* The places of the chain that name an address which is no proxy.
Public(chain) == {i \in DOMAIN chain : chain[i] # "junk" /\ ~ Trusted(chain[i])}

\* A mutant of ClientIp: the chain is read from the left.
ClientIpLeft(req) ==
  IF Trusted(req.peer) /\ Public(req.chain) # {} THEN req.chain[Min(Public(req.chain))]
  ELSE req.peer

\* extract_client_ip: behind a proxy the chain is read from the right.
ClientIp(req) ==
  IF Trusted(req.peer) /\ Public(req.chain) # {} THEN req.chain[Max(Public(req.chain))]
  ELSE req.peer

\* timing_safe_eq: the first MaxKeyLen bytes, padded with zeros, and the lengths.
Padded(k) == [i \in 1..MaxKeyLen |-> IF i <= Len(k) THEN k[i] ELSE 0]
\* A mutant of TimingSafeEq: the padded buffers alone.
TimingSafeEqPadded(a, b) == Padded(a) = Padded(b)

TimingSafeEq(a, b) == Len(a) = Len(b) /\ Padded(a) = Padded(b)

Quiet == [phase |-> "closed", req |-> <<>>, since |-> 0]

EdgeInit ==
  /\ \E env \in EdgeEnvs : config = FromEnv(env)
  /\ now = 0
  /\ buckets = <<>>
  /\ conn = [c \in EdgeConns |-> Quiet]
  /\ reply = [c \in EdgeConns |-> <<>>]
  /\ total = 0
  /\ spent = [ip \in {ClientIp(r) : r \in EdgeRequests} |-> <<>>]

Accept(c) ==
  /\ conn[c].phase = "closed" /\ conn[c].since = 0
  /\ conn' = [conn EXCEPT ![c] = [Quiet EXCEPT !.phase = "open", !.since = now]]
  /\ UNCHANGED <<config, now, buckets, reply, total, spent>>

NoRpc == [id |-> NoId, code |-> "-32000", tool |-> "none"]

\* One response: status, the body's JSON-RPC part and the two header layers.
\* The 429 and 204 responses are returned before the rate limit headers are set.
Respond(c, req, status, rpc) ==
  reply' = [reply EXCEPT ![c] =
    [req |-> req, ip |-> ClientIp(req), status |-> status, rpc |-> rpc,
     limit |-> EdgeCapacity > 0 /\ status \notin {429, 204},
     cors |-> /\ status # 429 /\ req.path # "/health"
              /\ OriginAllowed(req.origin)]]

\* check(): the bucket of ip after the sweep and the refill.
Bucket(ip) == Refilled(Swept(ip)[ip])

\* handle_request for a request whose bucket has no token.
Limited(c, req) ==
  LET ip == ClientIp(req) IN
  /\ EdgeCapacity > 0 /\ Bucket(ip).tokens < Minute
  /\ buckets' = [Swept(ip) EXCEPT ![ip] = Bucket(ip)]
  /\ Respond(c, req, 429, NoRpc)
  /\ UNCHANGED <<conn, spent>>

\* check() lets the request through.
Pass(req) ==
  LET ip == ClientIp(req) IN
  IF EdgeCapacity = 0 THEN UNCHANGED <<buckets, spent>>
  ELSE /\ Bucket(ip).tokens >= Minute
       /\ buckets' = [Swept(ip) EXCEPT ![ip] =
                        [Bucket(ip) EXCEPT !.tokens = @ - Minute]]
       /\ spent' = [spent EXCEPT ![ip] = Append(@, now)]

\* The layers before the body: the status they answer with, 0 to go on.
Verdict(req) ==
  IF req.method = "OPTIONS" /\ OriginAllowed(req.origin) THEN 204
  ELSE IF req.path = "/health" THEN 200
  ELSE IF req.method # "POST" \/ req.path # "/mcp" THEN 404
  ELSE IF req.length > config.max THEN 413
  ELSE IF AuthEnabled /\ ~ TimingSafeEq(req.key, config.key) THEN 401
  ELSE 0

\* handle_request up to the first await.
Arrive(c, req) ==
  /\ conn[c].phase = "open"
  /\ \/ Limited(c, req)
     \/ /\ Pass(req)
        /\ IF Verdict(req) # 0
           THEN Respond(c, req, Verdict(req), NoRpc) /\ UNCHANGED conn
           ELSE /\ conn' = [conn EXCEPT ![c] = [@ EXCEPT !.phase = "body", !.req = req]]
                /\ UNCHANGED reply
  /\ total' = total + 1
  /\ UNCHANGED <<config, now>>

\* The rest of handle_mcp_post once the body is there, or has failed.
Body(c) ==
  LET req == conn[c].req IN
  /\ conn[c].phase = "body"
  /\ UNCHANGED <<config, now, buckets, total, spent>>
  /\ \E broken \in BOOLEAN :
       IF req.body > config.max THEN Respond(c, req, 413, NoRpc)
       ELSE IF broken THEN Respond(c, req, 400, NoRpc)
       ELSE IF req.rpc.jsonrpc = "unparsed"
            THEN Respond(c, req, 400, ErrorResponse(NoId, "-32700"))
       ELSE Respond(c, req, 200, Dispatch(req.rpc))
  /\ conn' = [conn EXCEPT ![c] = [@ EXCEPT !.phase = "open", !.req = <<>>]]

\* The timeout around serve_connection, or the client going away.
Drop(c) ==
  /\ conn[c].phase # "closed"
  /\ conn' = [conn EXCEPT ![c] = [Quiet EXCEPT !.since = 1 + now]]
  /\ UNCHANGED <<config, now, buckets, reply, total, spent>>

\* A connection is not allowed to outlive its timeout.
EdgeTick ==
  /\ now < EdgeClock
  /\ \A c \in EdgeConns : conn[c].phase # "closed" => now - conn[c].since < ConnTime
  /\ now' = now + 1
  /\ UNCHANGED <<config, buckets, conn, reply, total, spent>>

EdgeNext ==
  \/ \E c \in EdgeConns : Accept(c) \/ Body(c) \/ Drop(c)
  \/ total < EdgeTotal /\ \E c \in EdgeConns, req \in EdgeRequests : Arrive(c, req)
  \/ EdgeTick

EdgeSpec == EdgeInit /\ [][EdgeNext]_edgeVars

-----------------------------------------------------------------------------
Replies == {reply[c] : c \in {k \in EdgeConns : reply[k] # <<>>}}

\* The sweep of expired buckets gives nobody an extra token: in any window
\* between two requests of an address, the requests let through are at most
\* the capacity and what the window refills (RateLimiter::check, is_expired).
EdgeBudget ==
  \A ip \in DOMAIN spent : \A i, j \in DOMAIN spent[ip] :
    i <= j => (j - i + 1) * Minute
                <= Full + (spent[ip][j] - spent[ip][i]) * EdgeCapacity

\* A public client is charged to its own bucket, whatever it wrote in front of
\* the address its proxy appended to X-Forwarded-For (extract_client_ip).
ClientCharged ==
  \A r \in Replies :
    IF Trusted(r.req.peer) /\ r.req.chain # <<>> /\ Last(r.req.chain) \notin {"proxy", "junk"}
    THEN r.ip = Last(r.req.chain)
    ELSE Trusted(r.req.peer) \/ r.ip = r.req.peer

\* The remaining count a response announces is zero exactly when the next
\* request of that address would be refused: get_info and check agree, also
\* across the sweep, which only check does.
RemainingHonest ==
  EdgeCapacity > 0 => \A ip \in DOMAIN spent :
    Remaining(ip) >= 1 <=> Bucket(ip).tokens >= Minute

\* A tool runs only for a request that carries the configured key, fits the
\* size limit, is JSON-RPC 2.0 and was sent to the endpoint by POST, and its
\* answer carries the request's own id (handle_mcp_post, dispatch).
ToolRunsInOrder ==
  \A r \in Replies : r.rpc.tool = "output" =>
    /\ r.req.key = config.key \/ ~ AuthEnabled
    /\ r.req.body <= config.max /\ r.req.method = "POST"
    /\ r.req.rpc.jsonrpc = "2.0" /\ r.req.rpc.method = "tools/call"
    /\ r.rpc.id = r.req.rpc.id

\* A response that was dispatched answers the request: the code of an error is
\* one of those the handler of that method may give, and every id returns except
\* a notification's.
AnswersOwnRequest ==
  \A r \in Replies : r.status = 200 /\ r.req.path = "/mcp" =>
    /\ r.rpc.id = IF r.req.rpc.method \in Notifications /\ r.req.rpc.jsonrpc = "2.0"
                  THEN NoId ELSE r.req.rpc.id
    /\ r.rpc.code = "-32600" <=> (r.req.rpc.jsonrpc # "2.0" \/ r.req.rpc.method = "")

\* What an edge request costs and what it is told are right: the tokens of the client it
\* came from, the limit it is told, the checks before a tool runs, the id it gets back.
EdgeHonest ==
    /\ EdgeBudget /\ ClientCharged /\ RemainingHonest
    /\ ToolRunsInOrder /\ AnswersOwnRequest

-----------------------------------------------------------------------------
(* Claims of comments that do not hold; the README's table says why. *)

\* "Health check: always allowed".
HealthAlwaysAnswered == \A r \in Replies : r.req.path = "/health" => r.status # 429

\* "Apply rate limit headers to all responses (when enabled)".
LimitHeadersOnAll == EdgeCapacity > 0 => \A r \in Replies : r.limit

\* "Set to * to allow all origins. When unset, no CORS headers are sent."
WildcardOnlyIfAsked ==
  \A env \in EdgeEnvs : FromEnv(env).cors /\ FromEnv(env).origins = {} => env.origins = {"*"}

\* "Periodic cleanup of expired entries to bound memory."
TrackedBounded == Cardinality(DOMAIN buckets) <= MaxTracked + 1
=============================================================================
