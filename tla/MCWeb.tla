------------------------------- MODULE MCWeb -------------------------------
(***************************************************************************)
(* Model checking of the components around the HTTP server that keep state *)
(* between requests, and of the file tools.  They share no state: a        *)
(* behaviour moves one of them, picked at the start, and leaves the others *)
(* in an initial state.  The requests, threads and callers of all of them  *)
(* are the same two model values, and so are the session and connector     *)
(* ids: swapping two permutes every component alike.                       *)
(***************************************************************************)
EXTENDS HttpSessions, EdgeServer, Connectors, Configuration, ResponseCache,
        Marketplace, Resources, Prompts, BuiltinTools

VARIABLE part

Parts == {"http", "edge", "tokens", "flows", "config", "cache",
          "market", "resources", "prompts", "tools"}

\* Requests of the edge server: behind a proxy or not, with and without a key,
\* too long, unparsed, and one for each way the JSON-RPC method can go.
Rpc(v, m, p) == [jsonrpc |-> v, method |-> m, id |-> 7, params |-> p]
EchoCall == Rpc("2.0", "tools/call", [name |-> "echo", arguments |-> "good"])
NoParams == <<>>
PlainPost ==
    [method |-> "POST", path |-> "/mcp", peer |-> "c1", chain |-> <<>>, origin |-> "o",
     key |-> <<1>>, length |-> 1, body |-> 1, rpc |-> EchoCall]
EdgeRequestsVal ==
    {PlainPost,
     [PlainPost EXCEPT !.peer = "proxy", !.chain = <<"c1", "junk", "c2">>, !.key = <<1, 0>>],
     [PlainPost EXCEPT !.peer = "proxy", !.chain = <<"c1", "proxy">>, !.body = 3, !.length = 0],
     [PlainPost EXCEPT !.peer = "c2", !.chain = <<"c1">>, !.rpc.jsonrpc = "1.0"],
     [PlainPost EXCEPT !.peer = "c3", !.method = "OPTIONS", !.origin = "x"],
     [PlainPost EXCEPT !.method = "OPTIONS"],
     [PlainPost EXCEPT !.method = "GET", !.path = "/health"],
     [PlainPost EXCEPT !.length = 3],
     [PlainPost EXCEPT !.rpc = Rpc("unparsed", "", NoParams)],
     [PlainPost EXCEPT !.rpc = Rpc("2.0", "completion/complete",
                               ("ref.type" :> "ref/prompt" @@ "argument.name" :> "a"))]}
      \cup {[PlainPost EXCEPT !.rpc = Rpc("2.0", m, [name |-> Other, uri |-> "u"])] :
              m \in {"resources/read", "completion/complete", "prompts/get",
                     "notifications/cancelled"}}
      \cup {[PlainPost EXCEPT !.rpc = Rpc("2.0", m, NoParams)] : m \in {"", "ping", "none", "tools/call"}}

\* Any origin, one origin, and a blank list without a key.
Sealed == [origins |-> {Unset}, key |-> <<1>>, max |-> 2]
EdgeEnvsVal == {Sealed, [Sealed EXCEPT !.origins = {"o"}],
                [origins |-> {""}, key |-> <<>>, max |-> 2]}

\* One plugin has an update, the other is up to date.
LatestVal == "p1" :> 2 @@ "p2" :> 1

\* A template with two parameters, one of them twice, and argument values of which
\* one looks like a parameter itself.
PromptTextsVal == {<<"{a}", "x", "{b}", "{a}">>}
ArgTextsVal == {<<"v">>, <<"w", "{b}">>}

\* A file of one word and one of three; one edit, and two of which the second
\* finds its text only if the first did not replace it.
TextsVal == {<<"v">>, <<"w", "v", "w">>}
EditsVal == {<< <<"v", "w">> >>, << <<"v", "w">>, <<"v", "w">> >>}

MCInit ==
    /\ part \in Parts
    /\ part = "edge" \/ config = FromEnv(Sealed)
    /\ part = "market" \/ dirs = [p \in Plugins |-> NoDir]
    /\ \/ part = "tools"
       \/ /\ fs = [p \in Files |-> IF p = "p" THEN 1 ELSE NoEntry]
          /\ data = [i \in Inodes |-> <<"v">>]
          /\ toolCall = [t \in ToolThreads |-> CHOOSE c \in Calls : c.tool = "file_read"]
          /\ frames = {}
    /\ HttpInit /\ EdgeInit /\ ConnInit /\ FlowInit /\ CfgInit
    /\ CacheInit /\ MarketInit /\ ResourcesInit /\ PromptsInit /\ ToolsInit
    /\ Cardinality(rotating) = IF part = "tokens" THEN 1 ELSE 0   \* one provider of each kind

MCNext ==
    /\ UNCHANGED part
    /\ IF part = "http" THEN HttpNext ELSE UNCHANGED httpVars
    /\ IF part = "edge" THEN EdgeNext ELSE UNCHANGED edgeVars
    /\ IF part = "tokens" THEN ConnNext ELSE UNCHANGED connVars
    /\ IF part = "flows" THEN FlowNext ELSE UNCHANGED flowVars
    /\ IF part = "config" THEN CfgNext ELSE UNCHANGED cfgVars
    /\ IF part = "cache" THEN CacheNext ELSE UNCHANGED cacheVars
    /\ IF part = "market" THEN MarketNext ELSE UNCHANGED marketVars
    /\ IF part = "resources" THEN ResourcesNext ELSE UNCHANGED resourceVars
    /\ IF part = "prompts" THEN PromptsNext ELSE UNCHANGED promptVars
    /\ IF part = "tools" THEN ToolsNext ELSE UNCHANGED toolVars

allVars == <<part, httpVars, edgeVars, connVars, flowVars, cfgVars, cacheVars,
             marketVars, resourceVars, promptVars, toolVars>>

MCSpec == MCInit /\ [][MCNext]_allVars

Symmetry == Permutations(Slots) \cup Permutations(Sids)
=============================================================================
