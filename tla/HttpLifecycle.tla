--------------------------- MODULE HttpLifecycle ---------------------------
(***************************************************************************)
(* Start and shutdown of the server in http mode: main of src/main.rs,     *)
(* which installs the Ctrl-C handler and later tries to install a second   *)
(* one, and run_http_server of src/transport/http.rs, whose accept loop    *)
(* ends when shutdown_signal sees the local flag.  The runtime is dropped  *)
(* before main flushes the audit logs.                                     *)
(***************************************************************************)
EXTENDS Naturals, FiniteSets

CONSTANTS
    Conns,    \* connections clients may open
    MaxCalls  \* bound: tool calls made

ASSUME LifecycleAssumption == MaxCalls \in Nat

VARIABLES
    tls,       \* the configuration: whether the server's own TLS accept loop is used
    stage,     \* where the main thread is
    handler,   \* what Ctrl-C does: "none" (kill), "global" or "local"
    HttpShutdown,  \* the static flag of main.rs
    shutdown,  \* the flag handed to run_http_server
    conn,      \* the connections: "none", "open", "socket" after an upgrade, "closed"
    busy,      \* the connections whose handler is in a tool call
    begun,     \* tool calls begun (bound)
    audited,   \* audit entries in memory
    flushed    \* audit entries on disk

flags == <<tls, handler, HttpShutdown, shutdown>>
work == <<conn, busy, begun, audited, flushed>>
serveVars == <<stage, flags, work>>

Ended == {"exited", "failed", "killed"}
Before == {"start", "plugins", "copy"}
Running == {"serve", "graceful", "drain"}

ServeInit ==
    /\ tls \in BOOLEAN
    /\ stage = "start"
    /\ handler = "none"
    /\ HttpShutdown = FALSE /\ shutdown = FALSE
    /\ conn = [c \in Conns |-> "none"] /\ busy = {}
    /\ begun = 0 /\ audited = 0 /\ flushed = 0

Step(from, to) == stage = from /\ stage' = to

\* The ctrlc crate: set_handler refuses a second handler; installing the first
\* may fail in the system.
SetHandler(h) == handler' \in IF handler = "none" THEN {h, "none"} ELSE {handler}

\* main installs its handler and goes on when that fails.
InstallGlobal ==
    /\ Step("start", "plugins")
    /\ SetHandler("global")
    /\ UNCHANGED <<tls, HttpShutdown, shutdown, work>>

LoadPlugins ==
    /\ Step("plugins", "copy")
    /\ UNCHANGED <<flags, work>>

\* Faulty variant: the local flag always starts as false.
CopyNothing ==
    /\ Step("copy", "install")
    /\ UNCHANGED <<flags, work>>

\* The local flag starts with the value of the static one.
CopyFlag ==
    /\ Step("copy", "install")
    /\ shutdown' = HttpShutdown
    /\ UNCHANGED <<tls, handler, HttpShutdown, work>>

\* "Set up Ctrl+C to also set our local shutdown"
InstallLocal ==
    /\ Step("install", "bind")
    /\ SetHandler("local")
    /\ UNCHANGED <<tls, HttpShutdown, shutdown, work>>

\* run_http_server binds the address and loads the certificates; an error there
\* ends the process with status 1.
Bind ==
    /\ Step("bind", "serve") \/ Step("bind", "failed")
    /\ UNCHANGED <<flags, work>>

ServeCtrlC ==
    /\ stage \notin Ended
    /\ CASE handler = "global" -> HttpShutdown' = TRUE /\ UNCHANGED <<stage, shutdown>>
         [] handler = "local"  -> shutdown' = TRUE /\ UNCHANGED <<stage, HttpShutdown>>
         [] handler = "none"   -> stage' = "killed" /\ UNCHANGED <<HttpShutdown, shutdown>>
    /\ UNCHANGED <<tls, handler, work>>

Accept(c) ==
    /\ stage = "serve" /\ conn[c] = "none"
    /\ conn' = [conn EXCEPT ![c] = "open"]
    /\ UNCHANGED <<stage, flags, busy, begun, audited, flushed>>

\* A connection becomes a WebSocket: the server no longer counts it as one of its
\* own.  The TLS loop serves connections without upgrades.
Upgrade(c) ==
    /\ ~tls /\ stage \in Running /\ conn[c] = "open" /\ c \notin busy
    /\ conn' = [conn EXCEPT ![c] = "socket"]
    /\ UNCHANGED <<stage, flags, busy, begun, audited, flushed>>

\* A handler calls a tool.  A POST is refused once the flag is set; a stream or a
\* socket does not look at it.
Call(c) ==
    /\ stage \in Running /\ conn[c] \in {"open", "socket"} /\ c \notin busy
    /\ begun < MaxCalls /\ begun' = begun + 1
    /\ busy' = busy \cup {c}
    /\ UNCHANGED <<stage, flags, conn, audited, flushed>>

\* The tool returns and the call is recorded, in the same poll of the handler.
Record(c) ==
    /\ stage \notin Ended /\ c \in busy
    /\ busy' = busy \ {c}
    /\ audited' = audited + 1
    /\ UNCHANGED <<stage, flags, conn, begun, flushed>>

Close(c) ==
    /\ stage \notin Ended /\ conn[c] \in {"open", "socket"} /\ c \notin busy
    /\ conn' = [conn EXCEPT ![c] = "closed"]
    /\ UNCHANGED <<stage, flags, busy, begun, audited, flushed>>

\* Faulty variant: the accept loop polls the static flag.
PollStatic ==
    /\ HttpShutdown
    /\ Step("serve", IF tls THEN "drain" ELSE "graceful")
    /\ UNCHANGED <<flags, work>>

\* shutdown_signal resolves: the TLS loop breaks, axum's server stops accepting.
Poll ==
    /\ shutdown
    /\ Step("serve", IF tls THEN "drain" ELSE "graceful")
    /\ UNCHANGED <<flags, work>>

\* with_graceful_shutdown waits for every connection that was not upgraded.
Graceful ==
    /\ \A c \in Conns : conn[c] # "open"
    /\ Step("graceful", "drain")
    /\ UNCHANGED <<flags, work>>

\* The two seconds for requests in flight; then the server returns.
Drain ==
    /\ Step("drain", "drop")
    /\ UNCHANGED <<flags, work>>

\* Faulty variant: the runtime is left to itself.
DropRuntimeDetached ==
    /\ Step("drop", "flush")
    /\ UNCHANGED <<flags, work>>

\* rt goes out of scope: no task is polled again, and the drop waits for the polls
\* in progress, and so for the tool calls made in them.
DropRuntime ==
    /\ busy = {}
    /\ Step("drop", "flush")
    /\ UNCHANGED <<flags, work>>

\* flush_audit and the end of main; open connections end with the process.
ServeFlushAndExit ==
    /\ Step("flush", "exited")
    /\ flushed' = audited
    /\ conn' = [c \in Conns |-> IF conn[c] = "none" THEN "none" ELSE "closed"]
    /\ UNCHANGED <<flags, busy, begun, audited>>

ServeMain == InstallGlobal \/ LoadPlugins \/ CopyFlag \/ InstallLocal \/ Bind \/ Poll \/ Graceful
          \/ Drain \/ DropRuntime \/ ServeFlushAndExit

ServeNext ==
    \/ ServeMain \/ ServeCtrlC
    \/ \E c \in Conns : Accept(c) \/ Upgrade(c) \/ Call(c) \/ Record(c) \/ Close(c)

ServeSpec == ServeInit /\ [][ServeNext]_serveVars

\* The main thread runs on and tools return; clients need not close their
\* connections.
ServeFairSpec == ServeSpec /\ WF_serveVars(ServeMain) /\ \A c \in Conns : WF_serveVars(Record(c))

\* Here they do.
PoliteSpec == ServeFairSpec /\ \A c \in Conns : WF_serveVars(Close(c))

-----------------------------------------------------------------------------
\* A Ctrl-C that arrives after the first handler is installed and before the flag
\* is copied ends the server if clients close their connections, and
\* with TLS in any case.
EarlySignalStops ==
    (HttpShutdown /\ stage \in Before) ~> (stage \in Ended)

\* The audit entry of every tool call that ran is on disk when the server has shut
\* down, whether its connection was served to its end, cut off after the two seconds
\* or was a WebSocket nobody waits for.  (Evictions and failed writes are the subject
\* of AuditRegistry.)
CallsFlushed == stage = "exited" => flushed = begun

\* What run_http_server says: it blocks until the shutdown signal is received.  It
\* does so if clients close their connections in time, and with TLS in any case.
FlagStops == shutdown ~> (stage \in Ended)

-----------------------------------------------------------------------------
(* What comments and messages of the code claim and its behaviours do not      *)
(* satisfy: the README says on which instance each is refuted.                 *)

\* What main.rs says of its handlers, "graceful shutdown" and "to also set our
\* local shutdown": Ctrl-C ends the server whenever it comes.
SignalStops == HttpShutdown ~> (stage \in Ended)
=============================================================================
