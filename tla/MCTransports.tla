---------------------------- MODULE MCTransports ----------------------------
(***************************************************************************)
(* Model checking of the processes that serve and use the protocol: the    *)
(* stdio server, the HTTP server's start and stop, the client library and  *)
(* the instances of the nested plugin store.  They share no state: a       *)
(* behaviour moves one of them, picked at the start, and leaves the others *)
(* in an initial state.  Liveness is checked, so no symmetry is used.      *)
(***************************************************************************)
EXTENDS StdioServer, HttpLifecycle, McpClient, NestedPlugins

VARIABLE part

Parts == {"stdio", "http", "client", "nested"}

MCInit ==
    /\ part \in Parts
    /\ part = "http" \/ tls = FALSE
    /\ part = "client" \/ transport = "stdio"
    /\ part = "nested" \/ store = "file"
    /\ Init /\ ServeInit /\ ClientInit /\ NestedInit

MCNext ==
    /\ UNCHANGED part
    /\ IF part = "stdio" THEN Next ELSE UNCHANGED vars
    /\ IF part = "http" THEN ServeNext ELSE UNCHANGED serveVars
    /\ IF part = "client" THEN ClientNext ELSE UNCHANGED clientVars
    /\ IF part = "nested" THEN NestedNext ELSE UNCHANGED nestedVars

\* The fairness of StdioServer and HttpLifecycle, for the behaviours that move them.
\* The fair actions of the others are not enabled in their initial states.
StdioFair == WF_vars(part = "stdio" /\ Main) /\ WF_vars(part = "stdio" /\ (ReadLine \/ ReaderEnds))
ServeFair ==
    /\ WF_serveVars(part = "http" /\ ServeMain)
    /\ \A c \in Conns : WF_serveVars(Record(c)) /\ WF_serveVars(Close(c))

MCSpec ==
    /\ MCInit /\ [][MCNext]_<<part, vars, serveVars, clientVars, nestedVars>>
    /\ StdioFair /\ ServeFair /\ ClientFair /\ NestedFair

\* Nobody waits for ever: the JSON loop and the HTTP server stop when they are told
\* to, a client's send ends, the lock of a crashed instance is reclaimed in time and
\* every nested request ends.
TransportsEnd ==
    /\ JsonLoopStops /\ EarlySignalStops /\ FlagStops
    /\ SendsEnd /\ OrphanReclaimed /\ NestedRequestsEnd
=============================================================================
