---------------------------- MODULE SseBroadcast ----------------------------
(***************************************************************************)
(* Server-sent events of src/transport/http.rs: sse_handler subscribes a   *)
(* client to the broadcasts, broadcast_event sends a frame to every        *)
(* subscriber through bounded channels while it holds the write lock,      *)
(* watch_registry_changes turns changes of the registry's generation into  *)
(* notifications, and a heartbeat task per client notices that it is gone. *)
(* A frame is 0, or the generation a list_changed notification announces.  *)
(***************************************************************************)
EXTENDS Integers, Sequences, FiniteSets

CONSTANTS
    Clients,         \* /v1/sse connections
    Producers,       \* streamable requests, each broadcasting its completion
    Stalled,         \* clients that keep the connection open without reading
    Cap,             \* capacity of a client's channel (100)
    MaxSubscribers,  \* MAX_BROADCAST_SUBSCRIBERS
    MaxChanges,      \* bound: tools registered at run time
    MaxBeats         \* bound: heartbeats of each client

ASSUME SseAssumption ==
    /\ Stalled \subseteq Clients
    /\ {"watcher", "none"} \cap Producers = {}
    /\ Cap \in Nat \ {0} /\ MaxSubscribers \in Nat
    /\ MaxChanges \in Nat /\ MaxBeats \in Nat

Broadcasters == Producers \cup {"watcher"}

VARIABLES
    generation, last_generation,  \* of the registry, and of the watcher
    broadcasts,   \* event_broadcast: the subscribers, in order
    holder,       \* the broadcaster that holds the write lock, or "none"
    pc, todo,     \* each broadcaster, and the subscribers it has still to serve
    conn,         \* each connection
    chan,         \* frames queued for each client
    hello, beat,  \* the tasks spawned for each client: connected event, heartbeat
    beats,        \* heartbeats sent (bound)
    active,       \* active_sse_connections
    seen          \* history: the generation each client knows of

taskVars == <<hello, beat, beats, active>>
vars == <<generation, last_generation, broadcasts, holder, pc, todo, conn, chan, taskVars, seen>>

Init ==
    /\ generation = 0 /\ last_generation = 0
    /\ broadcasts = <<>>
    /\ holder = "none"
    /\ pc = [b \in Broadcasters |-> "idle"]
    /\ todo = [b \in Broadcasters |-> <<>>]
    /\ conn = [c \in Clients |-> "new"]
    /\ chan = [c \in Clients |-> <<>>]
    /\ hello = [c \in Clients |-> "none"]
    /\ beat = [c \in Clients |-> "none"]
    /\ beats = [c \in Clients |-> 0]
    /\ active = 0
    /\ seen = [c \in Clients |-> 0]

IsSubscribed(c) == \E i \in DOMAIN broadcasts : broadcasts[i] = c

\* Sending to an open client waits for room; to a closed one it fails at once.
CanSend(c) == conn[c] = "closed" \/ Len(chan[c]) < Cap
Queued(c, frame) == IF conn[c] = "closed" THEN chan[c] ELSE Append(chan[c], frame)

-----------------------------------------------------------------------------
\* register_tool_lazy
RegisterTool ==
    /\ generation < MaxChanges
    /\ generation' = generation + 1
    /\ UNCHANGED <<last_generation, broadcasts, holder, pc, todo, conn, chan, taskVars, seen>>

\* sse_handler up to the write lock of event_broadcast.
Connect(c) ==
    /\ conn[c] = "new"
    /\ active' = active + 1
    /\ conn' = [conn EXCEPT ![c] = "lock"]
    /\ UNCHANGED <<generation, last_generation, broadcasts, holder, pc, todo, chan, hello, beat,
                   beats, seen>>

\* The subscription, up to the write lock of sessions.
Subscribe(c) ==
    /\ conn[c] = "lock" /\ holder = "none"
    /\ broadcasts' = IF Len(broadcasts) >= MaxSubscribers THEN broadcasts
                                                          ELSE Append(broadcasts, c)
    /\ conn' = [conn EXCEPT ![c] = "session"]
    /\ seen' = [seen EXCEPT ![c] = generation]
    /\ UNCHANGED <<generation, last_generation, holder, pc, todo, chan, taskVars>>

\* The rest of sse_handler: the tasks are spawned and the stream is returned.
Open(c) ==
    /\ conn[c] = "session"
    /\ conn' = [conn EXCEPT ![c] = "open"]
    /\ hello' = [hello EXCEPT ![c] = "send"]
    /\ beat' = [beat EXCEPT ![c] = "run"]
    /\ UNCHANGED <<generation, last_generation, broadcasts, holder, pc, todo, chan, beats, active, seen>>

\* The client disconnects.  Before the stream is returned that drops the handler
\* at the await of a lock another task holds, and with it the receiver.  (Who holds
\* the lock of sessions is not modelled: any handler may for a moment.)
Disconnect(c) ==
    /\ conn[c] \in {"lock", "session", "open"}
    /\ conn[c] = "lock" => holder # "none"
    /\ conn' = [conn EXCEPT ![c] = "closed"]
    /\ chan' = [chan EXCEPT ![c] = <<>>]
    /\ UNCHANGED <<generation, last_generation, broadcasts, holder, pc, todo, taskVars, seen>>

\* The client reads a frame.
Read(c) ==
    /\ conn[c] = "open" /\ chan[c] # <<>>
    /\ chan' = [chan EXCEPT ![c] = Tail(@)]
    /\ seen' = [seen EXCEPT ![c] = IF Head(chan[c]) > @ THEN Head(chan[c]) ELSE @]
    /\ UNCHANGED <<generation, last_generation, broadcasts, holder, pc, todo, conn, taskVars>>

\* The task that sends the connected event.
Hello(c) ==
    /\ hello[c] = "send" /\ CanSend(c)
    /\ chan' = [chan EXCEPT ![c] = Queued(c, 0)]
    /\ hello' = [hello EXCEPT ![c] = "end"]
    /\ UNCHANGED <<generation, last_generation, broadcasts, holder, pc, todo, conn, beat, beats,
                   active, seen>>

\* The heartbeat task: a beat to a client that is still there ...
Beat(c) ==
    /\ beat[c] = "run" /\ conn[c] = "open" /\ CanSend(c) /\ beats[c] < MaxBeats
    /\ chan' = [chan EXCEPT ![c] = Queued(c, 0)]
    /\ beats' = [beats EXCEPT ![c] = @ + 1]
    /\ UNCHANGED <<generation, last_generation, broadcasts, holder, pc, todo, conn, hello, beat,
                   active, seen>>

\* ... or the discovery that it is gone, which waits for the write lock ...
BeatFails(c) ==
    /\ beat[c] = "run" /\ conn[c] = "closed"
    /\ active' = active - 1
    /\ beat' = [beat EXCEPT ![c] = "unsubscribe"]
    /\ UNCHANGED <<generation, last_generation, broadcasts, holder, pc, todo, conn, chan, hello,
                   beats, seen>>

Without(s, cs) == SelectSeq(s, LAMBDA c : c \notin cs)

\* ... to unsubscribe it.
Unsubscribe(c) ==
    /\ beat[c] = "unsubscribe" /\ holder = "none"
    /\ broadcasts' = Without(broadcasts, {c})
    /\ beat' = [beat EXCEPT ![c] = "end"]
    /\ UNCHANGED <<generation, last_generation, holder, pc, todo, conn, chan, hello, beats, active,
                   seen>>

-----------------------------------------------------------------------------
\* watch_registry_changes, at a tick that finds a new generation.
WatchTick ==
    /\ pc["watcher"] = "idle" /\ generation # last_generation
    /\ last_generation' = generation
    /\ pc' = [pc EXCEPT !["watcher"] = "lock"]
    /\ UNCHANGED <<generation, broadcasts, holder, todo, conn, chan, taskVars, seen>>

\* handle_streamable has sent its answer and broadcasts request_completed, once.
Complete(b) ==
    /\ b \in Producers /\ pc[b] = "idle"
    /\ pc' = [pc EXCEPT ![b] = "lock"]
    /\ UNCHANGED <<generation, last_generation, broadcasts, holder, todo, conn, chan, taskVars, seen>>

Resting(b) == IF b = "watcher" THEN "idle" ELSE "end"

\* Faulty variant: closed subscribers are pruned together with their gauge.
AcquireCounting(b) ==
    /\ pc[b] = "lock" /\ holder = "none"
    /\ LET gone == {c \in Clients : conn[c] = "closed" /\ IsSubscribed(c)}
           live == Without(broadcasts, gone)
       IN  /\ broadcasts' = live
           /\ active' = IF active >= Cardinality(gone) THEN active - Cardinality(gone) ELSE 0
           /\ todo' = [todo EXCEPT ![b] = live]
           /\ holder' = IF live = <<>> THEN "none" ELSE b
           /\ pc' = [pc EXCEPT ![b] = IF live = <<>> THEN Resting(b) ELSE "send"]
    /\ UNCHANGED <<generation, last_generation, conn, chan, hello, beat, beats, seen>>

\* Faulty variant: the subscribers are copied without taking the lock.
AcquireUnlocked(b) ==
    /\ pc[b] = "lock"
    /\ LET live == Without(broadcasts, {c \in Clients : conn[c] = "closed"})
       IN  /\ broadcasts' = live
           /\ todo' = [todo EXCEPT ![b] = live]
           /\ holder' = IF live = <<>> THEN "none" ELSE b
           /\ pc' = [pc EXCEPT ![b] = IF live = <<>> THEN Resting(b) ELSE "send"]
    /\ UNCHANGED <<generation, last_generation, conn, chan, taskVars, seen>>

\* broadcast_event takes the lock and prunes the closed subscribers ...
Acquire(b) ==
    /\ pc[b] = "lock" /\ holder = "none"
    /\ LET live == Without(broadcasts, {c \in Clients : conn[c] = "closed"})
       IN  /\ broadcasts' = live
           /\ todo' = [todo EXCEPT ![b] = live]
           /\ holder' = IF live = <<>> THEN "none" ELSE b
           /\ pc' = [pc EXCEPT ![b] = IF live = <<>> THEN Resting(b) ELSE "send"]
    /\ UNCHANGED <<generation, last_generation, conn, chan, taskVars, seen>>

Frame(b) == IF b = "watcher" THEN last_generation ELSE 0

\* Faulty variant: a full channel loses the frame.
SendOrDrop(b) ==
    /\ pc[b] = "send"
    /\ LET c == Head(todo[b])
           rest == Tail(todo[b])
       IN  /\ chan' = [chan EXCEPT ![c] = IF CanSend(c) THEN Queued(c, Frame(b)) ELSE @]
           /\ todo' = [todo EXCEPT ![b] = rest]
           /\ pc' = [pc EXCEPT ![b] = IF rest = <<>> THEN Resting(b) ELSE "send"]
           /\ holder' = IF rest = <<>> THEN "none" ELSE b
    /\ UNCHANGED <<generation, last_generation, broadcasts, conn, taskVars, seen>>

\* ... and keeps it over the sends, one subscriber after the other.
Send(b) ==
    /\ pc[b] = "send"
    /\ LET c == Head(todo[b])
           rest == Tail(todo[b])
       IN  /\ CanSend(c)
           /\ chan' = [chan EXCEPT ![c] = Queued(c, Frame(b))]
           /\ todo' = [todo EXCEPT ![b] = rest]
           /\ pc' = [pc EXCEPT ![b] = IF rest = <<>> THEN Resting(b) ELSE "send"]
           /\ holder' = IF rest = <<>> THEN "none" ELSE b
    /\ UNCHANGED <<generation, last_generation, broadcasts, conn, taskVars, seen>>

Next ==
    \/ RegisterTool \/ WatchTick
    \/ \E b \in Broadcasters : Complete(b) \/ Acquire(b) \/ Send(b)
    \/ \E c \in Clients :
         \/ Connect(c) \/ Subscribe(c) \/ Open(c) \/ Disconnect(c) \/ Read(c)
         \/ Hello(c) \/ Beat(c) \/ BeatFails(c) \/ Unsubscribe(c)

Spec == Init /\ [][Next]_vars

\* The runtime polls every task that can proceed, tokio hands the lock and the room
\* in a channel out in the order of the requests, and clients that are not stalled
\* read on.
FairSpec ==
    /\ Spec
    /\ WF_vars(WatchTick)
    /\ SF_vars(Acquire("watcher"))
    /\ \A b \in Broadcasters : SF_vars(Send(b))
    /\ \A c \in Clients : WF_vars(Open(c))
    /\ \A c \in Clients \ Stalled : WF_vars(Read(c))

-----------------------------------------------------------------------------
\* Type invariant.  Only the holder of the write lock is in the middle of a
\* broadcast, so "retain" never runs under another task's iteration.
TypeOK ==
    /\ generation \in Nat /\ last_generation \in 0..generation
    /\ broadcasts \in Seq(Clients) /\ Len(broadcasts) <= MaxSubscribers
    /\ holder \in Broadcasters \cup {"none"}
    /\ \A b \in Broadcasters :
         /\ pc[b] \in {"idle", "lock", "send", "end"}
         /\ todo[b] \in Seq(Clients)
         /\ pc[b] = "send" <=> holder = b
         /\ pc[b] = "send" <=> todo[b] # <<>>
    /\ \A c \in Clients :
         /\ conn[c] \in {"new", "lock", "session", "open", "closed"}
         /\ chan[c] \in Seq(0..generation) /\ Len(chan[c]) <= Cap
    /\ active \in Int

\* The gauge never falls below the number of clients that are being served: the
\* two places that notice a dead client do not both take it off.
GaugeCoversOpen == active >= Cardinality({c \in Clients : conn[c] = "open"})

\* A subscriber that reads learns of every change of the tool list: changes that
\* arrive during a broadcast, or between the tick and the lock, are not lost.  The
\* API guide promises it to every subscriber within a second.
ChangesDelivered ==
    \A c \in Clients \ Stalled :
      (conn[c] = "open" /\ IsSubscribed(c) /\ seen[c] < generation)
        ~> (conn[c] # "open" \/ seen[c] = generation)

-----------------------------------------------------------------------------
(* What comments and messages of the code claim and its behaviours do not      *)
(* satisfy: the README says on which instance each is refuted.                 *)

\* What the metric says it is, the number of active SSE connections: zero when no
\* client is connected and every heartbeat task has ended.
GaugeReturnsToZero ==
    (\A c \in Clients : conn[c] \in {"new", "closed"} /\ beat[c] \in {"none", "end"})
      => active = 0
=============================================================================
