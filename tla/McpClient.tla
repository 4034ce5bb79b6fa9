------------------------------ MODULE McpClient ------------------------------
(***************************************************************************)
(* The client library: McpClient over one of its transports.  Tasks share  *)
(* the client; the stdio transport lets one at a time use the pipes of the *)
(* server it started, which are moved out of the child for the time of a   *)
(* call and dropped with it when the task is cancelled.  The two shared    *)
(* memory transports ("json" and "nda") are seen here from above send_raw, *)
(* whose answer may be another request's (ShmemChannel has the inside).    *)
(***************************************************************************)
EXTENDS Naturals, Sequences, FiniteSets

CONSTANTS
  Tasks,
  Transports,               \* subset of {"stdio", "json", "nda", "http"}
  ErrPipe,                  \* log lines the stderr pipe holds
  MaxSends, MaxCancels, MaxCrashes    \* bounds of a behaviour

ASSUME ClientAssumption ==
  "nobody" \notin Tasks /\ Transports \subseteq {"stdio", "json", "nda", "http"}

VARIABLES
  transport,
  task,       \* task -> its send
  holder,     \* whose the child's (or the buffer's) mutex is
  pipes,      \* are stdin and stdout in the child (or the buffer in its Option)
  open,       \* does anybody have the client's end of the pipes
  childStdin, stdout, errs,      \* the server's pipes
  server,     \* "up", "stuck" (on its stderr) or "dead"
  heard,      \* history: what the server has handled
  closed,     \* "no", "waiting" (the flag is set) or "yes"
  session,    \* initialize: "new", "asking", "notifying", "ready", "failed"
  next_id, sends, cancels, crashes

clientVars == <<transport, task, holder, pipes, open, childStdin, stdout, errs, server, heard,
                closed, session, next_id, sends, cancels, crashes>>
serverVars == <<childStdin, stdout, errs, server, heard>>
budgets == <<cancels, crashes>>

Resting == [pc |-> "idle", id |-> 0, what |-> "none", late |-> FALSE,
            answer |-> "none", got |-> 0]
Shared == transport \in {"json", "nda"}

ClientInit ==
  /\ transport \in Transports
  /\ task = [t \in Tasks |-> Resting]
  /\ holder = "nobody" /\ pipes = TRUE /\ open = TRUE
  /\ childStdin = <<>> /\ stdout = <<>> /\ errs = 0
  /\ server = "up" /\ heard = <<>>
  /\ closed = "no" /\ session = "new"
  /\ next_id = 1 /\ sends = 0 /\ cancels = 0 /\ crashes = 0

\* What a task has after its send: an answer, for a request with the id in it.
Ends(t, answer, got) ==
  task' = [task EXCEPT ![t].pc = "idle", ![t].answer = answer, ![t].got = got]
Frees(t) == holder' = "nobody"

(***************************************************************************)
(* send_request and initialize.  initialize has the client for itself; its *)
(* notification has no id.                                                 *)
(***************************************************************************)
Exclusive == session \in {"asking", "notifying"}

BeginSend(t, what) ==
  LET id == IF what = "initialized" THEN 0 ELSE next_id IN
  /\ task[t].pc = "idle" /\ sends < MaxSends /\ sends' = sends + 1
  /\ next_id' = IF id = 0 THEN next_id ELSE next_id + 1
  /\ task' = [task EXCEPT ![t] =
       [pc |-> IF Shared /\ closed # "no" THEN "idle"
               ELSE IF transport = "http" THEN "post" ELSE "lock",
        id |-> id, what |-> what, late |-> closed = "yes",
        answer |-> IF Shared /\ closed # "no" THEN "closed" ELSE "none", got |-> 0]]
  /\ UNCHANGED <<transport, holder, pipes, open, serverVars, closed, budgets>>

CallClient(t) == ~ Exclusive /\ BeginSend(t, "call") /\ UNCHANGED session

Initialize(t) ==
  /\ session = "new" /\ \A u \in Tasks : task[u].pc = "idle"
  /\ BeginSend(t, "initialize") /\ session' = "asking"

\* A mutant of Notify: the answer to initialize is not looked at.
NotifyAnyway(t) ==
  /\ session = "asking" /\ task[t].pc = "idle" /\ task[t].what = "initialize"
  /\ BeginSend(t, "initialized") /\ session' = "notifying"

\* send_request gave a result, and the notification follows.
Notify(t) ==
  /\ session = "asking" /\ task[t].pc = "idle" /\ task[t].what = "initialize"
  /\ task[t].answer = "result"
  /\ BeginSend(t, "initialized") /\ session' = "notifying"

\* A send of initialize failed, or its task is gone: initialized stays false.
\* The last one was acknowledged: it is set.
Initialized(t) ==
  /\ Exclusive /\ task[t].pc = "idle" /\ task[t].what \in {"initialize", "initialized"}
  /\ \/ task[t].answer \notin {"result", "acked"} /\ session' = "failed"
     \/ session = "notifying" /\ task[t].answer = "acked" /\ session' = "ready"
  /\ UNCHANGED <<transport, task, holder, pipes, open, serverVars, closed, next_id, sends, budgets>>

(***************************************************************************)
(* StdioTransport::send                                                    *)
(***************************************************************************)
Lock(t) ==
  /\ task[t].pc = "lock" /\ holder = "nobody"
  /\ IF ~ pipes THEN Ends(t, "closed", 0) /\ UNCHANGED <<holder, pipes>>
     ELSE /\ holder' = t
          /\ task' = [task EXCEPT ![t].pc = IF Shared THEN "raw" ELSE "write"]
          /\ pipes' = Shared      \* take()
  /\ UNCHANGED <<transport, open, serverVars, closed, session, next_id, sends, budgets>>

\* An error leaves the pipes with the locals, and drops them.
WriteRequest(t) ==
  /\ task[t].pc = "write"
  /\ IF server = "dead"
     THEN Ends(t, "error", 0) /\ Frees(t) /\ open' = FALSE /\ UNCHANGED <<pipes, childStdin>>
     ELSE /\ childStdin' = Append(childStdin, task[t])
          /\ IF task[t].id = 0
             THEN Ends(t, "acked", 0) /\ Frees(t) /\ pipes' = TRUE
             ELSE task' = [task EXCEPT ![t].pc = "read"] /\ UNCHANGED <<holder, pipes>>
          /\ UNCHANGED open
  /\ UNCHANGED <<transport, stdout, errs, server, heard, closed, session, next_id, sends, budgets>>

\* The reader is made for one line; what else it has buffered goes with it.
Read(t) ==
  /\ task[t].pc = "read" /\ stdout # <<>>
  /\ \E k \in 1..Len(stdout) : stdout' = SubSeq(stdout, k + 1, Len(stdout))
  /\ Ends(t, "result", Head(stdout)) /\ Frees(t) /\ pipes' = TRUE
  /\ UNCHANGED <<transport, open, childStdin, errs, server, heard, closed, session, next_id, sends,
                 budgets>>

\* A mutant of ReadEof: an empty line is read over.
ReadEofAgain(t) ==
  /\ task[t].pc = "read" /\ stdout = <<>> /\ server = "dead"
  /\ UNCHANGED clientVars

\* The server is gone: nothing is left to read, or part of a line that does not parse
\* and drops the pipes too.
ReadEof(t) ==
  /\ task[t].pc = "read" /\ stdout = <<>> /\ server = "dead"
  /\ Ends(t, "closed", 0) \/ Ends(t, "error", 0)
  /\ Frees(t) /\ open' = FALSE
  /\ UNCHANGED <<transport, pipes, serverVars, closed, session, next_id, sends, budgets>>

\* A mutant of Cancel: a guard puts the pipes back.
CancelPutsBack(t) ==
  /\ task[t].pc \in {"lock", "write", "read", "post"} /\ cancels < MaxCancels
  /\ cancels' = cancels + 1
  /\ Ends(t, "cancelled", 0)
  /\ IF holder = t THEN Frees(t) /\ pipes' = TRUE ELSE UNCHANGED <<holder, pipes>>
  /\ UNCHANGED <<transport, open, serverVars, closed, session, next_id, sends, crashes>>

\* The future is dropped at one of its awaits, and the pipes with it.
Cancel(t) ==
  /\ task[t].pc \in {"lock", "write", "read", "post"} /\ cancels < MaxCancels
  /\ ~ Shared
  /\ cancels' = cancels + 1
  /\ Ends(t, "cancelled", 0)
  /\ IF holder = t THEN Frees(t) /\ open' = FALSE ELSE UNCHANGED <<holder, open>>
  /\ UNCHANGED <<transport, pipes, serverVars, closed, session, next_id, sends, crashes>>

(***************************************************************************)
(* The shared memory transports, which send without an await.              *)
(***************************************************************************)
Checked == transport = "json"

\* send_raw gives this request's answer, another's, or none.  The JSON
\* transport compares the ids of a request; a notification is answered too,
\* and its answer read by the JSON transport and dropped by the other.
SendRaw(t) ==
  /\ task[t].pc = "raw" /\ Frees(t)
  /\ \E got \in {task[t].id, task[t].id + 1} :
       Ends(t, IF task[t].id = 0 THEN "acked"
               ELSE IF Checked /\ got # task[t].id THEN "error" ELSE "result", got)
     \/ Ends(t, "error", 0)
  /\ heard' \in {heard, Append(heard, task[t].what)}
  /\ task'[t].answer \in {"acked", "result"} /\ task'[t].got \in {0, task[t].id}
       => heard' = Append(heard, task[t].what)
  /\ UNCHANGED <<transport, pipes, open, childStdin, stdout, errs, server, closed, session, next_id,
                 sends, budgets>>

(***************************************************************************)
(* HttpTransport::send: 204 answers a notification, and is an error to a   *)
(* request; so are other statuses, and no answer.                          *)
(***************************************************************************)
Post(t) ==
  /\ task[t].pc = "post"
  /\ \/ /\ heard' = Append(heard, task[t].what)
        /\ IF task[t].id = 0 THEN Ends(t, "acked", 0)
           ELSE \E ok \in BOOLEAN : Ends(t, IF ok THEN "result" ELSE "error",
                                         IF ok THEN task[t].id ELSE 0)
     \/ Ends(t, "error", 0) /\ heard' \in {heard, Append(heard, task[t].what)}
  /\ UNCHANGED <<transport, holder, pipes, open, childStdin, stdout, errs, server, closed, session,
                 next_id, sends, budgets>>

(***************************************************************************)
(* close: kill and reap the child, or drop the buffer, under the mutex.    *)
(***************************************************************************)
CloseBegins ==
  /\ closed = "no" /\ ~ Exclusive
  /\ closed' = IF transport = "http" THEN "yes" ELSE "waiting"
  /\ UNCHANGED <<transport, task, holder, pipes, open, serverVars, session, next_id, sends, budgets>>

\* A mutant of CloseClient: the child is left alone.
CloseNoKill ==
  /\ closed = "waiting" /\ holder = "nobody"
  /\ closed' = "yes"
  /\ UNCHANGED <<transport, task, holder, pipes, open, serverVars, session, next_id, sends, budgets>>

CloseClient ==
  /\ closed = "waiting" /\ holder = "nobody"
  /\ closed' = "yes"
  /\ server' = IF Shared THEN server ELSE "dead"
  /\ pipes' = (pipes /\ ~ Shared)
  /\ UNCHANGED <<transport, task, holder, open, childStdin, stdout, errs, heard, session, next_id,
                 sends, budgets>>

(***************************************************************************)
(* The server the stdio transport started.  It answers requests in order,  *)
(* logs to its stderr, which nobody reads, and ends with its stdin.        *)
(***************************************************************************)
Handle ==
  /\ transport = "stdio" /\ server = "up" /\ childStdin # <<>>
  /\ \E logs \in 0..1 :
       IF errs + logs > ErrPipe
       THEN server' = "stuck" /\ UNCHANGED <<childStdin, stdout, errs, heard>>
       ELSE /\ errs' = errs + logs
            /\ childStdin' = Tail(childStdin) /\ heard' = Append(heard, Head(childStdin).what)
            /\ IF Head(childStdin).id = 0 THEN UNCHANGED <<stdout, server>>
               ELSE IF open THEN stdout' = Append(stdout, Head(childStdin).id) /\ UNCHANGED server
               ELSE server' = "dead" /\ UNCHANGED stdout
  /\ UNCHANGED <<transport, task, holder, pipes, open, closed, session, next_id, sends, budgets>>

ServerEof ==
  /\ transport = "stdio" /\ server = "up" /\ childStdin = <<>> /\ ~ open
  /\ server' = "dead"
  /\ UNCHANGED <<transport, task, holder, pipes, open, childStdin, stdout, errs, heard, closed, session,
                 next_id, sends, budgets>>

Crash ==
  /\ transport = "stdio" /\ server = "up" /\ crashes < MaxCrashes
  /\ server' = "dead" /\ crashes' = crashes + 1
  /\ UNCHANGED <<transport, task, holder, pipes, open, childStdin, stdout, errs, heard, closed, session,
                 next_id, sends, cancels>>

SendStep(t) == \/ Lock(t) \/ WriteRequest(t) \/ Read(t) \/ ReadEof(t) \/ SendRaw(t) \/ Post(t)
               \/ Notify(t) \/ Initialized(t)
ServerStep == Handle \/ ServerEof
ClientNext ==
  \/ \E t \in Tasks : CallClient(t) \/ Initialize(t) \/ SendStep(t) \/ Cancel(t)
  \/ CloseBegins \/ CloseClient \/ ServerStep \/ Crash

\* The executor polls every task that can go on; the server runs; tokio's
\* mutex is fair.
ClientFair == /\ \A t \in Tasks : SF_clientVars(SendStep(t))
              /\ WF_clientVars(ServerStep) /\ SF_clientVars(CloseClient)
ClientSpec == ClientInit /\ [][ClientNext]_clientVars /\ ClientFair

-----------------------------------------------------------------------------
\* A result a task gets is the answer to the request it sent, whichever tasks
\* were cancelled before it with their answers under way, and whatever the
\* server died of.  The stdio transport has no other means to tell them apart
\* than the pipes it dropped.
AnswersOwn ==
  \A t \in Tasks : task[t].answer = "result" /\ transport # "nda" => task[t].got = task[t].id

\* Once close has returned, a send that starts fails: no request reaches a
\* server that was told to end, and no answer comes from a dropped buffer.
ClosedStaysClosed ==
  \A t \in Tasks : task[t].late /\ transport # "http" =>
    task[t].answer \notin {"result", "acked"}

\* The server handles "notifications/initialized" only after "initialize":
\* the handshake is in order on every transport that tells answers apart, lost
\* answers and a server that died included.
HandshakeInOrder ==
  \A i \in 1..Len(heard) : heard[i] = "initialized" /\ transport # "nda" =>
    \E j \in 1..(i - 1) : heard[j] = "initialize"

\* Through cancelled tasks, a close and the death of the server a send gets its own
\* answer or an error, and the server hears the handshake in order.
SendsHonest == AnswersOwn /\ ClosedStaysClosed /\ HandshakeInOrder

\* Every send ends, the server dying under it included, unless the server is
\* stuck writing to its stderr.
SendsEnd == \A t \in Tasks : task[t].pc # "idle" ~> (task[t].pc = "idle" \/ server = "stuck")

-----------------------------------------------------------------------------
(* Claims that do not hold; the README's table says why. *)

\* Sends and close end, whatever the server logs.
SendsEndAlways == \A t \in Tasks : task[t].pc # "idle" ~> task[t].pc = "idle"
CloseEnds == closed = "waiting" ~> closed = "yes"

\* A task that was cancelled costs the others nothing.
UsableAfterCancel ==
  \A t \in Tasks : crashes = 0 /\ closed = "no" => task[t].answer # "closed"

\* The binary transport gives a request its own answer.
BinaryAnswersOwn ==
  \A t \in Tasks : task[t].answer = "result" => task[t].got = task[t].id
=============================================================================
