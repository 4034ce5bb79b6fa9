--------------------------- MODULE RequestContext ---------------------------
(***************************************************************************)
(* The per-request context of the HTTP transport.  src/audit.rs keeps the  *)
(* session id and the transport name in thread-local cells; the handlers   *)
(* of src/transport/http.rs and src/middleware.rs set them on the runtime  *)
(* worker that polls them, dispatch of src/protocol/json_rpc.rs reads them *)
(* to route audit entries and to build cancellation keys, and SessionGuard *)
(* clears the session.  A task keeps its worker until its next await and   *)
(* may be resumed on another one.                                          *)
(***************************************************************************)
EXTENDS Naturals, FiniteSets

CONSTANTS
    Workers,      \* runtime threads
    Posts,        \* requests to handle_json_rpc
    Ndas,         \* requests to handle_nda_rpc
    Batches,      \* requests to handle_batch
    Streams,      \* requests to handle_streamable
    Sockets,      \* connections of handle_websocket
    Sessions,     \* session ids that clients name
    Ids,          \* JSON-RPC ids
    MaxRequests,  \* bound: JSON-RPC requests a batch or a socket carries
    MaxCancelled  \* MAX_CANCELLED_IDS

ASSUME ContextAssumption ==
    /\ MaxRequests \in Nat \ {0}
    /\ MaxCancelled \in Nat \ {0}
    /\ "none" \notin Workers
    /\ {} = Ndas \cap (Posts \cup Batches \cup Streams \cup Sockets)
    /\ {} = Posts \cap (Batches \cup Streams \cup Sockets)
    /\ {} = Batches \cap (Streams \cup Sockets)
    /\ {} = Streams \cap Sockets

Tasks == Posts \cup Ndas \cup Batches \cup Streams \cup Sockets

VARIABLES
    session_id,  \* CURRENT_SESSION_ID of each worker, or "none"
    transport,   \* CURRENT_TRANSPORT of each worker, or "none"
    cancelled,   \* CANCELLED_IDS
    at, on,      \* where each task is, and the worker it occupies, or "none"
    own,         \* the session each task belongs to
    req,         \* the tools/call a task is executing
    left,        \* JSON-RPC requests a task may still carry
    audit,       \* history: the entries recorded
    asked,       \* history: <<session, id>> of the cancellations clients sent
    called,      \* history: <<session, id>> of the calls clients sent
    answers      \* history: the answers to calls

vars == <<session_id, transport, cancelled, at, on, own, req, left, audit, asked, called, answers>>

Init ==
    /\ session_id = [w \in Workers |-> "none"]
    /\ transport = [w \in Workers |-> "none"]
    /\ cancelled = {}
    /\ at = [t \in Tasks |-> "new"]
    /\ on = [t \in Tasks |-> "none"]
    /\ own = [t \in Tasks |-> "none"]
    /\ req = [t \in Tasks |-> "none"]
    /\ left = [t \in Tasks |-> IF t \in Batches \cup Sockets THEN MaxRequests ELSE 1]
    /\ audit = {} /\ asked = {} /\ called = {} /\ answers = {}

IdleWorkers == {w \in Workers : \A t \in Tasks : on[t] # w}

TransportOf(t) ==
    CASE t \in Posts   -> "http"
      [] t \in Ndas    -> "nda_http"
      [] t \in Batches -> "http"
      [] t \in Streams -> "sse"
      [] t \in Sockets -> "websocket"

\* The X-Session-ID header or the session_id query; without one, and for a
\* socket, a fresh id, which is written as the task itself.
SessionChoices(t) == IF t \in Sockets THEN {t} ELSE Sessions \cup {t}

\* Faulty variant: the batch endpoint leaves the session of the worker alone.
EnterUnlessBatch(t, w, s) ==
    /\ at[t] = "new" /\ w \in IdleWorkers
    /\ own' = [own EXCEPT ![t] = s]
    /\ session_id' = [session_id EXCEPT ![w] = IF t \in Batches THEN @ ELSE s]
    /\ transport' = [transport EXCEPT ![w] = IF t \in Batches THEN @ ELSE TransportOf(t)]
    /\ at' = [at EXCEPT ![t] = IF t \in Sockets THEN "await" ELSE "ready"]
    /\ on' = [on EXCEPT ![t] = IF t \in Sockets THEN "none" ELSE w]
    /\ UNCHANGED <<cancelled, req, left, audit, asked, called, answers>>

\* The first poll of a handler or of the task it spawns.  handle_batch_request
\* sets the session only.  A socket goes on to wait for its first message; the first
\* frame of a stream goes into an empty channel, so that send does not wait.
Enter(t, w, s) ==
    /\ at[t] = "new" /\ w \in IdleWorkers
    /\ own' = [own EXCEPT ![t] = s]
    /\ session_id' = [session_id EXCEPT ![w] = s]
    /\ transport' = [transport EXCEPT ![w] = IF t \in Batches THEN @ ELSE TransportOf(t)]
    /\ at' = [at EXCEPT ![t] = IF t \in Sockets THEN "await" ELSE "ready"]
    /\ on' = [on EXCEPT ![t] = IF t \in Sockets THEN "none" ELSE w]
    /\ UNCHANGED <<cancelled, req, left, audit, asked, called, answers>>

\* After a request: a batch takes its next element, a post returns, and a stream
\* or a socket reaches an await (broadcast_event; the send of the answer).
After(t) ==
    IF t \in Batches THEN "ready" ELSE IF t \in Posts THEN "leave" ELSE "await"

Settle(t) ==
    /\ at' = [at EXCEPT ![t] = After(t)]
    /\ on' = [on EXCEPT ![t] = IF After(t) = "await" THEN "none" ELSE @]

\* Faulty variant: the key is the bare request id.
KeyWithoutSession(w, id) == <<"none", id>>

\* cancellation_key
CancellationKey(w, id) == <<session_id[w], id>>

\* notifications/cancelled: add_cancelled empties a full set first.
Cancel(t, id) ==
    /\ t \notin Ndas
    /\ at[t] = "ready" /\ left[t] > 0
    /\ left' = [left EXCEPT ![t] = @ - 1]
    /\ cancelled' = (IF Cardinality(cancelled) >= MaxCancelled THEN {} ELSE cancelled)
                      \cup {CancellationKey(on[t], id)}
    /\ asked' = asked \cup {<<own[t], id>>}
    /\ Settle(t)
    /\ UNCHANGED <<session_id, transport, own, req, audit, called, answers>>

Answer(t, id, result) ==
    answers' = answers \cup
      {[task |-> t, id |-> id, result |-> result, asked |-> <<own[t], id>> \in asked]}

\* tools/call, up to the call of the tool.  A session uses an id once.
Call(t, id) ==
    /\ t \notin Ndas
    /\ at[t] = "ready" /\ left[t] > 0
    /\ <<own[t], id>> \notin called
    /\ called' = called \cup {<<own[t], id>>}
    /\ left' = [left EXCEPT ![t] = @ - 1]
    /\ LET key == CancellationKey(on[t], id)
       IN  IF key \in cancelled
             THEN /\ cancelled' = cancelled \ {key}
                  /\ Answer(t, id, "cancelled")
                  /\ Settle(t)
                  /\ UNCHANGED req
             ELSE /\ req' = [req EXCEPT ![t] = id]
                  /\ at' = [at EXCEPT ![t] = "exec"]
                  /\ UNCHANGED <<cancelled, answers, on>>
    /\ UNCHANGED <<session_id, transport, own, audit, asked>>

\* METHOD_TOOLS_CALL of dispatch_nda_request, which knows no cancellation.
CallNda(t) ==
    /\ t \in Ndas
    /\ at[t] = "ready" /\ left[t] > 0
    /\ left' = [left EXCEPT ![t] = @ - 1]
    /\ at' = [at EXCEPT ![t] = "exec"]
    /\ UNCHANGED <<session_id, transport, cancelled, on, own, req, audit, asked, called, answers>>

\* record_tool_call routes the entry by the cells of this worker.
Entry(t) == [task |-> t, session |-> session_id[on[t]], transport |-> transport[on[t]]]

\* The rate limit refuses the call: an answer without the second cancellation test.
Limited(t) ==
    /\ at[t] = "exec" /\ t \notin Ndas
    /\ audit' = audit \cup {Entry(t)}
    /\ Answer(t, req[t], "limited")
    /\ Settle(t)
    /\ UNCHANGED <<session_id, transport, cancelled, own, req, left, asked, called>>

\* The tool ran or failed, or an NDA call was refused.
Record(t) ==
    /\ at[t] = "exec"
    /\ audit' = audit \cup {Entry(t)}
    /\ at' = [at EXCEPT ![t] = IF t \in Ndas THEN "leave" ELSE "check"]
    /\ UNCHANGED <<session_id, transport, cancelled, on, own, req, left, asked, called, answers>>

\* Faulty variant: a cancellation that arrives during the execution is ignored.
FinishUnchecked(t) ==
    /\ at[t] = "check"
    /\ Answer(t, req[t], "done")
    /\ Settle(t)
    /\ UNCHANGED <<session_id, transport, cancelled, own, req, left, audit, asked, called>>

\* The second test of the cancellation set, after the execution.
Finish(t) ==
    /\ at[t] = "check"
    /\ LET key == CancellationKey(on[t], req[t])
       IN  /\ cancelled' = cancelled \ {key}
           /\ Answer(t, req[t], IF key \in cancelled THEN "cancelled" ELSE "done")
    /\ Settle(t)
    /\ UNCHANGED <<session_id, transport, own, req, left, audit, asked, called>>

\* The runtime polls a waiting task on any idle worker; nothing restores the cells.
Resume(t, w) ==
    /\ at[t] = "await" /\ w \in IdleWorkers
    /\ on' = [on EXCEPT ![t] = w]
    /\ at' = [at EXCEPT ![t] = IF t \in Sockets THEN "ready" ELSE "leave"]
    /\ UNCHANGED <<session_id, transport, cancelled, own, req, left, audit, asked, called, answers>>

\* SessionGuard: the session of the worker the task ends on.  Also the early
\* returns: a refusal at shutdown, an invalid request, a closed socket.
Leave(t) ==
    /\ at[t] \in {"ready", "leave"}
    /\ session_id' = [session_id EXCEPT ![on[t]] = "none"]
    /\ at' = [at EXCEPT ![t] = "done"]
    /\ on' = [on EXCEPT ![t] = "none"]
    /\ UNCHANGED <<transport, cancelled, own, req, left, audit, asked, called, answers>>

Next ==
    \E t \in Tasks :
      \/ \E w \in Workers, s \in SessionChoices(t) : Enter(t, w, s)
      \/ \E id \in Ids : Cancel(t, id) \/ Call(t, id)
      \/ CallNda(t) \/ Limited(t) \/ Record(t) \/ Finish(t) \/ Leave(t)
      \/ \E w \in Workers : Resume(t, w)

Spec == Init /\ [][Next]_vars

-----------------------------------------------------------------------------
\* Every tool call of a handler that sets its context in the poll that uses it is
\* recorded under its own session, whatever other tasks leave behind in the cells
\* of the worker.
AuditRouted == \A e \in audit : e.task \notin Sockets => e.session = own[e.task]

\* What AuditRegistry documents: entries are isolated by session, for every task.
AuditIsolated == \A e \in audit : e.session = own[e.task]

\* No socket has sent a request: its keys are made from the cells of whatever worker
\* it is resumed on.
SocketsQuiet == (asked \cup called) \cap (Sockets \X Ids) = {}

\* A call is answered "cancelled" only when its own session has asked for it, as
\* the comment on cancellation_key says: not because another client cancelled a
\* request with the same number.
CancelOwn == SocketsQuiet => \A a \in answers : a.result = "cancelled" => a.asked

\* A cancellation that was processed before the call was answered is honoured,
\* whether it overtook the call or arrived while the tool ran: the result of the
\* tool is not sent.
CancelHonoured == SocketsQuiet => \A a \in answers : a.asked => a.result # "done"

\* A cancellation reaches the call it names in its own session, before the call, during
\* it or between the requests of a batch, and no other call.
CancelsKept == CancelOwn /\ CancelHonoured

-----------------------------------------------------------------------------
(* What comments and messages of the code claim and its behaviours do not      *)
(* satisfy: the README says on which instance each is refuted.                 *)

\* What AuditEntry documents: the transport of an entry is the one that carried
\* the call.
TransportLabelled == \A e \in audit : e.transport = TransportOf(e.task)
=============================================================================
