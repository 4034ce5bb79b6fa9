---------------------------- MODULE ShmemChannel ----------------------------
(***************************************************************************)
(* The shared-memory request/response channel: one client process          *)
(* (client/src/transport/shmem.rs behind ShmemTransport or                 *)
(* JsonShmemTransport) and one server process (src/ipc/shmem.rs driven by  *)
(* run_shmem_loop_inner), talking through a state byte, two length fields, *)
(* an input and an output region and two auto-reset Win32 events.          *)
(*                                                                         *)
(* Every access to shared memory is a step of its own.  The bytes of a     *)
(* request are two cells, because a copy that races with the client's next *)
(* write may return a mixture; a cell holds the number of the call that    *)
(* wrote it.                                                               *)
(***************************************************************************)
EXTENDS Integers

CONSTANTS
    MaxCalls,     \* bound: calls of Transport::send made by the client
    MaxTimeouts,  \* bound: deadlines of wait_for_response that may expire
    MaxCrashes,   \* bound: server crashes (each followed by a restart)
    MaxSignals,   \* bound: Ctrl+C presses on the server
    Format,       \* "nda" (ShmemTransport) or "json" (JsonShmemTransport)
    Merkle        \* features.nda_merkle: NDA frames carry a verified hash

ASSUME ShmemAssumption ==
    /\ MaxCalls \in Nat
    /\ MaxTimeouts \in Nat
    /\ MaxCrashes \in Nat
    /\ MaxSignals \in Nat
    /\ Format \in {"nda", "json"}
    /\ Merkle \in BOOLEAN

VARIABLES
    \* the mapped file, and which of the two auto-reset events are signalled
    state, inLen, inHead, inTail, seqCell, outLen, outBody, events,
    \* the client
    cpc, cur, nextSeq, sentSeq,
    \* the server
    spc, raw, resp, shutdown,
    \* history: what every call returned, how often every request ran, whether
    \* the server ever read a mixture of two requests, and the faults so far
    answers, execs, tornRead, timeouts, crashes, signals

memVars    == <<state, inLen, inHead, inTail, seqCell, outLen, outBody>>
inputVars  == <<inLen, inHead, inTail, seqCell>>
clientVars == <<cpc, cur, nextSeq, sentSeq, answers>>
serverVars == <<spc, raw, resp, execs, tornRead>>
faultVars  == <<shutdown, timeouts, crashes, signals>>
vars == <<memVars, events, clientVars, serverVars, faultVars>>

Calls == 1..MaxCalls

\* The values of the state byte.
States == {"IDLE", "REQ_READY", "PROCESSING", "RES_READY", "ERROR"}

\* A response body: the id it echoes and the call whose arguments it answers;
\* 0 stands for the null id and the missing result of an error document.
Bodies == [id : 0..MaxCalls, of : 0..MaxCalls]
NoBody == [id |-> 0, of |-> 0]

\* What a call returned to its caller.
Outcomes == [kind : {"none", "ok", "error", "stale", "timeout", "refused"},
             of : 0..MaxCalls]
Outcome(k, n) == [kind |-> k, of |-> n]

ClientSteps ==
    {"idle", "write_head", "write_tail", "store_ready", "set_event", "wait",
     "block", "last", "drain_timeout", "reset_timeout", "load", "drain",
     "reset", "reset_error", "read_len", "read_len_error", "read_body",
     "read_error"}

ServerSteps ==
    {"top", "spin", "block", "load", "claim", "read_len", "read_head",
     "read_tail", "dispatch", "write_body", "write_len", "publish", "signal",
     "down", "reset_in", "reset_out", "reset_state", "exited"}

Init ==
    /\ state = "IDLE"
    /\ inLen = 0 /\ inHead = 0 /\ inTail = 0 /\ seqCell = 0
    /\ outLen = 0 /\ outBody = NoBody
    /\ events = {}
    /\ cpc = "idle" /\ cur = 0 /\ nextSeq = 1 /\ sentSeq = 0
    /\ spc = "top" /\ raw = [len |-> 0, head |-> 0, tail |-> 0]
    /\ resp = [state |-> "IDLE", body |-> NoBody, fits |-> TRUE]
    /\ shutdown = FALSE
    /\ answers = [r \in Calls |-> Outcome("none", 0)]
    /\ execs = [r \in Calls |-> 0]
    /\ tornRead = FALSE
    /\ timeouts = 0 /\ crashes = 0 /\ signals = 0

-----------------------------------------------------------------------------
(* The client: Transport::send holds the buffer mutex, so calls never overlap *)

\* Faulty variant: one call past the bound.
MayCallOnceMore == cpc = "idle" /\ cur <= MaxCalls

MayCall == cpc = "idle" /\ cur < MaxCalls

\* send_raw refuses a request that does not fit before it touches the buffer.
ClientRefuse ==
    /\ MayCall
    /\ cur' = cur + 1
    /\ answers' = [answers EXCEPT ![cur + 1] = Outcome("refused", 0)]
    /\ UNCHANGED <<memVars, events, cpc, nextSeq, sentSeq, serverVars, faultVars>>

\* send_raw: the length field first, then the bytes.
ClientWriteLen ==
    /\ MayCall
    /\ cur' = cur + 1
    /\ inLen' = cur + 1
    /\ cpc' = "write_head"
    /\ UNCHANGED <<state, inHead, inTail, seqCell, outLen, outBody, events,
                   nextSeq, sentSeq, answers, serverVars, faultVars>>

ClientWriteHead ==
    /\ cpc = "write_head"
    /\ inHead' = cur
    /\ cpc' = "write_tail"
    /\ UNCHANGED <<state, inLen, inTail, seqCell, outLen, outBody, events,
                   cur, nextSeq, sentSeq, answers, serverVars, faultVars>>

\* The rest of the bytes and the sequence number, which no server code reads.
\* next_seq wraps at 2^32; MaxCalls stays far below it.
ClientWriteTail ==
    /\ cpc = "write_tail"
    /\ inTail' = cur
    /\ sentSeq' = nextSeq
    /\ nextSeq' = nextSeq + 1
    /\ seqCell' = nextSeq
    /\ cpc' = "store_ready"
    /\ UNCHANGED <<state, inLen, inHead, outLen, outBody, events,
                   cur, answers, serverVars, faultVars>>

ClientStoreReady ==
    /\ cpc = "store_ready"
    /\ state' = "REQ_READY"
    /\ cpc' = "set_event"
    /\ UNCHANGED <<inputVars, outLen, outBody, events, cur, nextSeq, sentSeq,
                   answers, serverVars, faultVars>>

\* Faulty variant: the request event is not set.
ClientForgetsEvent ==
    /\ cpc = "set_event"
    /\ cpc' = "wait"
    /\ UNCHANGED <<memVars, events, cur, nextSeq, sentSeq, answers,
                   serverVars, faultVars>>

ClientSetEvent ==
    /\ cpc = "set_event"
    /\ events' = events \cup {"req"}
    /\ cpc' = "wait"
    /\ UNCHANGED <<memVars, cur, nextSeq, sentSeq, answers,
                   serverVars, faultVars>>

\* Faulty variant: a claimed request is taken for an answered one.
AnsweredEarly == state \in {"PROCESSING", "RES_READY", "ERROR"}

Answered == state \in {"RES_READY", "ERROR"}

\* wait_for_response: the state byte decides, the event only wakes.
ClientSeesAnswer ==
    /\ cpc \in {"wait", "last"}
    /\ Answered
    /\ cpc' = "load"
    /\ UNCHANGED <<memVars, events, cur, nextSeq, sentSeq, answers,
                   serverVars, faultVars>>

ClientBlocks ==
    /\ cpc = "wait"
    /\ ~Answered
    /\ cpc' = "block"
    /\ UNCHANGED <<memVars, events, cur, nextSeq, sentSeq, answers,
                   serverVars, faultVars>>

ClientWakes ==
    /\ cpc = "block"
    /\ "res" \in events
    /\ events' = events \ {"res"}
    /\ cpc' = "wait"
    /\ UNCHANGED <<memVars, cur, nextSeq, sentSeq, answers,
                   serverVars, faultVars>>

\* WaitForSingleObject returns WAIT_TIMEOUT; the loop looks once more.
ClientDeadline ==
    /\ cpc = "block"
    /\ timeouts < MaxTimeouts
    /\ timeouts' = timeouts + 1
    /\ cpc' = "last"
    /\ UNCHANGED <<memVars, events, cur, nextSeq, sentSeq, answers,
                   serverVars, shutdown, crashes, signals>>

ClientTimesOut ==
    /\ cpc = "last"
    /\ ~Answered
    /\ cpc' = "drain_timeout"
    /\ UNCHANGED <<memVars, events, cur, nextSeq, sentSeq, answers,
                   serverVars, faultVars>>

\* cleanup_after_timeout: swallow a response signal, then reset_to_idle.
ClientDrainTimeout ==
    /\ cpc = "drain_timeout"
    /\ events' = events \ {"res"}
    /\ cpc' = "reset_timeout"
    /\ UNCHANGED <<memVars, cur, nextSeq, sentSeq, answers,
                   serverVars, faultVars>>

ClientResetTimeout ==
    /\ cpc = "reset_timeout"
    /\ state' = "IDLE"
    /\ answers' = [answers EXCEPT ![cur] = Outcome("timeout", 0)]
    /\ cpc' = "idle"
    /\ UNCHANGED <<inputVars, outLen, outBody, events, cur, nextSeq, sentSeq,
                   serverVars, faultVars>>

\* send_raw loads the state byte again and branches on STATE_ERROR.
ClientLoad ==
    /\ cpc = "load"
    /\ cpc' = IF state = "ERROR" THEN "reset_error" ELSE "drain"
    /\ UNCHANGED <<memVars, events, cur, nextSeq, sentSeq, answers,
                   serverVars, faultVars>>

ClientDrain ==
    /\ cpc = "drain"
    /\ events' = events \ {"res"}
    /\ cpc' = "reset"
    /\ UNCHANGED <<memVars, cur, nextSeq, sentSeq, answers,
                   serverVars, faultVars>>

\* reset_to_idle comes BEFORE the output is read, on both branches.
ClientReset ==
    /\ cpc \in {"reset", "reset_error"}
    /\ state' = "IDLE"
    /\ cpc' = IF cpc = "reset" THEN "read_len" ELSE "read_len_error"
    /\ UNCHANGED <<inputVars, outLen, outBody, events, cur, nextSeq, sentSeq,
                   answers, serverVars, faultVars>>

Return(o) ==
    /\ answers' = [answers EXCEPT ![cur] = o]
    /\ cpc' = "idle"

ClientReadLen ==
    /\ cpc = "read_len"
    /\ IF outLen = 0
         THEN Return(Outcome("error", 0))
         ELSE cpc' = "read_body" /\ UNCHANGED answers
    /\ UNCHANGED <<memVars, events, cur, nextSeq, sentSeq, serverVars, faultVars>>

\* The error branch reads the output too, for the message; with length 0 it
\* returns the generic "Server returned STATE_ERROR".
ClientReadLenError ==
    /\ cpc = "read_len_error"
    /\ IF outLen = 0
         THEN Return(Outcome("error", 0))
         ELSE cpc' = "read_error" /\ UNCHANGED answers
    /\ UNCHANGED <<memVars, events, cur, nextSeq, sentSeq, serverVars, faultVars>>

\* Faulty variant: the id check of JsonShmemTransport is missing.
AcceptAnyId(body) ==
    IF seqCell # sentSeq THEN Outcome("stale", body.of) ELSE Outcome("ok", body.of)

\* What Transport::send makes of the bytes: the sequence check of send_raw, then the
\* id check that only JsonShmemTransport makes.  It makes it of requests, which are all
\* that is sent here; the one notification of a client, whose answer no task looks at,
\* is in McpClient.
Accept(body) ==
    IF seqCell # sentSeq \/ (Format = "json" /\ body.id # cur)
      THEN Outcome("stale", body.of)
      ELSE Outcome("ok", body.of)

ClientReadBody ==
    /\ cpc = "read_body"
    /\ Return(Accept(outBody))
    /\ UNCHANGED <<memVars, events, cur, nextSeq, sentSeq, serverVars, faultVars>>

ClientReadError ==
    /\ cpc = "read_error"
    /\ Return(Outcome("error", outBody.of))
    /\ UNCHANGED <<memVars, events, cur, nextSeq, sentSeq, serverVars, faultVars>>

-----------------------------------------------------------------------------
(* The server: run_shmem_loop_inner *)

\* The loop tests the shutdown flag once per iteration.
ServerTop ==
    /\ spc = "top"
    /\ spc' = IF shutdown THEN "exited" ELSE "spin"
    /\ UNCHANGED <<memVars, events, clientVars, raw, resp, execs, tornRead, faultVars>>

\* wait_for_request: the spin phase sees REQ_READY, or its budget runs out.
ServerSpinHit ==
    /\ spc = "spin"
    /\ state = "REQ_READY"
    /\ spc' = "load"
    /\ UNCHANGED <<memVars, events, clientVars, raw, resp, execs, tornRead, faultVars>>

ServerSpinEnds ==
    /\ spc = "spin"
    /\ spc' = "block"
    /\ UNCHANGED <<memVars, events, clientVars, raw, resp, execs, tornRead, faultVars>>

\* WaitForSingleObject(h_req_event, INFINITE) consumes the auto-reset signal.
ServerWakes ==
    /\ spc = "block"
    /\ "req" \in events
    /\ events' = events \ {"req"}
    /\ spc' = "load"
    /\ UNCHANGED <<memVars, clientVars, raw, resp, execs, tornRead, faultVars>>

\* Faulty variant: a wake-up is taken for a request.
ServerLoadTrustsEvent ==
    /\ spc = "load"
    /\ spc' = "claim"
    /\ UNCHANGED <<memVars, events, clientVars, raw, resp, execs, tornRead, faultVars>>

\* The loop loads the state byte again after every wake-up.
ServerLoad ==
    /\ spc = "load"
    /\ spc' = IF state = "REQ_READY" THEN "claim" ELSE "top"
    /\ UNCHANGED <<memVars, events, clientVars, raw, resp, execs, tornRead, faultVars>>

\* The load and this store are two accesses: the client may act in between.
ServerClaim ==
    /\ spc = "claim"
    /\ state' = "PROCESSING"
    /\ spc' = "read_len"
    /\ UNCHANGED <<inputVars, outLen, outBody, events, clientVars,
                   raw, resp, execs, tornRead, faultVars>>

\* read_input_raw: the length, then a copy of the bytes.
ServerReadLen ==
    /\ spc = "read_len"
    /\ raw' = [len |-> inLen, head |-> raw.head, tail |-> raw.tail]
    /\ spc' = "read_head"
    /\ UNCHANGED <<memVars, events, clientVars, resp, execs, tornRead, faultVars>>

ServerReadHead ==
    /\ spc = "read_head"
    /\ raw' = [len |-> raw.len, head |-> inHead, tail |-> raw.tail]
    /\ spc' = "read_tail"
    /\ UNCHANGED <<memVars, events, clientVars, resp, execs, tornRead, faultVars>>

ServerReadTail ==
    /\ spc = "read_tail"
    /\ raw' = [len |-> raw.len, head |-> raw.head, tail |-> inTail]
    /\ spc' = "dispatch"
    /\ UNCHANGED <<memVars, events, clientVars, resp, execs, tornRead, faultVars>>

\* The copy raced with a write of the client: parts of two requests.
Torn(f) == f.len # 0 /\ (f.len # f.head \/ f.head # f.tail)

\* serde writes method and params before id; an NDA frame has the id first.
IdCell(f)   == IF Format = "json" THEN f.tail ELSE f.head
ArgsCell(f) == IF Format = "json" THEN f.head ELSE f.tail

\* An empty buffer is no frame and no JSON.  A mixture of two NDA frames fails
\* the Merkle check when it is on; otherwise it may or may not parse.
MayFail(f)    == f.len = 0 \/ Torn(f)
MaySucceed(f) == f.len # 0 /\ (Torn(f) => Format = "json" \/ ~Merkle)

\* A frame that does not parse: an error document and STATE_ERROR.
ServerDispatchError ==
    /\ spc = "dispatch"
    /\ MayFail(raw)
    /\ tornRead' = (tornRead \/ Torn(raw))
    /\ resp' = [state |-> "ERROR", body |-> NoBody, fits |-> TRUE]
    /\ spc' = "write_body"
    /\ UNCHANGED <<memVars, events, clientVars, raw, execs, faultVars>>

\* A frame that parses runs its method; the result may exceed the output
\* region, in which case write_output* clears the length and fails and the
\* loop publishes STATE_ERROR.
ServerDispatch(fits) ==
    /\ spc = "dispatch"
    /\ MaySucceed(raw)
    /\ tornRead' = (tornRead \/ Torn(raw))
    /\ execs' = [execs EXCEPT ![ArgsCell(raw)] = @ + 1]
    /\ resp' = [state |-> IF fits THEN "RES_READY" ELSE "ERROR",
                body  |-> [id |-> IdCell(raw), of |-> ArgsCell(raw)],
                fits  |-> fits]
    /\ spc' = IF fits THEN "write_body" ELSE "write_len"
    /\ UNCHANGED <<memVars, events, clientVars, raw, faultVars>>

ServerWriteBody ==
    /\ spc = "write_body"
    /\ outBody' = resp.body
    /\ spc' = "write_len"
    /\ UNCHANGED <<state, inputVars, outLen, events, clientVars,
                   raw, resp, execs, tornRead, faultVars>>

ServerWriteLen ==
    /\ spc = "write_len"
    /\ outLen' = IF resp.fits THEN 1 ELSE 0
    /\ spc' = "publish"
    /\ UNCHANGED <<state, inputVars, outBody, events, clientVars,
                   raw, resp, execs, tornRead, faultVars>>

ServerPublish ==
    /\ spc = "publish"
    /\ state' = resp.state
    /\ spc' = "signal"
    /\ UNCHANGED <<inputVars, outLen, outBody, events, clientVars,
                   raw, resp, execs, tornRead, faultVars>>

ServerSignal ==
    /\ spc = "signal"
    /\ events' = events \cup {"res"}
    /\ spc' = "top"
    /\ UNCHANGED <<memVars, clientVars, raw, resp, execs, tornRead, faultVars>>

\* The Ctrl+C handler only stores the flag.
CtrlC ==
    /\ signals < MaxSignals
    /\ signals' = signals + 1
    /\ shutdown' = TRUE
    /\ UNCHANGED <<memVars, events, clientVars, serverVars, timeouts, crashes>>

ServerCrash ==
    /\ spc \notin {"down", "exited"}
    /\ crashes < MaxCrashes
    /\ crashes' = crashes + 1
    /\ spc' = "down"
    /\ UNCHANGED <<memVars, events, clientVars, raw, resp, execs, tornRead,
                   shutdown, timeouts, signals>>

\* create_or_open on the surviving file: lengths, then the state byte.
ServerRestart ==
    /\ spc = "down"
    /\ shutdown' = FALSE
    /\ spc' = "reset_in"
    /\ UNCHANGED <<memVars, events, clientVars, raw, resp, execs, tornRead,
                   timeouts, crashes, signals>>

ServerResetIn ==
    /\ spc = "reset_in"
    /\ inLen' = 0
    /\ spc' = "reset_out"
    /\ UNCHANGED <<state, inHead, inTail, seqCell, outLen, outBody, events,
                   clientVars, raw, resp, execs, tornRead, faultVars>>

ServerResetOut ==
    /\ spc = "reset_out"
    /\ outLen' = 0
    /\ spc' = "reset_state"
    /\ UNCHANGED <<state, inputVars, outBody, events,
                   clientVars, raw, resp, execs, tornRead, faultVars>>

ServerResetState ==
    /\ spc = "reset_state"
    /\ state' = "IDLE"
    /\ spc' = "top"
    /\ UNCHANGED <<inputVars, outLen, outBody, events,
                   clientVars, raw, resp, execs, tornRead, faultVars>>

-----------------------------------------------------------------------------
\* Every step of a call but the expiry of its deadline.
ClientStep ==
    \/ ClientWriteHead \/ ClientWriteTail \/ ClientStoreReady \/ ClientSetEvent
    \/ ClientSeesAnswer \/ ClientBlocks \/ ClientWakes
    \/ ClientTimesOut \/ ClientDrainTimeout \/ ClientResetTimeout
    \/ ClientLoad \/ ClientDrain \/ ClientReset
    \/ ClientReadLen \/ ClientReadLenError \/ ClientReadBody \/ ClientReadError

ServerStep ==
    \/ ServerTop \/ ServerSpinHit \/ ServerSpinEnds \/ ServerWakes \/ ServerLoad
    \/ ServerClaim \/ ServerReadLen \/ ServerReadHead \/ ServerReadTail
    \/ ServerDispatchError \/ \E fits \in BOOLEAN : ServerDispatch(fits)
    \/ ServerWriteBody \/ ServerWriteLen \/ ServerPublish \/ ServerSignal
    \/ ServerRestart \/ ServerResetIn \/ ServerResetOut \/ ServerResetState

Next ==
    \/ ClientRefuse \/ ClientWriteLen \/ ClientDeadline \/ ClientStep
    \/ ServerStep \/ ServerCrash \/ CtrlC

Spec == Init /\ [][Next]_vars

\* Both processes are scheduled by the operating system; nothing obliges the
\* client to call, the deadline to expire or the server to crash.
FairSpec == Spec /\ WF_vars(ClientStep) /\ WF_vars(ServerStep)
-----------------------------------------------------------------------------
(* Properties *)

\* Type invariant: every variable of the channel stays in its domain, in
\* particular the state byte in the five STATE_ constants.
TypeOK ==
    /\ state \in States
    /\ inLen \in 0..MaxCalls /\ inHead \in 0..MaxCalls /\ inTail \in 0..MaxCalls
    /\ seqCell \in Nat /\ outLen \in 0..1 /\ outBody \in Bodies
    /\ events \subseteq {"req", "res"}
    /\ cpc \in ClientSteps /\ cur \in 0..MaxCalls
    /\ nextSeq \in Nat /\ sentSeq \in Nat
    /\ spc \in ServerSteps
    /\ raw \in [len : 0..MaxCalls, head : 0..MaxCalls, tail : 0..MaxCalls]
    /\ resp \in [state : {"IDLE", "RES_READY", "ERROR"}, body : Bodies, fits : BOOLEAN]
    /\ shutdown \in BOOLEAN /\ tornRead \in BOOLEAN
    /\ answers \in [Calls -> Outcomes]
    /\ execs \in [Calls -> Nat]
    /\ timeouts \in 0..MaxTimeouts /\ crashes \in 0..MaxCrashes
    /\ signals \in 0..MaxSignals

\* The server is between seeing REQ_READY and publishing the response.
ServerHandling ==
    spc \in {"claim", "read_len", "read_head", "read_tail", "dispatch",
             "write_body", "write_len", "publish"}

\* The client has seen a response and has not finished copying it out.
ClientReading ==
    cpc \in {"load", "drain", "reset", "reset_error", "read_len",
             "read_len_error", "read_body", "read_error"}

\* No response is copied out of the output region while the server is handling
\* a request (and so may be writing it), although send_raw gives the channel
\* back with reset_to_idle before it reads the output, and whatever
\* timeouts, crashes and restarts came before.
OutputExclusive == ~(ServerHandling /\ ClientReading)

\* Until a deadline expires, a call that succeeds returns the answer to its
\* own request, server crashes or not (send_raw has no other protection: the
\* echoed sequence number is never written by the server).
OwnAnswerUntilTimeout ==
    timeouts = 0 => \A r \in Calls : answers[r].kind = "ok" => answers[r].of = r

\* Until a deadline expires no request runs twice: stale request signals left
\* by the spin path never make the loop take the same request again.
AtMostOnceUntilTimeout ==
    timeouts = 0 => \A r \in Calls : execs[r] <= 1

\* Until a call times out the mailbox is exact, a restart of the server and a Ctrl-C
\* included: a call gets its own answer and no request is executed twice.
ExactUntilTimeout == OwnAnswerUntilTimeout /\ AtMostOnceUntilTimeout

\* After timeouts a request can run twice, when a loop iteration that began
\* for an abandoned request copies the next one before it is announced; it
\* never runs a third time, however many deadlines expire.
ExecutedAtMostTwice == \A r \in Calls : execs[r] <= 2

\* JsonShmemTransport's id check catches every late answer: a wrong answer is
\* accepted only if the server read a mixture of two requests.
JsonAnswerOwnUnlessTorn ==
    Format = "json" /\ ~tornRead =>
        \A r \in Calls : answers[r].kind = "ok" => answers[r].of = r

\* client/src/error.rs documents StaleResponse as the error for a response
\* that did not match the request after a timeout: no transport accepts the
\* answer to another request.
StaleResponseDetected ==
    \A r \in Calls : answers[r].kind = "ok" => answers[r].of = r

\* No lost wake-up: every call returns although no deadline ever expires, so
\* the advisory events and the state byte alone carry each exchange.
CallsReturn == [](cpc # "idle" => <>(cpc = "idle"))

-----------------------------------------------------------------------------
(* What comments and messages of the code claim and its behaviours do not      *)
(* satisfy: the README says on which instance each is refuted.                 *)

\* main.rs installs the Ctrl+C handler for graceful shutdown: once the flag is
\* set the loop of a live server exits.
ShutdownExits == [](shutdown => <>(spc = "exited"))
=============================================================================
