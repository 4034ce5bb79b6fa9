---------------------------- MODULE StdioServer ----------------------------
(***************************************************************************)
(* The stdio server: main of src/main.rs in stdio mode around              *)
(* run_stdio_loop of src/protocol/json_rpc.rs.  The main thread peeks at   *)
(* the first bytes of stdin to tell NDA frames from JSON lines.  JSON      *)
(* lines are read by a thread of their own and passed on in a channel that *)
(* the main thread polls with a timeout; NDA frames are read by the main   *)
(* thread itself.  A line longer than MAX_REQUEST_SIZE reaches read_line   *)
(* in pieces.                                                              *)
(*                                                                         *)
(* The first line has at least four bytes or is blank: the bytes that were *)
(* peeked are put back in front of the first line the reader gets, which   *)
(* is then the line they came from.                                        *)
(***************************************************************************)
EXTENDS Naturals, Sequences, FiniteSets, Functions

CONSTANTS
    Kinds,     \* what the client may write: a subset of LineKinds
    MaxLines   \* bound: lines or frames written

\* JSON objects, by their method and their id: "absent", "null" or "given".
Objects ==
    [request      |-> [method |-> "ping", id |-> "given"],
     null_request |-> [method |-> "ping", id |-> "null"],
     unasked      |-> [method |-> "ping", id |-> "absent"],
     unreadable   |-> [method |-> "resources/read", id |-> "given"],
     refused      |-> [method |-> "sampling/createMessage", id |-> "given"],
     notification |-> [method |-> "notifications/cancelled", id |-> "absent"],
     numbered     |-> [method |-> "notifications/cancelled", id |-> "given"],
     unknown      |-> [method |-> "other", id |-> "given"],
     unknown_null |-> [method |-> "other", id |-> "null"],
     shapeless    |-> [method |-> "", id |-> "absent"]]

LineKinds == DOMAIN Objects \cup {"array", "garbage", "blank", "huge", "not_utf8"}

ASSUME StdioAssumption == Kinds \subseteq LineKinds \cup {"frame"} /\ MaxLines \in Nat

VARIABLES
    lines,     \* history: the kinds of the lines or frames written
    stdin,     \* pieces not read yet
    eof,       \* the client has closed its end
    main,      \* where the main thread is
    reader,    \* the reader thread
    queue,     \* the channel between them
    SHUTDOWN,  \* the flag the Ctrl-C handler sets
    late,      \* history: lines handled since the flag was set
    out        \* history: <<line, answer>> in the order of writing

vars == <<lines, stdin, eof, main, reader, queue, SHUTDOWN, late, out>>

Init ==
    /\ lines = <<>> /\ stdin = <<>> /\ eof = FALSE
    /\ main = "peek"
    /\ reader = "none"
    /\ queue = <<>>
    /\ SHUTDOWN = FALSE /\ late = 0
    /\ out = <<>>

\* What read_line returns for a line: an oversized one is cut after
\* MAX_REQUEST_SIZE + 1 bytes, and the rest is taken for a line of its own.
Pieces(n, kind) ==
    IF kind = "huge" THEN <<[line |-> n, kind |-> "huge"], [line |-> n, kind |-> "garbage"]>>
                     ELSE <<[line |-> n, kind |-> kind]>>

\* The client: either JSON lines or frames, decided by what it writes first.
Write(kind) ==
    /\ ~eof /\ Len(lines) < MaxLines
    /\ lines # <<>> => (kind = "frame" <=> lines[1] = "frame")
    /\ lines' = Append(lines, kind)
    /\ stdin' = stdin \o Pieces(Len(lines) + 1, kind)
    /\ UNCHANGED <<eof, main, reader, queue, SHUTDOWN, late, out>>

CloseStdin ==
    /\ ~eof /\ eof' = TRUE
    /\ UNCHANGED <<lines, stdin, main, reader, queue, SHUTDOWN, late, out>>

CtrlC ==
    /\ ~SHUTDOWN /\ main # "exited"
    /\ SHUTDOWN' = TRUE
    /\ UNCHANGED <<lines, stdin, eof, main, reader, queue, late, out>>

-----------------------------------------------------------------------------
\* run_stdio_loop: a blocking read of up to four bytes.
Peek ==
    /\ main = "peek"
    /\ stdin # <<>> \/ eof
    /\ LET nda == stdin # <<>> /\ Head(stdin).kind = "frame"
       IN  /\ main' = IF nda THEN "nda" ELSE "json"
           /\ reader' = IF nda THEN "none" ELSE "run"
    /\ UNCHANGED <<lines, stdin, eof, queue, SHUTDOWN, late, out>>

\* Faulty variant: a line is lost when the main thread has not fetched the last.
ReadLineDrops ==
    /\ reader = "run" /\ stdin # <<>> /\ main # "exited"
    /\ queue' = IF queue = <<>> THEN <<Head(stdin)>> ELSE queue
    /\ stdin' = Tail(stdin)
    /\ UNCHANGED <<lines, eof, main, reader, SHUTDOWN, late, out>>

\* The reader thread of run_stdio_json_mode.
ReadLine ==
    /\ reader = "run" /\ stdin # <<>> /\ main # "exited"
    /\ Head(stdin).kind # "not_utf8"
    /\ queue' = Append(queue, Head(stdin))
    /\ stdin' = Tail(stdin)
    /\ UNCHANGED <<lines, eof, main, reader, SHUTDOWN, late, out>>

\* The end of stdin, or a line read_line cannot decode, ends the thread.
ReaderEnds ==
    /\ reader = "run" /\ main # "exited"
    /\ IF stdin = <<>> THEN eof ELSE Head(stdin).kind = "not_utf8"
    /\ reader' = "end"
    /\ UNCHANGED <<lines, stdin, eof, main, queue, SHUTDOWN, late, out>>

Notifications == {"notifications/initialized", "notifications/cancelled", "notifications/progress"}

\* dispatch: most methods have a result, which may be a tool error; sampling and the
\* connectors fail with an error object; a method nobody knows is refused if there is
\* an id to answer to.
Dispatch(o) ==
    CASE o.method \in Notifications           -> "none"
      [] o.method = "ping"                    -> "result"
      [] o.method = "resources/read"          -> "tool_error"
      [] o.method = "sampling/createMessage"  -> "error"
      [] OTHER -> IF o.id = "given" THEN "not_found" ELSE "none"

\* Faulty variant: an id of null is taken for a missing one.
HandleRequestNull(o) == IF o.id = "given" THEN Dispatch(o) ELSE "none"

\* handle_request: dispatch acts, but without an id its answer is withheld.
HandleRequest(o) == IF o.id = "absent" THEN "none" ELSE Dispatch(o)

\* is_request_shaped
IsRequestShaped(o) == o.method # ""

\* What the loop prints for a piece, "none" when it prints nothing.  It never sees
\* one that is not UTF-8; a parse error is what such a line would deserve.
Reply(kind) ==
    CASE kind \in DOMAIN Objects ->
           LET o == Objects[kind]
           IN  IF HandleRequest(o) = "none" /\ ~IsRequestShaped(o) THEN "invalid" ELSE HandleRequest(o)
      [] kind = "array"        -> "invalid"
      [] kind = "garbage"      -> "parse_error"
      [] kind = "not_utf8"     -> "parse_error"
      [] kind = "blank"        -> "none"
      [] kind = "huge"         -> "too_large"
      [] kind = "frame"        -> "result"

Printed(p) == IF Reply(p.kind) = "none" THEN out ELSE Append(out, <<p.line, Reply(p.kind)>>)

\* The top of the loop: the flag is tested before every receive.
JsonCheck ==
    /\ main = "json"
    /\ main' = IF SHUTDOWN THEN "flush" ELSE "recv"
    /\ UNCHANGED <<lines, stdin, eof, reader, queue, SHUTDOWN, late, out>>

\* Faulty variant: the flag is tested only when no line is waiting.
ReceiveAgain ==
    /\ main = "recv" /\ queue # <<>>
    /\ out' = Printed(Head(queue))
    /\ queue' = Tail(queue)
    /\ late' = IF SHUTDOWN THEN late + 1 ELSE late
    /\ main' = IF Tail(queue) = <<>> THEN "json" ELSE "recv"
    /\ UNCHANGED <<lines, stdin, eof, reader, SHUTDOWN>>

\* recv_timeout with a line: it is handled and the loop starts over.
Receive ==
    /\ main = "recv" /\ queue # <<>>
    /\ out' = Printed(Head(queue))
    /\ queue' = Tail(queue)
    /\ late' = IF SHUTDOWN THEN late + 1 ELSE late
    /\ main' = "json"
    /\ UNCHANGED <<lines, stdin, eof, reader, SHUTDOWN>>

\* Faulty variant: a timeout is waited out without testing the flag again.
TimeoutWaitsOn ==
    /\ main = "recv" /\ queue = <<>> /\ reader = "run"
    /\ UNCHANGED vars

\* recv_timeout after 200 ms without a line.
Timeout ==
    /\ main = "recv" /\ queue = <<>> /\ reader = "run"
    /\ main' = "json"
    /\ UNCHANGED <<lines, stdin, eof, reader, queue, SHUTDOWN, late, out>>

\* Faulty variant: the end of the reader ends the loop with lines still queued.
DisconnectedAtOnce ==
    /\ main = "recv" /\ reader = "end"
    /\ main' = "flush"
    /\ UNCHANGED <<lines, stdin, eof, reader, queue, SHUTDOWN, late, out>>

\* recv_timeout on a channel that is empty and has lost its sender.
Disconnected ==
    /\ main = "recv" /\ queue = <<>> /\ reader = "end"
    /\ main' = "flush"
    /\ UNCHANGED <<lines, stdin, eof, reader, queue, SHUTDOWN, late, out>>

-----------------------------------------------------------------------------
\* run_stdio_nda_mode: the flag is tested once per frame, whose length has been
\* read; then the frame is read and answered ...
NdaCheck ==
    /\ main = "nda"
    /\ main' = IF SHUTDOWN THEN "flush" ELSE "nda_frame"
    /\ UNCHANGED <<lines, stdin, eof, reader, queue, SHUTDOWN, late, out>>

NdaFrame ==
    /\ main = "nda_frame"
    /\ out' = Printed(Head(stdin))
    /\ stdin' = Tail(stdin)
    /\ late' = IF SHUTDOWN THEN late + 1 ELSE late
    /\ main' = "nda_length"
    /\ UNCHANGED <<lines, eof, reader, queue, SHUTDOWN>>

\* ... and the length of the next one is waited for.
NdaLength ==
    /\ main = "nda_length"
    /\ stdin # <<>> \/ eof
    /\ main' = IF stdin = <<>> THEN "flush" ELSE "nda"
    /\ UNCHANGED <<lines, stdin, eof, reader, queue, SHUTDOWN, late, out>>

\* main: flush_audit, then the process ends, and the reader with it.
FlushAndExit ==
    /\ main = "flush"
    /\ main' = "exited"
    /\ UNCHANGED <<lines, stdin, eof, reader, queue, SHUTDOWN, late, out>>

Main == Peek \/ JsonCheck \/ Receive \/ Timeout \/ Disconnected
          \/ NdaCheck \/ NdaFrame \/ NdaLength \/ FlushAndExit

Next == (\E kind \in Kinds : Write(kind)) \/ CloseStdin \/ CtrlC
          \/ ReadLine \/ ReaderEnds \/ Main

Spec == Init /\ [][Next]_vars

\* Both threads run on; the client need not write or close anything.
FairSpec == Spec /\ WF_vars(Main) /\ WF_vars(ReadLine \/ ReaderEnds)

-----------------------------------------------------------------------------
\* What the server has printed are the answers to the first k lines, each once and
\* in their order.
AnsweredUpTo(k) ==
    /\ \A i \in DOMAIN out : /\ out[i][1] \in 1..k
                             /\ out[i][2] = Reply(lines[out[i][1]]) /\ out[i][2] # "none"
    /\ \A i, j \in DOMAIN out : i < j => out[i][1] < out[j][1]
    /\ \A n \in 1..k : Reply(lines[n]) # "none" => \E i \in DOMAIN out : out[i][1] = n

\* Without Ctrl-C the server ends only after it has answered every line, in order:
\* the end of stdin does not overtake lines that are still in the channel.  Oversized
\* lines, which are answered in pieces, and lines that are not UTF-8 are excepted.
EofDrains ==
    (main \in {"flush", "exited"} /\ ~SHUTDOWN /\ {"huge", "not_utf8"} \cap Range(lines) = {})
      => AnsweredUpTo(Len(lines))

\* At any time the answers are those of a prefix of the lines: none is lost,
\* doubled or reordered between the two threads.
AnswersInOrder ==
    "huge" \notin Range(lines) => \E k \in 0..Len(lines) : AnsweredUpTo(k)

\* After Ctrl-C at most the line or frame in hand is still handled.
StopsPromptly == late <= 1

\* When stdin has ended, whatever carried an id the server can answer to has been answered
\* once, an id of null included where the method is known, and what carried none not at
\* all, unless it was not a request in the first place.
RequestsAnswered ==
    (main \in {"flush", "exited"} /\ ~SHUTDOWN /\ "not_utf8" \notin Range(lines)) =>
      \A n \in DOMAIN lines : lines[n] \in DOMAIN Objects =>
        LET o == Objects[lines[n]]
            answers == {k \in DOMAIN out : out[k][1] = n}
        IN  /\ Cardinality(answers) <= 1
            /\ (o.id = "given" /\ o.method \notin Notifications) => answers # {}
            /\ (o.id = "null" /\ o.method = "ping") => answers # {}
            /\ o.id = "absent" => (answers # {} <=> o.method = "")

\* The lines are answered in order, all of them when stdin ends, and after Ctrl-C at most
\* the one in hand: the two threads and the channel between them lose none.
LinesAnswered == EofDrains /\ AnswersInOrder /\ RequestsAnswered /\ StopsPromptly

\* In the JSON loop Ctrl-C ends the process although stdin may block for ever.
JsonLoopStops == (SHUTDOWN /\ main \in {"json", "recv"}) ~> (main = "exited")

-----------------------------------------------------------------------------
(* What comments and messages of the code claim and its behaviours do not      *)
(* satisfy: the README says on which instance each is refuted.                 *)

\* What the comment on run_stdio_loop says: parse errors return proper JSON-RPC
\* error responses.  So no line at all ends the server or goes without its answer.
ParseErrorsAnswered ==
    (main \in {"flush", "exited"} /\ ~SHUTDOWN /\ "huge" \notin Range(lines))
      => AnsweredUpTo(Len(lines))

\* What the comment in handle_request says: an explicit id of null is a present member,
\* so a line that carries it is no notification and has been answered when stdin has ended.
NullIdAnswered ==
    (main \in {"flush", "exited"} /\ ~SHUTDOWN /\ "not_utf8" \notin Range(lines)) =>
      \A n \in DOMAIN lines :
        (lines[n] \in DOMAIN Objects /\ Objects[lines[n]].id = "null") => \E k \in DOMAIN out : out[k][1] = n

\* What the comment on run_stdio_loop says: an oversized request is rejected
\* before JSON parsing, so no part of it draws a parse error.
OversizeNotParsed ==
    \A i \in DOMAIN out : lines[out[i][1]] = "huge" => out[i][2] = "too_large"

\* What the comment on run_stdio_loop says: the server can exit cleanly even when
\* stdin is blocking.
StdioStops == SHUTDOWN ~> (main = "exited")
=============================================================================
