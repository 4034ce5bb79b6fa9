-------------------------- MODULE TransportsProofs --------------------------
(***************************************************************************)
(* The processes that serve and use the protocol, for any number of lines, *)
(* connections, tasks, instances and plugins: the HTTP server's start and  *)
(* stop, the stdio server, the client library and the nested plugin store. *)
(* They share no state; each has an inductive invariant of its own.        *)
(***************************************************************************)
EXTENDS HttpLifecycle, StdioServer, McpClient, NestedPlugins, TLAPS, FiniteSetTheorems,
        SequenceTheorems

-----------------------------------------------------------------------------
(* The HTTP server.  A call that began is in its handler or on record, and the *)
(* last flush comes after the runtime, and every handler with it, is gone.     *)

Stages == Before \cup {"install", "bind", "drop", "flush"} \cup Running \cup Ended

ServeShape ==
    /\ stage \in Stages /\ handler \in {"none", "global", "local"}
    /\ begun \in Nat /\ audited \in Nat
    /\ busy \subseteq Conns /\ IsFiniteSet(busy)

\* Every call that began is recorded or still in its handler.
CallsAccounted == audited + Cardinality(busy) = begun

\* Once the runtime is gone nothing is in a handler any more.
RuntimeGone ==
    /\ stage \in {"flush", "exited"} => busy = {}
    /\ stage = "exited" => flushed = audited

FlushedInv == ServeShape /\ CallsAccounted /\ RuntimeGone

LEMMA FlushedInit == ServeInit => FlushedInv
BY FS_EmptySet DEF ServeInit, FlushedInv, ServeShape, CallsAccounted, RuntimeGone, Stages, Before

LEMMA FlushedStep == FlushedInv /\ [ServeNext]_serveVars => FlushedInv'
<1> SUFFICES ASSUME FlushedInv, [ServeNext]_serveVars PROVE FlushedInv'
  OBVIOUS
<1> USE DEF FlushedInv
<1>1. CASE ServeMain
  <2>1. UNCHANGED <<busy, begun, audited>>
    BY <1>1 DEF ServeMain, InstallGlobal, LoadPlugins, CopyFlag, InstallLocal, Bind, Poll, Graceful, Drain,
                DropRuntime, ServeFlushAndExit, Step, work, flags
  <2>2. ServeShape' /\ CallsAccounted'
    <3>1. stage' \in Stages
      BY <1>1 DEF ServeMain, InstallGlobal, LoadPlugins, CopyFlag, InstallLocal, Bind, Poll, Graceful, Drain,
                  DropRuntime, ServeFlushAndExit, Step, Stages, Before, Running, Ended
    <3>2. handler' \in {"none", "global", "local"}
      BY <1>1 DEF ServeMain, InstallGlobal, LoadPlugins, CopyFlag, InstallLocal, Bind, Poll, Graceful, Drain,
                  DropRuntime, ServeFlushAndExit, SetHandler, flags, ServeShape
    <3>. QED BY <2>1, <3>1, <3>2 DEF ServeShape, CallsAccounted
  <2>3. RuntimeGone'
    BY <1>1, <2>1 DEF ServeMain, InstallGlobal, LoadPlugins, CopyFlag, InstallLocal, Bind, Poll, Graceful, Drain,
                DropRuntime, ServeFlushAndExit, Step, RuntimeGone
  <2>. QED BY <2>2, <2>3
<1>2. CASE ServeCtrlC
  <2>1. stage' \in {stage, "killed"} /\ stage \notin Ended /\ UNCHANGED <<handler, work>>
    BY <1>2 DEF ServeCtrlC, work, ServeShape
  <2>. QED BY <2>1 DEF work, ServeShape, CallsAccounted, RuntimeGone, Stages, Ended
<1>3. ASSUME NEW c \in Conns, Accept(c) \/ Upgrade(c) \/ Close(c) PROVE FlushedInv'
  BY <1>3 DEF Accept, Upgrade, Close, flags, ServeShape, CallsAccounted, RuntimeGone
<1>4. ASSUME NEW c \in Conns, Call(c) PROVE FlushedInv'
  <2>1. IsFiniteSet(busy') /\ Cardinality(busy') = Cardinality(busy) + 1
    BY <1>4, FS_AddElement DEF Call, ServeShape
  <2>2. Cardinality(busy) \in Nat
    BY FS_CardinalityType DEF ServeShape
  <2>. QED BY <1>4, <2>1, <2>2 DEF Call, flags, ServeShape, CallsAccounted, RuntimeGone, Running
<1>5. ASSUME NEW c \in Conns, Record(c) PROVE FlushedInv'
  <2>1. IsFiniteSet(busy') /\ Cardinality(busy') = Cardinality(busy) - 1
    BY <1>5, FS_RemoveElement DEF Record, ServeShape
  <2>2. Cardinality(busy) \in Nat
    BY FS_CardinalityType DEF ServeShape
  <2>. QED BY <1>5, <2>1, <2>2 DEF Record, flags, ServeShape, CallsAccounted, RuntimeGone, Ended
<1>6. CASE UNCHANGED serveVars
  BY <1>6 DEF serveVars, flags, work, ServeShape, CallsAccounted, RuntimeGone
<1>. QED BY <1>1, <1>2, <1>3, <1>4, <1>5, <1>6 DEF ServeNext

\* The audit entry of every tool call that ran is on disk when the server has shut
\* down, for any number of connections: the flush comes after the drop of the runtime,
\* which waits for the handlers.
THEOREM CallsFlushedHolds == ServeSpec => []CallsFlushed
<1>1. FlushedInv => CallsFlushed
  BY FS_EmptySet DEF FlushedInv, ServeShape, CallsAccounted, RuntimeGone, CallsFlushed
<1>. QED BY <1>1, FlushedInit, FlushedStep, PTL DEF ServeSpec

-----------------------------------------------------------------------------
(* The stdio server.  A line is waiting in stdin or in the channel, or it has  *)
(* been handled; what waits comes after what was answered.                     *)

Waiting == Range(queue) \cup Range(stdin)

\* Only the pieces of one oversized line share a number.
NotAfter(m, n) == m < n \/ (m = n /\ lines[m] = "huge")

Replies == {"none", "result", "tool_error", "error", "not_found", "invalid", "parse_error", "too_large"}

Piece == [line : Nat, kind : LineKinds \cup {"frame"}]

StdioShape ==
    /\ lines \in Seq(LineKinds \cup {"frame"})
    /\ stdin \in Seq(Piece) /\ queue \in Seq(Piece)
    /\ main \in {"peek", "json", "recv", "flush", "exited", "nda", "nda_frame", "nda_length"}
    /\ reader \in {"none", "run", "end"}
    /\ eof \in BOOLEAN /\ SHUTDOWN \in BOOLEAN /\ late \in Nat
    /\ out \in Seq(Nat \X Replies)

PiecesTrue ==
    \A p \in Waiting : /\ p.line \in 1..Len(lines)
                       /\ lines[p.line] # "huge" => p.kind = lines[p.line]
                       /\ lines[p.line] = "huge" => p.kind \in {"huge", "garbage"}

WaitInOrder ==
    /\ \A i, j \in DOMAIN queue : i < j => NotAfter(queue[i].line, queue[j].line)
    /\ \A i, j \in DOMAIN stdin : i < j => NotAfter(stdin[i].line, stdin[j].line)
    /\ \A i \in DOMAIN queue, j \in DOMAIN stdin : NotAfter(queue[i].line, stdin[j].line)

OutInOrder ==
    /\ \A i \in DOMAIN out : /\ out[i][1] \in 1..Len(lines)
                             /\ lines[out[i][1]] # "huge" => out[i][2] = Reply(lines[out[i][1]])
                             /\ out[i][2] # "none"
    /\ \A i, j \in DOMAIN out : i < j => NotAfter(out[i][1], out[j][1])
    /\ \A i \in DOMAIN out, p \in Waiting : NotAfter(out[i][1], p.line)

NoneLost ==
    \A n \in 1..Len(lines) : (lines[n] # "huge" /\ Reply(lines[n]) # "none") =>
      (\E p \in Waiting : p.line = n) \/ (\E i \in DOMAIN out : out[i][1] = n)

\* The main thread reads frames itself.
OneReader ==
    /\ main \in {"peek", "nda", "nda_frame", "nda_length"} => queue = <<>> /\ reader = "none"
    /\ main \in {"nda", "nda_frame"} => stdin # <<>>
    /\ main \in {"json", "recv"} => reader # "none"

ReaderDone == reader = "end" => IF stdin = <<>> THEN eof ELSE Head(stdin).kind = "not_utf8"

Drained ==
    (main \in {"flush", "exited"} /\ ~SHUTDOWN) =>
      queue = <<>> /\ ((stdin = <<>> /\ eof) \/ reader = "end")

Prompt ==
    /\ ~SHUTDOWN => late = 0
    /\ late <= 1
    /\ late = 1 => main \in {"json", "nda_length", "nda", "flush", "exited"}

LinesInv == StdioShape /\ PiecesTrue /\ WaitInOrder /\ OutInOrder /\ NoneLost
ThreadsInv == OneReader /\ ReaderDone /\ Drained /\ Prompt
StdioInv == LinesInv /\ ThreadsInv

LEMMA ReplyKnown == \A kind \in LineKinds \cup {"frame"} : Reply(kind) \in Replies
<1>1. ASSUME NEW o, o \in {Objects[k] : k \in DOMAIN Objects} PROVE Dispatch(o) \in Replies
  BY Zenon DEF Dispatch, Replies
<1>2. ASSUME NEW kind \in DOMAIN Objects PROVE Reply(kind) \in Replies
  BY <1>1, Zenon DEF Reply, HandleRequest, Replies
<1>3. ASSUME NEW kind \in {"array", "garbage", "blank", "huge", "not_utf8", "frame"} PROVE Reply(kind) \in Replies
  BY DEF Reply, Replies, Objects
<1>. QED BY <1>2, <1>3 DEF LineKinds

LEMMA StdioInit == Init => StdioInv
<1> SUFFICES ASSUME Init PROVE StdioInv
  OBVIOUS
<1>1. StdioShape
  <2>1. eof \in BOOLEAN /\ SHUTDOWN \in BOOLEAN
    BY Zenon DEF Init
  <2>. QED BY <2>1 DEF Init, StdioShape
<1>2. /\ queue = <<>> /\ stdin = <<>> /\ out = <<>> /\ lines = <<>> /\ Len(lines) = 0
      /\ Waiting = {}
  BY DEF Init, Waiting, Range
<1>3. PiecesTrue /\ WaitInOrder /\ OutInOrder
  BY <1>2 DEF PiecesTrue, WaitInOrder, OutInOrder
<1>4. NoneLost
  BY <1>2 DEF NoneLost
<1>5. ThreadsInv
  BY DEF Init, ThreadsInv, OneReader, ReaderDone, Drained, Prompt
<1>. QED BY <1>1, <1>3, <1>4, <1>5 DEF StdioInv, LinesInv

\* The first piece that waits is handled.
LEMMA FirstHandled ==
    ASSUME LinesInv, NEW p \in Waiting, Waiting' \subseteq Waiting, Waiting \subseteq Waiting' \cup {p},
           \A w \in Waiting' : NotAfter(p.line, w.line),
           out' = Printed(p), UNCHANGED lines
    PROVE  PiecesTrue' /\ OutInOrder' /\ NoneLost' /\ out' \in Seq(Nat \X Replies)
<1> USE DEF LinesInv
<1>0. /\ p \in Piece /\ p.line \in 1..Len(lines) /\ Reply(p.kind) \in Replies
      /\ lines[p.line] # "huge" => p.kind = lines[p.line]
      /\ Len(lines) \in Nat
  <2>1. p \in Piece
    BY DEF StdioShape, Waiting, Range
  <2>2. Reply(p.kind) \in Replies
    BY <2>1, ReplyKnown DEF Piece
  <2>. QED BY <2>1, <2>2 DEF StdioShape, PiecesTrue
<1>1. PiecesTrue'
  BY DEF PiecesTrue
<1>2. CASE Reply(p.kind) = "none"
  <2>1. out' = out
    BY <1>2 DEF Printed
  <2>2. OutInOrder'
    BY <2>1 DEF OutInOrder, NotAfter
  <2>3. NoneLost'
    BY <1>0, <1>2, <2>1 DEF NoneLost
  <2>. QED BY <1>1, <2>1, <2>2, <2>3 DEF StdioShape
<1>3. CASE Reply(p.kind) # "none"
  <2>1. out' = Append(out, <<p.line, Reply(p.kind)>>)
    BY <1>3 DEF Printed
  <2>2. /\ out \in Seq(Nat \X Replies) /\ out' \in Seq(Nat \X Replies)
        /\ DOMAIN out' = 1..(Len(out) + 1) /\ DOMAIN out = 1..Len(out) /\ Len(out) \in Nat
        /\ \A i \in DOMAIN out : out'[i] = out[i]
        /\ out'[Len(out) + 1] = <<p.line, Reply(p.kind)>>
    BY <1>0, <2>1 DEF StdioShape
  <2>3. OutInOrder'
    <3>1. ASSUME NEW i \in DOMAIN out'
          PROVE  /\ out'[i][1] \in 1..Len(lines)
                 /\ lines[out'[i][1]] # "huge" => out'[i][2] = Reply(lines[out'[i][1]])
                 /\ out'[i][2] # "none"
      <4>1. CASE i \in DOMAIN out
        BY <2>2, <4>1 DEF OutInOrder
      <4>2. CASE i = Len(out) + 1
        <5>1. out'[i][1] = p.line /\ out'[i][2] = Reply(p.kind)
          BY <2>2, <4>2
        <5>. QED BY <1>0, <1>3, <5>1
      <4>. QED BY <2>2, <4>1, <4>2
    <3>2. ASSUME NEW i \in DOMAIN out', NEW j \in DOMAIN out', i < j PROVE NotAfter(out'[i][1], out'[j][1])
      <4>1. CASE j \in DOMAIN out
        <5>1. i \in DOMAIN out /\ out'[i] = out[i] /\ out'[j] = out[j]
          BY <2>2, <3>2, <4>1
        <5>. QED BY <3>2, <4>1, <5>1 DEF OutInOrder
      <4>2. CASE j = Len(out) + 1
        <5>1. i \in DOMAIN out /\ out'[j][1] = p.line
          BY <2>2, <3>2, <4>2
        <5>2. NotAfter(out[i][1], p.line)
          BY <5>1 DEF OutInOrder
        <5>3. out'[i][1] = out[i][1]
          BY <2>2, <5>1
        <5>. QED BY <5>1, <5>2, <5>3 DEF NotAfter
      <4>. QED BY <2>2, <4>1, <4>2
    <3>3. ASSUME NEW i \in DOMAIN out', NEW w \in Waiting' PROVE NotAfter(out'[i][1], w.line)
      <4>1. CASE i \in DOMAIN out
        BY <2>2, <4>1 DEF OutInOrder
      <4>2. CASE i = Len(out) + 1
        BY <2>2, <4>2
      <4>. QED BY <2>2, <4>1, <4>2
    <3>. QED BY <3>1, <3>2, <3>3 DEF OutInOrder, NotAfter
  <2>4. NoneLost'
    <3> SUFFICES ASSUME NEW n \in 1..Len(lines), lines[n] # "huge", Reply(lines[n]) # "none"
                 PROVE  (\E w \in Waiting' : w.line = n) \/ (\E i \in DOMAIN out' : out'[i][1] = n)
      BY DEF NoneLost
    <3>1. CASE n = p.line
      <4>1. Len(out) + 1 \in DOMAIN out' /\ out'[Len(out) + 1][1] = n
        BY <2>2, <3>1
      <4>. QED BY <4>1
    <3>2. CASE n # p.line
      <4>1. CASE \E w \in Waiting : w.line = n
        BY <3>2, <4>1
      <4>2. CASE \E i \in DOMAIN out : out[i][1] = n
        BY <2>2, <4>2
      <4>. QED BY <4>1, <4>2 DEF NoneLost
    <3>. QED BY <3>1, <3>2
  <2>. QED BY <1>1, <2>2, <2>3, <2>4
<1>. QED BY <1>2, <1>3

\* Taking the first element off a sequence.
LEMMA TailElements ==
    ASSUME NEW S, NEW s \in Seq(S), s # <<>>, NEW t, t = Tail(s)
    PROVE  /\ t \in Seq(S) /\ Head(s) \in S /\ Head(s) = s[1] /\ 1 \in DOMAIN s
           /\ Len(s) \in Nat /\ DOMAIN s = 1..Len(s) /\ DOMAIN t = 1..(Len(s) - 1)
           /\ \A i \in DOMAIN t : i + 1 \in DOMAIN s /\ t[i] = s[i + 1]
           /\ Range(s) = {Head(s)} \cup Range(t)
<1>1. /\ t \in Seq(S) /\ Head(s) \in S /\ Head(s) = s[1] /\ 1 \in DOMAIN s
      /\ Len(s) \in Nat /\ DOMAIN s = 1..Len(s) /\ DOMAIN t = 1..(Len(s) - 1)
      /\ \A i \in DOMAIN t : i + 1 \in DOMAIN s /\ t[i] = s[i + 1]
  OBVIOUS
<1>2. \A i \in DOMAIN s : i = 1 \/ (i - 1 \in DOMAIN t /\ t[i - 1] = s[i])
  BY <1>1
<1>3. ASSUME NEW i \in DOMAIN s PROVE s[i] \in {Head(s)} \cup Range(t)
  <2>1. CASE i = 1
    BY <1>1, <2>1
  <2>2. CASE i # 1
    <3>1. i - 1 \in DOMAIN t /\ t[i - 1] = s[i]
      BY <1>2, <2>2
    <3>. QED BY <3>1 DEF Range
  <2>. QED BY <2>1, <2>2
<1>4. {Head(s)} \cup Range(t) \subseteq Range(s)
  BY <1>1 DEF Range
<1>5. Range(s) \subseteq {Head(s)} \cup Range(t)
  BY <1>3 DEF Range
<1>. QED BY <1>1, <1>4, <1>5

LEMMA WriteKeepsLines ==
    ASSUME LinesInv, NEW kind \in Kinds, Write(kind)
    PROVE  LinesInv'
<1> USE DEF LinesInv
<1> DEFINE n == Len(lines) + 1
<1>0. /\ kind \in LineKinds \cup {"frame"} /\ n \in Nat /\ Len(lines) \in Nat
      /\ lines' = Append(lines, kind) /\ UNCHANGED <<queue, out>>
      /\ lines' \in Seq(LineKinds \cup {"frame"}) /\ Len(lines') = n /\ lines'[n] = kind
      /\ \A m \in 1..Len(lines) : lines'[m] = lines[m]
  BY StdioAssumption DEF StdioShape, Write
<1>1. PICK x \in Piece, y \in Piece :
        /\ x.line = n /\ y.line = n
        /\ IF kind = "huge" THEN x.kind = "huge" /\ y.kind = "garbage" ELSE x.kind = kind
        /\ stdin' = IF kind = "huge" THEN stdin \o <<x, y>> ELSE stdin \o <<x>>
  <2>1. CASE kind = "huge"
    <3>1. [line |-> n, kind |-> "huge"] \in Piece /\ [line |-> n, kind |-> "garbage"] \in Piece
      BY <1>0 DEF Piece, LineKinds
    <3>. QED BY <2>1, <3>1 DEF Write, Pieces
  <2>2. CASE kind # "huge"
    <3>1. [line |-> n, kind |-> kind] \in Piece
      BY <1>0 DEF Piece
    <3>. QED BY <2>2, <3>1 DEF Write, Pieces
  <2>. QED BY <2>1, <2>2
<1>2. /\ stdin' \in Seq(Piece) /\ stdin \in Seq(Piece)
      /\ DOMAIN stdin = 1..Len(stdin) /\ Len(stdin) \in Nat
      /\ \A i \in DOMAIN stdin : i \in DOMAIN stdin' /\ stdin'[i] = stdin[i]
      /\ \A i \in DOMAIN stdin' : i \notin DOMAIN stdin =>
           /\ i \in Nat /\ i > Len(stdin)
           /\ stdin'[i] \in {x, y}
           /\ kind # "huge" => stdin'[i] = x /\ i = Len(stdin) + 1
      /\ Len(stdin) + 1 \in DOMAIN stdin' /\ stdin'[Len(stdin) + 1] = x
  <2>0. stdin \in Seq(Piece) /\ Len(stdin) \in Nat /\ DOMAIN stdin = 1..Len(stdin)
    BY DEF StdioShape
  <2>1. CASE kind = "huge"
    <3>1. stdin' = stdin \o <<x, y>> /\ <<x, y>> \in Seq(Piece) /\ Len(<<x, y>>) = 2
      BY <1>1, <2>1
    <3>2. stdin' \in Seq(Piece) /\ Len(stdin') = Len(stdin) + 2 /\ DOMAIN stdin' = 1..(Len(stdin) + 2)
      BY <2>0, <3>1
    <3>3. \A i \in 1..(Len(stdin) + 2) : stdin'[i] = IF i <= Len(stdin) THEN stdin[i] ELSE <<x, y>>[i - Len(stdin)]
      BY <2>0, <3>1
    <3>4. <<x, y>>[1] = x /\ <<x, y>>[2] = y
      OBVIOUS
    <3>. QED BY <2>0, <2>1, <3>2, <3>3, <3>4
  <2>2. CASE kind # "huge"
    <3>1. stdin' = stdin \o <<x>> /\ <<x>> \in Seq(Piece) /\ Len(<<x>>) = 1
      BY <1>1, <2>2
    <3>2. stdin' \in Seq(Piece) /\ Len(stdin') = Len(stdin) + 1 /\ DOMAIN stdin' = 1..(Len(stdin) + 1)
      BY <2>0, <3>1
    <3>3. \A i \in 1..(Len(stdin) + 1) : stdin'[i] = IF i <= Len(stdin) THEN stdin[i] ELSE <<x>>[i - Len(stdin)]
      BY <2>0, <3>1
    <3>4. <<x>>[1] = x
      OBVIOUS
    <3>. QED BY <2>0, <2>2, <3>2, <3>3, <3>4
  <2>. QED BY <2>1, <2>2
<1> HIDE DEF n
<1>3. StdioShape'
  BY <1>0, <1>2 DEF StdioShape, Write
<1>4. /\ Waiting \subseteq Waiting' /\ Waiting' \subseteq Waiting \cup {x, y} /\ x \in Waiting'
      /\ kind # "huge" => Waiting' \subseteq Waiting \cup {x}
  <2>1. Waiting \subseteq Waiting' /\ x \in Waiting'
    BY <1>0, <1>2 DEF Waiting, Range
  <2>2. ASSUME NEW p \in Waiting', p \notin Waiting PROVE p \in {x, y} /\ (kind # "huge" => p = x)
    <3>1. PICK i \in DOMAIN stdin' : p = stdin'[i]
      BY <1>0, <2>2 DEF Waiting, Range
    <3>2. i \notin DOMAIN stdin
      BY <1>2, <2>2, <3>1 DEF Waiting, Range
    <3>. QED BY <1>2, <3>1, <3>2
  <2>. QED BY <2>1, <2>2
<1>5. PiecesTrue'
  <2> SUFFICES ASSUME NEW p \in Waiting'
               PROVE  /\ p.line \in 1..Len(lines')
                      /\ lines'[p.line] # "huge" => p.kind = lines'[p.line]
                      /\ lines'[p.line] = "huge" => p.kind \in {"huge", "garbage"}
    BY DEF PiecesTrue
  <2>1. CASE p \in Waiting
    BY <1>0, <2>1 DEF PiecesTrue, n
  <2>2. CASE p \notin Waiting
    <3>1. p.line = n /\ (kind # "huge" => p.kind = kind) /\ (kind = "huge" => p.kind \in {"huge", "garbage"})
      BY <1>1, <1>4, <2>2
    <3>2. n \in 1..Len(lines') /\ lines'[n] = kind
      BY <1>0 DEF n
    <3>. QED BY <3>1, <3>2
  <2>. QED BY <2>1, <2>2
<1>6. \A p \in Waiting : p.line \in Nat /\ p.line < n /\ lines'[p.line] = lines[p.line]
  BY <1>0 DEF PiecesTrue, n
<1>7. WaitInOrder'
  <2>1. ASSUME NEW i \in DOMAIN queue', NEW j \in DOMAIN queue', i < j PROVE NotAfter(queue[i].line, queue[j].line)'
    <3>1. NotAfter(queue[i].line, queue[j].line) /\ queue[i] \in Waiting
      BY <1>0, <2>1 DEF WaitInOrder, Waiting, Range
    <3>. QED BY <1>0, <1>6, <3>1 DEF NotAfter
  <2>2. ASSUME NEW i \in DOMAIN stdin', NEW j \in DOMAIN stdin', i < j PROVE NotAfter(stdin[i].line, stdin[j].line)'
    <3>1. CASE j \in DOMAIN stdin
      <4>1. i \in DOMAIN stdin /\ NotAfter(stdin[i].line, stdin[j].line) /\ stdin[i] \in Waiting
        BY <1>2, <2>2, <3>1 DEF WaitInOrder, Waiting, Range
      <4>. QED BY <1>2, <1>6, <3>1, <4>1 DEF NotAfter
    <3>2. CASE j \notin DOMAIN stdin /\ i \in DOMAIN stdin
      <4>1. stdin'[j].line = n /\ stdin'[i] = stdin[i] /\ stdin[i] \in Waiting
        BY <1>1, <1>2, <3>2 DEF Waiting, Range
      <4>. QED BY <1>6, <4>1 DEF NotAfter
    <3>3. CASE j \notin DOMAIN stdin /\ i \notin DOMAIN stdin
      <4>1. kind = "huge" /\ stdin'[j].line = n /\ stdin'[i].line = n
        BY <1>1, <1>2, <2>2, <3>3
      <4>. QED BY <1>0, <4>1 DEF NotAfter
    <3>. QED BY <3>1, <3>2, <3>3
  <2>3. ASSUME NEW i \in DOMAIN queue', NEW j \in DOMAIN stdin' PROVE NotAfter(queue[i].line, stdin[j].line)'
    <3>0. queue' = queue /\ queue[i] \in Waiting
      BY <1>0, <2>3 DEF Waiting, Range
    <3>1. CASE j \in DOMAIN stdin
      <4>1. NotAfter(queue[i].line, stdin[j].line)
        BY <3>0, <3>1 DEF WaitInOrder
      <4>. QED BY <1>2, <1>6, <3>0, <3>1, <4>1 DEF NotAfter
    <3>2. CASE j \notin DOMAIN stdin
      BY <1>1, <1>2, <1>6, <3>0, <3>2 DEF NotAfter
    <3>. QED BY <3>1, <3>2
  <2>. QED BY <2>1, <2>2, <2>3 DEF WaitInOrder
<1>8. OutInOrder'
  <2>0. \A i \in DOMAIN out : out[i][1] \in 1..Len(lines)
    BY DEF OutInOrder
  <2>1. ASSUME NEW i \in DOMAIN out', NEW p \in Waiting' PROVE NotAfter(out[i][1], p.line)'
    <3>1. CASE p \in Waiting
      <4>1. NotAfter(out[i][1], p.line)
        BY <1>0, <3>1 DEF OutInOrder
      <4>. QED BY <1>0, <2>0, <4>1 DEF NotAfter
    <3>2. CASE p \notin Waiting
      <4>1. p.line = n /\ out' = out
        BY <1>0, <1>1, <1>4, <3>2
      <4>. QED BY <1>0, <2>0, <4>1 DEF NotAfter, n
    <3>. QED BY <3>1, <3>2
  <2>2. ASSUME NEW i \in DOMAIN out', NEW j \in DOMAIN out', i < j PROVE NotAfter(out[i][1], out[j][1])'
    <3>1. NotAfter(out[i][1], out[j][1])
      BY <1>0, <2>2 DEF OutInOrder
    <3>. QED BY <1>0, <2>0, <3>1 DEF NotAfter
  <2>3. ASSUME NEW i \in DOMAIN out'
        PROVE  /\ out'[i][1] \in 1..Len(lines')
               /\ lines'[out'[i][1]] # "huge" => out'[i][2] = Reply(lines'[out'[i][1]])
               /\ out'[i][2] # "none"
    BY <1>0, <2>0 DEF OutInOrder, n
  <2>. QED BY <2>1, <2>2, <2>3 DEF OutInOrder
<1>9. NoneLost'
  <2> SUFFICES ASSUME NEW m \in 1..n, lines'[m] # "huge", Reply(lines'[m]) # "none"
               PROVE  (\E w \in Waiting' : w.line = m) \/ (\E i \in DOMAIN out : out[i][1] = m)
    BY <1>0 DEF NoneLost
  <2>1. CASE m = n
    BY <1>1, <1>4, <2>1
  <2>2. CASE m # n
    <3>1. m \in 1..Len(lines)
      BY <1>0, <2>2 DEF n
    <3>. QED BY <1>0, <1>4, <3>1 DEF NoneLost
  <2>. QED BY <2>1, <2>2
<1>. QED BY <1>3, <1>5, <1>7, <1>8, <1>9

LEMMA ReadKeepsLines ==
    ASSUME LinesInv, stdin # <<>>, queue' = Append(queue, Head(stdin)), stdin' = Tail(stdin),
           UNCHANGED <<lines, out, eof, main, reader, SHUTDOWN, late>>
    PROVE  LinesInv'
<1> USE DEF LinesInv
<1>0. /\ stdin \in Seq(Piece) /\ queue \in Seq(Piece) /\ Len(queue) \in Nat
      /\ DOMAIN queue = 1..Len(queue) /\ DOMAIN queue' = 1..(Len(queue) + 1)
      /\ \A i \in DOMAIN queue : queue'[i] = queue[i]
      /\ queue'[Len(queue) + 1] = Head(stdin) /\ queue' \in Seq(Piece)
  <2>1. stdin \in Seq(Piece) /\ queue \in Seq(Piece) /\ Head(stdin) \in Piece
    BY TailElements DEF StdioShape
  <2>. QED BY <2>1
<1>1. /\ Head(stdin) = stdin[1] /\ 1 \in DOMAIN stdin
      /\ stdin' \in Seq(Piece) /\ Len(stdin) \in Nat /\ DOMAIN stdin = 1..Len(stdin)
      /\ DOMAIN stdin' = 1..(Len(stdin) - 1)
      /\ \A i \in DOMAIN stdin' : i + 1 \in DOMAIN stdin /\ stdin'[i] = stdin[i + 1]
      /\ Range(stdin) = {Head(stdin)} \cup Range(stdin')
  <2>1. stdin \in Seq(Piece)
    BY DEF StdioShape
  <2>2. /\ Head(stdin) = stdin[1] /\ 1 \in DOMAIN stdin /\ stdin' \in Seq(Piece) /\ Len(stdin) \in Nat
        /\ DOMAIN stdin = 1..Len(stdin) /\ DOMAIN stdin' = 1..(Len(stdin) - 1)
    BY <2>1, TailElements
  <2>3. \A i \in DOMAIN stdin' : i + 1 \in DOMAIN stdin /\ stdin'[i] = stdin[i + 1]
    BY <2>1, TailElements
  <2>4. Range(stdin) = {Head(stdin)} \cup Range(stdin')
    BY <2>1, TailElements
  <2>. QED BY <2>1, <2>2, <2>3, <2>4
<1>2. StdioShape'
  BY <1>0, <1>1 DEF StdioShape
<1>3. Waiting' = Waiting
  <2>1. Range(queue') = Range(queue) \cup {Head(stdin)}
    <3>1. ASSUME NEW i \in DOMAIN queue' PROVE queue'[i] \in Range(queue) \cup {Head(stdin)}
      <4>1. CASE i \in DOMAIN queue
        BY <1>0, <4>1 DEF Range
      <4>2. CASE i = Len(queue) + 1
        BY <1>0, <4>2
      <4>. QED BY <1>0, <4>1, <4>2
    <3>2. ASSUME NEW i \in DOMAIN queue PROVE queue[i] \in Range(queue')
      <4>1. i \in DOMAIN queue' /\ queue'[i] = queue[i]
        BY <1>0
      <4>. QED BY <4>1 DEF Range
    <3>3. Head(stdin) \in Range(queue')
      <4>1. Len(queue) + 1 \in DOMAIN queue'
        BY <1>0
      <4>. QED BY <1>0, <4>1 DEF Range
    <3>. QED BY <3>1, <3>2, <3>3 DEF Range
  <2>. QED BY <1>1, <2>1 DEF Waiting, Range
<1>4. PiecesTrue' /\ NoneLost' /\ OutInOrder'
  BY <1>3 DEF PiecesTrue, NoneLost, OutInOrder, NotAfter
<1>5. WaitInOrder'
  <2>1. ASSUME NEW i \in DOMAIN queue', NEW j \in DOMAIN queue', i < j PROVE NotAfter(queue'[i].line, queue'[j].line)
    <3>1. CASE j \in DOMAIN queue
      BY <1>0, <2>1, <3>1 DEF WaitInOrder
    <3>2. CASE j = Len(queue) + 1
      <4>1. i \in DOMAIN queue /\ queue'[i] = queue[i] /\ queue'[j] = stdin[1]
        BY <1>0, <1>1, <2>1, <3>2
      <4>. QED BY <1>1, <4>1 DEF WaitInOrder
    <3>. QED BY <1>0, <3>1, <3>2
  <2>2. ASSUME NEW i \in DOMAIN stdin', NEW j \in DOMAIN stdin', i < j PROVE NotAfter(stdin'[i].line, stdin'[j].line)
    <3>1. /\ i + 1 \in DOMAIN stdin /\ j + 1 \in DOMAIN stdin /\ i + 1 < j + 1
          /\ stdin'[i] = stdin[i + 1] /\ stdin'[j] = stdin[j + 1]
      BY <1>1, <2>2
    <3>. QED BY <3>1 DEF WaitInOrder
  <2>3. ASSUME NEW i \in DOMAIN queue', NEW j \in DOMAIN stdin' PROVE NotAfter(queue'[i].line, stdin'[j].line)
    <3>1. j + 1 \in DOMAIN stdin /\ 1 < j + 1 /\ stdin'[j] = stdin[j + 1]
      BY <1>1
    <3>2. CASE i \in DOMAIN queue
      BY <1>0, <3>1, <3>2 DEF WaitInOrder
    <3>3. CASE i = Len(queue) + 1
      <4>1. queue'[i] = stdin[1]
        BY <1>0, <1>1, <3>3
      <4>. QED BY <1>1, <3>1, <4>1 DEF WaitInOrder
    <3>. QED BY <1>0, <3>2, <3>3
  <2>. QED BY <2>1, <2>2, <2>3 DEF WaitInOrder, NotAfter
<1>. QED BY <1>2, <1>4, <1>5

LEMMA ReceiveKeepsLines ==
    ASSUME LinesInv, queue # <<>>, queue' = Tail(queue), out' = Printed(Head(queue)),
           main' \in {"json", "recv"}, late' \in Nat,
           UNCHANGED <<lines, stdin, eof, reader, SHUTDOWN>>
    PROVE  LinesInv'
<1> USE DEF LinesInv
<1>0. /\ queue \in Seq(Piece) /\ Head(queue) = queue[1] /\ 1 \in DOMAIN queue
      /\ queue' \in Seq(Piece) /\ Len(queue) \in Nat /\ DOMAIN queue = 1..Len(queue)
      /\ DOMAIN queue' = 1..(Len(queue) - 1)
      /\ \A i \in DOMAIN queue' : i + 1 \in DOMAIN queue /\ queue'[i] = queue[i + 1]
      /\ Range(queue) = {Head(queue)} \cup Range(queue')
  <2>1. queue \in Seq(Piece)
    BY DEF StdioShape
  <2>2. /\ Head(queue) = queue[1] /\ 1 \in DOMAIN queue /\ queue' \in Seq(Piece) /\ Len(queue) \in Nat
        /\ DOMAIN queue = 1..Len(queue) /\ DOMAIN queue' = 1..(Len(queue) - 1)
    BY <2>1, TailElements
  <2>3. \A i \in DOMAIN queue' : i + 1 \in DOMAIN queue /\ queue'[i] = queue[i + 1]
    BY <2>1, TailElements
  <2>4. Range(queue) = {Head(queue)} \cup Range(queue')
    BY <2>1, TailElements
  <2>. QED BY <2>1, <2>2, <2>3, <2>4
<1>1. /\ Head(queue) \in Waiting /\ Waiting' \subseteq Waiting
      /\ Waiting \subseteq Waiting' \cup {Head(queue)}
  BY <1>0 DEF Waiting, Range
<1>2. ASSUME NEW w \in Waiting' PROVE NotAfter(Head(queue).line, w.line)
  <2>1. CASE w \in Range(stdin)
    BY <1>0, <2>1 DEF WaitInOrder, Range
  <2>2. CASE w \in Range(queue')
    <3>1. PICK i \in DOMAIN queue' : w = queue'[i]
      BY <2>2 DEF Range
    <3>2. i + 1 \in DOMAIN queue /\ 1 < i + 1 /\ w = queue[i + 1]
      BY <1>0, <3>1
    <3>. QED BY <1>0, <3>2 DEF WaitInOrder
  <2>. QED BY <1>2, <2>1, <2>2 DEF Waiting, Range
<1>3. PiecesTrue' /\ OutInOrder' /\ NoneLost' /\ out' \in Seq(Nat \X Replies)
  BY <1>1, <1>2, FirstHandled
<1>4. StdioShape'
  BY <1>0, <1>3 DEF StdioShape
<1>5. WaitInOrder'
  <2>1. ASSUME NEW i \in DOMAIN queue', NEW j \in DOMAIN queue', i < j PROVE NotAfter(queue'[i].line, queue'[j].line)
    <3>1. /\ i + 1 \in DOMAIN queue /\ j + 1 \in DOMAIN queue /\ i + 1 < j + 1
          /\ queue'[i] = queue[i + 1] /\ queue'[j] = queue[j + 1]
      BY <1>0, <2>1
    <3>. QED BY <3>1 DEF WaitInOrder
  <2>2. ASSUME NEW i \in DOMAIN queue', NEW j \in DOMAIN stdin PROVE NotAfter(queue'[i].line, stdin[j].line)
    BY <1>0 DEF WaitInOrder
  <2>. QED BY <2>1, <2>2 DEF WaitInOrder, NotAfter
<1>. QED BY <1>3, <1>4, <1>5

LEMMA FrameKeepsLines ==
    ASSUME LinesInv, queue = <<>>, stdin # <<>>, stdin' = Tail(stdin), out' = Printed(Head(stdin)),
           main' = "nda_length", late' \in Nat, UNCHANGED <<lines, queue, eof, reader, SHUTDOWN>>
    PROVE  LinesInv'
<1> USE DEF LinesInv
<1>0. /\ stdin \in Seq(Piece) /\ Head(stdin) = stdin[1] /\ 1 \in DOMAIN stdin
      /\ stdin' \in Seq(Piece) /\ Len(stdin) \in Nat /\ DOMAIN stdin = 1..Len(stdin)
      /\ DOMAIN stdin' = 1..(Len(stdin) - 1)
      /\ \A i \in DOMAIN stdin' : i + 1 \in DOMAIN stdin /\ stdin'[i] = stdin[i + 1]
      /\ Range(stdin) = {Head(stdin)} \cup Range(stdin')
  <2>1. stdin \in Seq(Piece)
    BY DEF StdioShape
  <2>2. /\ Head(stdin) = stdin[1] /\ 1 \in DOMAIN stdin /\ stdin' \in Seq(Piece) /\ Len(stdin) \in Nat
        /\ DOMAIN stdin = 1..Len(stdin) /\ DOMAIN stdin' = 1..(Len(stdin) - 1)
    BY <2>1, TailElements
  <2>3. \A i \in DOMAIN stdin' : i + 1 \in DOMAIN stdin /\ stdin'[i] = stdin[i + 1]
    BY <2>1, TailElements
  <2>4. Range(stdin) = {Head(stdin)} \cup Range(stdin')
    BY <2>1, TailElements
  <2>. QED BY <2>1, <2>2, <2>3, <2>4
<1>1. /\ Head(stdin) \in Waiting /\ Waiting' \subseteq Waiting
      /\ Waiting \subseteq Waiting' \cup {Head(stdin)}
      /\ Waiting' = Range(stdin')
  <2>1. Range(queue) = {}
    BY DEF Range
  <2>. QED BY <1>0, <2>1 DEF Waiting
<1>2. ASSUME NEW w \in Waiting' PROVE NotAfter(Head(stdin).line, w.line)
  <2>1. PICK i \in DOMAIN stdin' : w = stdin'[i]
    BY <1>1 DEF Range
  <2>2. i + 1 \in DOMAIN stdin /\ 1 < i + 1 /\ w = stdin[i + 1]
    BY <1>0, <2>1
  <2>. QED BY <1>0, <2>2 DEF WaitInOrder
<1>3. PiecesTrue' /\ OutInOrder' /\ NoneLost' /\ out' \in Seq(Nat \X Replies)
  BY <1>1, <1>2, FirstHandled
<1>4. StdioShape'
  BY <1>0, <1>3 DEF StdioShape
<1>5. WaitInOrder'
  <2>1. ASSUME NEW i \in DOMAIN stdin', NEW j \in DOMAIN stdin', i < j PROVE NotAfter(stdin'[i].line, stdin'[j].line)
    <3>1. /\ i + 1 \in DOMAIN stdin /\ j + 1 \in DOMAIN stdin /\ i + 1 < j + 1
          /\ stdin'[i] = stdin[i + 1] /\ stdin'[j] = stdin[j + 1]
      BY <1>0, <2>1
    <3>. QED BY <3>1 DEF WaitInOrder
  <2>. QED BY <2>1 DEF WaitInOrder, NotAfter
<1>. QED BY <1>3, <1>4, <1>5

LEMMA StdioStep == StdioInv /\ [Next]_vars => StdioInv'
<1> SUFFICES ASSUME StdioInv, [Next]_vars PROVE StdioInv'
  OBVIOUS
<1> USE DEF StdioInv
<1>1. ASSUME NEW kind \in Kinds, Write(kind) PROVE StdioInv'
  <2>1. LinesInv'
    BY <1>1, WriteKeepsLines
  <2>2. /\ stdin' = stdin \o Pieces(Len(lines) + 1, kind) /\ stdin \in Seq(Piece)
        /\ stdin' # <<>> /\ (stdin # <<>> => Head(stdin') = Head(stdin))
    <3>1. stdin \in Seq(Piece) /\ stdin' = stdin \o Pieces(Len(lines) + 1, kind)
      BY <1>1 DEF Write, LinesInv, StdioShape
    <3>2. \E S : Pieces(Len(lines) + 1, kind) \in Seq(S) /\ Pieces(Len(lines) + 1, kind) # <<>>
      <4> DEFINE T == {[line |-> Len(lines) + 1, kind |-> k] : k \in {kind, "huge", "garbage"}}
      <4>1. Pieces(Len(lines) + 1, kind) \in Seq(T) /\ Pieces(Len(lines) + 1, kind) # <<>>
        <5>1. CASE kind = "huge"
          BY <5>1 DEF Pieces
        <5>2. CASE kind # "huge"
          <6>1. Pieces(Len(lines) + 1, kind) = <<[line |-> Len(lines) + 1, kind |-> kind]>>
            BY <5>2 DEF Pieces
          <6>2. [line |-> Len(lines) + 1, kind |-> kind] \in T
            OBVIOUS
          <6>3. \A S, x : x \in S => <<x>> \in Seq(S) /\ <<x>> # <<>>
            OBVIOUS
          <6>. QED BY <6>1, <6>2, <6>3, Zenon
        <5>. QED BY <5>1, <5>2
      <4>. QED BY <4>1
    <3>. QED BY <3>1, <3>2
  <2>3. ThreadsInv'
    BY <1>1, <2>2 DEF Write, ThreadsInv, OneReader, ReaderDone, Drained, Prompt
  <2>. QED BY <2>1, <2>3
<1>2. ASSUME UNCHANGED <<lines, stdin, queue, out>>, StdioShape' PROVE LinesInv'
  BY <1>2 DEF LinesInv, PiecesTrue, WaitInOrder, OutInOrder, NoneLost, Waiting, NotAfter
<1>3. CASE CloseStdin
  <2>1. LinesInv'
    BY <1>2, <1>3 DEF CloseStdin, LinesInv, StdioShape
  <2>. QED BY <1>3, <2>1 DEF CloseStdin, ThreadsInv, OneReader, ReaderDone, Drained, Prompt
<1>4. CASE CtrlC
  <2>1. LinesInv'
    BY <1>2, <1>4 DEF CtrlC, LinesInv, StdioShape
  <2>. QED BY <1>4, <2>1 DEF CtrlC, ThreadsInv, OneReader, ReaderDone, Drained, Prompt
<1>5. CASE ReadLine
  <2>1. LinesInv'
    BY <1>5, ReadKeepsLines DEF ReadLine
  <2>2. queue' # <<>>
    BY <1>5 DEF ReadLine, LinesInv, StdioShape
  <2>3. main = "flush" => SHUTDOWN
    BY <1>5 DEF ReadLine, ThreadsInv, Drained, LinesInv, StdioShape
  <2>. QED BY <1>5, <2>1, <2>2, <2>3 DEF ReadLine, ThreadsInv, OneReader, ReaderDone, Drained, Prompt
<1>6. CASE ReaderEnds
  <2>1. LinesInv'
    BY <1>2, <1>6 DEF ReaderEnds, LinesInv, StdioShape
  <2>. QED BY <1>6, <2>1 DEF ReaderEnds, ThreadsInv, OneReader, ReaderDone, Drained, Prompt
<1>7. CASE Peek
  <2>1. LinesInv'
    BY <1>2, <1>7 DEF Peek, LinesInv, StdioShape
  <2>. QED BY <1>7, <2>1 DEF Peek, ThreadsInv, OneReader, ReaderDone, Drained, Prompt
<1>8. CASE JsonCheck \/ Timeout \/ NdaCheck \/ FlushAndExit
  <2>1. LinesInv'
    BY <1>2, <1>8 DEF JsonCheck, Timeout, NdaCheck, FlushAndExit, LinesInv, StdioShape
  <2>. QED BY <1>8, <2>1
           DEF JsonCheck, Timeout, NdaCheck, FlushAndExit, ThreadsInv, OneReader, ReaderDone, Drained, Prompt
<1>9. CASE Receive
  <2>1. late' \in Nat
    BY <1>9 DEF Receive, LinesInv, StdioShape
  <2>2. LinesInv'
    BY <1>9, <2>1, ReceiveKeepsLines DEF Receive
  <2>. QED BY <1>9, <2>2 DEF Receive, LinesInv, StdioShape, ThreadsInv, OneReader, ReaderDone, Drained, Prompt
<1>10. CASE Disconnected
  <2>1. LinesInv'
    BY <1>2, <1>10 DEF Disconnected, LinesInv, StdioShape
  <2>. QED BY <1>10, <2>1 DEF Disconnected, ThreadsInv, OneReader, ReaderDone, Drained, Prompt
<1>11. CASE NdaFrame
  <2>1. late' \in Nat /\ queue = <<>> /\ stdin # <<>> /\ reader = "none"
    BY <1>11 DEF NdaFrame, LinesInv, StdioShape, ThreadsInv, OneReader
  <2>2. LinesInv'
    BY <1>11, <2>1, FrameKeepsLines DEF NdaFrame
  <2>. QED BY <1>11, <2>1, <2>2
           DEF NdaFrame, LinesInv, StdioShape, ThreadsInv, OneReader, ReaderDone, Drained, Prompt
<1>12. CASE NdaLength
  <2>1. LinesInv'
    BY <1>2, <1>12 DEF NdaLength, LinesInv, StdioShape
  <2>. QED BY <1>12, <2>1 DEF NdaLength, ThreadsInv, OneReader, ReaderDone, Drained, Prompt
<1>13. CASE UNCHANGED vars
  <2>1. LinesInv'
    BY <1>2, <1>13 DEF vars, LinesInv, StdioShape
  <2>. QED BY <1>13, <2>1 DEF vars, ThreadsInv, OneReader, ReaderDone, Drained, Prompt
<1>. QED BY <1>1, <1>3, <1>4, <1>5, <1>6, <1>7, <1>8, <1>9, <1>10, <1>11, <1>12, <1>13 DEF Next, Main

\* Which objects are answered, by the id and the method they carry.
LEMMA ObjectReplies ==
    ASSUME NEW kind \in DOMAIN Objects
    PROVE  LET o == Objects[kind]
           IN  /\ (o.id = "given" /\ o.method \notin Notifications) => Reply(kind) # "none"
               /\ (o.id = "null" /\ o.method = "ping") => Reply(kind) # "none"
               /\ o.id = "absent" => (Reply(kind) # "none" <=> o.method = "")
<1> DEFINE o == Objects[kind]
<1>1. Reply(kind) = IF HandleRequest(o) = "none" /\ ~IsRequestShaped(o) THEN "invalid" ELSE HandleRequest(o)
  <2>1. kind \notin {"array", "garbage", "not_utf8", "blank", "huge", "frame"}
    BY DEF Objects
  <2>. QED BY <2>1, Zenon DEF Reply
<1>2. /\ o.id = "absent" => HandleRequest(o) = "none"
      /\ o.id # "absent" => HandleRequest(o) = Dispatch(o)
  BY Zenon DEF HandleRequest
<1>3. /\ o.method = "ping" => Dispatch(o) = "result"
      /\ (o.id = "given" /\ o.method \notin Notifications) => Dispatch(o) # "none"
  BY Zenon DEF Dispatch, Notifications
<1>. QED BY <1>1, <1>2, <1>3 DEF IsRequestShaped

\* The answers given so far belong to the lines before the first that waits.
LEMMA InvAnswersInOrder == StdioInv => AnswersInOrder
<1> SUFFICES ASSUME StdioInv, "huge" \notin Range(lines) PROVE \E k \in 0..Len(lines) : AnsweredUpTo(k)
  BY DEF AnswersInOrder
<1> USE DEF StdioInv, LinesInv
<1>0. Len(lines) \in Nat /\ \A n \in 1..Len(lines) : lines[n] # "huge"
  BY DEF StdioShape, Range
<1>1. ASSUME NEW k \in 0..Len(lines),
             \A p \in Waiting : p.line > k,
             \A i \in DOMAIN out : out[i][1] <= k
      PROVE  AnsweredUpTo(k)
  BY <1>0, <1>1 DEF AnsweredUpTo, OutInOrder, NoneLost, NotAfter
<1>2. CASE Waiting = {}
  BY <1>0, <1>1, <1>2 DEF OutInOrder
<1>3. ASSUME NEW p \in Waiting, \A w \in Waiting : p.line <= w.line
      PROVE  \E k \in 0..Len(lines) : AnsweredUpTo(k)
  <2>1. p.line \in 1..Len(lines) /\ p.line - 1 \in 0..Len(lines)
    BY <1>0 DEF PiecesTrue
  <2>2. \A i \in DOMAIN out : out[i][1] <= p.line - 1
    BY <1>0, <2>1 DEF OutInOrder, NotAfter
  <2>3. \A w \in Waiting : w.line > p.line - 1
    BY <1>3, <2>1 DEF PiecesTrue
  <2>. QED BY <1>1, <2>1, <2>2, <2>3
<1>4. CASE queue # <<>>
  <2>1. queue[1] \in Waiting /\ 1 \in DOMAIN queue
    BY <1>4 DEF StdioShape, Waiting, Range
  <2>2. ASSUME NEW w \in Waiting PROVE queue[1].line <= w.line
    <3>1. CASE w \in Range(stdin)
      BY <1>0, <2>1, <3>1 DEF WaitInOrder, NotAfter, Range, PiecesTrue
    <3>2. CASE w \in Range(queue)
      <4>1. PICK i \in DOMAIN queue : w = queue[i]
        BY <3>2 DEF Range
      <4>2. i = 1 \/ 1 < i
        BY DEF StdioShape
      <4>. QED BY <2>1, <4>1, <4>2 DEF WaitInOrder, NotAfter, PiecesTrue
    <3>. QED BY <3>1, <3>2 DEF Waiting
  <2>. QED BY <1>3, <2>1, <2>2
<1>5. CASE queue = <<>> /\ stdin # <<>>
  <2>1. stdin[1] \in Waiting /\ 1 \in DOMAIN stdin /\ Waiting = Range(stdin)
    BY <1>5 DEF StdioShape, Waiting, Range
  <2>2. ASSUME NEW w \in Waiting PROVE stdin[1].line <= w.line
    <3>1. PICK i \in DOMAIN stdin : w = stdin[i]
      BY <2>1 DEF Range
    <3>2. i = 1 \/ 1 < i
      BY DEF StdioShape
    <3>. QED BY <2>1, <3>1, <3>2 DEF WaitInOrder, NotAfter, PiecesTrue
  <2>. QED BY <1>3, <2>1, <2>2
<1>6. CASE queue = <<>> /\ stdin = <<>>
  BY <1>2, <1>6 DEF Waiting, Range
<1>. QED BY <1>4, <1>5, <1>6

\* Once the loop has ended without Ctrl-C nothing waits any more.
LEMMA InvDrained ==
    ASSUME StdioInv, main \in {"flush", "exited"}, ~SHUTDOWN, "not_utf8" \notin Range(lines)
    PROVE  Waiting = {}
<1> USE DEF StdioInv, LinesInv, ThreadsInv
<1>1. queue = <<>>
  BY DEF Drained
<1>2. stdin = <<>>
  <2> SUFFICES ASSUME stdin # <<>> PROVE FALSE
    OBVIOUS
  <2>1. Head(stdin).kind = "not_utf8"
    BY DEF Drained, ReaderDone
  <2>2. stdin[1] \in Waiting /\ Head(stdin) = stdin[1]
    BY DEF StdioShape, Waiting, Range
  <2>3. lines[stdin[1].line] = "not_utf8" /\ stdin[1].line \in DOMAIN lines
    BY <2>1, <2>2 DEF PiecesTrue, StdioShape
  <2>. QED BY <2>3 DEF Range
<1>. QED BY <1>1, <1>2 DEF Waiting, Range

LEMMA InvEofDrains == StdioInv => EofDrains
<1> SUFFICES ASSUME StdioInv, main \in {"flush", "exited"}, ~SHUTDOWN,
                    {"huge", "not_utf8"} \cap Range(lines) = {}
             PROVE  AnsweredUpTo(Len(lines))
  BY DEF EofDrains
<1>1. Waiting = {}
  BY InvDrained
<1>2. Len(lines) \in Nat /\ \A n \in 1..Len(lines) : lines[n] # "huge"
  <2>1. "huge" \notin Range(lines)
    BY Zenon
  <2>. QED BY <2>1 DEF StdioInv, LinesInv, StdioShape, Range
<1>. QED BY <1>1, <1>2 DEF StdioInv, LinesInv, AnsweredUpTo, OutInOrder, NoneLost, NotAfter

LEMMA AtMostOne ==
    ASSUME NEW S, \A x, y \in S : x = y
    PROVE  Cardinality(S) <= 1
<1>1. CASE S = {}
  BY <1>1, FS_EmptySet
<1>2. CASE S # {}
  <2>1. PICK x : S = {x}
    BY <1>2
  <2>. QED BY <2>1, FS_Singleton
<1>. QED BY <1>1, <1>2

LEMMA InvRequestsAnswered == StdioInv => RequestsAnswered
<1> SUFFICES ASSUME StdioInv, main \in {"flush", "exited"}, ~SHUTDOWN, "not_utf8" \notin Range(lines),
                    NEW n \in DOMAIN lines, lines[n] \in DOMAIN Objects
             PROVE  LET o == Objects[lines[n]]
                        answers == {k \in DOMAIN out : out[k][1] = n}
                    IN  /\ Cardinality(answers) <= 1
                        /\ (o.id = "given" /\ o.method \notin Notifications) => answers # {}
                        /\ (o.id = "null" /\ o.method = "ping") => answers # {}
                        /\ o.id = "absent" => (answers # {} <=> o.method = "")
  BY DEF RequestsAnswered
<1> DEFINE answers == {k \in DOMAIN out : out[k][1] = n}
<1>1. n \in 1..Len(lines) /\ lines[n] # "huge"
  <2>1. "huge" \notin DOMAIN Objects
    BY DEF Objects
  <2>. QED BY <2>1 DEF StdioInv, LinesInv, StdioShape
<1>2. answers # {} <=> Reply(lines[n]) # "none"
  BY <1>1, InvDrained DEF StdioInv, LinesInv, OutInOrder, NoneLost
<1>3. Cardinality(answers) <= 1
  <2>1. ASSUME NEW i \in answers, NEW j \in answers PROVE i = j
    <3>1. i \in Nat /\ j \in Nat /\ n \in Nat
      BY <1>1 DEF StdioInv, LinesInv, StdioShape
    <3>2. ~(i < j) /\ ~(j < i)
      BY <1>1, <3>1 DEF StdioInv, LinesInv, OutInOrder, NotAfter
    <3>. QED BY <3>1, <3>2
  <2> HIDE DEF answers
  <2>. QED BY <2>1, AtMostOne
<1>. QED BY <1>2, <1>3, ObjectReplies

\* For any number of lines, of every kind and in every interleaving of the reader
\* thread, the main loop, the end of stdin and Ctrl-C, the server answers the lines in
\* order, all of them if stdin ends, and at most one after Ctrl-C.
THEOREM LinesAnsweredHolds == Spec => []LinesAnswered
<1>1. StdioInv => LinesAnswered
  BY InvAnswersInOrder, InvEofDrains, InvRequestsAnswered
     DEF LinesAnswered, StdioInv, ThreadsInv, Prompt, StopsPromptly
<1>. QED BY <1>1, StdioInit, StdioStep, PTL DEF Spec

-----------------------------------------------------------------------------
(* The client library.  The stdio transport has the answer of one request at   *)
(* most under way, and it is that of the task which holds the pipes: a task    *)
(* that gives up with an answer under way takes the pipes with it.             *)

Sends == [pc : {"idle", "lock", "write", "read", "raw", "post"}, id : Nat,
          what : {"none", "call", "initialize", "initialized"}, late : BOOLEAN,
          answer : {"none", "closed", "error", "acked", "result", "cancelled"}, got : Nat]

ClientShape ==
    /\ transport \in {"stdio", "json", "nda", "http"}
    /\ task \in [Tasks -> Sends]
    /\ holder \in Tasks \cup {"nobody"}
    /\ pipes \in BOOLEAN /\ open \in BOOLEAN
    /\ childStdin \in Seq(Sends) /\ stdout \in Seq(Nat)
    /\ server \in {"up", "stuck", "dead"}
    /\ heard \in Seq({"none", "call", "initialize", "initialized"})
    /\ closed \in {"no", "waiting", "yes"}
    /\ next_id \in Nat \ {0}

\* The mutex, and which transport a send is on its way through.
MutexHeld ==
    /\ \A t \in Tasks : task[t].pc \in {"write", "read", "raw"} <=> holder = t
    /\ \A t \in Tasks : /\ task[t].pc \in {"write", "read"} => transport = "stdio"
                        /\ task[t].pc = "raw" => Shared
                        /\ task[t].pc = "post" => transport = "http"
                        /\ task[t].pc = "lock" => transport # "http"

PipesTaken ==
    transport = "stdio" => /\ holder # "nobody" => open /\ ~pipes
                           /\ ~open => ~pipes

HasHeard(what) == \E j \in DOMAIN heard : heard[j] = what

\* While the pipes exist, a request in them is that of the task that reads.
OneUnderWay ==
    (transport = "stdio" /\ open) =>
      /\ stdout # <<>> => /\ Len(stdout) = 1
                          /\ \A i \in DOMAIN childStdin : childStdin[i].id = 0
                          /\ \E t \in Tasks : /\ task[t].pc = "read" /\ stdout[1] = task[t].id
                                              /\ HasHeard(task[t].what)
      /\ \A i, j \in DOMAIN childStdin : (childStdin[i].id # 0 /\ childStdin[j].id # 0) => i = j
      /\ \A i \in DOMAIN childStdin : childStdin[i].id # 0 =>
           \E t \in Tasks : /\ task[t].pc = "read" /\ childStdin[i].id = task[t].id
                            /\ childStdin[i].what = task[t].what

LateSends ==
    /\ (closed = "yes" /\ transport = "stdio") => server = "dead"
    /\ \A t \in Tasks : task[t].late /\ transport # "http" =>
         /\ closed = "yes" /\ task[t].pc # "read"
         /\ Shared => task[t].pc = "idle"

\* The notification exists only once the server has handled initialize.
Handshake ==
    transport # "nda" =>
      /\ \A t \in Tasks : task[t].what = "initialized" => HasHeard("initialize")
      /\ \A i \in DOMAIN childStdin : childStdin[i].what = "initialized" => HasHeard("initialize")
      /\ \A t \in Tasks : (task[t].what = "initialize" /\ task[t].answer = "result") => HasHeard("initialize")

ClientInv == ClientShape /\ MutexHeld /\ PipesTaken /\ OneUnderWay /\ LateSends /\ Handshake /\ SendsHonest

Whats == {"none", "call", "initialize", "initialized"}

LEMMA ClientInitInv == ClientInit => ClientInv
<1> SUFFICES ASSUME ClientInit PROVE ClientInv
  OBVIOUS
<1> USE DEF ClientInit
<1>0. pipes \in BOOLEAN /\ open \in BOOLEAN /\ Resting \in Sends /\ heard = <<>>
  BY DEF Resting, Sends
<1>1. ClientShape
  BY <1>0, ClientAssumption DEF ClientShape
<1>2. MutexHeld /\ PipesTaken /\ LateSends
  BY ClientAssumption DEF MutexHeld, PipesTaken, LateSends, Resting
<1>3. OneUnderWay /\ Handshake
  BY DEF OneUnderWay, Handshake, Resting
<1>4. SendsHonest
  BY DEF SendsHonest, AnswersOwn, ClosedStaysClosed, HandshakeInOrder, Resting
<1>. QED BY <1>1, <1>2, <1>3, <1>4 DEF ClientInv

\* What the server handles is added at the end of what it has handled.
LEMMA HeardAppend ==
    ASSUME ClientShape, HandshakeInOrder, NEW x \in Whats, heard' = Append(heard, x), UNCHANGED transport,
           (transport # "nda" /\ x = "initialized") => HasHeard("initialize")
    PROVE  /\ heard' \in Seq(Whats) /\ HandshakeInOrder' /\ HasHeard(x)'
           /\ \A w : HasHeard(w) => HasHeard(w)'
<1>1. /\ heard \in Seq(Whats) /\ Len(heard) \in Nat /\ DOMAIN heard = 1..Len(heard)
      /\ heard' \in Seq(Whats) /\ Len(heard') = Len(heard) + 1 /\ DOMAIN heard' = 1..(Len(heard) + 1)
      /\ heard'[Len(heard) + 1] = x
      /\ \A j \in 1..Len(heard) : heard'[j] = heard[j]
  BY DEF ClientShape, Whats
<1>2. HasHeard(x)' /\ \A w : HasHeard(w) => HasHeard(w)'
  <2>1. Len(heard) + 1 \in DOMAIN heard'
    BY <1>1
  <2>2. ASSUME NEW w, NEW j \in DOMAIN heard, heard[j] = w PROVE j \in DOMAIN heard' /\ heard'[j] = w
    BY <1>1, <2>2
  <2>. QED BY <1>1, <2>1, <2>2 DEF HasHeard
<1>3. HandshakeInOrder'
  <2> SUFFICES ASSUME NEW i \in 1..Len(heard'), heard'[i] = "initialized", transport # "nda"
               PROVE  \E j \in 1..(i - 1) : heard'[j] = "initialize"
    BY DEF HandshakeInOrder
  <2>1. CASE i \in 1..Len(heard)
    <3>1. PICK j \in 1..(i - 1) : heard[j] = "initialize"
      BY <1>1, <2>1 DEF HandshakeInOrder
    <3>. QED BY <1>1, <2>1, <3>1
  <2>2. CASE i = Len(heard) + 1
    <3>1. PICK j \in DOMAIN heard : heard[j] = "initialize"
      BY <1>1, <2>2 DEF HasHeard
    <3>. QED BY <1>1, <2>2, <3>1
  <2>. QED BY <1>1, <2>1, <2>2
<1>. QED BY <1>1, <1>2, <1>3

\* A send begins: the three ways to call it differ in the session only.
LEMMA BeginKeeps ==
    ASSUME ClientInv, NEW t \in Tasks, NEW what \in {"call", "initialize", "initialized"}, BeginSend(t, what),
           (what = "initialized" /\ transport # "nda") => HasHeard("initialize")
    PROVE  ClientInv'
<1> USE DEF ClientInv
<1> DEFINE new == task'[t]
<1>0. /\ task[t].pc = "idle" /\ new \in Sends /\ task' = [task EXCEPT ![t] = new]
      /\ new.pc = IF Shared /\ closed # "no" THEN "idle" ELSE IF transport = "http" THEN "post" ELSE "lock"
      /\ new.late = (closed = "yes") /\ new.what = what
      /\ new.answer \in {"none", "closed"}
      /\ next_id' \in Nat \ {0}
      /\ UNCHANGED <<transport, holder, pipes, open, childStdin, stdout, server, heard, closed>>
  BY DEF BeginSend, ClientShape, Sends, serverVars
<1>1. \A u \in Tasks : u # t => task'[u] = task[u]
  BY <1>0 DEF ClientShape
<1> HIDE DEF new
<1>2. ClientShape'
  BY <1>0 DEF ClientShape
<1>3. holder # t
  BY <1>0 DEF MutexHeld
<1>4. MutexHeld'
  BY <1>0, <1>1, <1>3 DEF MutexHeld, ClientShape, Shared, new
<1>5. PipesTaken'
  BY <1>0 DEF PipesTaken
<1>6. OneUnderWay'
  <2>1. \A u \in Tasks : task[u].pc = "read" => task'[u] = task[u]
    BY <1>0, <1>1
  <2>. QED BY <1>0, <2>1 DEF OneUnderWay, HasHeard
<1>7. LateSends'
  BY <1>0, <1>1 DEF LateSends, Shared, new
<1>8. Handshake'
  BY <1>0, <1>1 DEF Handshake, HasHeard, new
<1>9. SendsHonest'
  BY <1>0, <1>1 DEF SendsHonest, AnswersOwn, ClosedStaysClosed, HandshakeInOrder, new
<1>. QED BY <1>2, <1>4, <1>5, <1>6, <1>7, <1>8, <1>9

\* Steps of the server, of close, and the end of initialize leave the tasks alone.
LEMMA IdleKeeps ==
    ASSUME ClientInv, UNCHANGED <<transport, task, holder, pipes, open, childStdin, stdout, heard, closed, next_id>>,
           server' \in {"up", "stuck", "dead"}, server = "dead" => server' = "dead"
    PROVE  ClientInv'
<1> USE DEF ClientInv
<1>1. ClientShape'
  BY DEF ClientShape
<1>2. MutexHeld' /\ PipesTaken' /\ LateSends'
  BY DEF MutexHeld, PipesTaken, LateSends, Shared
<1>3. OneUnderWay' /\ Handshake'
  BY DEF OneUnderWay, Handshake, HasHeard
<1>4. SendsHonest'
  BY DEF SendsHonest, AnswersOwn, ClosedStaysClosed, HandshakeInOrder
<1>. QED BY <1>1, <1>2, <1>3, <1>4

\* A send ends: what the others have stays as it was.
LEMMA EndsTask ==
    ASSUME ClientShape, NEW t \in Tasks,
           NEW answer \in {"closed", "error", "acked", "result", "cancelled"}, NEW got \in Nat,
           Ends(t, answer, got)
    PROVE  /\ task' \in [Tasks -> Sends]
           /\ task'[t].pc = "idle" /\ task'[t].answer = answer /\ task'[t].got = got
           /\ task'[t].id = task[t].id /\ task'[t].what = task[t].what /\ task'[t].late = task[t].late
           /\ \A u \in Tasks : u # t => task'[u] = task[u]
BY DEF Ends, ClientShape, Sends

LEMMA LockKeeps == ASSUME ClientInv, NEW t \in Tasks, Lock(t) PROVE ClientInv'
<1> USE DEF ClientInv
<1>0. /\ task[t].pc = "lock" /\ holder = "nobody" /\ transport # "http"
      /\ UNCHANGED <<transport, open, childStdin, stdout, server, heard, closed, next_id>>
  BY DEF Lock, MutexHeld, serverVars
<1>1. CASE ~pipes
  <2>1. Ends(t, "closed", 0) /\ UNCHANGED <<holder, pipes>>
    BY <1>1 DEF Lock
  <2>2. /\ task' \in [Tasks -> Sends]
        /\ task'[t].pc = "idle" /\ task'[t].answer = "closed" /\ task'[t].got = 0
        /\ task'[t].id = task[t].id /\ task'[t].what = task[t].what /\ task'[t].late = task[t].late
        /\ \A u \in Tasks : u # t => task'[u] = task[u]
    BY <2>1, EndsTask
  <2>3. ClientShape'
    BY <1>0, <2>1, <2>2 DEF ClientShape
  <2>4. MutexHeld' /\ PipesTaken' /\ LateSends'
    BY <1>0, <2>1, <2>2, ClientAssumption DEF MutexHeld, PipesTaken, LateSends, Shared
  <2>5. OneUnderWay'
    <3>1. \A u \in Tasks : task[u].pc = "read" => task'[u] = task[u]
      BY <1>0, <2>2
    <3>. QED BY <1>0, <2>1, <3>1 DEF OneUnderWay, HasHeard
  <2>6. Handshake' /\ SendsHonest'
    BY <1>0, <2>2 DEF Handshake, HasHeard, SendsHonest, AnswersOwn, ClosedStaysClosed, HandshakeInOrder
  <2>. QED BY <2>3, <2>4, <2>5, <2>6
<1>2. CASE pipes
  <2>1. /\ holder' = t /\ pipes' = Shared
        /\ task' = [task EXCEPT ![t].pc = IF Shared THEN "raw" ELSE "write"]
    BY <1>2 DEF Lock
  <2>2. /\ task' \in [Tasks -> Sends]
        /\ task'[t].pc = (IF Shared THEN "raw" ELSE "write") /\ task'[t].answer = task[t].answer
        /\ task'[t].got = task[t].got /\ task'[t].id = task[t].id /\ task'[t].what = task[t].what
        /\ task'[t].late = task[t].late
        /\ \A u \in Tasks : u # t => task'[u] = task[u]
    BY <2>1 DEF ClientShape, Sends
  <2>3. ClientShape'
    <3>1. pipes' \in BOOLEAN
      BY <2>1 DEF Shared
    <3>. QED BY <1>0, <2>1, <2>2, <3>1 DEF ClientShape
  <2>4. MutexHeld'
    BY <1>0, <2>1, <2>2, ClientAssumption DEF MutexHeld, ClientShape, Shared
  <2>5. PipesTaken'
    BY <1>0, <1>2, <2>1 DEF PipesTaken, Shared
  <2>6. LateSends'
    BY <1>0, <2>2 DEF LateSends, ClientShape, Shared
  <2>7. OneUnderWay'
    <3>1. \A u \in Tasks : task[u].pc = "read" => task'[u] = task[u]
      BY <1>0, <2>2
    <3>. QED BY <1>0, <2>1, <3>1 DEF OneUnderWay, HasHeard
  <2>8. Handshake' /\ SendsHonest'
    BY <1>0, <2>2 DEF Handshake, HasHeard, SendsHonest, AnswersOwn, ClosedStaysClosed, HandshakeInOrder
  <2>. QED BY <2>3, <2>4, <2>5, <2>6, <2>7, <2>8
<1>. QED BY <1>1, <1>2

\* With nobody reading, no answer is under way in the pipes.
LEMMA PipesQuiet ==
    ASSUME ClientInv, transport = "stdio", open, \A t \in Tasks : task[t].pc # "read"
    PROVE  stdout = <<>> /\ \A i \in DOMAIN childStdin : childStdin[i].id = 0
BY DEF ClientInv, OneUnderWay

\* The pipes are lost with the task that has them, or an answer is read to its end.
LEMMA EndsWithPipes ==
    ASSUME ClientInv, NEW t \in Tasks, task[t].pc \in {"write", "read"}, transport = "stdio",
           NEW answer \in {"closed", "error", "cancelled"}, Ends(t, answer, 0), Frees(t), open' = FALSE,
           UNCHANGED <<transport, pipes, childStdin, stdout, server, heard, closed, next_id>>
    PROVE  ClientInv'
<1> USE DEF ClientInv
<1>1. /\ task' \in [Tasks -> Sends]
      /\ task'[t].pc = "idle" /\ task'[t].answer = answer /\ task'[t].got = 0
      /\ task'[t].id = task[t].id /\ task'[t].what = task[t].what /\ task'[t].late = task[t].late
      /\ \A u \in Tasks : u # t => task'[u] = task[u]
  BY EndsTask
<1>2. holder = t /\ ~pipes /\ holder' = "nobody"
  BY ClientAssumption DEF MutexHeld, PipesTaken, Frees
<1>3. ClientShape'
  BY <1>1, <1>2 DEF ClientShape
<1>4. MutexHeld' /\ PipesTaken' /\ LateSends'
  BY <1>1, <1>2, ClientAssumption DEF MutexHeld, PipesTaken, LateSends, Shared
<1>5. OneUnderWay'
  BY DEF OneUnderWay
<1>6. Handshake' /\ SendsHonest'
  BY <1>1 DEF Handshake, HasHeard, SendsHonest, AnswersOwn, ClosedStaysClosed, HandshakeInOrder
<1>. QED BY <1>3, <1>4, <1>5, <1>6

LEMMA WriteKeeps == ASSUME ClientInv, NEW t \in Tasks, WriteRequest(t) PROVE ClientInv'
<1> USE DEF ClientInv
<1>0. /\ task[t].pc = "write" /\ transport = "stdio" /\ holder = t /\ open /\ ~pipes /\ task[t] \in Sends
      /\ UNCHANGED <<transport, stdout, server, heard, closed, next_id>>
      /\ \A u \in Tasks : task[u].pc # "read"
  BY ClientAssumption DEF WriteRequest, MutexHeld, PipesTaken, ClientShape
<1>1. CASE server = "dead"
  BY <1>0, <1>1, EndsWithPipes DEF WriteRequest
<1>2. CASE server # "dead"
  <2>0. stdout = <<>> /\ \A i \in DOMAIN childStdin : childStdin[i].id = 0
    BY <1>0, PipesQuiet
  <2>1. /\ childStdin' = Append(childStdin, task[t]) /\ UNCHANGED open
        /\ childStdin' \in Seq(Sends) /\ Len(childStdin) \in Nat
        /\ DOMAIN childStdin = 1..Len(childStdin) /\ DOMAIN childStdin' = 1..(Len(childStdin) + 1)
        /\ childStdin'[Len(childStdin) + 1] = task[t]
        /\ \A i \in DOMAIN childStdin : childStdin'[i] = childStdin[i]
    <3>1. childStdin' = Append(childStdin, task[t]) /\ UNCHANGED open
      BY <1>2 DEF WriteRequest
    <3>2. childStdin \in Seq(Sends) /\ task[t] \in Sends
      BY <1>0 DEF ClientShape
    <3>. QED BY <3>1, <3>2
  <2>2. ~task[t].late
    BY <1>0, <1>2 DEF LateSends
  <2>3. CASE task[t].id = 0
    <3>1. Ends(t, "acked", 0) /\ holder' = "nobody" /\ pipes' = TRUE
      BY <1>2, <2>3 DEF WriteRequest, Frees
    <3>2. /\ task' \in [Tasks -> Sends]
          /\ task'[t].pc = "idle" /\ task'[t].answer = "acked" /\ task'[t].got = 0
          /\ task'[t].id = task[t].id /\ task'[t].what = task[t].what /\ task'[t].late = task[t].late
          /\ \A u \in Tasks : u # t => task'[u] = task[u]
      BY <3>1, EndsTask
    <3>3. ClientShape'
      BY <1>0, <2>1, <3>1, <3>2 DEF ClientShape
    <3>4. MutexHeld' /\ PipesTaken' /\ LateSends'
      BY <1>0, <2>1, <2>2, <3>1, <3>2, ClientAssumption DEF MutexHeld, PipesTaken, LateSends, Shared
    <3>5. \A i \in DOMAIN childStdin' : childStdin'[i].id = 0
      BY <2>0, <2>1, <2>3
    <3>6. OneUnderWay'
      BY <1>0, <2>0, <3>5 DEF OneUnderWay
    <3>7. Handshake'
      BY <1>0, <2>1, <3>2 DEF Handshake, HasHeard
    <3>8. SendsHonest'
      BY <1>0, <2>2, <3>2 DEF SendsHonest, AnswersOwn, ClosedStaysClosed, HandshakeInOrder
    <3>. QED BY <3>3, <3>4, <3>6, <3>7, <3>8
  <2>4. CASE task[t].id # 0
    <3>1. task' = [task EXCEPT ![t].pc = "read"] /\ UNCHANGED <<holder, pipes>>
      BY <1>2, <2>4 DEF WriteRequest
    <3>2. /\ task' \in [Tasks -> Sends]
          /\ task'[t].pc = "read" /\ task'[t].answer = task[t].answer /\ task'[t].got = task[t].got
          /\ task'[t].id = task[t].id /\ task'[t].what = task[t].what /\ task'[t].late = task[t].late
          /\ \A u \in Tasks : u # t => task'[u] = task[u]
      BY <3>1 DEF ClientShape, Sends
    <3>3. ClientShape'
      BY <1>0, <2>1, <3>1, <3>2 DEF ClientShape
    <3>4. MutexHeld' /\ PipesTaken' /\ LateSends'
      BY <1>0, <2>1, <2>2, <3>1, <3>2, ClientAssumption DEF MutexHeld, PipesTaken, LateSends, Shared
    <3>5. \A i \in DOMAIN childStdin' : childStdin'[i].id # 0 => i = Len(childStdin) + 1
      BY <2>0, <2>1
    <3>6. OneUnderWay'
      BY <1>0, <2>0, <2>1, <3>2, <3>5 DEF OneUnderWay
    <3>7. Handshake'
      BY <1>0, <2>1, <3>2 DEF Handshake, HasHeard
    <3>8. SendsHonest'
      BY <1>0, <2>2, <3>2 DEF SendsHonest, AnswersOwn, ClosedStaysClosed, HandshakeInOrder
    <3>. QED BY <3>3, <3>4, <3>6, <3>7, <3>8
  <2>. QED BY <2>3, <2>4
<1>. QED BY <1>1, <1>2

LEMMA ReadKeeps == ASSUME ClientInv, NEW t \in Tasks, Read(t) PROVE ClientInv'
<1> USE DEF ClientInv
<1>0. /\ task[t].pc = "read" /\ transport = "stdio" /\ holder = t /\ open /\ ~pipes /\ stdout # <<>>
      /\ Ends(t, "result", Head(stdout)) /\ holder' = "nobody" /\ pipes' = TRUE
      /\ UNCHANGED <<transport, open, childStdin, server, heard, closed, next_id>>
      /\ \A u \in Tasks : task[u].pc = "read" => u = t
  BY ClientAssumption DEF Read, MutexHeld, PipesTaken, Frees
<1>1. /\ Len(stdout) = 1 /\ stdout[1] = task[t].id /\ HasHeard(task[t].what)
      /\ \A i \in DOMAIN childStdin : childStdin[i].id = 0
  BY <1>0 DEF OneUnderWay
<1>2. Head(stdout) = task[t].id /\ stdout' = <<>>
  <2>1. stdout \in Seq(Nat) /\ Head(stdout) = stdout[1]
    BY <1>0 DEF ClientShape
  <2>2. PICK k \in 1..Len(stdout) : stdout' = SubSeq(stdout, k + 1, Len(stdout))
    BY DEF Read
  <2>3. k = 1
    BY <1>1, <2>2
  <2>. QED BY <1>1, <2>1, <2>2, <2>3
<1>3. /\ task' \in [Tasks -> Sends]
      /\ task'[t].pc = "idle" /\ task'[t].answer = "result" /\ task'[t].got = task[t].id
      /\ task'[t].id = task[t].id /\ task'[t].what = task[t].what /\ task'[t].late = task[t].late
      /\ \A u \in Tasks : u # t => task'[u] = task[u]
  <2>1. task[t].id \in Nat
    BY DEF ClientShape, Sends
  <2>. QED BY <1>0, <1>2, <2>1, EndsTask
<1>4. ClientShape'
  BY <1>0, <1>2, <1>3 DEF ClientShape
<1>5. MutexHeld' /\ PipesTaken' /\ LateSends'
  BY <1>0, <1>3, ClientAssumption DEF MutexHeld, PipesTaken, LateSends, Shared
<1>6. OneUnderWay'
  BY <1>0, <1>1, <1>2 DEF OneUnderWay
<1>7. Handshake'
  BY <1>0, <1>1, <1>3 DEF Handshake, HasHeard
<1>8. SendsHonest'
  BY <1>0, <1>3 DEF SendsHonest, AnswersOwn, ClosedStaysClosed, HandshakeInOrder, LateSends
<1>. QED BY <1>4, <1>5, <1>6, <1>7, <1>8

LEMMA ReadEofKeeps == ASSUME ClientInv, NEW t \in Tasks, ReadEof(t) PROVE ClientInv'
<1>1. task[t].pc = "read" /\ transport = "stdio"
  BY DEF ReadEof, ClientInv, MutexHeld
<1>. QED BY <1>1, EndsWithPipes DEF ReadEof, serverVars

LEMMA CancelKeeps == ASSUME ClientInv, NEW t \in Tasks, Cancel(t) PROVE ClientInv'
<1> USE DEF ClientInv
<1>0. /\ task[t].pc \in {"lock", "write", "read", "post"} /\ Ends(t, "cancelled", 0)
      /\ UNCHANGED <<transport, pipes, childStdin, stdout, server, heard, closed, next_id>>
  BY DEF Cancel, serverVars
<1>1. CASE holder = t
  <2>1. task[t].pc \in {"write", "read"} /\ transport = "stdio"
    BY <1>0, <1>1 DEF MutexHeld
  <2>. QED BY <1>0, <1>1, <2>1, EndsWithPipes DEF Cancel
<1>2. CASE holder # t
  <2>1. task[t].pc \in {"lock", "post"} /\ UNCHANGED <<holder, open>>
    BY <1>0, <1>2 DEF MutexHeld, Cancel
  <2>2. /\ task' \in [Tasks -> Sends]
        /\ task'[t].pc = "idle" /\ task'[t].answer = "cancelled" /\ task'[t].got = 0
        /\ task'[t].id = task[t].id /\ task'[t].what = task[t].what /\ task'[t].late = task[t].late
        /\ \A u \in Tasks : u # t => task'[u] = task[u]
    BY <1>0, EndsTask
  <2>3. ClientShape'
    BY <1>0, <2>1, <2>2 DEF ClientShape
  <2>4. MutexHeld' /\ PipesTaken' /\ LateSends'
    BY <1>0, <1>2, <2>1, <2>2, ClientAssumption DEF MutexHeld, PipesTaken, LateSends, Shared
  <2>5. OneUnderWay'
    <3>1. \A u \in Tasks : task[u].pc = "read" => task'[u] = task[u]
      BY <2>1, <2>2
    <3>. QED BY <1>0, <2>1, <3>1 DEF OneUnderWay, HasHeard
  <2>6. Handshake' /\ SendsHonest'
    BY <1>0, <2>2 DEF Handshake, HasHeard, SendsHonest, AnswersOwn, ClosedStaysClosed, HandshakeInOrder
  <2>. QED BY <2>3, <2>4, <2>5, <2>6
<1>. QED BY <1>1, <1>2

\* A send over shared memory or HTTP ends: its answer is its own if it is told apart,
\* and then the server has handled it.
LEMMA EndsElsewhere ==
    ASSUME ClientInv, NEW t \in Tasks, task[t].pc \in {"raw", "post"},
           NEW answer \in {"error", "acked", "result"}, NEW got \in Nat, Ends(t, answer, got),
           (answer = "result" /\ transport # "nda") => got = task[t].id /\ heard' = Append(heard, task[t].what),
           heard' \in {heard, Append(heard, task[t].what)},
           holder' = IF task[t].pc = "raw" THEN "nobody" ELSE holder,
           UNCHANGED <<transport, pipes, open, childStdin, stdout, server, closed, next_id>>
    PROVE  ClientInv'
<1> USE DEF ClientInv
<1>1. /\ task' \in [Tasks -> Sends]
      /\ task'[t].pc = "idle" /\ task'[t].answer = answer /\ task'[t].got = got
      /\ task'[t].id = task[t].id /\ task'[t].what = task[t].what /\ task'[t].late = task[t].late
      /\ \A u \in Tasks : u # t => task'[u] = task[u]
  BY EndsTask
<1>2. transport # "stdio"
  BY DEF MutexHeld, Shared
<1>3. /\ heard' \in Seq(Whats) /\ HandshakeInOrder'
      /\ \A w : HasHeard(w) => HasHeard(w)'
      /\ (heard' = Append(heard, task[t].what) /\ task[t].what = "initialize") => HasHeard("initialize")'
  <2>1. task[t].what \in Whats /\ heard \in Seq(Whats)
    BY DEF ClientShape, Sends, Whats
  <2>2. (transport # "nda" /\ task[t].what = "initialized") => HasHeard("initialize")
    BY DEF Handshake
  <2>3. CASE heard' = Append(heard, task[t].what)
    <3>1. PICK x \in Whats : x = task[t].what
      BY <2>1
    <3>2. heard' \in Seq(Whats) /\ HandshakeInOrder' /\ HasHeard(x)' /\ \A w : HasHeard(w) => HasHeard(w)'
      BY <2>2, <2>3, <3>1, HeardAppend DEF SendsHonest
    <3>. QED BY <3>1, <3>2
  <2>4. CASE heard' = heard /\ heard' # Append(heard, task[t].what)
    <3>1. HandshakeInOrder'
      BY <2>4 DEF SendsHonest, HandshakeInOrder
    <3>. QED BY <2>1, <2>4, <3>1 DEF HasHeard
  <2>. QED BY <2>3, <2>4
<1>4. ClientShape'
  BY <1>1, <1>3 DEF ClientShape, Whats
<1>5. MutexHeld'
  <2>1. CASE task[t].pc = "raw"
    <3>1. holder = t /\ holder' = "nobody"
      BY <2>1 DEF MutexHeld
    <3>. QED BY <1>1, <3>1, ClientAssumption DEF MutexHeld, Shared
  <2>2. CASE task[t].pc = "post"
    <3>1. holder # t /\ holder' = holder
      BY <2>2 DEF MutexHeld
    <3>. QED BY <1>1, <3>1 DEF MutexHeld, Shared
  <2>. QED BY <2>1, <2>2
<1>6. PipesTaken' /\ OneUnderWay' /\ LateSends'
  BY <1>1, <1>2 DEF PipesTaken, OneUnderWay, LateSends, Shared
<1>7. Handshake'
  <2>1. ASSUME transport # "nda", task[t].what = "initialize", answer = "result" PROVE HasHeard("initialize")'
    BY <1>3, <2>1
  <2>2. transport # "nda" => (HasHeard("initialize") => HasHeard("initialize")')
    BY <1>3
  <2> HIDE DEF HasHeard
  <2>. QED BY <1>1, <2>1, <2>2 DEF Handshake
<1>8. AnswersOwn'
  BY <1>1 DEF SendsHonest, AnswersOwn
<1>9. ClosedStaysClosed'
  BY <1>1, <1>2 DEF SendsHonest, ClosedStaysClosed, LateSends, MutexHeld
<1>. QED BY <1>3, <1>4, <1>5, <1>6, <1>7, <1>8, <1>9 DEF SendsHonest

LEMMA SendRawKeeps == ASSUME ClientInv, NEW t \in Tasks, SendRaw(t) PROVE ClientInv'
<1> USE DEF ClientInv
<1>0. /\ task[t].pc = "raw" /\ holder' = "nobody" /\ task[t].id \in Nat /\ transport \in {"json", "nda"}
      /\ heard' \in {heard, Append(heard, task[t].what)}
      /\ (task'[t].answer \in {"acked", "result"} /\ task'[t].got \in {0, task[t].id})
           => heard' = Append(heard, task[t].what)
      /\ UNCHANGED <<transport, pipes, open, childStdin, stdout, server, closed, next_id>>
  BY DEF SendRaw, Frees, MutexHeld, Shared, ClientShape, Sends
<1>1. CASE Ends(t, "error", 0)
  BY <1>0, <1>1, EndsElsewhere
<1>2. ASSUME NEW got \in {task[t].id, task[t].id + 1},
             Ends(t, IF task[t].id = 0 THEN "acked"
                     ELSE IF Checked /\ got # task[t].id THEN "error" ELSE "result", got)
      PROVE  ClientInv'
  <2> DEFINE a == IF task[t].id = 0 THEN "acked"
                  ELSE IF Checked /\ got # task[t].id THEN "error" ELSE "result"
  <2>1. a \in {"error", "acked", "result"} /\ got \in Nat /\ Ends(t, a, got)
    BY <1>0, <1>2
  <2>2. task'[t].answer = a /\ task'[t].got = got
    <3> HIDE DEF a
    <3>. QED BY <2>1, EndsTask
  <2>3. (a = "result" /\ transport # "nda") => got = task[t].id /\ heard' = Append(heard, task[t].what)
    BY <1>0, <2>2 DEF Checked
  <2> HIDE DEF a
  <2>. QED BY <1>0, <2>1, <2>3, EndsElsewhere
<1>. QED BY <1>1, <1>2 DEF SendRaw

LEMMA PostKeeps == ASSUME ClientInv, NEW t \in Tasks, Post(t) PROVE ClientInv'
<1> USE DEF ClientInv
<1>0. /\ task[t].pc = "post" /\ task[t].id \in Nat
      /\ UNCHANGED <<transport, holder, pipes, open, childStdin, stdout, server, closed, next_id>>
  BY DEF Post, ClientShape, Sends
<1>1. CASE Ends(t, "error", 0) /\ heard' \in {heard, Append(heard, task[t].what)}
  BY <1>0, <1>1, EndsElsewhere
<1>2. CASE Ends(t, "acked", 0) /\ heard' = Append(heard, task[t].what)
  BY <1>0, <1>2, EndsElsewhere
<1>3. CASE Ends(t, "result", task[t].id) /\ heard' = Append(heard, task[t].what)
  BY <1>0, <1>3, EndsElsewhere
<1>. QED BY <1>1, <1>2, <1>3 DEF Post

LEMMA CloseKeeps == ASSUME ClientInv, CloseBegins \/ CloseClient PROVE ClientInv'
<1> USE DEF ClientInv
<1>0. /\ UNCHANGED <<transport, task, holder, open, childStdin, stdout, heard, next_id>>
      /\ closed' \in {"waiting", "yes"} /\ closed # "yes"
      /\ pipes' \in BOOLEAN /\ (pipes' => pipes) /\ server' \in {server, "dead"}
      /\ (closed' = "yes" /\ transport = "stdio") => server' = "dead"
  <2>1. CASE CloseBegins
    BY <2>1, Zenon DEF CloseBegins, serverVars, ClientShape
  <2>2. CASE CloseClient
    <3>1. (pipes /\ ~Shared) \in BOOLEAN
      OBVIOUS
    <3>. QED BY <2>2, <3>1 DEF CloseClient, ClientShape, Shared
  <2>. QED BY <2>1, <2>2
<1>1. ClientShape'
  BY <1>0 DEF ClientShape
<1>2. MutexHeld' /\ PipesTaken' /\ LateSends'
  BY <1>0 DEF MutexHeld, PipesTaken, LateSends, Shared
<1>3. OneUnderWay' /\ Handshake'
  BY <1>0 DEF OneUnderWay, Handshake, HasHeard
<1>4. SendsHonest'
  BY <1>0 DEF SendsHonest, AnswersOwn, ClosedStaysClosed, HandshakeInOrder
<1>. QED BY <1>1, <1>2, <1>3, <1>4

LEMMA HandleKeeps == ASSUME ClientInv, Handle PROVE ClientInv'
<1> USE DEF ClientInv
<1>0. /\ transport = "stdio" /\ server = "up" /\ childStdin # <<>>
      /\ UNCHANGED <<transport, task, holder, pipes, open, closed, next_id>>
  BY DEF Handle
<1>1. CASE server' = "stuck" /\ UNCHANGED <<childStdin, stdout, heard>>
  BY <1>0, <1>1, IdleKeeps
<1>2. ASSUME childStdin' = Tail(childStdin), heard' = Append(heard, Head(childStdin).what),
             IF Head(childStdin).id = 0 THEN UNCHANGED <<stdout, server>>
             ELSE IF open THEN stdout' = Append(stdout, Head(childStdin).id) /\ UNCHANGED server
             ELSE server' = "dead" /\ UNCHANGED stdout
      PROVE  ClientInv'
  <2>1. /\ childStdin \in Seq(Sends) /\ childStdin' \in Seq(Sends) /\ Head(childStdin) \in Sends
        /\ Head(childStdin) = childStdin[1] /\ 1 \in DOMAIN childStdin
        /\ DOMAIN childStdin = 1..Len(childStdin) /\ Len(childStdin) \in Nat
        /\ \A i \in DOMAIN childStdin' : i + 1 \in DOMAIN childStdin /\ childStdin'[i] = childStdin[i + 1] /\ i + 1 # 1
    <3>1. childStdin \in Seq(Sends)
      BY DEF ClientShape
    <3>. QED BY <1>0, <1>2, <3>1
  <2>0. PICK x \in Whats : x = Head(childStdin).what
    BY <2>1 DEF Sends, Whats
  <2>2. heard' \in Seq(Whats) /\ HandshakeInOrder' /\ HasHeard(x)' /\ \A w : HasHeard(w) => HasHeard(w)'
    <3>2. (transport # "nda" /\ x = "initialized") => HasHeard("initialize")
      BY <2>0, <2>1 DEF Handshake
    <3>3. heard' = Append(heard, x) /\ UNCHANGED transport
      BY <1>0, <1>2, <2>0
    <3>. QED BY <3>2, <3>3, HeardAppend DEF SendsHonest
  <2>3. ClientShape'
    <3>1. server' \in {"up", "dead"} /\ stdout' \in Seq(Nat)
      <4>1. Head(childStdin).id \in Nat /\ stdout \in Seq(Nat)
        BY <2>1 DEF Sends, ClientShape
      <4>2. stdout' = stdout \/ stdout' = Append(stdout, Head(childStdin).id)
        BY <1>2
      <4>3. server' = server \/ server' = "dead"
        BY <1>2
      <4>. QED BY <1>0, <4>1, <4>2, <4>3
    <3>. QED BY <1>0, <2>1, <2>2, <3>1 DEF ClientShape, Whats
  <2>4. MutexHeld' /\ PipesTaken' /\ LateSends'
    BY <1>0, <1>2 DEF MutexHeld, PipesTaken, LateSends, Shared
  <2>5. OneUnderWay'
    <3> SUFFICES ASSUME open PROVE OneUnderWay'
      BY <1>0 DEF OneUnderWay
    <3>1. CASE Head(childStdin).id = 0
      <4>1. stdout' = stdout
        BY <1>2, <3>1
      <4>2. stdout # <<>> => \E t \in Tasks : /\ task[t].pc = "read" /\ stdout[1] = task[t].id
                                              /\ HasHeard(task[t].what)'
        BY <1>0, <2>2 DEF OneUnderWay
      <4> HIDE DEF HasHeard
      <4>. QED BY <1>0, <2>1, <4>1, <4>2 DEF OneUnderWay
    <3>2. CASE Head(childStdin).id # 0
      <4>1. PICK t \in Tasks : /\ task[t].pc = "read" /\ childStdin[1].id = task[t].id
                               /\ childStdin[1].what = task[t].what
        BY <1>0, <2>1, <3>2 DEF OneUnderWay
      <4>2. stdout = <<>> /\ \A i \in DOMAIN childStdin' : childStdin'[i].id = 0
        BY <1>0, <2>1, <3>2 DEF OneUnderWay
      <4>3. stdout' = <<task[t].id>>
        BY <1>2, <2>1, <3>2, <4>1, <4>2
      <4>4. HasHeard(task[t].what)'
        BY <1>0, <2>0, <2>1, <2>2, <4>1
      <4>5. Len(stdout') = 1 /\ stdout'[1] = task[t].id
        BY <4>3
      <4> HIDE DEF HasHeard
      <4>. QED BY <1>0, <4>1, <4>2, <4>4, <4>5 DEF OneUnderWay
    <3>. QED BY <3>1, <3>2
  <2>6. Handshake'
    <3>1. HasHeard("initialize") => HasHeard("initialize")'
      BY <2>2
    <3> HIDE DEF HasHeard
    <3>. QED BY <1>0, <2>1, <3>1 DEF Handshake
  <2>7. AnswersOwn' /\ ClosedStaysClosed'
    BY <1>0 DEF SendsHonest, AnswersOwn, ClosedStaysClosed
  <2>. QED BY <2>2, <2>3, <2>4, <2>5, <2>6, <2>7 DEF SendsHonest
<1>. QED BY <1>1, <1>2 DEF Handle

LEMMA ClientStep == ClientInv /\ [ClientNext]_clientVars => ClientInv'
<1> SUFFICES ASSUME ClientInv, [ClientNext]_clientVars PROVE ClientInv'
  OBVIOUS
<1>1. ASSUME NEW t \in Tasks, CallClient(t) PROVE ClientInv'
  BY <1>1, BeginKeeps DEF CallClient
<1>2. ASSUME NEW t \in Tasks, Initialize(t) PROVE ClientInv'
  BY <1>2, BeginKeeps DEF Initialize
<1>3. ASSUME NEW t \in Tasks, Notify(t) PROVE ClientInv'
  <2>1. transport # "nda" => HasHeard("initialize")
    BY <1>3 DEF Notify, ClientInv, Handshake
  <2>. QED BY <1>3, <2>1, BeginKeeps DEF Notify
<1>4. ASSUME NEW t \in Tasks, Initialized(t) PROVE ClientInv'
  BY <1>4, IdleKeeps DEF Initialized, serverVars, ClientInv, ClientShape
<1>5. CASE ServerEof \/ Crash
  BY <1>5, IdleKeeps DEF ServerEof, Crash
<1>6. CASE UNCHANGED clientVars
  BY <1>6, IdleKeeps DEF clientVars, ClientInv, ClientShape
<1>. QED BY <1>1, <1>2, <1>3, <1>4, <1>5, <1>6, LockKeeps, WriteKeeps, ReadKeeps, ReadEofKeeps, SendRawKeeps,
            PostKeeps, CancelKeeps, CloseKeeps, HandleKeeps DEF ClientNext, SendStep, ServerStep

\* For any number of tasks, requests, cancellations and crashes of the server: a
\* result is the answer to its own request wherever the transport can tell, a send
\* begun after close fails, and the server hears initialized only after initialize.
THEOREM SendsHonestHolds == ClientSpec => []SendsHonest
<1>1. ClientInv => SendsHonest
  BY DEF ClientInv
<1>. QED BY <1>1, ClientInitInv, ClientStep, PTL DEF ClientSpec

-----------------------------------------------------------------------------
(* The nested plugin store.  In the file store the holder of the lock is alone  *)
(* between its load and its rename, so what it renames into place is its change *)
(* of what was published; the invariant says so for as long as no lock was lost *)
(* to somebody else.  In the database a request that is tried again has been    *)
(* applied once at most, because a new connection is not a kept one.            *)

Registries == UNION {[names -> Codes] : names \in SUBSET PluginNames}
Section == {"load", "open", "write", "rename", "release"}
FilePlaces == Section \cup {"lock", "stat", "reclaim", "read", "fetch"}
PgPlaces == Statements \cup {"connect"}

Requests ==
    [pc : {"idle"} \cup FilePlaces \cup PgPlaces, op : {"none", "register", "unregister", "call"},
     name : PluginNames \cup {"none"}, code : Codes \cup {"none"}, cur : Registries, inode : Nat,
     waited : Nat, reused : BOOLEAN, applied : Nat, removed : Nat,
     answer : {"none", "ok", "absent", "failed", "timeout"}]

\* A request under way has arguments, and is on its way through the store it is for.
RequestKnown(w) ==
    /\ w.pc # "idle" => w.name \in PluginNames /\ w.code \in Codes
    /\ w.pc \in FilePlaces => store = "file"
    /\ w.pc \in PgPlaces => store # "file"
    /\ w.pc = "write" => w.inode \in DOMAIN inodes

Disk(n) ==
    /\ inodes \in [1..n -> Registries \cup {Torn}]
    /\ paths \in [registry : 0..n, tmp : 0..n]

NestedShape ==
    /\ store \in {"file", "native", "edge"}
    /\ job \in [Instances -> Requests] /\ \A p \in Instances : RequestKnown(job[p])
    /\ lock \in [owner : Instances \cup {"nobody", "gone"}, age : Nat]
    /\ \E n \in Nat : Disk(n)
    /\ pgConn \in [Instances -> BOOLEAN] /\ stray \in BOOLEAN

\* What the registry is to be after the request.
Change(w) == IF w.op = "register" THEN With(ledger, w.name, w.code) ELSE Without(ledger, w.name)

LockHeld ==
    \A p \in Instances : job[p].pc \in Section <=> lock.owner = p

WriterAt(w) ==
    /\ w.pc \in {"open", "write"} => w.cur = Change(w)
    /\ w.pc = "write" => w.inode = paths.tmp /\ inodes[paths.tmp] = Torn
    /\ w.pc = "rename" => paths.tmp # 0 /\ inodes[paths.tmp] = Change(w)

FileExact ==
    (store = "file" /\ ~stray) =>
      /\ LockHeld
      /\ ledger \in Registries /\ Content(paths.registry) = ledger
      /\ paths.registry # 0 => paths.registry # paths.tmp
      /\ \A p \in Instances : WriterAt(job[p])

\* A request to the database, and whether its instance keeps a connection.
PgRequest(w, kept) ==
    /\ w.pc \in Statements => ~kept
    /\ w.op = "register" =>
         /\ w.pc \in {"idle", "connect", "insert", "count"} /\ w.applied <= 2
         /\ w.pc # "idle" => w.answer = "none"
         /\ w.answer = "ok" => w.applied >= 1
         /\ w.pc = "connect" => w.applied <= 1 /\ ~w.reused /\ (w.applied = 1 => ~kept)
         /\ w.pc = "insert" => w.applied <= 1 /\ (w.reused => w.applied = 0)
         /\ w.pc = "count" => w.applied >= 1 /\ (w.reused => w.applied = 1)
    /\ store = "native" => ~kept /\ ~w.reused
    /\ (store = "native" /\ w.op = "unregister") =>
         /\ w.pc \in {"idle", "connect", "delete", "count"}
         /\ w.pc # "idle" => w.answer = "none"
         /\ w.pc \in {"connect", "delete"} \/ w.answer = "absent" => w.removed = 0
         /\ w.pc = "count" \/ w.answer = "ok" => w.removed = 1

PgExact == store # "file" => \A p \in Instances : PgRequest(job[p], pgConn[p])

NestedInv == NestedShape /\ FileExact /\ PgExact

LEMMA EmptyRegistry == Empty \in Registries /\ DOMAIN Empty = {}
<1>1. Empty \in [{} -> Codes] /\ {} \in SUBSET PluginNames
  BY DEF Empty
<1>. QED BY <1>1 DEF Registries, Empty

LEMMA WithRegistry ==
    ASSUME NEW r \in Registries, NEW n \in PluginNames, NEW c \in Codes PROVE With(r, n, c) \in Registries
<1>1. PICK names \in SUBSET PluginNames : r \in [names -> Codes]
  BY DEF Registries
<1>2. With(r, n, c) \in [names \cup {n} -> Codes] /\ names \cup {n} \in SUBSET PluginNames
  BY <1>1 DEF With
<1>. QED BY <1>2 DEF Registries

LEMMA WithoutRegistry == ASSUME NEW r \in Registries, NEW n PROVE Without(r, n) \in Registries
<1>1. PICK names \in SUBSET PluginNames : r \in [names -> Codes]
  BY DEF Registries
<1>2. Without(r, n) \in [names \ {n} -> Codes] /\ names \ {n} \in SUBSET PluginNames
  BY <1>1 DEF Without
<1>. QED BY <1>2 DEF Registries

LEMMA TornIsNone == Torn \notin Registries
BY NestedAssumption DEF Registries

LEMMA IdleRequest ==
    /\ Idle \in Requests /\ Idle.pc = "idle" /\ Idle.op = "none" /\ Idle.answer = "none" /\ ~Idle.reused
    /\ Idle.applied = 0 /\ Idle.removed = 0
BY EmptyRegistry DEF Idle, Requests

\* A request ends: what it asked for and what it did to the database are kept.
LEMMA EndedFields ==
    ASSUME NEW w \in Requests, NEW what \in {"none", "ok", "absent", "failed", "timeout"}
    PROVE  LET e == RequestEnded(w, what)
           IN  /\ e \in Requests /\ e.pc = "idle" /\ e.op = w.op /\ e.answer = what /\ ~e.reused
               /\ e.applied = w.applied /\ e.removed = w.removed
BY EmptyRegistry DEF RequestEnded, Idle, Requests

LEMMA NestedInitInv == NestedInit => NestedInv
<1> SUFFICES ASSUME NestedInit PROVE NestedInv
  OBVIOUS
<1> USE DEF NestedInit
<1>1. Disk(0)
  <2>1. Empty \in [1..0 -> Registries \cup {Torn}]
    BY DEF Empty
  <2>. QED BY <2>1 DEF Disk
<1>2. job \in [Instances -> Requests] /\ \A p \in Instances : RequestKnown(job[p])
  BY IdleRequest DEF RequestKnown, FilePlaces, Section, PgPlaces, Statements
<1>3. NestedShape
  BY <1>1, <1>2, NestedAssumption DEF NestedShape, Free
<1>4. FileExact
  BY EmptyRegistry, IdleRequest, NestedAssumption DEF FileExact, LockHeld, WriterAt, Free, Section, Content
<1>5. PgExact
  BY IdleRequest DEF PgExact, PgRequest, Statements
<1>. QED BY <1>3, <1>4, <1>5 DEF NestedInv

\* An instance is at the next step of its request, or at the end.
LEMMA RequestMoves ==
    ASSUME NestedShape, NEW p \in Instances, NEW w \in Requests, job' = [job EXCEPT ![p] = w]
    PROVE  /\ job' \in [Instances -> Requests] /\ job'[p] = w
           /\ \A q \in Instances : q # p => job'[q] = job[q]
BY DEF NestedShape

\* A step outside of the section leaves the files alone.
LEMMA FileAside ==
    ASSUME NestedInv, NEW p \in Instances, store = "file", NEW w \in Requests, job' = [job EXCEPT ![p] = w],
           RequestKnown(w), w.pc \notin Section, job[p].pc \notin Section,
           UNCHANGED <<store, lock, paths, inodes, pgConn, ledger, stray>>
    PROVE  NestedInv'
<1>1. /\ job' \in [Instances -> Requests] /\ job'[p] = w
      /\ \A q \in Instances : q # p => job'[q] = job[q]
  BY RequestMoves DEF NestedInv
<1>2. NestedShape'
  BY <1>1 DEF NestedInv, NestedShape, RequestKnown, Disk
<1>3. FileExact'
  <2> SUFFICES ASSUME ~stray PROVE FileExact'
    BY DEF FileExact
  <2>1. LockHeld'
    BY <1>1 DEF NestedInv, FileExact, LockHeld
  <2>2. \A q \in Instances : WriterAt(job[q])'
    BY <1>1 DEF NestedInv, FileExact, WriterAt, Change, Section
  <2>. QED BY <2>1, <2>2 DEF NestedInv, FileExact, Content
<1>4. PgExact'
  BY DEF PgExact
<1>. QED BY <1>2, <1>3, <1>4 DEF NestedInv

LEMMA FileBeginKeeps ==
    ASSUME NestedInv, NEW p \in Instances, store = "file",
           \/ Begin(p) \/ (TryLock(p) /\ lock.owner # "nobody") \/ StatLock(p) \/ ReadPlugin(p) \/ RunPlugin(p)
    PROVE  NestedInv'
<1>0. /\ job[p] \in Requests /\ RequestKnown(job[p]) /\ job[p].pc \notin Section
      /\ UNCHANGED <<store, lock, paths, inodes, pgConn, ledger, stray>>
  BY DEF Begin, TryLock, StatLock, ReadPlugin, RunPlugin, fileVars, pgVars, NestedInv, NestedShape, Section
<1>1. ASSUME NEW w \in Requests, job' = [job EXCEPT ![p] = w], w.name = job[p].name, w.code = job[p].code,
             job[p].pc # "idle", w.pc \in {"stat", "reclaim", "lock", "fetch"} PROVE NestedInv'
  <2>1. RequestKnown(w)
    BY <1>0, <1>1 DEF RequestKnown, FilePlaces, PgPlaces, Section, Statements
  <2>. QED BY <1>0, <1>1, <2>1, FileAside DEF Section
<1>2. ASSUME NEW pc \in {"stat", "reclaim", "lock", "fetch"}, Goto(p, pc), job[p].pc # "idle" PROVE NestedInv'
  <2> DEFINE w == [job[p] EXCEPT !.pc = pc]
  <2>1. job' = [job EXCEPT ![p] = w]
    BY <1>2 DEF Goto, NestedInv, NestedShape
  <2>2. w \in Requests /\ w.pc = pc /\ w.name = job[p].name /\ w.code = job[p].code
    BY <1>0 DEF Requests, FilePlaces
  <2> HIDE DEF w
  <2>. QED BY <1>1, <1>2, <2>1, <2>2
<1>3. ASSUME NEW what \in {"none", "ok", "absent", "failed", "timeout"}, Answered(p, what) PROVE NestedInv'
  <2> DEFINE w == RequestEnded(job[p], what)
  <2>1. job' = [job EXCEPT ![p] = w]
    BY <1>3 DEF Answered, NestedInv, NestedShape
  <2>2. w \in Requests /\ w.pc = "idle"
    BY <1>0, EndedFields
  <2> HIDE DEF w
  <2>3. RequestKnown(w)
    BY <2>2 DEF RequestKnown, FilePlaces, PgPlaces, Section, Statements
  <2>. QED BY <1>0, <2>1, <2>2, <2>3, FileAside DEF Section
<1>4. CASE Begin(p)
  <2>1. PICK op \in {"register", "unregister", "call"}, n \in PluginNames, c \in Codes :
          job' = [job EXCEPT ![p] = [Idle EXCEPT !.op = op, !.name = n, !.code = c,
                    !.pc = IF op = "call" THEN "read" ELSE "lock"]]
    BY <1>4 DEF Begin
  <2> DEFINE w == [Idle EXCEPT !.op = op, !.name = n, !.code = c, !.pc = IF op = "call" THEN "read" ELSE "lock"]
  <2>2. w \in Requests /\ w.pc \in {"read", "lock"} /\ w.name = n /\ w.code = c
    BY IdleRequest DEF Requests, FilePlaces
  <2> HIDE DEF w
  <2>3. RequestKnown(w)
    BY <2>2 DEF RequestKnown, FilePlaces, PgPlaces, Section, Statements
  <2>. QED BY <1>0, <2>1, <2>2, <2>3, FileAside DEF Section, w
<1>5. CASE TryLock(p) /\ lock.owner # "nobody"
  BY <1>2, <1>5 DEF TryLock
<1>6. CASE StatLock(p)
  BY <1>2, <1>3, <1>6 DEF StatLock
<1>7. CASE ReadPlugin(p) \/ RunPlugin(p)
  BY <1>2, <1>3, <1>7 DEF ReadPlugin, RunPlugin
<1>. QED BY <1>4, <1>5, <1>6, <1>7

\* The lock is taken when it is free.
LEMMA TryLockKeeps ==
    ASSUME NestedInv, NEW p \in Instances, TryLock(p), lock.owner = "nobody" PROVE NestedInv'
<1> DEFINE w == [job[p] EXCEPT !.pc = "load"]
<1>0. /\ job[p] \in Requests /\ RequestKnown(job[p]) /\ job[p].pc = "lock" /\ store = "file"
      /\ lock' = [owner |-> p, age |-> 0] /\ job' = [job EXCEPT ![p] = w]
      /\ UNCHANGED <<store, paths, inodes, pgConn, ledger, stray>>
  BY DEF TryLock, Goto, pgVars, NestedInv, NestedShape, RequestKnown, FilePlaces
<1>1. w \in Requests /\ w.pc = "load" /\ w.name = job[p].name /\ w.code = job[p].code
  BY <1>0 DEF Requests, FilePlaces, Section
<1> HIDE DEF w
<1>2. /\ job' \in [Instances -> Requests] /\ job'[p] = w
      /\ \A q \in Instances : q # p => job'[q] = job[q]
  BY <1>0, <1>1, RequestMoves DEF NestedInv
<1>3. NestedShape'
  BY <1>0, <1>1, <1>2 DEF NestedInv, NestedShape, RequestKnown, Disk, PgPlaces, Statements
<1>4. FileExact'
  <2> SUFFICES ASSUME ~stray PROVE FileExact'
    BY <1>0 DEF FileExact
  <2>1. LockHeld'
    BY <1>0, <1>1, <1>2, NestedAssumption DEF NestedInv, FileExact, LockHeld, Section
  <2>2. \A q \in Instances : WriterAt(job[q])'
    BY <1>0, <1>1, <1>2 DEF NestedInv, FileExact, WriterAt, Change
  <2>. QED BY <1>0, <2>1, <2>2 DEF NestedInv, FileExact, Content
<1>5. PgExact'
  BY <1>0 DEF PgExact
<1>. QED BY <1>3, <1>4, <1>5 DEF NestedInv

\* A lock is removed under somebody at work, or it was nobody's.
LEMMA ReclaimKeeps == ASSUME NestedInv, NEW p \in Instances, Reclaim(p) PROVE NestedInv'
<1> DEFINE w == [job[p] EXCEPT !.pc = "lock"]
<1>0. /\ job[p] \in Requests /\ RequestKnown(job[p]) /\ job[p].pc = "reclaim" /\ store = "file"
      /\ lock' = Free /\ job' = [job EXCEPT ![p] = w]
      /\ stray' = (stray \/ (lock.owner \in Instances /\ job[lock.owner].pc # "idle"))
      /\ UNCHANGED <<store, paths, inodes, pgConn, ledger>>
  BY DEF Reclaim, Goto, pgVars, NestedInv, NestedShape, RequestKnown, FilePlaces
<1>1. w \in Requests /\ w.pc = "lock" /\ w.name = job[p].name /\ w.code = job[p].code
  BY <1>0 DEF Requests, FilePlaces
<1> HIDE DEF w
<1>2. /\ job' \in [Instances -> Requests] /\ job'[p] = w
      /\ \A q \in Instances : q # p => job'[q] = job[q]
  BY <1>0, <1>1, RequestMoves DEF NestedInv
<1>3. NestedShape'
  <2>1. stray' \in BOOLEAN
    BY <1>0, Zenon
  <2>2. lock' \in [owner : Instances \cup {"nobody", "gone"}, age : Nat]
    BY <1>0 DEF Free
  <2>. QED BY <1>0, <1>1, <1>2, <2>1, <2>2 DEF NestedInv, NestedShape, RequestKnown, Disk, PgPlaces, Statements
<1>4. FileExact'
  <2> SUFFICES ASSUME ~stray' PROVE FileExact'
    BY DEF FileExact
  <2>0. ~stray /\ ~(lock.owner \in Instances /\ job[lock.owner].pc # "idle")
    BY <1>0, Zenon
  <2>1. \A q \in Instances : job[q].pc \notin Section
    BY <1>0, <2>0 DEF NestedInv, FileExact, LockHeld, Section
  <2>2. LockHeld'
    BY <1>0, <1>1, <1>2, <2>1, NestedAssumption DEF LockHeld, Section, Free
  <2>3. \A q \in Instances : WriterAt(job[q])'
    BY <1>1, <1>2, <2>1 DEF WriterAt, Section
  <2>. QED BY <1>0, <2>0, <2>2, <2>3 DEF NestedInv, FileExact, Content
<1>5. PgExact'
  BY <1>0 DEF PgExact
<1>. QED BY <1>3, <1>4, <1>5 DEF NestedInv

\* What a reader of the registry gets.
LEMMA LoadIsRegistry == ASSUME NestedShape PROVE LoadRegistry \in Registries
BY EmptyRegistry DEF NestedShape, Disk, LoadRegistry, Content

LEMMA LoadIsLedger == ASSUME NestedInv, store = "file", ~stray PROVE LoadRegistry = ledger
BY TornIsNone DEF NestedInv, FileExact, LoadRegistry

\* A step within the section that keeps the lock.
LEMMA SectionKeeps ==
    ASSUME NestedInv, NEW p \in Instances, store = "file", job[p].pc \in Section,
           NEW w \in Requests, job' = [job EXCEPT ![p] = w], w.pc \in Section,
           w.name = job[p].name, w.code = job[p].code, w.pc = "write" => w.inode \in DOMAIN inodes',
           DOMAIN inodes \subseteq DOMAIN inodes', \E n \in Nat : Disk(n)',
           UNCHANGED <<store, lock, pgConn, stray>>,
           (~stray /\ lock.owner = p) =>
             /\ WriterAt(w)' /\ Content(paths.registry)' = ledger' /\ ledger' \in Registries
             /\ paths'.registry # 0 => paths'.registry # paths'.tmp
    PROVE  NestedInv'
<1>1. /\ job' \in [Instances -> Requests] /\ job'[p] = w
      /\ \A q \in Instances : q # p => job'[q] = job[q]
  BY RequestMoves DEF NestedInv
<1>2. NestedShape'
  <2>1. ASSUME NEW q \in Instances PROVE RequestKnown(job[q])'
    <3>1. RequestKnown(job[q]) /\ RequestKnown(job[p]) /\ job[p].pc # "idle"
      BY DEF NestedInv, NestedShape, Section
    <3>2. CASE q = p
      BY <1>1, <3>1, <3>2 DEF RequestKnown, PgPlaces, Statements, Section
    <3>3. CASE q # p
      BY <1>1, <3>1, <3>3 DEF RequestKnown
    <3>. QED BY <3>2, <3>3
  <2>. QED BY <1>1, <2>1 DEF NestedInv, NestedShape
<1>3. FileExact'
  <2> SUFFICES ASSUME ~stray PROVE FileExact'
    BY DEF FileExact
  <2>1. lock.owner = p /\ \A q \in Instances : q # p => job[q].pc \notin Section
    BY DEF NestedInv, FileExact, LockHeld
  <2>2. LockHeld'
    BY <1>1, <2>1 DEF LockHeld
  <2>3. WriterAt(w)' /\ \A q \in Instances : q # p => WriterAt(job[q])'
    BY <1>1, <2>1 DEF WriterAt, Section
  <2>4. \A q \in Instances : WriterAt(job[q])'
    BY <1>1, <2>3 DEF WriterAt, Change
  <2>. QED BY <2>1, <2>2, <2>4 DEF FileExact
<1>4. PgExact'
  BY DEF PgExact
<1>. QED BY <1>2, <1>3, <1>4 DEF NestedInv

LEMMA LoadKeeps == ASSUME NestedInv, NEW p \in Instances, Load(p) PROVE NestedInv'
<1>0. /\ job[p] \in Requests /\ RequestKnown(job[p]) /\ job[p].pc = "load" /\ store = "file"
      /\ job[p].name \in PluginNames /\ job[p].code \in Codes
      /\ UNCHANGED <<store, lock, paths, inodes, pgConn, ledger, stray>>
  BY DEF Load, fileVars, pgVars, NestedInv, NestedShape, RequestKnown, FilePlaces, Section
<1>1. ~stray => LoadRegistry = ledger /\ ledger \in Registries /\ Content(paths.registry) = ledger
                /\ (paths.registry # 0 => paths.registry # paths.tmp)
  BY <1>0, LoadIsLedger DEF NestedInv, FileExact
<1>2. ASSUME NEW cur \in Registries, job' = [job EXCEPT ![p].cur = cur, ![p].pc = "open"],
             ~stray => cur = Change(job[p])
      PROVE  NestedInv'
  <2> DEFINE w == [job[p] EXCEPT !.cur = cur, !.pc = "open"]
  <2>1. job' = [job EXCEPT ![p] = w]
    BY <1>2 DEF NestedInv, NestedShape
  <2>2. /\ w \in Requests /\ w.pc = "open" /\ w.name = job[p].name /\ w.code = job[p].code
        /\ w.op = job[p].op /\ w.cur = cur
    BY <1>0 DEF Requests, FilePlaces, Section
  <2> HIDE DEF w
  <2>3. PICK v \in Requests : v = w
    BY <2>2
  <2>4. ~stray => WriterAt(v)'
    BY <1>0, <1>2, <2>2, <2>3 DEF WriterAt, Change
  <2>5. \E n \in Nat : Disk(n)'
    BY <1>0 DEF NestedInv, NestedShape, Disk
  <2>6. Content(paths.registry)' = Content(paths.registry)
    BY <1>0 DEF Content
  <2>. QED BY <1>0, <1>1, <2>1, <2>2, <2>3, <2>4, <2>5, <2>6, SectionKeeps DEF Section
<1>3. CASE job[p].op = "register"
  <2>1. With(LoadRegistry, job[p].name, job[p].code) \in Registries
    BY <1>0, LoadIsRegistry, WithRegistry DEF NestedInv
  <2>2. job' = [job EXCEPT ![p].cur = With(LoadRegistry, job[p].name, job[p].code), ![p].pc = "open"]
    BY <1>3 DEF Load
  <2>3. ~stray => With(LoadRegistry, job[p].name, job[p].code) = Change(job[p])
    BY <1>1, <1>3 DEF Change
  <2>. QED BY <1>2, <2>1, <2>2, <2>3
<1>4. CASE job[p].op # "register" /\ job[p].name \in DOMAIN LoadRegistry
  <2>1. Without(LoadRegistry, job[p].name) \in Registries
    BY <1>0, LoadIsRegistry, WithoutRegistry DEF NestedInv
  <2>2. job' = [job EXCEPT ![p].cur = Without(LoadRegistry, job[p].name), ![p].pc = "open"]
    BY <1>4 DEF Load
  <2>3. ~stray => Without(LoadRegistry, job[p].name) = Change(job[p])
    BY <1>1, <1>4 DEF Change
  <2>. QED BY <1>2, <2>1, <2>2, <2>3
<1>5. CASE job' = [job EXCEPT ![p].pc = "release", ![p].answer = "absent"]
  <2> DEFINE w == [job[p] EXCEPT !.pc = "release", !.answer = "absent"]
  <2>1. job' = [job EXCEPT ![p] = w]
    BY <1>5 DEF NestedInv, NestedShape
  <2>2. w \in Requests /\ w.pc = "release" /\ w.name = job[p].name /\ w.code = job[p].code
    BY <1>0 DEF Requests, FilePlaces, Section
  <2> HIDE DEF w
  <2>3. PICK v \in Requests : v = w
    BY <2>2
  <2>4. WriterAt(v)'
    BY <2>2, <2>3 DEF WriterAt
  <2>5. \E n \in Nat : Disk(n)'
    BY <1>0 DEF NestedInv, NestedShape, Disk
  <2>6. Content(paths.registry)' = Content(paths.registry)
    BY <1>0 DEF Content
  <2>. QED BY <1>0, <1>1, <2>1, <2>2, <2>3, <2>4, <2>5, <2>6, SectionKeeps DEF Section
<1>. QED BY <1>3, <1>4, <1>5 DEF Load

\* The temporary file is new, or has the name already; it is never the registry.
LEMMA OpenKeeps == ASSUME NestedInv, NEW p \in Instances, OpenTmp(p) PROVE NestedInv'
<1>0. /\ job[p] \in Requests /\ RequestKnown(job[p]) /\ job[p].pc = "open" /\ store = "file"
      /\ UNCHANGED <<store, lock, pgConn, ledger, stray>>
  BY DEF OpenTmp, pgVars, NestedInv, NestedShape, RequestKnown, FilePlaces, Section
<1>1. PICK n \in Nat : Disk(n)
  BY DEF NestedInv, NestedShape
<1>2. Cardinality(DOMAIN inodes) = n /\ DOMAIN inodes = 1..n
  <2>1. DOMAIN inodes = 1..n
    BY <1>1 DEF Disk
  <2>2. Cardinality(1..n) = n
    BY <1>1, FS_Interval
  <2>. QED BY <2>1, <2>2
<1>3. PICK i \in Nat : i = IF paths.tmp = 0 THEN n + 1 ELSE paths.tmp
  BY <1>1 DEF Disk
<1>4. /\ inodes' = With(inodes, i, Torn) /\ paths' = [paths EXCEPT !.tmp = i]
      /\ job' = [job EXCEPT ![p].inode = i, ![p].pc = "write"]
  BY <1>2, <1>3 DEF OpenTmp
<1>5. PICK m \in Nat : /\ m = IF paths.tmp = 0 THEN n + 1 ELSE n
                       /\ 1..m = 1..n \cup {i} /\ i \in 1..m /\ 0..n \subseteq 0..m
  BY <1>1, <1>3 DEF Disk
<1>6. /\ inodes' \in [1..m -> Registries \cup {Torn}] /\ inodes'[i] = Torn
      /\ \A k \in 1..n : k # i => inodes'[k] = inodes[k]
  BY <1>1, <1>2, <1>4, <1>5 DEF Disk, With
<1>7. /\ paths' \in [registry : 0..m, tmp : 0..m] /\ paths'.tmp = i /\ paths'.registry = paths.registry
  BY <1>1, <1>4, <1>5 DEF Disk
<1>8. Disk(m)'
  BY <1>6, <1>7 DEF Disk
<1> DEFINE w == [job[p] EXCEPT !.inode = i, !.pc = "write"]
<1>9. job' = [job EXCEPT ![p] = w]
  BY <1>4 DEF NestedInv, NestedShape
<1>10. /\ w \in Requests /\ w.pc = "write" /\ w.name = job[p].name /\ w.code = job[p].code
       /\ w.op = job[p].op /\ w.cur = job[p].cur /\ w.inode = i
  BY <1>0 DEF Requests, FilePlaces, Section
<1> HIDE DEF w
<1>11. PICK v \in Requests : v = w
  BY <1>10
<1>12. ASSUME ~stray
       PROVE  /\ WriterAt(v)' /\ Content(paths.registry)' = ledger' /\ ledger' \in Registries
              /\ paths'.registry # 0 => paths'.registry # paths'.tmp
  <2>1. /\ job[p].cur = Change(job[p]) /\ ledger \in Registries /\ Content(paths.registry) = ledger
        /\ paths.registry # 0 => paths.registry # paths.tmp
    BY <1>0, <1>12 DEF NestedInv, FileExact, WriterAt
  <2>2. WriterAt(v)'
    BY <1>0, <1>6, <1>7, <1>10, <1>11, <2>1 DEF WriterAt, Change
  <2>3. paths.registry \in 0..n
    BY <1>1 DEF Disk
  <2>4. paths.registry # 0 => paths.registry # i
    BY <1>1, <1>3, <2>1, <2>3
  <2>5. Content(paths.registry)' = ledger
    BY <1>6, <1>7, <2>1, <2>3, <2>4 DEF Content
  <2>. QED BY <1>0, <1>7, <2>1, <2>2, <2>4, <2>5
<1>13. DOMAIN inodes' = 1..m /\ DOMAIN inodes \subseteq 1..m
  BY <1>2, <1>5, <1>6
<1>. QED BY <1>0, <1>5, <1>8, <1>9, <1>10, <1>11, <1>12, <1>13, SectionKeeps DEF Section

LEMMA WriteTmpKeeps == ASSUME NestedInv, NEW p \in Instances, WriteTmp(p) PROVE NestedInv'
<1>0. /\ job[p] \in Requests /\ RequestKnown(job[p]) /\ job[p].pc = "write" /\ store = "file"
      /\ UNCHANGED <<store, lock, paths, pgConn, ledger, stray>>
  BY DEF WriteTmp, pgVars, NestedInv, NestedShape, RequestKnown, FilePlaces, Section
<1>1. PICK n \in Nat : Disk(n)
  BY DEF NestedInv, NestedShape
<1>2. PICK i \in 1..n : i = job[p].inode
  BY <1>0, <1>1 DEF RequestKnown, Disk
<1>3. PICK body \in Registries \cup {Torn} :
        /\ inodes' = [inodes EXCEPT ![i] = body]
        /\ inodes[i] = Torn => body = job[p].cur
  BY <1>0, <1>2 DEF WriteTmp, Requests
<1>4. /\ inodes' \in [1..n -> Registries \cup {Torn}] /\ inodes'[i] = body
      /\ \A k \in 1..n : k # i => inodes'[k] = inodes[k]
  BY <1>1, <1>3 DEF Disk
<1>5. Disk(n)' /\ DOMAIN inodes' = DOMAIN inodes
  BY <1>0, <1>1, <1>4 DEF Disk
<1> DEFINE w == [job[p] EXCEPT !.pc = "rename", !.inode = 0, !.cur = Empty]
<1>6. job' = [job EXCEPT ![p] = w]
  BY DEF WriteTmp, NestedInv, NestedShape
<1>7. w \in Requests /\ w.pc = "rename" /\ w.name = job[p].name /\ w.code = job[p].code /\ w.op = job[p].op
  BY <1>0, EmptyRegistry DEF Requests, FilePlaces, Section
<1> HIDE DEF w
<1>8. PICK v \in Requests : v = w
  BY <1>7
<1>9. ASSUME ~stray
      PROVE  /\ WriterAt(v)' /\ Content(paths.registry)' = ledger' /\ ledger' \in Registries
             /\ paths'.registry # 0 => paths'.registry # paths'.tmp
  <2>1. /\ job[p].cur = Change(job[p]) /\ ledger \in Registries /\ Content(paths.registry) = ledger
        /\ paths.registry # 0 => paths.registry # paths.tmp
        /\ i = paths.tmp /\ inodes[i] = Torn
    BY <1>0, <1>2, <1>9 DEF NestedInv, FileExact, WriterAt
  <2>2. paths.registry \in 0..n /\ i # 0
    BY <1>1 DEF Disk
  <2>3. WriterAt(v)'
    BY <1>0, <1>3, <1>4, <1>7, <1>8, <2>1, <2>2 DEF WriterAt, Change
  <2>4. Content(paths.registry)' = ledger
    BY <1>0, <1>4, <2>1, <2>2 DEF Content
  <2>. QED BY <1>0, <2>1, <2>3, <2>4
<1>. QED BY <1>0, <1>5, <1>6, <1>7, <1>8, <1>9, SectionKeeps DEF Section

LEMMA RenameKeeps == ASSUME NestedInv, NEW p \in Instances, Rename(p) PROVE NestedInv'
<1>0. /\ job[p] \in Requests /\ RequestKnown(job[p]) /\ job[p].pc = "rename" /\ store = "file"
      /\ job[p].name \in PluginNames /\ job[p].code \in Codes
      /\ UNCHANGED <<store, lock, pgConn, stray>>
  BY DEF Rename, pgVars, NestedInv, NestedShape, RequestKnown, FilePlaces, Section
<1>1. PICK n \in Nat : Disk(n)
  BY DEF NestedInv, NestedShape
<1>2. PICK what \in {"failed", "ok"} : job' = [job EXCEPT ![p].pc = "release", ![p].answer = what]
  BY DEF Rename
<1> DEFINE w == [job[p] EXCEPT !.pc = "release", !.answer = what]
<1>3. job' = [job EXCEPT ![p] = w]
  BY <1>2 DEF NestedInv, NestedShape
<1>4. w \in Requests /\ w.pc = "release" /\ w.name = job[p].name /\ w.code = job[p].code
  BY <1>0 DEF Requests, FilePlaces, Section
<1> HIDE DEF w
<1>5. PICK v \in Requests : v = w
  BY <1>4
<1>6. WriterAt(v)'
  BY <1>4, <1>5 DEF WriterAt
<1>7. CASE paths.tmp = 0
  <2>1. UNCHANGED <<paths, inodes, ledger>>
    BY <1>7 DEF Rename
  <2>2. Disk(n)' /\ DOMAIN inodes' = DOMAIN inodes
    BY <1>1, <2>1 DEF Disk
  <2>3. ~stray => /\ Content(paths.registry)' = ledger' /\ ledger' \in Registries
                  /\ paths'.registry # 0 => paths'.registry # paths'.tmp
    BY <1>0, <2>1 DEF NestedInv, FileExact, Content
  <2>. QED BY <1>0, <1>3, <1>4, <1>5, <1>6, <2>2, <2>3, SectionKeeps DEF Section
<1>8. CASE paths.tmp # 0
  <2>1. /\ paths' = [registry |-> paths.tmp, tmp |-> 0] /\ ledger' = Change(job[p])
        /\ inodes' = IF paths.registry = 0 THEN inodes ELSE [inodes EXCEPT ![paths.registry] = Empty]
    BY <1>8 DEF Rename, Change
  <2>2. paths.registry \in 0..n /\ paths.tmp \in 1..n
    BY <1>1, <1>8 DEF Disk
  <2>3. /\ inodes' \in [1..n -> Registries \cup {Torn}]
        /\ \A k \in 1..n : k # paths.registry => inodes'[k] = inodes[k]
    BY <1>1, <2>1, <2>2, EmptyRegistry DEF Disk
  <2>4. Disk(n)' /\ DOMAIN inodes' = DOMAIN inodes
    BY <1>1, <2>1, <2>2, <2>3 DEF Disk
  <2>5. ASSUME ~stray
        PROVE  /\ Content(paths.registry)' = ledger' /\ ledger' \in Registries
               /\ paths'.registry # 0 => paths'.registry # paths'.tmp
    <3>1. /\ inodes[paths.tmp] = Change(job[p]) /\ paths.registry # paths.tmp /\ ledger \in Registries
      BY <1>0, <1>8, <2>5 DEF NestedInv, FileExact, WriterAt
    <3>2. Change(job[p]) \in Registries
      BY <1>0, <3>1, WithRegistry, WithoutRegistry DEF Change
    <3>3. Content(paths.registry)' = inodes'[paths.tmp]
      BY <1>8, <2>1 DEF Content
    <3>. QED BY <2>1, <2>2, <2>3, <3>1, <3>2, <3>3
  <2>. QED BY <1>0, <1>3, <1>4, <1>5, <1>6, <2>4, <2>5, SectionKeeps DEF Section
<1>. QED BY <1>7, <1>8

\* The lock that is removed at the end is the instance's own, or somebody lost it.
LEMMA ReleaseKeeps == ASSUME NestedInv, NEW p \in Instances, Release(p) PROVE NestedInv'
<1> DEFINE w == RequestEnded(job[p], job[p].answer)
<1>0. /\ job[p] \in Requests /\ RequestKnown(job[p]) /\ job[p].pc = "release" /\ store = "file"
      /\ lock' = Free /\ job' = [job EXCEPT ![p] = w]
      /\ stray' = (stray \/ (lock.owner \in Instances \ {p} /\ job[lock.owner].pc # "idle"))
      /\ UNCHANGED <<store, paths, inodes, pgConn, ledger>>
  BY DEF Release, Answered, pgVars, NestedInv, NestedShape, RequestKnown, FilePlaces, Section
<1>1. w \in Requests /\ w.pc = "idle"
  <2>1. job[p].answer \in {"none", "ok", "absent", "failed", "timeout"}
    BY <1>0 DEF Requests
  <2>. QED BY <1>0, <2>1, EndedFields
<1> HIDE DEF w
<1>2. /\ job' \in [Instances -> Requests] /\ job'[p] = w
      /\ \A q \in Instances : q # p => job'[q] = job[q]
  BY <1>0, <1>1, RequestMoves DEF NestedInv
<1>3. NestedShape'
  <2>1. stray' \in BOOLEAN
    BY <1>0, Zenon
  <2>2. lock' \in [owner : Instances \cup {"nobody", "gone"}, age : Nat]
    BY <1>0 DEF Free
  <2>. QED BY <1>0, <1>1, <1>2, <2>1, <2>2
         DEF NestedInv, NestedShape, RequestKnown, Disk, FilePlaces, PgPlaces, Section, Statements
<1>4. FileExact'
  <2> SUFFICES ASSUME ~stray' PROVE FileExact'
    BY DEF FileExact
  <2>0. ~stray /\ ~(lock.owner \in Instances \ {p} /\ job[lock.owner].pc # "idle")
    BY <1>0, Zenon
  <2>1. \A q \in Instances : q # p => job[q].pc \notin Section
    BY <1>0, <2>0 DEF NestedInv, FileExact, LockHeld, Section
  <2>2. LockHeld'
    BY <1>0, <1>1, <1>2, <2>1, NestedAssumption DEF LockHeld, Section, Free
  <2>3. \A q \in Instances : WriterAt(job[q])'
    BY <1>1, <1>2, <2>1 DEF WriterAt, Section
  <2>. QED BY <1>0, <2>0, <2>2, <2>3 DEF NestedInv, FileExact, Content
<1>5. PgExact'
  BY <1>0 DEF PgExact
<1>. QED BY <1>3, <1>4, <1>5 DEF NestedInv

\* A crash leaves the lock and the files behind; the half-written file is under the other name.
LEMMA RestartKeeps == ASSUME NestedInv, NEW p \in Instances, Restart(p) PROVE NestedInv'
<1>0. /\ lock' = IF lock.owner = p THEN [lock EXCEPT !.owner = "gone"] ELSE lock
      /\ pgConn' = [pgConn EXCEPT ![p] = FALSE] /\ job' = [job EXCEPT ![p] = Idle]
      /\ UNCHANGED <<store, paths, inodes, ledger, stray>>
  BY DEF Restart
<1>1. /\ job' \in [Instances -> Requests] /\ job'[p] = Idle
      /\ \A q \in Instances : q # p => job'[q] = job[q]
  BY <1>0, IdleRequest, RequestMoves DEF NestedInv
<1>2. NestedShape'
  <2>1. lock' \in [owner : Instances \cup {"nobody", "gone"}, age : Nat]
    BY <1>0 DEF NestedInv, NestedShape
  <2>2. pgConn' \in [Instances -> BOOLEAN]
    BY <1>0 DEF NestedInv, NestedShape
  <2>3. \A q \in Instances : RequestKnown(job[q])'
    BY <1>0, <1>1, IdleRequest
    DEF NestedInv, NestedShape, RequestKnown, FilePlaces, PgPlaces, Section, Statements
  <2>. QED BY <1>0, <1>1, <2>1, <2>2, <2>3 DEF NestedInv, NestedShape, Disk
<1>3. FileExact'
  <2> SUFFICES ASSUME store = "file", ~stray PROVE FileExact'
    BY <1>0 DEF FileExact
  <2>1. LockHeld
    BY DEF NestedInv, FileExact
  <2>2. lock'.owner = IF lock.owner = p THEN "gone" ELSE lock.owner
    BY <1>0 DEF NestedInv, NestedShape
  <2>3. LockHeld'
    BY <1>1, <2>1, <2>2, IdleRequest, NestedAssumption DEF LockHeld, Section
  <2>4. \A q \in Instances : WriterAt(job[q])'
    BY <1>0, <1>1, IdleRequest DEF NestedInv, FileExact, WriterAt, Change
  <2>. QED BY <1>0, <2>3, <2>4 DEF NestedInv, FileExact, Content
<1>4. PgExact'
  <2> SUFFICES ASSUME store # "file" PROVE PgExact'
    BY <1>0 DEF PgExact
  <2>1. pgConn'[p] = FALSE /\ \A q \in Instances : q # p => pgConn'[q] = pgConn[q]
    BY <1>0 DEF NestedInv, NestedShape
  <2>2. ASSUME NEW q \in Instances PROVE PgRequest(job[q], pgConn[q])'
    <3>1. CASE q # p
      BY <1>0, <1>1, <2>1, <3>1 DEF NestedInv, PgExact, PgRequest
    <3>2. CASE q = p
      BY <1>0, <1>1, <2>1, <3>2, IdleRequest DEF PgRequest, Statements
    <3>. QED BY <3>1, <3>2
  <2>. QED BY <2>2 DEF PgExact
<1>. QED BY <1>2, <1>3, <1>4 DEF NestedInv

\* Time passes: whoever holds the lock by now has lost it, or nobody does.
LEMMA PassKeeps == ASSUME NestedInv, Pass PROVE NestedInv'
<1>0. /\ store = "file" /\ stray' = (stray \/ lock.owner \in Instances)
      /\ lock' = IF lock.owner = "nobody" \/ lock.age > 0 THEN lock ELSE [lock EXCEPT !.age = 1]
      /\ UNCHANGED <<store, paths, inodes, pgConn, ledger>>
  BY DEF Pass, pgVars
<1>1. ASSUME NEW q \in Instances
      PROVE  /\ job'[q] \in Requests /\ job'[q].pc = job[q].pc /\ job'[q].name = job[q].name
             /\ job'[q].code = job[q].code /\ job'[q].inode = job[q].inode
  <2>1. job[q] \in Requests
    BY DEF NestedInv, NestedShape
  <2>2. job'[q] = job[q] \/ job'[q] = [job[q] EXCEPT !.waited = @ + 1]
    BY DEF Pass
  <2>. QED BY <2>1, <2>2 DEF Requests
<1>2. job' \in [Instances -> Requests]
  BY <1>1 DEF Pass
<1>3. lock' \in [owner : Instances \cup {"nobody", "gone"}, age : Nat] /\ lock'.owner = lock.owner
  BY <1>0 DEF NestedInv, NestedShape
<1>4. NestedShape'
  <2>1. stray' \in BOOLEAN
    BY <1>0, Zenon
  <2>2. \A q \in Instances : RequestKnown(job[q])'
    BY <1>0, <1>1 DEF NestedInv, NestedShape, RequestKnown
  <2>. QED BY <1>0, <1>2, <1>3, <2>1, <2>2 DEF NestedInv, NestedShape, Disk
<1>5. FileExact'
  <2> SUFFICES ASSUME ~stray' PROVE FileExact'
    BY DEF FileExact
  <2>0. ~stray /\ lock.owner \notin Instances
    BY <1>0, Zenon
  <2>1. \A q \in Instances : job[q].pc \notin Section
    BY <1>0, <2>0 DEF NestedInv, FileExact, LockHeld
  <2>2. LockHeld'
    BY <1>1, <1>3, <2>0, <2>1 DEF LockHeld
  <2>3. \A q \in Instances : WriterAt(job[q])'
    BY <1>1, <2>1 DEF WriterAt, Section
  <2>. QED BY <1>0, <2>0, <2>2, <2>3 DEF NestedInv, FileExact, Content
<1>6. PgExact'
  BY <1>0 DEF PgExact
<1>. QED BY <1>4, <1>5, <1>6 DEF NestedInv

\* A step of a request to the database.
LEMMA PgMoves ==
    ASSUME NestedInv, NEW p \in Instances, store # "file", NEW w \in Requests, NEW kept \in BOOLEAN,
           job' = [job EXCEPT ![p] = w], pgConn' = [pgConn EXCEPT ![p] = kept],
           RequestKnown(w), PgRequest(w, kept), UNCHANGED <<store, lock, paths, inodes, stray>>
    PROVE  NestedInv'
<1>1. /\ job' \in [Instances -> Requests] /\ job'[p] = w
      /\ \A q \in Instances : q # p => job'[q] = job[q]
  BY RequestMoves DEF NestedInv
<1>2. /\ pgConn' \in [Instances -> BOOLEAN] /\ pgConn'[p] = kept
      /\ \A q \in Instances : q # p => pgConn'[q] = pgConn[q]
  BY DEF NestedInv, NestedShape
<1>3. NestedShape'
  <2>1. \A q \in Instances : RequestKnown(job[q])'
    BY <1>1 DEF NestedInv, NestedShape, RequestKnown
  <2>. QED BY <1>1, <1>2, <2>1 DEF NestedInv, NestedShape, Disk
<1>4. FileExact'
  BY DEF FileExact
<1>5. ASSUME NEW q \in Instances PROVE PgRequest(job[q], pgConn[q])'
  <2>1. CASE q # p
    BY <1>1, <1>2, <2>1 DEF NestedInv, PgExact, PgRequest
  <2>2. CASE q = p
    BY <1>1, <1>2, <2>2 DEF PgRequest
  <2>. QED BY <2>1, <2>2
<1>6. PgExact'
  BY <1>5 DEF PgExact
<1>. QED BY <1>3, <1>4, <1>6 DEF NestedInv

LEMMA PgBeginKeeps == ASSUME NestedInv, NEW p \in Instances, store # "file", Begin(p) PROVE NestedInv'
<1>1. PICK op \in {"register", "unregister", "call"}, n \in PluginNames, c \in Codes :
        job' = [job EXCEPT ![p] = [Idle EXCEPT !.op = op, !.name = n, !.code = c, !.pc = "connect"]]
  BY DEF Begin
<1> DEFINE w == [Idle EXCEPT !.op = op, !.name = n, !.code = c, !.pc = "connect"]
<1>2. /\ w \in Requests /\ w.pc = "connect" /\ w.name = n /\ w.code = c /\ w.applied = 0 /\ w.removed = 0
      /\ ~w.reused /\ w.answer = "none"
  BY IdleRequest DEF Requests, PgPlaces
<1> HIDE DEF w
<1>3. RequestKnown(w)
  BY <1>2 DEF RequestKnown, FilePlaces, PgPlaces, Section
<1>4. store = "native" => ~pgConn[p]
  BY DEF NestedInv, PgExact, PgRequest
<1>5. PgRequest(w, pgConn[p])
  BY <1>2, <1>4 DEF PgRequest, Statements
<1>6. pgConn' = [pgConn EXCEPT ![p] = pgConn[p]] /\ pgConn[p] \in BOOLEAN
  BY DEF Begin, pgVars, NestedInv, NestedShape
<1>7. UNCHANGED <<store, lock, paths, inodes, stray>>
  BY DEF Begin, fileVars
<1>. QED BY <1>1, <1>2, <1>3, <1>5, <1>6, <1>7, PgMoves DEF w

LEMMA ConnectKeeps == ASSUME NestedInv, NEW p \in Instances, Connect(p) PROVE NestedInv'
<1>0. /\ job[p] \in Requests /\ RequestKnown(job[p]) /\ job[p].pc = "connect" /\ store # "file"
      /\ job[p].name \in PluginNames /\ job[p].code \in Codes /\ pgConn[p] \in BOOLEAN
      /\ PgRequest(job[p], pgConn[p]) /\ pgConn' = [pgConn EXCEPT ![p] = FALSE]
      /\ UNCHANGED <<store, lock, paths, inodes, stray>>
  BY DEF Connect, fileVars, NestedInv, NestedShape, PgExact, RequestKnown, PgPlaces
<1>1. /\ First(p) \in Statements /\ (job[p].op = "register" => First(p) = "insert")
      /\ (job[p].op = "unregister" /\ store = "native" => First(p) = "delete")
  BY DEF First, Statements
<1>2. ASSUME NEW r \in BOOLEAN, job' = [job EXCEPT ![p].pc = First(p), ![p].reused = r],
             r => pgConn[p] \/ job[p].reused
      PROVE  NestedInv'
  <2> DEFINE w == [job[p] EXCEPT !.pc = First(p), !.reused = r]
  <2>1. job' = [job EXCEPT ![p] = w]
    BY <1>2 DEF NestedInv, NestedShape
  <2>2. /\ w \in Requests /\ w.pc = First(p) /\ w.name = job[p].name /\ w.code = job[p].code /\ w.op = job[p].op
        /\ w.reused = r /\ w.applied = job[p].applied /\ w.removed = job[p].removed
        /\ w.answer = job[p].answer
    BY <1>0, <1>1 DEF Requests, PgPlaces
  <2> HIDE DEF w
  <2>3. RequestKnown(w)
    BY <1>0, <1>1, <2>2 DEF RequestKnown, FilePlaces, PgPlaces, Section, Statements
  <2>4. PgRequest(w, FALSE)
    <3>1. w.op = "register" => w.applied \in {0, 1} /\ (w.reused => w.applied = 0) /\ w.answer = "none"
      BY <1>0, <1>2, <2>2 DEF PgRequest, Requests
    <3>2. store = "native" => ~w.reused
      BY <1>0, <1>2, <2>2 DEF PgRequest
    <3>3. store = "native" /\ w.op = "unregister" => w.removed = 0 /\ w.answer = "none"
      BY <1>0, <1>2, <2>2 DEF PgRequest
    <3>. QED BY <1>1, <2>2, <3>1, <3>2, <3>3 DEF PgRequest, Statements
  <2>. QED BY <1>0, <2>1, <2>2, <2>3, <2>4, PgMoves
<1>3. ASSUME NEW what \in {"absent", "failed"}, Answered(p, what), job[p].op = "register" => what = "failed"
      PROVE  NestedInv'
  <2> DEFINE w == RequestEnded(job[p], what)
  <2>1. job' = [job EXCEPT ![p] = w]
    BY <1>3 DEF Answered, NestedInv, NestedShape
  <2>2. /\ w \in Requests /\ w.pc = "idle" /\ w.op = job[p].op /\ w.answer = what /\ ~w.reused
        /\ w.applied = job[p].applied /\ w.removed = job[p].removed
    BY <1>0, EndedFields
  <2> HIDE DEF w
  <2>3. RequestKnown(w)
    BY <2>2 DEF RequestKnown, FilePlaces, PgPlaces, Section, Statements
  <2>4. PgRequest(w, FALSE)
    BY <1>0, <2>2 DEF PgRequest, Statements, Requests
  <2>. QED BY <1>0, <2>1, <2>2, <2>3, <2>4, PgMoves
<1>4. CASE pgConn[p]
  BY <1>2, <1>4 DEF Connect
<1>5. CASE ~pgConn[p] /\ Goto(p, First(p))
  <2>1. job' = [job EXCEPT ![p].pc = First(p), ![p].reused = job[p].reused]
    BY <1>0, <1>5 DEF Goto, NestedInv, NestedShape, Requests
  <2>2. job[p].reused \in BOOLEAN
    BY <1>0 DEF Requests
  <2>. QED BY <1>2, <2>1, <2>2
<1>6. CASE Fail(p)
  BY <1>3, <1>6 DEF Fail
<1>. QED BY <1>0, <1>4, <1>5, <1>6 DEF Connect

\* What a statement leaves in the request's history.
LEMMA CountedFields ==
    ASSUME NEW p \in Instances, job[p] \in Requests
    PROVE  LET c == Counted(p)
           IN  /\ c \in Requests /\ c.op = job[p].op /\ c.name = job[p].name /\ c.code = job[p].code
               /\ c.pc = job[p].pc /\ c.reused = job[p].reused /\ c.answer = job[p].answer
               /\ c.applied = IF job[p].pc = "insert" THEN job[p].applied + 1 ELSE job[p].applied
               /\ c.removed = IF job[p].pc = "delete" /\ job[p].name \in DOMAIN table
                              THEN job[p].removed + 1 ELSE job[p].removed
<1>1. PICK a \in Nat : a = IF job[p].pc = "insert" THEN job[p].applied + 1 ELSE job[p].applied
  BY DEF Requests
<1>2. PICK r \in Nat : r = IF job[p].pc = "delete" /\ job[p].name \in DOMAIN table
                          THEN job[p].removed + 1 ELSE job[p].removed
  BY DEF Requests
<1>3. Counted(p) = [job[p] EXCEPT !.applied = a, !.removed = r]
  BY <1>1, <1>2 DEF Counted, Requests
<1>. QED BY <1>1, <1>2, <1>3 DEF Requests

LEMMA PgEnded ==
    ASSUME NestedInv, NEW p \in Instances, store # "file", NEW c \in Requests, c.op = job[p].op,
           NEW what \in {"ok", "absent", "failed"}, NEW kept \in BOOLEAN,
           job' = [job EXCEPT ![p] = RequestEnded(c, what)], pgConn' = [pgConn EXCEPT ![p] = kept],
           store = "native" => ~kept,
           c.op = "register" => c.applied <= 2 /\ (what = "ok" => c.applied >= 1),
           (store = "native" /\ c.op = "unregister") =>
               (what = "absent" => c.removed = 0) /\ (what = "ok" => c.removed = 1),
           UNCHANGED <<store, lock, paths, inodes, stray>>
    PROVE  NestedInv'
<1> DEFINE w == RequestEnded(c, what)
<1>2. /\ w \in Requests /\ w.pc = "idle" /\ w.op = c.op /\ w.answer = what /\ ~w.reused
      /\ w.applied = c.applied /\ w.removed = c.removed
  BY EndedFields
<1>1. job' = [job EXCEPT ![p] = w]
  OBVIOUS
<1> HIDE DEF w
<1>3. RequestKnown(w)
  BY <1>2 DEF RequestKnown, FilePlaces, PgPlaces, Section, Statements
<1>4. PgRequest(w, kept)
  BY <1>2 DEF PgRequest, Statements
<1>. QED BY <1>1, <1>2, <1>3, <1>4, PgMoves

LEMMA ExecuteKeeps == ASSUME NestedInv, NEW p \in Instances, Execute(p) PROVE NestedInv'
<1> DEFINE c == Counted(p)
<1>0. /\ job[p] \in Requests /\ RequestKnown(job[p]) /\ job[p].pc \in Statements /\ store # "file"
      /\ job[p].name \in PluginNames /\ job[p].code \in Codes /\ pgConn[p] \in BOOLEAN
      /\ PgRequest(job[p], pgConn[p])
      /\ UNCHANGED <<store, lock, paths, inodes, stray>>
  BY DEF Execute, fileVars, NestedInv, NestedShape, PgExact, RequestKnown, PgPlaces, Statements
<1>1. /\ c \in Requests /\ c.op = job[p].op /\ c.name = job[p].name /\ c.code = job[p].code
      /\ c.pc = job[p].pc /\ c.reused = job[p].reused /\ c.answer = job[p].answer
      /\ c.applied = IF job[p].pc = "insert" THEN job[p].applied + 1 ELSE job[p].applied
      /\ c.removed = IF job[p].pc = "delete" /\ job[p].name \in DOMAIN table
                     THEN job[p].removed + 1 ELSE job[p].removed
  BY <1>0, CountedFields
<1>2. ASSUME NEW what \in {"ok", "absent"}, Done(p, what),
             c.op = "register" => c.applied <= 2 /\ (what = "ok" => c.applied >= 1),
             (store = "native" /\ c.op = "unregister") =>
                 (what = "absent" => c.removed = 0) /\ (what = "ok" => c.removed = 1)
      PROVE  NestedInv'
  <2>1. PICK kept \in BOOLEAN : kept = (store = "edge")
    OBVIOUS
  <2>2. job' = [job EXCEPT ![p] = RequestEnded(c, what)] /\ pgConn' = [pgConn EXCEPT ![p] = kept]
    BY <1>2, <2>1 DEF Done
  <2> HIDE DEF c
  <2>. QED BY <1>0, <1>1, <1>2, <2>1, <2>2, PgEnded
<1> DEFINE here == job[p].name \in DOMAIN table
           next == IF job[p].pc = "exists" THEN "delete" ELSE "count"
<1>3. CASE job[p].pc = "count"
  <2>1. Done(p, "ok")
    BY <1>3, Zenon DEF Execute
  <2> HIDE DEF c
  <2>. QED BY <1>0, <1>1, <1>2, <1>3, <2>1 DEF PgRequest, Requests
<1>4. CASE job[p].pc = "select"
  <2>1. Done(p, IF here THEN "ok" ELSE "absent")
    BY <1>4, Zenon DEF Execute
  <2> HIDE DEF c
  <2>. QED BY <1>0, <1>1, <1>2, <1>4, <2>1 DEF PgRequest, Requests
<1>5. CASE job[p].pc = "exists" /\ ~here
  <2>1. Done(p, "absent")
    BY <1>5, Zenon DEF Execute
  <2> HIDE DEF c
  <2>. QED BY <1>0, <1>1, <1>2, <1>5, <2>1 DEF PgRequest, Requests
<1>6. CASE job[p].pc = "delete" /\ RowsTold /\ ~here
  <2>1. Done(p, "absent")
    BY <1>6, Zenon DEF Execute
  <2> HIDE DEF c
  <2>. QED BY <1>0, <1>1, <1>2, <1>6, <2>1 DEF PgRequest, Requests
<1>7. CASE /\ job[p].pc \notin {"count", "select"} /\ ~(job[p].pc = "exists" /\ ~here)
           /\ ~(job[p].pc = "delete" /\ RowsTold /\ ~here)
  <2>1. job' = [job EXCEPT ![p] = [c EXCEPT !.pc = next]] /\ UNCHANGED pgConn
    BY <1>7, Zenon DEF Execute
  <2> DEFINE w == [c EXCEPT !.pc = next]
  <2>2. job' = [job EXCEPT ![p] = w] /\ pgConn' = [pgConn EXCEPT ![p] = pgConn[p]]
    BY <2>1 DEF NestedInv, NestedShape
  <2> HIDE DEF c
  <2>3. /\ w \in Requests /\ w.pc = next /\ w.op = c.op /\ w.name = c.name /\ w.code = c.code
        /\ w.reused = c.reused /\ w.answer = c.answer /\ w.applied = c.applied /\ w.removed = c.removed
    BY <1>1 DEF Requests, PgPlaces, Statements
  <2> HIDE DEF w
  <2>4. RequestKnown(w)
    BY <1>0, <1>1, <2>3 DEF RequestKnown, FilePlaces, PgPlaces, Section, Statements
  <2>5. PgRequest(w, pgConn[p])
    <3>1. w.pc \in Statements => ~pgConn[p]
      BY <1>0 DEF PgRequest
    <3>2. w.op = "register" =>
            /\ w.pc \in {"idle", "connect", "insert", "count"} /\ w.applied <= 2
            /\ w.pc # "idle" => w.answer = "none"
            /\ w.answer = "ok" => w.applied >= 1
            /\ w.pc = "connect" => w.applied <= 1 /\ ~w.reused /\ (w.applied = 1 => ~pgConn[p])
            /\ w.pc = "insert" => w.applied <= 1 /\ (w.reused => w.applied = 0)
            /\ w.pc = "count" => w.applied >= 1 /\ (w.reused => w.applied = 1)
      BY <1>0, <1>1, <1>7, <2>3 DEF PgRequest, Statements, Requests
    <3>3. store = "native" => ~pgConn[p] /\ ~w.reused
      BY <1>0, <1>1, <2>3 DEF PgRequest
    <3>4. (store = "native" /\ w.op = "unregister") =>
            /\ w.pc \in {"idle", "connect", "delete", "count"}
            /\ w.pc # "idle" => w.answer = "none"
            /\ w.pc \in {"connect", "delete"} \/ w.answer = "absent" => w.removed = 0
            /\ w.pc = "count" \/ w.answer = "ok" => w.removed = 1
      BY <1>0, <1>1, <1>7, <2>3 DEF PgRequest, Statements, Requests, RowsTold
    <3>. QED BY <3>1, <3>2, <3>3, <3>4 DEF PgRequest
  <2>. QED BY <1>0, <2>2, <2>3, <2>4, <2>5, PgMoves
<1>. QED BY <1>3, <1>4, <1>5, <1>6, <1>7

\* A statement whose answer is lost: what it did is known to the table alone.
LEMMA LoseKeeps == ASSUME NestedInv, NEW p \in Instances, Lose(p) PROVE NestedInv'
<1>0. /\ job[p] \in Requests /\ RequestKnown(job[p]) /\ job[p].pc \in Statements /\ store # "file"
      /\ job[p].name \in PluginNames /\ job[p].code \in Codes
      /\ PgRequest(job[p], pgConn[p]) /\ ~pgConn[p]
      /\ UNCHANGED <<store, lock, paths, inodes, pgConn, stray>>
  BY DEF Lose, fileVars, NestedInv, NestedShape, PgExact, PgRequest, RequestKnown, PgPlaces, Statements
<1>1. PICK c \in {Counted(p), job[p]} :
        job' = [job EXCEPT ![p] =
          IF c.reused THEN [c EXCEPT !.pc = "connect", !.reused = FALSE]
          ELSE RequestEnded(c, IF c.op = "call" THEN "absent" ELSE "failed")]
  BY DEF Lose
<1>2. /\ c \in Requests /\ c.op = job[p].op /\ c.name = job[p].name /\ c.code = job[p].code
      /\ c.reused = job[p].reused /\ c.answer = job[p].answer
      /\ c.applied \in {job[p].applied, IF job[p].pc = "insert" THEN job[p].applied + 1 ELSE job[p].applied}
      /\ c.removed \in {job[p].removed, IF job[p].pc = "delete" /\ job[p].name \in DOMAIN table
                                         THEN job[p].removed + 1 ELSE job[p].removed}
  BY <1>0, <1>1, CountedFields
<1>3. c.op = "register" => c.applied <= 2 /\ (c.reused => c.applied <= 1) /\ c.answer = "none"
  BY <1>0, <1>2 DEF PgRequest, Statements, Requests
<1>4. pgConn' = [pgConn EXCEPT ![p] = FALSE]
  BY <1>0 DEF NestedInv, NestedShape
<1>5. CASE c.reused
  <2> DEFINE w == [c EXCEPT !.pc = "connect", !.reused = FALSE]
  <2>1. /\ w \in Requests /\ w.pc = "connect" /\ w.op = c.op /\ w.name = c.name /\ w.code = c.code
        /\ ~w.reused /\ w.answer = c.answer /\ w.applied = c.applied /\ w.removed = c.removed
    BY <1>2 DEF Requests, PgPlaces
  <2>2. job' = [job EXCEPT ![p] = w]
    BY <1>1, <1>5
  <2> HIDE DEF w
  <2>3. RequestKnown(w)
    BY <1>0, <1>2, <2>1 DEF RequestKnown, FilePlaces, PgPlaces, Section, Statements
  <2>4. store # "native"
    BY <1>0, <1>2, <1>5 DEF PgRequest
  <2>5. PgRequest(w, FALSE)
    BY <1>2, <1>3, <1>5, <2>1, <2>4 DEF PgRequest, Requests
  <2>. QED BY <1>0, <1>4, <2>1, <2>2, <2>3, <2>5, PgMoves
<1>6. CASE ~c.reused
  <2>1. PICK what \in {"absent", "failed"} : what = IF c.op = "call" THEN "absent" ELSE "failed"
    OBVIOUS
  <2>2. job' = [job EXCEPT ![p] = RequestEnded(c, what)]
    BY <1>1, <1>6, <2>1
  <2>3. (store = "native" /\ c.op = "unregister") => what = "failed"
    BY <2>1
  <2>. QED BY <1>0, <1>2, <1>3, <1>4, <2>1, <2>2, <2>3, PgEnded
<1>. QED BY <1>5, <1>6

LEMMA NestedStep == NestedInv /\ [NestedNext]_nestedVars => NestedInv'
<1> SUFFICES ASSUME NestedInv, [NestedNext]_nestedVars PROVE NestedInv'
  OBVIOUS
<1>1. ASSUME NEW p \in Instances, Begin(p) PROVE NestedInv'
  BY <1>1, FileBeginKeeps, PgBeginKeeps
<1>2. ASSUME NEW p \in Instances, FileStep(p) PROVE NestedInv'
  <2>1. CASE TryLock(p) /\ lock.owner = "nobody"
    BY <2>1, TryLockKeeps
  <2>2. CASE (TryLock(p) /\ lock.owner # "nobody") \/ StatLock(p) \/ ReadPlugin(p) \/ RunPlugin(p)
    <3>1. job[p].pc \in FilePlaces
      BY <2>2 DEF TryLock, StatLock, ReadPlugin, RunPlugin, FilePlaces
    <3>2. store = "file"
      BY <3>1 DEF NestedInv, NestedShape, RequestKnown
    <3>. QED BY <2>2, <3>2, FileBeginKeeps
  <2>3. CASE Reclaim(p)
    BY <2>3, ReclaimKeeps
  <2>4. CASE Load(p) \/ OpenTmp(p) \/ WriteTmp(p) \/ Rename(p) \/ Release(p)
    BY <2>4, LoadKeeps, OpenKeeps, WriteTmpKeeps, RenameKeeps, ReleaseKeeps
  <2>. QED BY <1>2, <2>1, <2>2, <2>3, <2>4 DEF FileStep
<1>3. ASSUME NEW p \in Instances, PgStep(p) PROVE NestedInv'
  BY <1>3, ConnectKeeps, ExecuteKeeps, LoseKeeps DEF PgStep
<1>4. ASSUME NEW p \in Instances, Restart(p) PROVE NestedInv'
  BY <1>4, RestartKeeps
<1>5. CASE Pass
  BY <1>5, PassKeeps
<1>6. CASE UNCHANGED nestedVars
  BY <1>6 DEF nestedVars, NestedInv, NestedShape, FileExact, PgExact, PgRequest, RequestKnown, Disk,
     LockHeld, WriterAt, Change, Content
<1>. QED BY <1>1, <1>2, <1>3, <1>4, <1>5, <1>6 DEF NestedNext

\* StoresExact: whichever store keeps the registry of nested plugins, it is what its callers were told.
\* The published file is exactly the changes made so far as long as no lock was taken from an instance
\* at work; a registration is applied twice at most, and the native client's answers are exact.
THEOREM StoresExactHolds == NestedSpec => []StoresExact
<1>1. NestedInv => StoresExact
  <2> SUFFICES ASSUME NestedInv PROVE StoresExact
    OBVIOUS
  <2>1. PublishedExact
    BY DEF NestedInv, FileExact, PublishedExact
  <2>2. AppliedAtMostTwice
    BY DEF NestedInv, PgExact, PgRequest, AppliedAtMostTwice
  <2>3. NativeExact
    BY DEF NestedInv, PgExact, PgRequest, NativeExact
  <2>. QED BY <2>1, <2>2, <2>3 DEF StoresExact
<1>. QED BY <1>1, NestedInitInv, NestedStep, PTL DEF NestedSpec
=============================================================================
