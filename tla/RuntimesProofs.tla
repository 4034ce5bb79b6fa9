--------------------------- MODULE RuntimesProofs ---------------------------
(***************************************************************************)
(* Proofs about what runs a tool call and hands out its result.            *)
(*                                                                         *)
(*   - WasmDispatch: guest code runs at most once for a request, for any   *)
(*     number of threads, tools and requests and under every combination   *)
(*     of faults.                                                          *)
(*   - ChildProcess: a call that reports success has all of the program's  *)
(*     output, in each of the four ways a program is run, for every pipe   *)
(*     size, limit and deadline.                                           *)
(*   - Sampling: concurrent requests take turns in every conversation.     *)
(*   - Streaming: a client that stays gets its result whole and in order.  *)
(***************************************************************************)
EXTENDS WasmDispatch, ChildProcess, Sampling, Streaming, TLAPS, FiniteSetTheorems, SequenceTheorems

-----------------------------------------------------------------------------
(* WASM dispatch.                                                              *)

Steps == {"idle", "json", "fallback", "metadata", "register", "retry", "record", "binary",
          "binary_retry"}

\* The steps a request can only be in before guest code has run for it.
Fresh == {"fallback", "metadata", "register", "binary", "binary_retry"}

\* The steps from which the JSON path or a registration is still to come: if guest
\* code has run, the name is taken, and the registration will be refused.
Falling == {"json", "retry", "record"}

OnceInv ==
    /\ pc \in [Threads -> Steps]
    /\ execs \in [Threads -> Nat]
    /\ DOMAIN tool = Threads /\ tool \in [Threads -> Tools \cup {NoTool}]
    /\ loaded \subseteq registry
    /\ \A t \in Threads :
         /\ execs[t] <= 1
         /\ pc[t] \in Fresh => execs[t] = 0
         /\ (pc[t] \in Falling /\ execs[t] = 1) => tool[t] \in registry

LEMMA OnceInit == Init => OnceInv
BY DEF Init, OnceInv, Steps, Fresh, Falling, NoTool

LEMMA OnceStep == OnceInv /\ [Next]_vars => OnceInv'
<1> SUFFICES ASSUME OnceInv, [Next]_vars PROVE OnceInv'
  OBVIOUS
<1> USE DEF OnceInv, Steps, Fresh, Falling, Goto, Finish
<1>1. ASSUME NEW t \in Threads, NEW n \in Tools, NEW path \in Paths, Begin(t, n, path)
      PROVE  OnceInv'
  BY <1>1 DEF Begin, cache
<1>2. ASSUME NEW t \in Threads, CheckFallback(t) PROVE OnceInv'
  BY <1>2 DEF CheckFallback, cache
<1>3. ASSUME NEW t \in Threads, CheckMetadata(t) PROVE OnceInv'
  BY <1>3 DEF CheckMetadata, cache
<1>4. ASSUME NEW t \in Threads, Register(t) PROVE OnceInv'
  BY <1>4 DEF Register, Refused
<1>5. ASSUME NEW t \in Threads, RegisterError(t) PROVE OnceInv'
  <2>1. loaded' = loaded /\ registry \subseteq registry'
    BY <1>5 DEF RegisterError, EarlyError, LateError, RegisterRefused, RegisterFails,
                RegisterTraps, cache
  <2>2. /\ pc[t] \in {"register", "retry"}
        /\ pc' = [pc EXCEPT ![t] = "record"]
        /\ UNCHANGED <<tool, execs>>
    BY <1>5 DEF RegisterError
  <2>. QED BY <2>1, <2>2
<1>6. ASSUME NEW t \in Threads, RecordFallback(t) PROVE OnceInv'
  BY <1>6 DEF RecordFallback, cache
<1>7. ASSUME NEW t \in Threads, BinaryUnknown(t) PROVE OnceInv'
  BY <1>7 DEF BinaryUnknown
<1>8. ASSUME NEW t \in Threads, BinaryRefused(t) PROVE OnceInv'
  BY <1>8 DEF BinaryRefused
<1>9. ASSUME NEW t \in Threads, BinaryPayload(t) PROVE OnceInv'
  BY <1>9 DEF BinaryPayload, cache
<1>10. ASSUME NEW t \in Threads, BinaryRuns(t) PROVE OnceInv'
  <2>1. /\ pc[t] \in {"binary", "binary_retry"} /\ tool[t] \in registry
        /\ execs' = [execs EXCEPT ![t] = @ + 1]
        /\ pc' \in {[pc EXCEPT ![t] = w] : w \in {"idle", "record", "retry"}}
        /\ UNCHANGED <<tool, loaded, registry>>
    BY <1>10 DEF BinaryRuns, Runs, cache
  <2>. QED BY <2>1
<1>11. ASSUME NEW t \in Threads, BinaryTraps(t) PROVE OnceInv'
  <2>1. /\ pc[t] \in {"binary", "binary_retry"} /\ tool[t] \in registry
        /\ execs' = [execs EXCEPT ![t] = @ + 1]
        /\ pc' \in {[pc EXCEPT ![t] = w] : w \in {"idle", "record"}}
        /\ loaded' = {} /\ UNCHANGED <<tool, registry>>
    BY <1>11 DEF BinaryTraps, Runs, Evict
  <2>. QED BY <2>1
<1>12. ASSUME NEW t \in Threads, JsonRefused(t) PROVE OnceInv'
  <2>1. loaded' = loaded /\ registry \subseteq registry'
    BY <1>12 DEF JsonRefused, EarlyError, LateError, RegisterRefused, RegisterFails,
                 RegisterTraps, cache
  <2>2. pc' = [pc EXCEPT ![t] = "idle"] /\ UNCHANGED <<tool, execs>>
    BY <1>12 DEF JsonRefused
  <2>. QED BY <2>1, <2>2
<1>13. ASSUME NEW t \in Threads, JsonRuns(t) PROVE OnceInv'
  <2>1. /\ pc[t] = "json" /\ tool[t] \notin registry
        /\ execs' = [execs EXCEPT ![t] = @ + 1] \/ UNCHANGED execs
        /\ pc' = [pc EXCEPT ![t] = "idle"]
        /\ registry' = registry \cup {tool[t]} /\ UNCHANGED tool
        /\ loaded' \subseteq loaded \cup {tool[t]}
    BY <1>13 DEF JsonRuns, Runs, Evict, Refused
  <2>. QED BY <2>1
<1>14. CASE UNCHANGED vars
  BY <1>14 DEF vars, cache
<1>. QED
  BY <1>1, <1>2, <1>3, <1>4, <1>5, <1>6, <1>7, <1>8, <1>9, <1>10, <1>11, <1>12, <1>13, <1>14
     DEF Next, Step

\* No chain of binary attempt, retry and JSON fallback of call_tool_binary runs guest
\* code twice for one request.
THEOREM ExecutedAtMostOnceHolds == Spec => []ExecutedAtMostOnce
<1>1. OnceInv => ExecutedAtMostOnce
  BY DEF OnceInv, ExecutedAtMostOnce
<1>. QED BY OnceInit, OnceStep, <1>1, PTL DEF Spec

-----------------------------------------------------------------------------
(* Child processes.  What a program wrote is in its pipe, kept or cut; and a   *)
(* pipe that has been read to its end stays at its end, because a program that *)
(* has exited, or has closed its outputs, writes no more.                      *)

Callers == {"start", "check", "spawn", "send", "wait", "read_out", "read_err", "poll", "kill", "join",
            "drop", "done"}

ChildShape ==
    /\ mode \in Polling \cup {"csharp", "sandbox"} /\ caller \in Callers
    /\ drainer \in {"none", "reading", "ended"}
    /\ child \in {"none", "running", "exited", "killed", "reaped"}
    /\ prog[1] \in Seq(Streams)
    /\ pipe \in [Streams -> Nat] /\ wrote \in [Streams -> Nat]
    /\ got \in [Streams -> Nat] /\ cut \in [Streams -> Nat]
    /\ childResult \in {"none", "ok", "failed", "error", "timeout", "violation"}

\* Nothing is lost between the program and the two places its output ends up in.
ChunksConserved == \A s \in Streams : pipe[s] + got[s] + cut[s] = wrote[s]

\* Everything was read, and the program will write no more.
Ended(s) == pipe[s] = 0 /\ (child # "running" \/ prog[1] = <<>>)

ChildPhases ==
    /\ caller \in {"start", "check", "spawn"} => child = "none" /\ drainer = "none" /\ childResult = "none"
    /\ caller \in {"send", "wait", "read_out", "read_err", "poll", "kill", "join"} => child # "none"
    /\ prog[2] = "closed" \/ child = "exited" => prog[1] = <<>>
    /\ caller \in {"send", "wait"} => mode = "csharp" /\ childResult = "none"
    /\ mode = "csharp" => caller \in {"start", "spawn", "send", "wait", "done"}
    /\ mode = "shell" \/ mode = "plugin" =>
         caller \in {"start", "spawn", "poll", "kill", "read_out", "read_err", "done"}
    /\ caller \in {"poll", "kill"} => childResult = "none"

\* The calls that read after the exit.
PollingAt ==
    mode \in Polling =>
        /\ cut["out"] = 0 /\ got["out"] <= MaxOut /\ drainer = "none"
        /\ caller \in {"read_out", "read_err"} => child = "reaped"
        /\ childResult = "ok" => child = "reaped"
        /\ (caller = "read_err" \/ (caller = "done" /\ childResult = "ok"))
             => got["out"] = MaxOut \/ pipe["out"] = 0

SandboxAt ==
    mode = "sandbox" =>
        /\ drainer = "ended" => Ended("out")
        /\ caller \in {"poll", "kill", "join"} => Ended("err")
        /\ caller \in {"drop", "done"} => child = "none" \/ (Ended("err") /\ Ended("out"))
        /\ childResult = "timeout" => child = "reaped"
        /\ caller = "read_err" => childResult = "none"
        /\ caller = "start" => workDir = "none"
        /\ caller = "done" => workDir \in {"none", "removed"}

EngineAt ==
    mode = "csharp" =>
        /\ caller = "wait" => child \in {"running", "exited"}
        /\ caller = "send" => child \in {"running", "exited"} /\ drainer = "none"
        /\ childResult = "error" => drainer # "reading"
        /\ (drainer = "ended" /\ childResult # "timeout") =>
             cut["out"] > 0 \/ (got["out"] = wrote["out"] /\ ~Contains(prog[1], "out"))
        /\ childResult \in {"ok", "failed"} =>
             drainer = "ended" /\ got["out"] = wrote["out"] /\ ~Contains(prog[1], "out")
        /\ childResult = "error" /\ drainer = "ended" => child = "reaped" /\ (cut["out"] > 0 \/ wrote["out"] = 0)
        /\ caller = "done" => childResult \in {"ok", "failed", "error", "timeout"}
        /\ caller = "done" => childResult = "error" \/ child = "reaped"
        /\ childResult \in {"ok", "failed", "timeout"} => caller = "done"
        /\ drainer = "reading" /\ caller # "done" => caller = "wait"

OutputInv == ChildShape /\ ChunksConserved /\ ChildPhases /\ PollingAt /\ SandboxAt /\ EngineAt

LEMMA OutputInit == ChildInit => OutputInv
<1> SUFFICES ASSUME ChildInit PROVE OutputInv
  OBVIOUS
<1>1. prog[1] \in Seq(Streams) /\ prog[2] # "closed"
  BY ChildAssumption DEF ChildInit, Programs
<1>2. NoChunks \in [Streams -> Nat] /\ \A s \in Streams : NoChunks[s] = 0
  BY DEF NoChunks, Streams
<1>3. ChildShape /\ ChunksConserved
  BY <1>1, <1>2 DEF ChildInit, ChildShape, ChunksConserved, Callers
<1>. QED BY <1>1, <1>2, <1>3, ChildAssumption
         DEF ChildInit, OutputInv, ChildPhases, PollingAt, SandboxAt, EngineAt, Polling, Streams

\* The caller moves, and the program and its pipes are left alone.
LEMMA CallerKeeps ==
    ASSUME OutputInv,
           \/ DocumentRefused \/ MakeWorkDir \/ JoinReader \/ DropSandbox
           \/ \E ok \in BOOLEAN : CheckInterpreter(ok) \/ ValidateArguments(ok) \/ ValidateCommand(ok) \/ FindEngine(ok)
    PROVE  OutputInv'
<1> USE DEF OutputInv, Polling, Return
<1>1. CASE DocumentRefused
  BY <1>1 DEF DocumentRefused, ChildShape, ChunksConserved, ChildPhases, PollingAt, SandboxAt, EngineAt, Ended, Callers
<1>2. CASE MakeWorkDir
  BY <1>2 DEF MakeWorkDir, ChildShape, ChunksConserved, ChildPhases, PollingAt, SandboxAt, EngineAt, Ended, Callers
<1>3. CASE JoinReader
  BY <1>3 DEF JoinReader, ChildShape, ChunksConserved, ChildPhases, PollingAt, SandboxAt, EngineAt, Ended, Callers
<1>4. CASE DropSandbox
  BY <1>4 DEF DropSandbox, ChildShape, ChunksConserved, ChildPhases, PollingAt, SandboxAt, EngineAt, Ended, Callers
<1>5. ASSUME NEW ok \in BOOLEAN, CheckInterpreter(ok) PROVE OutputInv'
  BY <1>5 DEF CheckInterpreter, ChildShape, ChunksConserved, ChildPhases, PollingAt, SandboxAt, EngineAt, Ended, Callers
<1>6. ASSUME NEW ok \in BOOLEAN, ValidateArguments(ok) \/ ValidateCommand(ok) \/ FindEngine(ok) PROVE OutputInv'
  BY <1>6 DEF ValidateArguments, ValidateCommand, FindEngine, ChildShape, ChunksConserved, ChildPhases,
     PollingAt, SandboxAt, EngineAt, Ended, Callers
<1>. QED BY <1>1, <1>2, <1>3, <1>4, <1>5, <1>6

LEMMA SpawnKeeps == ASSUME OutputInv, NEW ok \in BOOLEAN, Spawn(ok) PROVE OutputInv'
<1> USE DEF OutputInv, Polling
<1>1. CASE ok
  <2>1. /\ child = "none" /\ child' = "running" /\ drainer' = (IF mode = "sandbox" THEN "reading" ELSE "none")
        /\ UNCHANGED <<mode, prog, heir, pipe, wrote, got, cut, polls, workDir, childResult>>
        /\ caller = "spawn" /\ childResult = "none"
    BY <1>1 DEF Spawn, ChildPhases
  <2>2. caller' = IF mode = "sandbox" THEN "read_err" ELSE IF mode = "csharp" THEN "send" ELSE "poll"
    BY <1>1, Zenon DEF Spawn
  <2>3. ChildShape' /\ ChunksConserved'
    BY <2>1, <2>2 DEF ChildShape, ChunksConserved, Callers
  <2>4. mode \in {"plugin", "shell", "csharp", "sandbox"}
    BY DEF ChildShape
  <2>5. ChildPhases'
    BY <2>1, <2>2, <2>4 DEF ChildPhases
  <2>6. PollingAt'
    BY <2>1, <2>2, <2>4 DEF PollingAt
  <2>7. SandboxAt' /\ EngineAt'
    BY <2>1, <2>2, <2>4 DEF SandboxAt, EngineAt, Ended, ChildPhases
  <2>. QED BY <2>3, <2>5, <2>6, <2>7
<1>2. CASE ~ok
  <2>1. /\ child = "none" /\ childResult' = "error" /\ caller' = (IF mode = "sandbox" THEN "drop" ELSE "done")
        /\ UNCHANGED <<mode, prog, heir, pipe, wrote, got, cut, polls, workDir, child, drainer>>
        /\ caller = "spawn" /\ childResult = "none" /\ drainer = "none"
    BY <1>2 DEF Spawn, ChildPhases
  <2>2. ChildShape' /\ ChunksConserved'
    BY <2>1 DEF ChildShape, ChunksConserved, Callers
  <2>3. mode \in {"plugin", "shell", "csharp", "sandbox"}
    BY DEF ChildShape
  <2>4. ChildPhases' /\ PollingAt'
    BY <2>1, <2>3 DEF ChildPhases, PollingAt
  <2>5. SandboxAt' /\ EngineAt'
    BY <2>1, <2>3 DEF SandboxAt, EngineAt, Ended
  <2>. QED BY <2>2, <2>4, <2>5
<1>. QED BY <1>1, <1>2

\* The program writes, exits or closes its outputs.
LEMMA ProgramKeeps == ASSUME OutputInv, ChildStep PROVE OutputInv'
<1> USE DEF OutputInv, Polling
<1>1. CASE ChildWrites
  <2>1. PICK s \in Streams : s = Head(prog[1])
    BY <1>1 DEF ChildWrites, ChildShape
  <2>2. /\ child = "running" /\ prog[1] # <<>> /\ prog'[1] = Tail(prog[1]) /\ prog'[2] = prog[2]
        /\ pipe' = [pipe EXCEPT ![s] = @ + 1] /\ wrote' = [wrote EXCEPT ![s] = @ + 1]
        /\ UNCHANGED <<mode, heir, caller, drainer, child, got, cut, polls, workDir, childResult>>
    BY <1>1, <2>1 DEF ChildWrites
  <2>3. prog'[1] \in Seq(Streams) /\ (Contains(prog[1], "out") <=> s = "out" \/ Contains(prog'[1], "out"))
    <3>1. PICK q \in Seq(Streams) : q = prog[1]
      BY DEF ChildShape
    <3>2. PICK r \in Seq(Streams) : r = Tail(q)
      BY <3>1, <2>2, HeadTailProperties
    <3>3. Len(q) > 0 /\ Len(r) = Len(q) - 1 /\ q[1] = s /\ \A i \in 1..Len(r) : r[i] = q[i + 1]
      BY <3>1, <3>2, <2>1, <2>2
    <3>4. Contains(q, "out") <=> s = "out" \/ Contains(r, "out")
      <4>1. Contains(q, "out") <=> \E i \in 1..Len(q) : q[i] = "out"
        BY DEF Contains
      <4>2. Contains(r, "out") <=> \E i \in 1..Len(r) : r[i] = "out"
        BY DEF Contains
      <4>3. ASSUME NEW i \in 1..Len(q), q[i] = "out" PROVE s = "out" \/ \E j \in 1..Len(r) : r[j] = "out"
        <5>1. CASE i = 1
          BY <5>1, <4>3, <3>3
        <5>2. CASE i # 1
          <6>1. i - 1 \in 1..Len(r) /\ r[i - 1] = q[i]
            BY <5>2, <3>3
          <6>. QED BY <6>1, <4>3
        <5>. QED BY <5>1, <5>2
      <4>4. ASSUME NEW j \in 1..Len(r), r[j] = "out" PROVE \E i \in 1..Len(q) : q[i] = "out"
        <5>1. j + 1 \in 1..Len(q) /\ q[j + 1] = "out"
          BY <4>4, <3>3
        <5>. QED BY <5>1
      <4>5. s = "out" => \E i \in 1..Len(q) : q[i] = "out"
        <5>1. 1 \in 1..Len(q)
          BY <3>3
        <5>. QED BY <5>1, <3>3
      <4>. QED BY <4>1, <4>2, <4>3, <4>4, <4>5
    <3>. QED BY <3>1, <3>2, <3>4, <2>2
  <2>4. ChildShape'
    <3>1. pipe \in [Streams -> Nat] /\ wrote \in [Streams -> Nat]
      BY DEF ChildShape
    <3>2. pipe' \in [Streams -> Nat]
      BY <2>2, <3>1
    <3>3. wrote' \in [Streams -> Nat]
      BY <2>2, <3>1
    <3>. QED BY <2>2, <2>3, <3>2, <3>3 DEF ChildShape
  <2>5. ChunksConserved'
    BY <2>2 DEF ChildShape, ChunksConserved
  <2>6. ChildPhases'
    BY <2>2 DEF ChildPhases
  <2>7. PollingAt'
    BY <2>2 DEF PollingAt, ChildShape
  <2>8. SandboxAt'
    BY <2>2 DEF SandboxAt, Ended
  <2>9. EngineAt'
    BY <2>2, <2>3 DEF EngineAt, ChildShape
  <2>. QED BY <2>4, <2>5, <2>6, <2>7, <2>8, <2>9
<1>2. CASE ChildExits
  BY <1>2 DEF ChildExits, ChildShape, ChunksConserved, ChildPhases, PollingAt, SandboxAt, EngineAt, Ended
<1>3. CASE ChildCloses
  <2>1. prog[1] = <<>> /\ prog'[1] = <<>>
    BY <1>3 DEF ChildCloses
  <2>. QED BY <1>3, <2>1 DEF ChildCloses, ChildShape, ChunksConserved, ChildPhases, PollingAt, SandboxAt, EngineAt, Ended
<1>. QED BY <1>1, <1>2, <1>3 DEF ChildStep

\* A chunk goes from a pipe to what is kept or to what is cut.
LEMMA DrainKeeps ==
    ASSUME OutputInv, mode = "sandbox", NEW s \in Streams, Drain(s),
           s = "out" => drainer = "reading", s = "err" => caller = "read_err",
           UNCHANGED <<mode, prog, heir, caller, drainer, child, wrote, polls, workDir, childResult>>
    PROVE  OutputInv'
<1> USE DEF OutputInv
<1>1. pipe \in [Streams -> Nat] /\ got \in [Streams -> Nat] /\ cut \in [Streams -> Nat] /\ wrote \in [Streams -> Nat]
  BY DEF ChildShape
<1>2. pipe' \in [Streams -> Nat] /\ pipe[s] > 0
  BY <1>1 DEF Drain
<1>3. got' \in [Streams -> Nat]
  BY <1>1 DEF Drain
<1>4. cut' \in [Streams -> Nat]
  BY <1>1 DEF Drain
<1>5. \A u \in Streams : pipe'[u] + got'[u] + cut'[u] = wrote'[u]
  BY <1>1 DEF Drain, ChunksConserved
<1>6. \A u \in Streams : u # s => pipe'[u] = pipe[u]
  BY <1>1 DEF Drain
<1>7. "out" \in Streams /\ "err" \in Streams /\ s \in {"out", "err"}
  BY DEF Streams
<1>8. ChildShape' /\ ChunksConserved'
  BY <1>2, <1>3, <1>4, <1>5 DEF ChildShape, ChunksConserved
<1>9. ChildPhases' /\ PollingAt' /\ EngineAt'
  BY DEF ChildPhases, PollingAt, EngineAt, Polling
<1>10. SandboxAt'
  <2>1. CASE s = "out"
    <3>1. pipe'["err"] = pipe["err"] /\ drainer = "reading"
      BY <2>1, <1>6, <1>7
    <3>2. pipe["out"] > 0
      BY <2>1, <1>2
    <3>. QED BY <3>1, <3>2 DEF SandboxAt, Ended
  <2>2. CASE s = "err"
    <3>1. pipe'["out"] = pipe["out"] /\ caller = "read_err"
      BY <2>2, <1>6, <1>7
    <3>. QED BY <3>1 DEF SandboxAt, Ended
  <2>. QED BY <2>1, <2>2, <1>7
<1>. QED BY <1>8, <1>9, <1>10

\* The end of a pipe is final: who could still write has closed it or is gone.
LEMMA EndsKeep == ASSUME OutputInv, StdoutEnds \/ StderrEnds PROVE OutputInv'
<1> USE DEF OutputInv
<1>1. CASE StdoutEnds
  <2>1. /\ drainer = "reading" /\ drainer' = "ended" /\ pipe["out"] = 0 /\ (child # "running" \/ prog[1] = <<>>)
        /\ UNCHANGED <<mode, prog, heir, caller, child, pipe, wrote, got, cut, polls, workDir, childResult>>
    BY <1>1 DEF StdoutEnds, AtEnd, ChildPhases
  <2>2. ChildShape' /\ ChunksConserved' /\ ChildPhases'
    BY <2>1 DEF ChildShape, ChunksConserved, ChildPhases
  <2>3. PollingAt' /\ SandboxAt'
    BY <2>1 DEF PollingAt, SandboxAt, Ended
  <2>4. EngineAt'
    <3>1. CASE mode # "csharp"
      BY <3>1, <2>1 DEF EngineAt
    <3>2. CASE mode = "csharp" /\ childResult = "timeout"
      BY <3>2, <2>1 DEF EngineAt
    <3>3. CASE mode = "csharp" /\ childResult # "timeout"
      <4>1. prog[1] = <<>>
        BY <3>3, <2>1 DEF EngineAt, ChildPhases, ChildShape, Callers
      <4>2. ~Contains(prog[1], "out")
        BY <4>1 DEF Contains
      <4>3. cut["out"] \in Nat /\ got["out"] \in Nat /\ wrote["out"] \in Nat /\ pipe["out"] + got["out"] + cut["out"] = wrote["out"]
        BY DEF ChildShape, ChunksConserved, Streams
      <4>4. cut["out"] > 0 \/ got["out"] = wrote["out"]
        BY <4>3, <2>1
      <4>. QED BY <3>3, <2>1, <4>2, <4>4 DEF EngineAt
    <3>. QED BY <3>1, <3>2, <3>3
  <2>. QED BY <2>2, <2>3, <2>4
<1>2. CASE StderrEnds
  <2>1. /\ caller = "read_err" /\ caller' = "poll" /\ mode = "sandbox"
        /\ pipe["err"] = 0 /\ (child # "running" \/ prog[1] = <<>>)
        /\ UNCHANGED <<mode, prog, heir, drainer, child, pipe, wrote, got, cut, polls, workDir, childResult>>
    BY <1>2 DEF StderrEnds, AtEnd, ChildPhases
  <2>2. ChildShape' /\ ChunksConserved'
    BY <2>1 DEF ChildShape, ChunksConserved, Callers
  <2>3. ChildPhases'
    BY <2>1 DEF ChildPhases, SandboxAt
  <2>. QED BY <2>1, <2>2, <2>3 DEF PollingAt, SandboxAt, EngineAt, Ended, Polling
<1>. QED BY <1>1, <1>2

\* The engine's reader and the caller that waits for it.
LEMMA EngineKeeps == ASSUME OutputInv, ReadLine \/ EngineStep PROVE OutputInv'
<1> USE DEF OutputInv, Return
<1>0. /\ pipe \in [Streams -> Nat] /\ got \in [Streams -> Nat] /\ cut \in [Streams -> Nat] /\ wrote \in [Streams -> Nat]
      /\ "out" \in Streams /\ Polling = {"plugin", "shell"}
  BY DEF ChildShape, Streams, Polling
<1>1. CASE ReadLine
  <2>1. /\ mode = "csharp" /\ drainer = "reading" /\ drainer' \in {"reading", "ended"} /\ pipe["out"] > 0
        /\ UNCHANGED <<mode, prog, heir, caller, child, wrote, polls, workDir, childResult>>
    BY <1>1 DEF ReadLine
  <2>2. pipe' \in [Streams -> Nat]
    BY <1>0, <1>1 DEF ReadLine
  <2>3. got' \in [Streams -> Nat] /\ cut' \in [Streams -> Nat]
    <3>1. got' \in [Streams -> Nat]
      BY <1>0, <1>1 DEF ReadLine
    <3>2. cut' \in [Streams -> Nat]
      BY <1>0, <1>1 DEF ReadLine
    <3>. QED BY <3>1, <3>2
  <2>4. \A u \in Streams : pipe'[u] + got'[u] + cut'[u] = wrote'[u]
    BY <1>0, <1>1 DEF ReadLine, ChunksConserved
  <2>5. drainer' = "ended" => cut'["out"] > 0 \/ (got'["out"] = wrote'["out"] /\ ~Contains(prog'[1], "out"))
    BY <1>0, <1>1 DEF ReadLine
  <2>6. ChildShape' /\ ChunksConserved' /\ ChildPhases'
    <3>1. ChildShape'
      BY <2>1, <2>2, <2>3 DEF ChildShape
    <3>2. ChildPhases'
      BY <2>1 DEF ChildPhases
    <3>. QED BY <3>1, <3>2, <2>4 DEF ChunksConserved
  <2>7. PollingAt' /\ SandboxAt'
    BY <1>0, <2>1 DEF PollingAt, SandboxAt
  <2>8. childResult \notin {"ok", "failed"}
    BY <2>1 DEF EngineAt
  <2>9. EngineAt'
    BY <2>1, <2>5, <2>8 DEF EngineAt, ChildPhases
  <2>. QED BY <2>6, <2>7, <2>9
<1>2. CASE SendRequest
  <2>1. /\ caller = "send" /\ mode = "csharp" /\ childResult = "none" /\ child \in {"running", "exited"} /\ drainer = "none"
        /\ UNCHANGED <<mode, prog, heir, child, pipe, wrote, got, cut, polls, workDir>>
    BY <1>2 DEF SendRequest, ChildPhases, EngineAt
  <2>2. \/ drainer' = "reading" /\ caller' = "wait" /\ childResult' = "none" /\ child = "running"
        \/ drainer' = "none" /\ caller' = "done" /\ childResult' = "error"
    BY <1>2, <2>1 DEF SendRequest
  <2>3. ChildShape' /\ ChunksConserved'
    BY <2>1, <2>2 DEF ChildShape, ChunksConserved, Callers
  <2>4. ChildPhases'
    BY <2>1, <2>2 DEF ChildPhases
  <2>5. PollingAt' /\ SandboxAt'
    BY <1>0, <2>1 DEF PollingAt, SandboxAt
  <2>6. EngineAt'
    BY <2>1, <2>2 DEF EngineAt
  <2>. QED BY <2>3, <2>4, <2>5, <2>6
<1>3. CASE Answered
  <2>1. /\ caller = "wait" /\ mode = "csharp" /\ childResult = "none" /\ drainer = "ended"
        /\ child' = "reaped" /\ caller' = "done"
        /\ UNCHANGED <<mode, prog, heir, drainer, pipe, wrote, got, cut, polls, workDir>>
    BY <1>3 DEF Answered, ChildPhases
  <2>2. childResult' \in {"ok", "failed", "error"} /\ (childResult' # "error" <=> Complete)
    BY <1>3 DEF Answered
  <2>3. ChildShape' /\ ChunksConserved'
    BY <2>1, <2>2 DEF ChildShape, ChunksConserved, Callers
  <2>4. ChildPhases'
    BY <2>1, <2>2 DEF ChildPhases, EngineAt
  <2>5. PollingAt' /\ SandboxAt'
    BY <1>0, <2>1 DEF PollingAt, SandboxAt
  <2>6. childResult' = "error" => cut["out"] > 0 \/ wrote["out"] = 0
    BY <1>0, <2>1, <2>2 DEF EngineAt, Complete
  <2>7. EngineAt'
    BY <2>1, <2>2, <2>6 DEF EngineAt, Complete
  <2>. QED BY <2>3, <2>4, <2>5, <2>7
<1>4. CASE AnswerTimeout
  <2>1. /\ caller = "wait" /\ mode = "csharp" /\ childResult = "none" /\ drainer = "reading"
        /\ UNCHANGED <<mode, prog, heir, drainer, pipe, wrote, got, cut, workDir>>
    BY <1>4 DEF AnswerTimeout, ChildPhases
  <2>2. \/ child' = child /\ caller' = "wait" /\ childResult' = "none"
        \/ child' = "reaped" /\ caller' = "done" /\ childResult' = "timeout"
    BY <1>4, <2>1 DEF AnswerTimeout
  <2>3. ChildShape' /\ ChunksConserved'
    BY <2>1, <2>2 DEF ChildShape, ChunksConserved, Callers
  <2>4. ChildPhases'
    BY <2>1, <2>2 DEF ChildPhases, EngineAt
  <2>5. PollingAt' /\ SandboxAt'
    BY <1>0, <2>1 DEF PollingAt, SandboxAt
  <2>6. EngineAt'
    BY <2>1, <2>2 DEF EngineAt
  <2>. QED BY <2>3, <2>4, <2>5, <2>6
<1>. QED BY <1>1, <1>2, <1>3, <1>4 DEF EngineStep

\* The calls that poll, and the sandbox once both its pipes are read.
LEMMA PollKeeps == ASSUME OutputInv, PollExited \/ PollRunning \/ PollError \/ Kill PROVE OutputInv'
<1> USE DEF OutputInv
<1>0. /\ cut \in [Streams -> Nat] /\ Polling = {"plugin", "shell"} /\ caller \in {"poll", "kill"} /\ childResult = "none"
      /\ mode \in {"plugin", "shell", "sandbox"} /\ child # "none"
      /\ caller' \in {"poll", "kill", "read_out", "join", "done"}
      /\ UNCHANGED <<mode, prog, heir, drainer, pipe, wrote, got, cut, workDir>>
  BY DEF ChildShape, Polling, PollExited, PollRunning, PollError, Kill, ChildPhases
<1>1. child' = child \/ (child' = "reaped" /\ (child # "exited" => mode = "sandbox")) \/ child' = "killed"
  BY DEF PollExited, PollRunning, PollError, Kill
<1>2. child' \in {"running", "exited", "killed", "reaped"} /\ (child' = "exited" => child = "exited")
  BY <1>0, <1>1 DEF ChildShape
<1>3. /\ childResult' \in {"none", "ok", "failed", "error", "timeout"}
      /\ childResult' \in {"ok", "failed"} => child' = "reaped"
      /\ mode = "sandbox" /\ childResult' = "timeout" => child' = "reaped"
      /\ child' = "running" => child = "running"
  BY <1>0 DEF PollExited, PollRunning, PollError, Kill
<1>4. /\ caller' \in {"poll", "kill"} => childResult' = "none"
      /\ caller' = "read_out" => mode \in Polling /\ child' = "reaped"
      /\ caller' = "join" => mode = "sandbox"
      /\ caller' = "done" => mode \in Polling /\ childResult' # "ok"
  BY <1>0 DEF PollExited, PollRunning, PollError, Kill
<1>5. ChildShape' /\ ChunksConserved'
  BY <1>0, <1>2, <1>3 DEF ChildShape, ChunksConserved, Callers
<1>6. ChildPhases'
  BY <1>0, <1>2, <1>3, <1>4 DEF ChildPhases
<1>7. PollingAt'
  BY <1>0, <1>2, <1>3, <1>4 DEF PollingAt
<1>8. SandboxAt'
  BY <1>0, <1>2, <1>3, <1>4 DEF SandboxAt, Ended
<1>9. EngineAt'
  BY <1>0 DEF EngineAt
<1>. QED BY <1>5, <1>6, <1>7, <1>8, <1>9

LEMMA ReadKeeps == ASSUME OutputInv, NEW s \in Streams, ReadAfterExit(s) PROVE OutputInv'
<1> USE DEF OutputInv
<1>0. /\ pipe \in [Streams -> Nat] /\ got \in [Streams -> Nat] /\ cut \in [Streams -> Nat] /\ wrote \in [Streams -> Nat]
      /\ "out" \in Streams /\ Polling = {"plugin", "shell"} /\ s \in {"out", "err"}
      /\ MaxOut \in Nat /\ MaxErr \in Nat
  BY ChildAssumption DEF ChildShape, Streams, Polling
<1>1. /\ mode \in Polling /\ caller = (IF s = "out" THEN "read_out" ELSE "read_err") /\ child = "reaped"
      /\ UNCHANGED <<mode, prog, heir, drainer, child, wrote, cut, polls, workDir, childResult>>
  BY <1>0 DEF ReadAfterExit, ReadingOf, PollingAt
<1>2. CASE got[s] = Limit[s] \/ AtEnd(s)
  <2>1. pipe' = pipe /\ got' = got /\ caller' = IF s = "out" THEN "read_err" ELSE "done"
    BY <1>2 DEF ReadAfterExit
  <2>2. s = "out" => got["out"] = MaxOut \/ pipe["out"] = 0
    BY <1>2 DEF Limit, AtEnd
  <2>3. ChildShape' /\ ChunksConserved'
    BY <1>1, <2>1 DEF ChildShape, ChunksConserved, Callers
  <2>4. ChildPhases'
    BY <1>0, <1>1, <2>1 DEF ChildPhases
  <2>5. PollingAt'
    BY <1>0, <1>1, <2>1, <2>2 DEF PollingAt
  <2>. QED BY <1>0, <1>1, <2>3, <2>4, <2>5 DEF SandboxAt, EngineAt
<1>3. CASE ~(got[s] = Limit[s] \/ AtEnd(s))
  <2>1. /\ pipe[s] > 0 /\ pipe' = [pipe EXCEPT ![s] = @ - 1] /\ got' = [got EXCEPT ![s] = @ + 1]
        /\ caller' = caller
    BY <1>3 DEF ReadAfterExit
  <2>2. pipe' \in [Streams -> Nat]
    BY <1>0, <2>1
  <2>3. got' \in [Streams -> Nat]
    BY <1>0, <2>1
  <2>4. \A u \in Streams : pipe'[u] + got'[u] + cut'[u] = wrote'[u]
    BY <1>0, <1>1, <2>1 DEF ChunksConserved
  <2>5. s = "out" => got["out"] # MaxOut
    BY <1>3 DEF Limit
  <2>6. ChildShape' /\ ChunksConserved'
    BY <1>1, <2>1, <2>2, <2>3, <2>4 DEF ChildShape, ChunksConserved
  <2>7. ChildPhases'
    BY <1>1, <2>1 DEF ChildPhases
  <2>8. PollingAt'
    <3>1. CASE s = "out"
      <4>1. got'["out"] = got["out"] + 1 /\ caller = "read_out"
        BY <3>1, <2>1, <1>0, <1>1
      <4>2. got'["out"] <= MaxOut
        BY <3>1, <4>1, <1>0, <1>1, <2>5 DEF PollingAt
      <4>. QED BY <4>1, <4>2, <1>1, <2>1 DEF PollingAt
    <3>2. CASE s = "err"
      <4>1. got'["out"] = got["out"] /\ pipe'["out"] = pipe["out"] /\ caller = "read_err"
        BY <3>2, <2>1, <1>0, <1>1
      <4>. QED BY <4>1, <1>1, <2>1 DEF PollingAt
    <3>. QED BY <3>1, <3>2, <1>0
  <2>. QED BY <1>0, <1>1, <2>6, <2>7, <2>8 DEF SandboxAt, EngineAt
<1>. QED BY <1>2, <1>3

LEMMA OutputStep == OutputInv /\ [ChildNext]_childVars => OutputInv'
<1> SUFFICES ASSUME OutputInv, [ChildNext]_childVars PROVE OutputInv'
  OBVIOUS
<1>1. CASE \E ok \in BOOLEAN : Spawn(ok)
  BY <1>1, SpawnKeeps
<1>2. CASE DrainStdout
  BY <1>2, DrainKeeps, "out" \in Streams, "out" # "err" DEF DrainStdout, Streams
<1>10. CASE DrainStderr
  BY <1>10, DrainKeeps, "err" \in Streams, "out" # "err" DEF DrainStderr, Streams
<1>3. CASE \E s \in Streams : ReadAfterExit(s)
  BY <1>3, ReadKeeps
<1>4. CASE UNCHANGED childVars
  <2>1. ChildShape' /\ ChunksConserved'
    BY <1>4 DEF childVars, OutputInv, ChildShape, ChunksConserved
  <2>2. ChildPhases' /\ PollingAt'
    BY <1>4 DEF childVars, OutputInv, ChildPhases, PollingAt
  <2>3. SandboxAt'
    BY <1>4 DEF childVars, OutputInv, SandboxAt, Ended
  <2>4. EngineAt'
    BY <1>4 DEF childVars, OutputInv, EngineAt
  <2>. QED BY <2>1, <2>2, <2>3, <2>4 DEF OutputInv
<1>5. CASE ChildStep
  BY <1>5, ProgramKeeps
<1>6. CASE StdoutEnds \/ StderrEnds
  BY <1>6, EndsKeep
<1>7. CASE ReadLine \/ EngineStep
  BY <1>7, EngineKeeps
<1>8. CASE PollExited \/ PollRunning \/ PollError \/ Kill
  BY <1>8, PollKeeps
<1>9. CASE \/ DocumentRefused \/ MakeWorkDir \/ JoinReader \/ DropSandbox
           \/ \E ok \in BOOLEAN : CheckInterpreter(ok) \/ ValidateArguments(ok) \/ ValidateCommand(ok) \/ FindEngine(ok)
  BY <1>9, CallerKeeps
<1>. QED BY <1>1, <1>2, <1>3, <1>4, <1>5, <1>6, <1>7, <1>8, <1>9, <1>10
         DEF ChildNext, CallerStep, ReaderStep, ShellWait, PollStep

\* OutputKept: in each of the four ways a program is run (execute_process_plugin_tool,
\* shell_exec, the C# engine, the Sandbox), a call that reports success has all of the
\* program's output up to the limit, a result not marked as truncated is complete, and
\* no directory or answered child is left, for every pipe size, limit and deadline.
THEOREM OutputKeptHolds == ChildSpec => []OutputKept
<1>1. OutputInv => OutputKept
  <2> SUFFICES ASSUME OutputInv PROVE OutputKept
    OBVIOUS
  <2> USE DEF OutputInv
  <2>0. /\ pipe \in [Streams -> Nat] /\ got \in [Streams -> Nat] /\ cut \in [Streams -> Nat] /\ wrote \in [Streams -> Nat]
        /\ Streams = {"out", "err"} /\ MaxOut \in Nat
    BY ChildAssumption DEF ChildShape, Streams
  <2>1. PluginOutputWhole
    BY <2>0 DEF PluginOutputWhole, PollingAt, ChunksConserved
  <2>2. TruncationReported
    <3> SUFFICES ASSUME mode = "sandbox", caller = "done", child = "reaped", cut = NoChunks PROVE got = wrote
      BY DEF TruncationReported
    <3>1. \A s \in Streams : cut[s] = 0
      BY <2>0 DEF NoChunks
    <3>2. \A s \in Streams : got[s] = wrote[s]
      BY <2>0, <3>1 DEF SandboxAt, Ended, ChunksConserved
    <3>. QED BY <2>0, <3>2
  <2>3. SandboxCleansUp
    BY DEF SandboxCleansUp, SandboxAt
  <2>4. EngineAnswerWhole
    <3> SUFFICES ASSUME mode = "csharp", caller = "done" PROVE EngineAnswerWhole
      BY DEF EngineAnswerWhole
    <3>1. childResult = "error" /\ drainer = "ended" => cut["out"] > 0 \/ wrote["out"] = 0
      BY <2>0 DEF EngineAt
    <3>. QED BY <3>1 DEF EngineAnswerWhole, EngineAt
  <2>. QED BY <2>1, <2>2, <2>3, <2>4 DEF OutputKept
<1>. QED BY <1>1, OutputInit, OutputStep, PTL DEF ChildSpec

-----------------------------------------------------------------------------
(* Sampling.  The mutex of the callback makes the requests take turns: the     *)
(* messages of the request that holds it are the last ones of a conversation,  *)
(* and a request that has not held it yet has none.  A message taken out by    *)
(* the limit is the oldest, which shifts positions and changes no order.       *)

Messages == (Samplers \cup {Outside}) \X {"user", "assistant"}

\* Messages of no request in quiet; those of one request with no other's between
\* them; and those of request w after all others.
InTurn(q, w, quiet) ==
    /\ q \in Seq(Messages) /\ Len(q) <= MAX_HISTORY
    /\ \A i \in 1..Len(q) : q[i][1] \notin quiet
    /\ \A i, m, j \in 1..Len(q) :
         i < m /\ m < j /\ q[i][1] = q[j][1] /\ q[i][1] \in Samplers /\ q[m][1] \in Samplers => q[m][1] = q[i][1]
    /\ \A i, m \in 1..Len(q) : i < m /\ q[i][1] = w /\ q[m][1] \in Samplers => q[m][1] = w

Requests ==
    [pc : {"idle", "error", "done"}]
        \cup [pc : {"lock", "track", "callback", "answer"}, conv : Conversations, left : Nat]

\* The requests that have not held the mutex yet.
Quiet == {r \in Samplers : sampler[r].pc = "idle" \/ (sampler[r].pc = "lock" /\ handlerOwner # r)}

Holds == {"track", "callback", "answer"}

OwnerKnown ==
    /\ handlerOwner \in Samplers \cup {NoOwner}
    /\ sampler \in [Samplers -> Requests]
    /\ \A r \in Samplers : sampler[r].pc \in Holds => handlerOwner = r
    /\ \A r \in Samplers : handlerOwner = r => sampler[r].pc \in Holds \cup {"lock"}

HistoryWhole ==
    /\ IsFiniteSet(DOMAIN history) /\ Cardinality(DOMAIN history) <= MAX_CONVERSATIONS
    /\ \A k \in DOMAIN history : InTurn(history[k], handlerOwner, Quiet)

SamplingInv == OwnerKnown /\ HistoryWhole

\* Taking out the oldest message changes no order.
LEMMA TailInTurn ==
    ASSUME NEW w, NEW quiet, NEW q, InTurn(q, w, quiet), Len(q) > 0
    PROVE  InTurn(Tail(q), w, quiet)
<1> DEFINE p == Tail(q)
<1>0. q \in Seq(Messages) /\ q # <<>>
  BY DEF InTurn
<1>1. p \in Seq(Messages) /\ Len(p) = Len(q) - 1 /\ \A i \in 1..Len(p) : p[i] = q[i + 1] /\ i + 1 \in 1..Len(q)
  BY <1>0, HeadTailProperties
<1> HIDE DEF p
<1>2. p \in Seq(Messages) /\ Len(p) <= MAX_HISTORY
  BY <1>0, <1>1, SamplingAssumption DEF InTurn
<1>3. \A i \in 1..Len(p) : p[i][1] \notin quiet
  BY <1>1 DEF InTurn
<1>4. ASSUME NEW i \in 1..Len(p), NEW m \in 1..Len(p), NEW j \in 1..Len(p),
             i < m /\ m < j /\ p[i][1] = p[j][1] /\ p[i][1] \in Samplers /\ p[m][1] \in Samplers
      PROVE  p[m][1] = p[i][1]
  <2>1. i + 1 \in 1..Len(q) /\ m + 1 \in 1..Len(q) /\ j + 1 \in 1..Len(q) /\ i + 1 < m + 1 /\ m + 1 < j + 1
    BY <1>0, <1>1, <1>4
  <2>2. p[i] = q[i + 1] /\ p[m] = q[m + 1] /\ p[j] = q[j + 1]
    BY <1>1
  <2>. QED BY <2>1, <2>2, <1>4 DEF InTurn
<1>5. ASSUME NEW i \in 1..Len(p), NEW m \in 1..Len(p), i < m /\ p[i][1] = w /\ p[m][1] \in Samplers
      PROVE  p[m][1] = w
  <2>1. i + 1 \in 1..Len(q) /\ m + 1 \in 1..Len(q) /\ i + 1 < m + 1
    BY <1>0, <1>1, <1>5
  <2>2. p[i] = q[i + 1] /\ p[m] = q[m + 1]
    BY <1>1
  <2>. QED BY <2>1, <2>2, <1>5 DEF InTurn
<1>. QED BY <1>2, <1>3, <1>4, <1>5 DEF InTurn, p

\* A message of the request that holds the mutex, or of other code, comes last.
LEMMA AppendInTurn ==
    ASSUME NEW w, NEW quiet, NEW q, InTurn(q, w, quiet), Len(q) < MAX_HISTORY,
           NEW x \in Messages, x[1] \notin quiet, x[1] = w \/ x[1] \notin Samplers
    PROVE  InTurn(Append(q, x), w, quiet)
<1> DEFINE p == Append(q, x)
<1>0. q \in Seq(Messages) /\ Len(q) \in Nat
  BY LenProperties DEF InTurn
<1>1. p \in Seq(Messages) /\ Len(p) = Len(q) + 1 /\ p[Len(p)] = x /\ \A i \in 1..Len(q) : p[i] = q[i]
  BY <1>0, AppendProperties
<1> HIDE DEF p
<1>2. p \in Seq(Messages) /\ Len(p) <= MAX_HISTORY
  BY <1>0, <1>1, SamplingAssumption
<1>3. \A i \in 1..Len(p) : p[i][1] \notin quiet
  BY <1>0, <1>1 DEF InTurn
<1>4. ASSUME NEW i \in 1..Len(p), NEW m \in 1..Len(p), NEW j \in 1..Len(p),
             i < m /\ m < j /\ p[i][1] = p[j][1] /\ p[i][1] \in Samplers /\ p[m][1] \in Samplers
      PROVE  p[m][1] = p[i][1]
  <2>1. i \in 1..Len(q) /\ m \in 1..Len(q) /\ p[i] = q[i] /\ p[m] = q[m]
    BY <1>0, <1>1, <1>4
  <2>2. CASE j \in 1..Len(q)
    <3>1. p[j] = q[j]
      BY <2>2, <1>1
    <3>. QED BY <2>1, <2>2, <3>1, <1>4 DEF InTurn
  <2>3. CASE j = Len(p)
    <3>1. q[i][1] = x[1] /\ x[1] = w
      BY <2>1, <2>3, <1>1, <1>4
    <3>. QED BY <2>1, <3>1, <1>4 DEF InTurn
  <2>. QED BY <2>2, <2>3, <1>0, <1>1
<1>5. ASSUME NEW i \in 1..Len(p), NEW m \in 1..Len(p), i < m /\ p[i][1] = w /\ p[m][1] \in Samplers
      PROVE  p[m][1] = w
  <2>1. i \in 1..Len(q) /\ p[i] = q[i]
    BY <1>0, <1>1, <1>5
  <2>2. CASE m \in 1..Len(q)
    <3>1. p[m] = q[m]
      BY <2>2, <1>1
    <3>. QED BY <2>1, <2>2, <3>1, <1>5 DEF InTurn
  <2>3. CASE m = Len(p)
    BY <2>3, <1>1, <1>5
  <2>. QED BY <2>2, <2>3, <1>0, <1>1
<1>. QED BY <1>2, <1>3, <1>4, <1>5 DEF InTurn, p

\* add_to_conversation keeps the turns and both limits.
LEMMA RememberedKeeps ==
    ASSUME NEW h, NEW w, NEW quiet, NEW conv, NEW x \in Messages,
           IsFiniteSet(DOMAIN h), Cardinality(DOMAIN h) <= MAX_CONVERSATIONS,
           \A k \in DOMAIN h : InTurn(h[k], w, quiet),
           x[1] \notin quiet, x[1] = w \/ x[1] \notin Samplers,
           NEW g \in Remembered(h, conv, x)
    PROVE  /\ IsFiniteSet(DOMAIN g) /\ Cardinality(DOMAIN g) <= MAX_CONVERSATIONS
           /\ \A k \in DOMAIN g : InTurn(g[k], w, quiet)
<1> DEFINE full == conv \notin DOMAIN h /\ Cardinality(DOMAIN h) >= MAX_CONVERSATIONS
           old == IF conv \notin DOMAIN h THEN <<>>
                  ELSE IF Len(h[conv]) >= MAX_HISTORY THEN Tail(h[conv]) ELSE h[conv]
           keeps == IF full THEN {DOMAIN h \ {gone} : gone \in DOMAIN h} ELSE {DOMAIN h}
<1>1. PICK keep \in keeps : g = [k \in keep \cup {conv} |-> IF k = conv THEN Append(old, x) ELSE h[k]]
  BY DEF Remembered
<1>2. InTurn(old, w, quiet) /\ Len(old) < MAX_HISTORY
  <2>1. CASE conv \notin DOMAIN h
    <3>1. old = <<>> /\ <<>> \in Seq(Messages) /\ Len(<<>>) = 0
      BY <2>1
    <3>. QED BY <3>1, SamplingAssumption DEF InTurn
  <2>2. CASE conv \in DOMAIN h
    <3> DEFINE q == h[conv]
    <3>1. InTurn(q, w, quiet) /\ q \in Seq(Messages) /\ Len(q) <= MAX_HISTORY /\ Len(q) \in Nat
      BY <2>2, LenProperties DEF InTurn
    <3>2. CASE Len(q) >= MAX_HISTORY
      <4>1. old = Tail(q) /\ Len(q) > 0
        BY <2>2, <3>1, <3>2, SamplingAssumption
      <4>2. Len(Tail(q)) = Len(q) - 1
        BY <3>1, <4>1, HeadTailProperties
      <4>3. InTurn(Tail(q), w, quiet)
        BY <3>1, <4>1, TailInTurn
      <4>. QED BY <3>1, <4>1, <4>2, <4>3, SamplingAssumption
    <3>3. CASE ~(Len(q) >= MAX_HISTORY)
      <4>1. old = q /\ Len(q) < MAX_HISTORY
        BY <2>2, <3>1, <3>3, SamplingAssumption
      <4>. QED BY <3>1, <4>1
    <3>. QED BY <3>2, <3>3
  <2>. QED BY <2>1, <2>2
<1> HIDE DEF old
<1>3. InTurn(Append(old, x), w, quiet)
  BY <1>2, AppendInTurn
<1>4. keep \subseteq DOMAIN h
  BY <1>1
<1>5. IsFiniteSet(keep) /\ Cardinality(keep) \in Nat /\ Cardinality(DOMAIN h) \in Nat
  BY <1>4, FS_Subset, FS_CardinalityType
<1>6. conv \in keep \/ Cardinality(keep) + 1 <= MAX_CONVERSATIONS
  <2>1. CASE full
    <3>1. PICK gone \in DOMAIN h : keep = DOMAIN h \ {gone}
      BY <1>1, <2>1
    <3>2. Cardinality(keep) = Cardinality(DOMAIN h) - 1
      BY <3>1, FS_RemoveElement
    <3>. QED BY <3>2, <1>5, SamplingAssumption
  <2>2. CASE ~full
    <3>1. keep = DOMAIN h
      BY <1>1, <2>2
    <3>. QED BY <3>1, <2>2, <1>5, SamplingAssumption
  <2>. QED BY <2>1, <2>2
<1>7. IsFiniteSet(keep \cup {conv}) /\ Cardinality(keep \cup {conv}) <= MAX_CONVERSATIONS
  <2>1. CASE conv \in keep
    <3>1. keep \cup {conv} = keep /\ Cardinality(keep) <= Cardinality(DOMAIN h)
      BY <2>1, <1>4, FS_Subset
    <3>. QED BY <3>1, <1>5, SamplingAssumption
  <2>2. CASE conv \notin keep
    <3>1. IsFiniteSet(keep \cup {conv}) /\ Cardinality(keep \cup {conv}) = Cardinality(keep) + 1
      BY <2>2, <1>5, FS_AddElement
    <3>. QED BY <3>1, <2>2, <1>6
  <2>. QED BY <2>1, <2>2
<1>8. DOMAIN g = keep \cup {conv} /\ \A k \in DOMAIN g : g[k] = Append(old, x) \/ (k \in DOMAIN h /\ g[k] = h[k])
  BY <1>1, <1>4
<1>. QED BY <1>3, <1>7, <1>8

LEMMA SamplingStart == SamplingInit => SamplingInv
<1> SUFFICES ASSUME SamplingInit PROVE SamplingInv
  OBVIOUS
<1>1. OwnerKnown
  BY SamplingAssumption DEF SamplingInit, OwnerKnown, AtRest, Requests, Holds
<1>2. DOMAIN history = {}
  BY DEF SamplingInit
<1>3. IsFiniteSet({}) /\ Cardinality({}) = 0
  BY FS_EmptySet
<1>. QED BY <1>1, <1>2, <1>3, SamplingAssumption DEF SamplingInv, HistoryWhole

\* A step that leaves the histories alone keeps them in turn when no request
\* becomes quiet, and the mutex passes to nobody or to a quiet request.
LEMMA TurnPasses ==
    ASSUME SamplingInv, UNCHANGED history, Quiet' \subseteq Quiet,
           handlerOwner' \in {handlerOwner, NoOwner} \cup Quiet
    PROVE  HistoryWhole'
<1>1. SUFFICES ASSUME NEW k \in DOMAIN history PROVE InTurn(history[k], handlerOwner', Quiet')
  BY DEF HistoryWhole, SamplingInv
<1>2. PICK q : q = history[k] /\ InTurn(q, handlerOwner, Quiet)
  BY DEF HistoryWhole, SamplingInv
<1>3. \A i \in 1..Len(q) : q[i][1] \notin Quiet'
  BY <1>2 DEF InTurn
<1>4. ASSUME NEW i \in 1..Len(q), NEW m \in 1..Len(q), i < m /\ q[i][1] = handlerOwner' /\ q[m][1] \in Samplers
      PROVE  q[m][1] = handlerOwner'
  <2>1. q[i] \in Messages /\ q[i][1] \in Samplers \cup {Outside}
    BY <1>2 DEF InTurn, Messages
  <2>2. q[i][1] # NoOwner
    BY <2>1, SamplingAssumption DEF NoOwner, Outside
  <2>. QED BY <1>2, <1>4, <2>2 DEF InTurn
<1>. QED BY <1>2, <1>3, <1>4 DEF InTurn

LEMMA SamplingStep == SamplingInv /\ [SamplingNext]_samplingVars => SamplingInv'
<1> SUFFICES ASSUME SamplingInv, [SamplingNext]_samplingVars PROVE SamplingInv'
  OBVIOUS
<1> USE DEF SamplingInv
<1>0. sampler \in [Samplers -> Requests]
  BY DEF OwnerKnown
<1>1. ASSUME NEW r \in Samplers, AskRefused(r) PROVE SamplingInv'
  <2>1. sampler[r].pc = "idle" /\ sampler' = [sampler EXCEPT ![r] = [pc |-> "error"]]
        /\ UNCHANGED <<handlerOwner, history>>
    BY <1>1 DEF AskRefused, AtRest
  <2>2. OwnerKnown'
    BY <1>0, <2>1 DEF OwnerKnown, Requests, Holds
  <2>3. Quiet' \subseteq Quiet
    BY <1>0, <2>1 DEF Quiet
  <2>. QED BY <2>1, <2>2, <2>3, TurnPasses
<1>2. ASSUME NEW r \in Samplers, NEW conv \in Conversations, Ask(r, conv) PROVE SamplingInv'
  <2>1. sampler[r].pc = "idle" /\ sampler' = [sampler EXCEPT ![r] = [pc |-> "lock", conv |-> conv, left |-> Turn]]
        /\ UNCHANGED <<handlerOwner, history>>
    BY <1>2 DEF Ask, AtRest
  <2>2. OwnerKnown'
    BY <1>0, <2>1, SamplingAssumption DEF OwnerKnown, Requests, Holds
  <2>3. Quiet' \subseteq Quiet
    BY <1>0, <2>1 DEF Quiet
  <2>. QED BY <2>1, <2>2, <2>3, TurnPasses
<1>3. ASSUME NEW r \in Samplers, LockHandler(r) PROVE SamplingInv'
  <2>1. /\ sampler[r].pc = "lock" /\ handlerOwner = NoOwner /\ handlerOwner' = r /\ history' = history
        /\ sampler' = [sampler EXCEPT ![r].pc = "track"]
    BY <1>3 DEF LockHandler
  <2>2. sampler' \in [Samplers -> Requests] /\ sampler'[r].pc = "track" /\ \A o \in Samplers : o # r => sampler'[o] = sampler[o]
    BY <1>0, <2>1 DEF Requests
  <2>3. OwnerKnown'
    BY <2>1, <2>2, SamplingAssumption DEF OwnerKnown, Holds
  <2>4. Quiet' \subseteq Quiet /\ r \in Quiet
    BY <2>1, <2>2, SamplingAssumption DEF Quiet
  <2>. QED BY <2>1, <2>3, <2>4, TurnPasses
<1>4. ASSUME NEW r \in Samplers, Track(r) PROVE SamplingInv'
  <2>1. sampler[r].pc = "track" /\ handlerOwner' = handlerOwner /\ handlerOwner = r
    BY <1>4 DEF Track, OwnerKnown, Holds
  <2>2. CASE sampler[r].left = 0
    <3>1. sampler' = [sampler EXCEPT ![r].pc = "callback"] /\ history' = history
      BY <2>2, <1>4 DEF Track
    <3>2. sampler' \in [Samplers -> Requests] /\ sampler'[r].pc = "callback" /\ \A o \in Samplers : o # r => sampler'[o] = sampler[o]
      BY <1>0, <2>1, <3>1 DEF Requests
    <3>3. OwnerKnown'
      BY <2>1, <3>2 DEF OwnerKnown, Holds
    <3>4. Quiet' \subseteq Quiet
      BY <2>1, <3>2 DEF Quiet
    <3>. QED BY <2>1, <3>1, <3>3, <3>4, TurnPasses
  <2>3. CASE sampler[r].left # 0
    <3>1. sampler' = [sampler EXCEPT ![r].left = @ - 1] /\ history' \in Remembered(history, sampler[r].conv, <<r, "user">>)
      BY <2>3, <1>4 DEF Track
    <3>2. sampler' \in [Samplers -> Requests] /\ \A o \in Samplers : sampler'[o].pc = sampler[o].pc
      BY <1>0, <2>1, <2>3, <3>1 DEF Requests
    <3>3. OwnerKnown'
      BY <2>1, <3>2 DEF OwnerKnown
    <3>4. Quiet' = Quiet /\ r \notin Quiet
      BY <2>1, <3>2 DEF Quiet
    <3>5. <<r, "user">> \in Messages /\ <<r, "user">>[1] = r
      BY DEF Messages
    <3>6. /\ IsFiniteSet(DOMAIN history') /\ Cardinality(DOMAIN history') <= MAX_CONVERSATIONS
          /\ \A k \in DOMAIN history' : InTurn(history'[k], handlerOwner, Quiet)
      BY <2>1, <3>1, <3>4, <3>5, RememberedKeeps DEF HistoryWhole
    <3>. QED BY <2>1, <3>3, <3>4, <3>6 DEF HistoryWhole
  <2>. QED BY <2>2, <2>3
<1>5. ASSUME NEW r \in Samplers, CallbackReturns(r) \/ CallbackAsks(r) PROVE SamplingInv'
  <2>1. PICK v \in {"answer", "lock"} :
          /\ sampler[r].pc = "callback" /\ handlerOwner' = handlerOwner /\ handlerOwner = r /\ history' = history
          /\ sampler' = [sampler EXCEPT ![r].pc = v]
    BY <1>5 DEF CallbackReturns, CallbackAsks, OwnerKnown, Holds
  <2>2. sampler' \in [Samplers -> Requests] /\ sampler'[r].pc = v /\ \A o \in Samplers : o # r => sampler'[o] = sampler[o]
    BY <1>0, <2>1 DEF Requests
  <2>3. OwnerKnown'
    BY <2>1, <2>2 DEF OwnerKnown, Holds
  <2>4. Quiet' \subseteq Quiet
    BY <2>1, <2>2 DEF Quiet
  <2>. QED BY <2>1, <2>3, <2>4, TurnPasses
<1>6. ASSUME NEW r \in Samplers, CallbackFails(r) PROVE SamplingInv'
  <2>1. /\ sampler[r].pc = "callback" /\ handlerOwner = r /\ handlerOwner' = NoOwner /\ history' = history
        /\ sampler' = [sampler EXCEPT ![r] = [pc |-> "error"]]
    BY <1>6 DEF CallbackFails, Unlocked, OwnerKnown, Holds
  <2>2. OwnerKnown'
    BY <1>0, <2>1, SamplingAssumption DEF OwnerKnown, Requests, Holds
  <2>3. Quiet' \subseteq Quiet
    BY <1>0, <2>1 DEF Quiet
  <2>. QED BY <2>1, <2>2, <2>3, TurnPasses
<1>7. ASSUME NEW r \in Samplers, Answer(r) PROVE SamplingInv'
  <2>1. /\ sampler[r].pc = "answer" /\ handlerOwner = r /\ handlerOwner' = NoOwner
        /\ sampler' = [sampler EXCEPT ![r] = [pc |-> "done"]]
        /\ history' \in Remembered(history, sampler[r].conv, <<r, "assistant">>)
    BY <1>7 DEF Answer, Unlocked, OwnerKnown, Holds
  <2>2. OwnerKnown'
    BY <1>0, <2>1, SamplingAssumption DEF OwnerKnown, Requests, Holds
  <2>3. Quiet' \subseteq Quiet /\ r \notin Quiet
    BY <1>0, <2>1 DEF Quiet
  <2>4. <<r, "assistant">> \in Messages /\ <<r, "assistant">>[1] = r
    BY DEF Messages
  <2>5. /\ IsFiniteSet(DOMAIN history') /\ Cardinality(DOMAIN history') <= MAX_CONVERSATIONS
        /\ \A k \in DOMAIN history' : InTurn(history'[k], handlerOwner, Quiet)
    BY <2>1, <2>3, <2>4, RememberedKeeps DEF HistoryWhole
  <2>6. ASSUME NEW k \in DOMAIN history' PROVE InTurn(history'[k], handlerOwner', Quiet')
    <3>1. PICK q : q = history'[k] /\ InTurn(q, handlerOwner, Quiet)
      BY <2>5
    <3>2. \A i \in 1..Len(q) : q[i] \in Messages /\ q[i][1] # NoOwner
      <4>1. \A y \in Messages : y[1] \in Samplers \cup {Outside}
        BY DEF Messages
      <4>2. \A i \in 1..Len(q) : q[i] \in Messages
        BY <3>1 DEF InTurn
      <4>3. NoOwner \notin Samplers \cup {Outside}
        BY SamplingAssumption DEF NoOwner, Outside
      <4>. QED BY <4>1, <4>2, <4>3
    <3>. QED BY <3>1, <3>2, <2>1, <2>3 DEF InTurn
  <2>. QED BY <2>2, <2>5, <2>6 DEF HistoryWhole
<1>8. ASSUME NEW conv \in Conversations, AddOutside(conv) PROVE SamplingInv'
  <2>1. UNCHANGED <<handlerOwner, sampler>> /\ history' \in Remembered(history, conv, <<Outside, "user">>)
    BY <1>8 DEF AddOutside
  <2>2. OwnerKnown' /\ Quiet' = Quiet /\ Outside \notin Quiet
    BY <2>1, SamplingAssumption DEF OwnerKnown, Quiet
  <2>3. <<Outside, "user">> \in Messages /\ <<Outside, "user">>[1] = Outside
    BY DEF Messages
  <2>4. /\ IsFiniteSet(DOMAIN history') /\ Cardinality(DOMAIN history') <= MAX_CONVERSATIONS
        /\ \A k \in DOMAIN history' : InTurn(history'[k], handlerOwner, Quiet)
    BY <2>1, <2>2, <2>3, RememberedKeeps, SamplingAssumption DEF HistoryWhole
  <2>. QED BY <2>1, <2>2, <2>4 DEF HistoryWhole
<1>9. ASSUME NEW conv \in Conversations, ClearConversation(conv) PROVE SamplingInv'
  <2>1. UNCHANGED <<handlerOwner, sampler>> /\ history' = [k \in DOMAIN history \ {conv} |-> history[k]]
    BY <1>9 DEF ClearConversation
  <2>2. OwnerKnown' /\ Quiet' = Quiet
    BY <2>1 DEF OwnerKnown, Quiet
  <2>3. DOMAIN history' = DOMAIN history \ {conv} /\ \A k \in DOMAIN history' : history'[k] = history[k] /\ k \in DOMAIN history
    BY <2>1
  <2>4. /\ IsFiniteSet(DOMAIN history') /\ Cardinality(DOMAIN history') <= Cardinality(DOMAIN history)
        /\ Cardinality(DOMAIN history') \in Nat /\ Cardinality(DOMAIN history) \in Nat
    BY <2>3, FS_Subset, FS_CardinalityType DEF HistoryWhole
  <2>5. Cardinality(DOMAIN history') <= MAX_CONVERSATIONS
    BY <2>4, SamplingAssumption DEF HistoryWhole
  <2>. QED BY <2>1, <2>2, <2>3, <2>4, <2>5 DEF HistoryWhole
<1>10. CASE SetSamplingHandler \/ UNCHANGED samplingVars
  <2>1. UNCHANGED <<handlerOwner, sampler, history>>
    BY <1>10 DEF SetSamplingHandler, samplingVars
  <2>. QED BY <2>1, TurnPasses DEF OwnerKnown, Quiet
<1>. QED BY <1>1, <1>2, <1>3, <1>4, <1>5, <1>6, <1>7, <1>8, <1>9, <1>10 DEF SamplingNext

\* TurnsKept: handle_sampling_create_message holds the mutex of the callback from the
\* first message it records to the answer, so that in every conversation no message of
\* one request stands between two of another, and both limits of add_to_conversation
\* hold, for any number of requests and conversations.
THEOREM TurnsKeptHolds == SamplingSpec => []TurnsKept
<1>1. SamplingInv => TurnsKept
  <2> SUFFICES ASSUME SamplingInv PROVE TurnsKept
    OBVIOUS
  <2>1. HistoryBounded
    BY DEF SamplingInv, HistoryWhole, HistoryBounded, InTurn
  <2>2. ASSUME NEW k \in DOMAIN history, NEW r \in Samplers, NEW o \in Samplers, r # o,
               NEW i \in Of(r, history[k]), NEW j \in Of(r, history[k]), NEW m \in Of(o, history[k])
        PROVE  ~(i < m /\ m < j)
    <3>1. InTurn(history[k], handlerOwner, Quiet)
      BY DEF SamplingInv, HistoryWhole
    <3>2. DOMAIN history[k] = 1..Len(history[k])
      BY <3>1 DEF InTurn
    <3>3. /\ i \in 1..Len(history[k]) /\ j \in 1..Len(history[k]) /\ m \in 1..Len(history[k])
          /\ history[k][i][1] = r /\ history[k][j][1] = r /\ history[k][m][1] = o
      BY <3>2 DEF Of
    <3>. QED BY <3>1, <3>3, <2>2 DEF InTurn
  <2>. QED BY <2>1, <2>2 DEF TurnsKept, TurnsApart
<1>. QED BY <1>1, SamplingStart, SamplingStep, PTL DEF SamplingSpec

-----------------------------------------------------------------------------
(* Streamed results.  What the client has, what is in the channel and what is  *)
(* left to send are, in this order, the chunks of one result.                  *)

\* chunk_result: the chunks of a result cover it, numbered, with the last one final.
LEMMA ChunksTile ==
    ASSUME NEW n \in Nat, NEW size \in Nat \ {0}, NEW all, all = ChunkResult(Numbered(n), size)
    PROVE  /\ all \in Seq([id : Nat, part : Seq(Nat), final : BOOLEAN])
           /\ Tiles(all, Numbered(n))
           /\ \A i \in 1..Len(all) : all[i].id = i - 1 /\ (all[i].final <=> i = Len(all))
<1> DEFINE data == Numbered(n)
           k == DivCeil(n, size)
           cutAt(i) == IF i * size < n THEN i * size ELSE n
<1>1. data \in Seq(Nat) /\ Len(data) = n
  BY DEF Numbered
<1>2. k \in Nat /\ k * size >= n /\ (k > 0 => (k - 1) * size < n) /\ (n = 0 => k = 0) /\ (n > 0 => k > 0)
  BY DEF DivCeil
<1>3. \A i \in 0..k : cutAt(i) \in 0..n
  BY <1>2
<1>4. cutAt(0) = 0 /\ cutAt(k) = n
  BY <1>2
<1>5. \A i \in 1..k : (i - 1) * size \in Nat /\ (i - 1) * size < n /\ cutAt(i - 1) = (i - 1) * size /\ cutAt(i - 1) <= cutAt(i)
  <2> SUFFICES ASSUME NEW i \in 1..k
               PROVE  (i - 1) * size \in Nat /\ (i - 1) * size < n /\ cutAt(i - 1) = (i - 1) * size /\ cutAt(i - 1) <= cutAt(i)
    OBVIOUS
  <2>1. i - 1 \in Nat /\ i - 1 <= k - 1 /\ k > 0
    BY <1>2
  <2>2. (i - 1) * size <= (k - 1) * size /\ (i - 1) * size \in Nat
    BY <2>1, <1>2
  <2>3. i * size = (i - 1) * size + size
    BY <2>1
  <2>. QED BY <2>1, <2>2, <2>3, <1>2
<1> HIDE DEF k
<1>6. all = [i \in 1..k |->
               [id |-> i - 1, part |-> SubSeq(data, (i - 1) * size + 1, cutAt(i)), final |-> i - 1 = k - 1]]
  BY <1>1 DEF ChunkResult, k
<1> HIDE DEF data, cutAt
<1>7. \A i \in 1..k : SubSeq(data, cutAt(i - 1) + 1, cutAt(i)) \in Seq(Nat)
  <2> SUFFICES ASSUME NEW i \in 1..k PROVE SubSeq(data, cutAt(i - 1) + 1, cutAt(i)) \in Seq(Nat)
    OBVIOUS
  <2>1. cutAt(i - 1) \in 0..n /\ cutAt(i) \in 0..n
    BY <1>2, <1>3
  <2>. QED BY <2>1, <1>1
<1>8. Len(all) = k /\ \A i \in 1..k : /\ all[i].id = i - 1 /\ all[i].part = SubSeq(data, cutAt(i - 1) + 1, cutAt(i))
                                      /\ all[i].final = (i - 1 = k - 1)
  BY <1>2, <1>5, <1>6
<1>9. all \in Seq([id : Nat, part : Seq(Nat), final : BOOLEAN])
  <2>1. \A i \in 1..k : all[i] \in [id : Nat, part : Seq(Nat), final : BOOLEAN]
    BY <1>2, <1>5, <1>6, <1>7
  <2>. QED BY <2>1, <1>2, <1>6
<1>10. Tiles(all, data)
  <2> DEFINE cuts == [i \in 0..k |-> cutAt(i)]
  <2>1. cuts \in [0..Len(all) -> 0..Len(data)]
    BY <1>1, <1>3, <1>8
  <2>2. cuts[0] = 0 /\ cuts[Len(all)] = Len(data)
    BY <1>1, <1>2, <1>4, <1>8
  <2>3. \A i \in 1..Len(all) : cuts[i - 1] <= cuts[i] /\ all[i].part = SubSeq(data, cuts[i - 1] + 1, cuts[i])
    <3> SUFFICES ASSUME NEW i \in 1..k
                 PROVE  cuts[i - 1] <= cuts[i] /\ all[i].part = SubSeq(data, cuts[i - 1] + 1, cuts[i])
      BY <1>8
    <3>1. cuts[i - 1] = cutAt(i - 1) /\ cuts[i] = cutAt(i)
      BY <1>2
    <3>. QED BY <3>1, <1>5, <1>8
  <2>. QED BY <2>1, <2>2, <2>3 DEF Tiles
<1>11. \A i \in 1..Len(all) : all[i].id = i - 1 /\ (all[i].final <=> i = Len(all))
  <2> SUFFICES ASSUME NEW i \in 1..k PROVE all[i].id = i - 1 /\ (all[i].final <=> i = k)
    BY <1>8
  <2>1. (i - 1 = k - 1) <=> (i = k)
    BY <1>2
  <2>2. all[i].id = i - 1 /\ all[i].final = (i - 1 = k - 1)
    BY <1>8
  <2>. QED BY <2>1, <2>2, Zenon
<1>. QED BY <1>9, <1>10, <1>11 DEF data

Chunks == [id : Nat, part : Seq(Nat), final : BOOLEAN]

Sendings ==
    [pc : {"send", "record", "done"}, token : Tokens, data : Seq(Nat), left : Seq(Chunks),
     channel : Seq(Chunks), got : Seq(Chunks), open : BOOLEAN, sent : Nat]

Tasks == [pc : {"idle"}] \cup Sendings

\* What was received (g), what is in the channel (c) and what is left (l) are the
\* chunks all, one after the other.
InOrder(g, c, l, all) ==
    /\ Len(g) + Len(c) + Len(l) = Len(all)
    /\ \A i \in 1..Len(g) : g[i] = all[i]
    /\ \A i \in 1..Len(c) : c[i] = all[Len(g) + i]
    /\ \A i \in 1..Len(l) : l[i] = all[Len(g) + Len(c) + i]

\* The stream of one task.
StreamSound(s) ==
    s.pc # "idle" =>
        /\ \E n \in Lengths, size \in ChunkSizes :
             s.data = Numbered(n) /\ (s.open => InOrder(s.got, s.channel, s.left, ChunkResult(Numbered(n), size)))
        /\ s.pc = "done" /\ s.open => s.left = <<>>
        /\ s.pc = "record" => s.sent >= 1

UsesKey(s, key) == s.pc # "idle" /\ KeyOf[s.token] = key

\* Chunks of a task that record_streaming_chunk has been called for.
Recorded(s) == IF s.pc = "record" THEN s.sent - 1 ELSE s.sent

\* A key that was not taken twice is counted by one task at most.
CountSound ==
    /\ \A k \in DOMAIN states : states[k] \in Nat
    /\ \A t, o \in StreamTasks : t # o /\ stream[t].pc # "idle" /\ stream[o].pc # "idle"
          /\ KeyOf[stream[t].token] = KeyOf[stream[o].token] => KeyOf[stream[t].token] \in started
    /\ \A k \in DOMAIN states \ started :
         /\ states[k] = 0 \/ \E t \in StreamTasks : UsesKey(stream[t], k)
         /\ \A t \in StreamTasks : UsesKey(stream[t], k) => states[k] <= Recorded(stream[t])

StreamingInv ==
    /\ stream \in [StreamTasks -> Tasks]
    /\ \A t \in StreamTasks : StreamSound(stream[t])
    /\ CountSound

LEMMA ChunksTyped == \A n \in Lengths, size \in ChunkSizes : ChunkResult(Numbered(n), size) \in Seq(Chunks)
BY ChunksTile, StreamingAssumption DEF Chunks

LEMMA StreamingStart == StreamingInit => StreamingInv
BY DEF StreamingInit, StreamingInv, Tasks, StreamSound, CountSound, UsesKey

\* A step of one task that keeps its token and records nothing keeps the counts.
LEMMA CountKeeps ==
    ASSUME StreamingInv, NEW t \in StreamTasks, NEW s \in Tasks, stream[t].pc # "idle", s.pc # "idle",
           s.token = stream[t].token, Recorded(s) >= Recorded(stream[t]),
           stream' = [stream EXCEPT ![t] = s], UNCHANGED <<states, started>>
    PROVE  CountSound'
<1>1. \A o \in StreamTasks : stream'[o] = IF o = t THEN s ELSE stream[o]
  BY DEF StreamingInv
<1>2. \A k : \A o \in StreamTasks : UsesKey(stream'[o], k) <=> UsesKey(stream[o], k)
  BY <1>1 DEF UsesKey
<1>3. \A o \in StreamTasks : stream[o].pc # "idle" => Recorded(stream[o]) \in Int /\ Recorded(stream'[o]) \in Int
  BY <1>1 DEF StreamingInv, Recorded, Tasks, Sendings
<1>4. \A o \in StreamTasks : Recorded(stream'[o]) >= Recorded(stream[o]) \/ stream[o].pc = "idle"
  BY <1>1, <1>3
<1>5. \A o, u \in StreamTasks : o # u /\ stream'[o].pc # "idle" /\ stream'[u].pc # "idle"
          /\ KeyOf[stream'[o].token] = KeyOf[stream'[u].token] => KeyOf[stream'[o].token] \in started
  BY <1>1 DEF StreamingInv, CountSound
<1>6. ASSUME NEW k \in DOMAIN states \ started
      PROVE  /\ states[k] = 0 \/ \E o \in StreamTasks : UsesKey(stream'[o], k)
             /\ \A o \in StreamTasks : UsesKey(stream'[o], k) => states[k] <= Recorded(stream'[o])
  <2>1. states[k] = 0 \/ \E o \in StreamTasks : UsesKey(stream'[o], k)
    BY <1>2 DEF StreamingInv, CountSound
  <2>2. ASSUME NEW o \in StreamTasks, UsesKey(stream'[o], k) PROVE states[k] <= Recorded(stream'[o])
    <3>1. UsesKey(stream[o], k) /\ stream[o].pc # "idle" /\ states[k] \in Nat
      BY <2>2, <1>2 DEF UsesKey, StreamingInv, CountSound
    <3>2. states[k] <= Recorded(stream[o])
      BY <3>1 DEF StreamingInv, CountSound
    <3>. QED BY <3>1, <3>2, <1>3, <1>4
  <2>. QED BY <2>1, <2>2
<1>. QED BY <1>5, <1>6 DEF CountSound, StreamingInv

LEMMA Shifted == ASSUME NEW a \in Nat, NEW b \in Nat, NEW e \in Nat, NEW x \in Nat, NEW y \in Nat,
                        x = b + 1, y = e - 1
                 PROVE  a + x + y = a + b + e /\ x + y = b + e
OBVIOUS

\* A chunk goes from what is left into the channel, and from the channel to the client.
LEMMA SendInOrder ==
    ASSUME NEW g \in Seq(Chunks), NEW c \in Seq(Chunks), NEW l \in Seq(Chunks), NEW all \in Seq(Chunks), l # <<>>,
           InOrder(g, c, l, all)
    PROVE  InOrder(g, Append(c, Head(l)), Tail(l), all)
<1>1. PICK d \in Seq(Chunks), m \in Seq(Chunks) : d = Append(c, Head(l)) /\ m = Tail(l)
  BY HeadTailProperties, AppendProperties
<1>2. Len(g) \in Nat /\ Len(c) \in Nat /\ Len(l) \in Nat /\ Len(all) \in Nat /\ Len(d) \in Nat /\ Len(m) \in Nat
  BY LenProperties
<1>3. Len(l) > 0 /\ Len(d) = Len(c) + 1 /\ Len(m) = Len(l) - 1
  BY <1>1, HeadTailProperties, AppendProperties
<1>4. (\A i \in 1..Len(c) : d[i] = c[i]) /\ d[Len(c) + 1] = l[1] /\ \A i \in 1..Len(m) : m[i] = l[i + 1]
  BY <1>1, HeadTailProperties, AppendProperties
<1>5. /\ Len(g) + Len(c) + Len(l) = Len(all) /\ (\A i \in 1..Len(g) : g[i] = all[i])
      /\ (\A i \in 1..Len(c) : c[i] = all[Len(g) + i]) /\ \A i \in 1..Len(l) : l[i] = all[Len(g) + Len(c) + i]
  BY DEF InOrder
<1>6. ASSUME NEW i \in 1..Len(d) PROVE d[i] = all[Len(g) + i]
  <2>1. CASE i \in 1..Len(c)
    BY <2>1, <1>4, <1>5
  <2>2. CASE i = Len(c) + 1
    BY <2>2, <1>2, <1>3, <1>4, <1>5
  <2>. QED BY <2>1, <2>2, <1>2, <1>3
<1>7. ASSUME NEW i \in 1..Len(m) PROVE m[i] = all[Len(g) + Len(d) + i]
  <2>1. i + 1 \in 1..Len(l) /\ Len(g) + Len(d) + i = Len(g) + Len(c) + (i + 1)
    BY <1>2, <1>3
  <2>. QED BY <2>1, <1>4, <1>5
<1>8. Len(g) + Len(d) + Len(m) = Len(all)
  <2>1. Len(g) + Len(d) + Len(m) = Len(g) + Len(c) + Len(l)
    BY <1>2, <1>3, Shifted
  <2>. QED BY <2>1, <1>5
<1>9. InOrder(g, d, m, all)
  BY <1>5, <1>6, <1>7, <1>8 DEF InOrder
<1>. QED BY <1>1, <1>9

LEMMA ReceiveInOrder ==
    ASSUME NEW g \in Seq(Chunks), NEW c \in Seq(Chunks), NEW l \in Seq(Chunks), NEW all \in Seq(Chunks), c # <<>>,
           InOrder(g, c, l, all)
    PROVE  InOrder(Append(g, Head(c)), Tail(c), l, all)
<1>1. PICK h \in Seq(Chunks), m \in Seq(Chunks) : h = Append(g, Head(c)) /\ m = Tail(c)
  BY HeadTailProperties, AppendProperties
<1>2. Len(g) \in Nat /\ Len(c) \in Nat /\ Len(l) \in Nat /\ Len(all) \in Nat /\ Len(h) \in Nat /\ Len(m) \in Nat
  BY LenProperties
<1>3. Len(c) > 0 /\ Len(h) = Len(g) + 1 /\ Len(m) = Len(c) - 1
  BY <1>1, HeadTailProperties, AppendProperties
<1>4. (\A i \in 1..Len(g) : h[i] = g[i]) /\ h[Len(g) + 1] = c[1] /\ \A i \in 1..Len(m) : m[i] = c[i + 1]
  BY <1>1, HeadTailProperties, AppendProperties
<1>5. /\ Len(g) + Len(c) + Len(l) = Len(all) /\ (\A i \in 1..Len(g) : g[i] = all[i])
      /\ (\A i \in 1..Len(c) : c[i] = all[Len(g) + i]) /\ \A i \in 1..Len(l) : l[i] = all[Len(g) + Len(c) + i]
  BY DEF InOrder
<1>6. ASSUME NEW i \in 1..Len(h) PROVE h[i] = all[i]
  <2>1. CASE i \in 1..Len(g)
    BY <2>1, <1>4, <1>5
  <2>2. CASE i = Len(g) + 1
    BY <2>2, <1>2, <1>3, <1>4, <1>5
  <2>. QED BY <2>1, <2>2, <1>2, <1>3
<1>7. ASSUME NEW i \in 1..Len(m) PROVE m[i] = all[Len(h) + i]
  <2>1. i + 1 \in 1..Len(c) /\ Len(h) + i = Len(g) + (i + 1)
    BY <1>2, <1>3
  <2>. QED BY <2>1, <1>4, <1>5
<1>8. Len(h) + Len(m) + Len(l) = Len(all) /\ Len(h) + Len(m) = Len(g) + Len(c)
  <2>1. Len(h) + Len(m) = Len(g) + Len(c)
    BY <1>2, <1>3, Shifted
  <2>. QED BY <2>1, <1>5
<1>9. InOrder(h, m, l, all)
  BY <1>5, <1>6, <1>7, <1>8 DEF InOrder
<1>. QED BY <1>1, <1>9

\* One task steps, and what it becomes is sound.
LEMMA TaskKeeps ==
    ASSUME StreamingInv, NEW t \in StreamTasks, NEW s \in Tasks, StreamSound(s),
           stream' = [stream EXCEPT ![t] = s], CountSound'
    PROVE  StreamingInv'
<1>1. stream' \in [StreamTasks -> Tasks]
  BY DEF StreamingInv
<1>2. ASSUME NEW o \in StreamTasks PROVE StreamSound(stream[o])'
  <2>1. PICK v : v = stream'[o] /\ StreamSound(v)
    BY DEF StreamingInv
  <2>. QED BY <2>1 DEF StreamSound
<1>. QED BY <1>1, <1>2 DEF StreamingInv

LEMMA SendKeeps == ASSUME StreamingInv, NEW t \in StreamTasks, SendChunk(t) PROVE StreamingInv'
<1> DEFINE v == stream[t]
<1>1. v \in Sendings /\ v.pc = "send" /\ v.left # <<>> /\ StreamSound(v)
  BY DEF SendChunk, StreamingInv, Tasks
<1>2. /\ v.token \in Tokens /\ v.data \in Seq(Nat) /\ v.left \in Seq(Chunks) /\ v.channel \in Seq(Chunks)
      /\ v.got \in Seq(Chunks) /\ v.open \in BOOLEAN /\ v.sent \in Nat
  BY <1>1 DEF Sendings
<1>3. CASE ~v.open
  <2> DEFINE s == [v EXCEPT !.pc = "done"]
  <2>1. stream' = [stream EXCEPT ![t] = s] /\ UNCHANGED <<states, started>>
    BY <1>3 DEF SendChunk
  <2>2. s \in Sendings
    BY <1>1, <1>2 DEF Sendings
  <2>3. s.pc = "done" /\ s.token = v.token /\ s.data = v.data /\ s.open = v.open /\ s.sent = v.sent
    BY <1>1, <1>2 DEF Sendings
  <2> HIDE DEF s
  <2>4. StreamSound(s)
    BY <1>1, <1>3, <2>3 DEF StreamSound
  <2>5. Recorded(s) >= Recorded(v)
    BY <1>1, <1>2, <2>3 DEF Recorded
  <2>. QED BY <1>1, <2>1, <2>2, <2>3, <2>4, <2>5, CountKeeps, TaskKeeps DEF Tasks
<1>4. CASE v.open
  <2> DEFINE s == [v EXCEPT !.left = Tail(v.left), !.sent = v.sent + 1, !.channel = Append(v.channel, Head(v.left)), !.pc = "record"]
  <2>1. stream' = [stream EXCEPT ![t] = s] /\ UNCHANGED <<states, started>>
    BY <1>1, <1>4 DEF SendChunk, Sendings, StreamingInv
  <2>2. Tail(v.left) \in Seq(Chunks) /\ Head(v.left) \in Chunks /\ Append(v.channel, Head(v.left)) \in Seq(Chunks)
    BY <1>1, <1>2, HeadTailProperties, AppendProperties
  <2>3. s \in Sendings
    <3>1. PICK c \in Seq(Chunks), l \in Seq(Chunks), m \in Nat :
             c = Append(v.channel, Head(v.left)) /\ l = Tail(v.left) /\ m = v.sent + 1
      <4>1. v.sent + 1 \in Nat
        BY <1>2
      <4>. QED BY <2>2, <4>1
    <3>2. s = [v EXCEPT !.left = l, !.sent = m, !.channel = c, !.pc = "record"]
      BY <3>1
    <3>. QED BY <1>1, <3>2 DEF Sendings
  <2>4. /\ s.pc = "record" /\ s.token = v.token /\ s.data = v.data /\ s.open = v.open /\ s.sent = v.sent + 1
        /\ s.got = v.got /\ s.left = Tail(v.left) /\ s.channel = Append(v.channel, Head(v.left))
    BY <1>1, <1>2 DEF Sendings
  <2> HIDE DEF s
  <2>5. ASSUME NEW all \in Seq(Chunks), InOrder(v.got, v.channel, v.left, all) PROVE InOrder(s.got, s.channel, s.left, all)
    BY <1>1, <1>2, <2>4, <2>5, SendInOrder
  <2>6. StreamSound(s)
    BY <1>1, <1>2, <2>4, <2>5, ChunksTyped DEF StreamSound
  <2>7. Recorded(s) >= Recorded(v)
    BY <1>1, <1>2, <2>4 DEF Recorded
  <2>. QED BY <1>1, <2>1, <2>3, <2>4, <2>6, <2>7, CountKeeps, TaskKeeps DEF Tasks
<1>. QED BY <1>3, <1>4

LEMMA ReceiveKeeps == ASSUME StreamingInv, NEW t \in StreamTasks, ReceiveChunk(t) PROVE StreamingInv'
<1> DEFINE v == stream[t]
           s == [v EXCEPT !.got = Append(v.got, Head(v.channel)), !.channel = Tail(v.channel)]
<1>1. v \in Sendings /\ v.pc # "idle" /\ v.channel # <<>> /\ StreamSound(v)
  BY DEF ReceiveChunk, StreamingInv, Tasks
<1>2. /\ v.token \in Tokens /\ v.data \in Seq(Nat) /\ v.left \in Seq(Chunks) /\ v.channel \in Seq(Chunks)
      /\ v.got \in Seq(Chunks) /\ v.open \in BOOLEAN /\ v.sent \in Nat /\ v.pc \in {"send", "record", "done"}
  BY <1>1 DEF Sendings
<1>3. stream' = [stream EXCEPT ![t] = s] /\ UNCHANGED <<states, started>>
  BY <1>1 DEF ReceiveChunk, Sendings, StreamingInv
<1>4. Tail(v.channel) \in Seq(Chunks) /\ Head(v.channel) \in Chunks /\ Append(v.got, Head(v.channel)) \in Seq(Chunks)
  BY <1>1, <1>2, HeadTailProperties, AppendProperties
<1>5. s \in Sendings
  BY <1>1, <1>2, <1>4 DEF Sendings
<1>6. /\ s.pc = v.pc /\ s.token = v.token /\ s.data = v.data /\ s.open = v.open /\ s.sent = v.sent
      /\ s.left = v.left /\ s.channel = Tail(v.channel) /\ s.got = Append(v.got, Head(v.channel))
  BY <1>1, <1>2 DEF Sendings
<1> HIDE DEF s
<1>7. ASSUME NEW all \in Seq(Chunks), InOrder(v.got, v.channel, v.left, all) PROVE InOrder(s.got, s.channel, s.left, all)
  BY <1>1, <1>2, <1>6, <1>7, ReceiveInOrder
<1>8. StreamSound(s)
  BY <1>1, <1>2, <1>6, <1>7, ChunksTyped DEF StreamSound
<1>9. Recorded(s) >= Recorded(v)
  BY <1>1, <1>2, <1>6 DEF Recorded
<1>. QED BY <1>1, <1>3, <1>5, <1>6, <1>8, <1>9, CountKeeps, TaskKeeps DEF Tasks

LEMMA EndKeeps == ASSUME StreamingInv, NEW t \in StreamTasks, EndStream(t) \/ DropReceiver(t) PROVE StreamingInv'
<1> DEFINE v == stream[t]
<1>1. v \in Sendings /\ v.pc # "idle" /\ StreamSound(v)
  BY DEF EndStream, DropReceiver, StreamingInv, Tasks
<1>2. /\ v.token \in Tokens /\ v.data \in Seq(Nat) /\ v.left \in Seq(Chunks) /\ v.channel \in Seq(Chunks)
      /\ v.got \in Seq(Chunks) /\ v.open \in BOOLEAN /\ v.sent \in Nat /\ v.pc \in {"send", "record", "done"}
  BY <1>1 DEF Sendings
<1>3. CASE EndStream(t)
  <2> DEFINE s == [v EXCEPT !.pc = "done"]
  <2>1. stream' = [stream EXCEPT ![t] = s] /\ UNCHANGED <<states, started>> /\ v.left = <<>> /\ v.pc = "send"
    BY <1>3 DEF EndStream
  <2>2. s \in Sendings
    BY <1>1, <1>2 DEF Sendings
  <2>3. /\ s.pc = "done" /\ s.token = v.token /\ s.data = v.data /\ s.open = v.open /\ s.sent = v.sent
        /\ s.left = v.left /\ s.channel = v.channel /\ s.got = v.got
    BY <1>1, <1>2 DEF Sendings
  <2> HIDE DEF s
  <2>4. StreamSound(s)
    BY <1>1, <2>1, <2>3 DEF StreamSound
  <2>5. Recorded(s) >= Recorded(v)
    BY <1>2, <2>1, <2>3 DEF Recorded
  <2>. QED BY <1>1, <2>1, <2>2, <2>3, <2>4, <2>5, CountKeeps, TaskKeeps DEF Tasks
<1>4. CASE DropReceiver(t)
  <2> DEFINE s == [v EXCEPT !.open = FALSE, !.channel = <<>>]
  <2>1. stream' = [stream EXCEPT ![t] = s] /\ UNCHANGED <<states, started>>
    BY <1>4 DEF DropReceiver
  <2>2. s \in Sendings
    <3>1. <<>> \in Seq(Chunks)
      OBVIOUS
    <3>. QED BY <1>1, <3>1 DEF Sendings
  <2>3. s.pc = v.pc /\ s.token = v.token /\ s.data = v.data /\ s.open = FALSE /\ s.sent = v.sent
    BY <1>1, <1>2 DEF Sendings
  <2> HIDE DEF s
  <2>4. StreamSound(s)
    BY <1>1, <2>3 DEF StreamSound
  <2>5. Recorded(s) >= Recorded(v)
    BY <1>2, <2>3 DEF Recorded
  <2>. QED BY <1>1, <2>1, <2>2, <2>3, <2>4, <2>5, CountKeeps, TaskKeeps DEF Tasks
<1>. QED BY <1>3, <1>4

LEMMA StartKeeps ==
    ASSUME StreamingInv, NEW t \in StreamTasks, NEW token \in Tokens, NEW n \in Lengths, NEW size \in ChunkSizes,
           StartStream(t, token, n, size)
    PROVE  StreamingInv'
<1> DEFINE all == ChunkResult(Numbered(n), size)
           s == [pc |-> "send", token |-> token, data |-> Numbered(n), left |-> all,
                 channel |-> <<>>, got |-> <<>>, open |-> TRUE, sent |-> 0]
<1>1. stream[t].pc = "idle" /\ stream' = [stream EXCEPT ![t] = s] /\ states' = states
  BY DEF StartStream
<1>2. all \in Seq(Chunks) /\ Numbered(n) \in Seq(Nat) /\ <<>> \in Seq(Chunks)
  BY ChunksTyped, StreamingAssumption DEF Numbered
<1> HIDE DEF all
<1>3. s \in Sendings
  BY <1>2 DEF Sendings
<1>4. InOrder(<<>>, <<>>, all, all)
  <2>1. Len(<<>>) = 0 /\ Len(all) \in Nat
    BY <1>2
  <2>. QED BY <2>1 DEF InOrder
<1>5. /\ s.pc = "send" /\ s.token = token /\ s.data = Numbered(n) /\ s.left = all /\ s.channel = <<>> /\ s.got = <<>>
      /\ s.sent = 0
  OBVIOUS
<1> HIDE DEF s
<1>6. StreamSound(s)
  BY <1>4, <1>5 DEF StreamSound, all
<1>7. \A o \in StreamTasks : stream'[o] = IF o = t THEN s ELSE stream[o]
  BY <1>1 DEF StreamingInv
<1>8. started \subseteq started' /\ ((\E o \in StreamTasks : UsesKey(stream[o], KeyOf[token])) => KeyOf[token] \in started')
  BY DEF StartStream, UsesKey
<1>9. \A o, u \in StreamTasks : o # u /\ stream'[o].pc # "idle" /\ stream'[u].pc # "idle"
          /\ KeyOf[stream'[o].token] = KeyOf[stream'[u].token] => KeyOf[stream'[o].token] \in started'
  <2> SUFFICES ASSUME NEW o \in StreamTasks, NEW u \in StreamTasks, o # u, stream'[o].pc # "idle", stream'[u].pc # "idle",
                      KeyOf[stream'[o].token] = KeyOf[stream'[u].token]
               PROVE  KeyOf[stream'[o].token] \in started'
    OBVIOUS
  <2>1. CASE o = t
    <3>1. UsesKey(stream[u], KeyOf[token]) /\ stream'[o].token = token
      BY <2>1, <1>5, <1>7 DEF UsesKey
    <3>. QED BY <3>1, <1>8
  <2>2. CASE u = t
    <3>1. UsesKey(stream[o], KeyOf[token]) /\ stream'[u].token = token
      BY <2>2, <1>5, <1>7 DEF UsesKey
    <3>. QED BY <3>1, <1>8
  <2>3. CASE o # t /\ u # t
    BY <2>3, <1>7, <1>8 DEF StreamingInv, CountSound
  <2>. QED BY <2>1, <2>2, <2>3
<1>10. ASSUME NEW k \in DOMAIN states \ started'
       PROVE  /\ states[k] = 0 \/ \E o \in StreamTasks : UsesKey(stream'[o], k)
              /\ \A o \in StreamTasks : UsesKey(stream'[o], k) => states[k] <= Recorded(stream'[o])
  <2>1. /\ k \in DOMAIN states \ started
        /\ states[k] = 0 \/ \E o \in StreamTasks : UsesKey(stream[o], k)
        /\ \A o \in StreamTasks : UsesKey(stream[o], k) => states[k] <= Recorded(stream[o])
    BY <1>8 DEF StreamingInv, CountSound
  <2>2. \A o \in StreamTasks : o # t => stream'[o] = stream[o]
    BY <1>7
  <2>3. ~UsesKey(stream[t], k)
    BY <1>1 DEF UsesKey
  <2>4. states[k] = 0 \/ \E o \in StreamTasks : UsesKey(stream'[o], k)
    BY <2>1, <2>2, <2>3
  <2>5. ASSUME UsesKey(stream'[t], k) PROVE states[k] <= Recorded(stream'[t])
    <3>1. KeyOf[token] = k /\ stream'[t] = s
      BY <2>5, <1>5, <1>7 DEF UsesKey
    <3>2. states[k] = 0
      BY <2>1, <3>1, <1>8
    <3>3. Recorded(s) = 0
      BY <1>5 DEF Recorded
    <3>. QED BY <3>1, <3>2, <3>3
  <2>. QED BY <2>1, <2>2, <2>4, <2>5
<1>11. CountSound'
  BY <1>1, <1>9, <1>10 DEF CountSound, StreamingInv
<1>. QED BY <1>1, <1>3, <1>6, <1>11, TaskKeeps DEF Tasks

LEMMA RecordKeeps == ASSUME StreamingInv, NEW t \in StreamTasks, RecordChunk(t) PROVE StreamingInv'
<1> DEFINE v == stream[t]
           s == [v EXCEPT !.pc = "send"]
           key == KeyOf[v.token]
<1>1. v \in Sendings /\ v.pc = "record" /\ StreamSound(v) /\ v.sent \in Nat
  BY DEF RecordChunk, StreamingInv, Tasks, Sendings
<1>2. /\ stream' = [stream EXCEPT ![t] = s] /\ started' = started
      /\ states' = [k \in DOMAIN states |-> IF k = key THEN states[k] + 1 ELSE states[k]]
  BY DEF RecordChunk
<1>3. s \in Sendings
  BY <1>1 DEF Sendings
<1>4. /\ s.pc = "send" /\ s.token = v.token /\ s.data = v.data /\ s.open = v.open /\ s.sent = v.sent
      /\ s.left = v.left /\ s.channel = v.channel /\ s.got = v.got
  BY <1>1 DEF Sendings
<1> HIDE DEF s
<1>5. StreamSound(s)
  BY <1>1, <1>4 DEF StreamSound
<1>6. \A o \in StreamTasks : stream'[o] = IF o = t THEN s ELSE stream[o]
  BY <1>2 DEF StreamingInv
<1>7. \A k : \A o \in StreamTasks : UsesKey(stream'[o], k) <=> UsesKey(stream[o], k)
  BY <1>1, <1>4, <1>6 DEF UsesKey
<1>8. Recorded(s) = v.sent /\ Recorded(v) = v.sent - 1
  BY <1>1, <1>4 DEF Recorded
<1>9. DOMAIN states' = DOMAIN states /\ \A k \in DOMAIN states : states[k] \in Nat /\ states'[k] \in Nat
  BY <1>2 DEF StreamingInv, CountSound
<1>10. \A o, u \in StreamTasks : o # u /\ stream'[o].pc # "idle" /\ stream'[u].pc # "idle"
          /\ KeyOf[stream'[o].token] = KeyOf[stream'[u].token] => KeyOf[stream'[o].token] \in started'
  BY <1>1, <1>2, <1>4, <1>6 DEF StreamingInv, CountSound
<1>11. ASSUME NEW k \in DOMAIN states \ started
       PROVE  /\ states'[k] = 0 \/ \E o \in StreamTasks : UsesKey(stream'[o], k)
              /\ \A o \in StreamTasks : UsesKey(stream'[o], k) => states'[k] <= Recorded(stream'[o])
  <2>1. /\ states[k] = 0 \/ \E o \in StreamTasks : UsesKey(stream[o], k)
        /\ \A o \in StreamTasks : UsesKey(stream[o], k) => states[k] <= Recorded(stream[o])
    BY DEF StreamingInv, CountSound
  <2>2. CASE k = key
    <3>1. UsesKey(stream[t], k) /\ states'[k] = states[k] + 1
      BY <2>2, <1>1, <1>2 DEF UsesKey
    <3>2. \A o \in StreamTasks : UsesKey(stream[o], k) => o = t
      BY <2>2, <1>1 DEF UsesKey, StreamingInv, CountSound
    <3>3. states'[k] <= Recorded(s)
      BY <2>1, <3>1, <1>1, <1>8, <1>9
    <3>. QED BY <3>1, <3>2, <3>3, <1>6, <1>7
  <2>3. CASE k # key
    <3>1. states'[k] = states[k] /\ ~UsesKey(stream[t], k)
      BY <2>3, <1>2 DEF UsesKey
    <3>. QED BY <2>1, <3>1, <1>6, <1>7
  <2>. QED BY <2>2, <2>3
<1>12. CountSound'
  BY <1>2, <1>9, <1>10, <1>11 DEF CountSound
<1>. QED BY <1>2, <1>3, <1>5, <1>12, TaskKeeps DEF Tasks

\* The table of states changes, and the tasks do not.
LEMMA TableKeeps == ASSUME StreamingInv, NEW token \in Tokens, InitState(token) \/ CompleteTask(token) PROVE StreamingInv'
<1>1. stream' = stream /\ started \subseteq started'
  BY DEF InitState, CompleteTask
<1>2. \A k \in DOMAIN states' : states'[k] = 0 \/ (k \in DOMAIN states /\ states'[k] = states[k])
  BY DEF InitState, CompleteTask
<1>3. \A k \in DOMAIN states' : states'[k] \in Nat
  BY <1>2 DEF StreamingInv, CountSound
<1>4. ASSUME NEW k \in DOMAIN states' \ started', NEW t \in StreamTasks, UsesKey(stream[t], k)
      PROVE  states'[k] <= Recorded(stream[t])
  <2>1. Recorded(stream[t]) \in Nat
    BY <1>4 DEF StreamingInv, UsesKey, Tasks, Sendings, StreamSound, Recorded
  <2>. QED BY <2>1, <1>1, <1>2, <1>4 DEF StreamingInv, CountSound
<1>5. \A k \in DOMAIN states' \ started' : states'[k] = 0 \/ \E t \in StreamTasks : UsesKey(stream[t], k)
  BY <1>1, <1>2 DEF StreamingInv, CountSound
<1>6. CountSound'
  BY <1>1, <1>3, <1>4, <1>5 DEF StreamingInv, CountSound, UsesKey, Recorded
<1>. QED BY <1>1, <1>6 DEF StreamingInv, StreamSound

LEMMA StreamingStep == StreamingInv /\ [StreamingNext]_streamingVars => StreamingInv'
<1> SUFFICES ASSUME StreamingInv, [StreamingNext]_streamingVars PROVE StreamingInv'
  OBVIOUS
<1>1. CASE UNCHANGED streamingVars
  BY <1>1 DEF streamingVars, StreamingInv, StreamSound, CountSound, UsesKey, Recorded
<1>. QED BY <1>1, SendKeeps, ReceiveKeeps, EndKeeps, StartKeeps, RecordKeeps, TableKeeps DEF StreamingNext

\* ChunksWhole: the client of a stream that stays gets the chunks of chunk_result in
\* order, covering the result, the last one and only it final, and the count kept for a
\* token that was used once never exceeds what was sent, for every length, chunk size
\* and channel capacity and any number of streams.
THEOREM ChunksWholeHolds == StreamingSpec => []ChunksWhole
<1>1. StreamingInv => ChunksWhole
  <2> SUFFICES ASSUME StreamingInv PROVE ChunksWhole
    OBVIOUS
  <2>1. ASSUME NEW t \in StreamTasks, stream[t].pc = "done" /\ stream[t].open /\ stream[t].channel = <<>>
        PROVE  /\ Tiles(stream[t].got, stream[t].data)
               /\ \A i \in DOMAIN stream[t].got :
                    stream[t].got[i].id = i - 1 /\ (stream[t].got[i].final <=> i = Len(stream[t].got))
    <3>1. StreamSound(stream[t]) /\ stream[t] \in Sendings
      BY <2>1 DEF StreamingInv, Tasks
    <3>2. PICK n \in Lengths, size \in ChunkSizes :
            stream[t].data = Numbered(n) /\ InOrder(stream[t].got, <<>>, <<>>, ChunkResult(Numbered(n), size))
      BY <2>1, <3>1 DEF StreamSound
    <3>3. PICK all \in Seq(Chunks) : all = ChunkResult(Numbered(n), size)
      BY ChunksTyped
    <3>4. PICK g \in Seq(Chunks) : g = stream[t].got
      BY <3>1 DEF Sendings
    <3>5. Len(g) = Len(all) /\ \A i \in 1..Len(g) : g[i] = all[i]
      <4>1. Len(<<>>) = 0 /\ Len(g) \in Nat
        OBVIOUS
      <4>. QED BY <3>2, <3>3, <3>4, <4>1 DEF InOrder
    <3>6. g = all
      BY <3>5, SeqEqual
    <3>7. Tiles(all, Numbered(n)) /\ \A i \in 1..Len(all) : all[i].id = i - 1 /\ (all[i].final <=> i = Len(all))
      BY <3>3, ChunksTile, StreamingAssumption
    <3>. QED BY <3>2, <3>4, <3>6, <3>7
  <2>2. StreamWhole
    BY <2>1, Zenon DEF StreamWhole
  <2>3. ChunksCounted
    <3> SUFFICES ASSUME NEW t \in StreamTasks, stream[t].pc # "idle", KeyOf[stream[t].token] \in DOMAIN states,
                        KeyOf[stream[t].token] \notin started
                 PROVE  states[KeyOf[stream[t].token]] <= stream[t].sent
      BY DEF ChunksCounted
    <3>1. UsesKey(stream[t], KeyOf[stream[t].token])
      BY DEF UsesKey
    <3>2. /\ states[KeyOf[stream[t].token]] <= Recorded(stream[t]) /\ states[KeyOf[stream[t].token]] \in Nat
          /\ stream[t].sent \in Nat
      BY <3>1 DEF StreamingInv, CountSound, Tasks, Sendings
    <3>. QED BY <3>2 DEF Recorded
  <2>. QED BY <2>2, <2>3 DEF ChunksWhole
<1>. QED BY <1>1, StreamingStart, StreamingStep, PTL DEF StreamingSpec
=============================================================================
