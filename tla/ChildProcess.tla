--------------------------- MODULE ChildProcess ----------------------------
(***************************************************************************)
(* One external program run for a tool call, in the four ways the server   *)
(* runs one: execute_process_plugin_tool of src/plugins/mod.rs, shell_exec *)
(* and the C# engine (execute_csharp_mcp_tool, discover_csharp_tools) of   *)
(* src/registry.rs, and the Sandbox of src/sandbox.rs on behalf of         *)
(* src/nda_executor.rs.                                                    *)
(*                                                                         *)
(* The plugin and shell calls poll the child and read its pipes only after *)
(* it has exited.  The C# call reads stdout on a thread of its own until   *)
(* the answer is complete, never stderr, and waits for that thread with a  *)
(* deadline.  The sandbox reads stdout on a thread and stderr to its end   *)
(* before it starts to wait with a deadline.  A pipe holds PipeSize        *)
(* chunks; a child that writes to a full pipe blocks.  A descendant of the *)
(* child ("heir") may keep both pipes open.                                *)
(***************************************************************************)
EXTENDS Integers, Sequences, SequencesExt

CONSTANTS
    PipeSize,   \* chunks a pipe holds
    MaxOut,     \* chunks of stdout kept: 1 MB in the code
    MaxErr,     \* chunks of stderr kept: 256 KB in the code
    MaxWrites,  \* bound: chunks a program writes
    Deadline    \* polls before the deadline has passed

ASSUME ChildAssumption == {PipeSize, MaxOut, MaxErr, MaxWrites, Deadline} \subseteq Nat

VARIABLES
    mode,      \* "plugin", "shell", "csharp" or "sandbox"
    prog,      \* what the program still does: writes, then its end
    heir,      \* a descendant holds the pipes
    caller,    \* where the calling thread is
    drainer,   \* the stdout thread: "none", "reading", "ended"
    child,     \* "none", "running", "exited", "killed", "reaped"
    pipe,      \* chunks in stdout and stderr
    wrote,     \* history: chunks the child wrote to each
    got,       \* chunks kept of each
    cut,       \* chunks thrown away above the limit
    polls,     \* polls since the deadline started to count
    workDir,   \* the sandbox's directory: "none", "there", "removed"
    childResult     \* what the caller returned

childVars == <<mode, prog, heir, caller, drainer, child, pipe, wrote, got, cut, polls,
               workDir, childResult>>

Streams == {"out", "err"}
Polling == {"plugin", "shell"}
Limit == [out |-> MaxOut, err |-> MaxErr]
ReadingOf == [out |-> "read_out", err |-> "read_err"]
NoChunks == [out |-> 0, err |-> 0]

\* The programs: up to MaxWrites chunks in any order, then success, failure, a hang,
\* or a hang after closing both outputs.
Programs == (UNION {[1..n -> Streams] : n \in 0..MaxWrites}) \X {"exit", "fail", "hang", "close"}

ChildInit ==
    /\ mode \in Polling \cup {"csharp", "sandbox"}
    /\ prog \in Programs
    /\ heir \in BOOLEAN
    /\ caller = "start" /\ drainer = "none" /\ child = "none"
    /\ pipe = NoChunks /\ wrote = NoChunks /\ got = NoChunks /\ cut = NoChunks
    /\ polls = 0
    /\ workDir = "none"
    /\ childResult = "none"

Return(r) == childResult' = r /\ caller' = "done"

\* execute_nda, as far as it ends before a program is started: no runnable
\* triple, missing or oversized data, no code, or no directory.
DocumentRefused ==
    /\ mode = "sandbox" /\ caller = "start"
    /\ Return("error")
    /\ UNCHANGED <<mode, prog, heir, drainer, child, pipe, wrote, got, cut, polls, workDir>>

\* Sandbox::new and write_file for the payload: the isolated directory exists
\* before anything else can fail.
MakeWorkDir ==
    /\ mode = "sandbox" /\ caller = "start"
    /\ workDir' = "there"
    /\ caller' = "check"
    /\ UNCHANGED <<mode, prog, heir, drainer, child, pipe, wrote, got, cut, polls, childResult>>

\* check_interpreter: a program outside the profile is a violation, and nothing
\* is started.  (interpreter_command maps an unknown extension to "echo", which
\* is outside it.)
CheckInterpreter(allowed) ==
    /\ caller = "check"
    /\ IF allowed THEN caller' = "spawn" /\ UNCHANGED childResult
       ELSE childResult' = "violation" /\ caller' = "drop"
    /\ UNCHANGED <<mode, prog, heir, drainer, child, pipe, wrote, got, cut, polls, workDir>>

\* substitute_template_variables and validate_plugin_argument: a NUL byte, an
\* argument above 10 KB, or a metacharacter for a shell ends the call.
ValidateArguments(ok) ==
    /\ mode = "plugin" /\ caller = "start"
    /\ IF ok THEN caller' = "spawn" /\ UNCHANGED childResult ELSE Return("error")
    /\ UNCHANGED <<mode, prog, heir, drainer, child, pipe, wrote, got, cut, polls, workDir>>

\* shell_exec: a bypass pattern, a command above 10 000 bytes, a dangerous pattern
\* in the command or in its form without backslashes, or a bad working directory.
ValidateCommand(ok) ==
    /\ mode = "shell" /\ caller = "start"
    /\ IF ok THEN caller' = "spawn" /\ UNCHANGED childResult ELSE Return("error")
    /\ UNCHANGED <<mode, prog, heir, drainer, child, pipe, wrote, got, cut, polls, workDir>>

\* execute_csharp_mcp_tool, discover_csharp_tools: no engine at the configured path.
FindEngine(ok) ==
    /\ mode = "csharp" /\ caller = "start"
    /\ IF ok THEN caller' = "spawn" /\ UNCHANGED childResult ELSE Return("error")
    /\ UNCHANGED <<mode, prog, heir, drainer, child, pipe, wrote, got, cut, polls, workDir>>

\* Command::spawn, with both outputs piped; the sandbox starts its reader.
Spawn(ok) ==
    /\ caller = "spawn"
    /\ IF ok
         THEN /\ child' = "running"
              /\ drainer' = IF mode = "sandbox" THEN "reading" ELSE "none"
              /\ caller' = CASE mode = "sandbox" -> "read_err"
                             [] mode = "csharp" -> "send"
                             [] OTHER -> "poll"
              /\ UNCHANGED childResult
         ELSE /\ childResult' = "error"
              /\ caller' = IF mode = "sandbox" THEN "drop" ELSE "done"
              /\ UNCHANGED <<child, drainer>>
    /\ UNCHANGED <<mode, prog, heir, pipe, wrote, got, cut, polls, workDir>>

\* The program: a write waits for room in the pipe, then it exits, or hangs.
ChildWrites ==
    /\ child = "running" /\ prog[1] # <<>>
    /\ LET s == Head(prog[1]) IN
         /\ pipe[s] < PipeSize
         /\ pipe' = [pipe EXCEPT ![s] = @ + 1]
         /\ wrote' = [wrote EXCEPT ![s] = @ + 1]
    /\ prog' = <<Tail(prog[1]), prog[2]>>
    /\ UNCHANGED <<mode, heir, caller, drainer, child, got, cut, polls, workDir, childResult>>

ChildExits ==
    /\ child = "running" /\ prog[1] = <<>> /\ prog[2] \in {"exit", "fail"}
    /\ child' = "exited"
    /\ UNCHANGED <<mode, prog, heir, caller, drainer, pipe, wrote, got, cut, polls,
                   workDir, childResult>>

ChildCloses ==
    /\ child = "running" /\ prog = <<<<>>, "close">>
    /\ prog' = <<<<>>, "closed">>
    /\ UNCHANGED <<mode, heir, caller, drainer, child, pipe, wrote, got, cut, polls,
                   workDir, childResult>>

\* The read side sees the end of a pipe when no process has it open for writing.
AtEnd(s) == pipe[s] = 0 /\ (child # "running" \/ prog[2] = "closed") /\ ~heir

\* Faulty variant: a chunk above the limit is dropped without a mark.
DrainSilently(s) ==
    /\ pipe[s] > 0
    /\ pipe' = [pipe EXCEPT ![s] = @ - 1]
    /\ got' = [got EXCEPT ![s] = IF got[s] < Limit[s] THEN @ + 1 ELSE @]
    /\ UNCHANGED cut

\* One chunk read by the sandbox: kept while the total is within the limit,
\* thrown away and remembered above it.
Drain(s) ==
    /\ pipe[s] > 0
    /\ pipe' = [pipe EXCEPT ![s] = @ - 1]
    /\ IF got[s] + cut[s] < Limit[s]
         THEN got' = [got EXCEPT ![s] = @ + 1] /\ UNCHANGED cut
         ELSE cut' = [cut EXCEPT ![s] = @ + 1] /\ UNCHANGED got

DrainStdout ==
    /\ mode = "sandbox" /\ drainer = "reading"
    /\ Drain("out")
    /\ UNCHANGED <<mode, prog, heir, caller, drainer, child, wrote, polls, workDir, childResult>>

StdoutEnds ==
    /\ drainer = "reading" /\ AtEnd("out")
    /\ drainer' = "ended"
    /\ UNCHANGED <<mode, prog, heir, caller, child, pipe, wrote, got, cut, polls, workDir,
                   childResult>>

\* The request is written to the engine and its reader is started.  An engine that
\* is gone refuses it, and the call ends without waiting for the process.
SendRequest ==
    /\ caller = "send"
    /\ IF child = "running"
         THEN drainer' = "reading" /\ caller' = "wait" /\ UNCHANGED childResult
         ELSE Return("error") /\ UNCHANGED drainer
    /\ UNCHANGED <<mode, prog, heir, child, pipe, wrote, got, cut, polls, workDir>>

\* All lines of the engine's answer have been kept.
Complete == got["out"] > 0 /\ got["out"] = wrote["out"] /\ ~Contains(prog[1], "out")

\* Faulty variant: the reader stops after a line, whether or not the text is JSON.
ReadLineOnce ==
    /\ mode = "csharp" /\ drainer = "reading" /\ pipe["out"] > 0
    /\ pipe' = [pipe EXCEPT !["out"] = @ - 1]
    /\ got' = [got EXCEPT !["out"] = @ + 1]
    /\ drainer' = "ended"
    /\ UNCHANGED <<mode, prog, heir, caller, child, wrote, cut, polls, workDir, childResult>>

\* One line read from the engine: the reader ends when the text is a JSON object,
\* or when the line would take it over the limit.
ReadLine ==
    /\ mode = "csharp" /\ drainer = "reading" /\ pipe["out"] > 0
    /\ pipe' = [pipe EXCEPT !["out"] = @ - 1]
    /\ IF got["out"] = MaxOut
         THEN drainer' = "ended" /\ cut' = [cut EXCEPT !["out"] = @ + 1] /\ UNCHANGED got
         ELSE /\ got' = [got EXCEPT !["out"] = @ + 1]
              /\ drainer' = IF got'["out"] = wrote["out"] /\ ~Contains(prog[1], "out")
                            THEN "ended" ELSE "reading"
              /\ UNCHANGED cut
    /\ UNCHANGED <<mode, prog, heir, caller, child, wrote, polls, workDir, childResult>>

\* The reader's text arrives: it is joined, the engine is killed and waited for,
\* and the text is parsed; an error in it is the call's error.
Answered ==
    /\ caller = "wait" /\ drainer = "ended"
    /\ child' = "reaped"
    /\ Return(IF ~Complete THEN "error" ELSE IF prog[2] = "fail" THEN "failed" ELSE "ok")
    /\ UNCHANGED <<mode, prog, heir, drainer, pipe, wrote, got, cut, polls, workDir>>

\* Faulty variant: the answer is waited for without a limit.
AnswerForever ==
    /\ caller = "wait" /\ drainer = "reading"
    /\ UNCHANGED childVars

\* recv_timeout: at the deadline the engine is killed and waited for, and the
\* reader is left behind.
AnswerTimeout ==
    /\ caller = "wait" /\ drainer = "reading"
    /\ IF polls < Deadline
         THEN polls' = polls + 1 /\ UNCHANGED <<caller, child, childResult>>
         ELSE child' = "reaped" /\ Return("timeout") /\ UNCHANGED polls
    /\ UNCHANGED <<mode, prog, heir, drainer, pipe, wrote, got, cut, workDir>>

\* Faulty variant: the caller stops reading stderr at its limit.
DrainStderrStops ==
    /\ mode = "sandbox" /\ caller = "read_err" /\ got["err"] < MaxErr
    /\ Drain("err")
    /\ UNCHANGED <<mode, prog, heir, caller, drainer, child, wrote, polls, workDir, childResult>>

\* The caller itself reads stderr, without looking at the clock ...
DrainStderr ==
    /\ mode = "sandbox" /\ caller = "read_err"
    /\ Drain("err")
    /\ UNCHANGED <<mode, prog, heir, caller, drainer, child, wrote, polls, workDir, childResult>>

\* ... until its end, and only then waits for the child.
StderrEnds ==
    /\ mode = "sandbox" /\ caller = "read_err" /\ AtEnd("err")
    /\ caller' = "poll"
    /\ UNCHANGED <<mode, prog, heir, drainer, child, pipe, wrote, got, cut, polls, workDir,
                   childResult>>

\* try_wait finds the child gone: a polling call reads what the pipes hold, the
\* sandbox joins its reader.
PollExited ==
    /\ caller = "poll" /\ child = "exited"
    /\ child' = "reaped"
    /\ caller' = IF mode \in Polling THEN "read_out" ELSE "join"
    /\ childResult' = IF prog[2] = "fail" THEN "failed" ELSE "ok"
    /\ UNCHANGED <<mode, prog, heir, drainer, pipe, wrote, got, cut, polls, workDir>>

\* Faulty variant: the clock is not looked at.
PollForever ==
    /\ caller = "poll" /\ child = "running"
    /\ UNCHANGED childVars

PollRunning ==
    /\ caller = "poll" /\ child = "running"
    /\ IF polls < Deadline
         THEN polls' = polls + 1 /\ UNCHANGED caller
         ELSE caller' = "kill" /\ UNCHANGED polls
    /\ UNCHANGED <<mode, prog, heir, drainer, child, pipe, wrote, got, cut, workDir, childResult>>

\* try_wait fails: the child is killed and not waited for; shell_exec returns and
\* leaves it running.
PollError ==
    /\ caller = "poll"
    /\ child' = IF child = "running" /\ mode # "shell" THEN "killed" ELSE child
    /\ childResult' = "error"
    /\ caller' = IF mode \in Polling THEN "done" ELSE "join"
    /\ UNCHANGED <<mode, prog, heir, drainer, pipe, wrote, got, cut, polls, workDir>>

\* Faulty variant: the sandbox does not wait for the child it has killed.
KillNoWait ==
    /\ caller = "kill"
    /\ child' = IF child = "running" THEN "killed" ELSE child
    /\ childResult' = "timeout"
    /\ caller' = IF mode \in Polling THEN "done" ELSE "join"
    /\ UNCHANGED <<mode, prog, heir, drainer, pipe, wrote, got, cut, polls, workDir>>

\* The deadline: the child may have exited since it was last looked at.  The
\* sandbox also waits for it, the polling calls do not.
Kill ==
    /\ caller = "kill"
    /\ child' = IF mode = "sandbox" THEN "reaped"
                ELSE IF child = "running" THEN "killed" ELSE child
    /\ childResult' = "timeout"
    /\ caller' = IF mode \in Polling THEN "done" ELSE "join"
    /\ UNCHANGED <<mode, prog, heir, drainer, pipe, wrote, got, cut, polls, workDir>>

\* Faulty variant: the outputs are taken for ended as soon as the pipe is empty
\* or holds less than the limit.
ReadAfterExitShort(s) ==
    /\ caller = ReadingOf[s] /\ mode \in Polling
    /\ caller' = IF s = "out" THEN "read_err" ELSE "done"
    /\ got' = [got EXCEPT ![s] = IF pipe[s] > 0 THEN 1 ELSE 0]
    /\ UNCHANGED <<mode, prog, heir, drainer, child, pipe, wrote, cut, polls, workDir, childResult>>

\* take(limit).read_to_end on stdout and then on stderr: the limit or the end.
ReadAfterExit(s) ==
    /\ caller = ReadingOf[s] /\ mode \in Polling
    /\ IF got[s] = Limit[s] \/ AtEnd(s)
         THEN /\ caller' = IF s = "out" THEN "read_err" ELSE "done"
              /\ UNCHANGED <<pipe, got>>
         ELSE /\ pipe[s] > 0
              /\ pipe' = [pipe EXCEPT ![s] = @ - 1]
              /\ got' = [got EXCEPT ![s] = @ + 1]
              /\ UNCHANGED caller
    /\ UNCHANGED <<mode, prog, heir, drainer, child, wrote, cut, polls, workDir, childResult>>

\* stdout_reader.join.
JoinReader ==
    /\ caller = "join" /\ drainer = "ended"
    /\ caller' = "drop"
    /\ UNCHANGED <<mode, prog, heir, drainer, child, pipe, wrote, got, cut, polls, workDir,
                   childResult>>

\* Drop of the Sandbox, after every outcome.
DropSandbox ==
    /\ caller = "drop"
    /\ workDir' = "removed"
    /\ caller' = "done"
    /\ UNCHANGED <<mode, prog, heir, drainer, child, pipe, wrote, got, cut, polls, childResult>>

\* The wait loop of shell_exec, the same text four times in the code.
ShellWait ==
    /\ mode = "shell"
    /\ PollExited \/ PollRunning \/ Kill \/ \E s \in Streams : ReadAfterExit(s)

\* The wait loops of the plugin call and of the sandbox.
PollStep ==
    /\ mode # "shell"
    /\ PollExited \/ PollRunning \/ Kill \/ \E s \in Streams : ReadAfterExit(s)

EngineStep == SendRequest \/ Answered \/ AnswerTimeout

CallerStep ==
    \/ DocumentRefused \/ MakeWorkDir
    \/ \E ok \in BOOLEAN : CheckInterpreter(ok) \/ ValidateArguments(ok)
                            \/ ValidateCommand(ok) \/ FindEngine(ok) \/ Spawn(ok)
    \/ DrainStderr \/ StderrEnds
    \/ ShellWait \/ PollStep \/ EngineStep
    \/ JoinReader \/ DropSandbox

ReaderStep == DrainStdout \/ ReadLine \/ StdoutEnds

ChildStep == ChildWrites \/ ChildExits \/ ChildCloses

ChildNext == CallerStep \/ PollError \/ ReaderStep \/ ChildStep

\* Every thread and the child run on when they can.  A heir is under no obligation
\* to end, a program that hangs stays, and try_wait need not fail.
ChildFairness ==
    WF_childVars(CallerStep) /\ WF_childVars(ReaderStep) /\ WF_childVars(ChildStep)

ChildSpec == ChildInit /\ [][ChildNext]_childVars /\ ChildFairness

-----------------------------------------------------------------------------
\* A plugin or shell call that reports success returns all the program wrote, up to
\* the limit, although it reads only after the program has gone.
PluginOutputWhole ==
    mode \in Polling /\ caller = "done" /\ childResult = "ok"
        => got["out"] = IF wrote["out"] < MaxOut THEN wrote["out"] ELSE MaxOut

\* A sandbox result that is not marked as truncated holds all of both outputs,
\* whatever the two readers met in which order.
TruncationReported ==
    mode = "sandbox" /\ caller = "done" /\ child = "reaped" /\ cut = NoChunks
        => got = wrote

\* The sandbox leaves no zombie at its deadline, and no directory behind.
SandboxCleansUp ==
    mode = "sandbox" /\ caller = "done" =>
        /\ childResult = "timeout" => child = "reaped"
        /\ workDir \in {"none", "removed"}

\* The text taken from the C# engine is the whole answer, however the engine spread
\* it over lines; an answer within the limit is never lost; and an engine that was
\* asked is never left running or unreaped.
EngineAnswerWhole ==
    mode = "csharp" /\ caller = "done" =>
        /\ childResult \in {"ok", "failed"} => got["out"] = wrote["out"] /\ ~Contains(prog[1], "out")
        /\ childResult = "error" /\ drainer = "ended" => cut["out"] > 0 \/ wrote["out"] = 0
        /\ childResult # "error" => child = "reaped"

\* Whichever way a child process is run, a call that reports success has all of its
\* output, a cut is reported, and no directory or answered child is left behind.
OutputKept == PluginOutputWhole /\ TruncationReported /\ SandboxCleansUp /\ EngineAnswerWhole

\* A plugin or shell call returns, also when the program hangs or blocks on a full
\* pipe that nobody reads: the deadline ends it.
PluginReturns == (mode \in Polling /\ ~heir /\ caller # "start") ~> (caller = "done")

\* A sandboxed program that ends by itself, or closes its outputs, never blocks on
\* its output, and the call returns, however much it writes to either stream.
SandboxReturns ==
    (mode = "sandbox" /\ ~heir /\ prog[2] # "hang" /\ caller # "start") ~> (caller = "done")

\* A call of the C# engine returns whatever the engine and its descendants do: its
\* deadline is the only one that needs nothing of the child.
EngineReturns == (mode = "csharp" /\ caller # "start") ~> (caller = "done")

-----------------------------------------------------------------------------
(* Claims the code does not satisfy. *)

\* "Execution timeout: Hard deadline with process kill (30s default)": the deadline
\* is looked at only after stderr has ended, which a hanging program never does.
HardDeadline == mode = "sandbox" ~> caller = "done"

\* "Execute the command with timeout": a descendant that keeps the pipes open holds
\* the call after the program has exited.
PluginTimeout == mode \in Polling ~> caller = "done"

\* A process whose call has returned is gone: a killed plugin or shell process is
\* not waited for, and an engine that exits before its request is neither.
NoZombie == caller = "done" => child \in {"none", "reaped"}

\* A program that ends by itself is not reported as timed out when it was given
\* time: one that fills a pipe cannot end, because nobody reads it while it runs.
PipesDrained == mode \in Polling /\ childResult = "timeout" => prog[1] = <<>>

\* The same for the C# engine, whose stderr is piped and never read.
EngineStderrDrained ==
    mode = "csharp" /\ childResult = "timeout" /\ prog[1] # <<>> => Head(prog[1]) # "err"
=============================================================================
