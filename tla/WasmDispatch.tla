---------------------------- MODULE WasmDispatch ----------------------------
(***************************************************************************)
(* Calls of plugin tools that run in a WASM guest: execute_wasm_plugin_tool *)
(* (the JSON path) and register_wasm_tool_source and call_wasm_tool_binary *)
(* of src/plugins/mod.rs, and call_tool_binary of src/registry.rs, which   *)
(* strings them together with fallbacks for the NDA transports.  Each of   *)
(* the three holds the mutex of the runtime cache from start to end and is *)
(* one step here; between them other threads run.                          *)
(*                                                                         *)
(* All tools are of one language: the maps are keyed by language and two   *)
(* languages share nothing but the mutex.                                  *)
(***************************************************************************)
EXTENDS Naturals, FiniteSets

CONSTANTS
    Threads,      \* threads that call tools
    Tools,        \* plugin tools of the language
    Paths,        \* how they are called: a subset of {"json", "binary"}
    SharedSlot,   \* the guest keeps one program, as the six interpreters do
    Faults,       \* what may go wrong: a subset of FaultKinds
    MaxRequests   \* bound: calls made

FaultKinds ==
    {"source",         \* the source of the tool cannot be read
     "create",         \* the runtime cannot be created
     "register",       \* the guest refuses the source of a tool
     "register_trap",  \* evaluating the source traps
     "oversize",       \* the arguments do not fit the slot
     "payload",        \* the guest cannot decode the TLV arguments
     "error",          \* the tool reports an error ...
     "quote",          \* ... whose text reads like a registration error
     "trap"}           \* the tool traps

ASSUME WasmAssumption ==
    /\ Paths \subseteq {"json", "binary"}
    /\ SharedSlot \in BOOLEAN
    /\ Faults \subseteq FaultKinds
    /\ MaxRequests \in Nat

NoTool == "none"

VARIABLES
    runtime,   \* the cached runtime: "absent", "sound" or "trapped"
    loaded,    \* the tools the cached runtime knows
    program,   \* the tool it registered last
    registry,  \* WASM_TOOL_REGISTRY
    metadata,  \* WASM_TOOL_METADATA
    fallback,  \* BINARY_JSON_FALLBACK
    pc, tool,  \* each thread: where it is, and the tool it calls
    execs,     \* history: how often guest code ran for the request
    ran,       \* history: the program that ran
    result,    \* history: how the request ended
    trapped,   \* history: tools that trapped
    requests   \* calls begun (bound)

cache == <<runtime, loaded, program>>
vars == <<cache, registry, metadata, fallback, pc, tool, execs, ran, result, trapped, requests>>

Init ==
    /\ runtime = "absent" /\ loaded = {} /\ program = NoTool
    /\ registry = {} /\ metadata = {} /\ fallback = {}
    /\ pc = [t \in Threads |-> "idle"]
    /\ tool = [t \in Threads |-> NoTool]
    /\ execs = [t \in Threads |-> 0]
    /\ ran = [t \in Threads |-> NoTool]
    /\ result = [t \in Threads |-> "none"]
    /\ trapped = {}
    /\ requests = 0

May(fault) == fault \in Faults

Goto(t, where) == pc' = [pc EXCEPT ![t] = where] /\ UNCHANGED result
Finish(t, how) == pc' = [pc EXCEPT ![t] = "idle"] /\ result' = [result EXCEPT ![t] = how]

\* A call arrives, as a JSON request or with TLV arguments.
Begin(t, n, path) ==
    /\ pc[t] = "idle" /\ requests < MaxRequests
    /\ requests' = requests + 1
    /\ tool' = [tool EXCEPT ![t] = n]
    /\ pc' = [pc EXCEPT ![t] = IF path = "json" THEN "json" ELSE "fallback"]
    /\ execs' = [execs EXCEPT ![t] = 0]
    /\ ran' = [ran EXCEPT ![t] = NoTool]
    /\ result' = [result EXCEPT ![t] = "none"]
    /\ UNCHANGED <<cache, registry, metadata, fallback, trapped>>

\* call_tool_binary: json_fallback_recorded ...
CheckFallback(t) ==
    /\ pc[t] = "fallback"
    /\ Goto(t, IF tool[t] \in fallback THEN "json" ELSE "metadata")
    /\ UNCHANGED <<cache, registry, metadata, fallback, tool, execs, ran, trapped, requests>>

\* ... and get_wasm_tool_language: a tool without metadata is registered first.
CheckMetadata(t) ==
    /\ pc[t] = "metadata"
    /\ Goto(t, IF tool[t] \in metadata THEN "binary" ELSE "register")
    /\ UNCHANGED <<cache, registry, metadata, fallback, tool, execs, ran, trapped, requests>>

-----------------------------------------------------------------------------
(* Registration, the same in both paths.  A runtime that had to be created    *)
(* stays in the cache whatever follows.                                       *)

\* Faulty variant: a name may be registered again.
RefusedNever(n) == FALSE

Refused(n) == n \in registry

CreateFails == runtime = "absent" /\ May("create")

\* A runtime that was created, or was there already.
Present == IF runtime = "absent" THEN "sound" ELSE runtime

\* The name was taken before: nothing is registered.
RegisterRefused(n) ==
    /\ Refused(n)
    /\ runtime' = Present
    /\ UNCHANGED <<loaded, program, registry, metadata>>

\* The guest refuses the source.  The name stays taken.
RegisterFails(n) ==
    /\ ~Refused(n) /\ May("register")
    /\ runtime' = Present
    /\ registry' = registry \cup {n}
    /\ UNCHANGED <<loaded, program, metadata>>

\* It traps, and the runtime stays in the cache.
RegisterTraps(n) ==
    /\ ~Refused(n) /\ May("register_trap")
    /\ runtime' = "trapped"
    /\ registry' = registry \cup {n}
    /\ UNCHANGED <<loaded, program, metadata>>

\* No source or no runtime: nothing has happened yet.
EarlyError == (CreateFails \/ May("source")) /\ UNCHANGED <<cache, registry, metadata>>

LateError(n) == RegisterFails(n) \/ RegisterTraps(n)

\* Faulty variant: the name of a registered tool is not taken.
RegisterUntracked(t) ==
    /\ pc[t] \in {"register", "retry"}
    /\ ~Refused(tool[t])
    /\ runtime' = Present
    /\ loaded' = loaded \cup {tool[t]}
    /\ program' = tool[t]
    /\ metadata' = metadata \cup {tool[t]}
    /\ Goto(t, IF pc[t] = "register" THEN "binary" ELSE "binary_retry")
    /\ UNCHANGED <<registry, fallback, tool, execs, ran, trapped, requests>>

\* register_wasm_tool_source, before the first binary call ("register") and after
\* a failure that proves that nothing ran ("retry").
Register(t) ==
    /\ pc[t] \in {"register", "retry"}
    /\ ~Refused(tool[t])
    /\ runtime' = Present
    /\ loaded' = loaded \cup {tool[t]}
    /\ program' = tool[t]
    /\ registry' = registry \cup {tool[t]}
    /\ metadata' = metadata \cup {tool[t]}
    /\ Goto(t, IF pc[t] = "register" THEN "binary" ELSE "binary_retry")
    /\ UNCHANGED <<fallback, tool, execs, ran, trapped, requests>>

RegisterError(t) ==
    /\ pc[t] \in {"register", "retry"}
    /\ EarlyError \/ RegisterRefused(tool[t]) \/ LateError(tool[t])
    /\ Goto(t, "record")
    /\ UNCHANGED <<fallback, tool, execs, ran, trapped, requests>>

\* Faulty variant: the binary path is tried again.
RecordFallbackRestarts(t) ==
    /\ pc[t] = "record"
    /\ Goto(t, "metadata")
    /\ UNCHANGED <<cache, registry, metadata, fallback, tool, execs, ran, trapped, requests>>

\* record_json_fallback; then the decoded arguments take the JSON path.
RecordFallback(t) ==
    /\ pc[t] = "record"
    /\ fallback' = fallback \cup {tool[t]}
    /\ Goto(t, "json")
    /\ UNCHANGED <<cache, registry, metadata, tool, execs, ran, trapped, requests>>

-----------------------------------------------------------------------------
(* Guest code *)

\* interp_call_tool runs the source registered last; other guests look it up.
Program(n, last) == IF SharedSlot THEN last ELSE n

Runs(t, last) ==
    /\ execs' = [execs EXCEPT ![t] = @ + 1]
    /\ ran' = [ran EXCEPT ![t] = Program(tool[t], last)]

\* Faulty variant: a runtime whose guest trapped stays cached.
EvictNot == runtime' = "trapped" /\ UNCHANGED <<loaded, program>>

\* A trap: the cached runtime is discarded, and with it what it knew.
Evict == runtime' = "absent" /\ loaded' = {} /\ program' = NoTool

\* call_wasm_tool_binary on a runtime that does not know the tool, for instance
\* because it was rebuilt after a trap.
BinaryUnknown(t) ==
    /\ pc[t] \in {"binary", "binary_retry"}
    /\ tool[t] \notin loaded
    /\ runtime' = Present
    /\ Goto(t, IF pc[t] = "binary" THEN "retry" ELSE "record")
    /\ UNCHANGED <<loaded, program, registry, metadata, fallback, tool, execs, ran, trapped, requests>>

\* It fails before the guest is entered: no runtime, or too many arguments.
BinaryRefused(t) ==
    /\ pc[t] \in {"binary", "binary_retry"}
    /\ \/ CreateFails /\ UNCHANGED runtime
       \/ May("oversize") /\ pc[t] = "binary" /\ runtime' = Present
    /\ IF pc[t] = "binary" THEN Finish(t, "error") ELSE Goto(t, "record")
    /\ UNCHANGED <<loaded, program, registry, metadata, fallback, tool, execs, ran, trapped, requests>>

\* The guest cannot decode the arguments: the JSON path serves this request.
BinaryPayload(t) ==
    /\ pc[t] \in {"binary", "binary_retry"}
    /\ tool[t] \in loaded /\ May("payload")
    /\ Goto(t, IF pc[t] = "binary" THEN "json" ELSE "record")
    /\ UNCHANGED <<cache, registry, metadata, fallback, tool, execs, ran, trapped, requests>>

\* The tool runs and answers, or reports an error of its own ...
BinaryRuns(t) ==
    /\ pc[t] \in {"binary", "binary_retry"}
    /\ tool[t] \in loaded
    /\ Runs(t, program)
    /\ \/ Finish(t, "ok")
       \/ May("error") /\ (IF pc[t] = "binary" THEN Finish(t, "error") ELSE Goto(t, "record"))
       \/ May("quote") /\ Goto(t, IF pc[t] = "binary" THEN "retry" ELSE "record")
    /\ UNCHANGED <<cache, registry, metadata, fallback, tool, trapped, requests>>

\* ... or traps.
BinaryTraps(t) ==
    /\ pc[t] \in {"binary", "binary_retry"}
    /\ tool[t] \in loaded /\ May("trap")
    /\ Runs(t, program)
    /\ Evict
    /\ trapped' = trapped \cup {tool[t]}
    /\ IF pc[t] = "binary" THEN Finish(t, "error") ELSE Goto(t, "record")
    /\ UNCHANGED <<registry, metadata, fallback, tool, requests>>

\* execute_wasm_plugin_tool that gets as far as an error of the registration.
JsonRefused(t) ==
    /\ pc[t] = "json"
    /\ \/ (EarlyError \/ LateError(tool[t])) /\ Finish(t, "error")
       \/ RegisterRefused(tool[t]) /\ Finish(t, "duplicate")
    /\ UNCHANGED <<fallback, tool, execs, ran, trapped, requests>>

\* It registers the tool and then calls it, if the arguments fit.
JsonRuns(t) ==
    /\ pc[t] = "json" /\ ~Refused(tool[t])
    /\ registry' = registry \cup {tool[t]}
    /\ metadata' = metadata \cup {tool[t]}
    /\ \/ /\ Runs(t, tool[t])
          /\ runtime' = Present /\ loaded' = loaded \cup {tool[t]} /\ program' = tool[t]
          /\ Finish(t, "ok") \/ (May("error") /\ Finish(t, "error"))
          /\ UNCHANGED trapped
       \/ /\ May("oversize")
          /\ runtime' = Present /\ loaded' = loaded \cup {tool[t]} /\ program' = tool[t]
          /\ Finish(t, "error")
          /\ UNCHANGED <<execs, ran, trapped>>
       \/ /\ May("trap")
          /\ Runs(t, tool[t]) /\ Evict
          /\ trapped' = trapped \cup {tool[t]}
          /\ Finish(t, "error")
    /\ UNCHANGED <<fallback, tool, requests>>

Step(t) ==
    \/ CheckFallback(t) \/ CheckMetadata(t)
    \/ Register(t) \/ RegisterError(t) \/ RecordFallback(t)
    \/ BinaryUnknown(t) \/ BinaryRefused(t) \/ BinaryPayload(t) \/ BinaryRuns(t) \/ BinaryTraps(t)
    \/ JsonRefused(t) \/ JsonRuns(t)

Next == \E t \in Threads : Step(t) \/ \E n \in Tools, path \in Paths : Begin(t, n, path)

Spec == Init /\ [][Next]_vars

\* Threads run on, and guests return or trap.
Fairness == \A t \in Threads : WF_vars(Step(t))
FairSpec == Spec /\ Fairness

-----------------------------------------------------------------------------
\* Type invariant.  What the runtime and the metadata know is in WASM_TOOL_REGISTRY.
TypeOK ==
    /\ runtime \in {"absent", "sound", "trapped"}
    /\ loaded \subseteq Tools /\ program \in Tools \cup {NoTool}
    /\ registry \subseteq Tools /\ metadata \subseteq registry /\ loaded \subseteq registry
    /\ fallback \subseteq Tools /\ trapped \subseteq Tools
    /\ pc \in [Threads -> {"idle", "json", "fallback", "metadata", "register", "retry", "record",
                           "binary", "binary_retry"}]
    /\ tool \in [Threads -> Tools \cup {NoTool}] /\ ran \in [Threads -> Tools \cup {NoTool}]
    /\ execs \in [Threads -> Nat]
    /\ result \in [Threads -> {"none", "ok", "error", "duplicate"}]
    /\ requests \in 0..MaxRequests

\* A request never runs guest code twice, through no chain of binary attempt, retry
\* and JSON fallback, even when a guest's own error reads like a proof that nothing
\* ran: the fallbacks of call_tool_binary do not repeat side effects.
ExecutedAtMostOnce == \A t \in Threads : execs[t] <= 1

\* Every request ends, however attempts, refusals and fallbacks follow each other: the
\* retry of call_tool_binary does not lead back to itself.
RequestsEnd == \A t \in Threads : [](pc[t] # "idle" => <>(pc[t] = "idle"))

-----------------------------------------------------------------------------
(* What comments and messages of the code claim and its behaviours do not      *)
(* satisfy: the README says on which instance each is refuted.                 *)

\* What the comment on register_wasm_tool_source says: the JSON path registers as a
\* side effect of every call, so no call is turned away for having been registered.
EveryCallRegisters == \A t \in Threads : result[t] # "duplicate"

\* What trap_message tells the client: the runtime was discarded and will be rebuilt
\* on the next call, which therefore runs the tool.
RebuiltAfterTrap ==
    \A t \in Threads : tool[t] \in trapped => result[t] # "duplicate"

\* What call_tool_binary says: a failed registration proves that there is no binary
\* executor.  So no tool that is registered in a sound runtime is reported without one.
FallbackProven == runtime = "sound" => fallback \cap loaded = {}

\* The tool that runs is the tool that was called, which is what rejecting duplicate
\* registrations is for.
RightProgram == \A t \in Threads : ran[t] \in {NoTool, tool[t]}

\* What guest_trapped says: an instance that trapped cannot be trusted again, so it
\* is not kept in the cache.
TrappedDiscarded == runtime # "trapped"
=============================================================================
