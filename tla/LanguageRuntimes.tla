-------------------------- MODULE LanguageRuntimes --------------------------
(***************************************************************************)
(* One language runtime: a guest interpreter in WebAssembly and the host   *)
(* object around it (src/wasm_runtime/<language>.rs), as the dispatcher in *)
(* src/plugins/mod.rs drives it: reset the instruction budget, register,   *)
(* check the payload, call.  A runtime belongs to one thread, so requests  *)
(* come one after the other; what is hard is what stays behind in the      *)
(* guest when a request fails half-way, and the fixed slots of its memory. *)
(*                                                                         *)
(* Lengths are counted in blocks.  A name occupies the first block of its  *)
(* slot; arguments longer than the slot in front of it run into it.        *)
(***************************************************************************)
EXTENDS Integers, FiniteSets

CONSTANTS
    Languages,   \* the runtimes to consider
    LangTools,   \* tool names
    Sources,     \* tool sources
    Budget,      \* the instruction limit
    Lengths,     \* lengths of an argument payload in either form
    MaxRequests  \* bound: requests

VARIABLES
    lang,       \* the language of this runtime
    exports,    \* the guest exports a binary call
    tools,      \* host: tool name -> the source it recorded
    defined,    \* guest: tool name -> the source that a call by that name runs
    fuel,       \* guest: remaining points of the metering middleware
    handles,    \* guest: QuickJS values nobody freed, besides the wrappers
    wrappers,   \* host: tools with a QuickJS wrapper handle
    ran,        \* what the last request executed
    asked,      \* history: tool -> source of the last registration answered ok
    latest,     \* history: tool of the last registration the guest completed
    torn,       \* history: tools whose program a failed registration touched, none since
    requests    \* requests so far

langVars == <<lang, exports, tools, defined, fuel, handles, wrappers, ran, asked, latest,
              torn, requests>>
NoSource == "none"
NoneYet  == "none"
\* A program slot in which one source was partly copied over another.
Mixed    == "mixed"
Nothing  == [tool |-> "none", source |-> NoSource, payload |-> "none", whole |-> TRUE,
             outcome |-> "none", cost |-> 0]

---------------------------------------------------------------------------
\* The languages.  "shared" is memory_layout: arguments at 4 KB, the name at
\* 8 KB.  register: how a source gets into the guest: into the one program slot
\* of the interp_core guests, or by executing it, which defines a function by
\* the tool's name.  json: a binary call is re-encoded as JSON (always, or when
\* the guest exports no binary call).

Shared(register) ==
    [layout |-> "shared", capacity |-> 2, register |-> register, json |-> "unless exported",
     rechecks |-> FALSE]
PhpRuntime         == Shared("program")
CSharpRuntime      == Shared("program")
JavaRuntime        == Shared("program")
JuliaRuntime       == Shared("program")
PerlRuntime        == Shared("program")
RRuntime           == Shared("program")
LuaRuntime         == Shared("source")
MicroPythonRuntime == Shared("source")
RubyRuntime        == [Shared("source") EXCEPT !.layout = "own", !.capacity = 3, !.json = "always"]
QuickJsRuntime     == [Shared("handles") EXCEPT !.layout = "own", !.capacity = 3, !.rechecks = TRUE]
TypeScriptRuntime  == [QuickJsRuntime EXCEPT !.json = "always"]
GoWasmRuntime      == [Shared("module per call") EXCEPT !.layout = "guest", !.json = "always"]
RustRuntime        == [Shared("module once") EXCEPT !.layout = "guest", !.json = "always"]

Runtime ==
    [php |-> PhpRuntime, csharp |-> CSharpRuntime, java |-> JavaRuntime, julia |-> JuliaRuntime,
     perl |-> PerlRuntime, r |-> RRuntime, lua |-> LuaRuntime, python |-> MicroPythonRuntime,
     ruby |-> RubyRuntime, javascript |-> QuickJsRuntime, typescript |-> TypeScriptRuntime,
     go |-> GoWasmRuntime, rust |-> RustRuntime]

Self     == Runtime[lang]
Is(kind) == Self.register = kind

\* The interp_core guests take the name and ignore it: whatever was registered
\* last is what every call runs.
OneProgram == Is("program")
\* The tools whose calls a registration of n changes.
Reach(n) == IF OneProgram THEN LangTools ELSE {n}

\* The names are those the dispatcher knows (create_wasm_runtime_for_language).
ASSUME LangAssumption ==
    /\ Languages \subseteq DOMAIN Runtime
    /\ Lengths \subseteq Nat /\ MaxRequests \in Nat

LangInit ==
    /\ lang \in Languages
    /\ exports \in BOOLEAN
    /\ tools = [n \in LangTools |-> NoSource]
    /\ defined = [n \in LangTools |-> NoSource]
    /\ fuel = Budget
    /\ handles = 0 /\ wrappers = {}
    /\ ran = Nothing
    /\ asked = tools /\ latest = NoneYet
    /\ torn = {}
    /\ requests = 0

---------------------------------------------------------------------------
\* reset_instruction_budget, as the dispatcher calls it before a registration
\* and before a call.  Go instantiates its module anew; Rust does so in its
\* call_tool.
FuelKept == fuel
FuelForRequest == Budget

\* A request that costs `cost` points: it traps when they are not there.
Traps(cost) == cost > FuelForRequest
Spend(cost) == fuel' = IF Traps(cost) THEN 0 ELSE FuelForRequest - cost
\* What a request may cost by itself: within the limit, or beyond it.
Costs == {1, Budget, Budget + 1}

Request == requests < MaxRequests /\ requests' = requests + 1 /\ UNCHANGED <<lang, exports>>
Outcome(cost, rc) == IF Traps(cost) THEN "trap" ELSE rc
Answered(n, s, outcome) == asked' = IF outcome = "ok" THEN [asked EXCEPT ![n] = s] ELSE asked
Executed(n, payload, whole, outcome, cost) ==
    ran' = [tool |-> n, source |-> IF n \in LangTools THEN defined'[n] ELSE NoSource,
            payload |-> payload, whole |-> whole, outcome |-> outcome, cost |-> cost]

\* Every register_tool but Rust's leaves at once when the source is the one it
\* recorded; QuickJS also wants the wrapper to be there.  Mutant: a known name
\* is enough.
KnownName(n, s) == tools[n] # NoSource
Unchanged(n, s) ==
    /\ tools[n] = s
    /\ ~Is("module once")
    /\ Is("handles") => n \in wrappers
RegisterSkipped(n, s) ==
    /\ Request /\ Unchanged(n, s)
    /\ fuel' = FuelForRequest
    /\ UNCHANGED <<tools, defined, handles, wrappers, latest, torn>>
    /\ Executed(n, "skip", TRUE, "ok", 0) /\ Answered(n, s, "ok")

\* What the host keeps of a registration: everything, or what it had.
Records(n, s, outcome, cost) ==
    /\ tools' = IF outcome = "ok" THEN [tools EXCEPT ![n] = s] ELSE tools
    /\ latest' = IF outcome = "ok" THEN n ELSE latest
    /\ Executed(n, "register", TRUE, outcome, cost) /\ Answered(n, s, outcome)
\* What becomes of the guest's programs: n's is s, or was left as it was by a
\* registration that failed before it reached them, or is one of those a
\* registration that failed later leaves.
Put(n, s) == defined' = [m \in LangTools |-> IF m \in Reach(n) THEN s ELSE defined[m]]
Programs(n, s, outcome, left) ==
    \/ outcome = "ok" /\ Put(n, s) /\ torn' = torn \ Reach(n)
    \/ outcome # "ok" /\ UNCHANGED <<defined, torn>>
    \/ outcome # "ok" /\ torn' = torn \cup Reach(n) /\ \E p \in left : Put(n, p)

\* PHP, C#, Java, Julia, Perl and R: the guest copies the source into its one
\* slot and evaluates it at each call, so that registering cannot fail of the
\* source.  It may run out of points while it copies, and a source that does
\* not fit into the guest's memory is refused before.
RegisterProgram(n, s, cost, rc) ==
    /\ Request /\ OneProgram /\ ~Unchanged(n, s) /\ Spend(cost)
    /\ Programs(n, s, Outcome(cost, rc), IF Traps(cost) THEN {s, Mixed} ELSE {})
    /\ Records(n, s, Outcome(cost, rc), cost)
    /\ UNCHANGED <<handles, wrappers>>

\* Ruby, Lua and MicroPython: the source is executed, which defines the tool's
\* function; Lua and MicroPython then register a wrapper that calls it.  When
\* the source fails after that definition, or the wrapper is refused, the
\* function has changed and the recorded source has not.
RegisterSource(n, s, cost, rc) ==
    /\ Request /\ Is("source") /\ ~Unchanged(n, s) /\ Spend(cost)
    /\ Programs(n, s, Outcome(cost, rc), {s})
    /\ Records(n, s, Outcome(cost, rc), cost)
    /\ UNCHANGED <<handles, wrappers>>

\* QuickJS and TypeScript: evaluate the source, evaluate a wrapper, fetch the
\* global object and the wrapper.  The wrapper it replaces is freed, the
\* global handle it replaces is not.
RegisterHandles(n, s, cost, rc) ==
    /\ Request /\ Is("handles") /\ ~Unchanged(n, s) /\ Spend(cost)
    /\ Programs(n, s, Outcome(cost, rc), {s})
    /\ Records(n, s, Outcome(cost, rc), cost)
    /\ wrappers' = IF Outcome(cost, rc) = "ok" THEN wrappers \cup {n} ELSE wrappers
    /\ handles' = IF Outcome(cost, rc) = "ok" THEN handles + 1 ELSE handles

\* Go: the source is compiled, the module replaces the tool's module.
RegisterCompiled(n, s, rc) ==
    /\ Request /\ Is("module per call") /\ ~Unchanged(n, s) /\ fuel' = Budget
    /\ Programs(n, s, rc, {})
    /\ Records(n, s, rc, 0)
    /\ UNCHANGED <<handles, wrappers>>

\* Rust: the module is replaced, an instance that exists is kept.
RegisterModule(n, s, rc) ==
    /\ Request /\ Is("module once") /\ fuel' = Budget
    /\ IF rc = "ok" /\ defined[n] = NoSource THEN Put(n, s) ELSE defined' = defined
    /\ Records(n, s, rc, 0)
    /\ UNCHANGED <<handles, wrappers, torn>>

---------------------------------------------------------------------------
\* check_args_fit: refuses a payload of the capacity or more; a runtime whose
\* guest owns the buffer has none.  Mutant: no check.
Accepted(len) == TRUE
ArgsFit(len) == Self.layout = "guest" \/ len < Self.capacity
\* The name is written after the arguments: longer ones lose their end to it.
Whole(len) == Self.layout = "guest" \/ len =< Self.capacity

\* The values a QuickJS call leaves behind: the argument string, if the tool
\* returned null or trapped.
Leaked(outcome) ==
    IF Is("handles") /\ outcome \in {"null", "trap"} THEN handles + 1 ELSE handles

\* call_tool with a payload of that many blocks, whatever it was made from.
Invoke(n, payload, len, cost, rc) ==
    /\ Spend(cost)
    /\ handles' = Leaked(Outcome(cost, rc))
    /\ UNCHANGED <<tools, defined, wrappers, asked, latest, torn>>
    /\ Executed(n, payload, Whole(len), Outcome(cost, rc), cost)

Refuse(n, why) ==
    /\ UNCHANGED <<tools, defined, fuel, handles, wrappers, asked, latest, torn>>
    /\ Executed(n, why, TRUE, "refused", 0)

Call(n, len, cost, rc) ==
    /\ Request
    /\ IF ArgsFit(len) /\ tools[n] # NoSource
       THEN Invoke(n, "json", len, cost, rc)
       ELSE Refuse(n, IF ArgsFit(len) THEN "unknown" ELSE "too long")

\* call_tool_binary: the payload that was checked is handed over, or decoded
\* and written as JSON of another length.  Only QuickJS measures that again.
Converts == Self.json = "always" \/ ~exports
CallBinary(n, tlv, json, cost, rc) ==
    /\ Request
    /\ IF ~ArgsFit(tlv) THEN Refuse(n, "too long")
       ELSE IF tools[n] = NoSource THEN Refuse(n, "unknown")
       ELSE IF ~Converts THEN Invoke(n, "tlv", tlv, cost, rc)
       ELSE IF Self.rechecks /\ ~ArgsFit(json) THEN Refuse(n, "too long")
       ELSE Invoke(n, "tlv as json", json, cost, rc)

\* destroy: Rust and Go drop their tables, QuickJS its handles; the others
\* only tell the guest, and are dropped by the caller.
Destroy ==
    /\ requests < MaxRequests /\ requests' = MaxRequests
    /\ tools' = IF Self.layout = "guest" THEN [n \in LangTools |-> NoSource] ELSE tools
    /\ defined' = [n \in LangTools |-> NoSource]
    /\ wrappers' = {} /\ handles' = 0
    /\ ran' = Nothing
    /\ UNCHANGED <<lang, exports, fuel, asked, latest, torn>>

Returns == {"ok", "error", "null"}
LangNext ==
    \/ \E n \in LangTools, s \in Sources :
          \/ RegisterSkipped(n, s)
          \/ \E rc \in {"ok", "error"} :
                \/ RegisterCompiled(n, s, rc) \/ RegisterModule(n, s, rc)
                \/ \E cost \in Costs :
                      \/ RegisterProgram(n, s, cost, rc)
                      \/ RegisterSource(n, s, cost, rc)
                      \/ RegisterHandles(n, s, cost, rc)
    \/ \E n \in LangTools, len \in Lengths, cost \in Costs, rc \in Returns :
          \/ Call(n, len, cost, rc)
          \/ \E json \in Lengths : CallBinary(n, len, json, cost, rc)
    \/ Destroy

LangSpec == LangInit /\ [][LangNext]_langVars

---------------------------------------------------------------------------
(* Properties *)

Calling == ran.payload \in {"json", "tlv", "tlv as json"}

\* The registration whose source a call of n runs: the last of that tool, or of
\* any tool where the guest has one program.
Resident(n) == IF OneProgram THEN latest ELSE n

\* A call runs the source of the last registration that completed, of its tool
\* or in a guest with one program of any tool, through any sequence of
\* registrations, skipped registrations and failed calls, unless a
\* registration has since failed half-way (and except for Rust, whose first
\* instance stays).
RunsRegistered ==
    Calling /\ ran.tool \notin torn /\ lang # "rust" => ran.source = asked[Resident(ran.tool)]

\* Arguments that were handed over in the form in which they were measured
\* reach the guest whole: the name does not overwrite their end.
ArgsWhole == Calling /\ ran.payload # "tlv as json" => ran.whole

\* The budget is per request: a request that stays within the limit never
\* traps, however much the requests before it used up.
BudgetPerRequest == ran.outcome = "trap" => ran.cost > Budget

\* A call runs the source its guest was given last, on whole arguments and on a budget
\* of its own, through failed, skipped and repeated registrations.
RunsAsAsked == RunsRegistered /\ ArgsWhole /\ BudgetPerRequest

\* Do not hold.  A call runs its own tool's source: in a guest with one program
\* another tool's registration replaces it, and asking for the tool's source
\* again is skipped as unchanged.
RunsOwnSource == Calling /\ torn = {} /\ lang # "rust" => ran.source = asked[ran.tool]
\* Nor after a half-done registration, nor for Rust.
RunsRegisteredAlways == Calling => ran.source = asked[ran.tool]
\* Arguments re-encoded as JSON are not measured again.
ArgsWholeAlways == Calling => ran.whole
\* Every QuickJS value is freed: a second registration loses the first global
\* handle, a call that returns null its argument.
HandlesFreed == handles =< 1
=============================================================================
