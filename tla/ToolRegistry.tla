---------------------------- MODULE ToolRegistry ----------------------------
(***************************************************************************)
(* The tool registry of src/registry.rs and the encoded list of            *)
(* src/protocol/nda_native.rs: four registries of tools behind locks of    *)
(* their own, a generation that is bumped when one of them changes, and    *)
(* two caches of the combined list that are keyed by the generation.  A    *)
(* list is built registry by registry while other threads register tools,  *)
(* reload the plugins or convert tools to NMCP frames.                     *)
(*                                                                         *)
(* A change and its bump are one step: the change is made under a lock     *)
(* that is released after the bump, and every reader takes it.  The tools  *)
(* of the C# engine are the exception, since their cell has no lock.       *)
(***************************************************************************)
EXTENDS Integers, FiniteSets

CONSTANTS
    Threads,     \* threads that serve requests
    Names,       \* tool names
    Builtin,     \* names of built-in tools
    EngineTools, \* names the C# engine reports, the deprecated one left out
    Engines,     \* what the engine may be: a subset of {"up", "down", "flaky"}
    MaxFrames,   \* MAX_NMCP_FRAMES
    MaxOps       \* bound: operations begun

ASSUME RegistryAssumption ==
    /\ Builtin \subseteq Names /\ EngineTools \subseteq Names
    /\ Engines \subseteq {"up", "down", "flaky"}
    /\ MaxFrames \in Nat \ {0} /\ MaxOps \in Nat

VARIABLES
    generation,   \* REGISTRY_GENERATION
    engine,       \* external, fixed: whether discovery succeeds, fails, or does either
    discovered,   \* CACHED_TOOLS: "unset", "found" or "nothing"
    converted,    \* CONVERTED_TOOL_REGISTRY
    macros,       \* MACRO_TOOLS
    plugins,      \* PLUGIN_REGISTRY
    frames,       \* NMCP_FRAME_CACHE
    tools_cache,  \* TOOLS_CACHE
    list_cache,   \* TOOLS_LIST_CACHE of nda_native.rs
    list_lock,    \* the thread that holds its mutex, or "none"
    pc, op, arg,  \* each thread: where it is, its operation and the tool it names
    gen, acc,     \* get_tools: current_gen and the tools so far
    list_gen,     \* encoded_tools_list_result: gen
    must,         \* history: what was registered when the operation began
    result,       \* history: the list the operation returned
    ops           \* operations begun (bound)

regs == <<engine, discovered, converted, macros, plugins, frames>>
caches == <<tools_cache, list_cache, list_lock>>
locals == <<gen, acc, list_gen>>
vars == <<generation, regs, caches, pc, op, arg, locals, must, result, ops>>

\* Lists are sets of <<name, provider>>; a name is taken by its first provider.
NamesOf(list) == {p[1] : p \in list}
Extend(list, names, provider) == list \cup {<<n, provider>> : n \in names \ NamesOf(list)}

EmptyCache == [gen |-> -1, list |-> {}]

Init ==
    /\ generation = 0
    /\ engine \in Engines
    /\ discovered = "unset"
    /\ converted = {} /\ macros = {} /\ plugins = {} /\ frames = {}
    /\ tools_cache = EmptyCache /\ list_cache = EmptyCache /\ list_lock = "none"
    /\ pc = [t \in Threads |-> "idle"]
    /\ op = [t \in Threads |-> "none"]
    /\ arg = [t \in Threads |-> "none"]
    /\ gen = [t \in Threads |-> 0]
    /\ acc = [t \in Threads |-> {}]
    /\ list_gen = [t \in Threads |-> 0]
    /\ must = [t \in Threads |-> {}]
    /\ result = [t \in Threads |-> {}]
    /\ ops = 0

Goto(t, where) == pc' = [pc EXCEPT ![t] = where]

-----------------------------------------------------------------------------
(* Changes of the registry *)

May(t) == pc[t] = "idle" /\ ops < MaxOps

\* Faulty variant: the generation is not bumped.
RegisterToolQuietly(t, n) ==
    /\ May(t) /\ ops' = ops + 1
    /\ macros' = macros \cup {n}
    /\ UNCHANGED <<generation, engine, discovered, converted, plugins, frames, caches, pc, op, arg, locals,
                   must, result>>

\* register_tool_lazy
RegisterTool(t, n) ==
    /\ May(t) /\ ops' = ops + 1
    /\ macros' = macros \cup {n}
    /\ generation' = IF n \in macros THEN generation ELSE generation + 1
    /\ UNCHANGED <<engine, discovered, converted, plugins, frames, caches, pc, op, arg, locals, must, result>>

\* load_plugins, at start and after a marketplace operation: the tools of the plugins
\* that are in the directory now replace the old ones.
LoadPlugins(t, names) ==
    /\ May(t) /\ ops' = ops + 1
    /\ plugins' = names
    /\ generation' = generation + 1
    /\ UNCHANGED <<engine, discovered, converted, macros, frames, caches, pc, op, arg, locals, must, result>>

\* Faulty variant: the frame cache grows without bound.
WithFrameUnbounded(n) == {frames \cup {n}}

\* The frame cache with a frame more: a full one first drops an arbitrary frame.
WithFrame(n) ==
    IF Cardinality(frames) >= MaxFrames /\ n \notin frames
      THEN {(frames \ {m}) \cup {n} : m \in frames}
      ELSE {frames \cup {n}}

\* cache_nmcp_frame: the frame is cached; then get_tools looks for a schema ...
ConvertTool(t, n) ==
    /\ May(t) /\ ops' = ops + 1
    /\ frames' \in WithFrame(n)
    /\ generation' = generation + 1
    /\ op' = [op EXCEPT ![t] = "convert"]
    /\ arg' = [arg EXCEPT ![t] = n]
    /\ must' = [must EXCEPT ![t] = converted \cup macros]
    /\ Goto(t, "gen")
    /\ UNCHANGED <<engine, discovered, converted, macros, plugins, caches, locals, result>>

\* ... and the definition is registered.
Define(t) ==
    /\ pc[t] = "define"
    /\ converted' = converted \cup {arg[t]}
    /\ generation' = generation + 1
    /\ Goto(t, "idle")
    /\ UNCHANGED <<engine, discovered, macros, plugins, frames, caches, op, arg, locals, must, result, ops>>

-----------------------------------------------------------------------------
(* get_tools *)

\* tools/list of the JSON protocol.
ListTools(t) ==
    /\ May(t) /\ ops' = ops + 1
    /\ op' = [op EXCEPT ![t] = "list"]
    /\ must' = [must EXCEPT ![t] = converted \cup macros]
    /\ Goto(t, "gen")
    /\ UNCHANGED <<generation, regs, caches, arg, locals, result>>

LoadGeneration(t) ==
    /\ pc[t] = "gen"
    /\ gen' = [gen EXCEPT ![t] = generation]
    /\ Goto(t, "lookup")
    /\ UNCHANGED <<generation, regs, caches, op, arg, acc, list_gen, must, result, ops>>

\* Where get_tools returns to.
Caller(t) == CASE op[t] = "list" -> "idle" [] op[t] = "nda" -> "encode" [] op[t] = "convert" -> "define"

Return(t, list) ==
    /\ result' = [result EXCEPT ![t] = list]
    /\ acc' = [acc EXCEPT ![t] = list]
    /\ Goto(t, Caller(t))

Hit(t) ==
    /\ pc[t] = "lookup" /\ tools_cache.gen = gen[t]
    /\ Return(t, tools_cache.list)
    /\ UNCHANGED <<generation, regs, caches, op, arg, gen, list_gen, must, ops>>

Native == {<<n, "builtin">> : n \in Builtin}

\* The built-in tools, and those of the engine if discovery has been made ...
Miss(t) ==
    /\ pc[t] = "lookup" /\ tools_cache.gen # gen[t]
    /\ acc' = [acc EXCEPT ![t] =
         IF discovered = "found" THEN Extend(Native, EngineTools, "engine") ELSE Native]
    /\ Goto(t, IF discovered = "unset" THEN "discover" ELSE "converted")
    /\ UNCHANGED <<generation, regs, caches, op, arg, gen, list_gen, must, result, ops>>

\* ... or if it succeeds now.  Only the first thread sets the cell, and bumps.
DiscoverTools(t) ==
    /\ pc[t] = "discover" /\ engine # "down"
    /\ acc' = [acc EXCEPT ![t] = Extend(Native, EngineTools, "engine")]
    /\ discovered' = IF discovered = "unset" THEN "found" ELSE discovered
    /\ Goto(t, IF discovered = "unset" THEN "bump" ELSE "converted")
    /\ UNCHANGED <<generation, engine, converted, macros, plugins, frames, caches, op, arg, gen, list_gen,
                   must, result, ops>>

Bump(t) ==
    /\ pc[t] = "bump"
    /\ generation' = generation + 1
    /\ Goto(t, "converted")
    /\ UNCHANGED <<regs, caches, op, arg, locals, must, result, ops>>

\* A failure is remembered as an empty list.
DiscoveryFails(t) ==
    /\ pc[t] = "discover" /\ engine # "up"
    /\ discovered' = IF discovered = "unset" THEN "nothing" ELSE discovered
    /\ Goto(t, "converted")
    /\ UNCHANGED <<generation, engine, converted, macros, plugins, frames, caches, op, arg, locals, must,
                   result, ops>>

AddConverted(t) ==
    /\ pc[t] = "converted"
    /\ acc' = [acc EXCEPT ![t] = Extend(acc[t], converted, "converted")]
    /\ Goto(t, "macros")
    /\ UNCHANGED <<generation, regs, caches, op, arg, gen, list_gen, must, result, ops>>

AddMacros(t) ==
    /\ pc[t] = "macros"
    /\ acc' = [acc EXCEPT ![t] = Extend(acc[t], macros, "macro")]
    /\ Goto(t, "plugins")
    /\ UNCHANGED <<generation, regs, caches, op, arg, gen, list_gen, must, result, ops>>

AddPlugins(t) ==
    /\ pc[t] = "plugins"
    /\ acc' = [acc EXCEPT ![t] = Extend(acc[t], plugins, "plugin")]
    /\ Goto(t, "store")
    /\ UNCHANGED <<generation, regs, caches, op, arg, gen, list_gen, must, result, ops>>

\* Faulty variant: the list is stored under the generation of the moment.
StoreAsCurrent(t) ==
    /\ pc[t] = "store"
    /\ tools_cache' = [gen |-> generation, list |-> acc[t]]
    /\ Return(t, acc[t])
    /\ UNCHANGED <<generation, regs, list_cache, list_lock, op, arg, gen, list_gen, must, ops>>

\* The list is cached under the generation read before it was built.
Store(t) ==
    /\ pc[t] = "store"
    /\ tools_cache' = [gen |-> gen[t], list |-> acc[t]]
    /\ Return(t, acc[t])
    /\ UNCHANGED <<generation, regs, list_cache, list_lock, op, arg, gen, list_gen, must, ops>>

-----------------------------------------------------------------------------
(* encoded_tools_list_result, for the NDA transports: it holds the mutex of   *)
(* its cache over the call of get_tools                                       *)

ListNda(t) ==
    /\ May(t) /\ ops' = ops + 1
    /\ op' = [op EXCEPT ![t] = "nda"]
    /\ must' = [must EXCEPT ![t] = converted \cup macros]
    /\ Goto(t, "list_lock")
    /\ UNCHANGED <<generation, regs, caches, arg, locals, result>>

LockList(t) ==
    /\ pc[t] = "list_lock" /\ list_lock = "none"
    /\ list_lock' = t
    /\ Goto(t, "list_gen")
    /\ UNCHANGED <<generation, regs, tools_cache, list_cache, op, arg, locals, must, result, ops>>

ListHit(t) ==
    /\ pc[t] = "list_gen" /\ list_cache.gen = generation
    /\ result' = [result EXCEPT ![t] = list_cache.list]
    /\ list_lock' = "none"
    /\ Goto(t, "idle")
    /\ UNCHANGED <<generation, regs, tools_cache, list_cache, op, arg, locals, must, ops>>

ListMiss(t) ==
    /\ pc[t] = "list_gen" /\ list_cache.gen # generation
    /\ list_gen' = [list_gen EXCEPT ![t] = generation]
    /\ Goto(t, "gen")
    /\ UNCHANGED <<generation, regs, caches, op, arg, gen, acc, must, result, ops>>

\* Faulty variant: the list is cached for the generation after this one.
EncodeAhead(t) ==
    /\ pc[t] = "encode"
    /\ list_cache' = IF generation = list_gen[t] THEN [gen |-> generation + 1, list |-> acc[t]]
                                                 ELSE list_cache
    /\ list_lock' = "none"
    /\ Goto(t, "idle")
    /\ UNCHANGED <<generation, regs, tools_cache, op, arg, locals, must, result, ops>>

\* The encoded list is cached only if the generation has not moved.
Encode(t) ==
    /\ pc[t] = "encode"
    /\ list_cache' = IF generation = list_gen[t] THEN [gen |-> generation, list |-> acc[t]]
                                                 ELSE list_cache
    /\ list_lock' = "none"
    /\ Goto(t, "idle")
    /\ UNCHANGED <<generation, regs, tools_cache, op, arg, locals, must, result, ops>>

Next ==
    \E t \in Threads :
      \/ \E n \in Names : RegisterTool(t, n) \/ ConvertTool(t, n)
      \/ \E names \in SUBSET Names : LoadPlugins(t, names)
      \/ Define(t) \/ ListTools(t) \/ ListNda(t)
      \/ LoadGeneration(t) \/ Hit(t) \/ Miss(t) \/ DiscoverTools(t) \/ Bump(t) \/ DiscoveryFails(t)
      \/ AddConverted(t) \/ AddMacros(t) \/ AddPlugins(t) \/ Store(t)
      \/ LockList(t) \/ ListHit(t) \/ ListMiss(t) \/ Encode(t)

Spec == Init /\ [][Next]_vars

-----------------------------------------------------------------------------
\* The list a build that starts now would return, as far as it has got at each step.
EngineKnown == IF discovered = "unset" THEN engine # "down" ELSE discovered = "found"
WithEngine == IF EngineKnown THEN Extend(Native, EngineTools, "engine") ELSE Native
WithConverted == Extend(WithEngine, converted, "converted")
WithMacros == Extend(WithConverted, macros, "macro")
Rebuilt == Extend(WithMacros, plugins, "plugin")

Providers == {"builtin", "engine", "converted", "macro", "plugin"}
Lists == SUBSET (Names \X Providers)

\* Type invariant.  No cache and no thread is ahead of the generation.
TypeOK ==
    /\ generation \in Nat
    /\ engine \in Engines /\ discovered \in {"unset", "found", "nothing"}
    /\ converted \subseteq Names /\ macros \subseteq Names /\ plugins \subseteq Names
    /\ frames \subseteq Names
    /\ tools_cache \in [gen : Int, list : Lists] /\ tools_cache.gen <= generation
    /\ list_cache \in [gen : Int, list : Lists] /\ list_cache.gen <= generation
    /\ pc \in [Threads -> {"idle", "gen", "lookup", "discover", "bump", "converted", "macros",
                           "plugins", "store", "define", "list_lock", "list_gen", "encode"}]
    /\ op \in [Threads -> {"none", "list", "nda", "convert"}]
    /\ \A t \in Threads : pc[t] = "define" => arg[t] \in Names
    /\ gen \in [Threads -> Nat] /\ \A t \in Threads : gen[t] <= generation
    /\ acc \in [Threads -> Lists]
    /\ list_gen \in [Threads -> Nat] /\ \A t \in Threads : list_gen[t] <= generation

\* What the comment on REGISTRY_GENERATION says of it: caches keyed by the generation
\* rebuild when the tool set changes.  So a cache that would be used now holds what a
\* fresh build would return, although lists are built while the registries change.
CacheCoherent ==
    /\ tools_cache.gen = generation => tools_cache.list = Rebuilt
    /\ list_cache.gen = generation => list_cache.list = Rebuilt

\* A tool whose registration or conversion has returned is in every list that is
\* requested afterwards, by whichever thread and from whichever cache.
RegisteredListed ==
    \A t \in Threads : (pc[t] = "idle" /\ op[t] # "none") => must[t] \subseteq NamesOf(result[t])

\* The frame cache stays within MAX_NMCP_FRAMES.
FramesBounded == Cardinality(frames) <= MaxFrames

\* Lists are built and cached while the registry changes, and are current all the same:
\* both caches, every list requested after a registration, and the frames within limits.
ListsCurrent == CacheCoherent /\ RegisteredListed /\ FramesBounded

-----------------------------------------------------------------------------
(* What comments and messages of the code claim and its behaviours do not      *)
(* satisfy: the README says on which instance each is refuted.                 *)

\* What the list says of a converted tool: it "executes via fast binary path", so its
\* frame is there.
ConvertedCallable == converted \subseteq frames
=============================================================================
