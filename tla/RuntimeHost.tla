---------------------------- MODULE RuntimeHost ----------------------------
(***************************************************************************)
(* What the language runtimes share (src/wasm_runtime/mod.rs): the cache   *)
(* of compiled modules with the instruction limit baked into them, and     *)
(* WasmRuntimeRegistry, which routes a tool to the runtime that hosts it.  *)
(* Modules are compiled outside the cache lock by threads that load        *)
(* runtimes at the same time.  And how the plugins that use them come in   *)
(* (src/plugins/mod.rs): requests scan the plugin directory, which may     *)
(* change meanwhile, and replace the plugin registry by what they found.   *)
(***************************************************************************)
EXTENDS Integers, FiniteSets, Functions, SequencesExt

CONSTANTS
    Loaders,        \* threads that create a runtime
    Modules,        \* module files, by content
    Limits,         \* instruction limits; 0 is "no metering"
    HostLanguages,  \* languages of the registry
    HostTools,      \* tool names
    MaxRegistry,    \* bound: operations on the registry
    Scanners,       \* requests that reload the plugins
    PluginFiles,    \* the .json files of the plugin directory
    Manifests,      \* what such a file may hold
    MaxEdits,       \* bound: changes of the directory
    MaxLoads        \* bound: loads of the plugins

\* A manifest that parses is a PluginManifest, whose tools are a Vec.
ASSUME HostAssumption ==
    \A m \in Manifests : m.parses => m.tools \in Seq(Range(m.tools))

VARIABLES
    limit,      \* WASM_INSTRUCTION_LIMIT
    cache,      \* MODULE_CACHE: key -> the limit the module was compiled with
    loader,     \* what each loading thread does
    loaded,     \* the limit compiled into the module each thread got
    skewed,     \* history: the limit changed between the engine and its key
    runtimes,   \* WasmRuntimeRegistry.runtimes: language -> entry
    toolLang,   \* WasmRuntimeRegistry.tools: name -> language
    live,       \* the tools of each live runtime (in the guest)
    replaced,   \* history: some runtime was registered over another one,
                \* or a tool under two languages
    registryOps,
    pluginDir,  \* file -> its manifest
    scan,       \* what each reloading request does
    plugins,    \* PLUGIN_REGISTRY
    called,     \* the plugin tool the last call resolved
    window,     \* history: the files there were during the load that stored plugins
    upToDate,   \* history: a load that began after the last change has ended
    edits, loads

loadVars     == <<limit, cache, loader, loaded, skewed>>
registryVars == <<runtimes, toolLang, live, replaced, registryOps>>
pluginVars   == <<pluginDir, scan, plugins, called, window, upToDate, edits, loads>>
hostVars     == <<loadVars, registryVars, pluginVars>>

NoModule  == "none"
IdleLoad  == [pc |-> "idle", module |-> NoModule, engine |-> 0, key |-> 0]

NoTool    == [name |-> "none"]
NoScan    == [pc |-> "idle", todo |-> {}, cur |-> "none", got |-> <<>>, seen |-> {}, after |-> 0]

HostInit ==
    /\ limit \in Limits
    /\ cache = <<>>
    /\ loader = [t \in Loaders |-> IdleLoad]
    /\ loaded = [t \in Loaders |-> [module |-> NoModule, wanted |-> 0, baked |-> 0]]
    /\ skewed = FALSE
    /\ runtimes = <<>> /\ toolLang = <<>> /\ live = <<>>
    /\ replaced = FALSE
    /\ registryOps = 0
    /\ pluginDir = <<>>
    /\ scan = [r \in Scanners |-> NoScan]
    /\ plugins = <<>> /\ called = NoTool
    /\ window = {} /\ upToDate = FALSE
    /\ edits = 0 /\ loads = 0

---------------------------------------------------------------------------
\* set_instruction_limit.
SetLimit(l) == l # limit /\ limit' = l /\ UNCHANGED <<cache, loader, loaded, skewed, registryVars>>

\* module_cache_key: the bytes and the limit.  Mutant: the bytes alone.
BytesKey(module, l) == <<module>>
CacheKey(module, l) == <<module, l>>

\* A runtime is created: the limit is read once and configures the engine and
\* the key (create_wasm_instance).  Go and Rust build the engine first and read
\* the limit again for the key (compile_module_cached).
StartLoad(t, module, kind) ==
    /\ loader[t].pc = "idle"
    /\ loader' = [loader EXCEPT ![t] =
                    [pc |-> IF kind = "interpreter" THEN "lookup" ELSE "key",
                     module |-> module, engine |-> limit, key |-> limit]]
    /\ UNCHANGED <<limit, cache, loaded, skewed, registryVars>>
ReadKey(t) ==
    /\ loader[t].pc = "key"
    /\ loader' = [loader EXCEPT ![t] = [@ EXCEPT !.pc = "lookup", !.key = limit]]
    /\ skewed' = (skewed \/ limit # loader[t].engine)
    /\ UNCHANGED <<limit, cache, loaded, registryVars>>

Got(t, baked) ==
    /\ loaded' = [loaded EXCEPT ![t] = [module |-> loader[t].module, wanted |-> loader[t].key,
                                        baked |-> baked]]
    /\ loader' = [loader EXCEPT ![t] = IdleLoad]
\* Under the lock: a cached module is deserialized; otherwise the lock is
\* released, the module compiled with the engine, and the entry inserted.
Lookup(t) ==
    LET key == CacheKey(loader[t].module, loader[t].key)
    IN /\ loader[t].pc = "lookup"
       /\ \/ key \in DOMAIN cache /\ Got(t, cache[key])
          \/ /\ key \notin DOMAIN cache
             /\ loader' = [loader EXCEPT ![t].pc = "compile"]
             /\ UNCHANGED loaded
       /\ UNCHANGED <<limit, cache, skewed, registryVars>>
CompileModule(t) ==
    LET key == CacheKey(loader[t].module, loader[t].key)
    IN /\ loader[t].pc = "compile"
       /\ \/ /\ cache' = [k \in DOMAIN cache \cup {key} |->
                            IF k = key THEN loader[t].engine ELSE cache[k]]
             /\ Got(t, loader[t].engine)
          \/ \* the module does not compile, or the guest does not start
             loader' = [loader EXCEPT ![t] = IdleLoad] /\ UNCHANGED <<cache, loaded>>
       /\ UNCHANGED <<limit, skewed, registryVars>>

---------------------------------------------------------------------------
\* WasmRuntimeRegistry.

Registry == registryOps < MaxRegistry /\ registryOps' = registryOps + 1 /\ UNCHANGED loadVars

\* register_runtime: the runtime is initialized and takes the place of one
\* that is there; the tools of that one stay in the table.
RegisterRuntime(l) ==
    /\ Registry
    /\ runtimes' = [k \in DOMAIN runtimes \cup {l} |-> IF k = l THEN {} ELSE runtimes[k]]
    /\ live' = [k \in DOMAIN live \cup {l} |-> IF k = l THEN {} ELSE live[k]]
    /\ replaced' = (replaced \/ l \in DOMAIN runtimes)
    /\ UNCHANGED toolLang

\* register_tool: in the guest, in the entry's names, in the table.
RegisterIn(l, n) ==
    /\ Registry /\ l \in DOMAIN runtimes
    /\ runtimes' = [runtimes EXCEPT ![l] = @ \cup {n}]
    /\ live' = [live EXCEPT ![l] = @ \cup {n}]
    /\ toolLang' = [m \in DOMAIN toolLang \cup {n} |-> IF m = n THEN l ELSE toolLang[m]]
    /\ replaced' = (replaced \/ (n \in DOMAIN toolLang /\ toolLang[n] # l))

\* destroy_runtime: the entry goes, and the tools it was given.  Mutant: the
\* tools stay in the table.
ForgetNone(l) == DOMAIN toolLang
Forget(l) == DOMAIN toolLang \ runtimes[l]
DestroyRuntime(l) ==
    /\ Registry /\ l \in DOMAIN runtimes
    /\ toolLang' = [m \in Forget(l) |-> toolLang[m]]
    /\ runtimes' = [k \in DOMAIN runtimes \ {l} |-> runtimes[k]]
    /\ live' = [k \in DOMAIN live \ {l} |-> live[k]]
    /\ UNCHANGED replaced

---------------------------------------------------------------------------
\* load_plugins and the calls of plugin tools.

Pairs(dir) == {<<f, dir[f]>> : f \in DOMAIN dir}

\* Somebody writes or removes a manifest.
Edited(dir) ==
    /\ edits < MaxEdits /\ edits' = edits + 1 /\ upToDate' = FALSE
    /\ pluginDir' = dir
    /\ scan' = [r \in Scanners |-> [scan[r] EXCEPT !.seen = @ \cup Pairs(dir)]]
    /\ UNCHANGED <<plugins, called, window, loads>>
PutManifest(f, m) == Edited([g \in DOMAIN pluginDir \cup {f} |-> IF g = f THEN m ELSE pluginDir[g]])
RemoveManifest(f) == f \in DOMAIN pluginDir /\ Edited([g \in DOMAIN pluginDir \ {f} |-> pluginDir[g]])

\* load_plugins_from_directory: the names are read, and then the files, in the
\* order in which the directory has them.
StartScan(r) ==
    /\ scan[r].pc = "idle" /\ loads < MaxLoads /\ loads' = loads + 1
    /\ scan' = [scan EXCEPT ![r] = [NoScan EXCEPT !.pc = "next", !.todo = DOMAIN pluginDir,
                                                !.seen = Pairs(pluginDir), !.after = edits]]
    /\ UNCHANGED <<pluginDir, plugins, called, window, upToDate, edits>>

\* load_plugin_manifest: first the size, ...
StatManifest(r) ==
    /\ scan[r].pc = "next"
    /\ \E f \in scan[r].todo :
         scan' = [scan EXCEPT ![r] = [@ EXCEPT
                    !.todo = scan[r].todo \ {f}, !.cur = f,
                    !.pc = IF f \in DOMAIN pluginDir /\ ~pluginDir[f].huge THEN "read" ELSE "next"]]
    /\ UNCHANGED <<pluginDir, plugins, called, window, upToDate, edits, loads>>

\* ... then the content, refused if a tool lacks what its executor needs.
Executable(tool) == tool.type \in {"process", "wasm"} /\ tool.complete
ValidFirst(m) == m.parses /\ m.plugin # "" /\ m.tools # <<>> /\ Executable(m.tools[1])
Valid(m) ==
    /\ m.parses /\ m.plugin # "" /\ m.tools # <<>>
    /\ \A tool \in Range(m.tools) : tool.name # "" /\ Executable(tool)
ReadManifest(r) ==
    LET f == scan[r].cur
    IN /\ scan[r].pc = "read"
       /\ scan' = [scan EXCEPT ![r] = [@ EXCEPT
                      !.pc = "next",
                      !.got = IF f \in DOMAIN pluginDir /\ Valid(pluginDir[f])
                                THEN Append(scan[r].got, [path |-> f, manifest |-> pluginDir[f]])
                                ELSE scan[r].got]]
       /\ UNCHANGED <<pluginDir, plugins, called, window, upToDate, edits, loads>>

\* The registry is replaced.  Mutant: what it held stays.
AddedTo(old, got) == old \o got
Replacing(old, got) == got
StorePlugins(r) ==
    /\ scan[r].pc = "next" /\ scan[r].todo = {}
    /\ plugins' = Replacing(plugins, scan[r].got)
    /\ window' = scan[r].seen
    /\ upToDate' = (upToDate \/ scan[r].after = edits)
    /\ scan' = [scan EXCEPT ![r] = NoScan]
    /\ UNCHANGED <<pluginDir, called, edits, loads>>

\* plugins_to_registry_tools, and get_tools, which keeps the first of a name.
Named(tools, n) == {k \in DOMAIN tools : tools[k].name = n}
AllTools == FlattenSeq([i \in DOMAIN plugins |-> plugins[i].manifest.tools])
Offered(n) == IF Named(AllTools, n) = {} THEN NoTool ELSE AllTools[Min(Named(AllTools, n))]

\* call_tool: the first plugin that has the tool, and its first tool of the name.
\* Mutant: the last plugin.
LastOf(is) == CHOOSE i \in is : \A j \in is : i >= j
FirstOf(is) == CHOOSE i \in is : \A j \in is : i <= j
ResolvePlugin(n) ==
    LET has == {i \in DOMAIN plugins : Named(plugins[i].manifest.tools, n) # {}}
        tools == plugins[FirstOf(has)].manifest.tools
    IN IF has = {} THEN NoTool ELSE tools[Min(Named(tools, n))]

\* execute_plugin_tool, outside the lock, on the copy.
CallPlugin(n) ==
    /\ ResolvePlugin(n) # NoTool /\ called' = ResolvePlugin(n)
    /\ UNCHANGED <<pluginDir, scan, plugins, window, upToDate, edits, loads>>

PluginsNext ==
    \/ \E f \in PluginFiles : RemoveManifest(f) \/ \E m \in Manifests : PutManifest(f, m)
    \/ \E r \in Scanners : StartScan(r) \/ StatManifest(r) \/ ReadManifest(r) \/ StorePlugins(r)
    \/ \E n \in HostTools : CallPlugin(n)

LoadNext ==
    \/ \E l \in Limits : SetLimit(l)
    \/ \E t \in Loaders :
          \/ \E module \in Modules, kind \in {"interpreter", "compiled"} : StartLoad(t, module, kind)
          \/ ReadKey(t) \/ Lookup(t) \/ CompileModule(t)
RegistryNext ==
    \E l \in HostLanguages :
          \/ RegisterRuntime(l) \/ DestroyRuntime(l)
          \/ \E n \in HostTools : RegisterIn(l, n)
HostNext ==
    \/ LoadNext /\ UNCHANGED <<registryVars, pluginVars>>
    \/ RegistryNext /\ UNCHANGED <<loadVars, pluginVars>>
    \/ PluginsNext /\ UNCHANGED <<loadVars, registryVars>>

HostSpec == HostInit /\ [][HostNext]_hostVars

---------------------------------------------------------------------------
(* Properties *)

\* Every module a thread gets is metered with the limit it asked for, whether
\* it compiled it or took it from the cache, and whatever the limit was when
\* another thread cached it, unless the limit changed while a compiled tool was
\* between its engine and its key.
MeteredAsAsked == ~skewed => \A t \in Loaders : loaded[t].baked = loaded[t].wanted

\* call_tool can route every listed tool: its runtime exists and its guest has
\* the tool, unless a runtime or a tool had been registered over another one.
ListedRoutable ==
    ~replaced => \A n \in DOMAIN toolLang :
                     toolLang[n] \in DOMAIN runtimes /\ n \in live[toolLang[n]]

\* A call of a plugin tool runs the definition that tools/list shows, also when two
\* plugins have tools of one name.
CalledAsListed == \A n \in HostTools : ResolvePlugin(n) = Offered(n)

\* Whatever a call resolved has an executor that execute_plugin_tool can start, although
\* files change while they are loaded and plugins while a call runs.
CalledExecutable == called # NoTool => Executable(called)

\* Every registered plugin was in its file at some time during the load that stored it:
\* nothing is older than that load.
LoadedInWindow == \A i \in DOMAIN plugins : <<plugins[i].path, plugins[i].manifest>> \in window

\* A module is metered as its loader asked, a listed tool can be called, and a plugin's
\* tool is the one listed and loaded, although the caches, tables and directories behind
\* them are shared.
HostedAsAsked == MeteredAsAsked /\ ListedRoutable /\ CalledAsListed /\ CalledExecutable /\ LoadedInWindow

\* Do not hold: the limit may change between the engine and the key of a
\* compiled tool, and the entry then serves everyone who asks for that limit;
\* a runtime registered again leaves tools that nothing hosts, and the removal
\* of one runtime takes away a tool that moved to another.
MeteredAlways == \A t \in Loaders : loaded[t].baked = loaded[t].wanted
RoutableAlways ==
    \A n \in DOMAIN toolLang : toolLang[n] \in DOMAIN runtimes /\ n \in live[toolLang[n]]
LiveListed == \A l \in DOMAIN live : \A n \in live[l] : n \in DOMAIN toolLang

\* Do not hold: the size is checked before the file is opened, and a manifest written
\* in between may be longer; a slower load that began earlier stores its findings over
\* those of a later one, and a plugin removed before that one is back.
LoadedWithinLimit == \A i \in DOMAIN plugins : ~plugins[i].manifest.huge
LastLoadWins == upToDate => \A i \in DOMAIN plugins : plugins[i].path \in DOMAIN pluginDir
=============================================================================
