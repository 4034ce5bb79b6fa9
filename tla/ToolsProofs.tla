---------------------------- MODULE ToolsProofs ----------------------------
(***************************************************************************)
(* What is listed and what is run, for any number of threads, tools,       *)
(* operations and requests.                                                *)
(*                                                                         *)
(* With an engine whose discovery always succeeds or always fails, both    *)
(* caches of the tool list are coherent.  The induction follows the        *)
(* generation a build carries: as long as it is the current one, nothing   *)
(* the build has read so far has changed since, so each step holds a       *)
(* prefix of what a build made now would hold; as soon as it is not,       *)
(* nothing need be known of the build.                                     *)
(*                                                                         *)
(* A language runtime runs a tool with the source of the last registration *)
(* the guest completed, of that tool or where the guest has one program of *)
(* any, and the host gives a guest the bytes it reads once and in order,   *)
(* under descriptors that are never reused.                                *)
(***************************************************************************)
EXTENDS ToolRegistry, LanguageRuntimes, WasiHost, FiniteSetTheorems,
        SequenceTheorems, TLAPS

Steps == {"idle", "gen", "lookup", "discover", "bump", "converted", "macros", "plugins", "store",
          "define", "list_lock", "list_gen", "encode"}

\* The steps of a call of get_tools that has read the generation.
Building == {"lookup", "discover", "bump", "converted", "macros", "plugins", "store", "encode"}

Shape ==
    /\ generation \in Nat
    /\ pc \in [Threads -> Steps]
    /\ op \in [Threads -> {"none", "list", "nda", "convert"}]
    /\ gen \in [Threads -> Nat] /\ list_gen \in [Threads -> Nat]
    /\ DOMAIN acc = Threads
    /\ tools_cache.gen \in Int /\ list_cache.gen \in Int

\* What discovery has found is what the engine is.
Settled ==
    /\ engine \in Engines
    /\ discovered \in {"unset", "found", "nothing"}
    /\ discovered = "found" => engine = "up"
    /\ discovered = "nothing" => engine = "down"

\* No generation that was read or stored is ahead of the current one.
Behind ==
    /\ tools_cache.gen <= generation /\ list_cache.gen <= generation
    /\ \A t \in Threads :
         /\ gen[t] <= generation /\ list_gen[t] <= generation
         /\ (op[t] = "nda" /\ pc[t] \in Building) => list_gen[t] <= gen[t]

Purpose ==
    \A t \in Threads :
      /\ op[t] = "none" => pc[t] = "idle"
      /\ pc[t] = "encode" => op[t] = "nda"

\* The prefix a build holds at each step.
Holds(t) ==
    /\ pc[t] = "converted" => acc[t] = WithEngine
    /\ pc[t] = "macros" => acc[t] = WithConverted
    /\ pc[t] = "plugins" => acc[t] = WithMacros
    /\ pc[t] \in {"store", "encode"} => acc[t] = Rebuilt

Prefix ==
    \A t \in Threads :
      /\ pc[t] = "discover" => acc[t] = Native
      /\ gen[t] = generation => Holds(t)

CoherentInv == Shape /\ Settled /\ Behind /\ Purpose /\ Prefix /\ CacheCoherent

Steady == Engines \subseteq {"up", "down"}

LEMMA CoherentInit == Init => CoherentInv
<1> SUFFICES ASSUME Init PROVE CoherentInv
  OBVIOUS
<1> USE DEF Init, EmptyCache
<1>1. Shape
  BY DEF Shape, Steps
<1>2. Settled
  BY DEF Settled
<1>3. Behind
  BY DEF Behind, Building
<1>4. Purpose /\ Prefix
  BY DEF Purpose, Prefix, Holds
<1>5. CacheCoherent
  BY DEF CacheCoherent
<1>. QED BY <1>1, <1>2, <1>3, <1>4, <1>5 DEF CoherentInv

\* A build made now depends on the registries and on the engine only.
LEMMA SameLists ==
    ASSUME Steady, Settled, Settled', UNCHANGED <<engine, converted, macros, plugins>>
    PROVE  /\ WithEngine' = WithEngine /\ WithConverted' = WithConverted
           /\ WithMacros' = WithMacros /\ Rebuilt' = Rebuilt
<1>1. EngineKnown = (engine = "up") /\ EngineKnown' = (engine = "up")
  BY DEF EngineKnown, Settled, Steady
<1>2. WithEngine' = WithEngine
  BY <1>1 DEF WithEngine
<1>3. WithConverted' = WithConverted
  BY <1>2 DEF WithConverted
<1>4. WithMacros' = WithMacros
  BY <1>3 DEF WithMacros
<1>. QED BY <1>2, <1>3, <1>4 DEF Rebuilt

\* After a bump no build and no cache is current, and nothing else need be shown.
LEMMA BumpCoherent ==
    ASSUME CoherentInv, generation' = generation + 1, NEW t \in Threads, NEW where \in Steps,
           NEW o \in {"list", "nda", "convert"},
           pc' = [pc EXCEPT ![t] = where] \/ UNCHANGED pc,
           op' = [op EXCEPT ![t] = o] \/ UNCHANGED op,
           UNCHANGED <<engine, discovered, tools_cache, list_cache, locals>>,
           Purpose', where # "discover",
           op'[t] = "nda" /\ pc'[t] \in Building => pc[t] \in Building /\ op[t] = "nda"
    PROVE  CoherentInv'
<1> USE DEF CoherentInv
<1>1. Shape'
  BY DEF Shape, locals
<1>2. Settled'
  BY DEF Settled
<1>3. Behind'
  BY DEF Behind, Shape, locals, Building
<1>4. Prefix'
  BY DEF Prefix, Behind, Shape, locals
<1>5. CacheCoherent'
  BY DEF CacheCoherent, Behind, Shape
<1>. QED BY <1>1, <1>2, <1>3, <1>4, <1>5

LEMMA CoherentStep == Steady /\ CoherentInv /\ [Next]_vars => CoherentInv'
<1> SUFFICES ASSUME Steady, CoherentInv, [Next]_vars PROVE CoherentInv'
  OBVIOUS
<1> USE DEF CoherentInv
<1>1. ASSUME NEW t \in Threads, NEW n \in Names, RegisterTool(t, n) PROVE CoherentInv'
  <2>. USE <1>1 DEF RegisterTool, caches, locals
  <2>1. CASE n \in macros
    <3>1. UNCHANGED <<generation, engine, discovered, converted, macros, plugins, pc, op, gen, acc, list_gen,
                      tools_cache, list_cache>>
      BY <2>1
    <3>2. Settled' /\ Shape' /\ Behind' /\ Purpose'
      BY <3>1 DEF Settled, Shape, Behind, Purpose
    <3>3. Prefix' /\ CacheCoherent'
      BY <3>1, <3>2, SameLists DEF Prefix, Holds, CacheCoherent
    <3>. QED BY <3>2, <3>3
  <2>2. CASE n \notin macros
    <3>1. generation' = generation + 1 /\ pc[t] \in Steps
      BY <2>2 DEF Shape
    <3>2. Purpose' /\ UNCHANGED <<pc, op, engine, discovered, tools_cache, list_cache, locals>>
      BY DEF Purpose
    <3>. QED BY <3>1, <3>2, BumpCoherent, "idle" \in Steps DEF Steps, Building
  <2>. QED BY <2>1, <2>2
<1>2. ASSUME NEW t \in Threads, NEW names \in SUBSET Names, LoadPlugins(t, names)
      PROVE  CoherentInv'
  <2>1. /\ Purpose' /\ generation' = generation + 1
        /\ UNCHANGED <<pc, op, engine, discovered, tools_cache, list_cache, locals>>
    BY <1>2 DEF LoadPlugins, caches, Purpose
  <2>. QED BY <2>1, BumpCoherent, "idle" \in Steps DEF Steps, Building
<1>3. ASSUME NEW t \in Threads, NEW n \in Names, ConvertTool(t, n) PROVE CoherentInv'
  <2>1. /\ Purpose' /\ generation' = generation + 1
        /\ pc' = [pc EXCEPT ![t] = "gen"] /\ pc'[t] = "gen"
        /\ op' = [op EXCEPT ![t] = "convert"]
        /\ UNCHANGED <<engine, discovered, tools_cache, list_cache, locals>>
    BY <1>3 DEF ConvertTool, caches, Purpose, Goto, Shape
  <2>. QED BY <2>1, BumpCoherent, "gen" \in Steps DEF Steps, Building
<1>4. ASSUME NEW t \in Threads, Define(t) PROVE CoherentInv'
  <2>1. /\ Purpose' /\ generation' = generation + 1
        /\ pc' = [pc EXCEPT ![t] = "idle"] /\ pc'[t] = "idle"
        /\ UNCHANGED <<op, engine, discovered, tools_cache, list_cache, locals>>
    BY <1>4 DEF Define, caches, Purpose, Goto, Shape
  <2>. QED BY <2>1, BumpCoherent, "idle" \in Steps DEF Steps, Building
<1>5. ASSUME NEW t \in Threads, Bump(t) PROVE CoherentInv'
  <2>1. /\ Purpose' /\ generation' = generation + 1 /\ pc[t] \in Building
        /\ pc' = [pc EXCEPT ![t] = "converted"]
        /\ UNCHANGED <<op, engine, discovered, tools_cache, list_cache, locals>>
    BY <1>5 DEF Bump, caches, regs, Purpose, Goto, Shape, Building
  <2>. QED BY <2>1, BumpCoherent, "converted" \in Steps DEF Steps
\* The actions that leave the generation alone.
<1>6. ASSUME NEW t \in Threads, ListTools(t) \/ ListNda(t) \/ LockList(t) PROVE CoherentInv'
  <2>1. /\ UNCHANGED <<generation, engine, discovered, converted, macros, plugins, gen, acc, list_gen,
                       tools_cache, list_cache>>
        /\ \E w \in {"gen", "list_lock", "list_gen"} : pc' = [pc EXCEPT ![t] = w]
        /\ Shape' /\ Settled' /\ Purpose'
    BY <1>6 DEF ListTools, ListNda, LockList, Goto, regs, caches, locals, Shape, Steps, Settled,
                Purpose, May
  <2>2. Behind'
    BY <2>1, <1>6 DEF Behind, Shape, Building, ListTools, ListNda, LockList
  <2>3. Prefix' /\ CacheCoherent'
    BY <2>1, SameLists DEF Prefix, Holds, CacheCoherent, Shape
  <2>. QED BY <2>1, <2>2, <2>3
<1>7. ASSUME NEW t \in Threads, LoadGeneration(t) PROVE CoherentInv'
  <2>. USE <1>7 DEF LoadGeneration, Goto, regs, caches
  <2>1. Shape' /\ Settled' /\ Purpose'
    BY DEF Shape, Steps, Settled, Purpose
  <2>2. Behind'
    BY DEF Behind, Shape, Building
  <2>3. Prefix' /\ CacheCoherent'
    BY <2>1, SameLists DEF Prefix, Holds, CacheCoherent, Shape
  <2>. QED BY <2>1, <2>2, <2>3
<1>8. ASSUME NEW t \in Threads, Hit(t) PROVE CoherentInv'
  <2>. USE <1>8 DEF Hit, Return, Goto, regs, caches
  <2>0. op[t] \in {"list", "nda", "convert"}
    BY DEF Purpose, Shape
  <2>1. /\ op[t] = "list" => Caller(t) = "idle"
        /\ op[t] = "nda" => Caller(t) = "encode"
        /\ op[t] = "convert" => Caller(t) = "define"
    BY <2>0 DEF Caller
  <2>2. Shape' /\ Settled' /\ Purpose'
    BY <2>0, <2>1 DEF Shape, Steps, Settled, Purpose
  <2>3. Behind'
    BY <2>0, <2>1 DEF Behind, Shape, Building
  <2>4. CacheCoherent'
    BY <2>2, SameLists DEF CacheCoherent
  <2>5. ASSUME gen[t] = generation PROVE acc'[t] = Rebuilt'
    BY <2>2, <2>5, SameLists DEF CacheCoherent, Shape
  <2>6. Prefix'
    BY <2>0, <2>1, <2>2, <2>5, SameLists DEF Prefix, Holds, Shape
  <2>. QED BY <2>2, <2>3, <2>4, <2>6
<1>9. ASSUME NEW t \in Threads, Miss(t) PROVE CoherentInv'
  <2>. USE <1>9 DEF Miss, Goto, regs, caches
  <2>1. Shape' /\ Settled' /\ Purpose'
    BY DEF Shape, Steps, Settled, Purpose
  <2>2. Behind'
    BY DEF Behind, Shape, Building
  <2>3. discovered # "unset" => acc'[t] = WithEngine
    BY DEF WithEngine, EngineKnown, Settled, Steady, Shape
  <2>4. Prefix' /\ CacheCoherent'
    BY <2>1, <2>3, SameLists DEF Prefix, Holds, CacheCoherent, Shape
  <2>. QED BY <2>1, <2>2, <2>4
<1>10. ASSUME NEW t \in Threads, DiscoverTools(t) PROVE CoherentInv'
  <2>. USE <1>10 DEF DiscoverTools, Goto, caches
  <2>1. Shape' /\ Settled' /\ Purpose'
    BY DEF Shape, Steps, Settled, Purpose, Steady
  <2>2. Behind'
    BY DEF Behind, Shape, Building
  <2>3. acc'[t] = WithEngine
    BY DEF WithEngine, EngineKnown, Settled, Steady, Shape
  <2>4. Prefix' /\ CacheCoherent'
    BY <2>1, <2>3, SameLists DEF Prefix, Holds, CacheCoherent, Shape
  <2>. QED BY <2>1, <2>2, <2>4
<1>11. ASSUME NEW t \in Threads, DiscoveryFails(t) PROVE CoherentInv'
  <2>. USE <1>11 DEF DiscoveryFails, Goto, caches, locals
  <2>1. Shape' /\ Settled' /\ Purpose'
    BY DEF Shape, Steps, Settled, Purpose, Steady
  <2>2. Behind'
    BY DEF Behind, Shape, Building
  <2>3. acc'[t] = WithEngine
    BY DEF WithEngine, EngineKnown, Settled, Steady, Prefix
  <2>4. Prefix' /\ CacheCoherent'
    BY <2>1, <2>3, SameLists DEF Prefix, Holds, CacheCoherent, Shape
  <2>. QED BY <2>1, <2>2, <2>4
<1>12. ASSUME NEW t \in Threads, AddConverted(t) \/ AddMacros(t) \/ AddPlugins(t)
       PROVE  CoherentInv'
  <2>1. /\ UNCHANGED <<generation, engine, discovered, converted, macros, plugins, gen, op, list_gen,
                       tools_cache, list_cache>>
        /\ \E w \in {"macros", "plugins", "store"} : pc' = [pc EXCEPT ![t] = w]
        /\ pc[t] \in Building /\ \E v : acc' = [acc EXCEPT ![t] = v]
    BY <1>12 DEF AddConverted, AddMacros, AddPlugins, Goto, regs, caches, Building
  <2>2. Shape' /\ Settled' /\ Purpose'
    BY <2>1 DEF Shape, Steps, Settled, Purpose, Building
  <2>3. Behind'
    BY <2>1 DEF Behind, Shape, Building
  <2>4. CacheCoherent'
    BY <2>1, <2>2, SameLists DEF CacheCoherent
  <2>5. ASSUME gen[t] = generation PROVE Holds(t)'
    <3>1. CASE AddConverted(t)
      BY <2>1, <2>2, <2>5, <3>1, SameLists
      DEF AddConverted, Prefix, Holds, Shape, Goto, WithConverted
    <3>2. CASE AddMacros(t)
      BY <2>1, <2>2, <2>5, <3>2, SameLists DEF AddMacros, Prefix, Holds, Shape, Goto, WithMacros
    <3>3. CASE AddPlugins(t)
      BY <2>1, <2>2, <2>5, <3>3, SameLists DEF AddPlugins, Prefix, Holds, Shape, Goto, Rebuilt
    <3>. QED BY <1>12, <3>1, <3>2, <3>3
  <2>6. Prefix'
    BY <2>1, <2>2, <2>5, SameLists DEF Prefix, Holds, Shape
  <2>. QED BY <2>2, <2>3, <2>4, <2>6
<1>13. ASSUME NEW t \in Threads, Store(t) PROVE CoherentInv'
  <2>. USE <1>13 DEF Store, Return, Goto, regs
  <2>0. op[t] \in {"list", "nda", "convert"}
    BY DEF Purpose, Shape
  <2>1. /\ op[t] = "list" => Caller(t) = "idle"
        /\ op[t] = "nda" => Caller(t) = "encode"
        /\ op[t] = "convert" => Caller(t) = "define"
    BY <2>0 DEF Caller
  <2>2. Shape' /\ Settled' /\ Purpose'
    BY <2>0, <2>1 DEF Shape, Steps, Settled, Purpose
  <2>3. Behind'
    BY <2>0, <2>1 DEF Behind, Shape, Building
  <2>4. gen[t] = generation => acc[t] = Rebuilt
    BY DEF Prefix, Holds
  <2>5. CacheCoherent'
    BY <2>2, <2>4, SameLists DEF CacheCoherent
  <2>6. Prefix'
    BY <2>0, <2>1, <2>2, <2>4, SameLists DEF Prefix, Holds, Shape
  <2>. QED BY <2>2, <2>3, <2>5, <2>6
<1>14. ASSUME NEW t \in Threads, ListHit(t) \/ ListMiss(t) PROVE CoherentInv'
  <2>1. /\ UNCHANGED <<generation, engine, discovered, converted, macros, plugins, gen, acc, op,
                       tools_cache, list_cache>>
        /\ pc[t] = "list_gen" /\ \E w \in {"idle", "gen"} : pc' = [pc EXCEPT ![t] = w]
        /\ list_gen' \in {list_gen, [list_gen EXCEPT ![t] = generation]}
    BY <1>14 DEF ListHit, ListMiss, Goto, regs, caches, locals
  <2>2. Shape' /\ Settled' /\ Purpose'
    BY <2>1 DEF Shape, Steps, Settled, Purpose
  <2>3. Behind'
    BY <2>1 DEF Behind, Shape, Building
  <2>4. Prefix' /\ CacheCoherent'
    BY <2>1, <2>2, SameLists DEF Prefix, Holds, CacheCoherent, Shape
  <2>. QED BY <2>2, <2>3, <2>4
<1>15. ASSUME NEW t \in Threads, Encode(t) PROVE CoherentInv'
  <2>. USE <1>15 DEF Encode, Goto, regs, locals
  <2>1. Shape' /\ Settled' /\ Purpose'
    BY DEF Shape, Steps, Settled, Purpose
  <2>2. Behind'
    BY DEF Behind, Shape, Building
  <2>3. generation = list_gen[t] => acc[t] = Rebuilt
    <3>1. generation = list_gen[t] => gen[t] = generation
      BY DEF Behind, Shape, Purpose, Building
    <3>. QED BY <3>1 DEF Prefix, Holds
  <2>4. CacheCoherent'
    BY <2>1, <2>3, SameLists DEF CacheCoherent
  <2>5. Prefix'
    BY <2>1, SameLists DEF Prefix, Holds, Shape
  <2>. QED BY <2>1, <2>2, <2>4, <2>5
<1>16. CASE UNCHANGED vars
  <2>1. UNCHANGED <<generation, engine, discovered, converted, macros, plugins, pc, op, gen, acc, list_gen,
                    tools_cache, list_cache>>
    BY <1>16 DEF vars, regs, caches, locals
  <2>2. Shape' /\ Settled' /\ Behind' /\ Purpose'
    BY <2>1 DEF Shape, Settled, Behind, Purpose
  <2>3. Prefix' /\ CacheCoherent'
    BY <2>1, <2>2, SameLists DEF Prefix, Holds, CacheCoherent
  <2>. QED BY <2>2, <2>3
<1>. QED BY <1>1, <1>2, <1>3, <1>4, <1>5, <1>6, <1>7, <1>8, <1>9, <1>10, <1>11, <1>12, <1>13,
            <1>14, <1>15, <1>16 DEF Next

\* Both caches keyed by REGISTRY_GENERATION are coherent whenever discovery is not
\* flaky: get_tools and encoded_tools_list_result never serve a list that lacks or
\* keeps a tool the registries do not.
THEOREM CacheCoherentHolds == Steady /\ Spec => []CacheCoherent
<1> SUFFICES ASSUME Steady PROVE Spec => []CacheCoherent
  OBVIOUS
<1>1. Init => CoherentInv
  BY CoherentInit
<1>2. CoherentInv /\ [Next]_vars => CoherentInv'
  BY CoherentStep
<1>3. CoherentInv => CacheCoherent
  BY DEF CoherentInv
<1>. QED BY <1>1, <1>2, <1>3, PTL DEF Spec

-----------------------------------------------------------------------------
(* That a registered tool is listed needs more than coherent caches: a hit     *)
(* serves a list stored under a generation that may be old by now, and a build *)
(* may be stored long after it began.  What connects them is that two threads  *)
(* that read the same generation saw the same registries.                      *)

\* What a build holds of the converted and the macro tools, or will hold once it
\* has read the registries that remain.
WillHold(u) == IF pc[u] = "macros" THEN NamesOf(acc[u]) \cup macros ELSE NamesOf(acc[u])

Built == {"macros", "plugins", "store"}

\* The tools an operation must list stay registered, ...
MustRegistered == \A t \in Threads : op[t] # "none" => must[t] \subseteq converted \cup macros

\* ... are in its own build once that has passed them, ...
MustBuilt == \A t \in Threads : pc[t] \in Built => must[t] \subseteq WillHold(t)

\* ... in whatever list is or will be cached under the generation it has read, ...
MustCached ==
    \A t \in Threads : pc[t] = "lookup" =>
      /\ tools_cache.gen = gen[t] => must[t] \subseteq NamesOf(tools_cache.list)
      /\ \A u \in Threads : pc[u] \in Built /\ gen[u] = gen[t] => must[t] \subseteq WillHold(u)

\* ... and in the list it was given.
MustReturned ==
    \A t \in Threads : pc[t] \in {"idle", "encode", "define"} /\ op[t] # "none"
                         => must[t] \subseteq NamesOf(result[t])

MustShape == DOMAIN must = Threads /\ DOMAIN result = Threads

ListedInv == MustShape /\ MustRegistered /\ MustBuilt /\ MustCached /\ MustReturned

LEMMA ListedInit == Init => ListedInv
BY DEF Init, ListedInv, MustShape, MustRegistered, MustBuilt, MustCached, MustReturned, Built

\* Extend adds the names and keeps those that were there.
LEMMA ExtendNames ==
    ASSUME NEW list, NEW names, NEW provider
    PROVE  NamesOf(list) \cup names \subseteq NamesOf(Extend(list, names, provider))
<1>1. list \subseteq Extend(list, names, provider)
  BY DEF Extend
<1>2. NamesOf(list) \subseteq NamesOf(Extend(list, names, provider))
  BY <1>1 DEF NamesOf
<1>3. ASSUME NEW n \in names, n \notin NamesOf(list)
      PROVE  n \in NamesOf(Extend(list, names, provider))
  <2>1. <<n, provider>> \in Extend(list, names, provider)
    BY <1>3 DEF Extend
  <2>2. <<n, provider>>[1] = n
    OBVIOUS
  <2> QED
    BY <2>1, <2>2 DEF NamesOf
<1> QED
  BY <1>2, <1>3

\* A complete list holds all converted and macro tools.
LEMMA CompleteNames ==
    /\ converted \subseteq NamesOf(WithConverted)
    /\ converted \cup macros \subseteq NamesOf(WithMacros)
    /\ converted \cup macros \subseteq NamesOf(Rebuilt)
BY ExtendNames DEF WithConverted, WithMacros, Rebuilt

\* A build that is still current holds all of them, or will.
LEMMA CurrentHolds ==
    ASSUME CoherentInv, NEW u \in Threads, pc[u] \in Built, gen[u] = generation
    PROVE  converted \cup macros \subseteq WillHold(u)
<1>1. Holds(u)
  BY DEF CoherentInv, Prefix
<1> QED
  BY <1>1, CompleteNames DEF Holds, WillHold, Built

\* A thread that begins to list records what is registered now.
LEMMA BeginListed ==
    ASSUME ListedInv, Shape, NEW t \in Threads, NEW o, NEW where \in {"gen", "list_lock"},
           op' = [op EXCEPT ![t] = o], must' = [must EXCEPT ![t] = converted \cup macros],
           pc' = [pc EXCEPT ![t] = where],
           UNCHANGED <<converted, macros, tools_cache, gen, acc, result>>
    PROVE  ListedInv'
<1> USE DEF ListedInv
<1>1. MustShape' /\ MustRegistered'
  BY DEF MustShape, MustRegistered, Shape
<1>2. \A u \in Threads : pc'[u] \in Built => pc[u] \in Built /\ u # t /\ WillHold(u)' = WillHold(u)
  BY DEF Built, WillHold, Shape
<1>3. MustBuilt'
  BY <1>2 DEF MustBuilt, MustShape
<1>4. MustCached'
  BY <1>2 DEF MustCached, MustShape, Shape
<1>5. MustReturned'
  BY DEF MustReturned, MustShape, Shape
<1> QED
  BY <1>1, <1>3, <1>4, <1>5

\* A thread that moves on among the steps of which nothing is claimed.
LEMMA MoveListed ==
    ASSUME ListedInv, Shape, NEW t \in Threads,
           NEW where \in {"gen", "list_gen", "discover", "bump", "converted"},
           pc' = [pc EXCEPT ![t] = where], \A u \in Threads : u # t => acc'[u] = acc[u],
           UNCHANGED <<op, must, converted, macros, tools_cache, gen, result>>
    PROVE  ListedInv'
<1> USE DEF ListedInv
<1>1. MustShape' /\ MustRegistered'
  BY DEF MustShape, MustRegistered
<1>2. \A u \in Threads : pc'[u] \in Built => pc[u] \in Built /\ WillHold(u)' = WillHold(u)
  BY DEF Built, WillHold, Shape
<1>3. MustBuilt'
  BY <1>2 DEF MustBuilt
<1>4. MustCached'
  BY <1>2 DEF MustCached, Shape
<1>5. MustReturned'
  BY DEF MustReturned, Shape
<1> QED
  BY <1>1, <1>3, <1>4, <1>5

\* A thread that is given a list which holds what it must list.
LEMMA ReturnListed ==
    ASSUME ListedInv, Shape, NEW t \in Threads, NEW list,
           NEW where \in {"idle", "encode", "define"}, must[t] \subseteq NamesOf(list),
           pc' = [pc EXCEPT ![t] = where], result' = [result EXCEPT ![t] = list],
           \A u \in Threads : u # t => acc'[u] = acc[u],
           UNCHANGED <<op, must, converted, macros, gen>>,
           \/ UNCHANGED tools_cache
           \/ /\ tools_cache' = [gen |-> gen[t], list |-> acc[t]]
              /\ pc[t] = "store"
    PROVE  ListedInv'
<1> USE DEF ListedInv
<1>1. MustShape' /\ MustRegistered'
  BY DEF MustShape, MustRegistered
<1>2. \A u \in Threads : pc'[u] \in Built => pc[u] \in Built /\ WillHold(u)' = WillHold(u)
  BY DEF Built, WillHold, Shape
<1>3. MustBuilt'
  BY <1>2 DEF MustBuilt
<1>4. MustCached'
  <2> SUFFICES ASSUME NEW v \in Threads, pc'[v] = "lookup"
               PROVE  /\ tools_cache'.gen = gen'[v] => must'[v] \subseteq NamesOf(tools_cache'.list)
                      /\ \A u \in Threads : pc'[u] \in Built /\ gen'[u] = gen'[v]
                                              => must'[v] \subseteq WillHold(u)'
    BY DEF MustCached, NamesOf
  <2>1. pc[v] = "lookup"
    BY DEF Shape
  <2>2. \A u \in Threads : pc'[u] \in Built /\ gen'[u] = gen'[v] => must'[v] \subseteq WillHold(u)'
    BY <1>2, <2>1 DEF MustCached
  <2>3. CASE UNCHANGED tools_cache
    BY <2>1, <2>2, <2>3 DEF MustCached
  <2>4. CASE tools_cache' = [gen |-> gen[t], list |-> acc[t]] /\ pc[t] = "store"
    <3>1. gen[t] = gen[v] => must[v] \subseteq WillHold(t)
      BY <2>1, <2>4 DEF MustCached, Built
    <3>2. WillHold(t) = NamesOf(acc[t])
      BY <2>4 DEF WillHold
    <3> QED
      BY <2>2, <2>4, <3>1, <3>2
  <2> QED
    BY <2>3, <2>4
<1>5. MustReturned'
  BY DEF MustReturned, MustShape, Shape
<1> QED
  BY <1>1, <1>3, <1>4, <1>5

\* A build goes on, and holds no less than before.
LEMMA GrowListed ==
    ASSUME ListedInv, MustShape', MustRegistered', DOMAIN must = Threads,
           \A u \in Threads : pc'[u] \in Built =>
             \/ pc[u] \in Built /\ WillHold(u) \subseteq WillHold(u)'
             \/ converted \cup macros \subseteq WillHold(u)',
           \A u \in Threads : pc'[u] # "idle" => op[u] # "none",
           \A u \in Threads : pc'[u] = "lookup" => pc[u] = "lookup",
           \A u \in Threads : pc'[u] \in {"idle", "encode", "define"} =>
             pc[u] \in {"idle", "encode", "define"},
           UNCHANGED <<op, must, tools_cache, gen, result>>
    PROVE  ListedInv'
<1> USE DEF ListedInv
<1>1. \A v, u \in Threads : pc'[v] # "idle" /\ pc'[u] \in Built =>
        \/ pc[u] \in Built /\ WillHold(u) \subseteq WillHold(u)'
        \/ must[v] \subseteq WillHold(u)'
  BY DEF MustRegistered
<1>2. MustBuilt'
  <2> SUFFICES ASSUME NEW u \in Threads, pc'[u] \in Built PROVE must[u] \subseteq WillHold(u)'
    BY DEF MustBuilt
  <2>1. pc[u] \in Built => must[u] \subseteq WillHold(u)
    BY DEF MustBuilt
  <2>2. pc'[u] # "idle"
    BY DEF Built
  <2> QED
    BY <1>1, <2>1, <2>2
<1>3. MustCached'
  <2> SUFFICES ASSUME NEW v \in Threads, pc'[v] = "lookup"
               PROVE  /\ tools_cache.gen = gen[v] => must[v] \subseteq NamesOf(tools_cache.list)
                      /\ \A u \in Threads : pc'[u] \in Built /\ gen[u] = gen[v]
                                              => must[v] \subseteq WillHold(u)'
    BY DEF MustCached, NamesOf
  <2>1. pc[v] = "lookup"
    OBVIOUS
  <2>2. tools_cache.gen = gen[v] => must[v] \subseteq NamesOf(tools_cache.list)
    BY <2>1 DEF MustCached
  <2>3. ASSUME NEW u \in Threads, pc'[u] \in Built, gen[u] = gen[v]
        PROVE  must[v] \subseteq WillHold(u)'
    <3>1. pc[u] \in Built => must[v] \subseteq WillHold(u)
      BY <2>1, <2>3 DEF MustCached
    <3> QED
      BY <1>1, <2>3, <3>1
  <2> QED
    BY <2>2, <2>3
<1>4. MustReturned'
  BY DEF MustReturned
<1> QED
  BY <1>2, <1>3, <1>4

LEMMA ListedStep == Steady /\ CoherentInv /\ ListedInv /\ [Next]_vars => ListedInv'
<1> SUFFICES ASSUME Steady, CoherentInv, ListedInv, [Next]_vars PROVE ListedInv'
  OBVIOUS
<1>a. Shape /\ Purpose /\ DOMAIN must = Threads
  BY DEF CoherentInv, ListedInv, MustShape
\* The registries grow.
<1>1. ASSUME NEW t \in Threads, NEW n \in Names, RegisterTool(t, n) PROVE ListedInv'
  <2>1. /\ macros \subseteq macros'
        /\ UNCHANGED <<converted, tools_cache, pc, op, gen, acc, must, result>>
    BY <1>1 DEF RegisterTool, caches, locals
  <2>2. MustShape' /\ MustRegistered'
    BY <2>1 DEF ListedInv, MustShape, MustRegistered
  <2>3. \A u \in Threads : WillHold(u) \subseteq WillHold(u)'
    BY <2>1 DEF WillHold
  <2> QED
    BY <1>a, <2>1, <2>2, <2>3, GrowListed DEF Purpose
<1>2. ASSUME NEW t \in Threads, Define(t) PROVE ListedInv'
  <2>1. /\ converted \subseteq converted' /\ pc[t] = "define" /\ pc' = [pc EXCEPT ![t] = "idle"]
        /\ UNCHANGED <<macros, tools_cache, op, gen, acc, must, result>>
    BY <1>2 DEF Define, caches, locals, Goto
  <2>2. MustShape' /\ MustRegistered'
    BY <2>1 DEF ListedInv, MustShape, MustRegistered
  <2>3. \A u \in Threads : pc'[u] \in Built => pc[u] \in Built /\ WillHold(u) \subseteq WillHold(u)'
    BY <1>a, <2>1 DEF WillHold, Built, Shape
  <2>4. \A u \in Threads : /\ pc'[u] # "idle" => op[u] # "none"
                           /\ pc'[u] = "lookup" => pc[u] = "lookup"
                           /\ pc'[u] \in {"idle", "encode", "define"}
                                => pc[u] \in {"idle", "encode", "define"}
    BY <1>a, <2>1 DEF Purpose, Shape
  <2> QED
    BY <1>a, <2>1, <2>2, <2>3, <2>4, GrowListed
<1>3. ASSUME NEW t \in Threads, NEW names \in SUBSET Names, LoadPlugins(t, names) PROVE ListedInv'
  <2>1. UNCHANGED <<converted, macros, tools_cache, pc, op, gen, acc, must, result>>
    BY <1>3 DEF LoadPlugins, caches, locals
  <2>2. MustShape' /\ MustRegistered'
    BY <2>1 DEF ListedInv, MustShape, MustRegistered
  <2>3. \A u \in Threads : WillHold(u) \subseteq WillHold(u)'
    BY <2>1 DEF WillHold
  <2> QED
    BY <1>a, <2>1, <2>2, <2>3, GrowListed DEF Purpose
\* A listing begins.
<1>4. ASSUME NEW t \in Threads, NEW n \in Names, ConvertTool(t, n) PROVE ListedInv'
  <2>1. /\ op' = [op EXCEPT ![t] = "convert"] /\ must' = [must EXCEPT ![t] = converted \cup macros]
        /\ pc' = [pc EXCEPT ![t] = "gen"]
        /\ UNCHANGED <<converted, macros, tools_cache, gen, acc, result>>
    BY <1>4 DEF ConvertTool, caches, locals, Goto
  <2> QED
    BY <1>a, <2>1, BeginListed
<1>5. ASSUME NEW t \in Threads, ListTools(t) PROVE ListedInv'
  <2>1. /\ op' = [op EXCEPT ![t] = "list"] /\ must' = [must EXCEPT ![t] = converted \cup macros]
        /\ pc' = [pc EXCEPT ![t] = "gen"]
        /\ UNCHANGED <<converted, macros, tools_cache, gen, acc, result>>
    BY <1>5 DEF ListTools, regs, caches, locals, Goto
  <2> QED
    BY <1>a, <2>1, BeginListed
<1>6. ASSUME NEW t \in Threads, ListNda(t) PROVE ListedInv'
  <2>1. /\ op' = [op EXCEPT ![t] = "nda"] /\ must' = [must EXCEPT ![t] = converted \cup macros]
        /\ pc' = [pc EXCEPT ![t] = "list_lock"]
        /\ UNCHANGED <<converted, macros, tools_cache, gen, acc, result>>
    BY <1>6 DEF ListNda, regs, caches, locals, Goto
  <2> QED
    BY <1>a, <2>1, BeginListed
\* The steps before the registries are read.
<1>7. ASSUME NEW t \in Threads,
             LockList(t) \/ ListMiss(t) \/ Miss(t) \/ DiscoverTools(t) \/ Bump(t) \/ DiscoveryFails(t)
      PROVE  ListedInv'
  <2>1. PICK where \in {"gen", "list_gen", "discover", "bump", "converted"} :
          pc' = [pc EXCEPT ![t] = where]
    BY <1>7 DEF LockList, ListMiss, Miss, DiscoverTools, Bump, DiscoveryFails, Goto
  <2>2. UNCHANGED <<op, must, converted, macros, tools_cache, gen, result>>
    BY <1>7 DEF LockList, ListMiss, Miss, DiscoverTools, Bump, DiscoveryFails, regs, caches, locals
  <2>3. \A u \in Threads : u # t => acc'[u] = acc[u]
    BY <1>7, <1>a DEF LockList, ListMiss, Miss, DiscoverTools, Bump, DiscoveryFails, locals, Shape
  <2> QED
    BY <1>a, <2>1, <2>2, <2>3, MoveListed
\* The generation is read: what was registered is in what is, or will be, stored under it.
<1>8. ASSUME NEW t \in Threads, LoadGeneration(t) PROVE ListedInv'
  <2>1. /\ pc[t] = "gen" /\ pc' = [pc EXCEPT ![t] = "lookup"] /\ gen' = [gen EXCEPT ![t] = generation]
        /\ UNCHANGED <<op, must, converted, macros, tools_cache, acc, result>>
    BY <1>8 DEF LoadGeneration, regs, caches, Goto
  <2>2. MustShape' /\ MustRegistered'
    BY <2>1 DEF ListedInv, MustShape, MustRegistered
  <2>3. \A u \in Threads : pc'[u] \in Built =>
          pc[u] \in Built /\ WillHold(u)' = WillHold(u) /\ gen'[u] = gen[u]
    BY <1>a, <2>1 DEF WillHold, Built, Shape
  <2>4. MustBuilt'
    BY <2>1, <2>3 DEF ListedInv, MustBuilt
  <2>5. must[t] \subseteq converted \cup macros
    BY <1>a, <2>1 DEF ListedInv, MustRegistered, Purpose
  <2>6. tools_cache.gen = generation => must[t] \subseteq NamesOf(tools_cache.list)
    BY <2>5, CompleteNames DEF CoherentInv, CacheCoherent
  <2>7. \A u \in Threads : pc[u] \in Built /\ gen[u] = generation => must[t] \subseteq WillHold(u)
    BY <2>5, CurrentHolds
  <2>8. MustCached'
    <3> SUFFICES ASSUME NEW v \in Threads, pc'[v] = "lookup"
                 PROVE  /\ tools_cache.gen = gen'[v] => must[v] \subseteq NamesOf(tools_cache.list)
                        /\ \A u \in Threads : pc'[u] \in Built /\ gen'[u] = gen'[v]
                                                => must[v] \subseteq WillHold(u)'
      BY <2>1 DEF MustCached, NamesOf
    <3>1. CASE v = t
      <4>1. gen'[v] = generation
        BY <1>a, <2>1, <3>1 DEF Shape
      <4> QED
        BY <2>3, <2>6, <2>7, <3>1, <4>1
    <3>2. CASE v # t
      <4>1. pc[v] = "lookup" /\ gen'[v] = gen[v]
        BY <1>a, <2>1, <3>2 DEF Shape
      <4> QED
        BY <2>3, <4>1 DEF ListedInv, MustCached
    <3> QED
      BY <3>1, <3>2
  <2>9. MustReturned'
    BY <1>a, <2>1 DEF ListedInv, MustReturned, Shape
  <2> QED
    BY <2>2, <2>4, <2>8, <2>9 DEF ListedInv
\* A list is given back.
<1>9. ASSUME NEW t \in Threads, Hit(t) \/ Store(t) PROVE ListedInv'
  <2>1. op[t] \in {"list", "nda", "convert"}
    BY <1>9, <1>a DEF Hit, Store, Purpose, Shape
  <2>2. Caller(t) \in {"idle", "encode", "define"}
    BY <2>1 DEF Caller
  <2>3. CASE Hit(t)
    <3>1. /\ pc[t] = "lookup" /\ tools_cache.gen = gen[t]
          /\ pc' = [pc EXCEPT ![t] = Caller(t)] /\ result' = [result EXCEPT ![t] = tools_cache.list]
          /\ acc' = [acc EXCEPT ![t] = tools_cache.list]
          /\ UNCHANGED <<op, must, converted, macros, gen, tools_cache>>
      BY <2>3 DEF Hit, Return, Goto, regs, caches
    <3>2. must[t] \subseteq NamesOf(tools_cache.list)
      BY <3>1 DEF ListedInv, MustCached
    <3>3. \A u \in Threads : u # t => acc'[u] = acc[u]
      BY <1>a, <3>1 DEF Shape
    <3> QED
      BY <1>a, <2>2, <3>1, <3>2, <3>3, ReturnListed
  <2>4. CASE Store(t)
    <3>1. /\ pc[t] = "store" /\ tools_cache' = [gen |-> gen[t], list |-> acc[t]]
          /\ pc' = [pc EXCEPT ![t] = Caller(t)] /\ result' = [result EXCEPT ![t] = acc[t]]
          /\ acc' = [acc EXCEPT ![t] = acc[t]]
          /\ UNCHANGED <<op, must, converted, macros, gen>>
      BY <2>4 DEF Store, Return, Goto, regs
    <3>2. must[t] \subseteq NamesOf(acc[t])
      BY <3>1 DEF ListedInv, MustBuilt, Built, WillHold
    <3>3. \A u \in Threads : u # t => acc'[u] = acc[u]
      BY <1>a, <3>1 DEF Shape
    <3> QED
      BY <1>a, <2>2, <3>1, <3>2, <3>3, ReturnListed
  <2> QED
    BY <1>9, <2>3, <2>4
<1>10. ASSUME NEW t \in Threads, ListHit(t) PROVE ListedInv'
  <2>1. /\ pc[t] = "list_gen" /\ list_cache.gen = generation
        /\ pc' = [pc EXCEPT ![t] = "idle"] /\ result' = [result EXCEPT ![t] = list_cache.list]
        /\ UNCHANGED <<op, must, converted, macros, gen, acc, tools_cache>>
    BY <1>10 DEF ListHit, Goto, regs, locals
  <2>2. must[t] \subseteq converted \cup macros
    BY <1>a, <2>1 DEF ListedInv, MustRegistered, Purpose
  <2>3. must[t] \subseteq NamesOf(list_cache.list)
    BY <2>1, <2>2, CompleteNames DEF CoherentInv, CacheCoherent
  <2> QED
    BY <1>a, <2>1, <2>3, ReturnListed
\* A build reads a registry.
<1>11. ASSUME NEW t \in Threads, AddConverted(t) \/ AddMacros(t) \/ AddPlugins(t) PROVE ListedInv'
  <2>1. /\ pc[t] \in {"converted", "macros", "plugins"}
        /\ \E w \in {"macros", "plugins", "store"} : pc' = [pc EXCEPT ![t] = w]
        /\ \E v : acc' = [acc EXCEPT ![t] = v]
        /\ UNCHANGED <<op, must, converted, macros, gen, tools_cache, result>>
    BY <1>11 DEF AddConverted, AddMacros, AddPlugins, Goto, regs, caches
  <2>2. MustShape' /\ MustRegistered'
    BY <2>1 DEF ListedInv, MustShape, MustRegistered
  <2>3. \A u \in Threads : /\ pc'[u] # "idle" => op[u] # "none"
                           /\ pc'[u] = "lookup" => pc[u] = "lookup"
                           /\ pc'[u] \in {"idle", "encode", "define"}
                                => pc[u] \in {"idle", "encode", "define"}
    BY <1>a, <2>1 DEF Purpose, Shape
  <2>4. \A u \in Threads : u # t /\ pc'[u] \in Built
          => pc[u] \in Built /\ WillHold(u) \subseteq WillHold(u)'
    BY <1>a, <2>1 DEF WillHold, Built, Shape
  <2>5. CASE AddConverted(t)
    <3>1. /\ pc'[t] = "macros" /\ acc'[t] = Extend(acc[t], converted, "converted")
          /\ macros' = macros
      BY <1>a, <2>5 DEF AddConverted, Goto, Shape, regs
    <3>2. converted \subseteq NamesOf(acc'[t])
      BY <3>1, ExtendNames
    <3>3. WillHold(t)' = NamesOf(acc'[t]) \cup macros
      BY <3>1 DEF WillHold, NamesOf
    <3>4. converted \cup macros \subseteq WillHold(t)'
      BY <3>2, <3>3
    <3> QED
      BY <1>a, <2>1, <2>2, <2>3, <2>4, <3>4, GrowListed
  <2>6. CASE AddMacros(t)
    <3>1. /\ pc[t] = "macros" /\ pc'[t] = "plugins" /\ acc'[t] = Extend(acc[t], macros, "macro")
      BY <1>a, <2>6 DEF AddMacros, Goto, Shape
    <3>2. NamesOf(acc[t]) \cup macros \subseteq NamesOf(acc'[t])
      BY <3>1, ExtendNames
    <3>3. WillHold(t)' = NamesOf(acc'[t]) /\ WillHold(t) = NamesOf(acc[t]) \cup macros
      BY <3>1 DEF WillHold, NamesOf
    <3>4. pc[t] \in Built /\ WillHold(t) \subseteq WillHold(t)'
      BY <3>1, <3>2, <3>3 DEF Built
    <3> QED
      BY <1>a, <2>1, <2>2, <2>3, <2>4, <3>4, GrowListed
  <2>7. CASE AddPlugins(t)
    <3>1. /\ pc[t] = "plugins" /\ pc'[t] = "store" /\ acc'[t] = Extend(acc[t], plugins, "plugin")
      BY <1>a, <2>7 DEF AddPlugins, Goto, Shape
    <3>2. NamesOf(acc[t]) \subseteq NamesOf(acc'[t])
      BY <3>1, ExtendNames
    <3>3. WillHold(t)' = NamesOf(acc'[t]) /\ WillHold(t) = NamesOf(acc[t])
      BY <3>1 DEF WillHold, NamesOf
    <3>4. pc[t] \in Built /\ WillHold(t) \subseteq WillHold(t)'
      BY <3>1, <3>2, <3>3 DEF Built
    <3> QED
      BY <1>a, <2>1, <2>2, <2>3, <2>4, <3>4, GrowListed
  <2> QED
    BY <1>11, <2>5, <2>6, <2>7
<1>12. ASSUME NEW t \in Threads, Encode(t) PROVE ListedInv'
  <2>1. /\ pc[t] = "encode" /\ pc' = [pc EXCEPT ![t] = "idle"]
        /\ UNCHANGED <<converted, macros, tools_cache, op, gen, acc, must, result>>
    BY <1>12 DEF Encode, regs, locals, Goto
  <2>2. MustShape' /\ MustRegistered'
    BY <2>1 DEF ListedInv, MustShape, MustRegistered
  <2>3. \A u \in Threads : pc'[u] \in Built => pc[u] \in Built /\ WillHold(u) \subseteq WillHold(u)'
    BY <1>a, <2>1 DEF WillHold, Built, Shape
  <2>4. \A u \in Threads : /\ pc'[u] # "idle" => op[u] # "none"
                           /\ pc'[u] = "lookup" => pc[u] = "lookup"
                           /\ pc'[u] \in {"idle", "encode", "define"}
                                => pc[u] \in {"idle", "encode", "define"}
    BY <1>a, <2>1 DEF Purpose, Shape
  <2> QED
    BY <1>a, <2>1, <2>2, <2>3, <2>4, GrowListed
<1>13. CASE UNCHANGED vars
  <2>1. UNCHANGED <<converted, macros, tools_cache, pc, op, gen, acc, must, result>>
    BY <1>13 DEF vars, regs, caches, locals
  <2> QED
    BY <2>1 DEF ListedInv, MustShape, MustRegistered, MustBuilt, MustCached, MustReturned, WillHold,
                NamesOf
<1> QED
  BY <1>1, <1>2, <1>3, <1>4, <1>5, <1>6, <1>7, <1>8, <1>9, <1>10, <1>11, <1>12, <1>13 DEF Next

\* A frame is only added where one is dropped or there is room.
LEMMA FramesStep ==
    RegistryAssumption /\ IsFiniteSet(frames) /\ FramesBounded /\ [Next]_vars
      => (IsFiniteSet(frames) /\ FramesBounded)'
<1> SUFFICES ASSUME RegistryAssumption, IsFiniteSet(frames), FramesBounded, [Next]_vars
             PROVE  IsFiniteSet(frames') /\ Cardinality(frames') <= MaxFrames
  BY DEF FramesBounded
<1>1. Cardinality(frames) \in Nat /\ Cardinality(frames) <= MaxFrames /\ MaxFrames \in Nat \ {0}
  BY FS_CardinalityType DEF FramesBounded, RegistryAssumption
<1>2. ASSUME NEW t \in Threads, NEW n \in Names, ConvertTool(t, n)
      PROVE  IsFiniteSet(frames') /\ Cardinality(frames') <= MaxFrames
  <2>1. frames' \in WithFrame(n)
    BY <1>2 DEF ConvertTool
  <2>2. CASE Cardinality(frames) >= MaxFrames /\ n \notin frames
    <3>1. PICK m \in frames : frames' = (frames \ {m}) \cup {n}
      BY <2>1, <2>2 DEF WithFrame
    <3>2. IsFiniteSet(frames \ {m}) /\ Cardinality(frames \ {m}) = Cardinality(frames) - 1
      BY FS_RemoveElement
    <3>3. /\ IsFiniteSet(frames')
          /\ Cardinality(frames') = Cardinality(frames \ {m}) + 1
      BY <2>2, <3>1, <3>2, FS_AddElement
    <3> QED
      BY <1>1, <3>2, <3>3
  <2>3. CASE n \in frames
    <3>1. frames' = frames
      BY <2>1, <2>3 DEF WithFrame
    <3> QED
      BY <1>1, <3>1
  <2>4. CASE ~(Cardinality(frames) >= MaxFrames) /\ n \notin frames
    <3>1. frames' = frames \cup {n}
      BY <2>1, <2>4 DEF WithFrame
    <3>2. IsFiniteSet(frames') /\ Cardinality(frames') = Cardinality(frames) + 1
      BY <2>4, <3>1, FS_AddElement
    <3> QED
      BY <1>1, <2>4, <3>2
  <2> QED
    BY <2>2, <2>3, <2>4
<1>3. (\A t \in Threads, n \in Names : ~ConvertTool(t, n)) => frames' = frames
  BY DEF Next, vars, regs, caches, locals, RegisterTool, LoadPlugins, Define, ListTools, ListNda,
         LoadGeneration, Hit, Miss, DiscoverTools, Bump, DiscoveryFails, AddConverted, AddMacros,
         AddPlugins, Store, LockList, ListHit, ListMiss, Encode
<1> QED
  BY <1>1, <1>2, <1>3

\* A tool whose registration has returned is in every list requested afterwards, though
\* the list may come from a cache filled by another thread's earlier build.
THEOREM RegisteredListedHolds == Steady /\ Spec => []RegisteredListed
<1> SUFFICES ASSUME Steady PROVE Spec => []RegisteredListed
  OBVIOUS
<1>1. Init => CoherentInv /\ ListedInv
  BY CoherentInit, ListedInit
<1>2. CoherentInv /\ ListedInv /\ [Next]_vars => CoherentInv' /\ ListedInv'
  BY CoherentStep, ListedStep
<1>3. ListedInv => RegisteredListed
  BY DEF ListedInv, MustReturned, RegisteredListed
<1> QED
  BY <1>1, <1>2, <1>3, PTL DEF Spec

\* The frame cache of cache_nmcp_frame stays within MAX_NMCP_FRAMES.
THEOREM FramesBoundedHolds == Spec => []FramesBounded
<1>1. Init => IsFiniteSet(frames) /\ FramesBounded
  BY FS_EmptySet, RegistryAssumption DEF Init, FramesBounded, RegistryAssumption
<1>2. IsFiniteSet(frames) /\ FramesBounded /\ [Next]_vars => (IsFiniteSet(frames) /\ FramesBounded)'
  BY FramesStep, RegistryAssumption
<1> QED
  BY <1>1, <1>2, PTL DEF Spec

\* Whenever discovery is not flaky, what tools/list serves is current: the caches are
\* coherent, every registered tool is listed, and the frames stay within their limit.
THEOREM ListsCurrentHolds == Steady /\ Spec => []ListsCurrent
<1> SUFFICES ASSUME Steady PROVE Spec => []ListsCurrent
  OBVIOUS
<1>1. CacheCoherent /\ RegisteredListed /\ FramesBounded => ListsCurrent
  BY DEF ListsCurrent
<1> QED
  BY <1>1, CacheCoherentHolds, RegisteredListedHolds, FramesBoundedHolds, PTL

-----------------------------------------------------------------------------
(* The language runtimes *)

LangType ==
    /\ lang \in Languages
    /\ tools \in [LangTools -> Sources \cup {NoSource}]
    /\ asked \in [LangTools -> Sources \cup {NoSource}]
    /\ defined \in [LangTools -> Sources \cup {NoSource, Mixed}]
    /\ latest \in LangTools \cup {NoneYet}

\* Until it is destroyed, the host records the source of the last registration
\* that was answered with success, and what a call of a tool it records would
\* run is the source of the registration that set it, unless one was cut short
\* since.
Recorded ==
    requests < MaxRequests /\ lang # "rust" =>
        /\ tools = asked
        /\ \A n \in LangTools : tools[n] # NoSource =>
              /\ Resident(n) \in LangTools
              /\ n \notin torn => defined[n] = asked[Resident(n)]

\* A call is remembered with a tool of this runtime.
CallsNamed == Calling => ran.tool \in LangTools

LangInv == LangType /\ Recorded /\ CallsNamed /\ RunsAsAsked

\* What ran is no call: nothing is claimed of it but its budget.
LEMMA NoCallRuns ==
    ASSUME NEW n, NEW payload, NEW outcome, NEW cost,
           payload \notin {"json", "tlv", "tlv as json"},
           Executed(n, payload, TRUE, outcome, cost),
           outcome = "trap" => cost > Budget
    PROVE  CallsNamed' /\ RunsAsAsked'
  <1>1. ran'.payload = payload /\ ran'.outcome = outcome /\ ran'.cost = cost
    BY DEF Executed
  <1>2. ~Calling'
    BY <1>1 DEF Calling
  <1>. QED
    BY <1>1, <1>2 DEF CallsNamed, RunsAsAsked, RunsRegistered, ArgsWhole, BudgetPerRequest

\* How each runtime is driven, as far as the proof depends on it.
LEMMA RuntimeFacts ==
    ASSUME lang \in Languages
    PROVE  /\ Self.capacity \in Nat
           /\ Is("module once") => lang = "rust"
  <1>1. lang \in {"php", "csharp", "java", "julia", "perl", "r", "lua", "python", "ruby",
                  "javascript", "typescript", "go", "rust"}
    BY LangAssumption DEF Runtime
  <1>2. /\ PhpRuntime.capacity = 2 /\ PhpRuntime.register = "program"
        /\ LuaRuntime.capacity = 2 /\ LuaRuntime.register = "source"
    BY DEF PhpRuntime, LuaRuntime, Shared
  <1>3. /\ RubyRuntime.capacity = 3 /\ RubyRuntime.register = "source"
        /\ QuickJsRuntime.capacity = 3 /\ QuickJsRuntime.register = "handles"
        /\ TypeScriptRuntime.capacity = 3 /\ TypeScriptRuntime.register = "handles"
    BY DEF RubyRuntime, QuickJsRuntime, TypeScriptRuntime, Shared
  <1>4. /\ GoWasmRuntime.capacity = 2 /\ GoWasmRuntime.register = "module per call"
        /\ RustRuntime.capacity = 2
    BY DEF GoWasmRuntime, RustRuntime, Shared
  <1>5. /\ CSharpRuntime = PhpRuntime /\ JavaRuntime = PhpRuntime /\ JuliaRuntime = PhpRuntime
        /\ PerlRuntime = PhpRuntime /\ RRuntime = PhpRuntime /\ MicroPythonRuntime = LuaRuntime
    BY DEF CSharpRuntime, JavaRuntime, JuliaRuntime, PerlRuntime, RRuntime, PhpRuntime,
           MicroPythonRuntime, LuaRuntime
  <1>6. Self \in {PhpRuntime, LuaRuntime, RubyRuntime, QuickJsRuntime, TypeScriptRuntime,
                  GoWasmRuntime} \/ (lang = "rust" /\ Self = RustRuntime)
    BY <1>1, <1>5 DEF Self, Runtime
  <1>7. Self.capacity \in {2, 3}
    BY <1>2, <1>3, <1>4, <1>6, Zenon
  <1>8. Is("module once") => lang = "rust"
    BY <1>2, <1>3, <1>4, <1>6 DEF Is
  <1>9. Self.capacity \in Nat
    BY <1>7
  <1>. QED
    BY <1>8, <1>9, Zenon

\* Which kind of guest a runtime has does not change.
LEMMA KindStays ==
    ASSUME lang' = lang
    PROVE  /\ OneProgram' = OneProgram
           /\ \A n : Reach(n)' = Reach(n)
           /\ latest' = latest => \A n : Resident(n)' = Resident(n)
  BY DEF OneProgram, Is, Self, Reach, Resident

LEMMA RegisterSkippedKeeps ==
    ASSUME LangInv, NEW n \in LangTools, NEW s \in Sources, RegisterSkipped(n, s)
    PROVE  LangInv'
  <1>1. tools[n] = s /\ asked' = [asked EXCEPT ![n] = s]
    BY DEF RegisterSkipped, Unchanged, Answered
  <1>2. lang' = lang /\ UNCHANGED <<tools, defined, latest, torn>>
    BY DEF RegisterSkipped, Request
  <1>3. requests < MaxRequests
    BY DEF RegisterSkipped, Request
  <1>4. LangType'
    BY <1>1, <1>2 DEF LangInv, LangType
  <1>5. Recorded'
    <2>. SUFFICES ASSUME lang # "rust" PROVE Recorded'
      BY <1>2 DEF Recorded
    <2>1. asked' = asked
      BY <1>1, <1>3 DEF LangInv, LangType, Recorded
    <2>. QED
      BY <1>2, <1>3, <2>1, KindStays DEF LangInv, Recorded
  <1>6. Executed(n, "skip", TRUE, "ok", 0)
    BY DEF RegisterSkipped
  <1>7. CallsNamed' /\ RunsAsAsked'
    BY <1>6, NoCallRuns, Zenon
  <1>. QED
    BY <1>4, <1>5, <1>7 DEF LangInv

\* A registration the guest completed: everything is recorded, and every call it
\* reaches runs the new source.
LEMMA CompletedKeeps ==
    ASSUME LangInv, NEW n \in LangTools, NEW s \in Sources, Request,
           Programs(n, s, "ok", {}), latest' = n,
           tools' = [tools EXCEPT ![n] = s], asked' = [asked EXCEPT ![n] = s]
    PROVE  Recorded'
  <1>. SUFFICES ASSUME lang # "rust" PROVE Recorded'
    BY DEF Request, Recorded
  <1>1. lang' = lang /\ requests < MaxRequests
    BY DEF Request
  <1>2. /\ tools' = [tools EXCEPT ![n] = s] /\ asked' = [asked EXCEPT ![n] = s]
        /\ latest' = n
    OBVIOUS
  <1>3. /\ defined' = [m \in LangTools |-> IF m \in Reach(n) THEN s ELSE defined[m]]
        /\ torn' = torn \ Reach(n)
    BY DEF Programs, Put
  <1>4. tools = asked /\ tools' = asked' /\ asked'[n] = s
    BY <1>1, <1>2 DEF LangInv, LangType, Recorded
  <1>5. ASSUME NEW m \in LangTools, tools'[m] # NoSource
        PROVE  Resident(m)' \in LangTools /\ (m \notin torn' => defined'[m] = asked'[Resident(m)'])
    <2>1. CASE m \in Reach(n)
      <3>1. Resident(m)' = n
        BY <1>1, <1>2, <2>1, KindStays DEF Resident, Reach
      <3>. QED
        BY <1>3, <1>4, <2>1, <3>1
    <2>2. CASE m \notin Reach(n)
      <3>1. ~OneProgram /\ m # n
        BY <2>2 DEF Reach
      <3>2. Resident(m)' = m /\ Resident(m) = m
        BY <1>1, <3>1, KindStays DEF Resident
      <3>3. asked'[m] = asked[m] /\ tools[m] # NoSource /\ defined'[m] = defined[m]
        BY <1>2, <1>3, <1>4, <1>5, <2>2, <3>1 DEF LangInv, LangType
      <3>4. m \notin torn' => m \notin torn
        BY <1>3, <2>2
      <3>. QED
        BY <1>1, <3>2, <3>3, <3>4 DEF LangInv, Recorded
    <2>. QED
      BY <2>1, <2>2
  <1>. QED
    BY <1>4, <1>5 DEF Recorded

\* A registration that failed: the host keeps what it had, the guest too unless
\* the tools it reaches are torn.
LEMMA FailedKeeps ==
    ASSUME LangInv, lang' = lang, requests < MaxRequests,
           UNCHANGED <<tools, asked, latest>>, torn \subseteq torn',
           \A m \in LangTools \ torn' : defined'[m] = defined[m]
    PROVE  Recorded'
  BY KindStays DEF LangInv, Recorded

\* A registration that reaches the guest, whatever it leaves of it.
LEMMA RegisterKeeps ==
    ASSUME LangInv, NEW n \in LangTools, NEW s \in Sources, NEW outcome, NEW cost,
           NEW left \in SUBSET {s, Mixed},
           Request, Programs(n, s, outcome, left), Records(n, s, outcome, cost),
           outcome = "trap" => cost > Budget
    PROVE  LangInv'
  <1>1. lang' = lang /\ requests < MaxRequests
    BY DEF Request
  <1>2. \/ defined' = defined
        \/ \E p \in {s, Mixed} :
              defined' = [m \in LangTools |-> IF m \in Reach(n) THEN p ELSE defined[m]]
    BY DEF Programs, Put
  <1>3. defined' \in [LangTools -> Sources \cup {NoSource, Mixed}]
    BY <1>2 DEF LangInv, LangType
  <1>4. LangType'
    BY <1>1, <1>3 DEF LangInv, LangType, Records, Answered
  <1>5. Recorded'
    <2>1. CASE outcome = "ok"
      <3>1. Programs(n, s, "ok", {})
        BY <2>1 DEF Programs
      <3>2. /\ tools' = [tools EXCEPT ![n] = s] /\ asked' = [asked EXCEPT ![n] = s]
            /\ latest' = n
        BY <2>1 DEF Records, Answered
      <3>. QED
        BY <3>1, <3>2, CompletedKeeps
    <2>2. CASE outcome # "ok"
      <3>1. UNCHANGED <<tools, asked, latest>>
        BY <2>2 DEF Records, Answered
      <3>2. CASE UNCHANGED <<defined, torn>>
        BY <1>1, <3>1, <3>2, FailedKeeps
      <3>3. CASE torn' = torn \cup Reach(n) /\ \E p \in left : Put(n, p)
        <4>1. \A m \in LangTools \ torn' : defined'[m] = defined[m]
          BY <3>3 DEF Put
        <4>. QED
          BY <1>1, <3>1, <3>3, <4>1, FailedKeeps
      <3>. QED
        BY <2>2, <3>2, <3>3 DEF Programs
    <2>. QED
      BY <2>1, <2>2
  <1>6. CallsNamed' /\ RunsAsAsked'
    <2>1. Executed(n, "register", TRUE, outcome, cost)
      BY DEF Records
    <2>. QED
      BY <2>1, NoCallRuns, Zenon
  <1>. QED
    BY <1>4, <1>5, <1>6 DEF LangInv

LEMMA RegisterSourceKeeps ==
    ASSUME LangInv, NEW n \in LangTools, NEW s \in Sources, NEW cost \in Costs,
           NEW rc \in {"ok", "error"},
           \/ RegisterProgram(n, s, cost, rc) \/ RegisterSource(n, s, cost, rc)
           \/ RegisterHandles(n, s, cost, rc)
    PROVE  LangInv'
  <1>1. Request /\ Records(n, s, Outcome(cost, rc), cost)
    BY DEF RegisterProgram, RegisterSource, RegisterHandles
  <1>2. Outcome(cost, rc) = "trap" => cost > Budget
    BY DEF Outcome, Traps, FuelForRequest
  <1>3. PICK left \in SUBSET {s, Mixed} : Programs(n, s, Outcome(cost, rc), left)
    <2>1. CASE RegisterProgram(n, s, cost, rc)
      <3>1. (IF Traps(cost) THEN {s, Mixed} ELSE {}) \in SUBSET {s, Mixed}
        OBVIOUS
      <3>. QED
        BY <2>1, <3>1, Zenon DEF RegisterProgram
    <2>2. CASE RegisterSource(n, s, cost, rc) \/ RegisterHandles(n, s, cost, rc)
      <3>1. {s} \in SUBSET {s, Mixed}
        OBVIOUS
      <3>. QED
        BY <2>2, <3>1, Zenon DEF RegisterSource, RegisterHandles
    <2>. QED
      BY <2>1, <2>2
  <1>. QED
    BY <1>1, <1>2, <1>3, RegisterKeeps, Zenon

LEMMA RegisterModuleKeeps ==
    ASSUME LangInv, NEW n \in LangTools, NEW s \in Sources, NEW rc \in {"ok", "error"},
           RegisterCompiled(n, s, rc) \/ RegisterModule(n, s, rc)
    PROVE  LangInv'
  <1>1. Request /\ Records(n, s, rc, 0)
    BY DEF RegisterCompiled, RegisterModule
  <1>2. rc = "trap" => 0 > Budget
    OBVIOUS
  <1>3. CASE RegisterCompiled(n, s, rc)
    <2>1. Programs(n, s, rc, {}) /\ {} \in SUBSET {s, Mixed}
      BY <1>3 DEF RegisterCompiled
    <2>. QED
      BY <1>1, <1>2, <2>1, RegisterKeeps, Zenon
  <1>4. CASE RegisterModule(n, s, rc)
    <2>1. lang = "rust" /\ lang' = "rust"
      BY <1>1, <1>4, RuntimeFacts DEF RegisterModule, LangInv, LangType, Request
    <2>2. defined' \in [LangTools -> Sources \cup {NoSource, Mixed}]
      BY <1>4 DEF RegisterModule, Put, LangInv, LangType
    <2>3. LangType'
      BY <1>1, <2>1, <2>2 DEF LangInv, LangType, Records, Answered
    <2>4. Executed(n, "register", TRUE, rc, 0)
      BY <1>1 DEF Records
    <2>5. CallsNamed' /\ RunsAsAsked'
      BY <1>2, <2>4, NoCallRuns, Zenon
    <2>. QED
      BY <2>1, <2>3, <2>5 DEF LangInv, Recorded
  <1>. QED
    BY <1>3, <1>4

\* A call changes neither the tables nor their history.
LEMMA CallsKeepTables ==
    ASSUME LangInv, lang' = lang, UNCHANGED <<tools, defined, asked, latest, torn>>,
           requests < MaxRequests
    PROVE  LangType' /\ Recorded'
  BY KindStays DEF LangInv, LangType, Recorded

LEMMA LessIsAtMost == \A a, b \in Nat : a < b => a <= b
  OBVIOUS

LEMMA InvokeKeeps ==
    ASSUME LangInv, Request, NEW n \in LangTools, tools[n] # NoSource,
           NEW payload \in {"json", "tlv", "tlv as json"}, NEW len \in Lengths,
           NEW cost, NEW rc \in Returns,
           payload # "tlv as json" => ArgsFit(len),
           Invoke(n, payload, len, cost, rc)
    PROVE  LangInv'
  <1>1. lang' = lang /\ requests < MaxRequests
    BY DEF Request
  <1>2. UNCHANGED <<tools, defined, asked, latest, torn>>
    BY DEF Invoke
  <1>3. LangType' /\ Recorded'
    BY <1>1, <1>2, CallsKeepTables
  <1>. DEFINE outcome == Outcome(cost, rc)
  <1>4. /\ ran'.tool = n /\ ran'.payload = payload /\ ran'.whole = Whole(len)
        /\ ran'.source = defined[n] /\ ran'.outcome = outcome /\ ran'.cost = cost
    BY <1>2 DEF Invoke, Executed
  <1>5. CallsNamed'
    BY <1>4 DEF CallsNamed
  <1>6. RunsRegistered'
    <2>1. Resident(n)' = Resident(n)
      BY <1>1, <1>2, KindStays
    <2>2. lang # "rust" /\ n \notin torn => defined[n] = asked[Resident(n)]
      BY <1>1 DEF LangInv, Recorded
    <2>3. (ran.tool)' = n /\ (ran.source)' = defined[n]
      BY <1>4
    <2>4. Resident(ran.tool)' = Resident(n)
      BY <2>1, <2>3 DEF Resident
    <2>5. asked'[Resident(ran.tool)'] = asked[Resident(n)]
      BY <1>2, <2>4
    <2>. QED
      BY <1>1, <1>2, <2>2, <2>3, <2>5 DEF RunsRegistered
  <1>7. ArgsFit(len) => Whole(len)
    <2>1. Self.capacity \in Nat
      BY RuntimeFacts, Zenon DEF LangInv, LangType
    <2>2. len \in Nat
      BY LangAssumption
    <2>. QED
      BY <2>1, <2>2, LessIsAtMost, Zenon DEF ArgsFit, Whole
  <1>8. ArgsWhole'
    BY <1>4, <1>7 DEF ArgsWhole
  <1>9. BudgetPerRequest'
    BY <1>4 DEF BudgetPerRequest, Outcome, Traps, FuelForRequest, Returns
  <1>. QED
    BY <1>3, <1>5, <1>6, <1>8, <1>9 DEF LangInv, RunsAsAsked

LEMMA RefuseKeeps ==
    ASSUME LangInv, Request, NEW n \in LangTools, NEW why \in {"unknown", "too long"},
           Refuse(n, why)
    PROVE  LangInv'
  <1>1. lang' = lang /\ requests < MaxRequests
    BY DEF Request
  <1>2. LangType' /\ Recorded'
    BY <1>1, CallsKeepTables DEF Refuse
  <1>3. Executed(n, why, TRUE, "refused", 0) /\ why \notin {"json", "tlv", "tlv as json"}
    BY DEF Refuse
  <1>4. CallsNamed' /\ RunsAsAsked'
    BY <1>3, NoCallRuns, Zenon
  <1>. QED
    BY <1>2, <1>4 DEF LangInv

LEMMA CallKeeps ==
    ASSUME LangInv, NEW n \in LangTools, NEW len \in Lengths, NEW json \in Lengths, NEW cost,
           NEW rc \in Returns, Call(n, len, cost, rc) \/ CallBinary(n, len, json, cost, rc)
    PROVE  LangInv'
  <1>1. Request
    BY DEF Call, CallBinary
  <1>2. CASE \E why \in {"unknown", "too long"} : Refuse(n, why)
    BY <1>1, <1>2, RefuseKeeps
  <1>3. CASE Invoke(n, "json", len, cost, rc) /\ ArgsFit(len) /\ tools[n] # NoSource
    BY <1>1, <1>3, InvokeKeeps
  <1>4. CASE Invoke(n, "tlv", len, cost, rc) /\ ArgsFit(len) /\ tools[n] # NoSource
    BY <1>1, <1>4, InvokeKeeps
  <1>5. CASE Invoke(n, "tlv as json", json, cost, rc) /\ tools[n] # NoSource
    BY <1>1, <1>5, InvokeKeeps
  <1>. QED
    BY <1>2, <1>3, <1>4, <1>5 DEF Call, CallBinary

LEMMA DestroyKeeps ==
    ASSUME LangInv, Destroy
    PROVE  LangInv'
  <1>1. requests' = MaxRequests /\ lang' = lang /\ asked' = asked /\ ran' = Nothing
    BY DEF Destroy
  <1>2. LangType'
    BY <1>1 DEF Destroy, LangInv, LangType
  <1>3. Recorded'
    BY <1>1, LangAssumption DEF Recorded
  <1>4. ~Calling' /\ ran'.outcome = "none"
    BY <1>1 DEF Calling, Nothing
  <1>. QED
    BY <1>2, <1>3, <1>4 DEF LangInv, CallsNamed, RunsAsAsked, RunsRegistered, ArgsWhole,
       BudgetPerRequest

\* A call of a language's runtime runs the source that its guest was given last, for
\* the tool or where the guest has one program for any, on whole arguments and on a
\* budget of its own, for any tools, sources and payloads and any sequence of
\* registrations, failures and calls.
THEOREM RunsAsAskedHolds == LangSpec => []RunsAsAsked
  <1>1. LangInit => LangInv
    <2>. SUFFICES ASSUME LangInit PROVE LangInv
      OBVIOUS
    <2>1. LangType /\ Recorded
      BY DEF LangInit, LangType, Recorded
    <2>2. ~Calling /\ ran.outcome = "none"
      BY DEF LangInit, Calling, Nothing
    <2>. QED
      BY <2>1, <2>2 DEF LangInv, CallsNamed, RunsAsAsked, RunsRegistered, ArgsWhole,
         BudgetPerRequest
  <1>2. LangInv /\ [LangNext]_langVars => LangInv'
    <2>. SUFFICES ASSUME LangInv, [LangNext]_langVars PROVE LangInv'
      OBVIOUS
    <2>1. ASSUME NEW n \in LangTools, NEW s \in Sources, RegisterSkipped(n, s) PROVE LangInv'
      BY <2>1, RegisterSkippedKeeps
    <2>2. ASSUME NEW n \in LangTools, NEW s \in Sources, NEW rc \in {"ok", "error"},
                 RegisterCompiled(n, s, rc) \/ RegisterModule(n, s, rc)
          PROVE  LangInv'
      BY <2>2, RegisterModuleKeeps
    <2>3. ASSUME NEW n \in LangTools, NEW s \in Sources, NEW rc \in {"ok", "error"},
                 NEW cost \in Costs,
                 \/ RegisterProgram(n, s, cost, rc) \/ RegisterSource(n, s, cost, rc)
                 \/ RegisterHandles(n, s, cost, rc)
          PROVE  LangInv'
      BY <2>3, RegisterSourceKeeps
    <2>4. ASSUME NEW n \in LangTools, NEW len \in Lengths, NEW cost \in Costs, NEW rc \in Returns,
                 Call(n, len, cost, rc) \/ \E json \in Lengths : CallBinary(n, len, json, cost, rc)
          PROVE  LangInv'
      BY <2>4, CallKeeps
    <2>5. CASE Destroy
      BY <2>5, DestroyKeeps
    <2>6. CASE UNCHANGED langVars
      BY <2>6 DEF langVars, LangInv, LangType, Recorded, CallsNamed, Calling, RunsAsAsked,
         RunsRegistered, ArgsWhole, BudgetPerRequest, Resident, OneProgram, Is, Self
    <2>. QED
      BY <2>1, <2>2, <2>3, <2>4, <2>5, <2>6, Zenon DEF LangNext
  <1>3. LangInv => RunsAsAsked
    BY DEF LangInv
  <1>. QED
    BY <1>1, <1>2, <1>3, PTL DEF LangSpec

-----------------------------------------------------------------------------
(* The WASI host *)

StdinInv ==
    /\ stdin \in Seq(Nat) /\ pushed \in Seq(Nat) /\ taken \in Seq(Nat)
    /\ StdinWhole

SocksInv ==
    /\ DOMAIN socks \subseteq DOMAIN sent /\ DOMAIN socks \subseteq DOMAIN given
    /\ \A fd \in DOMAIN socks \ failed :
         socks[fd] \in Seq(Nat) /\ sent[fd] \in Seq(Nat) /\ given[fd] \in Seq(Nat)
    /\ ReceivedWhole

\* The numbers handed out so far, for files and for sockets.
FdsInv ==
    /\ nextFd \in Nat /\ nextFd >= 3 /\ nextSock \in Nat /\ nextSock >= SOCKET_FD_BASE
    /\ \A fd \in DOMAIN files : fd \in 3..(nextFd - 1)
    /\ \A fd \in DOMAIN socks \cup listeners : fd \in SOCKET_FD_BASE..(nextSock - 1)
    /\ DOMAIN socks \cap listeners = {}
    /\ \A fd \in closed : fd \in 3..(nextFd - 1) \/ fd \in SOCKET_FD_BASE..(nextSock - 1)
    /\ FdNeverReused

WasiInv == produced \in Nat /\ StdinInv /\ SocksInv /\ FdsInv

LEMMA InsertFacts ==
    ASSUME NEW f, NEW x, NEW v
    PROVE  /\ DOMAIN Inserted(f, x, v) = DOMAIN f \cup {x} /\ Inserted(f, x, v)[x] = v
           /\ \A y \in DOMAIN f \ {x} : Inserted(f, x, v)[y] = f[y]
  BY DEF Inserted

LEMMA WithoutFacts ==
    ASSUME NEW f, NEW x
    PROVE  /\ DOMAIN Without(f, x) = DOMAIN f \ {x}
           /\ \A y \in DOMAIN f \ {x} : Without(f, x)[y] = f[y]
  BY DEF Without

LEMMA Joined == \A a, b, c \in Seq(Nat) : (a \o b) \o c = a \o (b \o c)
  BY ConcatAssociative

\* A read and what it leaves are the bytes that were there.
LEMMA ReadSplits ==
    ASSUME NEW iov \in Iovs, NEW bytes \in Seq(Nat)
    PROVE  /\ Filled(iov, bytes) \in Seq(Nat) /\ Rest(iov, bytes) \in Seq(Nat)
           /\ Filled(iov, bytes) \o Rest(iov, bytes) = bytes
  <1>. DEFINE n == IF Total(iov) < Len(bytes) THEN Total(iov) ELSE Len(bytes)
  <1>1. n \in 0..Len(bytes) /\ Len(bytes) \in Nat
    BY WasiAssumption
  <1>2. Filled(iov, bytes) = SubSeq(bytes, 1, n)
    BY DEF Filled
  <1>. HIDE DEF n
  <1>3. /\ SubSeq(bytes, 1, n) \in Seq(Nat) /\ Len(SubSeq(bytes, 1, n)) = n
        /\ SubSeq(bytes, n + 1, Len(bytes)) \in Seq(Nat)
    BY <1>1
  <1>4. Rest(iov, bytes) = SubSeq(bytes, n + 1, Len(bytes))
    BY <1>2, <1>3 DEF Rest
  <1>5. SubSeq(bytes, 1, n) \o SubSeq(bytes, n + 1, Len(bytes)) = SubSeq(bytes, 1, Len(bytes))
    <2>1. 1 \in 1..(Len(bytes) + 1) /\ n \in (1 - 1)..Len(bytes) /\ Len(bytes) \in n..Len(bytes)
      BY <1>1
    <2>. QED
      BY <2>1, ConcatAdjacentSubSeq
  <1>6. SubSeq(bytes, 1, Len(bytes)) = bytes
    BY SubSeqFull
  <1>. QED
    BY <1>2, <1>3, <1>4, <1>5, <1>6

\* So it moves bytes from where they wait to the end of what was read.
LEMMA ReadMoves ==
    ASSUME NEW iov \in Iovs, NEW read \in Seq(Nat), NEW bytes \in Seq(Nat)
    PROVE  /\ read \o Filled(iov, bytes) \in Seq(Nat) /\ Rest(iov, bytes) \in Seq(Nat)
           /\ (read \o Filled(iov, bytes)) \o Rest(iov, bytes) = read \o bytes
  <1>1. /\ Filled(iov, bytes) \in Seq(Nat) /\ Rest(iov, bytes) \in Seq(Nat)
        /\ Filled(iov, bytes) \o Rest(iov, bytes) = bytes
    BY ReadSplits
  <1>2. (read \o Filled(iov, bytes)) \o Rest(iov, bytes)
          = read \o (Filled(iov, bytes) \o Rest(iov, bytes))
    BY <1>1, Joined, Zenon
  <1>. QED
    BY <1>1, <1>2, ConcatProperties

LEMMA NextBytesType ==
    ASSUME produced \in Nat, NEW n \in Nat
    PROVE  NextBytes(n) \in Seq(Nat)
  <1>1. \A i \in 1..n : produced + i \in Nat
    OBVIOUS
  <1>. QED
    BY <1>1, IsASeq DEF NextBytes

\* Steps that leave a part alone keep its invariant.
LEMMA StdinStays == StdinInv /\ UNCHANGED inVars => StdinInv'
  BY DEF StdinInv, StdinWhole, inVars

LEMMA SocksStay == SocksInv /\ UNCHANGED <<socks, sent, given, failed>> => SocksInv'
  BY DEF SocksInv, ReceivedWhole

LEMMA FdsStay ==
    FdsInv /\ DOMAIN files' = DOMAIN files /\ UNCHANGED <<nextFd, socks, listeners, nextSock, closed>>
      => FdsInv'
  BY DEF FdsInv, FdNeverReused, Fds

LEMMA NothingChanges ==
    ASSUME WasiInv, NEW e, RefusedCall(e)
    PROVE  WasiInv'
  <1>1. UNCHANGED <<produced, inVars, netVars, fsVars, closed>>
    BY DEF RefusedCall
  <1>. QED
    BY <1>1, StdinStays, SocksStay, FdsStay DEF WasiInv, netVars, fsVars

\* A step on an open file changes its position or contents only.
LEMMA FileMoves ==
    ASSUME WasiInv, DOMAIN files' = DOMAIN files,
           UNCHANGED <<nextFd, netVars, inVars, produced, closed>>
    PROVE  WasiInv'
  BY StdinStays, SocksStay, FdsStay DEF WasiInv, netVars

LEMMA PushKeeps ==
    ASSUME WasiInv, NEW n \in Nat, PushStdin(n)
    PROVE  WasiInv'
  <1>1. /\ stdin \in Seq(Nat) /\ taken \in Seq(Nat) /\ pushed \in Seq(Nat)
        /\ taken \o stdin = pushed /\ NextBytes(n) \in Seq(Nat) /\ produced \in Nat
    BY NextBytesType DEF WasiInv, StdinInv, StdinWhole
  <1>2. /\ stdin' = stdin \o NextBytes(n) /\ pushed' = pushed \o NextBytes(n)
        /\ produced' = produced + n /\ UNCHANGED <<fsVars, netVars, taken, closed>>
    BY DEF PushStdin, MayProduce
  <1>3. stdin' \in Seq(Nat) /\ pushed' \in Seq(Nat) /\ produced' \in Nat
    BY <1>1, <1>2, ConcatProperties
  <1>4. taken \o (stdin \o NextBytes(n)) = (taken \o stdin) \o NextBytes(n)
    BY <1>1, Joined, Zenon
  <1>5. StdinInv'
    BY <1>1, <1>2, <1>3, <1>4 DEF StdinInv, StdinWhole
  <1>. QED
    BY <1>2, <1>3, <1>5, SocksStay, FdsStay DEF WasiInv, netVars, fsVars

LEMMA ReadStdinKeeps ==
    ASSUME WasiInv, NEW iov \in Iovs, ReadStdin(iov)
    PROVE  WasiInv'
  <1>1. CASE RefusedCall("AGAIN")
    BY <1>1, NothingChanges
  <1>2. CASE /\ taken' = taken \o Filled(iov, stdin) /\ stdin' = Rest(iov, stdin)
             /\ UNCHANGED <<fsVars, netVars, pushed, produced, closed>>
    <2>1. /\ stdin \in Seq(Nat) /\ taken \in Seq(Nat) /\ pushed \in Seq(Nat)
          /\ taken \o stdin = pushed
      BY DEF WasiInv, StdinInv, StdinWhole
    <2>2. /\ taken' \in Seq(Nat) /\ stdin' \in Seq(Nat)
          /\ taken' \o stdin' = taken \o stdin
      BY <1>2, <2>1, ReadMoves
    <2>3. StdinInv'
      BY <1>2, <2>1, <2>2 DEF StdinInv, StdinWhole
    <2>. QED
      BY <1>2, <2>3, SocksStay, FdsStay DEF WasiInv, netVars, fsVars
  <1>. QED
    BY <1>1, <1>2 DEF ReadStdin

\* A file opened gets the next number, which was never closed.
LEMMA OpenKeeps ==
    ASSUME WasiInv, NEW node, NEW access, OpenAs(node, access),
           UNCHANGED <<netVars, inVars, produced, closed>>
    PROVE  WasiInv'
  <1>1. DOMAIN files' = DOMAIN files \cup {nextFd} /\ nextFd' = nextFd + 1
    BY InsertFacts DEF OpenAs, AllocFd
  <1>2. UNCHANGED <<socks, listeners, nextSock, sent, given, failed, closed>>
    BY DEF netVars
  <1>3. FdsInv'
    <2>1. nextFd' \in Nat /\ nextFd' >= 3 /\ nextSock' \in Nat /\ nextSock' >= SOCKET_FD_BASE
      BY <1>1, <1>2 DEF WasiInv, FdsInv
    <2>2. \A fd \in DOMAIN files' : fd \in 3..(nextFd' - 1)
      BY <1>1 DEF WasiInv, FdsInv
    <2>3. \A fd \in closed' : fd \in 3..(nextFd' - 1) \/ fd \in SOCKET_FD_BASE..(nextSock' - 1)
      BY <1>1, <1>2, WasiAssumption DEF WasiInv, FdsInv
    <2>4. ASSUME nextFd' =< SOCKET_FD_BASE PROVE closed' \cap Fds' = {}
      <3>1. nextFd \notin closed /\ nextFd =< SOCKET_FD_BASE
        BY <1>1, <2>4, WasiAssumption DEF WasiInv, FdsInv
      <3>2. Fds' = Fds \cup {nextFd}
        BY <1>1, <1>2 DEF Fds
      <3>. QED
        BY <1>2, <3>1, <3>2 DEF WasiInv, FdsInv, FdNeverReused
    <2>. QED
      BY <1>2, <2>1, <2>2, <2>3, <2>4 DEF WasiInv, FdsInv, FdNeverReused
  <1>. QED
    BY <1>2, <1>3, StdinStays, SocksStay DEF WasiInv

\* A socket or a listener gets the next number of its own range.
LEMMA NumberTaken ==
    ASSUME WasiInv, nextSock' = nextSock + 1, UNCHANGED <<files, nextFd, closed>>,
           \/ DOMAIN socks' = DOMAIN socks \cup {nextSock} /\ listeners' = listeners
           \/ DOMAIN socks' = DOMAIN socks /\ listeners' = listeners \cup {nextSock}
    PROVE  FdsInv'
  <1>1. /\ nextSock \in Nat /\ nextSock >= SOCKET_FD_BASE /\ nextFd \in Nat /\ nextFd >= 3
        /\ \A fd \in DOMAIN socks \cup listeners : fd \in SOCKET_FD_BASE..(nextSock - 1)
    BY DEF WasiInv, FdsInv
  <1>2. nextSock \notin DOMAIN socks \cup listeners
    BY <1>1, WasiAssumption
  <1>3. \A fd \in DOMAIN socks' \cup listeners' : fd \in SOCKET_FD_BASE..(nextSock' - 1)
    BY <1>1, WasiAssumption
  <1>4. DOMAIN socks' \cap listeners' = {}
    BY <1>2 DEF WasiInv, FdsInv
  <1>5. \A fd \in closed' : fd \in 3..(nextFd' - 1) \/ fd \in SOCKET_FD_BASE..(nextSock' - 1)
    BY <1>1, WasiAssumption DEF WasiInv, FdsInv
  <1>6. ASSUME nextFd' =< SOCKET_FD_BASE PROVE closed' \cap Fds' = {}
    <2>1. nextSock \notin closed
      BY <1>1, <1>6, WasiAssumption DEF WasiInv, FdsInv
    <2>2. Fds' = Fds \cup {nextSock}
      BY DEF Fds
    <2>. QED
      BY <1>6, <2>1, <2>2 DEF WasiInv, FdsInv, FdNeverReused
  <1>7. FdNeverReused'
    BY <1>6 DEF FdNeverReused
  <1>8. nextSock' \in Nat /\ nextSock' >= SOCKET_FD_BASE
    BY <1>1, WasiAssumption
  <1>9. \A fd \in DOMAIN files' : fd \in 3..(nextFd' - 1)
    BY DEF WasiInv, FdsInv
  <1>. QED
    BY <1>1, <1>3, <1>4, <1>5, <1>7, <1>8, <1>9 DEF FdsInv

LEMMA NewSocket ==
    ASSUME WasiInv, socks' = Inserted(socks, nextSock, <<>>), sent' = Inserted(sent, nextSock, <<>>),
           given' = Inserted(given, nextSock, <<>>), nextSock' = nextSock + 1,
           UNCHANGED <<listeners, failed, fsVars, inVars, produced, closed>>
    PROVE  WasiInv'
  <1>1. /\ DOMAIN socks' = DOMAIN socks \cup {nextSock} /\ socks'[nextSock] = <<>>
        /\ DOMAIN sent' = DOMAIN sent \cup {nextSock} /\ sent'[nextSock] = <<>>
        /\ DOMAIN given' = DOMAIN given \cup {nextSock} /\ given'[nextSock] = <<>>
    BY DEF Inserted
  <1>2. \A fd \in DOMAIN socks \ {nextSock} :
          socks'[fd] = socks[fd] /\ sent'[fd] = sent[fd] /\ given'[fd] = given[fd]
    <2>1. /\ DOMAIN socks \ {nextSock} \subseteq DOMAIN sent \ {nextSock}
          /\ DOMAIN socks \ {nextSock} \subseteq DOMAIN given \ {nextSock}
      BY DEF WasiInv, SocksInv
    <2>. QED
      BY <2>1 DEF Inserted
  <1>3. FdsInv'
    BY <1>1, NumberTaken DEF fsVars
  <1>4. SocksInv'
    <2>1. ASSUME NEW fd \in DOMAIN socks' \ failed'
          PROVE  /\ socks'[fd] \in Seq(Nat) /\ sent'[fd] \in Seq(Nat) /\ given'[fd] \in Seq(Nat)
                 /\ given'[fd] \o socks'[fd] = sent'[fd]
      <3>1. CASE fd = nextSock
        <4>1. <<>> \in Seq(Nat) /\ <<>> \o <<>> = <<>>
          BY ConcatEmptySeq
        <4>. QED
          BY <1>1, <3>1, <4>1
      <3>2. CASE fd # nextSock
        <4>1. fd \in DOMAIN socks \ failed /\ fd \in DOMAIN socks \ {nextSock}
          BY <1>1, <3>2
        <4>. QED
          BY <1>2, <4>1 DEF WasiInv, SocksInv, ReceivedWhole
      <3>. QED
        BY <3>1, <3>2
    <2>2. DOMAIN socks' \subseteq DOMAIN sent' /\ DOMAIN socks' \subseteq DOMAIN given'
      BY <1>1 DEF WasiInv, SocksInv
    <2>. QED
      BY <2>1, <2>2 DEF SocksInv, ReceivedWhole
  <1>. QED
    BY <1>3, <1>4, StdinStays DEF WasiInv

LEMMA ListenKeeps ==
    ASSUME WasiInv, NEW host, Listen(host)
    PROVE  WasiInv'
  <1>1. CASE RefusedCall("CONNREFUSED")
    BY <1>1, NothingChanges
  <1>2. CASE /\ listeners' = listeners \cup {nextSock} /\ nextSock' = nextSock + 1
             /\ UNCHANGED <<socks, sent, given, failed, fsVars, inVars, produced, closed>>
    <2>1. FdsInv'
      BY <1>2, NumberTaken DEF fsVars
    <2>. QED
      BY <1>2, <2>1, SocksStay, StdinStays DEF WasiInv
  <1>. QED
    BY <1>1, <1>2 DEF Listen

\* One socket moves, and keeps what it was sent unless it failed.
LEMMA SocketMoves ==
    ASSUME WasiInv, NEW fd \in DOMAIN socks, produced' \in Nat, failed \subseteq failed',
           DOMAIN socks' = DOMAIN socks, DOMAIN sent' = DOMAIN sent, DOMAIN given' = DOMAIN given,
           \A x \in DOMAIN socks \ {fd} :
             socks'[x] = socks[x] /\ sent'[x] = sent[x] /\ given'[x] = given[x],
           fd \notin failed' =>
             /\ socks'[fd] \in Seq(Nat) /\ sent'[fd] \in Seq(Nat) /\ given'[fd] \in Seq(Nat)
             /\ given'[fd] \o socks'[fd] = sent'[fd],
           UNCHANGED <<listeners, nextSock, fsVars, inVars, closed>>
    PROVE  WasiInv'
  <1>1. \A x \in DOMAIN socks' \ failed' :
          /\ socks'[x] \in Seq(Nat) /\ sent'[x] \in Seq(Nat) /\ given'[x] \in Seq(Nat)
          /\ given'[x] \o socks'[x] = sent'[x]
    <2>. TAKE x \in DOMAIN socks' \ failed'
    <2>1. CASE x = fd
      BY <2>1, Zenon
    <2>2. CASE x # fd
      <3>1. x \in DOMAIN socks \ failed /\ x \in DOMAIN socks \ {fd}
        BY <2>2
      <3>. QED
        BY <3>1 DEF WasiInv, SocksInv, ReceivedWhole
    <2>. QED
      BY <2>1, <2>2
  <1>2. SocksInv'
    BY <1>1 DEF WasiInv, SocksInv, ReceivedWhole
  <1>3. FdsInv'
    BY DEF WasiInv, FdsInv, FdNeverReused, Fds, fsVars
  <1>. QED
    BY <1>2, <1>3, StdinStays DEF WasiInv

LEMMA PeerSendsKeeps ==
    ASSUME WasiInv, NEW fd, NEW n \in Nat, PeerSends(fd, n)
    PROVE  WasiInv'
  <1>1. /\ fd \in DOMAIN socks /\ produced' = produced + n
        /\ socks' = [socks EXCEPT ![fd] = @ \o NextBytes(n)]
        /\ sent' = [sent EXCEPT ![fd] = @ \o NextBytes(n)]
        /\ UNCHANGED <<fsVars, inVars, listeners, nextSock, given, failed, closed>>
    BY DEF PeerSends, MayProduce
  <1>. DEFINE bytes == NextBytes(n)
  <1>2. produced' \in Nat /\ bytes \in Seq(Nat)
    BY <1>1, NextBytesType DEF WasiInv
  <1>. HIDE DEF bytes
  <1>3. /\ DOMAIN socks' = DOMAIN socks /\ DOMAIN sent' = DOMAIN sent
        /\ socks'[fd] = socks[fd] \o bytes /\ sent'[fd] = sent[fd] \o bytes
        /\ \A x \in DOMAIN socks \ {fd} : socks'[x] = socks[x] /\ sent'[x] = sent[x]
    BY <1>1 DEF WasiInv, SocksInv, bytes
  <1>4. ASSUME fd \notin failed
        PROVE  /\ socks'[fd] \in Seq(Nat) /\ sent'[fd] \in Seq(Nat) /\ given'[fd] \in Seq(Nat)
               /\ given'[fd] \o socks'[fd] = sent'[fd]
    <2>. DEFINE s == socks[fd]
                t == sent[fd]
                g == given[fd]
    <2>1. s \in Seq(Nat) /\ t \in Seq(Nat) /\ g \in Seq(Nat) /\ g \o s = t
      BY <1>1, <1>4 DEF WasiInv, SocksInv, ReceivedWhole
    <2>2. socks'[fd] = s \o bytes /\ sent'[fd] = t \o bytes /\ given'[fd] = g
      BY <1>1, <1>3
    <2>. HIDE DEF s, t, g
    <2>3. (g \o s) \o bytes = g \o (s \o bytes)
      BY <1>2, <2>1, Joined, Zenon
    <2>4. s \o bytes \in Seq(Nat) /\ t \o bytes \in Seq(Nat)
      BY <1>2, <2>1
    <2>. QED
      BY <2>1, <2>2, <2>3, <2>4, Zenon
  <1>. QED
    BY <1>1, <1>2, <1>3, <1>4, SocketMoves

LEMMA RecvKeeps ==
    ASSUME WasiInv, NEW fd, NEW iov \in Iovs, Recv(fd, iov)
    PROVE  WasiInv'
  <1>1. CASE RefusedCall("BADF")
    BY <1>1, NothingChanges
  <1>2. CASE /\ fd \in DOMAIN socks /\ socks' = [socks EXCEPT ![fd] = Rest(iov, socks[fd])]
             /\ given' = [given EXCEPT ![fd] = @ \o Filled(iov, socks[fd])]
             /\ UNCHANGED <<listeners, nextSock, sent, failed, fsVars, inVars, produced, closed>>
    <2>. DEFINE s == socks[fd]
                t == sent[fd]
                g == given[fd]
                f == Filled(iov, s)
                r == Rest(iov, s)
    <2>1. /\ DOMAIN socks' = DOMAIN socks /\ DOMAIN given' = DOMAIN given
          /\ socks'[fd] = r /\ given'[fd] = g \o f /\ sent'[fd] = t
          /\ \A x \in DOMAIN socks \ {fd} : socks'[x] = socks[x] /\ given'[x] = given[x]
      BY <1>2 DEF WasiInv, SocksInv
    <2>2. ASSUME fd \notin failed
          PROVE  /\ socks'[fd] \in Seq(Nat) /\ sent'[fd] \in Seq(Nat) /\ given'[fd] \in Seq(Nat)
                 /\ given'[fd] \o socks'[fd] = sent'[fd]
      <3>1. s \in Seq(Nat) /\ t \in Seq(Nat) /\ g \in Seq(Nat) /\ g \o s = t
        BY <1>2, <2>2 DEF WasiInv, SocksInv, ReceivedWhole
      <3>2. g \o f \in Seq(Nat) /\ r \in Seq(Nat) /\ (g \o f) \o r = g \o s
        BY <3>1, ReadMoves
      <3>. HIDE DEF f, r, s, t, g
      <3>. QED
        BY <2>1, <3>1, <3>2, Zenon
    <2>3. produced' \in Nat /\ failed \subseteq failed'
      BY <1>2 DEF WasiInv
    <2>. HIDE DEF f, r, s, t, g
    <2>. QED
      BY <1>2, <2>1, <2>2, <2>3, SocketMoves
  <1>3. CASE /\ fd \in DOMAIN socks /\ failed' = failed \cup {fd}
             /\ \E k \in 0..(Len(iov) - 1) :
                  socks' = [socks EXCEPT ![fd] = Rest(SubSeq(iov, 1, k), socks[fd])]
             /\ UNCHANGED <<listeners, nextSock, sent, given, fsVars, inVars, produced, closed>>
    <2>1. DOMAIN socks' = DOMAIN socks /\ \A x \in DOMAIN socks \ {fd} : socks'[x] = socks[x]
      BY <1>3
    <2>2. failed \subseteq failed' /\ fd \in failed' /\ produced' \in Nat
      BY <1>3 DEF WasiInv
    <2>. QED
      BY <1>3, <2>1, <2>2, SocketMoves
  <1>. QED
    BY <1>1, <1>2, <1>3 DEF Recv

LEMMA CloseKeeps ==
    ASSUME WasiInv, NEW fd \in Int, Close(fd)
    PROVE  WasiInv'
  <1>1. CASE RefusedCall("BADF")
    BY <1>1, NothingChanges
  <1>2. CASE /\ FileRange(fd) /\ fd \in DOMAIN files /\ files' = Without(files, fd)
             /\ closed' = closed \cup {fd}
             /\ UNCHANGED <<socks, listeners, nextFd, nextSock, sent, given, failed, inVars,
                            produced>>
    <2>1. DOMAIN files' = DOMAIN files \ {fd}
      BY <1>2, WithoutFacts
    <2>2. /\ nextFd \in Nat /\ nextSock \in Nat /\ fd \in 3..(nextFd - 1)
          /\ \A x \in DOMAIN socks \cup listeners : x \in SOCKET_FD_BASE..(nextSock - 1)
      BY <1>2 DEF WasiInv, FdsInv
    <2>3. ASSUME nextFd =< SOCKET_FD_BASE PROVE closed' \cap Fds' = {}
      <3>1. fd \notin DOMAIN socks \cup listeners
        BY <2>2, <2>3, WasiAssumption
      <3>2. Fds' = Fds \ {fd}
        BY <1>2, <2>1, <3>1 DEF Fds
      <3>. QED
        BY <1>2, <2>3, <3>2 DEF WasiInv, FdsInv, FdNeverReused
    <2>4. FdNeverReused'
      BY <1>2, <2>3 DEF FdNeverReused
    <2>5. \A x \in closed' : x \in 3..(nextFd' - 1) \/ x \in SOCKET_FD_BASE..(nextSock' - 1)
      BY <1>2, <2>2 DEF WasiInv, FdsInv
    <2>6. FdsInv'
      BY <1>2, <2>1, <2>4, <2>5 DEF WasiInv, FdsInv
    <2>. QED
      BY <1>2, <2>6, StdinStays, SocksStay DEF WasiInv
  <1>3. CASE /\ ~FileRange(fd) /\ networking /\ fd \in DOMAIN socks \cup listeners
             /\ socks' = Without(socks, fd)
             /\ listeners' = (IF fd \in DOMAIN socks THEN listeners ELSE listeners \ {fd})
             /\ closed' = closed \cup {fd}
             /\ UNCHANGED <<files, nextFd, nextSock, sent, given, failed, inVars, produced>>
    <2>1. /\ DOMAIN socks' = DOMAIN socks \ {fd}
          /\ \A x \in DOMAIN socks \ {fd} : socks'[x] = socks[x]
      BY <1>3, WithoutFacts
    <2>2. /\ nextFd \in Nat /\ nextSock \in Nat /\ fd \in SOCKET_FD_BASE..(nextSock - 1)
          /\ \A x \in DOMAIN files : x \in 3..(nextFd - 1)
          /\ DOMAIN socks \cap listeners = {}
      BY <1>3 DEF WasiInv, FdsInv
    <2>3. listeners' = listeners \ {fd}
      BY <1>3, <2>2
    <2>4. ASSUME nextFd =< SOCKET_FD_BASE PROVE closed' \cap Fds' = {}
      <3>1. fd \notin DOMAIN files
        BY <2>2, <2>4, WasiAssumption
      <3>2. Fds' = Fds \ {fd}
        BY <1>3, <2>1, <2>3, <3>1 DEF Fds
      <3>. QED
        BY <1>3, <2>4, <3>2 DEF WasiInv, FdsInv, FdNeverReused
    <2>5. FdNeverReused'
      BY <1>3, <2>4 DEF FdNeverReused
    <2>6. \A x \in closed' : x \in 3..(nextFd' - 1) \/ x \in SOCKET_FD_BASE..(nextSock' - 1)
      BY <1>3, <2>2 DEF WasiInv, FdsInv
    <2>7. FdsInv'
      BY <1>3, <2>1, <2>3, <2>5, <2>6 DEF WasiInv, FdsInv
    <2>8. SocksInv'
      <3>1. DOMAIN socks' \subseteq DOMAIN sent' /\ DOMAIN socks' \subseteq DOMAIN given'
        BY <1>3, <2>1 DEF WasiInv, SocksInv
      <3>2. \A x \in DOMAIN socks' \ failed' :
              /\ x \in DOMAIN socks \ failed /\ socks'[x] = socks[x]
              /\ sent'[x] = sent[x] /\ given'[x] = given[x]
        BY <1>3, <2>1
      <3>. QED
        BY <3>1, <3>2 DEF WasiInv, SocksInv, ReceivedWhole
    <2>. QED
      BY <1>3, <2>7, <2>8, StdinStays DEF WasiInv
  <1>. QED
    BY <1>1, <1>2, <1>3 DEF Close

LEMMA PathOpenKeeps ==
    ASSUME WasiInv, NEW dirfd, NEW dir, NEW name, NEW read, NEW write, NEW create,
           PathOpen(dirfd, dir, name, read, write, create)
    PROVE  WasiInv'
  <1>1. ASSUME NEW e, RefusedCall(e) PROVE WasiInv'
    BY <1>1, NothingChanges
  <1>2. ASSUME NEW node, NEW access, OpenAs(node, access),
               UNCHANGED <<netVars, inVars, produced, closed>>
        PROVE  WasiInv'
    BY <1>2, OpenKeeps
  <1>. QED
    BY <1>1, <1>2, Zenon DEF PathOpen

\* Changes of the directory tree leave the descriptors alone.
LEMMA PathsKeep ==
    ASSUME WasiInv, NEW dirfd, NEW dir, NEW name, NEW to,
           \/ Unlink(dirfd, dir, name) \/ CreateDirectory(dirfd, dir, name)
           \/ Rename(dirfd, <<dir, name>>, 3, to)
    PROVE  WasiInv'
  <1>1. ASSUME NEW e, RefusedCall(e) PROVE WasiInv'
    BY <1>1, NothingChanges
  <1>2. ASSUME UNCHANGED <<files, nextFd, inodes, netVars, inVars, produced, closed>>
        PROVE  WasiInv'
    BY <1>2, FileMoves
  <1>3. CASE Unlink(dirfd, dir, name)
    BY <1>1, <1>2, <1>3, Zenon DEF Unlink
  <1>4. CASE CreateDirectory(dirfd, dir, name)
    BY <1>1, <1>2, <1>4, Zenon DEF CreateDirectory
  <1>5. CASE Rename(dirfd, <<dir, name>>, 3, to)
    BY <1>1, <1>2, <1>5, Zenon DEF Rename
  <1>. QED
    BY <1>3, <1>4, <1>5

LEMMA FilesKeep ==
    ASSUME WasiInv, NEW fd, NEW iov \in Iovs, ReadFile(fd, iov) \/ WriteFile(fd, iov)
    PROVE  WasiInv'
  <1>1. ASSUME NEW e, RefusedCall(e) PROVE WasiInv'
    BY <1>1, NothingChanges
  <1>2. ASSUME DOMAIN files' = DOMAIN files, UNCHANGED <<nextFd, netVars, inVars, produced, closed>>
        PROVE  WasiInv'
    BY <1>2, FileMoves
  <1>3. CASE ReadFile(fd, iov)
    <2>1. \/ RefusedCall("BADF")
          \/ /\ \E n : files' = [files EXCEPT ![fd].pos = @ + n]
             /\ UNCHANGED <<nextFd, netVars, inVars, produced, closed>>
      BY <1>3, Zenon DEF ReadFile
    <2>2. ASSUME NEW n, files' = [files EXCEPT ![fd].pos = @ + n] PROVE DOMAIN files' = DOMAIN files
      BY <2>2
    <2>. QED
      BY <1>1, <1>2, <2>1, <2>2, Zenon
  <1>4. CASE WriteFile(fd, iov)
    <2>1. \/ \E e : RefusedCall(e)
          \/ /\ files' = [files EXCEPT ![fd].pos = @ + Total(iov)]
             /\ produced' = produced + Total(iov)
             /\ UNCHANGED <<nextFd, netVars, inVars, closed>>
      BY <1>4, Zenon DEF WriteFile, MayProduce
    <2>2. CASE /\ files' = [files EXCEPT ![fd].pos = @ + Total(iov)]
               /\ produced' = produced + Total(iov)
               /\ UNCHANGED <<nextFd, netVars, inVars, closed>>
      <3>1. DOMAIN files' = DOMAIN files
        BY <2>2
      <3>2. produced' \in Nat
        BY <2>2, WasiAssumption DEF WasiInv
      <3>. QED
        BY <2>2, <3>1, <3>2, StdinStays, SocksStay, FdsStay DEF WasiInv, netVars
    <2>. QED
      BY <1>1, <2>1, <2>2
  <1>. QED
    BY <1>3, <1>4

LEMMA SeekKeeps ==
    ASSUME WasiInv, NEW fd, NEW offset, NEW whence, Seek(fd, offset, whence)
    PROVE  WasiInv'
  <1>1. \/ \E e : RefusedCall(e)
        \/ \E to : /\ files' = [files EXCEPT ![fd].pos = to]
                   /\ UNCHANGED <<nextFd, netVars, inVars, produced, closed>>
    BY Zenon DEF Seek
  <1>. QED
    BY <1>1, NothingChanges, FileMoves

LEMMA ConnectKeeps ==
    ASSUME WasiInv, NEW host, NEW fd, Connect(host) \/ Accept(fd)
    PROVE  WasiInv'
  <1>1. ASSUME NEW e, RefusedCall(e) PROVE WasiInv'
    BY <1>1, NothingChanges
  <1>. QED
    BY <1>1, NewSocket, Zenon DEF Connect, Accept

LEMMA AnswersKeep ==
    ASSUME WasiInv, NEW fd, NEW iov,
           \/ Send(fd) \/ WriteSocket(fd) \/ WriteOut(fd, iov) \/ Unsupported
           \/ Stat(fd) \/ ReadDir(fd) \/ Poll(fd)
    PROVE  WasiInv'
  <1>1. UNCHANGED <<fsVars, netVars, inVars, produced, closed>>
    BY Zenon DEF Send, WriteSocket, WriteOut, Unsupported, Stat, ReadDir, Poll, RefusedCall
  <1>. QED
    BY <1>1, FileMoves DEF fsVars

LEMMA WasiInitially == WasiInit => WasiInv
  <1>. SUFFICES ASSUME WasiInit PROVE WasiInv
    OBVIOUS
  <1>1. <<>> \in Seq(Nat) /\ <<>> \o <<>> = <<>>
    BY ConcatEmptySeq
  <1>2. StdinInv
    BY <1>1 DEF WasiInit, StdinInv, StdinWhole
  <1>3. DOMAIN socks = {} /\ DOMAIN files = {} /\ listeners = {} /\ closed = {}
    BY DEF WasiInit
  <1>4. SocksInv
    BY <1>3 DEF SocksInv, ReceivedWhole
  <1>5. FdsInv
    BY <1>3, WasiAssumption DEF WasiInit, FdsInv, FdNeverReused, Fds
  <1>. QED
    BY <1>2, <1>4, <1>5 DEF WasiInit, WasiInv

LEMMA WasiStepKeeps ==
    ASSUME WasiInv, [WasiNext]_wasiVars
    PROVE  WasiInv'
  <1>1. CASE PushStdin(2)
    BY <1>1, PushKeeps
  <1>2. ASSUME NEW iov \in Iovs, ReadStdin(iov) PROVE WasiInv'
    BY <1>2, ReadStdinKeeps
  <1>3. ASSUME NEW dirfd \in {3, 4}, NEW dir \in Dirs \cup {"relative"}, NEW name \in FileNames,
               \/ \E read, write, create \in BOOLEAN :
                    PathOpen(dirfd, dir, name, read, write, create)
               \/ Unlink(dirfd, dir, name) \/ CreateDirectory(dirfd, dir, name)
               \/ \E to \in (Dirs \cup {"relative"}) \X FileNames :
                    Rename(dirfd, <<dir, name>>, 3, to)
        PROVE  WasiInv'
    BY <1>3, PathOpenKeeps, PathsKeep, Zenon
  <1>4. ASSUME NEW fd \in Numbers, NEW iov \in Iovs,
               ReadFile(fd, iov) \/ WriteFile(fd, iov) \/ Recv(fd, iov) \/ WriteOut(fd, iov)
        PROVE  WasiInv'
    BY <1>4, FilesKeep, RecvKeeps, AnswersKeep, Zenon
  <1>5. ASSUME NEW fd \in Numbers, NEW offset \in -1..1, NEW whence \in 0..3,
               Seek(fd, offset, whence)
        PROVE  WasiInv'
    BY <1>5, SeekKeeps
  <1>6. ASSUME NEW fd \in Numbers, Accept(fd) PROVE WasiInv'
    BY <1>6, ConnectKeeps, Zenon
  <1>7. ASSUME NEW fd \in Numbers, Send(fd) \/ WriteSocket(fd) \/ Stat(fd) \/ ReadDir(fd) \/ Poll(fd)
        PROVE  WasiInv'
    BY <1>7, AnswersKeep, Zenon
  <1>8. ASSUME NEW fd \in Numbers, Close(fd) PROVE WasiInv'
    BY <1>8, CloseKeeps, WasiAssumption DEF Numbers
  <1>9. ASSUME NEW fd \in Numbers, PeerSends(fd, 2) PROVE WasiInv'
    BY <1>9, PeerSendsKeeps
  <1>10. CASE Unsupported
    BY <1>10, AnswersKeep, Zenon
  <1>11. ASSUME NEW host \in Hosts, Connect(host) \/ Listen(host) PROVE WasiInv'
    BY <1>11, ConnectKeeps, ListenKeeps, Zenon
  <1>12. CASE UNCHANGED wasiVars
    BY <1>12, FileMoves DEF wasiVars, fsVars
  <1>. QED
    BY <1>1, <1>2, <1>3, <1>4, <1>5, <1>6, <1>7, <1>8, <1>9, <1>10, <1>11, <1>12, Zenon DEF WasiNext

\* However a guest splits its buffers, it gets the bytes of stdin and, until a receive
\* fails, those of a socket once and in order, and a descriptor it closed never names
\* another file or socket (fd_read, sock_recv, alloc_fd, fd_close).
THEOREM WasiExactHolds == WasiSpec => []WasiExact
  <1>1. WasiInit => WasiInv
    BY WasiInitially
  <1>2. WasiInv /\ [WasiNext]_wasiVars => WasiInv'
    BY WasiStepKeeps
  <1>3. WasiInv => WasiExact
    BY DEF WasiInv, StdinInv, SocksInv, FdsInv, WasiExact
  <1>. QED
    BY <1>1, <1>2, <1>3, PTL DEF WasiSpec
=============================================================================
