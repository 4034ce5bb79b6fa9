------------------------------ MODULE MCCodec ------------------------------
(***************************************************************************)
(* Model checking of the formats and of the hosts of guest code: NDA       *)
(* frames and documents, the edge tools, WASI, the language runtimes and   *)
(* their registry.  They share no state: a behaviour moves one of them,    *)
(* picked at the start, and leaves the others in an initial state.         *)
(***************************************************************************)
EXTENDS NdaCodec, NdaDocuments, EdgeTools, WasiHost, LanguageRuntimes, RuntimeHost

VARIABLE part

Parts == {"frames", "documents", "edge", "wasi", "languages", "modules", "runtimes", "plugins"}

\* JSON values: the leaves, all small arrays and objects of leaves, nesting up to
\* one level more than a decoder accepts, an array that is too long.
LeafValues ==
    {[t |-> "null"], [t |-> "bool", b |-> TRUE], [t |-> "int", n |-> 0], [t |-> "float", n |-> 1],
     [t |-> "big", n |-> 2], [t |-> "str", bytes |-> <<>>], [t |-> "str", bytes |-> <<0, 5, 1>>]}
Arr(S) == {[t |-> "arr", items |-> s] : s \in UNION {[1..n -> S] : n \in 0..2}}
Obj(S) ==
    {[t |-> "obj", fields |-> <<>>]}
      \cup {[t |-> "obj", fields |-> << [key |-> k, val |-> v] >>] : k \in {<<>>, <<1>>, <<1, 2, 3>>}, v \in S}
      \cup {[t |-> "obj", fields |-> << [key |-> <<0>>, val |-> v], [key |-> <<1>>, val |-> w] >>] :
              v \in S, w \in S}
One(S) ==
    {[t |-> "arr", items |-> <<v>>] : v \in S}
      \cup {[t |-> "obj", fields |-> << [key |-> <<1>>, val |-> v] >>] : v \in S}
ValuesVal ==
    LET flat == Arr(LeafValues) \cup Obj(LeafValues)
    IN LeafValues \cup flat \cup One(flat) \cup One(One(One(LeafValues)))
         \cup {[t |-> "arr", items |-> [i \in 1..3 |-> [t |-> "null"]]]}
FrameValuesVal == LeafValues \cup One(LeafValues)
\* Every buffer of up to four bytes, and two long enough to give a field twice.
RawBuffersVal == UNION {[1..n -> 0..7] : n \in 0..4} \cup {<<6, 2, 1, 0, 4, 1, 0, 2, 1>>, <<6, 2, 1, 0, 1, 0, 1, 0, 4>>}

\* Inputs of the document compiler and the converters.
StringsVal == {<<>>, <<2>>, <<1, 1, 1>>}
TriplesVal == {<< <<1>>, <<1>>, <<>> >>, << <<1, 2>>, <<>>, <<1>> >>,
               << <<1, 1, 1, 2>>, <<>>, <<2>> >>}
SheetsVal == {<< <<1>>, <<1, 2>> >>, << <<1, 2, 3>> >>, << <<1>>, <<>>, <<2>> >>}
SharedVal == {<< <<1>>, <<2>> >>, << <<1, 2>>, <<3>> >>}
\* Cells of two coordinates or none, with no value, a number or another text; shared
\* strings that have the first number, or none.
CellsVal == [coord : {1, 2}, type : {"", "s"}, value : {<<>>, <<0>>, <<NoDigit>>}]
              \cup {[coord |-> 0, type |-> "", value |-> <<0>>]}
DocsVal == [cells : BoundedSeq(CellsVal, 3), shared : {<<>>, << <<5>> >>}]
Text(x) == [text |-> x, nested |-> <<>>]
ParagraphsVal == {<< <<Text(1)>>, <<Text(2), Text(3)>> >>,
                  << <<Text(1), [text |-> 0, nested |-> <<Text(2)>>], Text(3)>> >>, << <<>> >>}

\* Inputs of the edge tools.
AlphabetsVal == {{"1", "-", "+", "*", "^"}, {"1", "0", "/", "(", ")", "-"},
                 {"1", "f", ",", "(", ")"}, {"1", ".", " ", "m", "p", "("},
               {"1", "0", "-", "s", "l", "p", "(", ")"}}
AnchorsVal == {<<0, 1970, 1, 1>>, <<10592, 1999, 1, 1>>, <<47481, 2099, 12, 31>>}
DocumentsVal ==
    LET str == {<<"s", <<>>>>, <<"s", <<"a", Q>>>>}
        arr == {<<"a", <<x>>>> : x \in str} \cup {<<"a", <<x, y>>>> : x \in str, y \in str}
    IN str \cup arr \cup {<<"o", << <<k, v>> >> >> : k \in {<<"a">>, <<"a", Q>>}, v \in str \cup arr}

PreopensVal == <<"d">>
IovsVal == {<<1>>, <<0>>, <<1, 2>>}

\* Plugin manifests: two plugins with tools of one name, one whose second tool has no
\* executor this program knows, one that is too long.
PluginTool(n, type) == [name |-> n, type |-> type, complete |-> TRUE]
Manifest(p, offers) == [plugin |-> p, parses |-> TRUE, huge |-> FALSE, tools |-> offers]
ManifestsVal ==
    {Manifest("p", <<PluginTool("a", "process"), PluginTool("b", "wasm")>>),
     Manifest("q", <<PluginTool("a", "wasm"), PluginTool("a", "process")>>),
     Manifest("r", <<PluginTool("b", "process"), PluginTool("a", "docker")>>),
     [Manifest("s", <<PluginTool("b", "process")>>) EXCEPT !.huge = TRUE],
     [Manifest("t", <<>>) EXCEPT !.parses = FALSE]}

MCInit ==
    /\ part \in Parts
    /\ part = "edge" \/ (tool = "text" /\ alphabet = Letters)
    /\ part = "wasi" \/ build = "plain"
    /\ part = "languages" \/ (lang = "lua" /\ exports = TRUE)
    /\ part = "modules" \/ limit = 0
    /\ CodecInit /\ DocsInit /\ EdgeToolsInit /\ WasiInit /\ LangInit /\ HostInit

MCNext ==
    /\ UNCHANGED part
    /\ IF part = "frames" THEN CodecNext ELSE UNCHANGED codecVars
    /\ IF part = "documents" THEN DocsNext ELSE UNCHANGED docVars
    /\ IF part = "edge" THEN EdgeToolsNext ELSE UNCHANGED toolVars
    /\ IF part = "wasi" THEN WasiNext ELSE UNCHANGED wasiVars
    /\ IF part = "languages" THEN LangNext ELSE UNCHANGED langVars
    /\ IF part = "modules" THEN LoadNext ELSE UNCHANGED loadVars
    /\ IF part = "plugins" THEN PluginsNext ELSE UNCHANGED pluginVars
    /\ IF part = "runtimes" THEN RegistryNext ELSE UNCHANGED registryVars

allVars == <<part, codecVars, docVars, toolVars, wasiVars, langVars, hostVars>>

MCSpec == MCInit /\ [][MCNext]_allVars
=============================================================================
