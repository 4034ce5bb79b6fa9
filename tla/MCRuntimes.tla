----------------------------- MODULE MCRuntimes -----------------------------
(***************************************************************************)
(* Model checking of what runs a tool call and hands out its result: the   *)
(* WASM dispatch, child processes, outbound HTTP, streamed results and     *)
(* sampling.  They share no state: a behaviour moves one of them, picked   *)
(* at the start, and leaves the others in an initial state.  Liveness is   *)
(* checked, so no symmetry is used.                                        *)
(***************************************************************************)
EXTENDS WasmDispatch, ChildProcess, OutboundHttp, Streaming, Sampling, TLC

CONSTANTS num1, str1, str2   \* progress tokens

VARIABLE part

Parts == {"wasm", "child", "http", "streaming", "sampling"}

\* A number and a string token with the same text, and another string.
KeyOfVal == num1 :> "1" @@ str1 :> "1" @@ str2 :> "2"

\* Directories of up to three levels, with names that are excluded ("x").
F(n) == [name |-> n, children |-> FileMark]
D(n, c) == [name |-> n, children |-> c]
Leaves == {<<>>, <<F("a")>>, <<F("x")>>, <<F("a"), F("x")>>, <<F("x"), F("b")>>}
Subs == {<<D(n, l)>> \o m : n \in {"d", "x"}, l \in Leaves, m \in Leaves}
DirectoriesVal == Leaves \cup Subs \cup {<<D("e", s), F("b")>> : s \in Subs}

MCInit ==
    /\ part \in Parts
    /\ part = "child" \/ (mode = "shell" /\ prog = <<<<>>, "exit">> /\ heir = FALSE)
    /\ part = "sampling" \/ nesting = FALSE
    /\ Init /\ ChildInit /\ OutboundInit /\ StreamingInit /\ SamplingInit

MCNext ==
    /\ UNCHANGED part
    /\ IF part = "wasm" THEN Next ELSE UNCHANGED vars
    /\ IF part = "child" THEN ChildNext ELSE UNCHANGED childVars
    /\ IF part = "http" THEN OutboundNext ELSE UNCHANGED httpVars
    /\ IF part = "streaming" THEN StreamingNext ELSE UNCHANGED streamingVars
    /\ IF part = "sampling" THEN SamplingNext ELSE UNCHANGED samplingVars

\* The fairness of ChildProcess, for the behaviours that move it.  The fair actions
\* of the others are not enabled in their initial states.
ChildFair ==
    /\ WF_childVars(part = "child" /\ CallerStep)
    /\ WF_childVars(part = "child" /\ ReaderStep)
    /\ WF_childVars(part = "child" /\ ChildStep)

MCSpec ==
    /\ MCInit /\ [][MCNext]_<<part, vars, childVars, httpVars, streamingVars, samplingVars>>
    /\ Fairness /\ ChildFair /\ OutboundFair /\ StreamingFair /\ SamplingFair

\* A call returns whatever runs it: the guest's attempts and fallbacks come to an end,
\* a deadline or the end of the program ends a child, retries are used up, a stream
\* ends with its client, and a sampling request with its callback.
CallsEnd ==
    /\ RequestsEnd /\ PluginReturns /\ SandboxReturns /\ EngineReturns
    /\ HttpEnds /\ StreamEnds /\ SamplingEnds
=============================================================================
