------------------------------ MODULE Sampling -----------------------------
(***************************************************************************)
(* sampling/createMessage of src/sampling.rs.  The registered callback is  *)
(* behind a mutex that a request holds from the moment it has found the    *)
(* callback until the answer is recorded; the conversation histories are   *)
(* behind another, taken once for every message.  Other code adds to a     *)
(* conversation (create_sampling_request_with_history), clears one, or     *)
(* replaces the callback meanwhile.                                        *)
(***************************************************************************)
EXTENDS Integers, Sequences, SequencesExt, FiniteSets

CONSTANTS
    Samplers,            \* requests
    Conversations,       \* conversation ids
    MAX_CONVERSATIONS,   \* 256 in the code
    MAX_HISTORY,         \* 1000
    Turn                 \* messages of a request

VARIABLES
    samplingHandler,     \* SAMPLING_HANDLER: "unset", "set"
    handlerOwner,      \* the request that holds its mutex, or "none"
    history,     \* CONVERSATION_HISTORY
    sampler,     \* the requests
    nesting      \* whether the callback asks for sampling itself

samplingVars == <<samplingHandler, handlerOwner, history, sampler, nesting>>

NoOwner == "none"
Outside == "other code"

ASSUME SamplingAssumption ==
    /\ NoOwner \notin Samplers /\ Outside \notin Samplers
    /\ MAX_CONVERSATIONS \in Nat \ {0} /\ MAX_HISTORY \in Nat \ {0}
    /\ Turn \in Nat

AtRest == [pc |-> "idle"]

SamplingInit ==
    /\ samplingHandler = "unset"
    /\ handlerOwner = NoOwner
    /\ history = <<>>
    /\ sampler = [r \in Samplers |-> AtRest]
    /\ nesting \in BOOLEAN

\* Faulty variant: the bound on the conversations is not applied.
RememberedAll(h, conv, message) ==
    {[k \in DOMAIN h \cup {conv} |->
        IF k # conv THEN h[k]
        ELSE Append(IF conv \notin DOMAIN h THEN <<>>
                    ELSE IF Len(h[conv]) >= MAX_HISTORY THEN Tail(h[conv]) ELSE h[conv], message)]}

\* add_to_conversation: a new conversation above the limit replaces an arbitrary one,
\* a message above the limit the oldest.
Remembered(h, conv, message) ==
    LET full == conv \notin DOMAIN h /\ Cardinality(DOMAIN h) >= MAX_CONVERSATIONS
        keeps == IF full THEN {DOMAIN h \ {gone} : gone \in DOMAIN h} ELSE {DOMAIN h}
        old == IF conv \notin DOMAIN h THEN <<>>
               ELSE IF Len(h[conv]) >= MAX_HISTORY THEN Tail(h[conv]) ELSE h[conv]
    IN  {[k \in keep \cup {conv} |-> IF k = conv THEN Append(old, message) ELSE h[k]] : keep \in keeps}

\* handle_sampling_create_message, up to the callback: no callback, no history.
AskRefused(r) ==
    /\ sampler[r] = AtRest
    /\ samplingHandler = "unset"
    /\ sampler' = [sampler EXCEPT ![r] = [pc |-> "error"]]
    /\ UNCHANGED <<samplingHandler, handlerOwner, history, nesting>>

Ask(r, conv) ==
    /\ sampler[r] = AtRest
    /\ samplingHandler = "set"
    /\ sampler' = [sampler EXCEPT ![r] = [pc |-> "lock", conv |-> conv, left |-> Turn]]
    /\ UNCHANGED <<samplingHandler, handlerOwner, history, nesting>>

\* Faulty variant: the mutex is released once the callback has been found.
LockHandlerBriefly(r) ==
    /\ sampler[r].pc = "lock" /\ handlerOwner = NoOwner
    /\ sampler' = [sampler EXCEPT ![r].pc = "track"]
    /\ UNCHANGED <<samplingHandler, handlerOwner, history, nesting>>

LockHandler(r) ==
    /\ sampler[r].pc = "lock" /\ handlerOwner = NoOwner
    /\ handlerOwner' = r
    /\ sampler' = [sampler EXCEPT ![r].pc = "track"]
    /\ UNCHANGED <<samplingHandler, history, nesting>>

\* The request's messages, one at a time.
Track(r) ==
    /\ sampler[r].pc = "track"
    /\ IF sampler[r].left = 0
         THEN sampler' = [sampler EXCEPT ![r].pc = "callback"] /\ UNCHANGED history
         ELSE /\ history' \in Remembered(history, sampler[r].conv, <<r, "user">>)
              /\ sampler' = [sampler EXCEPT ![r].left = @ - 1]
    /\ UNCHANGED <<samplingHandler, handlerOwner, nesting>>

\* on_sampling_request: an answer, an error, a panic that unwinds and leaves the
\* mutex poisoned (the next holder recovers it), or a request of its own.
CallbackReturns(r) ==
    /\ sampler[r].pc = "callback"
    /\ sampler' = [sampler EXCEPT ![r].pc = "answer"]
    /\ UNCHANGED <<samplingHandler, handlerOwner, history, nesting>>

Unlocked(r) == IF handlerOwner = r THEN NoOwner ELSE handlerOwner

\* Faulty variant: an error leaves the mutex locked.
CallbackFailsLocked(r) ==
    /\ sampler[r].pc = "callback"
    /\ sampler' = [sampler EXCEPT ![r] = [pc |-> "error"]]
    /\ UNCHANGED <<samplingHandler, handlerOwner, history, nesting>>

CallbackFails(r) ==
    /\ sampler[r].pc = "callback"
    /\ sampler' = [sampler EXCEPT ![r] = [pc |-> "error"]]
    /\ handlerOwner' = Unlocked(r)
    /\ UNCHANGED <<samplingHandler, history, nesting>>

CallbackAsks(r) ==
    /\ nesting
    /\ sampler[r].pc = "callback"
    /\ sampler' = [sampler EXCEPT ![r].pc = "lock"]
    /\ UNCHANGED <<samplingHandler, handlerOwner, history, nesting>>

\* The answer is recorded, and the mutex released with the end of the function.
Answer(r) ==
    /\ sampler[r].pc = "answer"
    /\ history' \in Remembered(history, sampler[r].conv, <<r, "assistant">>)
    /\ sampler' = [sampler EXCEPT ![r] = [pc |-> "done"]]
    /\ handlerOwner' = Unlocked(r)
    /\ UNCHANGED <<samplingHandler, nesting>>

\* register_sampling_callback: set_handler waits for the mutex too.
SetSamplingHandler ==
    /\ handlerOwner = NoOwner
    /\ samplingHandler = "unset"
    /\ samplingHandler' = "set"
    /\ UNCHANGED <<handlerOwner, history, sampler, nesting>>

\* create_sampling_request_with_history, as far as it changes the histories, and
\* clear_conversation.  Each is done once at most here.
AddOutside(conv) ==
    /\ \A k \in DOMAIN history : ~Contains(history[k], <<Outside, "user">>)
    /\ history' \in Remembered(history, conv, <<Outside, "user">>)
    /\ UNCHANGED <<samplingHandler, handlerOwner, sampler, nesting>>

ClearConversation(conv) ==
    /\ conv \in DOMAIN history
    /\ history' = [k \in DOMAIN history \ {conv} |-> history[k]]
    /\ UNCHANGED <<samplingHandler, handlerOwner, sampler, nesting>>

SamplerStep(r) ==
    LockHandler(r) \/ Track(r) \/ CallbackReturns(r) \/ Answer(r)

SamplingNext ==
    \/ \E r \in Samplers :
         \/ AskRefused(r) \/ (\E conv \in Conversations : Ask(r, conv))
         \/ LockHandler(r) \/ Track(r) \/ CallbackReturns(r) \/ Answer(r)
         \/ CallbackFails(r) \/ CallbackAsks(r)
    \/ SetSamplingHandler
    \/ \E conv \in Conversations : AddOutside(conv) \/ ClearConversation(conv)

\* Every request has a thread of its own, and a callback returns.
SamplingFair == \A r \in Samplers : WF_samplingVars(SamplerStep(r))
SamplingSpec == SamplingInit /\ [][SamplingNext]_samplingVars /\ SamplingFair

-----------------------------------------------------------------------------
\* Positions of a request's messages in a conversation.
Of(r, messages) == {i \in DOMAIN messages : messages[i][1] = r}

\* Two requests in the same conversation never mix: between two messages of one
\* there is none of the other, so the answer that follows a question is its own.
TurnsApart ==
    \A k \in DOMAIN history : \A r, o \in Samplers :
        r # o => \A i, j \in Of(r, history[k]) : \A m \in Of(o, history[k]) : ~(i < m /\ m < j)

\* Both limits hold at every moment, also while several requests add.
HistoryBounded ==
    /\ Cardinality(DOMAIN history) <= MAX_CONVERSATIONS
    /\ \A k \in DOMAIN history : Len(history[k]) <= MAX_HISTORY

\* Concurrent sampling requests leave whole turns in a history that keeps its limits.
TurnsKept == TurnsApart /\ HistoryBounded

\* A request whose callback does not ask for sampling itself ends.
SamplingEnds ==
    \A r \in Samplers : (~nesting /\ sampler[r].pc = "lock") ~> (sampler[r].pc \in {"done", "error"})

-----------------------------------------------------------------------------
(* Claims the code does not satisfy. *)

\* "enabling recursive/agentic behaviors": a callback that asks for sampling waits
\* for the mutex its own request holds.
RecursionEnds == \A r \in Samplers : (sampler[r].pc = "lock") ~> (sampler[r].pc \in {"done", "error"})

\* "Track assistant response in conversation history": after an eviction or a clear
\* the answer opens a conversation of its own.
AnswerFollowsQuestion ==
    \A k \in DOMAIN history : Len(history[k]) < MAX_HISTORY =>
        \A i \in DOMAIN history[k] : history[k][i][2] = "assistant" => i > 1
=============================================================================
