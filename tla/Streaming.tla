----------------------------- MODULE Streaming -----------------------------
(***************************************************************************)
(* Streamed results of src/streaming.rs: chunk_result, the task that sends *)
(* the chunks through a bounded channel (stream_chunks_to_sse and          *)
(* stream_chunks_with_backpressure), and the table of streaming states,    *)
(* which is keyed by the text of the progress token.                       *)
(***************************************************************************)
EXTENDS Integers, Sequences, FiniteSets

CONSTANTS
    Tokens,      \* progress tokens, as the client sent them
    KeyOf,       \* [Tokens -> text]: the number 1 and the string "1" have the same
    StreamTasks,       \* sending tasks
    Lengths,     \* lengths of results, in characters or elements
    ChunkSizes,  \* chunk sizes
    Capacity,    \* of the channel: 64 in the code
    MAX_STATES   \* 1024 in the code

ASSUME StreamingAssumption ==
    /\ Lengths \subseteq Nat
    /\ ChunkSizes \subseteq Nat \ {0}   \* chunks(0) panics

VARIABLES
    states,    \* STREAMING_STATES: chunks_sent by key
    stream,      \* the tasks
    started    \* history: keys that were initialised more than once, or by two tokens

streamingVars == <<states, stream, started>>

\* Faulty variant: the division rounds down.
DivFloor(n, size) == n \div size

\* div_ceil, which chunk_result takes for the number of chunks.
DivCeil(n, size) == (n + size - 1) \div size

\* chunk_result for a string or an array; anything else is one final chunk.
ChunkResult(data, size) ==
    [i \in 1..DivCeil(Len(data), size) |->
        [id |-> i - 1,
         part |-> SubSeq(data, (i - 1) * size + 1, IF i * size < Len(data) THEN i * size ELSE Len(data)),
         final |-> i - 1 = DivCeil(Len(data), size) - 1]]

Numbered(n) == [i \in 1..n |-> i]

StreamingInit ==
    /\ states = <<>>
    /\ stream = [t \in StreamTasks |-> [pc |-> "idle"]]
    /\ started = {}

\* init_streaming_state: a new key above the limit is refused with a warning.
InitState(token) ==
    LET key == KeyOf[token] IN
    /\ key \in DOMAIN states \/ Cardinality(DOMAIN states) < MAX_STATES
    /\ states' = [k \in DOMAIN states \cup {key} |-> IF k = key THEN 0 ELSE states[k]]
    /\ started' = IF key \in DOMAIN states THEN started \cup {key} ELSE started
    /\ UNCHANGED stream

\* The task is spawned with the chunks of a result.
StartStream(t, token, n, size) ==
    /\ stream[t].pc = "idle"
    /\ stream' = [stream EXCEPT ![t] = [pc |-> "send", token |-> token, data |-> Numbered(n),
                                    left |-> ChunkResult(Numbered(n), size),
                                    channel |-> <<>>, got |-> <<>>, open |-> TRUE, sent |-> 0]]
    /\ started' = IF \E o \in StreamTasks : stream[o].pc # "idle" /\ KeyOf[stream[o].token] = KeyOf[token]
                    THEN started \cup {KeyOf[token]} ELSE started
    /\ UNCHANGED states

\* Faulty variant: the task waits for room although the receiver is gone.
SendChunkBlocks(t) ==
    /\ stream[t].pc = "send" /\ stream[t].left # <<>>
    /\ stream[t].open /\ Len(stream[t].channel) < Capacity
    /\ stream' = [stream EXCEPT ![t].left = Tail(@), ![t].sent = @ + 1,
                                ![t].channel = Append(@, Head(stream[t].left)),
                                ![t].pc = "record"]
    /\ UNCHANGED <<states, started>>

\* tx.send(..).await waits for room; it fails once the receiver is gone.
SendChunk(t) ==
    /\ stream[t].pc = "send" /\ stream[t].left # <<>>
    /\ IF ~stream[t].open
         THEN stream' = [stream EXCEPT ![t].pc = "done"]
         ELSE /\ Len(stream[t].channel) < Capacity
              /\ stream' = [stream EXCEPT ![t].left = Tail(@), ![t].sent = @ + 1,
                                          ![t].channel = Append(@, Head(stream[t].left)),
                                          ![t].pc = "record"]
    /\ UNCHANGED <<states, started>>

\* Faulty variant: a chunk counts for every open stream.
RecordChunkAll(t) ==
    /\ stream[t].pc = "record"
    /\ states' = [k \in DOMAIN states |-> states[k] + 1]
    /\ stream' = [stream EXCEPT ![t].pc = "send"]
    /\ UNCHANGED started

\* record_streaming_chunk: for the key, whoever initialised it.
RecordChunk(t) ==
    /\ stream[t].pc = "record"
    /\ states' = [k \in DOMAIN states |-> IF k = KeyOf[stream[t].token] THEN states[k] + 1 ELSE states[k]]
    /\ stream' = [stream EXCEPT ![t].pc = "send"]
    /\ UNCHANGED started

EndStream(t) ==
    /\ stream[t].pc = "send" /\ stream[t].left = <<>>
    /\ stream' = [stream EXCEPT ![t].pc = "done"]
    /\ UNCHANGED <<states, started>>

\* The client reads, or goes away.
ReceiveChunk(t) ==
    /\ stream[t].pc # "idle" /\ stream[t].open /\ stream[t].channel # <<>>
    /\ stream' = [stream EXCEPT ![t].got = Append(@, Head(stream[t].channel)),
                                ![t].channel = Tail(@)]
    /\ UNCHANGED <<states, started>>

DropReceiver(t) ==
    /\ stream[t].pc \notin {"idle", "done"} /\ stream[t].open
    /\ stream' = [stream EXCEPT ![t].open = FALSE, ![t].channel = <<>>]
    /\ UNCHANGED <<states, started>>

\* complete_streaming: the caller's business; the task does not call it.
CompleteTask(token) ==
    /\ KeyOf[token] \in DOMAIN states
    /\ states' = [k \in DOMAIN states \ {KeyOf[token]} |-> states[k]]
    /\ UNCHANGED <<stream, started>>

StreamTaskStep(t) == SendChunk(t) \/ RecordChunk(t) \/ EndStream(t)

StreamingNext ==
    \/ \E token \in Tokens : InitState(token) \/ CompleteTask(token)
    \/ \E t \in StreamTasks :
         \/ \E token \in Tokens, n \in Lengths, size \in ChunkSizes : StartStream(t, token, n, size)
         \/ SendChunk(t) \/ RecordChunk(t) \/ EndStream(t) \/ ReceiveChunk(t) \/ DropReceiver(t)

\* A task is scheduled when it can go on, and a client that stays reads.
StreamingFair ==
    \A t \in StreamTasks : WF_streamingVars(StreamTaskStep(t)) /\ WF_streamingVars(ReceiveChunk(t))
StreamingSpec == StreamingInit /\ [][StreamingNext]_streamingVars /\ StreamingFair

-----------------------------------------------------------------------------
\* The parts of the chunks are data, cut into consecutive pieces.
Tiles(chunks, data) ==
    \E cuts \in [0..Len(chunks) -> 0..Len(data)] :
        /\ cuts[0] = 0 /\ cuts[Len(chunks)] = Len(data)
        /\ \A i \in 1..Len(chunks) :
             cuts[i - 1] <= cuts[i] /\ chunks[i].part = SubSeq(data, cuts[i - 1] + 1, cuts[i])

\* What a client that stays has received when the task has ended and the channel is
\* empty is the whole result: the parts in order, numbered from 0, and the last one,
\* and only it, marked final.
StreamWhole ==
    \A t \in StreamTasks :
        stream[t].pc = "done" /\ stream[t].open /\ stream[t].channel = <<>> =>
            LET got == stream[t].got IN
            /\ Tiles(got, stream[t].data)
            /\ \A i \in DOMAIN got : got[i].id = i - 1 /\ (got[i].final <=> i = Len(got))

\* A key that one stream uses never counts more chunks than that stream has sent,
\* whatever other streams and completions do.
ChunksCounted ==
    \A t \in StreamTasks :
        stream[t].pc # "idle" /\ KeyOf[stream[t].token] \in DOMAIN states
            /\ KeyOf[stream[t].token] \notin started
            => states[KeyOf[stream[t].token]] <= stream[t].sent

\* Streams that run side by side keep apart: each client gets its result whole and in
\* order, and the progress kept for a token counts its own chunks.
ChunksWhole == StreamWhole /\ ChunksCounted

\* A task ends, whether its client reads to the end or goes away: a full channel
\* holds it only as long as the client is there and does not read.
StreamEnds == \A t \in StreamTasks : (stream[t].pc = "send") ~> (stream[t].pc = "done")

-----------------------------------------------------------------------------
(* A claim the code does not satisfy. *)

\* An empty result has no chunk at all, and so no final one.
FinalChunkSent ==
    \A t \in StreamTasks : stream[t].pc = "done" /\ stream[t].open /\ stream[t].channel = <<>>
        => stream[t].got # <<>>
=============================================================================
