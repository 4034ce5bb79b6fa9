----------------------------- MODULE WebProofs -----------------------------
(***************************************************************************)
(* What the components around the HTTP server keep between requests, for   *)
(* any number of sessions, connectors, settings, plugins, resources,       *)
(* cached answers and edge clients: live sessions are counted and never    *)
(* swept, connectors call out with a token that lasts, the live settings   *)
(* are what the configuration says, an install is whole or undone, the     *)
(* resource list and its notifications are in order, a cached answer is    *)
(* one the server gave and is still fresh, and an edge client is charged   *)
(* and checked before a tool runs for it.                                  *)
(***************************************************************************)
EXTENDS HttpSessions, Connectors, Configuration, Marketplace, Resources,
        ResponseCache, EdgeServer, TLAPS, SequenceTheorems, FiniteSetTheorems

-----------------------------------------------------------------------------
(* HTTP sessions.  The counters differ from the calls by the handlers that     *)
(* have not finished counting, so a step moves one handler between the sets    *)
(* counted here; a session's entry carries the tick of its last streamable     *)
(* request as long as that is recent.                                          *)

Counting == {r \in Slots : slot[r].at = "count"}
Deciding == {r \in Slots : slot[r].at = "outcome"}

\* Two sets that differ at most in one element.
LEMMA OneApart ==
  ASSUME NEW A, NEW B, NEW r, IsFiniteSet(A), A \ {r} = B \ {r}
  PROVE  /\ Cardinality(A) \in Nat
         /\ Cardinality(B) = Cardinality(A) + (IF r \in B THEN 1 ELSE 0) - (IF r \in A THEN 1 ELSE 0)
<1> DEFINE C == A \ {r}
<1>1. IsFiniteSet(C) /\ r \notin C /\ Cardinality(C) \in Nat /\ Cardinality(A) \in Nat
  BY FS_Subset, FS_CardinalityType
<1>2. Cardinality(C \cup {r}) = Cardinality(C) + 1
  BY <1>1, FS_AddElement
<1>3. A = IF r \in A THEN C \cup {r} ELSE C
  OBVIOUS
<1>4. B = IF r \in B THEN C \cup {r} ELSE C
  OBVIOUS
<1> HIDE DEF C
<1>5. Cardinality(A) = Cardinality(C) + IF r \in A THEN 1 ELSE 0
  BY <1>1, <1>2, <1>3
<1>6. Cardinality(B) = Cardinality(C) + IF r \in B THEN 1 ELSE 0
  BY <1>1, <1>2, <1>4
<1>. QED BY <1>1, <1>5, <1>6

Stages == {"free", "handler", "spawned", "count", "outcome"}

HttpSound ==
    /\ ticks \in Nat /\ calls \in Nat
    /\ metrics \in [total : Nat, ok : Nat, failed : Nat, auth : Nat, limited : Nat]
    /\ DOMAIN slot = Slots
    /\ \A r \in Slots : slot[r] = Free \/ slot[r] \in [at : Stages \ {"free"}, kind : Kinds, sid : Ids, ok : BOOLEAN]
    /\ stopping \in BOOLEAN

TableSound ==
    /\ streamed \in [Ids -> Nat \cup {Never}]
    /\ \A s \in Ids : streamed[s] = Never \/ streamed[s] <= ticks
    /\ \A s \in DOMAIN sessions : sessions[s] \in Nat

HttpInv == HttpSound /\ TableSound /\ MetricsBalance /\ ActiveKept

LEMMA HttpStart == HttpInit => HttpInv
<1> SUFFICES ASSUME HttpInit PROVE HttpInv
  OBVIOUS
<1>1. HttpSound
  BY DEF HttpInit, HttpSound, Free
<1>2. TableSound
  BY DEF HttpInit, TableSound
<1>3. \A st \in {"count", "outcome"} : {r \in Slots : slot[r].at = st} = {}
  BY DEF HttpInit, Free
<1>4. MetricsBalance
  <2>1. Cardinality({r \in Slots : slot[r].at = "count"}) = 0 /\ Cardinality({r \in Slots : slot[r].at = "outcome"}) = 0
    BY <1>3, FS_EmptySet
  <2>. QED BY <2>1 DEF HttpInit, MetricsBalance
<1>5. ActiveKept
  BY DEF HttpInit, ActiveKept
<1>. QED BY <1>1, <1>2, <1>4, <1>5 DEF HttpInv

\* The counts after a step that takes handler r from its stage to another.
LEMMA CountsMove ==
  ASSUME HttpSound, NEW r \in Slots, NEW x, slot' = [slot EXCEPT ![r] = x]
  PROVE  /\ Cardinality(Counting) \in Nat /\ Cardinality(Deciding) \in Nat
         /\ Cardinality(Counting') = Cardinality(Counting) + (IF x.at = "count" THEN 1 ELSE 0) - (IF slot[r].at = "count" THEN 1 ELSE 0)
         /\ Cardinality(Deciding') = Cardinality(Deciding) + (IF x.at = "outcome" THEN 1 ELSE 0) - (IF slot[r].at = "outcome" THEN 1 ELSE 0)
<1>1. slot'[r] = x /\ \A o \in Slots \ {r} : slot'[o] = slot[o]
  BY DEF HttpSound
<1>2. /\ Counting \ {r} = Counting' \ {r} /\ (r \in Counting' <=> x.at = "count") /\ (r \in Counting <=> slot[r].at = "count")
      /\ Deciding \ {r} = Deciding' \ {r} /\ (r \in Deciding' <=> x.at = "outcome") /\ (r \in Deciding <=> slot[r].at = "outcome")
  BY <1>1 DEF Counting, Deciding
<1>3. IsFiniteSet(Counting) /\ IsFiniteSet(Deciding)
  BY FS_Subset, HttpAssumption DEF Counting, Deciding
<1>4. /\ Cardinality(Counting) \in Nat
      /\ Cardinality(Counting') = Cardinality(Counting) + (IF r \in Counting' THEN 1 ELSE 0) - (IF r \in Counting THEN 1 ELSE 0)
  BY <1>2, <1>3, OneApart
<1>5. /\ Cardinality(Deciding) \in Nat
      /\ Cardinality(Deciding') = Cardinality(Deciding) + (IF r \in Deciding' THEN 1 ELSE 0) - (IF r \in Deciding THEN 1 ELSE 0)
  BY <1>2, <1>3, OneApart
<1>. QED BY <1>2, <1>4, <1>5

\* A step that leaves the counters alone, and neither starts nor ends a count.
LEMMA BalanceKept ==
  ASSUME HttpSound, MetricsBalance, NEW r \in Slots, NEW x, slot' = [slot EXCEPT ![r] = x],
         slot[r].at \notin {"count", "outcome"}, x.at \notin {"count", "outcome"},
         UNCHANGED <<metrics, calls>>
  PROVE  MetricsBalance'
<1>0. /\ Cardinality(Counting) \in Nat /\ Cardinality(Deciding) \in Nat
      /\ Cardinality(Counting') = Cardinality(Counting) + (IF x.at = "count" THEN 1 ELSE 0) - (IF slot[r].at = "count" THEN 1 ELSE 0)
      /\ Cardinality(Deciding') = Cardinality(Deciding) + (IF x.at = "outcome" THEN 1 ELSE 0) - (IF slot[r].at = "outcome" THEN 1 ELSE 0)
  BY CountsMove, Zenon
<1>1. Cardinality(Counting') = Cardinality(Counting) /\ Cardinality(Deciding') = Cardinality(Deciding)
  BY <1>0
<1>. QED BY <1>1 DEF MetricsBalance, Counting, Deciding

\* A step that dispatches a call, whose handler then counts it.
LEMMA BalanceCalled ==
  ASSUME HttpSound, MetricsBalance, NEW r \in Slots, NEW x, slot' = [slot EXCEPT ![r] = x],
         slot[r].at \notin {"count", "outcome"}, x.at = "count",
         calls' = calls + 1, metrics' = metrics
  PROVE  MetricsBalance'
<1>0. /\ Cardinality(Counting) \in Nat /\ Cardinality(Deciding) \in Nat
      /\ Cardinality(Counting') = Cardinality(Counting) + (IF x.at = "count" THEN 1 ELSE 0) - (IF slot[r].at = "count" THEN 1 ELSE 0)
      /\ Cardinality(Deciding') = Cardinality(Deciding) + (IF x.at = "outcome" THEN 1 ELSE 0) - (IF slot[r].at = "outcome" THEN 1 ELSE 0)
  BY CountsMove, Zenon
<1>1. /\ Cardinality(Counting) \in Nat /\ Cardinality(Counting') = Cardinality(Counting) + 1
      /\ Cardinality(Deciding') = Cardinality(Deciding)
  BY <1>0
<1>2. /\ calls = metrics.total + Cardinality(Counting) /\ metrics.total = metrics.ok + metrics.failed + Cardinality(Deciding)
      /\ metrics.total \in Nat
  BY DEF MetricsBalance, Counting, Deciding, HttpSound
<1>3. calls' = metrics'.total + Cardinality(Counting') /\ metrics'.total = metrics'.ok + metrics'.failed + Cardinality(Deciding')
  BY <1>1, <1>2
<1>. QED BY <1>3 DEF MetricsBalance, Counting, Deciding

Handler == [at : Stages \ {"free"}, kind : Kinds, sid : Ids, ok : BOOLEAN]

\* A handler at work has a session id.
LEMMA AtWork ==
  ASSUME HttpSound, NEW r \in Slots, slot[r].at # "free" PROVE slot[r] \in Handler
BY DEF HttpSound, Handler, Free

\* What a step on the slots alone leaves.
LEMMA TableKept ==
  ASSUME TableSound, ActiveKept, UNCHANGED <<ticks, sessions, streamed, wasFull>>
  PROVE  TableSound' /\ ActiveKept'
BY DEF TableSound, ActiveKept

LEMMA RefuseKeeps == ASSUME HttpInv, NEW tok \in Tokens, NEW lim \in BOOLEAN, Refuse(tok, lim) PROVE HttpInv'
<1>1. HttpSound /\ TableSound /\ MetricsBalance /\ ActiveKept
  BY DEF HttpInv
<1>2. /\ metrics' \in [total : Nat, ok : Nat, failed : Nat, auth : Nat, limited : Nat]
      /\ metrics'.total = metrics.total /\ metrics'.ok = metrics.ok /\ metrics'.failed = metrics.failed
  BY <1>1 DEF Refuse, HttpSound
<1>3. UNCHANGED <<stopping, ticks, sessions, slot, calls, streamed, wasFull>>
  BY DEF Refuse
<1>4. HttpSound'
  BY <1>1, <1>2, <1>3 DEF HttpSound
<1>5. MetricsBalance'
  BY <1>1, <1>2, <1>3 DEF MetricsBalance
<1>. QED BY <1>1, <1>3, <1>4, <1>5, TableKept DEF HttpInv

\* A step that changes one slot, neither starts nor ends a count, and leaves the rest.
LEMMA SlotOnly ==
  ASSUME HttpSound, MetricsBalance, NEW r \in Slots, NEW x \in Handler \cup {Free}, slot' = [slot EXCEPT ![r] = x],
         slot[r].at \notin {"count", "outcome"}, x.at \notin {"count", "outcome"},
         UNCHANGED <<stopping, ticks, metrics, calls>>
  PROVE  HttpSound' /\ MetricsBalance'
<1>1. MetricsBalance'
  BY BalanceKept, Zenon
<1>2. /\ DOMAIN slot' = Slots
      /\ \A o \in Slots : slot'[o] = Free \/ slot'[o] \in [at : Stages \ {"free"}, kind : Kinds, sid : Ids, ok : BOOLEAN]
  BY DEF HttpSound, Handler
<1>. QED BY <1>1, <1>2 DEF HttpSound

\* The same for a step that dispatches the call of r.
LEMMA SlotCalls ==
  ASSUME HttpSound, MetricsBalance, NEW r \in Slots, NEW x \in Handler, slot' = [slot EXCEPT ![r] = x],
         slot[r].at \notin {"count", "outcome"}, x.at = "count",
         calls' = calls + 1, UNCHANGED <<stopping, ticks, metrics>>
  PROVE  HttpSound' /\ MetricsBalance'
<1>1. metrics' = metrics
  OBVIOUS
<1>2. MetricsBalance'
  BY <1>1, BalanceCalled, Zenon
<1>3. /\ DOMAIN slot' = Slots
      /\ \A o \in Slots : slot'[o] = Free \/ slot'[o] \in [at : Stages \ {"free"}, kind : Kinds, sid : Ids, ok : BOOLEAN]
  BY DEF HttpSound, Handler
<1>. QED BY <1>2, <1>3 DEF HttpSound

LEMMA RequestKeeps ==
  ASSUME HttpInv, NEW r \in Slots, NEW k \in Kinds, NEW raw, NEW tok, Request(r, k, raw, tok) PROVE HttpInv'
<1>1. HttpSound /\ TableSound /\ MetricsBalance /\ ActiveKept
  BY DEF HttpInv
<1>2. PICK s \in Resolve(raw) : slot' = [slot EXCEPT ![r] = [at |-> "handler", kind |-> k, sid |-> s, ok |-> TRUE]]
  BY DEF Request
<1>3. s \in Ids
  BY <1>2 DEF Resolve, Ids
<1>4. PICK x \in Handler : x = [at |-> "handler", kind |-> k, sid |-> s, ok |-> TRUE]
  BY <1>3 DEF Handler, Stages
<1>5. x.at = "handler" /\ slot[r].at = "free" /\ slot' = [slot EXCEPT ![r] = x]
  <2>1. x.at = "handler"
    BY <1>4
  <2>2. slot[r].at = "free"
    BY DEF Request, Free
  <2>3. slot' = [slot EXCEPT ![r] = x]
    BY <1>2, <1>4, Zenon
  <2>. QED BY <2>1, <2>2, <2>3
<1>6. UNCHANGED <<stopping, ticks, sessions, metrics, calls, streamed, wasFull>>
  BY DEF Request
<1>7. HttpSound' /\ MetricsBalance'
  BY <1>1, <1>5, <1>6, SlotOnly
<1>. QED BY <1>1, <1>6, <1>7, TableKept DEF HttpInv

LEMMA PostKeeps == ASSUME HttpInv, NEW r \in Slots, NEW ok \in BOOLEAN, Post(r, ok) PROVE HttpInv'
<1>1. HttpSound /\ TableSound /\ MetricsBalance /\ ActiveKept /\ stopping \in BOOLEAN
  BY DEF HttpInv, HttpSound
<1>2. slot[r].at = "handler" /\ slot[r] \in Handler
  BY <1>1, AtWork DEF Post
<1>3. PICK b \in BOOLEAN : b = (~stopping /\ (ok \/ slot[r].kind = "batch"))
  BY <1>1
<1>4. PICK x \in Handler : x = [slot[r] EXCEPT !.at = "count", !.ok = b]
  BY <1>2 DEF Handler, Stages
<1>5. x.at = "count" /\ slot' = [slot EXCEPT ![r] = x]
  BY <1>2, <1>3, <1>4 DEF Post, Handler
<1>6. UNCHANGED <<stopping, ticks, sessions, metrics, streamed, wasFull>> /\ calls' = calls + 1
  BY DEF Post
<1>7. HttpSound' /\ MetricsBalance'
  BY <1>1, <1>2, <1>5, <1>6, SlotCalls
<1>. QED BY <1>1, <1>6, <1>7, TableKept DEF HttpInv

LEMMA StreamOpenKeeps == ASSUME HttpInv, NEW r \in Slots, StreamOpen(r) PROVE HttpInv'
<1>1. HttpSound /\ TableSound /\ MetricsBalance /\ ActiveKept
  BY DEF HttpInv
<1>2. slot[r].at = "handler" /\ slot[r] \in Handler
  BY <1>1, AtWork DEF StreamOpen
<1>3. PICK s \in Ids : s = slot[r].sid
  BY <1>2 DEF Handler
<1>4. PICK x \in Handler : x = [slot[r] EXCEPT !.at = "spawned"]
  BY <1>2 DEF Handler, Stages
<1>5. x.at = "spawned" /\ slot' = [slot EXCEPT ![r] = x]
  BY <1>2, <1>4 DEF StreamOpen, Handler
<1>6. UNCHANGED <<stopping, ticks, metrics, calls>>
  BY DEF StreamOpen
<1>7. HttpSound' /\ MetricsBalance'
  BY <1>1, <1>2, <1>5, <1>6, SlotOnly
<1>8. streamed' = [streamed EXCEPT ![s] = ticks] /\ ticks' = ticks /\ ticks \in Nat
  BY <1>1, <1>3 DEF StreamOpen, HttpSound
<1>9. \/ wasFull' /\ sessions' = sessions
      \/ wasFull' = wasFull /\ sessions' = [t \in DOMAIN sessions \cup {s} |-> IF t = s THEN ticks ELSE sessions[t]]
  BY <1>3 DEF StreamOpen
<1>10. TableSound'
  BY <1>1, <1>8, <1>9 DEF TableSound
<1>11. ActiveKept'
  <2> SUFFICES ASSUME NEW t \in Ids, streamed'[t] # Never, ticks' - streamed'[t] < SESSION_TTL, ~wasFull'
               PROVE  t \in DOMAIN sessions' /\ sessions'[t] = streamed'[t]
    BY DEF ActiveKept
  <2>1. wasFull' = wasFull /\ sessions' = [u \in DOMAIN sessions \cup {s} |-> IF u = s THEN ticks ELSE sessions[u]]
    BY <1>9
  <2>2. CASE t = s
    BY <2>1, <2>2, <1>1, <1>8 DEF TableSound
  <2>3. CASE t # s
    <3>1. streamed'[t] = streamed[t]
      BY <2>3, <1>1, <1>8 DEF TableSound
    <3>2. t \in DOMAIN sessions /\ sessions[t] = streamed[t]
      BY <3>1, <2>1, <1>1, <1>8 DEF ActiveKept
    <3>. QED BY <3>1, <3>2, <2>1, <2>3
  <2>. QED BY <2>2, <2>3
<1>. QED BY <1>7, <1>10, <1>11 DEF HttpInv

LEMMA StreamRunKeeps == ASSUME HttpInv, NEW r \in Slots, NEW gone \in BOOLEAN, StreamRun(r, gone) PROVE HttpInv'
<1>1. HttpSound /\ TableSound /\ MetricsBalance /\ ActiveKept
  BY DEF HttpInv
<1>2. slot[r].at = "spawned" /\ slot[r] \in Handler
  BY <1>1, AtWork DEF StreamRun
<1>3. UNCHANGED <<stopping, ticks, sessions, metrics, streamed, wasFull>>
  BY DEF StreamRun
<1>4. CASE gone
  <2>1. slot' = [slot EXCEPT ![r] = Free] /\ calls' = calls /\ Free.at = "free"
    BY <1>4 DEF StreamRun, Free
  <2>2. HttpSound' /\ MetricsBalance'
    BY <2>1, <1>1, <1>2, <1>3, SlotOnly
  <2>. QED BY <2>2, <1>1, <1>3, TableKept DEF HttpInv
<1>5. CASE ~gone
  <2>1. PICK x \in Handler : x = [slot[r] EXCEPT !.at = "count"]
    BY <1>2 DEF Handler, Stages
  <2>2. x.at = "count" /\ slot' = [slot EXCEPT ![r] = x] /\ calls' = calls + 1
    BY <2>1, <1>2, <1>5 DEF StreamRun, Handler
  <2>3. HttpSound' /\ MetricsBalance'
    BY <2>2, <1>1, <1>2, <1>3, SlotCalls
  <2>. QED BY <2>3, <1>1, <1>3, TableKept DEF HttpInv
<1>. QED BY <1>4, <1>5

LEMMA SseOpenKeeps == ASSUME HttpInv, NEW r \in Slots, SseOpen(r) PROVE HttpInv'
<1>1. HttpSound /\ TableSound /\ MetricsBalance /\ ActiveKept
  BY DEF HttpInv
<1>2. slot[r].at = "handler" /\ slot[r] \in Handler
  BY <1>1, AtWork DEF SseOpen
<1>3. UNCHANGED <<stopping, ticks, metrics, calls, streamed, wasFull>>
  BY DEF SseOpen
<1>4. slot' = [slot EXCEPT ![r] = Free] /\ Free.at = "free"
  BY DEF SseOpen, Free
<1>5. HttpSound' /\ MetricsBalance'
  BY <1>1, <1>2, <1>3, <1>4, SlotOnly
<1>6. PICK s \in Ids : s = slot[r].sid
  BY <1>2 DEF Handler
<1>7. \/ sessions' = sessions
      \/ /\ s \notin DOMAIN sessions
         /\ sessions' = [t \in DOMAIN sessions \cup {s} |-> IF t = s THEN ticks ELSE sessions[t]]
  BY <1>6 DEF SseOpen
<1>8. TableSound'
  <2>1. ticks \in Nat
    BY <1>1 DEF HttpSound
  <2>. QED BY <2>1, <1>1, <1>3, <1>7 DEF TableSound
<1>9. ActiveKept'
  <2> SUFFICES ASSUME NEW t \in Ids, streamed[t] # Never, ticks - streamed[t] < SESSION_TTL, ~wasFull
               PROVE  t \in DOMAIN sessions' /\ sessions'[t] = streamed[t]
    BY <1>3 DEF ActiveKept
  <2>1. t \in DOMAIN sessions /\ sessions[t] = streamed[t]
    BY <1>1 DEF ActiveKept
  <2>. QED BY <2>1, <1>7
<1>. QED BY <1>5, <1>8, <1>9 DEF HttpInv

LEMMA SocketKeeps == ASSUME HttpInv, NEW r \in Slots, NEW o, SocketMessage(r, o) PROVE HttpInv'
<1>1. HttpSound /\ TableSound /\ MetricsBalance /\ ActiveKept
  BY DEF HttpInv
<1>2. slot[r].at = "handler" /\ slot[r] \in Handler
  BY <1>1, AtWork DEF SocketMessage
<1>3. UNCHANGED <<stopping, ticks, sessions, metrics, streamed, wasFull>>
  BY DEF SocketMessage
<1>4. CASE o = "refused"
  <2>1. slot' = [slot EXCEPT ![r] = Free] /\ calls' = calls /\ Free.at = "free"
    BY <1>4 DEF SocketMessage, Free
  <2>2. HttpSound' /\ MetricsBalance'
    BY <2>1, <1>1, <1>2, <1>3, SlotOnly
  <2>. QED BY <2>2, <1>1, <1>3, TableKept DEF HttpInv
<1>5. CASE o # "refused"
  <2>0. PICK b \in BOOLEAN : b = (o = "answer")
    OBVIOUS
  <2>1. PICK x \in Handler : x = [slot[r] EXCEPT !.at = "count", !.ok = b]
    BY <1>2 DEF Handler, Stages
  <2>2. x.at = "count" /\ slot' = [slot EXCEPT ![r] = x] /\ calls' = calls + 1
    BY <2>0, <2>1, <1>2, <1>5 DEF SocketMessage, Handler
  <2>3. HttpSound' /\ MetricsBalance'
    BY <2>2, <1>1, <1>2, <1>3, SlotCalls
  <2>. QED BY <2>3, <1>1, <1>3, TableKept DEF HttpInv
<1>. QED BY <1>4, <1>5

LEMMA DeleteKeeps == ASSUME HttpInv, NEW r \in Slots, DeleteSession(r) PROVE HttpInv'
<1>1. HttpSound /\ TableSound /\ MetricsBalance /\ ActiveKept
  BY DEF HttpInv
<1>2. slot[r].at = "handler" /\ slot[r] \in Handler
  BY <1>1, AtWork DEF DeleteSession
<1>3. UNCHANGED <<stopping, ticks, metrics, calls, wasFull>>
  BY DEF DeleteSession
<1>4. slot' = [slot EXCEPT ![r] = Free] /\ Free.at = "free"
  BY DEF DeleteSession, Free
<1>5. HttpSound' /\ MetricsBalance'
  BY <1>1, <1>2, <1>3, <1>4, SlotOnly
<1>6. PICK s \in Ids : s = slot[r].sid
  BY <1>2 DEF Handler
<1>7. \/ sessions' = sessions /\ streamed' = streamed
      \/ /\ sessions' = [t \in DOMAIN sessions \ {s} |-> sessions[t]]
         /\ streamed' = [streamed EXCEPT ![s] = Never]
  BY <1>6 DEF DeleteSession
<1>8. TableSound'
  BY <1>1, <1>3, <1>7 DEF TableSound
<1>9. ActiveKept'
  <2> SUFFICES ASSUME NEW t \in Ids, streamed'[t] # Never, ticks - streamed'[t] < SESSION_TTL, ~wasFull
               PROVE  t \in DOMAIN sessions' /\ sessions'[t] = streamed'[t]
    BY <1>3 DEF ActiveKept
  <2>1. CASE sessions' = sessions /\ streamed' = streamed
    BY <2>1, <1>1 DEF ActiveKept
  <2>2. CASE sessions' = [u \in DOMAIN sessions \ {s} |-> sessions[u]] /\ streamed' = [streamed EXCEPT ![s] = Never]
    <3>1. t # s /\ streamed'[t] = streamed[t]
      BY <2>2, <1>1 DEF TableSound
    <3>2. t \in DOMAIN sessions /\ sessions[t] = streamed[t]
      BY <3>1, <1>1 DEF ActiveKept
    <3>. QED BY <2>2, <3>1, <3>2
  <2>. QED BY <1>7, <2>1, <2>2
<1>. QED BY <1>5, <1>8, <1>9 DEF HttpInv

LEMMA CountTotalKeeps == ASSUME HttpInv, NEW r \in Slots, CountTotal(r) PROVE HttpInv'
<1>1. HttpSound /\ TableSound /\ MetricsBalance /\ ActiveKept
  BY DEF HttpInv
<1>2. slot[r].at = "count" /\ slot[r] \in Handler
  BY <1>1, AtWork DEF CountTotal
<1>3. UNCHANGED <<stopping, ticks, sessions, calls, streamed, wasFull>>
  BY DEF CountTotal
<1>4. PICK x \in Handler : x = [slot[r] EXCEPT !.at = "outcome"]
  BY <1>2 DEF Handler, Stages
<1>5. x.at = "outcome" /\ slot' = [slot EXCEPT ![r] = x]
  BY <1>2, <1>4 DEF CountTotal, Handler
<1>6. /\ metrics' \in [total : Nat, ok : Nat, failed : Nat, auth : Nat, limited : Nat]
      /\ metrics'.total = metrics.total + 1 /\ metrics'.ok = metrics.ok /\ metrics'.failed = metrics.failed
  BY <1>1 DEF CountTotal, HttpSound
<1>7. HttpSound'
  BY <1>1, <1>3, <1>5, <1>6 DEF HttpSound, Handler
<1>8. /\ Cardinality(Counting) \in Nat /\ Cardinality(Deciding) \in Nat
      /\ Cardinality(Counting') = Cardinality(Counting) + (IF x.at = "count" THEN 1 ELSE 0) - (IF slot[r].at = "count" THEN 1 ELSE 0)
      /\ Cardinality(Deciding') = Cardinality(Deciding) + (IF x.at = "outcome" THEN 1 ELSE 0) - (IF slot[r].at = "outcome" THEN 1 ELSE 0)
  <2>1. HttpSound
    BY <1>1
  <2>2. slot' = [slot EXCEPT ![r] = x]
    BY <1>5
  <2>. QED BY <2>1, <2>2, CountsMove, Zenon
<1>9. /\ calls = metrics.total + Cardinality(Counting) /\ metrics.total = metrics.ok + metrics.failed + Cardinality(Deciding)
      /\ metrics.total \in Nat /\ metrics.ok \in Nat /\ metrics.failed \in Nat
  BY <1>1 DEF MetricsBalance, Counting, Deciding, HttpSound
<1>10. calls' = metrics'.total + Cardinality(Counting') /\ metrics'.total = metrics'.ok + metrics'.failed + Cardinality(Deciding')
  <2>1. Cardinality(Counting') = Cardinality(Counting) - 1 /\ Cardinality(Deciding') = Cardinality(Deciding) + 1
    BY <1>2, <1>5, <1>8
  <2>. QED BY <2>1, <1>3, <1>6, <1>8, <1>9
<1>11. MetricsBalance'
  BY <1>10 DEF MetricsBalance, Counting, Deciding
<1>. QED BY <1>1, <1>3, <1>7, <1>11, TableKept DEF HttpInv

LEMMA CountOutcomeKeeps == ASSUME HttpInv, NEW r \in Slots, CountOutcome(r) PROVE HttpInv'
<1>1. HttpSound /\ TableSound /\ MetricsBalance /\ ActiveKept
  BY DEF HttpInv
<1>2. slot[r].at = "outcome" /\ slot[r] \in Handler
  BY <1>1, AtWork DEF CountOutcome
<1>3. UNCHANGED <<stopping, ticks, sessions, calls, streamed, wasFull>>
  BY DEF CountOutcome
<1>4. slot' = [slot EXCEPT ![r] = Free] /\ Free.at = "free"
  BY DEF CountOutcome, Free
<1>6. /\ metrics' \in [total : Nat, ok : Nat, failed : Nat, auth : Nat, limited : Nat]
      /\ metrics'.total = metrics.total /\ metrics'.ok + metrics'.failed = metrics.ok + metrics.failed + 1
  BY <1>1 DEF CountOutcome, HttpSound
<1>7. HttpSound'
  BY <1>1, <1>3, <1>4, <1>6 DEF HttpSound
<1>8. /\ Cardinality(Counting) \in Nat /\ Cardinality(Deciding) \in Nat
      /\ Cardinality(Counting') = Cardinality(Counting) + (IF Free.at = "count" THEN 1 ELSE 0) - (IF slot[r].at = "count" THEN 1 ELSE 0)
      /\ Cardinality(Deciding') = Cardinality(Deciding) + (IF Free.at = "outcome" THEN 1 ELSE 0) - (IF slot[r].at = "outcome" THEN 1 ELSE 0)
  BY <1>1, <1>4, CountsMove, Zenon
<1>9. /\ calls = metrics.total + Cardinality(Counting) /\ metrics.total = metrics.ok + metrics.failed + Cardinality(Deciding)
      /\ metrics.total \in Nat /\ metrics.ok \in Nat /\ metrics.failed \in Nat
  BY <1>1 DEF MetricsBalance, Counting, Deciding, HttpSound
<1>10. calls' = metrics'.total + Cardinality(Counting') /\ metrics'.total = metrics'.ok + metrics'.failed + Cardinality(Deciding')
  <2>1. Cardinality(Counting') = Cardinality(Counting) /\ Cardinality(Deciding') = Cardinality(Deciding) - 1
    BY <1>2, <1>4, <1>8
  <2>2. metrics'.ok \in Nat /\ metrics'.failed \in Nat
    BY <1>6
  <2>3. calls' = metrics'.total + Cardinality(Counting')
    BY <2>1, <1>3, <1>6, <1>9
  <2>. QED BY <2>1, <2>2, <2>3, <1>6, <1>8, <1>9
<1>11. MetricsBalance'
  BY <1>10 DEF MetricsBalance, Counting, Deciding
<1>. QED BY <1>1, <1>3, <1>7, <1>11, TableKept DEF HttpInv

LEMMA CleanupKeeps == ASSUME HttpInv, Cleanup PROVE HttpInv'
<1>1. HttpSound /\ TableSound /\ MetricsBalance /\ ActiveKept
  BY DEF HttpInv
<1>2. UNCHANGED <<stopping, ticks, metrics, slot, calls, streamed, wasFull>>
  BY DEF Cleanup
<1>3. HttpSound' /\ MetricsBalance'
  BY <1>1, <1>2 DEF HttpSound, MetricsBalance
<1> DEFINE idle == {s \in DOMAIN sessions : ticks - sessions[s] >= SESSION_TTL}
<1>4. sessions' = [s \in DOMAIN sessions \ idle |-> sessions[s]]
  BY DEF Cleanup
<1>5. TableSound'
  BY <1>1, <1>2, <1>4 DEF TableSound
<1>6. ActiveKept'
  <2> SUFFICES ASSUME NEW t \in Ids, streamed[t] # Never, ticks - streamed[t] < SESSION_TTL, ~wasFull
               PROVE  t \in DOMAIN sessions' /\ sessions'[t] = streamed[t]
    BY <1>2 DEF ActiveKept
  <2>1. t \in DOMAIN sessions /\ sessions[t] = streamed[t]
    BY <1>1 DEF ActiveKept
  <2>2. streamed[t] \in Nat /\ ticks \in Nat /\ SESSION_TTL \in Nat
    BY <1>1, HttpAssumption DEF TableSound, HttpSound
  <2>3. t \notin idle
    BY <2>1, <2>2
  <2>. QED BY <2>1, <2>3, <1>4
<1>. QED BY <1>3, <1>5, <1>6 DEF HttpInv

LEMMA TimePassesKeeps == ASSUME HttpInv, TimePasses PROVE HttpInv'
<1>1. HttpSound /\ TableSound /\ MetricsBalance /\ ActiveKept
  BY DEF HttpInv
<1>2. UNCHANGED <<stopping, sessions, metrics, slot, calls, streamed, wasFull>> /\ ticks' = ticks + 1 /\ ticks \in Nat
  BY <1>1 DEF TimePasses, HttpSound
<1>3. HttpSound' /\ MetricsBalance'
  BY <1>1, <1>2 DEF HttpSound, MetricsBalance
<1>4. TableSound'
  BY <1>1, <1>2 DEF TableSound
<1>5. ActiveKept'
  <2> SUFFICES ASSUME NEW t \in Ids, streamed'[t] # Never, ticks' - streamed'[t] < SESSION_TTL, ~wasFull'
               PROVE  t \in DOMAIN sessions' /\ sessions'[t] = streamed'[t]
    BY DEF ActiveKept
  <2>1. streamed[t] \in Nat /\ SESSION_TTL \in Nat
    BY <1>1, <1>2, HttpAssumption DEF TableSound
  <2>2. ticks - streamed[t] < SESSION_TTL
    BY <2>1, <1>2
  <2>. QED BY <2>2, <1>1, <1>2 DEF ActiveKept
<1>. QED BY <1>3, <1>4, <1>5 DEF HttpInv

LEMMA HttpStep == HttpInv /\ [HttpNext]_httpVars => HttpInv'
<1> SUFFICES ASSUME HttpInv, [HttpNext]_httpVars PROVE HttpInv'
  OBVIOUS
<1>1. ASSUME NEW tok \in Tokens, NEW lim \in BOOLEAN, Refuse(tok, lim) PROVE HttpInv'
  BY <1>1, RefuseKeeps
<1>2. ASSUME NEW r \in Slots,
             \/ \E k \in Kinds, raw \in Sids \cup {"bad"}, tok \in Tokens : Request(r, k, raw, tok)
             \/ \E ok \in BOOLEAN : Post(r, ok)
             \/ StreamOpen(r)
             \/ \E gone \in BOOLEAN : StreamRun(r, gone)
      PROVE  HttpInv'
  BY <1>2, RequestKeeps, PostKeeps, StreamOpenKeeps, StreamRunKeeps
<1>3. ASSUME NEW r \in Slots,
             \/ SseOpen(r)
             \/ \E o \in {"refused", "answer", "silent"} : SocketMessage(r, o)
             \/ DeleteSession(r)
             \/ CountTotal(r) \/ CountOutcome(r)
      PROVE  HttpInv'
  BY <1>3, SseOpenKeeps, SocketKeeps, DeleteKeeps, CountTotalKeeps, CountOutcomeKeeps
<1>4. CASE Cleanup \/ TimePasses
  BY <1>4, CleanupKeeps, TimePassesKeeps
<1>5. CASE Stop
  <2>1. UNCHANGED <<ticks, sessions, metrics, slot, calls, streamed, wasFull>> /\ stopping' \in BOOLEAN
    BY <1>5 DEF Stop
  <2>. QED BY <2>1 DEF HttpInv, HttpSound, TableSound, MetricsBalance, ActiveKept
<1>6. CASE UNCHANGED httpVars
  <2>1. UNCHANGED <<ticks, sessions, metrics, slot, calls, streamed, wasFull, stopping>>
    BY <1>6 DEF httpVars
  <2>. QED BY <2>1 DEF HttpInv, HttpSound, TableSound, MetricsBalance, ActiveKept
<1>. QED BY <1>1, <1>2, <1>3, <1>4, <1>5, <1>6 DEF HttpNext

\* SessionsKept: whatever the handlers in progress, the order of their two atomics and
\* the clean-up's timing, each call is counted once and once more by its outcome, and a
\* session streamed to within SESSION_TTL is in the table, unless it was deleted or met
\* a full table; for any number of handlers, ids, limit and lifetime.
THEOREM SessionsKeptHolds == HttpSpec => []SessionsKept
<1>1. HttpInv => SessionsKept
  BY DEF HttpInv, SessionsKept
<1>. QED BY <1>1, HttpStart, HttpStep, PTL DEF HttpSpec
-----------------------------------------------------------------------------
(* OAuth2 connectors.  A call that holds a token will be over before the token *)
(* expires; and as long as nothing has spoiled the chain, a token that the     *)
(* provider has replaced is about to be overwritten by the one caller that     *)
(* holds its successor.                                                        *)

Token == [refresh : Nat, expires : Nat]
Ages == 0..CallTime

CallSound(r) ==
    \/ r.pc \in {"idle", "done", "error"}
    \/ r \in [pc : {"token", "reread"}, conn : Conns, age : Ages]
    \/ r \in [pc : {"refresh", "send"}, conn : Conns, age : Ages, token : Token]
    \/ r \in [pc : {"store"}, conn : Conns, age : Ages \cup {-1}, token : Token]

\* What a caller may still use lasts at least as long as its call can.
Lasts(r, time) ==
    r.pc = "send" \/ (r.pc = "store" /\ r.age # -1) => r.token.expires > time + CallTime - r.age

ConnSound ==
    /\ connClock \in Nat /\ grants \in Nat /\ spoiled \in BOOLEAN
    /\ DOMAIN tokens \subseteq Conns /\ \A k \in DOMAIN tokens : tokens[k] \in Token
    /\ tokenFile \in [Conns -> Token]
    /\ provider \in [Conns -> Nat]
    /\ DOMAIN call = Callers /\ \A c \in Callers : CallSound(call[c])

CallsLast == \A c \in Callers : Lasts(call[c], connClock)

Storing(c, k) == call[c].pc = "store" /\ call[c].conn = k

\* c has the successor of connector k's refresh token, nobody else, and the store not yet.
SoleHolder(c, k) ==
    /\ k \in DOMAIN tokens => tokens[k].refresh # provider[k]
    /\ \A o \in Callers : call[o].pc = "refresh" /\ call[o].conn = k => call[o].token.refresh # provider[k]
    /\ \A o \in Callers : Storing(o, k) => o = c

Unspoiled ==
    /\ \A k \in Conns : provider[k] <= grants
    /\ \A k \in DOMAIN tokens : tokens[k].refresh <= grants
    /\ \A c \in Callers : call[c].pc = "refresh" => call[c].token.refresh <= grants
    /\ \A k \in DOMAIN tokens : tokens[k].refresh = provider[k] \/ \E c \in Callers : Storing(c, k)
    /\ \A k \in Conns : \A c \in Callers : Storing(c, k) =>
         /\ call[c].token.refresh = provider[k]
         /\ k \in rotating => SoleHolder(c, k)

ConnInv == ConnSound /\ CallsLast /\ (~spoiled => Unspoiled)

LEMMA ConnStart == ConnInit => ConnInv
<1> SUFFICES ASSUME ConnInit PROVE ConnInv
  OBVIOUS
<1>1. NoToken \in Token /\ \A c \in Callers : call[c].pc = "idle"
  BY DEF ConnInit, NoToken, Token, Resting
<1>2. DOMAIN tokens = {}
  BY DEF ConnInit
<1>3. ConnSound
  BY <1>1, <1>2 DEF ConnInit, ConnSound, CallSound
<1>4. CallsLast
  BY <1>1 DEF CallsLast, Lasts
<1>5. Unspoiled
  BY <1>1, <1>2 DEF ConnInit, Unspoiled, Storing
<1>. QED BY <1>3, <1>4, <1>5 DEF ConnInv

\* One caller goes to a record of its own that is sound and lasts.
LEMMA OneGoes ==
  ASSUME ConnSound, CallsLast, NEW c \in Callers, NEW r, Go(c, r), CallSound(r), Lasts(r, connClock), connClock' = connClock
  PROVE  /\ DOMAIN call' = Callers /\ \A o \in Callers : CallSound(call'[o])
         /\ CallsLast'
         /\ call'[c] = r /\ \A o \in Callers \ {c} : call'[o] = call[o]
<1>1. DOMAIN call' = Callers /\ call'[c] = r /\ \A o \in Callers \ {c} : call'[o] = call[o]
  BY DEF ConnSound, Go
<1>2. \A o \in Callers : CallSound(call'[o])
  BY <1>1 DEF ConnSound
<1>3. \A o \in Callers : Lasts(call'[o], connClock)
  BY <1>1 DEF CallsLast
<1>4. CallsLast'
  BY <1>3 DEF CallsLast, Lasts
<1>. QED BY <1>1, <1>2, <1>4

\* A caller that neither refreshes nor stores, before and after, is not part of the chain.
LEMMA ChainApart ==
  ASSUME Unspoiled, NEW c \in Callers, call[c].pc # "store", call'[c].pc \notin {"store", "refresh"},
         \A o \in Callers \ {c} : call'[o] = call[o], UNCHANGED <<tokens, provider, rotating, grants>>
  PROVE  Unspoiled'
<1>1. \A o \in Callers : call'[o].pc = "refresh" => call'[o] = call[o]
  OBVIOUS
<1>2. \A o \in Callers : (call'[o].pc = "store" <=> call[o].pc = "store") /\ (call[o].pc = "store" => call'[o] = call[o])
  OBVIOUS
<1>3. \A k \in DOMAIN tokens' : tokens'[k].refresh = provider'[k] \/ \E o \in Callers : Storing(o, k)'
  BY <1>2 DEF Unspoiled, Storing
<1>4. ASSUME NEW k \in Conns, NEW o \in Callers, Storing(o, k)'
      PROVE  /\ call'[o].token.refresh = provider'[k]
             /\ k \in rotating' => SoleHolder(o, k)'
  <2>1. Storing(o, k) /\ call'[o] = call[o]
    BY <1>2, <1>4 DEF Storing
  <2>2. call'[o].token.refresh = provider'[k]
    BY <2>1 DEF Unspoiled
  <2>3. k \in rotating => SoleHolder(o, k)
    BY <2>1 DEF Unspoiled
  <2>4. SoleHolder(o, k) => SoleHolder(o, k)'
    BY <1>1, <1>2 DEF SoleHolder, Storing
  <2>. QED BY <2>2, <2>3, <2>4
<1>5. /\ \A k \in Conns : provider'[k] <= grants'
      /\ \A k \in DOMAIN tokens' : tokens'[k].refresh <= grants'
      /\ \A o \in Callers : call'[o].pc = "refresh" => call'[o].token.refresh <= grants'
  BY <1>1 DEF Unspoiled
<1>. QED BY <1>3, <1>4, <1>5 DEF Unspoiled

\* The steps of a caller that leave the store, the provider and the chain alone.
LEMMA QuietCallKeeps ==
  ASSUME ConnInv, NEW c \in Callers, NEW k \in Conns, StartCall(c, k) \/ RefuseCall(c) \/ SendRequest(c), UNCHANGED rotating PROVE ConnInv'
<1>0. ConnSound /\ CallsLast /\ (~spoiled => Unspoiled) /\ CallSound(call[c])
  BY DEF ConnInv, ConnSound
<1>1. UNCHANGED <<connClock, tokens, tokenFile, provider, grants, spoiled>> /\ call[c].pc # "store"
  BY DEF StartCall, RefuseCall, SendRequest, Busy
<1>2. PICK r : Go(c, r) /\ CallSound(r) /\ r.pc \in {"token", "error", "done"}
  <2>1. CASE StartCall(c, k)
    <3>1. PICK r \in [pc : {"token"}, conn : Conns, age : Ages] : r = [pc |-> "token", conn |-> k, age |-> 0]
      <4>1. 0 \in Ages
        BY ConnectorsAssumption DEF Ages
      <4>. QED BY <4>1
    <3>. QED BY <2>1, <3>1 DEF StartCall, CallSound
  <2>2. CASE RefuseCall(c) \/ SendRequest(c)
    BY <2>2 DEF RefuseCall, SendRequest, Fail, CallSound
  <2>. QED BY <2>1, <2>2
<1>3. Lasts(r, connClock)
  BY <1>2 DEF Lasts
<1>4. /\ DOMAIN call' = Callers /\ \A o \in Callers : CallSound(call'[o])
      /\ CallsLast'
      /\ call'[c] = r /\ \A o \in Callers \ {c} : call'[o] = call[o]
  BY <1>0, <1>1, <1>2, <1>3, OneGoes
<1>5. ConnSound'
  BY <1>0, <1>1, <1>4 DEF ConnSound, CallSound
<1>6. ~spoiled' => Unspoiled'
  BY <1>0, <1>1, <1>2, <1>4, ChainApart
<1>. QED BY <1>4, <1>5, <1>6 DEF ConnInv

LEMMA GetValidKeeps == ASSUME ConnInv, NEW c \in Callers, GetValidToken(c), UNCHANGED rotating PROVE ConnInv'
<1>0. ConnSound /\ CallsLast /\ (~spoiled => Unspoiled) /\ CallSound(call[c])
  BY DEF ConnInv, ConnSound
<1>1. UNCHANGED <<connClock, tokens, tokenFile, provider, grants, spoiled>> /\ call[c].pc = "token"
  BY DEF GetValidToken
<1>2. PICK k \in Conns, a \in Ages : call[c].conn = k /\ call[c].age = a
  BY <1>0, <1>1 DEF CallSound
<1>3. CASE k \notin DOMAIN tokens
  <2>1. PICK r : r = [pc |-> "error"] /\ Go(c, r)
    BY <1>2, <1>3 DEF GetValidToken, Fail
  <2>2. r.pc = "error" /\ CallSound(r) /\ Lasts(r, connClock)
    BY <2>1 DEF CallSound, Lasts
  <2>4. /\ DOMAIN call' = Callers /\ \A o \in Callers : CallSound(call'[o])
        /\ CallsLast'
        /\ call'[c] = r /\ \A o \in Callers \ {c} : call'[o] = call[o]
    BY <1>0, <1>1, <2>1, <2>2, OneGoes
  <2>5. ConnSound'
    BY <1>0, <1>1, <2>4 DEF ConnSound, CallSound
  <2>6. ~spoiled' => Unspoiled'
    BY <1>0, <1>1, <2>2, <2>4, ChainApart
  <2>. QED BY <2>4, <2>5, <2>6 DEF ConnInv
<1>4. CASE k \in DOMAIN tokens
  <2>1. PICK t \in Token : t = tokens[k]
    BY <1>0, <1>4 DEF ConnSound
  <2>2. PICK r : Go(c, r) /\ CallSound(r) /\ Lasts(r, connClock) /\ r.pc \in {"reread", "send"}
    <3>1. CASE NeedsRefresh(t)
      <4>1. PICK r \in [pc : {"token", "reread"}, conn : Conns, age : Ages] : r = [call[c] EXCEPT !.pc = "reread"]
        <5>1. call[c] \in [pc : {"token", "reread"}, conn : Conns, age : Ages]
          BY <1>0, <1>1 DEF CallSound
        <5>. QED BY <5>1
      <4>2. Go(c, r) /\ r.pc = "reread"
        BY <1>2, <1>4, <2>1, <3>1, <4>1 DEF GetValidToken
      <4>. QED BY <4>1, <4>2 DEF CallSound, Lasts
    <3>2. CASE ~NeedsRefresh(t)
      <4>1. PICK r \in [pc : {"refresh", "send"}, conn : Conns, age : Ages, token : Token] :
              /\ r = [pc |-> "send", conn |-> k, age |-> a, token |-> t]
              /\ Go(c, r)
        BY <1>2, <1>4, <2>1, <3>2 DEF GetValidToken
      <4>2. r.pc = "send" /\ r.age = a /\ r.token = t /\ CallSound(r)
        BY <4>1 DEF CallSound
      <4>3. a \in Nat /\ a <= CallTime /\ CallTime \in Nat /\ Buffer \in Nat /\ Buffer >= CallTime
        BY ConnectorsAssumption DEF Ages
      <4>4. connClock \in Nat /\ t.expires \in Nat
        BY <1>0, <2>1 DEF ConnSound, Token
      <4>5. t.expires > connClock + CallTime - a
        BY <3>2, <4>3, <4>4 DEF NeedsRefresh
      <4>. QED BY <4>1, <4>2, <4>5 DEF Lasts
    <3>. QED BY <3>1, <3>2
  <2>4. /\ DOMAIN call' = Callers /\ \A o \in Callers : CallSound(call'[o])
        /\ CallsLast'
        /\ call'[c] = r /\ \A o \in Callers \ {c} : call'[o] = call[o]
    BY <1>0, <1>1, <2>2, OneGoes
  <2>5. ConnSound'
    BY <1>0, <1>1, <2>4 DEF ConnSound, CallSound
  <2>6. ~spoiled' => Unspoiled'
    BY <1>0, <1>1, <2>2, <2>4, ChainApart
  <2>. QED BY <2>4, <2>5, <2>6 DEF ConnInv
<1>. QED BY <1>3, <1>4

\* What is read again may be another caller's token, or the one its successor is on the way to.
LEMMA RereadKeeps == ASSUME ConnInv, NEW c \in Callers, Reread(c), UNCHANGED rotating PROVE ConnInv'
<1>0. ConnSound /\ CallsLast /\ (~spoiled => Unspoiled) /\ CallSound(call[c])
  BY DEF ConnInv, ConnSound
<1>1. UNCHANGED <<connClock, tokens, tokenFile, provider, grants, spoiled>> /\ call[c].pc = "reread"
  BY DEF Reread
<1>2. PICK k \in Conns, a \in Ages : call[c].conn = k /\ call[c].age = a
  BY <1>0, <1>1 DEF CallSound
<1>3. CASE k \notin DOMAIN tokens
  <2>1. PICK r : r = [pc |-> "error"] /\ Go(c, r)
    BY <1>2, <1>3 DEF Reread, Fail
  <2>2. r.pc = "error" /\ CallSound(r) /\ Lasts(r, connClock)
    BY <2>1 DEF CallSound, Lasts
  <2>4. /\ DOMAIN call' = Callers /\ \A o \in Callers : CallSound(call'[o])
        /\ CallsLast'
        /\ call'[c] = r /\ \A o \in Callers \ {c} : call'[o] = call[o]
    BY <1>0, <1>1, <2>1, <2>2, OneGoes
  <2>5. ConnSound'
    BY <1>0, <1>1, <2>4 DEF ConnSound, CallSound
  <2>6. ~spoiled' => Unspoiled'
    BY <1>0, <1>1, <2>2, <2>4, ChainApart
  <2>. QED BY <2>4, <2>5, <2>6 DEF ConnInv
<1>4. CASE k \in DOMAIN tokens
  <2>1. PICK t \in Token : t = tokens[k]
    BY <1>0, <1>4 DEF ConnSound
  <2>2. PICK r \in [pc : {"refresh", "send"}, conn : Conns, age : Ages, token : Token] :
          /\ r = [pc |-> "refresh", conn |-> k, age |-> a, token |-> t]
          /\ Go(c, r)
    BY <1>2, <1>4, <2>1 DEF Reread
  <2>3. r.pc = "refresh" /\ r.conn = k /\ r.age = a /\ r.token = t /\ CallSound(r)
    BY <2>2 DEF CallSound
  <2>4. Lasts(r, connClock)
    BY <2>3 DEF Lasts
  <2>5. /\ DOMAIN call' = Callers /\ \A o \in Callers : CallSound(call'[o])
        /\ CallsLast'
        /\ call'[c] = r /\ \A o \in Callers \ {c} : call'[o] = call[o]
    BY <1>0, <1>1, <2>2, <2>3, <2>4, OneGoes
  <2>6. ConnSound'
    BY <1>0, <1>1, <2>5 DEF ConnSound, CallSound
  <2>7. ASSUME ~spoiled PROVE Unspoiled'
    <3>0. Unspoiled
      BY <2>7, <1>0
    <3>1. r.pc # "store"
      BY <2>2
    <3>2. \A o \in Callers : (call'[o].pc = "store" <=> call[o].pc = "store") /\ (call[o].pc = "store" => call'[o] = call[o])
      BY <2>5, <3>1, <1>1
    <3>3. \A x \in DOMAIN tokens' : tokens'[x].refresh = provider'[x] \/ \E o \in Callers : Storing(o, x)'
      BY <3>0, <3>2, <1>1 DEF Unspoiled, Storing
    <3>4. ASSUME NEW x \in Conns, NEW o \in Callers, Storing(o, x)'
          PROVE  /\ call'[o].token.refresh = provider'[x]
                 /\ x \in rotating' => SoleHolder(o, x)'
      <4>1. Storing(o, x) /\ call'[o] = call[o]
        BY <3>2, <3>4 DEF Storing
      <4>2. call'[o].token.refresh = provider'[x] /\ (x \in rotating => SoleHolder(o, x))
        BY <4>1, <3>0, <1>1 DEF Unspoiled
      <4>3. ASSUME x \in rotating PROVE SoleHolder(o, x)'
        <5>0. SoleHolder(o, x)
          BY <4>2, <4>3
        <5>1. \A p \in Callers : Storing(p, x)' => p = o
          BY <5>0, <3>2 DEF SoleHolder, Storing
        <5>2. ASSUME NEW p \in Callers, call'[p].pc = "refresh", call'[p].conn = x PROVE call'[p].token.refresh # provider'[x]
          <6>1. CASE p = c
            BY <6>1, <5>0, <5>2, <2>1, <2>3, <2>5, <1>1, <1>4 DEF SoleHolder
          <6>2. CASE p # c
            BY <6>2, <5>0, <5>2, <2>5, <1>1 DEF SoleHolder
          <6>. QED BY <6>1, <6>2
        <5>. QED BY <5>0, <5>1, <5>2, <1>1 DEF SoleHolder
      <4>. QED BY <4>2, <4>3
    <3>5. /\ \A x \in Conns : provider'[x] <= grants'
          /\ \A x \in DOMAIN tokens' : tokens'[x].refresh <= grants'
      BY <3>0, <1>1 DEF Unspoiled
    <3>6. \A o \in Callers : call'[o].pc = "refresh" => call'[o].token.refresh <= grants'
      BY <3>0, <1>1, <1>4, <2>1, <2>3, <2>5 DEF Unspoiled
    <3>. QED BY <3>3, <3>4, <3>5, <3>6 DEF Unspoiled
  <2>. QED BY <1>1, <2>5, <2>6, <2>7 DEF ConnInv
<1>. QED BY <1>3, <1>4

\* The provider hands c the successor of connector k's refresh token, while nobody else
\* stores one of k, and those who would refresh hold older ones.
LEMMA Handed ==
  ASSUME ConnSound, Unspoiled, NEW c \in Callers, NEW k \in Conns,
         call'[c].pc = "store", call'[c].conn = k, call'[c].token.refresh = grants + 1,
         \A o \in Callers \ {c} : call'[o] = call[o],
         call[c].pc # "store", \A o \in Callers : ~Storing(o, k),
         provider' = [provider EXCEPT ![k] = grants + 1], grants' = grants + 1, UNCHANGED <<tokens, rotating>>
  PROVE  Unspoiled'
<1>0. grants \in Nat /\ DOMAIN provider = Conns /\ DOMAIN tokens \subseteq Conns /\ provider \in [Conns -> Nat]
  BY DEF ConnSound
<1>1. provider'[k] = grants + 1 /\ \A x \in Conns \ {k} : provider'[x] = provider[x]
  BY <1>0
<1>2. \A x \in DOMAIN tokens : tokens[x].refresh \in Nat /\ tokens[x].refresh <= grants
  BY DEF ConnSound, Token, Unspoiled
<1>3. \A o \in Callers : call[o].pc = "refresh" => call[o].token.refresh \in Nat /\ call[o].token.refresh <= grants
  BY DEF ConnSound, CallSound, Token, Unspoiled
<1>4. \A o \in Callers : call'[o].pc = "refresh" => o # c /\ call'[o] = call[o]
  OBVIOUS
<1>5. \A x \in Conns : provider'[x] <= grants'
  BY <1>0, <1>1 DEF Unspoiled
<1>6. \A x \in DOMAIN tokens' : tokens'[x].refresh <= grants'
  BY <1>0, <1>2
<1>7. \A o \in Callers : call'[o].pc = "refresh" => call'[o].token.refresh <= grants'
  BY <1>0, <1>3, <1>4
<1>8. \A x \in DOMAIN tokens' : tokens'[x].refresh = provider'[x] \/ \E o \in Callers : Storing(o, x)'
  BY <1>0, <1>1 DEF Unspoiled, Storing
<1>9. ASSUME NEW x \in Conns, NEW o \in Callers, Storing(o, x)'
      PROVE  /\ call'[o].token.refresh = provider'[x]
             /\ x \in rotating' => SoleHolder(o, x)'
  <2>1. CASE x = k
    <3>1. \A p \in Callers : Storing(p, x)' => p = c
      BY <2>1 DEF Storing
    <3>2. o = c
      BY <3>1, <1>9
    <3>3. x \in DOMAIN tokens' => tokens'[x].refresh # provider'[x]
      BY <2>1, <1>0, <1>1, <1>2
    <3>4. \A p \in Callers : call'[p].pc = "refresh" => call'[p].token.refresh # provider'[x]
      BY <2>1, <1>0, <1>1, <1>3, <1>4
    <3>. QED BY <3>1, <3>2, <3>3, <3>4, <2>1, <1>1 DEF SoleHolder
  <2>2. CASE x # k
    <3>1. o # c /\ call'[o] = call[o] /\ Storing(o, x)
      BY <2>2, <1>9 DEF Storing
    <3>2. \A p \in Callers : Storing(p, x)' => Storing(p, x)
      BY <2>2 DEF Storing
    <3>3. provider'[x] = provider[x]
      BY <2>2, <1>1
    <3>4. call[o].token.refresh = provider[x] /\ (x \in rotating => SoleHolder(o, x))
      BY <3>1 DEF Unspoiled
    <3>5. SoleHolder(o, x) => SoleHolder(o, x)'
      BY <3>2, <3>3, <1>4 DEF SoleHolder
    <3>. QED BY <3>1, <3>3, <3>4, <3>5
  <2>. QED BY <2>1, <2>2
<1>. QED BY <1>5, <1>6, <1>7, <1>8, <1>9 DEF Unspoiled

\* The provider leaves connector k's refresh token as it is: whoever stores one of k has it.
LEMMA Renewed ==
  ASSUME ConnSound, Unspoiled, NEW c \in Callers, NEW k \in Conns, k \notin rotating,
         call'[c].pc = "store", call'[c].conn = k, call'[c].token.refresh = provider[k],
         \A o \in Callers \ {c} : call'[o] = call[o],
         call[c].pc = "refresh", grants' = grants + 1, UNCHANGED <<tokens, provider, rotating>>
  PROVE  Unspoiled'
<1>0. grants \in Nat /\ provider \in [Conns -> Nat]
  BY DEF ConnSound
<1>1. \A x \in DOMAIN tokens : tokens[x].refresh \in Nat /\ tokens[x].refresh <= grants
  BY DEF ConnSound, Token, Unspoiled
<1>2. \A o \in Callers : call[o].pc = "refresh" => call[o].token.refresh \in Nat /\ call[o].token.refresh <= grants
  BY DEF ConnSound, CallSound, Token, Unspoiled
<1>3. \A o \in Callers : call'[o].pc = "refresh" => o # c /\ call'[o] = call[o]
  OBVIOUS
<1>4. /\ \A x \in Conns : provider'[x] <= grants'
      /\ \A x \in DOMAIN tokens' : tokens'[x].refresh <= grants'
      /\ \A o \in Callers : call'[o].pc = "refresh" => call'[o].token.refresh <= grants'
  BY <1>0, <1>1, <1>2, <1>3 DEF Unspoiled
<1>5. \A x \in DOMAIN tokens' : tokens'[x].refresh = provider'[x] \/ \E o \in Callers : Storing(o, x)'
  BY DEF Unspoiled, Storing
<1>6. ASSUME NEW x \in Conns, NEW o \in Callers, Storing(o, x)'
      PROVE  /\ call'[o].token.refresh = provider'[x]
             /\ x \in rotating' => SoleHolder(o, x)'
  <2>1. CASE o = c
    BY <2>1, <1>6 DEF Storing
  <2>2. CASE o # c
    <3>1. call'[o] = call[o] /\ Storing(o, x)
      BY <2>2, <1>6 DEF Storing
    <3>2. call[o].token.refresh = provider[x] /\ (x \in rotating => SoleHolder(o, x))
      BY <3>1 DEF Unspoiled
    <3>3. ASSUME x \in rotating, SoleHolder(o, x) PROVE SoleHolder(o, x)'
      <4>1. \A p \in Callers : Storing(p, x)' => Storing(p, x)
        BY <3>3 DEF Storing
      <4>. QED BY <4>1, <3>3, <1>3 DEF SoleHolder
    <3>. QED BY <3>1, <3>2, <3>3
  <2>. QED BY <2>1, <2>2
<1>. QED BY <1>4, <1>5, <1>6 DEF Unspoiled

\* A token the provider issues now.
LEMMA IssuedLasts ==
  ASSUME ConnSound PROVE Issued \in Token /\ Issued.refresh = grants + 1 /\ \A a \in Ages : Issued.expires > connClock + CallTime - a
<1>1. grants \in Nat /\ connClock \in Nat /\ Lifetime \in Nat /\ CallTime \in Nat /\ Lifetime > CallTime
  BY ConnectorsAssumption DEF ConnSound
<1>2. Issued.refresh = grants + 1 /\ Issued.expires = connClock + Lifetime
  BY DEF Issued
<1>3. Issued \in Token
  BY <1>1 DEF Issued, Token
<1>. QED BY <1>1, <1>2, <1>3 DEF Ages

LEMMA RefreshedLasts ==
  ASSUME ConnSound, NEW c \in Callers, call[c].token \in Token
  PROVE  /\ Refreshed(c) \in Token /\ \A a \in Ages : Refreshed(c).expires > connClock + CallTime - a
         /\ Refreshed(c).refresh = IF call[c].conn \in rotating THEN grants + 1 ELSE call[c].token.refresh
<1>1. Issued \in Token /\ Issued.refresh = grants + 1 /\ \A a \in Ages : Issued.expires > connClock + CallTime - a
  BY IssuedLasts
<1>2. CASE call[c].conn \in rotating
  BY <1>1, <1>2 DEF Refreshed
<1>3. CASE call[c].conn \notin rotating
  <2>1. Refreshed(c) = [Issued EXCEPT !.refresh = call[c].token.refresh]
    BY <1>3 DEF Refreshed
  <2>2. call[c].token.refresh \in Nat
    BY DEF Token
  <2>3. Refreshed(c) \in Token /\ Refreshed(c).refresh = call[c].token.refresh /\ Refreshed(c).expires = Issued.expires
    BY <1>1, <2>1, <2>2 DEF Token
  <2>. QED BY <1>1, <1>3, <2>3
<1>. QED BY <1>2, <1>3

LEMMA RefreshKeeps == ASSUME ConnInv, NEW c \in Callers, Refresh(c), UNCHANGED rotating PROVE ConnInv'
<1>0. ConnSound /\ CallsLast /\ (~spoiled => Unspoiled) /\ CallSound(call[c])
  BY DEF ConnInv, ConnSound
<1>1. UNCHANGED <<connClock, tokens, tokenFile, spoiled>> /\ call[c].pc = "refresh"
  BY DEF Refresh
<1>2. call[c] \in [pc : {"refresh", "send"}, conn : Conns, age : Ages, token : Token]
  BY <1>0, <1>1 DEF CallSound
<1>3. CASE call[c].token.refresh # provider[call[c].conn]
  <2>1. PICK r : r = [pc |-> "error"] /\ Go(c, r)
    BY <1>3 DEF Refresh, Fail
  <2>2. r.pc = "error" /\ CallSound(r) /\ Lasts(r, connClock) /\ UNCHANGED <<provider, grants>>
    BY <2>1, <1>3 DEF CallSound, Lasts, Refresh
  <2>4. /\ DOMAIN call' = Callers /\ \A o \in Callers : CallSound(call'[o])
        /\ CallsLast'
        /\ call'[c] = r /\ \A o \in Callers \ {c} : call'[o] = call[o]
    BY <1>0, <1>1, <2>1, <2>2, OneGoes
  <2>5. ConnSound'
    BY <1>0, <1>1, <2>2, <2>4 DEF ConnSound, CallSound
  <2>6. ~spoiled' => Unspoiled'
    BY <1>0, <1>1, <2>2, <2>4, ChainApart
  <2>. QED BY <2>4, <2>5, <2>6 DEF ConnInv
<1>4. CASE call[c].token.refresh = provider[call[c].conn]
  <2>1. PICK k \in Conns, a \in Ages : call[c].conn = k /\ call[c].age = a
    BY <1>2
  <2>0. call[c].token \in Token
    BY <1>2
  <2>2. PICK r \in [pc : {"store"}, conn : Conns, age : Ages \cup {-1}, token : Token] :
          r = [call[c] EXCEPT !.pc = "store", !.token = Refreshed(c)]
    <3>1. Refreshed(c) \in Token
      BY <1>0, <2>0, RefreshedLasts
    <3>. QED BY <3>1, <1>2
  <2>8. r.pc = "store" /\ r.conn = k /\ r.age = a /\ r.token = Refreshed(c)
    BY <1>2, <2>1, <2>2
  <2>3. Go(c, r) /\ Rotated(k) /\ grants' = grants + 1
    BY <1>4, <2>1, <2>2 DEF Refresh
  <2>4. CallSound(r) /\ Lasts(r, connClock)
    BY <1>0, <2>0, <2>2, <2>8, RefreshedLasts DEF CallSound, Lasts
  <2>5. /\ DOMAIN call' = Callers /\ \A o \in Callers : CallSound(call'[o])
        /\ CallsLast'
        /\ call'[c] = r /\ \A o \in Callers \ {c} : call'[o] = call[o]
    BY <1>0, <1>1, <2>3, <2>4, OneGoes
  <2>6. ConnSound'
    BY <1>0, <1>1, <2>3, <2>5 DEF ConnSound, CallSound, Rotated
  <2>7. ASSUME ~spoiled PROVE Unspoiled'
    <3>1. Unspoiled
      BY <2>7, <1>0
    <3>2. CASE k \in rotating
      <4>1. provider' = [provider EXCEPT ![k] = grants + 1]
        BY <2>3, <3>2 DEF Rotated
      <4>2. \A o \in Callers : ~Storing(o, k)
        BY <3>1, <3>2, <1>1, <1>4, <2>1 DEF Unspoiled, SoleHolder
      <4>3. call'[c].pc = "store" /\ call'[c].conn = k /\ call'[c].token.refresh = grants + 1
        BY <1>0, <2>0, <2>1, <2>8, <2>5, <3>2, RefreshedLasts
      <4>. QED BY <3>1, <4>1, <4>2, <4>3, <1>0, <1>1, <2>3, <2>5, Handed
    <3>3. CASE k \notin rotating
      <4>1. provider' = provider
        BY <2>3, <3>3 DEF Rotated
      <4>2. call'[c].pc = "store" /\ call'[c].conn = k /\ call'[c].token.refresh = provider[k]
        BY <1>0, <1>4, <2>0, <2>1, <2>8, <2>5, <3>3, RefreshedLasts
      <4>. QED BY <3>1, <3>3, <4>1, <4>2, <1>0, <1>1, <2>3, <2>5, Renewed
    <3>. QED BY <3>2, <3>3
  <2>. QED BY <1>1, <2>5, <2>6, <2>7 DEF ConnInv
<1>. QED BY <1>3, <1>4

LEMMA RefreshLostKeeps == ASSUME ConnInv, NEW c \in Callers, RefreshLost(c), UNCHANGED rotating PROVE ConnInv'
<1>0. ConnSound /\ CallsLast /\ CallSound(call[c])
  BY DEF ConnInv, ConnSound
<1>1. UNCHANGED <<connClock, tokens, tokenFile>> /\ spoiled' = TRUE /\ call[c].pc = "refresh" /\ grants' = grants + 1
  BY DEF RefreshLost
<1>2. PICK k \in Conns : call[c].conn = k
  BY <1>0, <1>1 DEF CallSound
<1>3. provider' = [provider EXCEPT ![k] = grants + 1] \/ provider' = provider
  BY <1>2 DEF RefreshLost, Rotated
<1>4. PICK r : r = [pc |-> "error"] /\ Go(c, r)
  BY DEF RefreshLost, Fail
<1>5. CallSound(r) /\ Lasts(r, connClock)
  BY <1>4 DEF CallSound, Lasts
<1>6. /\ DOMAIN call' = Callers /\ \A o \in Callers : CallSound(call'[o])
      /\ CallsLast'
  BY <1>0, <1>1, <1>4, <1>5, OneGoes
<1>7. ConnSound'
  BY <1>0, <1>1, <1>3, <1>6 DEF ConnSound, CallSound
<1>. QED BY <1>1, <1>6, <1>7 DEF ConnInv

LEMMA ExchangeKeeps == ASSUME ConnInv, NEW c \in Callers, NEW k \in Conns, Exchange(c, k), UNCHANGED rotating PROVE ConnInv'
<1>0. ConnSound /\ CallsLast /\ (~spoiled => Unspoiled) /\ spoiled \in BOOLEAN
  BY DEF ConnInv, ConnSound
<1>1. /\ UNCHANGED <<connClock, tokens, tokenFile>> /\ call[c].pc \in {"idle", "done", "error"}
      /\ provider' = [provider EXCEPT ![k] = grants + 1] /\ grants' = grants + 1
  BY DEF Exchange, Busy
<1>2. PICK r \in [pc : {"store"}, conn : Conns, age : Ages \cup {-1}, token : Token] :
        r = [pc |-> "store", conn |-> k, age |-> -1, token |-> Issued]
  <2>1. Issued \in Token
    BY <1>0, IssuedLasts
  <2>. QED BY <2>1
<1>8. r.pc = "store" /\ r.conn = k /\ r.age = -1 /\ r.token = Issued
  BY <1>2
<1>3. Go(c, r) /\ CallSound(r) /\ Lasts(r, connClock)
  BY <1>2, <1>8 DEF Exchange, CallSound, Lasts
<1>4. /\ DOMAIN call' = Callers /\ \A o \in Callers : CallSound(call'[o])
      /\ CallsLast'
      /\ call'[c] = r /\ \A o \in Callers \ {c} : call'[o] = call[o]
  BY <1>0, <1>1, <1>3, OneGoes
<1>5. spoiled' \in BOOLEAN /\ (~spoiled' => ~spoiled /\ \A o \in Callers : ~(call[o].pc \in {"refresh", "store"} /\ call[o].conn = k))
  BY <1>0 DEF Exchange
<1>6. ConnSound'
  BY <1>0, <1>1, <1>4, <1>5 DEF ConnSound, CallSound
<1>7. ASSUME ~spoiled' PROVE Unspoiled'
  <2>1. Unspoiled /\ call[c].pc # "store"
    BY <1>7, <1>0, <1>1, <1>5
  <2>2. \A o \in Callers : ~Storing(o, k)
    BY <1>5, <1>7 DEF Storing
  <2>3. call'[c].pc = "store" /\ call'[c].conn = k /\ call'[c].token.refresh = grants + 1
    BY <1>0, <1>8, <1>4, IssuedLasts
  <2>. QED BY <2>1, <2>2, <2>3, <1>0, <1>1, <1>4, Handed
<1>. QED BY <1>4, <1>6, <1>7 DEF ConnInv

LEMMA StoreKeeps == ASSUME ConnInv, NEW c \in Callers, StoreRefreshed(c), UNCHANGED rotating PROVE ConnInv'
<1>0. ConnSound /\ CallsLast /\ (~spoiled => Unspoiled) /\ CallSound(call[c]) /\ spoiled \in BOOLEAN
  BY DEF ConnInv, ConnSound
<1>1. UNCHANGED <<connClock, tokenFile, provider, grants>> /\ call[c].pc = "store"
  BY DEF StoreRefreshed
<1>2. call[c] \in [pc : {"store"}, conn : Conns, age : Ages \cup {-1}, token : Token]
  BY <1>0, <1>1 DEF CallSound
<1>3. PICK k \in Conns, t \in Token : call[c].conn = k /\ call[c].token = t
  BY <1>2
<1>4. PICK keep \in SUBSET DOMAIN tokens : tokens' = [x \in keep \cup {k} |-> IF x = k THEN t ELSE tokens[x]]
  BY <1>3 DEF StoreRefreshed, Stored
<1>5. /\ DOMAIN tokens' = keep \cup {k} /\ tokens'[k] = t
      /\ \A x \in keep \ {k} : tokens'[x] = tokens[x]
  BY <1>4
<1>6. DOMAIN tokens' \subseteq Conns /\ \A x \in DOMAIN tokens' : tokens'[x] \in Token
  BY <1>0, <1>5 DEF ConnSound
<1>7. PICK r : Go(c, r) /\ CallSound(r) /\ Lasts(r, connClock) /\ r.pc \in {"done", "send"}
  <2>1. CASE call[c].age = -1
    <3>1. PICK r \in [pc : {"done"}, conn : Conns, age : Ages \cup {-1}, token : Token] : r = [call[c] EXCEPT !.pc = "done"]
      BY <1>2
    <3>2. Go(c, r) /\ r.pc = "done"
      BY <2>1, <3>1 DEF StoreRefreshed
    <3>. QED BY <3>2 DEF CallSound, Lasts
  <2>2. CASE call[c].age # -1
    <3>1. PICK r \in [pc : {"refresh", "send"}, conn : Conns, age : Ages, token : Token] :
            r = [call[c] EXCEPT !.pc = "send"]
      BY <1>2, <2>2
    <3>4. r.pc = "send" /\ r.age = call[c].age /\ r.token = call[c].token
      BY <3>1, <1>2
    <3>2. Go(c, r)
      BY <2>2, <3>1 DEF StoreRefreshed
    <3>3. Lasts(r, connClock)
      BY <3>4, <2>2, <1>0, <1>1 DEF Lasts, CallsLast
    <3>. QED BY <3>1, <3>2, <3>3, <3>4 DEF CallSound
  <2>. QED BY <2>1, <2>2
<1>8. /\ DOMAIN call' = Callers /\ \A o \in Callers : CallSound(call'[o])
      /\ CallsLast'
      /\ call'[c] = r /\ \A o \in Callers \ {c} : call'[o] = call[o]
  BY <1>0, <1>1, <1>7, OneGoes
<1>9. spoiled' \in BOOLEAN /\ (~spoiled' => ~spoiled /\ DOMAIN tokens \subseteq DOMAIN tokens')
  BY <1>0 DEF StoreRefreshed
<1>10. ConnSound'
  BY <1>0, <1>1, <1>6, <1>8, <1>9 DEF ConnSound, CallSound
<1>11. ASSUME ~spoiled' PROVE Unspoiled'
  <2>1. Unspoiled /\ DOMAIN tokens' = DOMAIN tokens \cup {k} /\ \A x \in DOMAIN tokens \ {k} : tokens'[x] = tokens[x]
    BY <1>11, <1>0, <1>5, <1>9
  <2>2. Storing(c, k)
    BY <1>1, <1>3 DEF Storing
  <2>3. t.refresh = provider[k] /\ (k \in rotating => \A o \in Callers \ {c} : ~Storing(o, k))
    BY <2>1, <2>2, <1>3 DEF Unspoiled, SoleHolder
  <2>4. \A o \in Callers : call'[o].pc \in {"store", "refresh"} => o # c /\ call'[o] = call[o]
    BY <1>7, <1>8
  <2>5. \A x \in Conns : provider'[x] <= grants'
    BY <2>1, <1>1 DEF Unspoiled
  <2>6. \A x \in DOMAIN tokens' : tokens'[x].refresh <= grants'
    BY <2>1, <2>3, <2>5, <1>1, <1>5 DEF Unspoiled
  <2>7. \A o \in Callers : call'[o].pc = "refresh" => call'[o].token.refresh <= grants'
    BY <2>1, <2>4, <1>1 DEF Unspoiled
  <2>8. ASSUME NEW x \in DOMAIN tokens' PROVE tokens'[x].refresh = provider'[x] \/ \E o \in Callers : Storing(o, x)'
    <3>1. CASE x = k
      BY <3>1, <2>3, <1>1, <1>5
    <3>2. CASE x # k
      <4>1. x \in DOMAIN tokens /\ tokens'[x] = tokens[x] /\ provider'[x] = provider[x]
        BY <3>2, <2>1, <2>8, <1>1
      <4>2. tokens[x].refresh = provider[x] \/ \E o \in Callers : Storing(o, x)
        BY <4>1, <2>1 DEF Unspoiled
      <4>3. \A o \in Callers : Storing(o, x) => Storing(o, x)'
        BY <3>2, <1>3, <1>8 DEF Storing
      <4>. QED BY <4>1, <4>2, <4>3
    <3>. QED BY <3>1, <3>2
  <2>9. ASSUME NEW x \in Conns, NEW o \in Callers, Storing(o, x)'
        PROVE  /\ call'[o].token.refresh = provider'[x]
               /\ x \in rotating' => SoleHolder(o, x)'
    <3>1. o # c /\ call'[o] = call[o] /\ Storing(o, x)
      BY <2>4, <2>9 DEF Storing
    <3>2. call'[o].token.refresh = provider'[x] /\ (x \in rotating => SoleHolder(o, x))
      BY <3>1, <2>1, <1>1 DEF Unspoiled
    <3>3. ASSUME x \in rotating, SoleHolder(o, x) PROVE SoleHolder(o, x)'
      <4>1. x # k
        BY <3>1, <3>3, <2>3
      <4>2. provider'[x] = provider[x] /\ (x \in DOMAIN tokens' => x \in DOMAIN tokens /\ tokens'[x] = tokens[x])
        BY <4>1, <2>1, <1>1
      <4>3. \A p \in Callers : Storing(p, x)' => Storing(p, x)
        BY <2>4 DEF Storing
      <4>. QED BY <4>2, <4>3, <3>3, <2>4 DEF SoleHolder
    <3>. QED BY <3>2, <3>3
  <2>. QED BY <2>5, <2>6, <2>7, <2>8, <2>9 DEF Unspoiled
<1>. QED BY <1>8, <1>10, <1>11 DEF ConnInv

LEMMA RestartKeeps == ASSUME ConnInv, Restart, UNCHANGED rotating PROVE ConnInv'
<1>0. ConnSound
  BY DEF ConnInv
<1>1. UNCHANGED <<connClock, tokenFile, provider, grants>> /\ spoiled' = TRUE
  BY DEF Restart
<1>2. PICK some \in SUBSET Conns : tokens' = [k \in some |-> tokenFile[k]]
  BY DEF Restart
<1>3. DOMAIN tokens' = some /\ \A k \in some : tokens'[k] \in Token
  BY <1>0, <1>2 DEF ConnSound
<1>4. call' = [c \in Callers |-> IF Busy(c) THEN [pc |-> "error"] ELSE call[c]]
  BY DEF Restart
<1>5. \A c \in Callers : call'[c].pc \in {"idle", "done", "error"}
  BY <1>4 DEF Busy
<1>6. ConnSound'
  BY <1>0, <1>1, <1>3, <1>4, <1>5 DEF ConnSound, CallSound
<1>7. CallsLast'
  BY <1>5 DEF CallsLast, Lasts
<1>. QED BY <1>1, <1>6, <1>7 DEF ConnInv

LEMMA TickKeeps == ASSUME ConnInv, ConnTick, UNCHANGED rotating PROVE ConnInv'
<1>0. ConnSound /\ CallsLast /\ (~spoiled => Unspoiled) /\ connClock \in Nat /\ CallTime \in Nat
  BY ConnectorsAssumption DEF ConnInv, ConnSound
<1>1. UNCHANGED <<tokens, tokenFile, provider, grants, spoiled>> /\ connClock' = connClock + 1
  BY DEF ConnTick
<1>2. /\ call' = [c \in Callers |-> IF Busy(c) /\ call[c].age # -1 THEN [call[c] EXCEPT !.age = @ + 1] ELSE call[c]]
      /\ \A c \in Callers : Busy(c) /\ call[c].age # -1 => call[c].age < CallTime
  BY DEF ConnTick
<1>3. ASSUME NEW c \in Callers
      PROVE  /\ CallSound(call'[c]) /\ Lasts(call'[c], connClock + 1)
             /\ call'[c].pc = call[c].pc
             /\ call[c].pc \in {"refresh", "store"} => call'[c].conn = call[c].conn /\ call'[c].token = call[c].token
  <2>0. CallSound(call[c]) /\ Lasts(call[c], connClock)
    BY <1>0 DEF ConnSound, CallsLast
  <2>1. CASE ~(Busy(c) /\ call[c].age # -1)
    <3>1. call'[c] = call[c] /\ (~Busy(c) \/ call[c].age = -1)
      BY <2>1, <1>2
    <3>2. ~Busy(c) \/ call[c].pc = "store"
      <4>1. -1 \notin Ages
        BY <1>0 DEF Ages
      <4>2. call[c] \in [pc : {"token", "reread"}, conn : Conns, age : Ages] => call[c].age \in Ages
        OBVIOUS
      <4>3. call[c] \in [pc : {"refresh", "send"}, conn : Conns, age : Ages, token : Token] => call[c].age \in Ages
        OBVIOUS
      <4>4. call[c] \in [pc : {"store"}, conn : Conns, age : Ages \cup {-1}, token : Token] => call[c].pc = "store"
        OBVIOUS
      <4>. QED BY <4>1, <4>2, <4>3, <4>4, <3>1, <2>0 DEF CallSound, Busy
    <3>. QED BY <3>1, <3>2, <2>0 DEF Busy, Lasts
  <2>2. CASE Busy(c) /\ call[c].age # -1
    <3>0. call'[c] = [call[c] EXCEPT !.age = @ + 1] /\ call[c].age < CallTime
      BY <2>2, <1>2
    <3>1. CASE call[c] \in [pc : {"token", "reread"}, conn : Conns, age : Ages]
      <4>1. call[c].age + 1 \in Ages
        BY <3>0, <3>1, <1>0 DEF Ages
      <4>2. call'[c] \in [pc : {"token", "reread"}, conn : Conns, age : Ages]
        BY <3>0, <3>1, <4>1
      <4>3. call'[c].pc = call[c].pc /\ call[c].pc \in {"token", "reread"}
        BY <3>0, <3>1
      <4>. QED BY <4>2, <4>3 DEF CallSound, Lasts
    <3>2. CASE call[c] \in [pc : {"refresh", "send"}, conn : Conns, age : Ages, token : Token]
      <4>1. call[c].age + 1 \in Ages /\ call[c].age \in Nat /\ call[c].token.expires \in Nat
        BY <3>0, <3>2, <1>0 DEF Ages, Token
      <4>2. call'[c] \in [pc : {"refresh", "send"}, conn : Conns, age : Ages, token : Token]
        BY <3>0, <3>2, <4>1
      <4>3. call'[c].pc = call[c].pc /\ call'[c].conn = call[c].conn /\ call'[c].age = call[c].age + 1 /\ call'[c].token = call[c].token
        BY <3>0, <3>2
      <4>4. Lasts(call'[c], connClock + 1)
        BY <4>1, <4>3, <3>2, <2>0, <1>0 DEF Lasts
      <4>. QED BY <4>2, <4>3, <4>4 DEF CallSound
    <3>3. CASE call[c] \in [pc : {"store"}, conn : Conns, age : Ages \cup {-1}, token : Token]
      <4>1. call[c].age + 1 \in Ages /\ call[c].age \in Nat /\ call[c].token.expires \in Nat
        BY <3>0, <3>3, <2>2, <1>0 DEF Ages, Token
      <4>2. call'[c] \in [pc : {"store"}, conn : Conns, age : Ages \cup {-1}, token : Token]
        BY <3>0, <3>3, <4>1
      <4>3. call'[c].pc = call[c].pc /\ call'[c].conn = call[c].conn /\ call'[c].age = call[c].age + 1 /\ call'[c].token = call[c].token
        BY <3>0, <3>3
      <4>4. Lasts(call'[c], connClock + 1)
        BY <4>1, <4>3, <3>3, <2>0, <2>2, <1>0 DEF Lasts
      <4>. QED BY <4>2, <4>3, <4>4 DEF CallSound
    <3>. QED BY <3>1, <3>2, <3>3, <2>0, <2>2 DEF CallSound, Busy
  <2>. QED BY <2>1, <2>2
<1>4. ConnSound'
  BY <1>0, <1>1, <1>2, <1>3 DEF ConnSound, CallSound
<1>5. CallsLast'
  BY <1>1, <1>3 DEF CallsLast, Lasts
<1>6. ASSUME ~spoiled' PROVE Unspoiled'
  <2>1. Unspoiled
    BY <1>0, <1>1, <1>6
  <2>2. \A o \in Callers, k \in Conns : Storing(o, k)' <=> Storing(o, k)
    BY <1>3 DEF Storing
  <2>3. \A k \in DOMAIN tokens' : tokens'[k].refresh = provider'[k] \/ \E o \in Callers : Storing(o, k)'
    BY <2>1, <1>1, <1>3 DEF Unspoiled, Storing
  <2>4. ASSUME NEW k \in Conns, NEW o \in Callers, Storing(o, k)'
        PROVE  /\ call'[o].token.refresh = provider'[k]
               /\ k \in rotating' => SoleHolder(o, k)'
    <3>1. Storing(o, k) /\ call'[o].token.refresh = call[o].token.refresh
      BY <2>2, <2>4, <1>3 DEF Storing
    <3>2. call[o].token.refresh = provider[k] /\ (k \in rotating => SoleHolder(o, k))
      BY <3>1, <2>1 DEF Unspoiled
    <3>3. SoleHolder(o, k) => SoleHolder(o, k)'
      BY <2>2, <1>1, <1>3 DEF SoleHolder
    <3>. QED BY <3>1, <3>2, <3>3, <1>1
  <2>5. /\ \A k \in Conns : provider'[k] <= grants'
        /\ \A k \in DOMAIN tokens' : tokens'[k].refresh <= grants'
        /\ \A o \in Callers : call'[o].pc = "refresh" => call'[o].token.refresh <= grants'
    BY <2>1, <1>1, <1>3 DEF Unspoiled
  <2>. QED BY <2>3, <2>4, <2>5 DEF Unspoiled
<1>. QED BY <1>4, <1>5, <1>6 DEF ConnInv

LEMMA ConnStep == ConnInv /\ [ConnNext]_connVars => ConnInv'
<1> SUFFICES ASSUME ConnInv, [ConnNext]_connVars PROVE ConnInv'
  OBVIOUS
<1>0. UNCHANGED rotating
  BY DEF ConnNext, connVars
<1>1. ASSUME NEW c \in Callers, NEW k \in Conns, StartCall(c, k) \/ Exchange(c, k) PROVE ConnInv'
  BY <1>0, <1>1, QuietCallKeeps, ExchangeKeeps
<1>2. ASSUME NEW c \in Callers, RefuseCall(c) \/ SendRequest(c) PROVE ConnInv'
  <2>1. CallSound(call[c]) /\ call[c].pc \in {"token", "send"}
    BY <1>2 DEF ConnInv, ConnSound, RefuseCall, SendRequest
  <2>2. PICK k \in Conns : call[c].conn = k
    BY <2>1 DEF CallSound
  <2>. QED BY <1>0, <1>2, <2>2, QuietCallKeeps
<1>3. ASSUME NEW c \in Callers, GetValidToken(c) \/ Reread(c) \/ Refresh(c) \/ RefreshLost(c) \/ StoreRefreshed(c) PROVE ConnInv'
  BY <1>0, <1>3, GetValidKeeps, RereadKeeps, RefreshKeeps, RefreshLostKeeps, StoreKeeps
<1>4. ASSUME NEW k \in Conns, SaveToken(k) PROVE ConnInv'
  <2>1. UNCHANGED <<connClock, tokens, provider, grants, call, spoiled>> /\ tokenFile' = [tokenFile EXCEPT ![k] = tokens[k]] /\ k \in DOMAIN tokens
    BY <1>4 DEF SaveToken
  <2>2. ConnSound'
    BY <2>1 DEF ConnInv, ConnSound, CallSound
  <2>3. CallsLast' /\ (~spoiled' => Unspoiled')
    BY <1>0, <2>1 DEF ConnInv, CallsLast, Lasts, Unspoiled, SoleHolder, Storing
  <2>. QED BY <2>2, <2>3 DEF ConnInv
<1>5. CASE Restart \/ ConnTick
  BY <1>0, <1>5, RestartKeeps, TickKeeps
<1>6. CASE UNCHANGED connVars
  BY <1>6 DEF connVars, ConnInv, ConnSound, CallSound, CallsLast, Lasts, Unspoiled, SoleHolder, Storing
<1>. QED BY <1>1, <1>2, <1>3, <1>4, <1>5, <1>6 DEF ConnNext, ConnMoves

LEMMA ConnHonest == ConnInv => SentFresh /\ RefreshChain
<1> SUFFICES ASSUME ConnInv PROVE SentFresh /\ RefreshChain
  OBVIOUS
<1>1. ASSUME NEW c \in Callers, call[c].pc = "send" PROVE call[c].token.expires > connClock
  <2>1. call[c] \in [pc : {"refresh", "send"}, conn : Conns, age : Ages, token : Token]
    BY <1>1 DEF ConnInv, ConnSound, CallSound
  <2>2. call[c].age \in Nat /\ call[c].age <= CallTime /\ call[c].token.expires \in Nat /\ CallTime \in Nat /\ connClock \in Nat
    BY <2>1, ConnectorsAssumption DEF Ages, Token, ConnInv, ConnSound
  <2>3. call[c].token.expires > connClock + CallTime - call[c].age
    BY <1>1 DEF ConnInv, CallsLast, Lasts
  <2>. QED BY <2>2, <2>3
<1>2. ASSUME ~spoiled, \A c \in Callers : ~Busy(c), NEW k \in DOMAIN tokens PROVE tokens[k].refresh = provider[k]
  BY <1>2 DEF ConnInv, Unspoiled, Storing, Busy
<1>. QED BY <1>1, <1>2 DEF SentFresh, RefreshChain

StatesSound ==
    /\ validated \subseteq States \X Conns \X BOOLEAN
    /\ DOMAIN stateStore \subseteq DOMAIN asked
    /\ \A s \in DOMAIN stateStore : s \in States /\ stateStore[s] \in Conns /\ stateStore[s] = asked[s] /\ \A v \in validated : v[1] # s
    /\ \A v \in validated : v[1] \in DOMAIN asked /\ v[2] = asked[v[1]] /\ ~v[3]

WebhookSound ==
    /\ arrived \in Nat /\ webhook \in [pc : {"idle", "send", "backoff", "done"}, attempt : Nat]
    /\ webhook.attempt <= MaxAttempts
    /\ webhook.pc = "send" => arrived < webhook.attempt
    /\ webhook.pc # "send" => arrived <= webhook.attempt
    /\ webhook.pc \in {"idle", "send", "backoff"} => webhookReply = "none"
    /\ webhookReply = "success" => arrived >= 1
    /\ webhookReply = "skipped" => arrived = 0
    /\ webhook.pc = "idle" => webhook.attempt = 0

FlowInv == StatesSound /\ WebhookSound

LEMMA FlowStart == FlowInit => FlowInv
<1> SUFFICES ASSUME FlowInit PROVE FlowInv
  OBVIOUS
<1>1. DOMAIN stateStore = {}
  BY DEF FlowInit
<1>. QED BY <1>1, ConnectorsAssumption DEF FlowInit, FlowInv, StatesSound, WebhookSound

LEMMA FlowStep == FlowInv /\ [FlowNext]_flowVars => FlowInv'
<1> SUFFICES ASSUME FlowInv, [FlowNext]_flowVars PROVE FlowInv'
  OBVIOUS
<1>0. StatesSound /\ WebhookSound
  BY DEF FlowInv
<1>1. UNCHANGED <<stateStore, asked, validated>> => StatesSound'
  BY <1>0 DEF StatesSound
<1>2. UNCHANGED <<webhook, arrived, webhookReply>> => WebhookSound'
  BY <1>0 DEF WebhookSound
<1>3. ASSUME NEW s \in States, ValidateState(s) PROVE FlowInv'
  <2>1. s \in DOMAIN stateStore /\ asked' = asked /\ UNCHANGED <<webhook, arrived, webhookReply>>
    BY <1>3 DEF ValidateState
  <2>2. PICK k \in Conns : k = stateStore[s] /\ k = asked[s]
    BY <2>1, <1>0 DEF StatesSound
  <2>3. ~\E v \in validated : v[1] = s
    BY <2>1, <1>0 DEF StatesSound
  <2>4. validated' = validated \cup {<<s, k, FALSE>>}
    BY <1>3, <2>2, <2>3 DEF ValidateState, Accepted
  <2>5. DOMAIN stateStore' = DOMAIN stateStore \ {s} /\ \A x \in DOMAIN stateStore \ {s} : stateStore'[x] = stateStore[x]
    BY <1>3 DEF ValidateState
  <2>6. <<s, k, FALSE>> \in States \X Conns \X BOOLEAN
    OBVIOUS
  <2>7. StatesSound'
    <3>1. PICK w \in States \X Conns \X BOOLEAN : w = <<s, k, FALSE>> /\ w[1] = s /\ w[2] = k /\ w[3] = FALSE
      BY <2>6
    <3>2. validated' = validated \cup {w}
      BY <2>4, <3>1
    <3>3. validated' \subseteq States \X Conns \X BOOLEAN
      BY <3>2, <1>0 DEF StatesSound
    <3>4. DOMAIN stateStore' \subseteq DOMAIN asked'
      BY <2>1, <2>5, <1>0 DEF StatesSound
    <3>5. \A x \in DOMAIN stateStore' : x \in States /\ stateStore'[x] \in Conns /\ stateStore'[x] = asked'[x] /\ \A v \in validated' : v[1] # x
      BY <2>1, <2>5, <3>1, <3>2, <1>0 DEF StatesSound
    <3>6. \A v \in validated' : v[1] \in DOMAIN asked' /\ v[2] = asked'[v[1]] /\ ~v[3]
      BY <2>1, <2>2, <3>1, <3>2, <1>0 DEF StatesSound
    <3>. QED BY <3>3, <3>4, <3>5, <3>6 DEF StatesSound
  <2>. QED BY <2>1, <2>7, <1>2 DEF FlowInv
<1>4. ASSUME NEW s \in States, NEW k \in Conns, GenerateUrl(s, k) PROVE FlowInv'
  <2>1. UNCHANGED <<webhook, arrived, webhookReply>> /\ validated' = {v \in validated : v[1] # s}
    BY <1>4 DEF GenerateUrl
  <2>2. PICK kept \in SUBSET DOMAIN stateStore : stateStore' = [x \in kept \cup {s} |-> IF x = s THEN k ELSE stateStore[x]]
    BY <1>4 DEF GenerateUrl
  <2>3. asked' = [x \in DOMAIN asked \cup {s} |-> IF x = s THEN k ELSE asked[x]]
    BY <1>4 DEF GenerateUrl
  <2>4. /\ DOMAIN stateStore' = kept \cup {s} /\ stateStore'[s] = k /\ \A x \in kept \ {s} : stateStore'[x] = stateStore[x]
        /\ DOMAIN asked' = DOMAIN asked \cup {s} /\ asked'[s] = k /\ \A x \in DOMAIN asked \ {s} : asked'[x] = asked[x]
    BY <2>2, <2>3
  <2>5. StatesSound'
    <3>1. \A x \in kept : x \in States /\ stateStore[x] \in Conns /\ stateStore[x] = asked[x] /\ x \in DOMAIN asked
      BY <2>2, <1>0 DEF StatesSound
    <3>2. DOMAIN stateStore' \subseteq DOMAIN asked'
      BY <2>4, <3>1
    <3>3. \A x \in DOMAIN stateStore' : x \in States /\ stateStore'[x] \in Conns /\ stateStore'[x] = asked'[x]
      BY <2>4, <3>1
    <3>4. \A x \in DOMAIN stateStore' : \A v \in validated' : v[1] # x
      BY <2>1, <2>2, <2>4, <1>0 DEF StatesSound
    <3>5. \A v \in validated' : v[1] \in DOMAIN asked' /\ v[2] = asked'[v[1]] /\ ~v[3]
      BY <2>1, <2>4, <1>0 DEF StatesSound
    <3>6. validated' \subseteq States \X Conns \X BOOLEAN
      BY <2>1, <1>0 DEF StatesSound
    <3>. QED BY <3>2, <3>3, <3>4, <3>5, <3>6 DEF StatesSound
  <2>. QED BY <2>1, <2>5, <1>2 DEF FlowInv
<1>5. ASSUME NEW b \in BOOLEAN, StartWebhook(b) PROVE FlowInv'
  <2>1. StatesSound'
    BY <1>1, <1>5 DEF StartWebhook
  <2>2. WebhookSound'
    BY <1>0, <1>5, ConnectorsAssumption DEF StartWebhook, WebhookSound
  <2>. QED BY <2>1, <2>2 DEF FlowInv
<1>6. ASSUME NEW t \in BOOLEAN, NEW b \in BOOLEAN, PostWebhook(t, b) PROVE FlowInv'
  <2>1. StatesSound'
    BY <1>1, <1>6 DEF PostWebhook
  <2>2. WebhookSound'
    BY <1>0, <1>6, ConnectorsAssumption DEF PostWebhook, WebhookSound
  <2>. QED BY <2>1, <2>2 DEF FlowInv
<1>7. CASE Backoff
  <2>1. StatesSound'
    BY <1>1, <1>7 DEF Backoff
  <2>2. WebhookSound'
    BY <1>0, <1>7, ConnectorsAssumption DEF Backoff, WebhookSound
  <2>. QED BY <2>1, <2>2 DEF FlowInv
<1>8. CASE UNCHANGED flowVars
  BY <1>1, <1>2, <1>8 DEF flowVars, FlowInv
<1>. QED BY <1>3, <1>4, <1>5, <1>6, <1>7, <1>8 DEF FlowNext

\* ConnectorsHonest: no call is sent with a token that has expired meanwhile, callers
\* that refresh the same connector leave a store whose refresh token the provider takes,
\* a state is accepted once and for the connector it was made for, and a webhook's
\* report is what the receiver took; for every margin that covers a call.
THEOREM ConnectorsHonestHolds == ConnSpec /\ FlowSpec => []ConnectorsHonest
<1>1. FlowInv => StateOnce /\ WebhookHonest
  <2> SUFFICES ASSUME FlowInv PROVE StateOnce /\ WebhookHonest
    OBVIOUS
  <2>1. StateOnce
    BY DEF FlowInv, StatesSound, StateOnce
  <2>2. arrived \in Nat /\ webhook.attempt \in Nat /\ arrived <= webhook.attempt /\ webhook.attempt <= MaxAttempts
    BY DEF FlowInv, WebhookSound
  <2>3. arrived <= MaxAttempts
    BY <2>2, ConnectorsAssumption
  <2>4. WebhookHonest
    BY <2>3 DEF FlowInv, WebhookSound, WebhookHonest
  <2>. QED BY <2>1, <2>4
<1>2. ConnInv /\ FlowInv => ConnectorsHonest
  BY <1>1, ConnHonest DEF ConnectorsHonest
<1>3. ConnSpec => []ConnInv
  BY ConnStart, ConnStep, PTL DEF ConnSpec
<1>4. FlowSpec => []FlowInv
  BY FlowStart, FlowStep, PTL DEF FlowSpec
<1>. QED BY <1>2, <1>3, <1>4, PTL
-----------------------------------------------------------------------------
(* Settings.  What a source may hold, what the merge of file and environment   *)
(* therefore gives, and what runs is what was merged and validated.            *)

FileSound ==
    /\ DOMAIN file \subseteq Settings
    /\ \A s \in DOMAIN file : file[s] # "none"
    /\ "key" \in DOMAIN file => file["key"] \in {"k", "blank"}

EnvSound ==
    /\ DOMAIN env \subseteq DOMAIN EnvValues
    /\ \A s \in DOMAIN env : env[s] \in EnvValues[s]

\* A configuration under construction, whatever it was made from.
CfgSound ==
    /\ cfg = [s \in Settings |-> cfg[s]]
    /\ \A s \in Settings \ {"key", "limit"} : cfg[s] # "none"
    /\ cfg["key"] \in {"none", "k", "blank"}

\* What is off was turned off by the file, before the variables are looked at.
ReadOnPurpose ==
    /\ \A s \in {"rate", "merkle"} : cfg[s] = "false" => Using(s)
    /\ cfg["limit"] # "none"

\* What is off in the merged configuration was turned off on purpose.
MergedOnPurpose ==
    /\ \A s \in {"rate", "merkle"} : cfg[s] = "false" =>
         IF s \in DOMAIN env THEN Readable(s) /\ env[s] # "true" ELSE Using(s)
    /\ cfg["limit"] = "none" => "limit" \in DOMAIN env /\ env["limit"] = "0"
    /\ "limit" \in DOMAIN env /\ Readable("limit") /\ env["limit"] # "0" => cfg["limit"] = Trim(env["limit"])

CfgInv ==
    /\ FileSound /\ EnvSound /\ CfgSound
    /\ phase \in {"down", "read", "merged", "valid", "running"}
    /\ phase = "read" => ReadOnPurpose
    /\ phase \in {"merged", "valid", "running"} => MergedOnPurpose
    /\ phase \in {"valid", "running"} => Valid(cfg)
    /\ phase = "running" => live = Effective(cfg)

LEMMA SettingsNamed ==
  Settings = {"mode", "addr", "level", "csharp", "key", "size", "rate", "merkle", "limit", "lua"}
BY DEF Settings, Default

LEMMA Defaults ==
  /\ Default = [s \in Settings |-> Default[s]]
  /\ \A s \in Settings \ {"key"} : Default[s] # "none"
  /\ Default["key"] = "none" /\ Default["rate"] = "true" /\ Default["merkle"] = "true" /\ Default["limit"] = "10M" /\ Default["lua"] = "p0"
<1>1. Default = [s \in Settings |-> Default[s]]
  BY DEF Settings, Default
<1>2. \A s \in Settings \ {"key"} : Default[s] # "none"
  BY SettingsNamed DEF Default
<1>3. Default["key"] = "none" /\ Default["rate"] = "true" /\ Default["merkle"] = "true" /\ Default["limit"] = "10M" /\ Default["lua"] = "p0"
  BY DEF Default
<1>. QED BY <1>1, <1>2, <1>3

LEMMA CfgStart == CfgInit => CfgInv
<1> SUFFICES ASSUME CfgInit PROVE CfgInv
  OBVIOUS
<1>1. DOMAIN file = {} /\ DOMAIN env = {} /\ cfg = Default /\ phase = "down"
  BY DEF CfgInit
<1>2. FileSound /\ EnvSound
  BY <1>1 DEF FileSound, EnvSound
<1>3. CfgSound
  BY <1>1, Defaults DEF CfgSound
<1>. QED BY <1>1, <1>2, <1>3 DEF CfgInv

\* The values of a file and of the variables.
LEMMA ValuesNamed ==
  /\ DOMAIN FileValues \subseteq Settings /\ DOMAIN EnvValues \subseteq Settings
  /\ \A s \in DOMAIN FileValues : "none" \notin FileValues[s]
  /\ FileValues["key"] = {"k", "blank"}
<1>1. DOMAIN FileValues = {"mode", "addr", "level", "csharp", "key", "size", "rate", "merkle", "limit", "lua"}
  BY DEF FileValues
<1>2. DOMAIN EnvValues = {"mode", "addr", "level", "csharp", "key", "size", "rate", "merkle", "limit"}
  BY DEF EnvValues
<1>3. \A s \in DOMAIN FileValues : "none" \notin FileValues[s]
  <2>1. /\ "none" \notin FileValues["mode"] /\ "none" \notin FileValues["addr"] /\ "none" \notin FileValues["level"]
        /\ "none" \notin FileValues["csharp"] /\ "none" \notin FileValues["key"] /\ "none" \notin FileValues["size"]
        /\ "none" \notin FileValues["rate"] /\ "none" \notin FileValues["merkle"] /\ "none" \notin FileValues["limit"]
        /\ "none" \notin FileValues["lua"]
    BY DEF FileValues
  <2>. QED BY <1>1, <2>1
<1>4. FileValues["key"] = {"k", "blank"}
  BY DEF FileValues
<1>. QED BY <1>1, <1>2, <1>3, <1>4, SettingsNamed

LEMMA EditKeeps == ASSUME CfgInv, Edit PROVE CfgInv'
<1>1. UNCHANGED <<cfg, live, phase>> /\ phase = "down"
  BY DEF Edit
<1>2. FileSound'
  <2>1. CASE \E s \in DOMAIN FileValues : \E v \in FileValues[s] : file' = Assigned(file, s, v)
    <3>0. PICK s \in DOMAIN FileValues : \E v \in FileValues[s] : file' = Assigned(file, s, v)
      BY <2>1
    <3>1. PICK v \in FileValues[s] : file' = Assigned(file, s, v)
      BY <3>0
    <3>2. s \in Settings /\ v # "none" /\ (s = "key" => v \in {"k", "blank"})
      BY ValuesNamed
    <3>3. DOMAIN file' = DOMAIN file \cup {s} /\ \A x \in DOMAIN file' : file'[x] = IF x = s THEN v ELSE file[x]
      BY <3>1 DEF Assigned
    <3>. QED BY <3>2, <3>3 DEF CfgInv, FileSound
  <2>2. CASE file' = file
    BY <2>2 DEF CfgInv, FileSound
  <2>. QED BY <2>1, <2>2 DEF Edit
<1>3. EnvSound'
  <2>1. CASE \E s \in DOMAIN EnvValues : \E v \in EnvValues[s] : env' = Assigned(env, s, v)
    <3>0. PICK s \in DOMAIN EnvValues : \E v \in EnvValues[s] : env' = Assigned(env, s, v)
      BY <2>1
    <3>1. PICK v \in EnvValues[s] : env' = Assigned(env, s, v)
      BY <3>0
    <3>2. DOMAIN env' = DOMAIN env \cup {s} /\ \A x \in DOMAIN env' : env'[x] = IF x = s THEN v ELSE env[x]
      BY <3>1 DEF Assigned
    <3>. QED BY <3>1, <3>2 DEF CfgInv, EnvSound
  <2>2. CASE env' = env
    BY <2>2 DEF CfgInv, EnvSound
  <2>. QED BY <2>1, <2>2 DEF Edit
<1>. QED BY <1>1, <1>2, <1>3 DEF CfgInv, CfgSound

LEMMA ReadKeeps == ASSUME CfgInv, ReadConfig PROVE CfgInv'
<1>1. UNCHANGED <<file, readable, env, args, live, edits>> /\ phase = "down"
  BY DEF ReadConfig
<1>2. FileSound' /\ EnvSound'
  BY <1>1 DEF CfgInv, FileSound, EnvSound
<1>3. CASE cfg' = Default /\ phase' = "read"
  <2>1. CfgSound'
    BY <1>3, Defaults DEF CfgSound
  <2>2. ReadOnPurpose'
    BY <1>3, Defaults DEF ReadOnPurpose
  <2>. QED BY <1>2, <1>3, <2>1, <2>2 DEF CfgInv
<1>4. CASE "config" \in DOMAIN args /\ cfg' = FromFile(file) /\ phase' = "read"
  <2>1. cfg' = [s \in Settings |-> cfg'[s]]
    BY <1>4 DEF FromFile
  <2>2. \A s \in Settings : cfg'[s] = IF s \in DOMAIN file THEN file[s] ELSE IF s = "lua" /\ "limit" \in DOMAIN file THEN "" ELSE Default[s]
    BY <1>4 DEF FromFile
  <2>3. {"rate", "merkle", "limit", "key"} \subseteq Settings /\ FileSound
    BY SettingsNamed DEF CfgInv
  <2>4. \A s \in Settings \ {"key"} : cfg'[s] # "none"
    BY <2>2, <2>3, Defaults DEF FileSound
  <2>5. cfg'["key"] \in {"none", "k", "blank"}
    BY <2>2, <2>3, Defaults DEF FileSound
  <2>6. \A s \in {"rate", "merkle"} : cfg'[s] = "false" => s \in DOMAIN file
    BY <2>2, <2>3, Defaults
  <2>7. CfgSound'
    BY <2>1, <2>4, <2>5 DEF CfgSound
  <2>8. ReadOnPurpose'
    BY <2>3, <2>4, <2>6, <1>1, <1>4 DEF ReadOnPurpose, Using
  <2>. QED BY <1>2, <1>4, <2>7, <2>8 DEF CfgInv
<1>5. CASE UNCHANGED <<cfg, phase>>
  BY <1>1, <1>2, <1>5 DEF CfgInv, CfgSound
<1>. QED BY <1>3, <1>4, <1>5 DEF ReadConfig

\* What a variable makes of a setting.
LEMMA Overridden ==
  ASSUME NEW old, EnvSound
  PROVE  /\ \A s \in DOMAIN env \ {"key", "limit"} : old # "none" => Override(s, env[s], old) # "none"
         /\ "key" \in DOMAIN env => Override("key", env["key"], old) \in {"none", "k"}
         /\ "rate" \in DOMAIN env /\ Override("rate", env["rate"], old) = "false" => env["rate"] = "false"
         /\ "merkle" \in DOMAIN env /\ Override("merkle", env["merkle"], old) = "false" => env["merkle"] \in {"0", "false", "no"}
         /\ "limit" \in DOMAIN env /\ old # "none" /\ Override("limit", env["limit"], old) = "none" => env["limit"] = "0"
         /\ "limit" \in DOMAIN env /\ Trim(env["limit"]) \in Numbers /\ env["limit"] # "0"
              => Override("limit", env["limit"], old) = Trim(env["limit"])
<1>1. DOMAIN EnvValues = {"mode", "addr", "level", "csharp", "key", "size", "rate", "merkle", "limit"}
  BY DEF EnvValues
<1>2. /\ "none" \notin EnvValues["mode"] /\ "none" \notin EnvValues["addr"] /\ "none" \notin EnvValues["level"] /\ "none" \notin EnvValues["csharp"]
      /\ EnvValues["key"] = {"padded k", "blank"} /\ EnvValues["limit"] = {"0", "padded 9", "junk"}
  BY DEF EnvValues
<1>3. ASSUME NEW s \in DOMAIN env \ {"key", "limit"}, old # "none" PROVE Override(s, env[s], old) # "none"
  <2>1. CASE s = "size"
    <3>1. Override(s, env[s], old) = IF env[s] \in Numbers THEN env[s] ELSE old
      BY <2>1 DEF Override
    <3>. QED BY <3>1, <1>3 DEF Numbers
  <2>2. CASE s = "rate"
    <3>1. Override(s, env[s], old) \in {"true", "false"}
      BY <2>2 DEF Override
    <3>. QED BY <3>1
  <2>3. CASE s = "merkle"
    <3>1. Override(s, env[s], old) \in {"true", "false"}
      BY <2>3 DEF Override
    <3>. QED BY <3>1
  <2>4. CASE s \in {"mode", "addr", "level", "csharp"}
    <3>1. Override(s, env[s], old) = env[s]
      BY <2>4 DEF Override
    <3>. QED BY <3>1, <2>4, <1>2 DEF EnvSound
  <2>. QED BY <2>1, <2>2, <2>3, <2>4, <1>1 DEF EnvSound
<1>4. "key" \in DOMAIN env => Override("key", env["key"], old) \in {"none", "k"}
  <2>1. Override("key", env["key"], old) = normalize_api_key(env["key"])
    BY DEF Override
  <2>2. \A raw \in {"padded k", "blank"} : normalize_api_key(raw) \in {"none", "k"}
    BY DEF normalize_api_key, Trim
  <2>. QED BY <2>1, <2>2, <1>2 DEF EnvSound
<1>5. Override("rate", env["rate"], old) = "false" => env["rate"] = "false"
  BY DEF Override
<1>6. Override("merkle", env["merkle"], old) = "false" => env["merkle"] \in {"0", "false", "no"}
  BY DEF Override
<1>7. Override("limit", env["limit"], old) =
        IF Trim(env["limit"]) \notin Numbers THEN old ELSE IF Trim(env["limit"]) = "0" THEN "none" ELSE Trim(env["limit"])
  BY DEF Override
<1>8. \A raw \in {"0", "padded 9", "junk"} : (Trim(raw) = "0" => raw = "0") /\ Trim(raw) # "none"
  BY DEF Trim
<1>9. "limit" \in DOMAIN env => env["limit"] \in {"0", "padded 9", "junk"}
  BY <1>2 DEF EnvSound
<1>10. "limit" \in DOMAIN env /\ old # "none" /\ Override("limit", env["limit"], old) = "none" => env["limit"] = "0"
  BY <1>7, <1>8, <1>9
<1>11. "limit" \in DOMAIN env /\ Trim(env["limit"]) \in Numbers /\ env["limit"] # "0" => Override("limit", env["limit"], old) = Trim(env["limit"])
  BY <1>7, <1>8, <1>9
<1>. QED BY <1>3, <1>4, <1>5, <1>6, <1>10, <1>11

LEMMA ApplyKeeps == ASSUME CfgInv, ApplyEnv PROVE CfgInv'
<1>1. UNCHANGED <<file, readable, env, args, live, edits>> /\ phase = "read" /\ phase' = "merged" /\ cfg' = apply_env_overrides(cfg)
  BY DEF ApplyEnv
<1>2. FileSound' /\ EnvSound' /\ EnvSound /\ CfgSound /\ ReadOnPurpose
  BY <1>1 DEF CfgInv, FileSound, EnvSound
<1>3. cfg' = [s \in Settings |-> cfg'[s]] /\ \A s \in Settings : cfg'[s] = IF s \in DOMAIN env THEN Override(s, env[s], cfg[s]) ELSE cfg[s]
  BY <1>1 DEF apply_env_overrides
<1>4. {"rate", "merkle", "limit", "key"} \subseteq Settings
  BY SettingsNamed
<1>5. \A s \in Settings \ {"key", "limit"} : cfg'[s] # "none"
  BY <1>2, <1>3, Overridden DEF CfgSound
<1>6. cfg'["key"] \in {"none", "k", "blank"}
  BY <1>2, <1>3, <1>4, Overridden DEF CfgSound
<1>7. CfgSound'
  BY <1>3, <1>5, <1>6 DEF CfgSound
<1>8. cfg'["rate"] = "false" => IF "rate" \in DOMAIN env THEN Readable("rate") /\ env["rate"] # "true" ELSE Using("rate")
  <2>1. CASE "rate" \in DOMAIN env
    <3>1. cfg'["rate"] = "false" => env["rate"] = "false"
      BY <2>1, <1>2, <1>3, <1>4, Overridden
    <3>2. env["rate"] = "false" => Readable("rate")
      BY DEF Readable
    <3>. QED BY <2>1, <3>1, <3>2
  <2>2. CASE "rate" \notin DOMAIN env
    BY <2>2, <1>2, <1>3, <1>4 DEF ReadOnPurpose
  <2>. QED BY <2>1, <2>2
<1>9. cfg'["merkle"] = "false" => IF "merkle" \in DOMAIN env THEN Readable("merkle") /\ env["merkle"] # "true" ELSE Using("merkle")
  <2>1. CASE "merkle" \in DOMAIN env
    <3>1. cfg'["merkle"] = "false" => env["merkle"] \in {"0", "false", "no"}
      BY <2>1, <1>2, <1>3, <1>4, Overridden
    <3>2. env["merkle"] \in {"0", "false", "no"} => Readable("merkle")
      BY DEF Readable
    <3>. QED BY <2>1, <3>1, <3>2
  <2>2. CASE "merkle" \notin DOMAIN env
    BY <2>2, <1>2, <1>3, <1>4 DEF ReadOnPurpose
  <2>. QED BY <2>1, <2>2
<1>10. cfg'["limit"] = "none" => "limit" \in DOMAIN env /\ env["limit"] = "0"
  BY <1>2, <1>3, <1>4, Overridden DEF ReadOnPurpose
<1>11. "limit" \in DOMAIN env /\ Readable("limit") /\ env["limit"] # "0" => cfg'["limit"] = Trim(env["limit"])
  <2>1. Readable("limit") => Trim(env["limit"]) \in Numbers
    BY DEF Readable
  <2>. QED BY <2>1, <1>2, <1>3, <1>4, Overridden
<1>12. MergedOnPurpose'
  BY <1>1, <1>8, <1>9, <1>10, <1>11 DEF MergedOnPurpose, Using, Readable
<1>. QED BY <1>1, <1>2, <1>7, <1>12 DEF CfgInv

LEMMA ServeKeeps == ASSUME CfgInv, Validate \/ Serve \/ StopServer PROVE CfgInv'
<1>1. UNCHANGED <<file, env, args, cfg>>
  BY DEF Validate, Serve, StopServer
<1>2. FileSound' /\ EnvSound' /\ CfgSound'
  BY <1>1 DEF CfgInv, FileSound, EnvSound, CfgSound
<1>3. MergedOnPurpose => MergedOnPurpose'
  BY <1>1 DEF MergedOnPurpose, Using, Readable
<1>4. Effective(cfg)' = Effective(cfg)
  BY <1>1 DEF Effective, Given, ResolveLanguage
<1>5. CASE Validate
  <2>1. phase = "merged" /\ (phase' = "down" \/ (phase' = "valid" /\ Valid(cfg)))
    BY <1>5 DEF Validate
  <2>. QED BY <2>1, <1>1, <1>2, <1>3 DEF CfgInv, Valid
<1>6. CASE Serve
  <2>1. phase = "valid" /\ (phase' = "down" \/ (phase' = "running" /\ live' = Effective(cfg)))
    BY <1>6 DEF Serve
  <2>. QED BY <2>1, <1>1, <1>2, <1>3, <1>4 DEF CfgInv, Valid
<1>7. CASE StopServer
  <2>1. phase' = "down"
    BY <1>7 DEF StopServer
  <2>. QED BY <2>1, <1>2 DEF CfgInv
<1>. QED BY <1>5, <1>6, <1>7

LEMMA SaveKeeps == ASSUME CfgInv, Save PROVE CfgInv'
<1>1. UNCHANGED <<env, args, cfg, live, phase>> /\ phase = "running" /\ file' = Saved(cfg)
  BY DEF Save
<1>2. DOMAIN file' = {s \in Settings : cfg[s] # "none"} /\ \A s \in DOMAIN file' : file'[s] = cfg[s]
  BY <1>1 DEF Saved
<1>3. FileSound'
  BY <1>2 DEF FileSound, CfgInv, CfgSound
<1>4. EnvSound' /\ CfgSound'
  BY <1>1 DEF CfgInv, EnvSound, CfgSound
<1>5. {"rate", "merkle"} \subseteq DOMAIN file'
  BY <1>2, SettingsNamed DEF CfgInv, CfgSound
<1>6. \A s \in {"rate", "merkle"} : (Readable(s)' <=> Readable(s)) /\ (Using(s) => Using(s)')
  BY <1>1, <1>5 DEF Readable, Using
<1>7. MergedOnPurpose'
  <2>1. MergedOnPurpose
    BY <1>1 DEF CfgInv
  <2>2. Readable("limit")' <=> Readable("limit")
    BY <1>1 DEF Readable
  <2>. QED BY <2>1, <2>2, <1>1, <1>6 DEF MergedOnPurpose
<1>8. Effective(cfg)' = Effective(cfg)
  BY <1>1 DEF Effective, Given, ResolveLanguage
<1>. QED BY <1>1, <1>3, <1>4, <1>7, <1>8 DEF CfgInv, Valid

LEMMA CfgStep == CfgInv /\ [CfgNext]_cfgVars => CfgInv'
<1> SUFFICES ASSUME CfgInv, [CfgNext]_cfgVars PROVE CfgInv'
  OBVIOUS
<1>1. CASE UNCHANGED cfgVars
  <2>1. UNCHANGED <<file, env, args, cfg, live, phase>>
    BY <1>1 DEF cfgVars
  <2>2. FileSound' /\ EnvSound' /\ CfgSound'
    BY <2>1 DEF CfgInv, FileSound, EnvSound, CfgSound
  <2>3. ReadOnPurpose => ReadOnPurpose'
    BY <2>1 DEF ReadOnPurpose, Using
  <2>4. MergedOnPurpose => MergedOnPurpose'
    BY <2>1 DEF MergedOnPurpose, Using, Readable
  <2>5. Effective(cfg)' = Effective(cfg) /\ (Valid(cfg) => Valid(cfg)')
    BY <2>1 DEF Effective, Given, ResolveLanguage, Valid
  <2>. QED BY <2>1, <2>2, <2>3, <2>4, <2>5 DEF CfgInv
<1>. QED BY <1>1, EditKeeps, ReadKeeps, ApplyKeeps, ServeKeeps, SaveKeeps DEF CfgNext

\* What runs, setting by setting.
LEMMA Running ==
  ASSUME CfgInv, phase = "running"
  PROVE  /\ live["rate"] = cfg["rate"] /\ live["merkle"] = cfg["merkle"] /\ live["limit"] = cfg["limit"]
         /\ live["level"] = cfg["level"] /\ live["size"] = cfg["size"]
         /\ live["mode"] = Given("mode", cfg["mode"]) /\ live["addr"] = Given("addr", cfg["addr"])
         /\ live["key"] \in {"none", "k"} /\ live["lua"] # ""
<1>1. live = Effective(cfg) /\ DOMAIN cfg = Settings
  BY DEF CfgInv, CfgSound
<1>2. /\ live["rate"] = cfg["rate"] /\ live["merkle"] = cfg["merkle"] /\ live["limit"] = cfg["limit"]
      /\ live["level"] = cfg["level"] /\ live["size"] = cfg["size"]
      /\ live["mode"] = Given("mode", cfg["mode"]) /\ live["addr"] = Given("addr", cfg["addr"])
  BY <1>1, SettingsNamed DEF Effective
<1>3. live["key"] = IF cfg["key"] = "none" THEN "none" ELSE normalize_api_key(cfg["key"])
  BY <1>1, SettingsNamed DEF Effective
<1>4. live["lua"] = ResolveLanguage(cfg)
  BY <1>1, SettingsNamed DEF Effective
<1>5. live["key"] \in {"none", "k"}
  <2>1. \A raw \in {"k", "blank"} : normalize_api_key(raw) \in {"none", "k"}
    BY DEF normalize_api_key, Trim
  <2>. QED BY <2>1, <1>3 DEF CfgInv, CfgSound
<1>6. live["lua"] # ""
  BY <1>4, Defaults DEF ResolveLanguage
<1>. QED BY <1>2, <1>5, <1>6

LEMMA SavedSame == ASSUME CfgInv, cfg["limit"] # "none" PROVE FromFile(Saved(cfg)) = cfg
<1>1. DOMAIN Saved(cfg) = {s \in Settings : cfg[s] # "none"} /\ \A s \in DOMAIN Saved(cfg) : Saved(cfg)[s] = cfg[s]
  BY DEF Saved
<1>2. \A s \in Settings : cfg[s] = "none" => s = "key"
  BY DEF CfgInv, CfgSound
<1>3. ASSUME NEW s \in Settings PROVE FromFile(Saved(cfg))[s] = cfg[s]
  <2>1. CASE s \in DOMAIN Saved(cfg)
    BY <2>1, <1>1 DEF FromFile
  <2>2. CASE s \notin DOMAIN Saved(cfg)
    <3>1. s = "key" /\ cfg[s] = "none"
      BY <2>2, <1>1, <1>2
    <3>. QED BY <2>2, <3>1, Defaults DEF FromFile
  <2>. QED BY <2>1, <2>2
<1>4. FromFile(Saved(cfg)) = [s \in Settings |-> FromFile(Saved(cfg))[s]] /\ cfg = [s \in Settings |-> cfg[s]]
  BY DEF FromFile, CfgInv, CfgSound
<1>. QED BY <1>3, <1>4

\* SettingsHonest: after any number of edits, starts, stops and saves, a protection is
\* off only because a readable source turned it off, no key is blank, nothing unvalidated
\* runs, and a saved file reads back as what was saved.
THEOREM SettingsHonestHolds == CfgSpec => []SettingsHonest
<1>1. CfgInv => SettingsHonest
  <2> SUFFICES ASSUME CfgInv PROVE SettingsHonest
    OBVIOUS
  <2>1. OffOnPurpose
    BY Running DEF OffOnPurpose, CfgInv, MergedOnPurpose
  <2>2. NoBlankKey
    BY Running DEF NoBlankKey
  <2>3. ServedIsValid
    <3> SUFFICES ASSUME phase = "running", DOMAIN args \subseteq {"config", "cert", "tlskey"} PROVE Valid(live)
      BY DEF ServedIsValid
    <3>1. \A v : Given("mode", v) = v /\ Given("addr", v) = v
      BY DEF Given
    <3>2. Valid(cfg)
      BY DEF CfgInv
    <3>. QED BY <3>1, <3>2, Running DEF Valid
  <2>4. SavedReloads
    BY SavedSame DEF SavedReloads
  <2>. QED BY <2>1, <2>2, <2>3, <2>4 DEF SettingsHonest
<1>. QED BY <1>1, CfgStart, CfgStep, PTL DEF CfgSpec
-----------------------------------------------------------------------------
(* The marketplace.  As long as nothing has disturbed it one request is in     *)
(* progress at most: until it writes, the files agree with the directories and *)
(* its copies are the files; from then on its copies agree with the            *)
(* directories, and the files become its copies one after the other.           *)

Index == [whole : BOOLEAN, listed : SUBSET Plugins, reviews : SUBSET Requests]
Installed == [whole : BOOLEAN, version : [Plugins -> Nat]]
Before == {"load", "rate", "mkdir", "fetch", "remove"}
Writing == {"write_index", "fill_index", "write_installed", "fill_installed"}
Work == [pc : Before \cup Writing, op : Operations, plugin : Plugins, index : Index, installed : Installed]

Agree(version) ==
    \A p \in Plugins : /\ version[p] # 0 => dirs[p] = version[p]
                       /\ dirs[p] > 0 => version[p] = dirs[p]

FilesAgree ==
    /\ indexFile.whole /\ installedFile.whole
    /\ Agree(installedFile.version)
    /\ accepted \subseteq indexFile.reviews

\* Request r, in state q, on its way.
OnItsWay(r, q) ==
    /\ q.pc \in Before => FilesAgree /\ q.index = indexFile
    /\ q.pc \in Before \ {"load"} => q.installed = installedFile
    /\ q.pc \in {"mkdir", "fetch"} => q.installed.version[q.plugin] = 0
    /\ q.pc \in {"mkdir", "fetch", "remove"} => q.op # "review"
    /\ q.pc \in Writing =>
         /\ q.index.whole /\ q.installed.whole
         /\ Agree(q.installed.version)
         /\ accepted \subseteq q.index.reviews
         /\ q.op = "review" => r \in q.index.reviews
    /\ q.pc \in {"write_installed", "fill_installed"} => indexFile = q.index

MarketTypes ==
    /\ indexFile \in Index /\ installedFile \in Installed
    /\ dirs \in [Plugins -> Int] /\ accepted \subseteq Requests

Orderly ==
    /\ MarketTypes
    /\ DOMAIN req = Requests
    /\ \A r \in Requests : Active(r) => req[r] \in Work /\ OnItsWay(r, req[r])
    /\ \A r \in Requests : \A o \in Requests : Active(r) /\ Active(o) => r = o
    /\ Settled => FilesAgree

MarketInv == disturbed \in BOOLEAN /\ (~disturbed => Orderly)

LEMMA MarketStart == MarketInit => MarketInv
<1> SUFFICES ASSUME MarketInit PROVE MarketInv
  OBVIOUS
<1>1. \A r \in Requests : ~Active(r)
  BY DEF MarketInit, Active, Idle
<1>2. PICK was \in SUBSET Plugins :
         /\ installedFile = [whole |-> TRUE, version |-> [p \in Plugins |-> IF p \in was THEN 1 ELSE 0]]
         /\ dirs = [p \in Plugins |-> IF p \in was THEN 1 ELSE NoDir]
  BY DEF MarketInit
<1>3. installedFile \in Installed /\ installedFile.whole /\ \A p \in Plugins : installedFile.version[p] = IF p \in was THEN 1 ELSE 0
  BY <1>2 DEF Installed
<1>4. indexFile \in Index /\ indexFile.whole /\ accepted = {}
  BY DEF MarketInit, Index
<1>5. dirs \in [Plugins -> Int] /\ \A p \in Plugins : dirs[p] = IF p \in was THEN 1 ELSE 0
  BY <1>2 DEF NoDir
<1>6. FilesAgree
  BY <1>3, <1>4, <1>5 DEF FilesAgree, Agree
<1>7. disturbed = FALSE /\ DOMAIN req = Requests
  BY DEF MarketInit
<1>8. Orderly
  BY <1>1, <1>3, <1>4, <1>5, <1>6, <1>7 DEF Orderly, MarketTypes
<1>. QED BY <1>7, <1>8 DEF MarketInv

\* The one request in progress ends, and the files agree.
LEMMA OneEnds ==
  ASSUME Orderly, NEW r \in Requests, Active(r), NEW x, req' = [req EXCEPT ![r] = x],
         x.pc \in {"ok", "error"}, MarketTypes', FilesAgree'
  PROVE  Orderly'
<1>1. DOMAIN req' = Requests /\ req'[r] = x /\ \A o \in Requests \ {r} : req'[o] = req[o]
  BY DEF Orderly
<1>2. \A o \in Requests \ {r} : ~Active(o)
  BY DEF Orderly
<1>3. \A o \in Requests : ~Active(o)'
  BY <1>1, <1>2 DEF Active
<1>. QED BY <1>1, <1>3 DEF Orderly

\* The one request in progress goes on.
LEMMA OneContinues ==
  ASSUME Orderly, NEW r \in Requests, Active(r), NEW x \in Work, req' = [req EXCEPT ![r] = x],
         MarketTypes', OnItsWay(r, x)'
  PROVE  Orderly'
<1>1. DOMAIN req' = Requests /\ req'[r] = x /\ \A o \in Requests \ {r} : req'[o] = req[o]
  BY DEF Orderly
<1>2. \A o \in Requests \ {r} : ~Active(o)
  BY DEF Orderly
<1>3. \A o \in Requests \ {r} : ~Active(o)'
  BY <1>1, <1>2 DEF Active
<1>4. x.pc \in Before \cup Writing
  BY DEF Work
<1>5. Active(r)'
  BY <1>1, <1>4 DEF Active, Before, Writing
<1>6. OnItsWay(r, req[r])'
  BY <1>1 DEF OnItsWay
<1>7. \A o \in Requests : Active(o)' => req'[o] \in Work /\ OnItsWay(o, req[o])'
  BY <1>1, <1>3, <1>6
<1>8. ~Settled'
  BY <1>5 DEF Settled
<1>. QED BY <1>1, <1>3, <1>7, <1>8 DEF Orderly

\* What a request at one of its stages has.
LEMMA Worker ==
  ASSUME Orderly, NEW r \in Requests, req[r].pc \in Before \cup Writing
  PROVE  Active(r) /\ req[r] \in Work /\ OnItsWay(r, req[r])
<1>1. Active(r)
  BY DEF Active, Before, Writing
<1>. QED BY <1>1 DEF Orderly

\* What a file reads as when nothing was disturbed: itself.
LEMMA FilesRead == ASSUME MarketTypes, FilesAgree PROVE LoadedIndex = indexFile /\ LoadedInstalled = installedFile
BY DEF FilesAgree, LoadedIndex, LoadedInstalled

LEMMA ReceiveKeeps ==
  ASSUME Orderly, NEW r \in Requests, NEW op \in Operations, NEW p \in Plugins, Receive(r, op, p), ~disturbed' PROVE Orderly'
<1>1. UNCHANGED <<indexFile, installedFile, dirs, accepted>> /\ \A o \in Requests : ~Active(o)
  BY DEF Receive
<1>2. FilesAgree /\ MarketTypes /\ DOMAIN req = Requests
  BY <1>1 DEF Orderly, Settled
<1>3. LoadedIndex = indexFile /\ LoadedInstalled = installedFile
  BY <1>2, FilesRead
<1>4. PICK x \in Work : x = [pc |-> "load", op |-> op, plugin |-> p, index |-> indexFile, installed |-> installedFile]
  BY <1>2 DEF Work, Before, MarketTypes
<1>5. req' = [req EXCEPT ![r] = x]
  BY <1>3, <1>4 DEF Receive
<1>6. x.pc = "load" /\ x.index = indexFile
  BY <1>4
<1>7. req'[r] = x /\ \A o \in Requests \ {r} : req'[o] = req[o]
  BY <1>2, <1>5
<1>8. \A o \in Requests \ {r} : ~Active(o)'
  BY <1>1, <1>7 DEF Active
<1>9. Active(r)'
  BY <1>6, <1>7 DEF Active
<1>10. FilesAgree' /\ MarketTypes'
  BY <1>1, <1>2 DEF FilesAgree, Agree, MarketTypes
<1>11. OnItsWay(r, req[r])'
  BY <1>1, <1>6, <1>7, <1>10 DEF OnItsWay, Before, Writing
<1>12. DOMAIN req' = Requests /\ ~Settled'
  BY <1>2, <1>5, <1>9 DEF Settled
<1>. QED BY <1>7, <1>8, <1>10, <1>11, <1>12 DEF Orderly

\* The answer of Finish.
LEMMA Finished ==
  ASSUME Orderly, NEW r \in Requests, req[r] \in Work, NEW a \in {"ok", "error"}, Finish(r, a)
  PROVE  \E x : req' = [req EXCEPT ![r] = x] /\ x.pc \in {"ok", "error"}
<1>1. PICK x : x = [pc |-> a, op |-> req[r].op, plugin |-> req[r].plugin]
  OBVIOUS
<1>2. req' = [req EXCEPT ![r] = x]
  BY <1>1 DEF Finish
<1>3. x.pc = a
  BY <1>1
<1>. QED BY <1>2, <1>3

LEMMA LoadKeeps == ASSUME Orderly, NEW r \in Requests, Load(r) PROVE Orderly'
<1>1. UNCHANGED <<indexFile, installedFile, dirs, accepted>> /\ req[r].pc = "load"
  BY DEF Load
<1>2. Active(r) /\ req[r] \in Work /\ OnItsWay(r, req[r]) /\ MarketTypes
  BY <1>1, Worker DEF Before, Orderly
<1>3. FilesAgree /\ req[r].index = indexFile
  BY <1>1, <1>2 DEF OnItsWay, Before
<1>4. LoadedInstalled = installedFile
  BY <1>2, <1>3, FilesRead
<1>5. FilesAgree' /\ MarketTypes'
  BY <1>1, <1>2, <1>3 DEF FilesAgree, Agree, MarketTypes
<1> DEFINE q == req[r]
           have == installedFile.version[q.plugin] # 0
           step == CASE q.op = "review" -> IF q.plugin \in q.index.listed THEN "rate" ELSE "error"
                    [] q.op = "install" -> IF ~have THEN "mkdir" ELSE "error"
                    [] OTHER -> IF have THEN "remove" ELSE "error"
<1>6. IF step = "error" THEN Finish(r, "error") ELSE req' = [req EXCEPT ![r] = [q EXCEPT !.installed = installedFile, !.pc = step]]
  BY <1>4, Zenon DEF Load
<1>7. /\ step \in {"rate", "mkdir", "remove", "error"}
      /\ step = "mkdir" => ~have
      /\ step \in {"mkdir", "remove"} => q.op # "review"
  OBVIOUS
<1> HIDE DEF step
<1>8. CASE step = "error"
  <2>1. PICK x : req' = [req EXCEPT ![r] = x] /\ x.pc \in {"ok", "error"}
    BY <1>2, <1>6, <1>8, Finished
  <2>. QED BY <2>1, <1>2, <1>5, OneEnds
<1>9. CASE step # "error"
  <2>1. PICK x \in Work : x = [q EXCEPT !.installed = installedFile, !.pc = step]
    BY <1>2, <1>7, <1>9 DEF Work, Before, MarketTypes
  <2>2. x.pc = step /\ x.op = q.op /\ x.plugin = q.plugin /\ x.index = q.index /\ x.installed = installedFile
    BY <2>1, <1>2 DEF Work
  <2>3. req' = [req EXCEPT ![r] = x]
    BY <1>6, <1>9, <2>1
  <2>4. OnItsWay(r, x)'
    BY <1>1, <1>3, <1>5, <1>7, <1>9, <2>2 DEF OnItsWay, Before, Writing
  <2>. QED BY <2>3, <2>4, <1>2, <1>5, OneContinues
<1>. QED BY <1>8, <1>9

LEMMA RateKeeps == ASSUME Orderly, NEW r \in Requests, Rate(r) PROVE Orderly'
<1>1. UNCHANGED <<indexFile, installedFile, dirs, accepted>> /\ req[r].pc = "rate"
  BY DEF Rate
<1>2. Active(r) /\ req[r] \in Work /\ OnItsWay(r, req[r]) /\ MarketTypes
  BY <1>1, Worker DEF Before, Orderly
<1>3. FilesAgree /\ req[r].index = indexFile /\ req[r].installed = installedFile
  BY <1>1, <1>2 DEF OnItsWay, Before
<1>4. FilesAgree' /\ MarketTypes'
  BY <1>1, <1>2, <1>3 DEF FilesAgree, Agree, MarketTypes
<1>5. PICK i \in Index : i = [indexFile EXCEPT !.reviews = @ \cup {r}]
  BY <1>2 DEF MarketTypes, Index
<1>6. i.whole = indexFile.whole /\ i.reviews = indexFile.reviews \cup {r}
  BY <1>2, <1>5 DEF MarketTypes, Index
<1>7. PICK x \in Work : x = [req[r] EXCEPT !.index = i, !.pc = "write_index"]
  BY <1>2 DEF Work, Writing
<1>8. x.pc = "write_index" /\ x.index = i /\ x.installed = installedFile
  BY <1>2, <1>3, <1>7 DEF Work
<1>9. req' = [req EXCEPT ![r] = x]
  <2>1. req' = [req EXCEPT ![r].index.reviews = @ \cup {r}, ![r].pc = "write_index"]
    BY DEF Rate
  <2>2. [req[r] EXCEPT !.index.reviews = @ \cup {r}, !.pc = "write_index"] = x
    BY <1>2, <1>3, <1>5, <1>7 DEF Work, Index
  <2>. QED BY <2>1, <2>2
<1>10. OnItsWay(r, x)'
  BY <1>1, <1>3, <1>6, <1>8 DEF OnItsWay, Before, Writing, FilesAgree, Agree
<1>. QED BY <1>2, <1>4, <1>9, <1>10, OneContinues

LEMMA MakeDirKeeps == ASSUME Orderly, NEW r \in Requests, MakeDir(r) PROVE Orderly'
<1>1. UNCHANGED <<indexFile, installedFile, accepted>> /\ req[r].pc = "mkdir"
  BY DEF MakeDir
<1>2. Active(r) /\ req[r] \in Work /\ OnItsWay(r, req[r]) /\ MarketTypes
  BY <1>1, Worker DEF Before, Orderly
<1>3. /\ FilesAgree /\ req[r].index = indexFile /\ req[r].installed = installedFile
      /\ installedFile.version[req[r].plugin] = 0 /\ req[r].op # "review"
  BY <1>1, <1>2 DEF OnItsWay, Before
<1>4. PICK p \in Plugins : p = req[r].plugin
  BY <1>2 DEF Work
<1>5. CASE p \in req[r].index.listed
  <2>1. dirs' = [dirs EXCEPT ![p] = IF @ = NoDir THEN Partial ELSE @] /\ Step(r, "fetch")
    BY <1>4, <1>5 DEF MakeDir
  <2>2. MarketTypes'
    BY <2>1, <1>1, <1>2 DEF MarketTypes, Partial
  <2>3. FilesAgree'
    <3>1. \A y \in Plugins : dirs'[y] = dirs[y] \/ (y = p /\ dirs'[y] = -1)
      BY <2>1, <1>2 DEF MarketTypes, Partial
    <3>. QED BY <3>1, <1>1, <1>3, <1>4 DEF FilesAgree, Agree
  <2>4. PICK x \in Work : x = [req[r] EXCEPT !.pc = "fetch"]
    BY <1>2 DEF Work, Before
  <2>5. x.pc = "fetch" /\ x.index = indexFile /\ x.installed = installedFile /\ x.plugin = p /\ x.op = req[r].op
    BY <2>4, <1>2, <1>3, <1>4 DEF Work
  <2>6. req' = [req EXCEPT ![r] = x]
    BY <2>1, <2>4 DEF Step
  <2>7. OnItsWay(r, x)'
    BY <2>3, <2>5, <1>1, <1>3, <1>4 DEF OnItsWay, Before, Writing
  <2>. QED BY <2>2, <2>6, <2>7, <1>2, OneContinues
<1>6. CASE p \notin req[r].index.listed
  <2>1. dirs' = dirs /\ Finish(r, "error")
    BY <1>4, <1>6 DEF MakeDir
  <2>2. FilesAgree' /\ MarketTypes'
    BY <2>1, <1>1, <1>2, <1>3 DEF FilesAgree, Agree, MarketTypes
  <2>3. PICK x : req' = [req EXCEPT ![r] = x] /\ x.pc \in {"ok", "error"}
    BY <2>1, <1>2, Finished
  <2>. QED BY <2>2, <2>3, <1>2, OneEnds
<1>. QED BY <1>5, <1>6

LEMMA FetchKeeps == ASSUME Orderly, NEW r \in Requests, NEW outcome, Fetch(r, outcome) PROVE Orderly'
<1>1. UNCHANGED <<indexFile, installedFile, accepted>> /\ req[r].pc = "fetch"
  BY DEF Fetch
<1>2. Active(r) /\ req[r] \in Work /\ OnItsWay(r, req[r]) /\ MarketTypes
  BY <1>1, Worker DEF Before, Orderly
<1>3. /\ FilesAgree /\ req[r].index = indexFile /\ req[r].installed = installedFile
      /\ installedFile.version[req[r].plugin] = 0 /\ req[r].op # "review"
  BY <1>1, <1>2 DEF OnItsWay, Before
<1>4. PICK p \in Plugins : p = req[r].plugin
  BY <1>2 DEF Work
<1>5. CASE dirs' = [dirs EXCEPT ![p] = Latest[p]]
           /\ req' = [req EXCEPT ![r].pc = "write_index", ![r].installed.version[p] = Latest[p]]
  <2>1. Latest[p] \in Nat
    BY MarketAssumption
  <2>2. MarketTypes'
    BY <2>1, <1>1, <1>2, <1>5 DEF MarketTypes
  <2>3. PICK n \in Installed : n = [installedFile EXCEPT !.version[p] = Latest[p]]
    BY <2>1, <1>2 DEF MarketTypes, Installed
  <2>4. n.whole = installedFile.whole /\ n.version[p] = Latest[p] /\ \A y \in Plugins \ {p} : n.version[y] = installedFile.version[y]
    BY <2>3, <1>2 DEF MarketTypes, Installed
  <2>5. PICK x \in Work : x = [req[r] EXCEPT !.pc = "write_index", !.installed = n]
    BY <1>2 DEF Work, Writing
  <2>6. x.pc = "write_index" /\ x.index = indexFile /\ x.installed = n /\ x.op # "review"
    BY <2>5, <1>2, <1>3 DEF Work
  <2>7. req' = [req EXCEPT ![r] = x]
    <3>1. [req[r] EXCEPT !.pc = "write_index", !.installed.version[p] = Latest[p]] = x
      BY <2>3, <2>5, <1>2, <1>3 DEF Work, Installed
    <3>. QED BY <3>1, <1>5
  <2>8. Agree(n.version)'
    <3>1. dirs'[p] = Latest[p] /\ \A y \in Plugins \ {p} : dirs'[y] = dirs[y]
      BY <1>2, <1>5 DEF MarketTypes
    <3>2. ASSUME NEW y \in Plugins PROVE (n.version[y] # 0 => dirs'[y] = n.version[y]) /\ (dirs'[y] > 0 => n.version[y] = dirs'[y])
      BY <3>1, <2>4, <1>3 DEF FilesAgree, Agree
    <3>. QED BY <3>2 DEF Agree
  <2>9. OnItsWay(r, x)'
    BY <2>4, <2>6, <2>8, <1>1, <1>3 DEF OnItsWay, Before, Writing, FilesAgree
  <2>. QED BY <2>2, <2>7, <2>9, <1>2, OneContinues
<1>6. CASE (dirs' = [dirs EXCEPT ![p] = NoDir] \/ dirs' = [dirs EXCEPT ![p] = Partial]) /\ Finish(r, "error")
  <2>1. MarketTypes'
    BY <1>1, <1>2, <1>6 DEF MarketTypes, NoDir, Partial
  <2>2. FilesAgree'
    <3>1. dirs'[p] \in {0, -1} /\ \A y \in Plugins \ {p} : dirs'[y] = dirs[y]
      BY <1>2, <1>6 DEF MarketTypes, NoDir, Partial
    <3>. QED BY <3>1, <1>1, <1>3, <1>4 DEF FilesAgree, Agree
  <2>3. PICK x : req' = [req EXCEPT ![r] = x] /\ x.pc \in {"ok", "error"}
    BY <1>2, <1>6, Finished
  <2>. QED BY <2>1, <2>2, <2>3, <1>2, OneEnds
<1>. QED BY <1>4, <1>5, <1>6 DEF Fetch

LEMMA RemoveDirKeeps == ASSUME Orderly, NEW r \in Requests, NEW removed, RemoveDir(r, removed), ~disturbed' PROVE Orderly'
<1>1. UNCHANGED <<indexFile, installedFile, accepted>> /\ req[r].pc = "remove"
  BY DEF RemoveDir
<1>2. Active(r) /\ req[r] \in Work /\ OnItsWay(r, req[r]) /\ MarketTypes
  BY <1>1, Worker DEF Before, Orderly
<1>3. FilesAgree /\ req[r].index = indexFile /\ req[r].installed = installedFile /\ req[r].op # "review"
  BY <1>1, <1>2 DEF OnItsWay, Before
<1>4. PICK p \in Plugins : p = req[r].plugin
  BY <1>2 DEF Work
<1>5. /\ dirs' = [dirs EXCEPT ![p] = NoDir]
      /\ req' = [req EXCEPT ![r].pc = "write_index", ![r].installed.version[p] = 0]
  BY <1>4 DEF RemoveDir
<1>6. MarketTypes'
  BY <1>1, <1>2, <1>5 DEF MarketTypes, NoDir
<1>7. PICK n \in Installed : n = [installedFile EXCEPT !.version[p] = 0]
  BY <1>2 DEF MarketTypes, Installed
<1>8. n.whole = installedFile.whole /\ n.version[p] = 0 /\ \A y \in Plugins \ {p} : n.version[y] = installedFile.version[y]
  BY <1>2, <1>7 DEF MarketTypes, Installed
<1>9. PICK x \in Work : x = [req[r] EXCEPT !.pc = "write_index", !.installed = n]
  BY <1>2 DEF Work, Writing
<1>10. x.pc = "write_index" /\ x.index = indexFile /\ x.installed = n /\ x.op # "review"
  BY <1>2, <1>3, <1>9 DEF Work
<1>11. req' = [req EXCEPT ![r] = x]
  <2>1. [req[r] EXCEPT !.pc = "write_index", !.installed.version[p] = 0] = x
    BY <1>2, <1>3, <1>7, <1>9 DEF Work, Installed
  <2>. QED BY <2>1, <1>5
<1>12. Agree(n.version)'
  <2>1. dirs'[p] = 0 /\ \A y \in Plugins \ {p} : dirs'[y] = dirs[y]
    BY <1>2, <1>5 DEF MarketTypes, NoDir
  <2>2. ASSUME NEW y \in Plugins PROVE (n.version[y] # 0 => dirs'[y] = n.version[y]) /\ (dirs'[y] > 0 => n.version[y] = dirs'[y])
    BY <2>1, <1>3, <1>8 DEF FilesAgree, Agree
  <2>. QED BY <2>2 DEF Agree
<1>13. OnItsWay(r, x)'
  BY <1>1, <1>3, <1>8, <1>10, <1>12 DEF OnItsWay, Before, Writing, FilesAgree
<1>. QED BY <1>2, <1>6, <1>11, <1>13, OneContinues

\* A request that writes: its copies, and what a step to another stage leaves of it.
LEMMA Writer ==
  ASSUME Orderly, NEW r \in Requests, req[r].pc \in Writing
  PROVE  /\ Active(r) /\ req[r] \in Work /\ MarketTypes
         /\ req[r].index \in Index /\ req[r].installed \in Installed
         /\ req[r].index.whole /\ req[r].installed.whole
         /\ Agree(req[r].installed.version)
         /\ accepted \subseteq req[r].index.reviews
         /\ req[r].op = "review" => r \in req[r].index.reviews
         /\ req[r].pc \in {"write_installed", "fill_installed"} => indexFile = req[r].index
<1>1. Active(r) /\ req[r] \in Work /\ OnItsWay(r, req[r]) /\ MarketTypes
  BY Worker DEF Orderly
<1>. QED BY <1>1 DEF OnItsWay, Work

\* The file becomes the copy.
LEMMA WholeCopy ==
  ASSUME NEW i \in Index, i.whole, NEW n \in Installed, n.whole
  PROVE  [i EXCEPT !.whole = TRUE] = i /\ [n EXCEPT !.whole = TRUE] = n
BY DEF Index, Installed

LEMMA TruncateIndexKeeps == ASSUME Orderly, NEW r \in Requests, TruncateIndex(r) PROVE Orderly'
<1>1. UNCHANGED <<installedFile, dirs, accepted>> /\ req[r].pc = "write_index"
  BY DEF TruncateIndex
<1>2. /\ Active(r) /\ req[r] \in Work /\ MarketTypes
      /\ req[r].index.whole /\ req[r].installed.whole /\ Agree(req[r].installed.version)
      /\ accepted \subseteq req[r].index.reviews /\ (req[r].op = "review" => r \in req[r].index.reviews)
  BY <1>1, Writer DEF Writing
<1>3. MarketTypes'
  <2>1. indexFile' \in Index
    BY <1>2 DEF TruncateIndex, MarketTypes, Index
  <2>. QED BY <2>1, <1>1, <1>2 DEF MarketTypes
<1>4. PICK x \in Work : x = [req[r] EXCEPT !.pc = "fill_index"]
  BY <1>2 DEF Work, Writing
<1>5. x.pc = "fill_index" /\ x.index = req[r].index /\ x.installed = req[r].installed /\ x.op = req[r].op
  BY <1>2, <1>4 DEF Work
<1>6. req' = [req EXCEPT ![r] = x]
  BY <1>4 DEF TruncateIndex, Step
<1>7. OnItsWay(r, x)'
  BY <1>1, <1>2, <1>5 DEF OnItsWay, Before, Writing, Agree
<1>. QED BY <1>2, <1>3, <1>6, <1>7, OneContinues

LEMMA FillIndexKeeps == ASSUME Orderly, NEW r \in Requests, NEW whole \in BOOLEAN, FillIndex(r, whole), ~disturbed' PROVE Orderly'
<1>1. UNCHANGED <<installedFile, dirs, accepted>> /\ req[r].pc = "fill_index" /\ whole = TRUE
  BY DEF FillIndex
<1>2. /\ Active(r) /\ req[r] \in Work /\ MarketTypes
      /\ req[r].index \in Index /\ req[r].installed \in Installed
      /\ req[r].index.whole /\ req[r].installed.whole /\ Agree(req[r].installed.version)
      /\ accepted \subseteq req[r].index.reviews /\ (req[r].op = "review" => r \in req[r].index.reviews)
  BY <1>1, Writer DEF Writing
<1>3. indexFile' = req[r].index /\ Step(r, "write_installed")
  BY <1>1, <1>2, WholeCopy DEF FillIndex
<1>4. MarketTypes'
  BY <1>1, <1>2, <1>3 DEF MarketTypes
<1>5. PICK x \in Work : x = [req[r] EXCEPT !.pc = "write_installed"]
  BY <1>2 DEF Work, Writing
<1>6. x.pc = "write_installed" /\ x.index = req[r].index /\ x.installed = req[r].installed /\ x.op = req[r].op
  BY <1>2, <1>5 DEF Work
<1>7. req' = [req EXCEPT ![r] = x]
  BY <1>3, <1>5 DEF Step
<1>8. OnItsWay(r, x)'
  BY <1>1, <1>2, <1>3, <1>6 DEF OnItsWay, Before, Writing, Agree
<1>. QED BY <1>2, <1>4, <1>7, <1>8, OneContinues

LEMMA TruncateInstalledKeeps == ASSUME Orderly, NEW r \in Requests, TruncateInstalled(r) PROVE Orderly'
<1>1. UNCHANGED <<indexFile, dirs, accepted>> /\ req[r].pc = "write_installed"
  BY DEF TruncateInstalled
<1>2. /\ Active(r) /\ req[r] \in Work /\ MarketTypes
      /\ req[r].index.whole /\ req[r].installed.whole /\ Agree(req[r].installed.version)
      /\ accepted \subseteq req[r].index.reviews /\ (req[r].op = "review" => r \in req[r].index.reviews)
      /\ indexFile = req[r].index
  BY <1>1, Writer DEF Writing
<1>3. MarketTypes'
  <2>1. installedFile' \in Installed
    BY <1>2 DEF TruncateInstalled, MarketTypes, Installed
  <2>. QED BY <2>1, <1>1, <1>2 DEF MarketTypes
<1>4. PICK x \in Work : x = [req[r] EXCEPT !.pc = "fill_installed"]
  BY <1>2 DEF Work, Writing
<1>5. x.pc = "fill_installed" /\ x.index = req[r].index /\ x.installed = req[r].installed /\ x.op = req[r].op
  BY <1>2, <1>4 DEF Work
<1>6. req' = [req EXCEPT ![r] = x]
  BY <1>4 DEF TruncateInstalled, Step
<1>7. OnItsWay(r, x)'
  BY <1>1, <1>2, <1>5 DEF OnItsWay, Before, Writing, Agree
<1>. QED BY <1>2, <1>3, <1>6, <1>7, OneContinues

LEMMA FillInstalledKeeps == ASSUME Orderly, NEW r \in Requests, NEW whole \in BOOLEAN, FillInstalled(r, whole), ~disturbed' PROVE Orderly'
<1>1. UNCHANGED <<indexFile, dirs>> /\ req[r].pc = "fill_installed" /\ whole = TRUE
  BY DEF FillInstalled
<1>2. /\ Active(r) /\ req[r] \in Work /\ MarketTypes
      /\ req[r].index \in Index /\ req[r].installed \in Installed
      /\ req[r].index.whole /\ req[r].installed.whole /\ Agree(req[r].installed.version)
      /\ accepted \subseteq req[r].index.reviews /\ (req[r].op = "review" => r \in req[r].index.reviews)
      /\ indexFile = req[r].index
  BY <1>1, Writer DEF Writing
<1>3. installedFile' = req[r].installed
  BY <1>1, <1>2, WholeCopy DEF FillInstalled
<1>4. accepted' = IF req[r].op = "review" THEN accepted \cup {r} ELSE accepted
  BY <1>1 DEF FillInstalled
<1>5. MarketTypes'
  BY <1>1, <1>2, <1>3, <1>4 DEF MarketTypes
<1>6. FilesAgree'
  BY <1>1, <1>2, <1>3, <1>4 DEF FilesAgree, Agree
<1>7. CASE req[r].op = "update" /\ req[r].installed.version[req[r].plugin] = 0
  <2>1. Step(r, "mkdir")
    BY <1>1, <1>7 DEF FillInstalled
  <2>2. PICK x \in Work : x = [req[r] EXCEPT !.pc = "mkdir"]
    BY <1>2 DEF Work, Before
  <2>3. x.pc = "mkdir" /\ x.index = req[r].index /\ x.installed = req[r].installed /\ x.op = "update" /\ x.plugin = req[r].plugin
    BY <2>2, <1>2, <1>7 DEF Work
  <2>4. req' = [req EXCEPT ![r] = x]
    BY <2>1, <2>2 DEF Step
  <2>5. OnItsWay(r, x)'
    BY <2>3, <1>1, <1>2, <1>3, <1>6, <1>7 DEF OnItsWay, Before, Writing
  <2>. QED BY <2>4, <2>5, <1>2, <1>5, OneContinues
<1>8. CASE ~(req[r].op = "update" /\ req[r].installed.version[req[r].plugin] = 0)
  <2>1. Finish(r, "ok")
    BY <1>1, <1>8 DEF FillInstalled
  <2>2. PICK x : req' = [req EXCEPT ![r] = x] /\ x.pc \in {"ok", "error"}
    BY <2>1, <1>2, Finished
  <2>. QED BY <2>2, <1>2, <1>5, <1>6, OneEnds
<1>. QED BY <1>7, <1>8

LEMMA MarketStep == MarketInv /\ [MarketNext]_marketVars => MarketInv'
<1> SUFFICES ASSUME MarketInv, [MarketNext]_marketVars PROVE MarketInv'
  OBVIOUS
<1>1. CASE MarketNext
  <2>1. disturbed' \in BOOLEAN /\ (disturbed => disturbed')
    <3>0. disturbed \in BOOLEAN
      BY DEF MarketInv
    <3>1. ASSUME NEW r \in Requests, Load(r) \/ Rate(r) \/ MakeDir(r) \/ TruncateIndex(r) \/ TruncateInstalled(r) PROVE disturbed' = disturbed
      BY <3>1 DEF Load, Rate, MakeDir, TruncateIndex, TruncateInstalled
    <3>2. ASSUME NEW r \in Requests, NEW outcome, Fetch(r, outcome) PROVE disturbed' = disturbed
      BY <3>2 DEF Fetch
    <3>3. ASSUME NEW r \in Requests, NEW op \in Operations, NEW p \in Plugins, Receive(r, op, p)
          PROVE  disturbed' \in BOOLEAN /\ (disturbed => disturbed')
      <4>1. disturbed' = (disturbed \/ \E o \in Requests : Active(o))
        BY <3>3 DEF Receive
      <4>. QED BY <4>1, <3>0, Zenon
    <3>4. ASSUME NEW r \in Requests, NEW ok \in BOOLEAN, RemoveDir(r, ok) \/ FillIndex(r, ok) \/ FillInstalled(r, ok)
          PROVE  disturbed' \in BOOLEAN /\ (disturbed => disturbed')
      <4>1. disturbed' = disturbed \/ disturbed' = TRUE \/ disturbed' = (disturbed \/ ~ok)
        BY <3>4 DEF RemoveDir, FillIndex, FillInstalled
      <4>2. (disturbed \/ ~ok) \in BOOLEAN /\ (disturbed => (disturbed \/ ~ok))
        OBVIOUS
      <4>3. CASE disturbed' = disturbed
        BY <4>3, <3>0
      <4>4. CASE disturbed' = TRUE
        BY <4>4
      <4>5. CASE disturbed' = (disturbed \/ ~ok)
        BY <4>2, <4>5
      <4>. QED BY <4>1, <4>3, <4>4, <4>5
    <3>5. MarketCrash => disturbed' = TRUE
      BY DEF MarketCrash
    <3>. QED BY <1>1, <3>0, <3>1, <3>2, <3>3, <3>4, <3>5 DEF MarketNext
  <2> SUFFICES ASSUME ~disturbed' PROVE Orderly'
    BY <2>1 DEF MarketInv
  <2>2. Orderly
    BY <2>1 DEF MarketInv
  <2>3. ASSUME NEW r \in Requests, NEW op \in Operations, NEW p \in Plugins, Receive(r, op, p) PROVE Orderly'
    BY <2>2, <2>3, ReceiveKeeps
  <2>4. ASSUME NEW r \in Requests, Load(r) \/ Rate(r) \/ MakeDir(r) \/ TruncateIndex(r) \/ TruncateInstalled(r) PROVE Orderly'
    BY <2>2, <2>4, LoadKeeps, RateKeeps, MakeDirKeeps, TruncateIndexKeeps, TruncateInstalledKeeps
  <2>5. ASSUME NEW r \in Requests, NEW outcome, Fetch(r, outcome) PROVE Orderly'
    BY <2>2, <2>5, FetchKeeps
  <2>6. ASSUME NEW r \in Requests, NEW ok \in BOOLEAN, RemoveDir(r, ok) \/ FillIndex(r, ok) \/ FillInstalled(r, ok) PROVE Orderly'
    BY <2>2, <2>6, RemoveDirKeeps, FillIndexKeeps, FillInstalledKeeps
  <2>7. CASE MarketCrash
    BY <2>7 DEF MarketCrash
  <2>. QED BY <1>1, <2>3, <2>4, <2>5, <2>6, <2>7 DEF MarketNext
<1>2. CASE UNCHANGED marketVars
  <2>1. UNCHANGED <<indexFile, installedFile, dirs, req, accepted, disturbed>>
    BY <1>2 DEF marketVars
  <2>. QED BY <2>1 DEF MarketInv, Orderly, MarketTypes, FilesAgree, Agree, OnItsWay, Active, Settled
<1>. QED BY <1>1, <1>2

\* InstallsKept: between requests that came one at a time, on a file system that works,
\* both files are whole, what is listed as installed has its complete directory, and no
\* confirmed review is lost, whichever download, checksum or extraction failed; for any
\* plugins, versions and number of requests.
THEOREM InstallsKeptHolds == MarketSpec => []InstallsKept
<1>1. MarketInv => InstallsKept
  <2> SUFFICES ASSUME MarketInv, Settled, ~disturbed
               PROVE  /\ indexFile.whole /\ installedFile.whole
                      /\ \A p \in Plugins : installedFile.version[p] # 0 => dirs[p] = installedFile.version[p]
                      /\ accepted \subseteq indexFile.reviews
                      /\ \A p \in Plugins : dirs[p] = 1 => installedFile.version[p] = 1
    BY DEF InstallsKept, InstalledComplete, NothingForgotten
  <2>1. FilesAgree
    BY DEF MarketInv, Orderly
  <2>. QED BY <2>1 DEF FilesAgree, Agree
<1>. QED BY <1>1, MarketStart, MarketStep, PTL DEF MarketSpec

\* SubSeq takes the elements from m + 1 to n, in their order.
LEMMA SubSeqTakes ==
  ASSUME NEW S, NEW q \in Seq(S), NEW m \in Nat, NEW n \in Nat, m <= n, n <= Len(q)
  PROVE  /\ SubSeq(q, m + 1, n) \in Seq(S)
         /\ Len(SubSeq(q, m + 1, n)) = n - m
         /\ \A i \in 1..(n - m) : SubSeq(q, m + 1, n)[i] = q[m + i]
<1>1. \A i \in m + 1 .. n : i \in 1..Len(q)
  OBVIOUS
<1>2. Len(SubSeq(q, m + 1, n)) = n - m
  <2>1. m + 1 <= n + 1
    OBVIOUS
  <2>2. Len(SubSeq(q, m + 1, n)) = IF m + 1 <= n THEN n - (m + 1) + 1 ELSE 0
    BY SubSeqProperties, <1>1, <2>1
  <2>. QED BY <2>2
<1>3. SubSeq(q, m + 1, n) \in Seq(S)
  BY SubSeqProperties, <1>1
<1>4. ASSUME NEW i \in 1..(n - m) PROVE SubSeq(q, m + 1, n)[i] = q[m + i]
  <2>1. SubSeq(q, m + 1, n)[i] = q[m + 1 + i - 1]
    BY SubSeqProperties, <1>1
  <2>2. m + 1 + i - 1 = m + i
    OBVIOUS
  <2>. QED BY <2>1, <2>2
<1>. QED BY <1>2, <1>3, <1>4
-----------------------------------------------------------------------------
(* Resources.  A client's pages are a prefix of the list, and its cursor is    *)
(* the length of that prefix; the queue of updates is a run of numbers that    *)
(* ends with the last one reported.                                            *)

Entries == [uri : Uris, kind : Sources]

PagerSound(p) ==
    /\ Len(p.got) <= Len(resources)
    /\ \A i \in 1..Len(p.got) : p.got[i] = resources[i]
    /\ p.cursor = NoCursor \/ p.cursor = Len(p.got)

PagesSound ==
    /\ resources \in Seq(Entries)
    /\ pager \in [Pagers -> [cursor : Nat \cup {NoCursor}, got : Seq(Entries)]]
    /\ \A c \in Pagers : PagerSound(pager[c])

UpdatesSound ==
    /\ pending \in Seq(Nat) /\ reported \in Nat /\ drained \in Nat /\ unpolled \in Nat
    /\ \A i \in 1..Len(pending) : pending[i] = reported - Len(pending) + i
    /\ drained <= reported - Len(pending)
    /\ Len(pending) <= MaxPending
    /\ Len(pending) >= unpolled \/ Len(pending) >= MaxPending \div 2

SubscribersSound ==
    /\ IsFiniteSet(DOMAIN subscriptions) /\ Cardinality(DOMAIN subscriptions) <= MAX_SUBSCRIBED_URIS
    /\ \A u \in DOMAIN subscriptions :
         /\ subscriptions[u] # {} /\ IsFiniteSet(subscriptions[u])
         /\ Cardinality(subscriptions[u]) <= MAX_SUBSCRIBERS_PER_URI

ResourcesInv == PagesSound /\ UpdatesSound /\ SubscribersSound

LEMMA ResourcesStart == ResourcesInit => ResourcesInv
<1> SUFFICES ASSUME ResourcesInit PROVE ResourcesInv
  OBVIOUS
<1>0. <<>> \in Seq(Entries) /\ <<>> \in Seq(Nat) /\ Len(<<>>) = 0 /\ DOMAIN <<>> = {}
  OBVIOUS
<1>1. PagesSound
  BY <1>0 DEF ResourcesInit, PagesSound, PagerSound
<1>2. UpdatesSound
  BY <1>0, ResourcesAssumption DEF ResourcesInit, UpdatesSound
<1>3. SubscribersSound
  BY <1>0, FS_EmptySet, ResourcesAssumption DEF ResourcesInit, SubscribersSound
<1>. QED BY <1>1, <1>2, <1>3 DEF ResourcesInv

LEMMA RegisterKeeps == ASSUME PagesSound, NEW u \in Uris, NEW k \in Sources, Register(u, k) PROVE PagesSound'
<1>1. PICK x \in Entries : x = [uri |-> u, kind |-> k]
  BY DEF Entries
<1>2. resources \in Seq(Entries) /\ resources' = Append(resources, x) /\ pager' = pager
  BY <1>1 DEF Register, PagesSound
<1>3. /\ resources' \in Seq(Entries) /\ Len(resources') = Len(resources) + 1 /\ Len(resources) \in Nat
      /\ \A i \in 1..Len(resources) : resources'[i] = resources[i]
  BY <1>2, AppendProperties
<1>4. ASSUME NEW c \in Pagers PROVE PagerSound(pager[c])'
  <2>1. PICK p \in [cursor : Nat \cup {NoCursor}, got : Seq(Entries)] : p = pager[c] /\ PagerSound(p) /\ pager'[c] = p
    BY <1>2 DEF PagesSound
  <2>2. Len(p.got) \in Nat
    OBVIOUS
  <2>3. Len(p.got) <= Len(resources') /\ \A i \in 1..Len(p.got) : p.got[i] = resources'[i]
    BY <2>1, <2>2, <1>3 DEF PagerSound
  <2>. QED BY <2>1, <2>3 DEF PagerSound
<1>. QED BY <1>2, <1>3, <1>4 DEF PagesSound

LEMMA ListPageKeeps == ASSUME PagesSound, NEW c \in Pagers, ListPage(c) PROVE PagesSound'
<1>1. /\ resources \in Seq(Entries) /\ resources' = resources /\ Len(resources) \in Nat /\ PageSize \in Nat
      /\ pager \in [Pagers -> [cursor : Nat \cup {NoCursor}, got : Seq(Entries)]]
  BY ResourcesAssumption DEF ListPage, PagesSound
<1>2. PICK g \in Seq(Entries) : g = pager[c].got
  BY <1>1
<1>3. pager[c].cursor = Len(g) /\ Len(g) <= Len(resources) /\ Len(g) \in Nat /\ \A i \in 1..Len(g) : g[i] = resources[i]
  BY <1>2 DEF ListPage, PagesSound, PagerSound
<1> DEFINE end == Smaller(Len(g) + PageSize, Len(resources))
           more == SubSeq(resources, Len(g) + 1, end)
           next == IF end < Len(resources) THEN end ELSE NoCursor
<1>4. end \in Nat /\ end >= Len(g) /\ end <= Len(resources)
  BY <1>1, <1>3 DEF Smaller
<1>5. pager' = [pager EXCEPT ![c] = [cursor |-> next, got |-> g \o more]]
  BY <1>2, <1>3 DEF ListPage, Page
<1> HIDE DEF end
<1>6. more \in Seq(Entries) /\ Len(more) = end - Len(g) /\ \A i \in 1..Len(more) : more[i] = resources[Len(g) + i]
  BY <1>1, <1>3, <1>4, SubSeqTakes
<1> HIDE DEF more
<1>7. PICK all \in Seq(Entries) : all = g \o more /\ Len(all) = end /\ \A i \in 1..end : all[i] = resources[i]
  <2>1. g \o more \in Seq(Entries) /\ Len(g \o more) = end
    BY <1>3, <1>4, <1>6, ConcatProperties
  <2>2. ASSUME NEW i \in 1..end PROVE (g \o more)[i] = resources[i]
    <3>1. CASE i \in 1..Len(g)
      <4>1. (g \o more)[i] = g[i]
        BY <3>1, <1>3, <1>6
      <4>. QED BY <3>1, <4>1, <1>3
    <3>2. CASE i \in Len(g) + 1 .. end
      <4>0. i - Len(g) \in 1..Len(more)
        BY <3>2, <1>3, <1>4, <1>6
      <4>1. (g \o more)[i] = more[i - Len(g)]
        BY <3>2, <1>3, <1>4, <1>6
      <4>2. Len(g) + (i - Len(g)) = i
        BY <1>3
      <4>. QED BY <4>0, <4>1, <4>2, <1>6
    <3>3. i \in 1..Len(g) \/ i \in Len(g) + 1 .. end
      BY <1>3, <1>4
    <3>. QED BY <3>1, <3>2, <3>3
  <2>. QED BY <2>1, <2>2
<1>8. next \in Nat \cup {NoCursor} /\ (next = NoCursor \/ next = Len(all))
  BY <1>4, <1>7
<1> HIDE DEF next
<1>9. PICK p \in [cursor : Nat \cup {NoCursor}, got : Seq(Entries)] : p.cursor = next /\ p.got = all /\ pager' = [pager EXCEPT ![c] = p]
  BY <1>5, <1>7, <1>8
<1>10. pager' \in [Pagers -> [cursor : Nat \cup {NoCursor}, got : Seq(Entries)]]
  BY <1>1, <1>9
<1>11. ASSUME NEW d \in Pagers PROVE PagerSound(pager[d])'
  <2>1. CASE d = c
    <3>1. pager'[d] = p
      BY <2>1, <1>1, <1>9
    <3>. QED BY <3>1, <1>1, <1>4, <1>7, <1>8, <1>9 DEF PagerSound
  <2>2. CASE d # c
    <3>1. pager'[d] = pager[d]
      BY <2>2, <1>1, <1>9
    <3>. QED BY <3>1, <1>1 DEF PagesSound, PagerSound
  <2>. QED BY <2>1, <2>2
<1>. QED BY <1>1, <1>10, <1>11 DEF PagesSound

LEMMA NotifyKeeps == ASSUME UpdatesSound, NEW u \in Uris, NotifyUpdate(u) PROVE UpdatesSound'
<1> DEFINE half == MaxPending \div 2
           kept == IF Len(pending) >= MaxPending THEN SubSeq(pending, half + 1, Len(pending)) ELSE pending
<1>1. half \in Nat /\ half >= 1 /\ half + half <= MaxPending /\ MaxPending \in Nat
  BY ResourcesAssumption
<1>2. pending \in Seq(Nat) /\ Len(pending) \in Nat /\ Len(pending) <= MaxPending /\ reported \in Nat /\ unpolled \in Nat /\ drained \in Nat
  BY DEF UpdatesSound
<1> HIDE DEF half
<1>3. /\ kept \in Seq(Nat) /\ Len(kept) \in Nat /\ Len(kept) + 1 <= MaxPending /\ Len(kept) <= Len(pending)
      /\ Len(kept) >= unpolled \/ Len(kept) >= half
      /\ \A i \in 1..Len(kept) : kept[i] = reported - Len(kept) + i
  <2>1. CASE Len(pending) >= MaxPending
    <3>1. kept = SubSeq(pending, half + 1, Len(pending)) /\ Len(pending) = MaxPending
      BY <2>1, <1>1, <1>2
    <3>2. kept \in Seq(Nat) /\ Len(kept) = MaxPending - half /\ \A i \in 1..(MaxPending - half) : kept[i] = pending[half + i]
      <4>1. half <= MaxPending
        BY <1>1
      <4>. QED BY <3>1, <4>1, <1>1, <1>2, SubSeqTakes
    <3>3. ASSUME NEW i \in 1..Len(kept) PROVE kept[i] = reported - Len(kept) + i
      <4>1. kept[i] = pending[half + i]
        BY <3>2
      <4>2. half + i \in 1..Len(pending)
        BY <3>1, <3>2, <1>1, <1>2
      <4>3. pending[half + i] = reported - Len(pending) + (half + i)
        BY <4>2 DEF UpdatesSound
      <4>. QED BY <4>1, <4>3, <3>1, <3>2, <1>1, <1>2
    <3>4. Len(kept) \in Nat /\ Len(kept) + 1 <= MaxPending /\ Len(kept) <= Len(pending) /\ Len(kept) >= half
      BY <3>1, <3>2, <1>1, <1>2
    <3>. QED BY <3>2, <3>3, <3>4
  <2>2. CASE ~(Len(pending) >= MaxPending)
    <3>1. kept = pending /\ Len(pending) + 1 <= MaxPending
      BY <2>2, <1>1, <1>2
    <3>2. Len(pending) >= unpolled \/ Len(pending) >= half
      BY DEF UpdatesSound, half
    <3>3. \A i \in 1..Len(pending) : pending[i] = reported - Len(pending) + i
      BY DEF UpdatesSound
    <3> HIDE DEF kept
    <3>. QED BY <3>1, <3>2, <3>3, <1>2
  <2>. QED BY <2>1, <2>2
<1>4. drained <= reported - Len(pending)
  BY DEF UpdatesSound
<1>5. CASE Registered(u)
  <2>1. pending' = Append(kept, reported + 1) /\ reported' = reported + 1 /\ unpolled' = unpolled + 1 /\ drained' = drained
    BY <1>5 DEF NotifyUpdate, half
  <2> HIDE DEF kept
  <2>2. /\ pending' \in Seq(Nat) /\ Len(pending') = Len(kept) + 1 /\ pending'[Len(kept) + 1] = reported + 1
        /\ \A i \in 1..Len(kept) : pending'[i] = kept[i]
    BY <2>1, <1>2, <1>3, AppendProperties
  <2>3. ASSUME NEW i \in 1..Len(pending') PROVE pending'[i] = reported' - Len(pending') + i
    <3>1. CASE i \in 1..Len(kept)
      <4>1. pending'[i] = reported - Len(kept) + i
        BY <3>1, <2>2, <1>3
      <4>. QED BY <4>1, <2>1, <2>2, <1>2, <1>3
    <3>2. CASE i = Len(kept) + 1
      BY <3>2, <2>1, <2>2, <1>2, <1>3
    <3>. QED BY <3>1, <3>2, <2>2, <1>3
  <2>4. Len(pending') >= unpolled' \/ Len(pending') >= half
    BY <2>1, <2>2, <1>1, <1>2, <1>3
  <2>5. drained' <= reported' - Len(pending')
    BY <2>1, <2>2, <1>2, <1>3, <1>4
  <2>6. pending' \in Seq(Nat) /\ reported' \in Nat /\ unpolled' \in Nat /\ drained' \in Nat /\ Len(pending') <= MaxPending
    BY <2>1, <2>2, <1>1, <1>2, <1>3
  <2>. QED BY <2>3, <2>4, <2>5, <2>6 DEF UpdatesSound, half
<1>6. CASE ~Registered(u)
  <2>1. pending' = kept /\ UNCHANGED <<reported, unpolled, drained>>
    BY <1>6 DEF NotifyUpdate, half
  <2> HIDE DEF kept
  <2>2. drained <= reported - Len(kept) /\ Len(kept) <= MaxPending
    BY <1>1, <1>2, <1>3, <1>4
  <2>3. \A i \in 1..Len(pending') : pending'[i] = reported' - Len(pending') + i
    BY <2>1, <1>3
  <2>4. Len(pending') >= unpolled' \/ Len(pending') >= half
    BY <2>1, <1>3
  <2>5. pending' \in Seq(Nat) /\ drained' <= reported' - Len(pending') /\ Len(pending') <= MaxPending
    BY <2>1, <2>2, <1>3
  <2>. QED BY <2>1, <2>3, <2>4, <2>5, <1>2 DEF UpdatesSound, half
<1>. QED BY <1>5, <1>6

LEMMA PollKeeps == ASSUME UpdatesSound, Poll PROVE UpdatesSound'
<1>1. pending \in Seq(Nat) /\ pending # <<>> /\ Len(pending) \in Nat /\ Len(pending) >= 1
  BY DEF UpdatesSound, Poll
<1>2. drained' = pending[Len(pending)]
  BY <1>1 DEF Poll, Last
<1>3. drained' = reported /\ reported \in Nat
  BY <1>1, <1>2 DEF UpdatesSound
<1>4. pending' = <<>> /\ Len(<<>>) = 0 /\ <<>> \in Seq(Nat) /\ unpolled' = 0 /\ reported' = reported
  BY DEF Poll
<1>. QED BY <1>3, <1>4, ResourcesAssumption DEF UpdatesSound

LEMMA SubscribeKeeps == ASSUME SubscribersSound, NEW u \in Uris, NEW id \in SubscriberIds, Subscribe(u, id) PROVE SubscribersSound'
<1> DEFINE have == IF u \in DOMAIN subscriptions THEN subscriptions[u] ELSE {}
           keys == DOMAIN subscriptions
<1>1. /\ u \in keys \/ Cardinality(keys) < MAX_SUBSCRIBED_URIS
      /\ Cardinality(have) < MAX_SUBSCRIBERS_PER_URI
      /\ subscriptions' = [v \in keys \cup {u} |-> IF v = u THEN have \cup {id} ELSE subscriptions[v]]
  BY DEF Subscribe
<1>2. IsFiniteSet(keys) /\ Cardinality(keys) \in Nat /\ Cardinality(keys) <= MAX_SUBSCRIBED_URIS
  BY FS_CardinalityType DEF SubscribersSound
<1>3. IsFiniteSet(have) /\ Cardinality(have) \in Nat
  BY FS_EmptySet, FS_CardinalityType DEF SubscribersSound
<1> HIDE DEF have
<1>4. /\ IsFiniteSet(have \cup {id})
      /\ Cardinality(have \cup {id}) = Cardinality(have) \/ Cardinality(have \cup {id}) = Cardinality(have) + 1
  BY <1>3, FS_AddElement
<1>5. Cardinality(have \cup {id}) <= MAX_SUBSCRIBERS_PER_URI
  BY <1>1, <1>3, <1>4, ResourcesAssumption
<1>6. IsFiniteSet(keys \cup {u}) /\ Cardinality(keys \cup {u}) <= MAX_SUBSCRIBED_URIS
  <2>1. CASE u \in keys
    <3>1. keys \cup {u} = keys
      BY <2>1
    <3>. QED BY <3>1, <1>2
  <2>2. CASE u \notin keys
    <3>1. IsFiniteSet(keys \cup {u}) /\ Cardinality(keys \cup {u}) = Cardinality(keys) + 1
      BY <2>2, <1>2, FS_AddElement
    <3>. QED BY <3>1, <2>2, <1>1, <1>2, ResourcesAssumption
  <2>. QED BY <2>1, <2>2
<1>7. DOMAIN subscriptions' = keys \cup {u} /\ \A v \in keys \cup {u} : subscriptions'[v] = IF v = u THEN have \cup {id} ELSE subscriptions[v]
  BY <1>1
<1>. QED BY <1>4, <1>5, <1>6, <1>7 DEF SubscribersSound

LEMMA UnsubscribeKeeps == ASSUME SubscribersSound, NEW u \in Uris, NEW id \in SubscriberIds, Unsubscribe(u, id) PROVE SubscribersSound'
<1> DEFINE keys == DOMAIN subscriptions
<1>1. u \in keys /\ IsFiniteSet(keys) /\ Cardinality(keys) \in Nat /\ Cardinality(keys) <= MAX_SUBSCRIBED_URIS
  BY FS_CardinalityType DEF SubscribersSound, Unsubscribe
<1>2. CASE subscriptions[u] \subseteq {id}
  <2>1. subscriptions' = [v \in keys \ {u} |-> subscriptions[v]]
    BY <1>2 DEF Unsubscribe
  <2>2. IsFiniteSet(keys \ {u}) /\ Cardinality(keys \ {u}) = Cardinality(keys) - 1
    BY <1>1, FS_RemoveElement
  <2>3. DOMAIN subscriptions' = keys \ {u} /\ \A v \in keys \ {u} : subscriptions'[v] = subscriptions[v]
    BY <2>1
  <2>4. Cardinality(keys \ {u}) <= MAX_SUBSCRIBED_URIS
    BY <2>2, <1>1, ResourcesAssumption
  <2>. QED BY <2>2, <2>3, <2>4 DEF SubscribersSound
<1>3. CASE ~(subscriptions[u] \subseteq {id})
  <2>1. subscriptions' = [subscriptions EXCEPT ![u] = @ \ {id}]
    BY <1>3 DEF Unsubscribe
  <2>2. DOMAIN subscriptions' = keys /\ \A v \in keys : subscriptions'[v] = IF v = u THEN subscriptions[u] \ {id} ELSE subscriptions[v]
    BY <2>1, <1>1
  <2>3. subscriptions[u] \ {id} # {}
    BY <1>3
  <2>4. /\ IsFiniteSet(subscriptions[u]) /\ Cardinality(subscriptions[u]) \in Nat
        /\ Cardinality(subscriptions[u]) <= MAX_SUBSCRIBERS_PER_URI
    BY <1>1, FS_CardinalityType DEF SubscribersSound
  <2>5. IsFiniteSet(subscriptions[u] \ {id}) /\ Cardinality(subscriptions[u] \ {id}) \in Nat
        /\ Cardinality(subscriptions[u] \ {id}) <= Cardinality(subscriptions[u])
    BY <2>4, FS_Subset, FS_CardinalityType
  <2>6. Cardinality(subscriptions[u] \ {id}) <= MAX_SUBSCRIBERS_PER_URI
    BY <2>4, <2>5, ResourcesAssumption
  <2>. QED BY <2>2, <2>3, <2>5, <2>6 DEF SubscribersSound
<1>. QED BY <1>2, <1>3

LEMMA ResourcesStep == ResourcesInv /\ [ResourcesNext]_resourceVars => ResourcesInv'
<1> SUFFICES ASSUME ResourcesInv, [ResourcesNext]_resourceVars PROVE ResourcesInv'
  OBVIOUS
<1>0. PagesSound /\ UpdatesSound /\ SubscribersSound
  BY DEF ResourcesInv
<1>1. UNCHANGED <<resources, pager>> => PagesSound'
  BY <1>0 DEF PagesSound, PagerSound
<1>2. UNCHANGED <<pending, reported, drained, unpolled>> => UpdatesSound'
  BY <1>0 DEF UpdatesSound
<1>3. UNCHANGED subscriptions => SubscribersSound'
  BY <1>0 DEF SubscribersSound
<1>4. ASSUME NEW u \in Uris, NEW k \in Sources, Register(u, k) PROVE ResourcesInv'
  BY <1>0, <1>2, <1>3, <1>4, RegisterKeeps DEF Register, ResourcesInv
<1>5. ASSUME NEW u \in Uris, NEW id \in SubscriberIds, Subscribe(u, id) PROVE ResourcesInv'
  BY <1>0, <1>1, <1>2, <1>5, SubscribeKeeps DEF Subscribe, ResourcesInv
<1>6. ASSUME NEW u \in Uris, NEW id \in SubscriberIds, Unsubscribe(u, id) PROVE ResourcesInv'
  BY <1>0, <1>1, <1>2, <1>6, UnsubscribeKeeps DEF Unsubscribe, ResourcesInv
<1>7. ASSUME NEW u \in Uris, NotifyUpdate(u) PROVE ResourcesInv'
  BY <1>0, <1>1, <1>3, <1>7, NotifyKeeps DEF NotifyUpdate, ResourcesInv
<1>8. CASE Poll
  BY <1>0, <1>1, <1>3, <1>8, PollKeeps DEF Poll, ResourcesInv
<1>9. ASSUME NEW c \in Pagers, ListPage(c) PROVE ResourcesInv'
  BY <1>0, <1>2, <1>3, <1>9, ListPageKeeps DEF ListPage, ResourcesInv
<1>10. CASE UNCHANGED resourceVars
  BY <1>1, <1>2, <1>3, <1>10 DEF resourceVars, ResourcesInv
<1>. QED BY <1>4, <1>5, <1>6, <1>7, <1>8, <1>9, <1>10 DEF ResourcesNext

\* ResourcesKept: a client that follows the cursors of handle_resources_list collects a
\* prefix of the list, an overflow of pending_updates loses only the oldest, and the
\* limits of subscribe hold with no place kept for a URI without subscribers, for every
\* page size, queue of two or more, limit and number of clients.
THEOREM ResourcesKeptHolds == ResourcesSpec => []ResourcesKept
<1>1. ResourcesInv => ResourcesKept
  <2> SUFFICES ASSUME ResourcesInv PROVE ResourcesKept
    OBVIOUS
  <2>1. PagesInOrder
    <3> SUFFICES ASSUME NEW c \in Pagers PROVE pager[c].got = SubSeq(resources, 1, Len(pager[c].got))
      BY DEF PagesInOrder
    <3>1. PICK g \in Seq(Entries) : g = pager[c].got
      BY DEF ResourcesInv, PagesSound
    <3>2. resources \in Seq(Entries) /\ Len(resources) \in Nat /\ Len(g) \in Nat /\ Len(g) <= Len(resources)
      BY <3>1 DEF ResourcesInv, PagesSound, PagerSound
    <3>3. \A i \in 1..Len(g) : g[i] = resources[i]
      BY <3>1 DEF ResourcesInv, PagesSound, PagerSound
    <3>4. PICK s \in Seq(Entries) : s = SubSeq(resources, 1, Len(g)) /\ Len(s) = Len(g) /\ \A i \in 1..Len(g) : s[i] = resources[i]
      <4>1. 0 \in Nat /\ 0 <= Len(g)
        BY <3>2
      <4>2. /\ SubSeq(resources, 0 + 1, Len(g)) \in Seq(Entries)
            /\ Len(SubSeq(resources, 0 + 1, Len(g))) = Len(g) - 0
            /\ \A i \in 1..(Len(g) - 0) : SubSeq(resources, 0 + 1, Len(g))[i] = resources[0 + i]
        BY <3>2, <4>1, SubSeqTakes
      <4>3. 0 + 1 = 1 /\ Len(g) - 0 = Len(g) /\ \A i \in 1..Len(g) : 0 + i = i
        BY <3>2
      <4>. QED BY <4>2, <4>3
    <3>5. g = s
      BY <3>2, <3>3, <3>4, SeqEqual
    <3>. QED BY <3>1, <3>4, <3>5
  <2>2. NewestKept
    <3>1. pending \in Seq(Nat) /\ DOMAIN pending = 1..Len(pending) /\ Len(pending) \in Nat /\ (pending # <<>> => 1 \in 1..Len(pending))
      BY DEF ResourcesInv, UpdatesSound
    <3>2. pending # <<>> => pending[1] > drained
      BY <3>1 DEF ResourcesInv, UpdatesSound
    <3>3. Len(pending) >= Smaller(unpolled, MaxPending \div 2)
      <4>1. MaxPending \div 2 \in Nat
        BY ResourcesAssumption
      <4>. QED BY <3>1, <4>1 DEF ResourcesInv, UpdatesSound, Smaller
    <3>. QED BY <3>1, <3>2, <3>3 DEF ResourcesInv, UpdatesSound, NewestKept
  <2>3. SubscriptionsBounded
    BY DEF ResourcesInv, SubscribersSound, SubscriptionsBounded
  <2>. QED BY <2>1, <2>2, <2>3 DEF ResourcesKept
<1>. QED BY <1>1, ResourcesStart, ResourcesStep, PTL DEF ResourcesSpec

-----------------------------------------------------------------------------
(* The response cache *)

Answers ==
  [status : {"none", "success", "error"}, ask : Asks \cup {"none"}, at : Nat, empty : BOOLEAN]
CacheStates ==
  [pc : {"new", "get", "refused", "run", "body", "done"}, key : CacheKeys \cup {"none"},
   ask : Asks \cup {"none"}, hit : BOOLEAN, expires : Nat, served : Nat, answer : Answers]

CacheType ==
  /\ cacheReq \in [CacheRequests -> CacheStates]
  /\ cacheNow \in Nat
  /\ \A k \in DOMAIN entries : entries[k].answer \in Answers

\* What may be stored: a success, with the lifetime counted from its handler's end.
Storable(answer, expires) == answer.status = "success" /\ expires = answer.at + TTL

EntriesStorable == \A k \in DOMAIN entries : Storable(entries[k].answer, entries[k].expires)
BodiesStorable ==
  \A r \in CacheRequests :
    cacheReq[r].pc = "body" => Storable(cacheReq[r].answer, cacheReq[r].expires)

\* A request with a hit has its answer, and takes no further step.
HitsDone == \A r \in CacheRequests : cacheReq[r].hit => cacheReq[r].pc = "done"

CacheInv == CacheType /\ EntriesStorable /\ BodiesStorable /\ HitsDone /\ HitsHonest

EntriesGood == EntriesStorable /\ \A k \in DOMAIN entries : entries[k].answer \in Answers

\* Entries that are dropped leave good ones.
LEMMA PopKeeps ==
  ASSUME CacheInv, NEW keys, Pop(keys)
  PROVE  EntriesGood'
  BY DEF CacheInv, CacheType, EntriesGood, EntriesStorable, Storable, Pop

LEMMA SameEntriesKeep ==
  ASSUME CacheInv, entries' = entries
  PROVE  EntriesGood'
  BY DEF CacheInv, CacheType, EntriesGood, EntriesStorable, Storable

\* What a step of one request has to show of that request's new state.
LEMMA OneRequestMoves ==
  ASSUME CacheInv, EntriesGood', cacheNow' = cacheNow,
         NEW r \in CacheRequests, NEW new \in CacheStates,
         cacheReq' = [cacheReq EXCEPT ![r] = new],
         new.pc = "body" => Storable(new.answer, new.expires),
         new.hit => /\ new.pc = "done" /\ new.answer.status = "success"
                    /\ new.served < new.answer.at + TTL
  PROVE  CacheInv'
  <1>1. /\ cacheReq' \in [CacheRequests -> CacheStates] /\ cacheReq'[r] = new
        /\ \A q \in CacheRequests \ {r} : cacheReq'[q] = cacheReq[q]
    BY DEF CacheInv, CacheType
  <1>2. CacheType' /\ EntriesStorable'
    BY <1>1 DEF CacheInv, CacheType, EntriesGood
  <1>3. BodiesStorable'
    BY <1>1 DEF CacheInv, BodiesStorable, Storable
  <1>4. HitsDone'
    BY <1>1 DEF CacheInv, HitsDone
  <1>5. HitFresh'
    BY <1>1 DEF CacheInv, HitsHonest, HitFresh
  <1>6. HitSucceeded'
    BY <1>1 DEF CacheInv, HitsHonest, HitSucceeded
  <1>. QED
    BY <1>2, <1>3, <1>4, <1>5, <1>6 DEF CacheInv, HitsHonest

LEMMA ArriveRequestKeeps ==
  ASSUME CacheInv, NEW r \in CacheRequests, ArriveRequest(r)
  PROVE  CacheInv'
  <1>1. PICK k \in CacheKeys, a \in Asks, pc \in {"get", "refused"} :
          cacheReq' = [cacheReq EXCEPT ![r].pc = pc, ![r].key = k, ![r].ask = a]
    BY DEF ArriveRequest
  <1>. DEFINE new == [cacheReq[r] EXCEPT !.pc = pc, !.key = k, !.ask = a]
  <1>2. cacheReq' = [cacheReq EXCEPT ![r] = new]
    BY <1>1 DEF CacheInv, CacheType
  <1>3. cacheReq[r] \in CacheStates /\ ~cacheReq[r].hit
    BY DEF CacheInv, CacheType, HitsDone, ArriveRequest
  <1>4. new \in CacheStates /\ new.pc = pc /\ ~new.hit
    BY <1>3 DEF CacheStates
  <1>5. EntriesGood' /\ cacheNow' = cacheNow
    BY SameEntriesKeep DEF ArriveRequest
  <1>. HIDE DEF new
  <1>. QED
    BY <1>2, <1>4, <1>5, OneRequestMoves

LEMMA GetKeeps ==
  ASSUME CacheInv, NEW r \in CacheRequests, Get(r)
  PROVE  CacheInv'
  <1>. DEFINE key == cacheReq[r].key
  <1>1. cacheReq[r].pc = "get" /\ cacheNow' = cacheNow
    BY DEF Get
  <1>2. cacheReq[r] \in CacheStates /\ ~cacheReq[r].hit
    BY <1>1 DEF CacheInv, CacheType, HitsDone
  <1>3. CASE key \in DOMAIN entries /\ entries[key].expires > cacheNow
    <2>. DEFINE answer == entries[key].answer
    <2>1. /\ cacheReq' = [cacheReq EXCEPT ![r].pc = "done", ![r].hit = TRUE,
                            ![r].answer = answer, ![r].served = cacheNow]
          /\ entries' = entries
      BY <1>3 DEF Get, Hit, Touch
    <2>2. answer \in Answers /\ Storable(answer, entries[key].expires)
      BY <1>3 DEF CacheInv, CacheType, EntriesStorable
    <2>3. answer.status = "success" /\ cacheNow < answer.at + TTL
      BY <1>3, <2>2, CacheAssumption DEF Storable, CacheInv, CacheType, Answers
    <2>. HIDE DEF answer
    <2>. DEFINE new == [cacheReq[r] EXCEPT !.pc = "done", !.hit = TRUE, !.answer = answer,
                                           !.served = cacheNow]
    <2>4. cacheReq' = [cacheReq EXCEPT ![r] = new]
      BY <2>1 DEF CacheInv, CacheType
    <2>5. /\ new \in CacheStates /\ new.pc = "done" /\ new.answer = answer
          /\ new.served = cacheNow
      BY <1>2, <2>2 DEF CacheStates, CacheInv, CacheType
    <2>6. EntriesGood'
      BY <2>1, SameEntriesKeep
    <2>. HIDE DEF new
    <2>. QED
      BY <1>1, <2>3, <2>4, <2>5, <2>6, OneRequestMoves
  <1>4. CASE ~(key \in DOMAIN entries /\ entries[key].expires > cacheNow)
    <2>. DEFINE new == [cacheReq[r] EXCEPT !.pc = "run"]
    <2>1. cacheReq' = [cacheReq EXCEPT ![r] = new] /\ Pop({key})
      BY <1>4 DEF Get
    <2>2. new \in CacheStates /\ new.pc = "run" /\ ~new.hit
      BY <1>2 DEF CacheStates
    <2>3. EntriesGood'
      BY <2>1, PopKeeps
    <2>. HIDE DEF new
    <2>. QED
      BY <1>1, <2>1, <2>2, <2>3, OneRequestMoves
  <1>. QED
    BY <1>3, <1>4

LEMMA RunKeeps ==
  ASSUME CacheInv, NEW r \in CacheRequests, Run(r)
  PROVE  CacheInv'
  <1>0. PICK status \in {"success", "error"} :
          cacheReq' = [cacheReq EXCEPT ![r].pc = IF status = "success" THEN "body" ELSE "done",
                         ![r].expires = cacheNow + TTL, ![r].answer = Answer(r, status)]
    BY DEF Run
  <1>. DEFINE pc == IF status = "success" THEN "body" ELSE "done"
              expires == cacheNow + TTL
              answer == Answer(r, status)
              new == [cacheReq[r] EXCEPT !.pc = pc, !.expires = expires, !.answer = answer]
  <1>1. pc \in {"body", "done"} /\ expires \in Nat
    BY CacheAssumption DEF CacheInv, CacheType
  <1>2. cacheReq[r] \in CacheStates /\ ~cacheReq[r].hit
    BY DEF CacheInv, CacheType, HitsDone, Run
  <1>3. answer \in Answers /\ answer.status = status /\ answer.at = cacheNow
    BY <1>2 DEF Answer, Answers, CacheInv, CacheType, CacheStates
  <1>4. pc = "body" => Storable(answer, expires)
    BY <1>3 DEF Storable
  <1>5. cacheReq' = [cacheReq EXCEPT ![r].pc = pc, ![r].expires = expires, ![r].answer = answer]
    BY <1>0
  <1>. HIDE DEF pc, expires, answer
  <1>6. cacheReq' = [cacheReq EXCEPT ![r] = new]
    BY <1>5 DEF CacheInv, CacheType
  <1>7. /\ new \in CacheStates /\ new.pc = pc /\ new.expires = expires /\ new.answer = answer
        /\ ~new.hit
    BY <1>1, <1>2, <1>3 DEF CacheStates
  <1>8. EntriesGood' /\ cacheNow' = cacheNow
    BY SameEntriesKeep DEF Run
  <1>. HIDE DEF new
  <1>. QED
    BY <1>4, <1>6, <1>7, <1>8, OneRequestMoves

LEMMA PutKeeps ==
  ASSUME CacheInv, NEW r \in CacheRequests, Put(r)
  PROVE  CacheInv'
  <1>1. cacheReq[r].pc = "body" /\ cacheNow' = cacheNow
    BY DEF Put
  <1>2. cacheReq[r] \in CacheStates /\ ~cacheReq[r].hit
    BY <1>1 DEF CacheInv, CacheType, HitsDone
  <1>3. PICK new \in CacheStates :
          cacheReq' = [cacheReq EXCEPT ![r] = new] /\ new.pc = "done" /\ ~new.hit
    <2>1. CASE cacheReq' = [cacheReq EXCEPT ![r].pc = "done"]
      <3>1. cacheReq' = [cacheReq EXCEPT ![r] = [cacheReq[r] EXCEPT !.pc = "done"]]
        BY <2>1
      <3>2. LET new == [cacheReq[r] EXCEPT !.pc = "done"]
            IN  new \in CacheStates /\ new.pc = "done" /\ ~new.hit
        BY <1>2 DEF CacheStates
      <3>. QED
        BY <3>1, <3>2
    <2>2. CASE cacheReq' = [cacheReq EXCEPT ![r].pc = "done", ![r].answer.empty = TRUE]
      <3>. DEFINE answer == [cacheReq[r].answer EXCEPT !.empty = TRUE]
                  new == [cacheReq[r] EXCEPT !.pc = "done", !.answer = answer]
      <3>1. answer \in Answers
        BY <1>2 DEF CacheStates, Answers
      <3>2. cacheReq' = [cacheReq EXCEPT ![r] = new]
        BY <2>2, <1>2 DEF CacheStates, CacheInv, CacheType
      <3>. HIDE DEF answer
      <3>3. new \in CacheStates /\ new.pc = "done" /\ ~new.hit
        BY <1>2, <3>1 DEF CacheStates
      <3>. HIDE DEF new
      <3>. QED
        BY <3>2, <3>3
    <2>. QED
      BY <2>1, <2>2 DEF Put
  <1>4. EntriesGood'
    <2>1. CASE UNCHANGED <<entries, recent>>
      BY <2>1, SameEntriesKeep
    <2>2. CASE PutEntry(cacheReq[r].key,
                        [answer |-> cacheReq[r].answer, expires |-> cacheReq[r].expires])
      <3>. DEFINE e == [answer |-> cacheReq[r].answer, expires |-> cacheReq[r].expires]
                  key == cacheReq[r].key
      <3>1. e.answer \in Answers /\ Storable(e.answer, e.expires)
        BY <1>1, <1>2 DEF CacheInv, CacheStates, BodiesStorable
      <3>2. \E kept \in SUBSET DOMAIN entries :
              entries' = [x \in kept \cup {key} |-> IF x = key THEN e ELSE entries[x]]
        BY <2>2, Zenon DEF PutEntry
      <3>. HIDE DEF e, key
      <3>. QED
        BY <3>1, <3>2 DEF CacheInv, CacheType, EntriesGood, EntriesStorable
    <2>. QED
      BY <2>1, <2>2 DEF Put
  <1>. QED
    BY <1>1, <1>3, <1>4, OneRequestMoves

LEMMA MaintenanceKeeps ==
  ASSUME CacheInv, RemoveExpired \/ Clear \/ Tick
  PROVE  CacheInv'
  <1>1. cacheReq' = cacheReq /\ cacheNow' \in Nat
    BY DEF RemoveExpired, Clear, Tick, CacheInv, CacheType
  <1>2. EntriesGood'
    <2>1. CASE RemoveExpired
      BY <2>1, PopKeeps DEF RemoveExpired
    <2>2. CASE Clear
      BY <2>2 DEF Clear, EntriesGood, EntriesStorable
    <2>3. CASE Tick
      BY <2>3, SameEntriesKeep DEF Tick
    <2>. QED
      BY <2>1, <2>2, <2>3
  <1>. QED
    BY <1>1, <1>2 DEF CacheInv, CacheType, EntriesGood, BodiesStorable, Storable, HitsDone, HitsHonest,
       HitFresh, HitSucceeded

\* A hit is a success and younger than the time to live, for any requests, keys and
\* sizes of the cache, whatever was stored, evicted or cleared in between.
THEOREM HitsHonestHolds == CacheSpec => []HitsHonest
  <1>1. CacheInit => CacheInv
    BY DEF CacheInit, CacheInv, CacheType, CacheStates, Answers, NoAnswer, EntriesStorable,
       BodiesStorable, HitsDone, HitsHonest, HitFresh, HitSucceeded
  <1>2. CacheInv /\ [CacheNext]_cacheVars => CacheInv'
    <2>. SUFFICES ASSUME CacheInv, [CacheNext]_cacheVars PROVE CacheInv'
      OBVIOUS
    <2>1. ASSUME NEW r \in CacheRequests, ArriveRequest(r) \/ Get(r) \/ Run(r) \/ Put(r)
          PROVE  CacheInv'
      BY <2>1, ArriveRequestKeeps, GetKeeps, RunKeeps, PutKeeps
    <2>2. CASE RemoveExpired \/ Clear \/ Tick
      BY <2>2, MaintenanceKeeps
    <2>3. CASE UNCHANGED cacheVars
      BY <2>3 DEF cacheVars, CacheInv, CacheType, EntriesStorable, BodiesStorable, Storable,
         HitsDone, HitsHonest, HitFresh, HitSucceeded
    <2>. QED
      BY <2>1, <2>2, <2>3 DEF CacheNext
  <1>3. CacheInv => HitsHonest
    BY DEF CacheInv
  <1>. QED
    BY <1>1, <1>2, <1>3, PTL DEF CacheSpec

-----------------------------------------------------------------------------
(* The edge server: the token buckets *)

Clients == {ClientIp(q) : q \in EdgeRequests}

BucketType ==
  /\ now \in Nat
  /\ \A a \in DOMAIN buckets :
       /\ buckets[a] \in [tokens : Nat, last : Nat]
       /\ buckets[a].tokens <= Full /\ buckets[a].last <= now
  /\ spent \in [Clients -> Seq(Nat)]
  /\ \A ip \in Clients : \A i \in DOMAIN spent[ip] : spent[ip][i] <= now

\* What the bucket of an address is worth now: refilled, or full if it has none.
Level ==
  [ip \in Clients |-> IF ip \in DOMAIN buckets THEN Refilled(buckets[ip]).tokens ELSE Full]

\* Since any request of an address, the requests let through and what the bucket is
\* worth now are covered by the capacity and the refill since then.
Covered ==
  \A ip \in Clients : \A i \in DOMAIN spent[ip] :
    (Len(spent[ip]) - i + 1) * Minute + Level[ip] <= Full + (now - spent[ip][i]) * EdgeCapacity

BudgetInv == BucketType /\ Covered /\ EdgeBudget

LEMMA FullIsNat == Full \in Nat /\ Full = EdgeCapacity * Minute
  BY EdgeAssumption DEF Full

LEMMA LongRefill ==
  ASSUME NEW t \in Nat, NEW elapsed \in Nat, elapsed > Minute
  PROVE  Lesser(Full, t + elapsed * EdgeCapacity) = Full
  <1>1. elapsed * EdgeCapacity >= EdgeCapacity * Minute
    BY EdgeAssumption
  <1>2. elapsed * EdgeCapacity \in Nat
    BY EdgeAssumption
  <1>. QED
    BY <1>1, <1>2, FullIsNat DEF Lesser

LEMMA RefilledFacts ==
  ASSUME BucketType, NEW b \in [tokens : Nat, last : Nat], b.tokens <= Full, b.last <= now
  PROVE  /\ Refilled(b) = [tokens |-> Lesser(Full, b.tokens + (now - b.last) * EdgeCapacity),
                           last |-> now]
         /\ Refilled(b).tokens \in Nat /\ Refilled(b).tokens <= Full
         /\ Expired(b) => Refilled(b).tokens = Full
         /\ b.last = now => Refilled(b).tokens = b.tokens
  <1>1. now - b.last \in Nat /\ b.tokens \in Nat /\ now \in Nat
    BY DEF BucketType
  <1>2. (now - b.last) * EdgeCapacity \in Nat
    BY <1>1, EdgeAssumption
  <1>3. Refilled(b) = [tokens |-> Lesser(Full, b.tokens + (now - b.last) * EdgeCapacity),
                       last |-> now]
    BY DEF Refilled
  <1>4. Refilled(b).tokens = Lesser(Full, b.tokens + (now - b.last) * EdgeCapacity)
    BY <1>3
  <1>5. Refilled(b).tokens \in Nat /\ Refilled(b).tokens <= Full
    BY <1>1, <1>2, <1>4, FullIsNat DEF Lesser
  <1>6. Expired(b) => Refilled(b).tokens = Full
    BY <1>1, <1>4, LongRefill DEF Expired
  <1>7. b.last = now => Refilled(b).tokens = b.tokens
    <2>. SUFFICES ASSUME b.last = now PROVE Refilled(b).tokens = b.tokens
      OBVIOUS
    <2>1. (now - b.last) * EdgeCapacity = 0
      BY <1>1, EdgeAssumption
    <2>. QED
      BY <1>1, <1>4, <2>1, FullIsNat DEF Lesser
  <1>. QED
    BY <1>3, <1>5, <1>6, <1>7

LEMMA LevelType ==
  ASSUME BucketType, NEW ip \in Clients
  PROVE  Level[ip] \in Nat /\ Level[ip] <= Full
  <1>1. CASE ip \in DOMAIN buckets
    <2>1. Level[ip] = Refilled(buckets[ip]).tokens
      BY <1>1 DEF Level
    <2>. QED
      BY <1>1, <2>1, RefilledFacts DEF BucketType
  <1>2. CASE ip \notin DOMAIN buckets
    BY <1>2, FullIsNat DEF Level
  <1>. QED
    BY <1>1, <1>2

\* What a sweep keeps, and the bucket of ip, are worth what they were.
LEMMA SweptFacts ==
  ASSUME BucketType, NEW ip \in Clients
  PROVE  /\ ip \in DOMAIN Swept(ip)
         /\ \A a \in DOMAIN Swept(ip) : /\ Swept(ip)[a] \in [tokens : Nat, last : Nat]
                                        /\ Swept(ip)[a].tokens <= Full
                                        /\ Swept(ip)[a].last <= now
         /\ \A a \in Clients : Level[a] = IF a \in DOMAIN Swept(ip)
                                          THEN Refilled(Swept(ip)[a]).tokens ELSE Full
  <1>. DEFINE kept == IF Cardinality(DOMAIN buckets) > MaxTracked
                      THEN {a \in DOMAIN buckets : ~ Expired(buckets[a])}
                      ELSE DOMAIN buckets
              fresh == [tokens |-> Full, last |-> now]
  <1>1. Swept(ip) = [a \in kept \cup {ip} |-> IF a \in kept THEN buckets[a] ELSE fresh]
    BY DEF Swept
  <1>2. kept \subseteq DOMAIN buckets
    OBVIOUS
  <1>3. \A a \in DOMAIN buckets \ kept : Expired(buckets[a])
    OBVIOUS
  <1>4. fresh \in [tokens : Nat, last : Nat] /\ fresh.tokens = Full /\ fresh.last = now
    BY FullIsNat DEF BucketType
  <1>5. Refilled(fresh).tokens = Full
    BY <1>4, RefilledFacts, FullIsNat DEF BucketType
  <1>. HIDE DEF kept, fresh
  <1>6. \A a \in DOMAIN Swept(ip) : /\ Swept(ip)[a] \in [tokens : Nat, last : Nat]
                                    /\ Swept(ip)[a].tokens <= Full
                                    /\ Swept(ip)[a].last <= now
    BY <1>1, <1>2, <1>4, FullIsNat DEF BucketType
  <1>7. ASSUME NEW a \in Clients
        PROVE  Level[a] = IF a \in DOMAIN Swept(ip) THEN Refilled(Swept(ip)[a]).tokens ELSE Full
    <2>1. CASE a \in kept
      BY <1>1, <1>2, <2>1 DEF Level
    <2>2. CASE a \notin kept /\ a = ip
      <3>1. Swept(ip)[a] = fresh /\ a \in DOMAIN Swept(ip)
        BY <1>1, <2>2
      <3>2. Level[a] = Full
        BY <1>3, <2>2, RefilledFacts DEF Level, BucketType
      <3>. QED
        BY <1>5, <3>1, <3>2
    <2>3. CASE a \notin kept /\ a # ip
      <3>1. a \notin DOMAIN Swept(ip)
        BY <1>1, <2>3
      <3>2. Level[a] = Full
        BY <1>3, <2>3, RefilledFacts DEF Level, BucketType
      <3>. QED
        BY <3>1, <3>2
    <2>. QED
      BY <2>1, <2>2, <2>3
  <1>. QED
    BY <1>1, <1>6, <1>7

LEMMA BucketIsLevel ==
  ASSUME BucketType, NEW ip \in Clients
  PROVE  Bucket(ip) = [tokens |-> Level[ip], last |-> now]
  <1>. DEFINE b == Swept(ip)[ip]
  <1>1. b \in [tokens : Nat, last : Nat] /\ b.tokens <= Full /\ b.last <= now
    BY SweptFacts
  <1>2. Level[ip] = Refilled(b).tokens
    BY SweptFacts
  <1>3. Refilled(b) = [tokens |-> Refilled(b).tokens, last |-> now]
    BY DEF Refilled
  <1>. HIDE DEF b
  <1>. QED
    BY <1>2, <1>3 DEF Bucket, b

\* A check writes one bucket: the other addresses' levels stay.
LEMMA ChargeFacts ==
  ASSUME BucketType, NEW ip \in Clients, NEW t \in Nat, t <= Full,
         buckets' = [Swept(ip) EXCEPT ![ip] = [tokens |-> t, last |-> now]], now' = now
  PROVE  /\ \A a \in DOMAIN buckets' :
              /\ buckets'[a] \in [tokens : Nat, last : Nat]
              /\ buckets'[a].tokens <= Full /\ buckets'[a].last <= now'
         /\ Level'[ip] = t /\ \A a \in Clients \ {ip} : Level'[a] = Level[a]
  <1>. DEFINE new == [tokens |-> t, last |-> now]
              swept == Swept(ip)
  <1>1. new \in [tokens : Nat, last : Nat] /\ new.tokens = t /\ new.last = now
    BY DEF BucketType
  <1>2. /\ ip \in DOMAIN swept
        /\ \A a \in DOMAIN swept : /\ swept[a] \in [tokens : Nat, last : Nat]
                                   /\ swept[a].tokens <= Full
                                   /\ swept[a].last <= now
        /\ \A a \in Clients : Level[a] = IF a \in DOMAIN swept
                                         THEN Refilled(swept[a]).tokens ELSE Full
    BY SweptFacts
  <1>3. buckets' = [swept EXCEPT ![ip] = new]
    OBVIOUS
  <1>. HIDE DEF new, swept
  <1>4. Refilled(new).tokens = t
    <2>1. new.tokens <= Full /\ new.last <= now
      BY <1>1 DEF BucketType
    <2>. QED
      BY <1>1, <2>1, RefilledFacts
  <1>5. /\ DOMAIN buckets' = DOMAIN swept /\ buckets'[ip] = new
        /\ \A a \in DOMAIN swept \ {ip} : buckets'[a] = swept[a]
    BY <1>2, <1>3
  <1>6. \A a \in DOMAIN buckets' :
          /\ buckets'[a] \in [tokens : Nat, last : Nat]
          /\ buckets'[a].tokens <= Full /\ buckets'[a].last <= now'
    BY <1>1, <1>2, <1>5 DEF BucketType
  <1>7. Level' = [a \in Clients |-> IF a \in DOMAIN buckets' THEN Refilled(buckets'[a]).tokens
                                    ELSE Full]
    BY DEF Level, Refilled
  <1>8. Level'[ip] = t
    BY <1>2, <1>4, <1>5, <1>7
  <1>9. \A a \in Clients \ {ip} : Level'[a] = Level[a]
    BY <1>2, <1>5, <1>7
  <1>. QED
    BY <1>6, <1>8, <1>9

LEMMA ProductIsNat == \A x, y \in Nat : x * y \in Nat
  OBVIOUS

LEMMA LevelsStay ==
  ASSUME UNCHANGED <<buckets, now>>
  PROVE  Level' = Level
  BY DEF Level, Refilled

\* A request that is refused leaves the levels as they are, and one that is let
\* through takes one token and is remembered.
LEMMA ChargeKeeps ==
  ASSUME BudgetInv, NEW q \in EdgeRequests, now' = now,
         \/ Pass(q)
         \/ /\ buckets' = [Swept(ClientIp(q)) EXCEPT ![ClientIp(q)] = Bucket(ClientIp(q))]
            /\ UNCHANGED spent
  PROVE  BudgetInv'
  <1>. DEFINE ip == ClientIp(q)
  <1>1. ip \in Clients
    BY DEF Clients
  <1>2. Bucket(ip) = [tokens |-> Level[ip], last |-> now] /\ Level[ip] \in Nat /\ Level[ip] <= Full
    BY <1>1, BucketIsLevel, LevelType DEF BudgetInv
  <1>3. CASE UNCHANGED <<buckets, spent>>
    <2>1. Level' = Level
      BY <1>3, LevelsStay
    <2>. QED
      BY <1>3, <2>1 DEF BudgetInv, BucketType, Covered, EdgeBudget
  <1>4. CASE buckets' = [Swept(ip) EXCEPT ![ip] = Bucket(ip)] /\ UNCHANGED spent
    <2>1. buckets' = [Swept(ip) EXCEPT ![ip] = [tokens |-> Level[ip], last |-> now]]
      BY <1>2, <1>4
    <2>. HIDE DEF ip
    <2>2. /\ \A a \in DOMAIN buckets' :
              /\ buckets'[a] \in [tokens : Nat, last : Nat]
              /\ buckets'[a].tokens <= Full /\ buckets'[a].last <= now'
          /\ \A a \in Clients : Level'[a] = Level[a]
      BY <1>1, <1>2, <2>1, ChargeFacts DEF BudgetInv
    <2>3. BucketType'
      BY <1>4, <2>2 DEF BudgetInv, BucketType
    <2>4. Covered' /\ EdgeBudget'
      BY <1>4, <2>2 DEF BudgetInv, Covered, EdgeBudget
    <2>. QED
      BY <2>3, <2>4 DEF BudgetInv
  <1>5. CASE /\ EdgeCapacity # 0 /\ Bucket(ip).tokens >= Minute
             /\ buckets' = [Swept(ip) EXCEPT ![ip] = [Bucket(ip) EXCEPT !.tokens = @ - Minute]]
             /\ spent' = [spent EXCEPT ![ip] = Append(@, now)]
    <2>. DEFINE t == Level[ip] - Minute
                len == Len(spent[ip])
    <2>1. t \in Nat /\ t <= Full /\ Level[ip] >= Minute
      BY <1>2, <1>5, FullIsNat, EdgeAssumption
    <2>2. [Bucket(ip) EXCEPT !.tokens = @ - Minute] = [tokens |-> t, last |-> now]
      BY <1>2
    <2>3. buckets' = [Swept(ip) EXCEPT ![ip] = [tokens |-> t, last |-> now]]
      BY <1>5, <2>2
    <2>. HIDE DEF ip
    <2>4. /\ \A a \in DOMAIN buckets' :
              /\ buckets'[a] \in [tokens : Nat, last : Nat]
              /\ buckets'[a].tokens <= Full /\ buckets'[a].last <= now'
          /\ Level'[ip] = t /\ \A a \in Clients \ {ip} : Level'[a] = Level[a]
      <3>. HIDE DEF t
      <3>. QED
        BY <1>1, <2>1, <2>3, ChargeFacts DEF BudgetInv
    <2>5. len \in Nat /\ now \in Nat /\ spent[ip] \in Seq(Nat)
      BY <1>1 DEF BudgetInv, BucketType
    <2>6. /\ spent' \in [Clients -> Seq(Nat)]
          /\ Len(spent'[ip]) = len + 1 /\ DOMAIN spent'[ip] = 1..(len + 1)
          /\ spent'[ip][len + 1] = now /\ \A i \in 1..len : spent'[ip][i] = spent[ip][i]
          /\ \A a \in Clients \ {ip} : spent'[a] = spent[a]
      BY <1>1, <1>5, <2>5 DEF BudgetInv, BucketType
    <2>7. DOMAIN spent[ip] = 1..len
      BY <2>5
    <2>8. \A i \in 1..len : spent[ip][i] \in Nat /\ spent[ip][i] <= now
      BY <1>1, <2>5, <2>7 DEF BudgetInv, BucketType
    <2>. HIDE DEF len, t
    <2>9. BucketType'
      <3>1. \A a \in Clients : \A i \in DOMAIN spent'[a] : spent'[a][i] <= now'
        <4>. SUFFICES ASSUME NEW a \in Clients, NEW i \in DOMAIN spent'[a]
                      PROVE  spent'[a][i] <= now
          OBVIOUS
        <4>1. CASE a # ip
          BY <2>6, <4>1 DEF BudgetInv, BucketType
        <4>2. CASE a = ip /\ i \in 1..len
          BY <2>6, <2>8, <4>2
        <4>3. CASE a = ip /\ i = len + 1
          BY <2>5, <2>6, <4>3
        <4>. QED
          BY <2>5, <2>6, <4>1, <4>2, <4>3
      <3>. QED
        BY <2>4, <2>5, <2>6, <3>1 DEF BucketType
    <2>10. \A i \in 1..len :
             (len - i + 1) * Minute + Level[ip] <= Full + (now - spent[ip][i]) * EdgeCapacity
      BY <1>1, <2>7 DEF BudgetInv, Covered, len
    <2>11. \A i \in 1..len :
             (len + 1 - i + 1) * Minute + t <= Full + (now - spent[ip][i]) * EdgeCapacity
      <3>. SUFFICES ASSUME NEW i \in 1..len
                    PROVE  (len + 1 - i + 1) * Minute + t
                             <= Full + (now - spent[ip][i]) * EdgeCapacity
        OBVIOUS
      <3>1. (len + 1 - i + 1) * Minute = (len - i + 1) * Minute + Minute
        BY <2>5, EdgeAssumption
      <3>2. (len - i + 1) * Minute \in Nat /\ (now - spent[ip][i]) * EdgeCapacity \in Nat
        BY <2>5, <2>8, EdgeAssumption
      <3>. QED
        BY <1>2, <2>10, <3>1, <3>2, FullIsNat, EdgeAssumption DEF t
    <2>12. Covered'
      <3>. SUFFICES ASSUME NEW a \in Clients, NEW i \in DOMAIN spent'[a]
                    PROVE  (Len(spent'[a]) - i + 1) * Minute + Level'[a]
                             <= Full + (now' - spent'[a][i]) * EdgeCapacity
        BY DEF Covered
      <3>1. CASE a # ip
        BY <2>4, <2>6, <3>1 DEF BudgetInv, Covered
      <3>2. CASE a = ip /\ i \in 1..len
        <4>1. /\ Len(spent'[a]) = len + 1 /\ Level'[a] = t /\ now' = now
              /\ spent'[a][i] = spent[ip][i]
          BY <2>4, <2>6, <3>2
        <4>2. (len + 1 - i + 1) * Minute + t <= Full + (now - spent[ip][i]) * EdgeCapacity
          BY <2>11, <3>2
        <4>. QED
          BY <2>1, <2>5, <2>8, <3>2, <4>1, <4>2, FullIsNat, EdgeAssumption
      <3>3. CASE a = ip /\ i = len + 1
        <4>1. /\ Len(spent'[a]) = len + 1 /\ Level'[a] = t /\ now' = now
              /\ spent'[a][i] = now
          BY <2>4, <2>6, <3>3
        <4>2. (len + 1 - i + 1) * Minute = Minute /\ (now - now) * EdgeCapacity = 0
          BY <2>5, <3>3, EdgeAssumption
        <4>3. Minute + t <= Full + 0
          BY <1>2, <2>1, FullIsNat, EdgeAssumption DEF t
        <4>4. (Len(spent'[a]) - i + 1) * Minute = Minute /\ (now' - spent'[a][i]) * EdgeCapacity = 0
          BY <2>5, <3>3, <4>1, EdgeAssumption
        <4>. QED
          BY <2>1, <4>1, <4>3, <4>4, FullIsNat, EdgeAssumption
      <3>. QED
        BY <2>5, <2>6, <3>1, <3>2, <3>3
    <2>13. EdgeBudget'
      <3>. SUFFICES ASSUME NEW a \in Clients, NEW i \in DOMAIN spent'[a],
                           NEW j \in DOMAIN spent'[a], i <= j
                    PROVE  (j - i + 1) * Minute
                             <= Full + (spent'[a][j] - spent'[a][i]) * EdgeCapacity
        BY <2>6 DEF EdgeBudget
      <3>1. CASE a # ip
        BY <2>6, <3>1 DEF BudgetInv, BucketType, EdgeBudget
      <3>2. CASE a = ip /\ j \in 1..len
        <4>1. i \in 1..len
          BY <2>5, <2>6, <3>2
        <4>. QED
          BY <1>1, <2>6, <2>7, <3>2, <4>1 DEF BudgetInv, BucketType, EdgeBudget
      <3>3. CASE a = ip /\ j = len + 1 /\ i \in 1..len
        <4>1. (j - i + 1) * Minute = (len + 1 - i + 1) * Minute
          BY <2>5, <3>3
        <4>2. /\ (len + 1 - i + 1) * Minute \in Nat
              /\ (now - spent[ip][i]) * EdgeCapacity \in Nat
          <5>1. len + 1 - i + 1 \in Nat /\ now - spent[ip][i] \in Nat
            BY <2>5, <2>8, <3>3
          <5>. QED
            BY <5>1, EdgeAssumption, ProductIsNat
        <4>3. spent'[a][j] = now /\ spent'[a][i] = spent[ip][i]
          BY <2>6, <3>3
        <4>4. (len + 1 - i + 1) * Minute + t <= Full + (now - spent[ip][i]) * EdgeCapacity
          BY <2>11, <3>3
        <4>5. \A x, y \in Nat : x + t <= Full + y => x <= Full + y
          BY <2>1, FullIsNat
        <4>6. (len + 1 - i + 1) * Minute <= Full + (now - spent[ip][i]) * EdgeCapacity
          BY <4>2, <4>4, <4>5, Zenon
        <4>. QED
          BY <4>1, <4>3, <4>6, Zenon
      <3>4. CASE a = ip /\ j = len + 1 /\ i = len + 1
        <4>1. (j - i + 1) * Minute = Minute /\ (now - now) * EdgeCapacity = 0
          BY <2>5, <3>4, EdgeAssumption
        <4>2. spent'[a][j] = now /\ spent'[a][i] = now
          BY <2>6, <3>4
        <4>3. Minute <= Full + 0
          BY <1>2, <2>1, FullIsNat, EdgeAssumption
        <4>4. (spent'[a][j] - spent'[a][i]) * EdgeCapacity = 0
          BY <2>5, <4>2, EdgeAssumption
        <4>. DEFINE x == (j - i + 1) * Minute
                    y == (spent'[a][j] - spent'[a][i]) * EdgeCapacity
        <4>5. x = Minute /\ y = 0
          BY <4>1, <4>4
        <4>. HIDE DEF x, y
        <4>6. x <= Full + y
          BY <4>3, <4>5
        <4>. QED
          BY <4>6 DEF x, y
      <3>5. a = ip => \/ j \in 1..len
                      \/ j = len + 1 /\ i \in 1..len
                      \/ j = len + 1 /\ i = len + 1
        BY <2>5, <2>6
      <3>. QED
        BY <3>1, <3>2, <3>3, <3>4, <3>5, Zenon
    <2>. QED
      BY <2>9, <2>12, <2>13 DEF BudgetInv
  <1>. QED
    BY <1>3, <1>4, <1>5 DEF Pass

\* As time passes, no bucket is worth more than one tick's refill more.
LEMMA EdgeTickKeeps ==
  ASSUME BudgetInv, now' = now + 1, UNCHANGED <<buckets, spent>>
  PROVE  BudgetInv'
  <1>1. BucketType'
    BY DEF BudgetInv, BucketType
  <1>2. ASSUME NEW ip \in Clients
        PROVE  Level'[ip] \in Nat /\ Level'[ip] <= Level[ip] + EdgeCapacity
    <2>1. CASE ip \in DOMAIN buckets
      <3>. DEFINE b == buckets[ip]
      <3>1. b.tokens \in Nat /\ b.last \in Nat /\ b.last <= now /\ now \in Nat
        BY <2>1 DEF BudgetInv, BucketType
      <3>2. Level[ip] = Lesser(Full, b.tokens + (now - b.last) * EdgeCapacity)
        BY <2>1 DEF Level, Refilled
      <3>3. Level'[ip] = Lesser(Full, b.tokens + (now + 1 - b.last) * EdgeCapacity)
        <4>1. Level'[ip] = Lesser(Full, b.tokens + (now' - b.last) * EdgeCapacity)
          BY <2>1 DEF Level, Refilled
        <4>. DEFINE x == now' - b.last
                    y == now + 1 - b.last
        <4>2. x = y /\ y \in Int
          BY <3>1
        <4>3. Level'[ip] = Lesser(Full, b.tokens + x * EdgeCapacity)
          BY <4>1
        <4>. HIDE DEF x, y
        <4>4. Level'[ip] = Lesser(Full, b.tokens + y * EdgeCapacity)
          BY <4>2, <4>3
        <4>. QED
          BY <4>4 DEF y
      <3>4. (now + 1 - b.last) * EdgeCapacity = (now - b.last) * EdgeCapacity + EdgeCapacity
        BY <3>1, EdgeAssumption
      <3>5. (now - b.last) * EdgeCapacity \in Nat
        BY <3>1, EdgeAssumption
      <3>. DEFINE x == (now - b.last) * EdgeCapacity
      <3>6. /\ Level[ip] = Lesser(Full, b.tokens + x)
            /\ Level'[ip] = Lesser(Full, b.tokens + (x + EdgeCapacity)) /\ x \in Nat
        BY <3>2, <3>3, <3>4, <3>5, Zenon
      <3>. HIDE DEF b, x
      <3>. QED
        BY <3>1, <3>6, FullIsNat, EdgeAssumption DEF Lesser
    <2>2. CASE ip \notin DOMAIN buckets
      BY <2>2, FullIsNat, EdgeAssumption DEF Level
    <2>. QED
      BY <2>1, <2>2
  <1>3. Covered'
    <2>. SUFFICES ASSUME NEW ip \in Clients, NEW i \in DOMAIN spent'[ip]
                  PROVE  (Len(spent'[ip]) - i + 1) * Minute + Level'[ip]
                           <= Full + (now' - spent'[ip][i]) * EdgeCapacity
      BY DEF Covered
    <2>. DEFINE p == (Len(spent[ip]) - i + 1) * Minute
                q == (now - spent[ip][i]) * EdgeCapacity
    <2>1. /\ spent[ip] \in Seq(Nat) /\ now \in Nat /\ spent[ip][i] <= now
          /\ i \in 1..Len(spent[ip]) /\ spent[ip][i] \in Nat
      BY DEF BudgetInv, BucketType
    <2>2. p \in Nat /\ q \in Nat
      <3>1. Len(spent[ip]) - i + 1 \in Nat /\ now - spent[ip][i] \in Nat
        BY <2>1
      <3>. QED
        BY <3>1, EdgeAssumption, ProductIsNat
    <2>3. (now + 1 - spent[ip][i]) * EdgeCapacity = q + EdgeCapacity
      BY <2>1, EdgeAssumption
    <2>4. p + Level[ip] <= Full + q
      BY DEF BudgetInv, Covered
    <2>5. Level[ip] \in Nat
      BY LevelType DEF BudgetInv
    <2>. HIDE DEF p, q
    <2>6. p + Level'[ip] <= Full + (q + EdgeCapacity)
      BY <1>2, <2>2, <2>4, <2>5, FullIsNat, EdgeAssumption
    <2>7. spent' = spent /\ now' = now + 1
      OBVIOUS
    <2>8. (Len(spent'[ip]) - i + 1) * Minute = p
      BY <2>7 DEF p
    <2>9. (now' - spent'[ip][i]) * EdgeCapacity = q + EdgeCapacity
      <3>. DEFINE x == now' - spent'[ip][i]
                  y == now + 1 - spent[ip][i]
      <3>1. x = y /\ y \in Int
        BY <2>1, <2>7
      <3>2. y * EdgeCapacity = q + EdgeCapacity
        BY <2>3
      <3>. HIDE DEF x, y
      <3>3. x * EdgeCapacity = q + EdgeCapacity
        BY <3>1, <3>2
      <3>. QED
        BY <3>3 DEF x
    <2>. QED
      BY <1>2, <2>2, <2>6, <2>8, <2>9, FullIsNat, EdgeAssumption
  <1>. QED
    BY <1>1, <1>3 DEF BudgetInv, EdgeBudget

LEMMA RemainingIsHonest ==
  ASSUME BudgetInv
  PROVE  RemainingHonest
  <1>. SUFFICES ASSUME EdgeCapacity > 0, NEW ip \in Clients
                PROVE  Remaining(ip) >= 1 <=> Bucket(ip).tokens >= Minute
    BY DEF RemainingHonest, BudgetInv, BucketType
  <1>1. Bucket(ip).tokens = Level[ip] /\ Level[ip] \in Nat
    BY BucketIsLevel, LevelType DEF BudgetInv
  <1>2. \A x \in Nat : x \div Minute >= 1 <=> x >= Minute
    BY EdgeAssumption
  <1>3. CASE ip \in DOMAIN buckets
    <2>1. Remaining(ip) = Level[ip] \div Minute
      BY <1>3 DEF Remaining, Level
    <2>. QED
      BY <1>1, <1>2, <2>1
  <1>4. CASE ip \notin DOMAIN buckets
    <2>1. Remaining(ip) = EdgeCapacity /\ Level[ip] = Full
      BY <1>4 DEF Remaining, Level
    <2>2. Full >= Minute
      BY FullIsNat, EdgeAssumption
    <2>. QED
      BY <1>1, <2>1, <2>2, EdgeAssumption
  <1>. QED
    BY <1>3, <1>4

-----------------------------------------------------------------------------
(* The edge server: its answers *)

\* Keys of at most MaxKeyLen bytes, which timing_safe_eq compares as a whole.
KeysFit == \A e \in EdgeEnvs : Len(e.key) <= MaxKeyLen

ConnStates ==
  [phase : {"closed", "open", "body"}, req : EdgeRequests \cup {<<>>}, since : Nat]

ServerType ==
  /\ \E e \in EdgeEnvs : config = FromEnv(e)
  /\ conn \in [EdgeConns -> ConnStates]
  /\ DOMAIN reply = EdgeConns

\* A request that waits for its body has passed the layers before it.
Passed == {q \in EdgeRequests : Verdict(q) = 0}

BodiesChecked == \A c \in EdgeConns : conn[c].phase = "body" => conn[c].req \in Passed

ToolInOrder(r, conf) ==
  r.rpc.tool = "output" =>
    /\ r.req.key = conf.key \/ conf.key = <<>>
    /\ r.req.body <= conf.max /\ r.req.method = "POST"
    /\ r.req.rpc.jsonrpc = "2.0" /\ r.req.rpc.method = "tools/call"
    /\ r.rpc.id = r.req.rpc.id

AnswersOwn(r) ==
  r.status = 200 /\ r.req.path = "/mcp" =>
    /\ r.rpc.id = IF r.req.rpc.method \in Notifications /\ r.req.rpc.jsonrpc = "2.0"
                  THEN NoId ELSE r.req.rpc.id
    /\ r.rpc.code = "-32600" <=> (r.req.rpc.jsonrpc # "2.0" \/ r.req.rpc.method = "")

RepliesRight ==
  \A c \in EdgeConns : reply[c] # <<>> =>
    /\ reply[c].req \in EdgeRequests /\ reply[c].ip = ClientIp(reply[c].req)
    /\ ToolInOrder(reply[c], config) /\ AnswersOwn(reply[c])

EdgeInv == ServerType /\ BodiesChecked /\ RepliesRight /\ BudgetInv

\* Keys that fit are the same when their lengths and padded buffers are.
LEMMA SameKey ==
  ASSUME NEW a \in Seq(Nat), NEW b \in Seq(Nat), Len(b) <= MaxKeyLen, TimingSafeEq(a, b)
  PROVE  a = b
  <1>1. Len(a) = Len(b) /\ Padded(a) = Padded(b)
    BY DEF TimingSafeEq
  <1>2. ASSUME NEW i \in 1..Len(a) PROVE a[i] = b[i]
    <2>1. i \in 1..MaxKeyLen
      BY <1>1, EdgeAssumption
    <2>2. Padded(a)[i] = a[i] /\ Padded(b)[i] = b[i]
      BY <1>1, <2>1 DEF Padded
    <2>. QED
      BY <1>1, <2>2
  <1>. QED
    BY <1>1, <1>2, SeqEqual

\* Behind a proxy the last entry of the chain is the client if it names one.
LEMMA LastIsClient ==
  ASSUME NEW q \in EdgeRequests
  PROVE  IF Trusted(q.peer) /\ q.chain # <<>> /\ Last(q.chain) \notin {"proxy", "junk"}
         THEN ClientIp(q) = Last(q.chain)
         ELSE Trusted(q.peer) \/ ClientIp(q) = q.peer
  <1>. DEFINE chain == q.chain
              len == Len(chain)
  <1>1. chain \in Seq(STRING)
    BY EdgeAssumption
  <1>2. CASE Trusted(q.peer) /\ chain # <<>> /\ Last(chain) \notin {"proxy", "junk"}
    <2>1. len \in Nat \ {0} /\ DOMAIN chain = 1..len /\ Last(chain) = chain[len]
      BY <1>1, <1>2 DEF Last
    <2>2. len \in Public(chain) /\ \A i \in Public(chain) : i \in 1..len
      BY <1>2, <2>1 DEF Public, Trusted
    <2>. HIDE DEF chain, len
    <2>3. \A x \in Public(chain) : (\A y \in Public(chain) : x >= y) => x = len
      BY <2>1, <2>2
    <2>4. \A y \in Public(chain) : len >= y
      BY <2>1, <2>2
    <2>5. Max(Public(chain)) = len
      BY <2>2, <2>3, <2>4, Zenon DEF Max
    <2>6. ClientIp(q) = chain[len]
      BY <1>2, <2>2, <2>5, Zenon DEF ClientIp, chain
    <2>. QED
      BY <1>2, <2>1, <2>6, Zenon DEF chain
  <1>3. CASE ~(Trusted(q.peer) /\ chain # <<>> /\ Last(chain) \notin {"proxy", "junk"})
    BY <1>3, Zenon DEF ClientIp
  <1>. QED
    BY <1>2, <1>3

\* What dispatch answers a parsed request with.
LEMMA DispatchFacts ==
  ASSUME NEW rpc
  PROVE  /\ Dispatch(rpc).id = (IF rpc.method \in Notifications /\ rpc.jsonrpc = "2.0"
                                THEN NoId ELSE rpc.id)
         /\ (Dispatch(rpc).code = "-32600") <=> (rpc.jsonrpc # "2.0" \/ rpc.method = "")
         /\ (Dispatch(rpc).tool = "output") =>
              rpc.jsonrpc = "2.0" /\ rpc.method = "tools/call" /\ Dispatch(rpc).id = rpc.id
  <1>1. \A id, code : /\ ErrorResponse(id, code).id = id /\ ErrorResponse(id, code).code = code
                      /\ ErrorResponse(id, code).tool = "none"
    BY DEF ErrorResponse
  <1>2. \A id : OkResponse(id).id = id /\ OkResponse(id).code = "none" /\ OkResponse(id).tool = "none"
    BY DEF OkResponse
  <1>3. ToolsCall(rpc).id = rpc.id /\ ToolsCall(rpc).code \in {"none", "-32602"}
    BY DEF ToolsCall, OkResponse, ErrorResponse
  <1>4. /\ ResourcesRead(rpc).id = rpc.id /\ ResourcesRead(rpc).code \in {"-32602", "-32001"}
        /\ ResourcesRead(rpc).tool = "none"
    BY DEF ResourcesRead, ErrorResponse
  <1>5. /\ PromptsGet(rpc).id = rpc.id /\ PromptsGet(rpc).code \in {"-32602", "-32001"}
        /\ PromptsGet(rpc).tool = "none"
    BY DEF PromptsGet, ErrorResponse
  <1>6. /\ CompletionComplete(rpc).id = rpc.id /\ CompletionComplete(rpc).code \in {"none", "-32602"}
        /\ CompletionComplete(rpc).tool = "none"
    BY DEF CompletionComplete, OkResponse, ErrorResponse
  <1>7. CASE rpc.jsonrpc # "2.0" \/ rpc.method = ""
    <2>1. Dispatch(rpc) = ErrorResponse(rpc.id, "-32600")
      BY <1>7 DEF Dispatch
    <2>2. ~(rpc.method \in Notifications /\ rpc.jsonrpc = "2.0")
      BY <1>7 DEF Notifications
    <2>3. /\ Dispatch(rpc).id = rpc.id /\ Dispatch(rpc).code = "-32600"
          /\ Dispatch(rpc).tool # "output"
      BY <1>1, <2>1
    <2>. QED
      BY <1>7, <2>2, <2>3, Zenon
  <1>8. CASE rpc.jsonrpc = "2.0" /\ rpc.method # ""
    <2>1. CASE rpc.method \in Handlers
      <3>1. Dispatch(rpc) = OkResponse(rpc.id)
        BY <1>8, <2>1 DEF Dispatch
      <3>2. rpc.method \notin Notifications
        BY <2>1 DEF Handlers, Notifications
      <3>. QED
        BY <1>2, <1>8, <3>1, <3>2
    <2>2. CASE rpc.method \in Notifications
      <3>1. Dispatch(rpc) = OkResponse(NoId)
        BY <1>8, <2>2 DEF Dispatch, Handlers, Notifications
      <3>. QED
        BY <1>2, <1>8, <2>2, <3>1
    <2>3. CASE rpc.method = "tools/call"
      <3>1. Dispatch(rpc) = ToolsCall(rpc) /\ rpc.method \notin Notifications
        BY <1>8, <2>3 DEF Dispatch, Handlers, Notifications
      <3>. QED
        BY <1>3, <1>8, <2>3, <3>1
    <2>4. CASE rpc.method \notin Handlers \cup Notifications \cup {"tools/call"}
      <3>1. \/ Dispatch(rpc) = ResourcesRead(rpc) \/ Dispatch(rpc) = PromptsGet(rpc)
            \/ Dispatch(rpc) = CompletionComplete(rpc)
            \/ Dispatch(rpc) = ErrorResponse(rpc.id, "-32601")
        BY <1>8, <2>4 DEF Dispatch
      <3>. DEFINE d == Dispatch(rpc)
      <3>2. d.id = rpc.id /\ d.code \in {"none", "-32601", "-32602", "-32001"} /\ d.tool = "none"
        BY <1>1, <1>4, <1>5, <1>6, <3>1
      <3>3. d.code # "-32600" /\ d.tool # "output"
        BY <3>2
      <3>. HIDE DEF d
      <3>4. d.id = rpc.id /\ rpc.method \notin Notifications
        BY <2>4, <3>2
      <3>. QED
        BY <1>8, <3>3, <3>4, Zenon DEF d
    <2>. QED
      BY <2>1, <2>2, <2>3, <2>4
  <1>. QED
    BY <1>7, <1>8

\* Only a request that has passed the layers waits for its body.
LEMMA GoOn ==
  ASSUME NEW q, Verdict(q) = 0
  PROVE  /\ q.method = "POST" /\ q.path = "/mcp"
         /\ AuthEnabled => TimingSafeEq(q.key, config.key)
  BY DEF Verdict

\* The layers answer 200 to a health check alone.
LEMMA OkIsHealth ==
  ASSUME NEW q, Verdict(q) = 200
  PROVE  q.path = "/health"
  BY DEF Verdict

-----------------------------------------------------------------------------
LEMMA OneConnMoves ==
  ASSUME ServerType, BodiesChecked, NEW c \in EdgeConns, NEW new \in ConnStates,
         conn' = [conn EXCEPT ![c] = new], UNCHANGED config,
         new.phase = "body" => new.req \in Passed
  PROVE  conn' \in [EdgeConns -> ConnStates] /\ BodiesChecked'
  <1>1. Passed' = Passed
    BY DEF Passed, Verdict, OriginAllowed, AuthEnabled
  <1>2. conn'[c] = new /\ \A k \in EdgeConns \ {c} : conn'[k] = conn[k]
    BY DEF ServerType
  <1>3. conn' \in [EdgeConns -> ConnStates]
    BY DEF ServerType
  <1>. QED
    BY <1>1, <1>2, <1>3 DEF BodiesChecked

\* Responses are right one by one.
LEMMA OneReply ==
  ASSUME ServerType, RepliesRight, NEW c \in EdgeConns, NEW new, UNCHANGED config,
         reply' = [reply EXCEPT ![c] = new],
         new.req \in EdgeRequests, new.ip = ClientIp(new.req), ToolInOrder(new, config),
         AnswersOwn(new)
  PROVE  RepliesRight' /\ DOMAIN reply' = EdgeConns
  <1>1. /\ reply'[c] = new /\ \A k \in EdgeConns \ {c} : reply'[k] = reply[k]
        /\ DOMAIN reply' = EdgeConns
    BY DEF ServerType
  <1>. SUFFICES ASSUME NEW k \in EdgeConns, reply'[k] # <<>>
                PROVE  /\ reply'[k].req \in EdgeRequests /\ reply'[k].ip = ClientIp(reply'[k].req)
                       /\ ToolInOrder(reply'[k], config') /\ AnswersOwn(reply'[k])
    BY <1>1, Zenon DEF RepliesRight
  <1>2. CASE k = c
    BY <1>1, <1>2, Zenon
  <1>3. CASE k # c
    BY <1>1, <1>3, Zenon DEF RepliesRight
  <1>. QED
    BY <1>2, <1>3

\* A response without a result is right if it is not a 200 of the endpoint.
LEMMA RefusalIsRight ==
  ASSUME ServerType, RepliesRight, NEW c \in EdgeConns, NEW q \in EdgeRequests, NEW status,
         UNCHANGED config, NEW rpc, rpc.tool = "none", Respond(c, q, status, rpc),
         status # 200 \/ q.path # "/mcp"
  PROVE  RepliesRight' /\ DOMAIN reply' = EdgeConns
  <1>. DEFINE new == [req |-> q, ip |-> ClientIp(q), status |-> status, rpc |-> rpc,
                      limit |-> EdgeCapacity > 0 /\ status \notin {429, 204},
                      cors |-> /\ status # 429 /\ q.path # "/health"
                               /\ OriginAllowed(q.origin)]
  <1>1. reply' = [reply EXCEPT ![c] = new]
    BY DEF Respond
  <1>2. new.req = q /\ new.ip = ClientIp(q) /\ new.status = status /\ new.rpc = rpc
    OBVIOUS
  <1>. HIDE DEF new
  <1>3. ToolInOrder(new, config)
    BY <1>2 DEF ToolInOrder
  <1>4. AnswersOwn(new)
    BY <1>2 DEF AnswersOwn
  <1>. QED
    BY <1>1, <1>2, <1>3, <1>4, OneReply

\* A response that was dispatched is right.
LEMMA DispatchedIsRight ==
  ASSUME KeysFit, ServerType, RepliesRight, NEW c \in EdgeConns, NEW q \in Passed,
         UNCHANGED config, ~(q.body > config.max), Respond(c, q, 200, Dispatch(q.rpc))
  PROVE  RepliesRight' /\ DOMAIN reply' = EdgeConns
  <1>. DEFINE rpc == Dispatch(q.rpc)
              new == [req |-> q, ip |-> ClientIp(q), status |-> 200, rpc |-> rpc,
                      limit |-> EdgeCapacity > 0 /\ 200 \notin {429, 204},
                      cors |-> /\ 200 # 429 /\ q.path # "/health"
                               /\ OriginAllowed(q.origin)]
  <1>1. reply' = [reply EXCEPT ![c] = new]
    BY DEF Respond
  <1>2. new.req = q /\ new.ip = ClientIp(q) /\ new.status = 200 /\ new.rpc = rpc
    OBVIOUS
  <1>. HIDE DEF new
  <1>3. /\ rpc.id = (IF q.rpc.method \in Notifications /\ q.rpc.jsonrpc = "2.0"
                      THEN NoId ELSE q.rpc.id)
        /\ (rpc.code = "-32600") <=> (q.rpc.jsonrpc # "2.0" \/ q.rpc.method = "")
        /\ (rpc.tool = "output") =>
             q.rpc.jsonrpc = "2.0" /\ q.rpc.method = "tools/call" /\ rpc.id = q.rpc.id
    BY DispatchFacts, Zenon
  <1>. HIDE DEF rpc
  <1>4. AnswersOwn(new)
    BY <1>2, <1>3, Zenon DEF AnswersOwn
  <1>5. q \in EdgeRequests /\ q.method = "POST"
    BY GoOn DEF Passed
  <1>6. PICK e \in EdgeEnvs : config = FromEnv(e)
    BY DEF ServerType
  <1>7. config.key = e.key /\ config.max = e.max
    BY <1>6 DEF FromEnv
  <1>8. q.key = config.key \/ config.key = <<>>
    <2>1. config.key # <<>> => TimingSafeEq(q.key, config.key)
      BY GoOn DEF Passed, AuthEnabled
    <2>2. q.key \in Seq(Nat) /\ config.key \in Seq(Nat) /\ Len(config.key) <= MaxKeyLen
      BY <1>5, <1>7, EdgeAssumption DEF KeysFit
    <2>. QED
      BY <2>1, <2>2, SameKey
  <1>9. q.body <= config.max
    BY <1>5, <1>7, EdgeAssumption
  <1>10. ToolInOrder(new, config)
    BY <1>2, <1>3, <1>5, <1>8, <1>9, Zenon DEF ToolInOrder
  <1>. QED
    BY <1>1, <1>2, <1>4, <1>5, <1>10, OneReply

LEMMA BudgetStays ==
  ASSUME BudgetInv, UNCHANGED <<buckets, now, spent>>
  PROVE  BudgetInv'
  <1>1. Level' = Level
    BY LevelsStay
  <1>. QED
    BY <1>1 DEF BudgetInv, BucketType, Covered, EdgeBudget

LEMMA RepliesStay ==
  ASSUME RepliesRight, ServerType, UNCHANGED <<reply, config>>
  PROVE  RepliesRight' /\ DOMAIN reply' = EdgeConns
  BY Zenon DEF RepliesRight, ServerType

LEMMA ConnsStay ==
  ASSUME ServerType, BodiesChecked, UNCHANGED <<conn, config>>
  PROVE  conn' \in [EdgeConns -> ConnStates] /\ BodiesChecked'
  <1>1. Passed' = Passed
    BY DEF Passed, Verdict, OriginAllowed, AuthEnabled
  <1>. QED
    BY <1>1 DEF ServerType, BodiesChecked

LEMMA EdgeInitially == EdgeInit => EdgeInv
  <1>. SUFFICES ASSUME EdgeInit PROVE EdgeInv
    OBVIOUS
  <1>1. \A c \in EdgeConns : conn[c] = Quiet /\ reply[c] = <<>>
    BY DEF EdgeInit
  <1>2. Quiet \in ConnStates /\ Quiet.phase = "closed"
    BY DEF Quiet, ConnStates
  <1>3. ServerType
    BY <1>2 DEF EdgeInit, ServerType
  <1>4. BodiesChecked /\ RepliesRight
    BY <1>1, <1>2 DEF BodiesChecked, RepliesRight
  <1>5. now = 0 /\ DOMAIN buckets = {} /\ spent = [ip \in Clients |-> <<>>]
    BY DEF EdgeInit, Clients
  <1>6. \A ip \in Clients : spent[ip] = <<>> /\ DOMAIN spent[ip] = {}
    BY <1>5
  <1>7. BucketType
    BY <1>5, <1>6 DEF BucketType
  <1>8. Covered /\ EdgeBudget
    BY <1>5, <1>6 DEF Covered, EdgeBudget
  <1>. QED
    BY <1>3, <1>4, <1>7, <1>8 DEF EdgeInv, BudgetInv

LEMMA AcceptKeeps ==
  ASSUME EdgeInv, NEW c \in EdgeConns, Accept(c)
  PROVE  EdgeInv'
  <1>. DEFINE new == [Quiet EXCEPT !.phase = "open", !.since = now]
  <1>1. new \in ConnStates /\ new.phase = "open"
    BY DEF ConnStates, Quiet, EdgeInv, BudgetInv, BucketType
  <1>2. conn' = [conn EXCEPT ![c] = new] /\ UNCHANGED <<config, now, buckets, reply, spent>>
    BY DEF Accept
  <1>. HIDE DEF new
  <1>3. conn' \in [EdgeConns -> ConnStates] /\ BodiesChecked'
    BY <1>1, <1>2, OneConnMoves DEF EdgeInv
  <1>. QED
    BY <1>2, <1>3, RepliesStay, BudgetStays DEF EdgeInv, ServerType

LEMMA DropKeeps ==
  ASSUME EdgeInv, NEW c \in EdgeConns, Drop(c)
  PROVE  EdgeInv'
  <1>. DEFINE new == [Quiet EXCEPT !.since = 1 + now]
  <1>1. new \in ConnStates /\ new.phase = "closed"
    BY DEF Quiet, ConnStates, EdgeInv, BudgetInv, BucketType
  <1>2. UNCHANGED <<config, now, buckets, reply, spent>>
    BY DEF Drop
  <1>3. conn' = [conn EXCEPT ![c] = new]
    BY DEF Drop
  <1>. HIDE DEF new
  <1>4. conn' \in [EdgeConns -> ConnStates] /\ BodiesChecked'
    BY <1>1, <1>2, <1>3, OneConnMoves DEF EdgeInv
  <1>. QED
    BY <1>2, <1>4, RepliesStay, BudgetStays DEF EdgeInv, ServerType

LEMMA BodyKeeps ==
  ASSUME KeysFit, EdgeInv, NEW c \in EdgeConns, Body(c)
  PROVE  EdgeInv'
  <1>. DEFINE q == conn[c].req
              new == [conn[c] EXCEPT !.phase = "open", !.req = <<>>]
  <1>1. new \in ConnStates /\ new.phase = "open"
    BY DEF ConnStates, EdgeInv, ServerType
  <1>2. UNCHANGED <<config, now, buckets, spent>> /\ q \in Passed
    BY DEF Body, EdgeInv, BodiesChecked
  <1>3. conn' = [conn EXCEPT ![c] = new]
    BY Zenon DEF Body, EdgeInv, ServerType
  <1>4. \/ Respond(c, q, 413, NoRpc) \/ Respond(c, q, 400, NoRpc)
        \/ Respond(c, q, 400, ErrorResponse(NoId, "-32700"))
        \/ ~(q.body > config.max) /\ Respond(c, q, 200, Dispatch(q.rpc))
    BY Zenon DEF Body
  <1>. HIDE DEF new, q
  <1>5. conn' \in [EdgeConns -> ConnStates] /\ BodiesChecked'
    BY <1>1, <1>2, <1>3, OneConnMoves DEF EdgeInv
  <1>6. q \in EdgeRequests
    BY <1>2 DEF Passed
  <1>7. NoRpc.tool = "none" /\ ErrorResponse(NoId, "-32700").tool = "none"
    BY DEF NoRpc, ErrorResponse
  <1>8. RepliesRight' /\ DOMAIN reply' = EdgeConns
    <2>. USE DEF EdgeInv
    <2>1. CASE Respond(c, q, 413, NoRpc)
      BY <1>2, <1>6, <1>7, <2>1, RefusalIsRight, 413 # 200
    <2>2. CASE Respond(c, q, 400, NoRpc)
      BY <1>2, <1>6, <1>7, <2>2, RefusalIsRight, 400 # 200
    <2>3. CASE Respond(c, q, 400, ErrorResponse(NoId, "-32700"))
      BY <1>2, <1>6, <1>7, <2>3, RefusalIsRight, 400 # 200
    <2>4. CASE ~(q.body > config.max) /\ Respond(c, q, 200, Dispatch(q.rpc))
      BY <1>2, <2>4, DispatchedIsRight, Zenon
    <2>. QED
      BY <1>4, <2>1, <2>2, <2>3, <2>4
  <1>. QED
    BY <1>2, <1>5, <1>8, BudgetStays DEF EdgeInv, ServerType

LEMMA ArriveKeeps ==
  ASSUME EdgeInv, NEW c \in EdgeConns, NEW q \in EdgeRequests, Arrive(c, q)
  PROVE  EdgeInv'
  <1>1. UNCHANGED <<config, now>>
    BY DEF Arrive
  <1>2. NoRpc.tool = "none"
    BY DEF NoRpc
  <1>3. CASE Limited(c, q)
    <2>1. /\ buckets' = [Swept(ClientIp(q)) EXCEPT ![ClientIp(q)] = Bucket(ClientIp(q))]
          /\ Respond(c, q, 429, NoRpc) /\ UNCHANGED <<conn, spent>>
      BY <1>3, Zenon DEF Limited
    <2>2. BudgetInv'
      BY <1>1, <2>1, ChargeKeeps DEF EdgeInv
    <2>3. RepliesRight' /\ DOMAIN reply' = EdgeConns
      BY <1>1, <1>2, <2>1, RefusalIsRight, 429 # 200 DEF EdgeInv
    <2>. QED
      BY <1>1, <2>1, <2>2, <2>3, ConnsStay DEF EdgeInv, ServerType
  <1>4. CASE Pass(q) /\ Verdict(q) # 0 /\ Respond(c, q, Verdict(q), NoRpc) /\ UNCHANGED conn
    <2>1. BudgetInv'
      BY <1>1, <1>4, ChargeKeeps DEF EdgeInv
    <2>2. Verdict(q) # 200 \/ q.path # "/mcp"
      BY OkIsHealth
    <2>3. RepliesRight' /\ DOMAIN reply' = EdgeConns
      BY <1>1, <1>2, <1>4, <2>2, RefusalIsRight, Zenon DEF EdgeInv
    <2>. QED
      BY <1>1, <1>4, <2>1, <2>3, ConnsStay DEF EdgeInv, ServerType
  <1>5. CASE /\ Pass(q) /\ Verdict(q) = 0 /\ UNCHANGED reply
             /\ conn' = [conn EXCEPT ![c].phase = "body", ![c].req = q]
    <2>. DEFINE new == [conn[c] EXCEPT !.phase = "body", !.req = q]
    <2>1. BudgetInv'
      BY <1>1, <1>5, ChargeKeeps DEF EdgeInv
    <2>2. conn' = [conn EXCEPT ![c] = new]
      BY <1>5, Zenon DEF EdgeInv, ServerType
    <2>3. new \in ConnStates /\ new.req \in Passed
      BY <1>5 DEF EdgeInv, ServerType, ConnStates, Passed
    <2>. HIDE DEF new
    <2>4. conn' \in [EdgeConns -> ConnStates] /\ BodiesChecked'
      BY <1>1, <2>2, <2>3, OneConnMoves DEF EdgeInv
    <2>. QED
      BY <1>1, <1>5, <2>1, <2>4, RepliesStay DEF EdgeInv, ServerType
  <1>. QED
    BY <1>3, <1>4, <1>5 DEF Arrive

LEMMA EdgeStepKeeps ==
  ASSUME KeysFit, EdgeInv, [EdgeNext]_edgeVars
  PROVE  EdgeInv'
  <1>1. ASSUME NEW c \in EdgeConns, Accept(c) PROVE EdgeInv'
    BY <1>1, AcceptKeeps
  <1>2. ASSUME NEW c \in EdgeConns, Body(c) PROVE EdgeInv'
    BY <1>2, BodyKeeps
  <1>3. ASSUME NEW c \in EdgeConns, Drop(c) PROVE EdgeInv'
    BY <1>3, DropKeeps
  <1>4. ASSUME NEW c \in EdgeConns, NEW q \in EdgeRequests, Arrive(c, q) PROVE EdgeInv'
    BY <1>4, ArriveKeeps
  <1>5. CASE EdgeTick
    <2>1. now' = now + 1 /\ UNCHANGED <<config, buckets, conn, reply, spent>>
      BY <1>5 DEF EdgeTick
    <2>. QED
      BY <2>1, EdgeTickKeeps, RepliesStay, ConnsStay DEF EdgeInv, ServerType
  <1>6. CASE UNCHANGED edgeVars
    BY <1>6, BudgetStays, RepliesStay, ConnsStay DEF EdgeInv, ServerType, edgeVars
  <1>. QED
    BY <1>1, <1>2, <1>3, <1>4, <1>5, <1>6, Zenon DEF EdgeNext

LEMMA EdgeInvIsHonest ==
  ASSUME EdgeInv
  PROVE  EdgeHonest
  <1>1. EdgeBudget /\ RemainingHonest
    BY RemainingIsHonest DEF EdgeInv, BudgetInv
  <1>. SUFFICES ASSUME NEW r \in Replies
                PROVE  /\ IF /\ Trusted(r.req.peer) /\ r.req.chain # <<>>
                             /\ Last(r.req.chain) \notin {"proxy", "junk"}
                          THEN r.ip = Last(r.req.chain)
                          ELSE Trusted(r.req.peer) \/ r.ip = r.req.peer
                       /\ ToolInOrder(r, config) /\ AnswersOwn(r)
    BY <1>1, Zenon DEF EdgeHonest, ClientCharged, ToolRunsInOrder, AnswersOwnRequest,
       ToolInOrder, AnswersOwn, AuthEnabled
  <1>2. /\ r.req \in EdgeRequests /\ r.ip = ClientIp(r.req)
        /\ ToolInOrder(r, config) /\ AnswersOwn(r)
    BY Zenon DEF Replies, EdgeInv, RepliesRight
  <1>. QED
    BY <1>2, LastIsClient, Zenon

\* Given keys of at most MaxKeyLen bytes, a client of the edge server never gets more
\* requests through than its bucket holds and refills, is charged to its own address and
\* told the truth about what is left, and a tool runs only behind the size limit, the key
\* and the version check, with the answer carrying the request's id (check, get_info,
\* extract_client_ip, handle_mcp_post, dispatch).
THEOREM EdgeHonestHolds == KeysFit => (EdgeSpec => []EdgeHonest)
  <1>. SUFFICES ASSUME KeysFit PROVE EdgeSpec => []EdgeHonest
    OBVIOUS
  <1>1. EdgeInit => EdgeInv
    BY EdgeInitially
  <1>2. EdgeInv /\ [EdgeNext]_edgeVars => EdgeInv'
    BY EdgeStepKeeps
  <1>3. EdgeInv => EdgeHonest
    BY EdgeInvIsHonest
  <1>. QED
    BY <1>1, <1>2, <1>3, PTL DEF EdgeSpec
=============================================================================
