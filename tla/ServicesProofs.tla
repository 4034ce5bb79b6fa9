--------------------------- MODULE ServicesProofs ---------------------------
(***************************************************************************)
(* What the services of the server keep, for any number of clients,        *)
(* threads, files and plugins: the broadcast of server-sent events and its *)
(* gauge, the caches and tables behind modules, runtimes and plugins, the  *)
(* prompts, the file tools that run side by side, and http_request and     *)
(* directory_tree.  They are independent of each other; the prompts, the   *)
(* plugins and directory_tree share the facts about sequences put          *)
(* together, which are proved by induction from the well-foundedness of    *)
(* the naturals.                                                           *)
(***************************************************************************)
EXTENDS SseBroadcast, RuntimeHost, Prompts, BuiltinTools, OutboundHttp,
        WellFoundedInduction, SequenceTheorems, FiniteSetTheorems, TLAPS

-----------------------------------------------------------------------------
(* SseBroadcast. The gauge of active streams is kept apart from the list of
   subscribers: it is exactly the number of clients whose heartbeat task has not
   taken them off, and an open stream is one of them. *)

\* The clients that were counted and not taken off again.
Begun == {c \in Clients : conn[c] # "new"}
Counted == {c \in Clients : conn[c] # "new" /\ beat[c] \notin {"unsubscribe", "end"}}

GaugeShape ==
    /\ active \in Int
    /\ conn \in [Clients -> {"new", "lock", "session", "open", "closed"}]
    /\ beat \in [Clients -> {"none", "run", "unsubscribe", "end"}]
    /\ \A c \in Clients : conn[c] \in {"new", "lock", "session"} => beat[c] = "none"
    /\ \A c \in Clients : conn[c] = "open" => beat[c] = "run"
    /\ IsFiniteSet(Begun)

\* Only the heartbeat takes a client off the gauge, once.
CountedInv == GaugeShape /\ active = Cardinality(Counted)

LEMMA CountedInit == Init => CountedInv
<1> SUFFICES ASSUME Init PROVE CountedInv
  OBVIOUS
<1>1. Begun = {} /\ Counted = {}
  BY DEF Init, Begun, Counted
<1>. QED BY <1>1, FS_EmptySet DEF Init, CountedInv, GaugeShape

LEMMA CountedStep == CountedInv /\ [Next]_vars => CountedInv'
<1> SUFFICES ASSUME CountedInv, [Next]_vars PROVE CountedInv'
  OBVIOUS
<1> USE DEF CountedInv
<1>0. IsFiniteSet(Counted) /\ Cardinality(Counted) \in Nat
  <2>1. Counted \subseteq Begun
    BY DEF Counted, Begun
  <2>. QED BY <2>1, FS_Subset, FS_CardinalityType DEF GaugeShape
<1>1. CASE UNCHANGED <<conn, beat, active>>
  BY <1>1 DEF GaugeShape, Begun, Counted
<1>2. ASSUME NEW c \in Clients, Connect(c) PROVE CountedInv'
  <2>1. Begun' = Begun \cup {c} /\ Counted' = Counted \cup {c} /\ c \notin Counted
    BY <1>2 DEF Connect, GaugeShape, Begun, Counted
  <2>2. IsFiniteSet(Begun') /\ Cardinality(Counted') = Cardinality(Counted) + 1
    BY <1>0, <2>1, FS_AddElement DEF GaugeShape
  <2>. QED BY <1>0, <1>2, <2>2 DEF Connect, GaugeShape
<1>3. ASSUME NEW c \in Clients, Subscribe(c) \/ Open(c) \/ Disconnect(c) PROVE CountedInv'
  <2>1. Begun' = Begun /\ Counted' = Counted /\ UNCHANGED active
    BY <1>3 DEF Subscribe, Open, Disconnect, GaugeShape, Begun, Counted, taskVars
  <2>. QED BY <1>3, <2>1 DEF Subscribe, Open, Disconnect, GaugeShape, taskVars
<1>4. ASSUME NEW c \in Clients, BeatFails(c) PROVE CountedInv'
  <2>1. Begun' = Begun /\ Counted' = Counted \ {c} /\ c \in Counted
    BY <1>4 DEF BeatFails, GaugeShape, Begun, Counted
  <2>2. Cardinality(Counted') = Cardinality(Counted) - 1
    BY <1>0, <2>1, FS_RemoveElement
  <2>. QED BY <1>0, <1>4, <2>1, <2>2 DEF BeatFails, GaugeShape
<1>5. ASSUME NEW c \in Clients, Unsubscribe(c) PROVE CountedInv'
  <2>1. Begun' = Begun /\ Counted' = Counted
    BY <1>5 DEF Unsubscribe, GaugeShape, Begun, Counted
  <2>. QED BY <1>5, <2>1 DEF Unsubscribe, GaugeShape
<1>6. CASE RegisterTool \/ WatchTick
  BY <1>1, <1>6 DEF RegisterTool, WatchTick, taskVars
<1>7. ASSUME NEW b \in Broadcasters, Complete(b) \/ Acquire(b) \/ Send(b) PROVE CountedInv'
  BY <1>1, <1>7 DEF Complete, Acquire, Send, taskVars
<1>8. ASSUME NEW c \in Clients, Read(c) \/ Hello(c) \/ Beat(c) PROVE CountedInv'
  BY <1>1, <1>8 DEF Read, Hello, Beat, taskVars
<1>9. CASE UNCHANGED vars
  BY <1>1, <1>9 DEF vars, taskVars
<1>. QED BY <1>2, <1>3, <1>4, <1>5, <1>6, <1>7, <1>8, <1>9 DEF Next

\* For any number of clients, producers and disconnects the gauge of active streams
\* never falls below the streams that are open: broadcast_event prunes a dead
\* subscriber without touching the gauge, and its heartbeat takes it off once.
THEOREM GaugeCoversOpenHolds == Spec => []GaugeCoversOpen
<1>1. CountedInv => GaugeCoversOpen
  <2> SUFFICES ASSUME CountedInv PROVE GaugeCoversOpen
    OBVIOUS
  <2>1. {c \in Clients : conn[c] = "open"} \subseteq Counted /\ Counted \subseteq Begun
    BY DEF CountedInv, GaugeShape, Counted, Begun
  <2>2. IsFiniteSet(Counted)
    BY <2>1, FS_Subset DEF CountedInv, GaugeShape
  <2>3. Cardinality({c \in Clients : conn[c] = "open"}) <= Cardinality(Counted)
    BY <2>1, <2>2, FS_Subset
  <2>. QED BY <2>2, <2>3, FS_CardinalityType DEF CountedInv, GaugeShape, GaugeCoversOpen
<1>. QED BY <1>1, CountedInit, CountedStep, PTL DEF Spec
-----------------------------------------------------------------------------
\* Nobody is in the middle of a broadcast without the write lock, so no two
\* broadcasts interleave and no subscription changes the list under one.
LockHeldWhileSending == \A b \in Broadcasters : pc[b] = "send" <=> holder = b

LockShape ==
    /\ pc \in [Broadcasters -> {"idle", "lock", "send", "end"}]
    /\ holder \in Broadcasters \cup {"none"}

LockInv == LockShape /\ LockHeldWhileSending

LEMMA LockInit == Init => LockInv
BY SseAssumption DEF Init, LockInv, LockShape, LockHeldWhileSending, Broadcasters

LEMMA LockStep == LockInv /\ [Next]_vars => LockInv'
<1> SUFFICES ASSUME LockInv, [Next]_vars PROVE LockInv'
  OBVIOUS
<1> USE DEF LockInv
<1>1. CASE UNCHANGED <<pc, holder>>
  BY <1>1 DEF LockShape, LockHeldWhileSending
<1>2. CASE WatchTick
  BY <1>2 DEF WatchTick, LockShape, LockHeldWhileSending, Broadcasters
<1>3. ASSUME NEW b \in Broadcasters, Complete(b) PROVE LockInv'
  BY <1>3 DEF Complete, LockShape, LockHeldWhileSending, Broadcasters
<1>4. ASSUME NEW b \in Broadcasters, Acquire(b) PROVE LockInv'
  <2>1. /\ pc[b] = "lock" /\ holder = "none" /\ Resting(b) \in {"idle", "end"}
        /\ \/ holder' = "none" /\ pc' = [pc EXCEPT ![b] = Resting(b)]
           \/ holder' = b /\ pc' = [pc EXCEPT ![b] = "send"]
    BY <1>4 DEF Acquire, Resting
  <2>. QED BY <2>1, SseAssumption DEF LockShape, LockHeldWhileSending, Broadcasters
<1>5. ASSUME NEW b \in Broadcasters, Send(b) PROVE LockInv'
  <2>1. /\ pc[b] = "send" /\ Resting(b) \in {"idle", "end"}
        /\ \/ holder' = "none" /\ pc' = [pc EXCEPT ![b] = Resting(b)]
           \/ holder' = b /\ pc' = [pc EXCEPT ![b] = "send"]
    BY <1>5 DEF Send, Resting
  <2>. QED BY <2>1, SseAssumption DEF LockShape, LockHeldWhileSending, Broadcasters
<1>6. CASE RegisterTool
  BY <1>1, <1>6 DEF RegisterTool
<1>7. ASSUME NEW c \in Clients,
             \/ Connect(c) \/ Subscribe(c) \/ Open(c) \/ Disconnect(c) \/ Read(c)
             \/ Hello(c) \/ Beat(c) \/ BeatFails(c) \/ Unsubscribe(c)
      PROVE  LockInv'
  BY <1>1, <1>7 DEF Connect, Subscribe, Open, Disconnect, Read, Hello, Beat, BeatFails, Unsubscribe
<1>8. CASE UNCHANGED vars
  BY <1>1, <1>8 DEF vars
<1>. QED BY <1>2, <1>3, <1>4, <1>5, <1>6, <1>7, <1>8 DEF Next

\* broadcast_event keeps the write lock of event_broadcast from its "retain" to its
\* last send: for any number of producers at most one of them, or the watcher, is
\* in between.
THEOREM LockHeldWhileSendingHolds == Spec => []LockHeldWhileSending
<1>1. LockInv => LockHeldWhileSending
  BY DEF LockInv
<1>. QED BY <1>1, LockInit, LockStep, PTL DEF Spec

-----------------------------------------------------------------------------
(* RuntimeHost. What a request finds was put there by the loads and registrations of
   others: each part of the invariant ties an entry to what its key or its name says. *)

\* A set of naturals has a least member; and induction, for the members of a set.
LEMMA Least ==
    ASSUME NEW T \in SUBSET Nat, T # {}
    PROVE  \E m \in T : \A k \in T : m <= k
<1>1. IsWellFoundedOn(OpToRel(<, Nat), Nat)
  BY NatLessThanWellFounded
<1>2. PICK m \in T : \A k \in T : ~ (<<k, m>> \in OpToRel(<, Nat))
  BY <1>1, WFMin
<1>3. \A k \in T : ~(k < m)
  BY <1>2 DEF OpToRel
<1>. QED BY <1>3

LEMMA SetInduction ==
    ASSUME NEW S, 0 \in S, \A n \in Nat : n \in S => n + 1 \in S
    PROVE  \A n \in Nat : n \in S
<1> SUFFICES ASSUME NEW n0 \in Nat, n0 \notin S PROVE FALSE
  OBVIOUS
<1> DEFINE T == {n \in Nat : n \notin S}
<1>1. PICK m \in T : \A k \in T : m <= k
  <2>1. T \in SUBSET Nat /\ T # {}
    OBVIOUS
  <2> HIDE DEF T
  <2>. QED BY <2>1, Least
<1>2. m # 0 /\ m - 1 \in Nat
  BY <1>1
<1>3. m - 1 \in S
  BY <1>1, <1>2
<1>. QED BY <1>1, <1>2, <1>3

\* The function FlattenSeq is defined by exists, and what it is step by step.
LEMMA FlatExists ==
    ASSUME NEW s, NEW N \in Nat
    PROVE  LET f[i \in 1..N] == IF i = 1 THEN s[i] ELSE f[i-1] \o s[i]
           IN f = [i \in 1..N |-> IF i = 1 THEN s[i] ELSE f[i-1] \o s[i]]
<1> DEFINE G(n, g) == g = [i \in 1..n |-> IF i = 1 THEN s[i] ELSE g[i-1] \o s[i]]
           S == {n \in Nat : \E g : G(n, g)}
<1>1. 0 \in S
  <2>1. G(0, <<>>)
    OBVIOUS
  <2>. QED BY <2>1
<1>2. \A n \in Nat : n \in S => n + 1 \in S
  <2> SUFFICES ASSUME NEW n \in Nat, n \in S PROVE n + 1 \in S
    OBVIOUS
  <2> PICK g : G(n, g)
    OBVIOUS
  <2> DEFINE h == [i \in 1..(n+1) |-> IF i \in 1..n THEN g[i] ELSE IF i = 1 THEN s[i] ELSE g[i-1] \o s[i]]
  <2>1. \A i \in 1..(n+1) : h[i] = IF i = 1 THEN s[i] ELSE h[i-1] \o s[i]
    <3> TAKE i \in 1..(n+1)
    <3>1. CASE i \in 1..n
      <4>1. h[i] = g[i] /\ (i # 1 => h[i-1] = g[i-1])
        BY <3>1
      <4>2. g[i] = IF i = 1 THEN s[i] ELSE g[i-1] \o s[i]
        BY <3>1
      <4>. QED BY <4>1, <4>2
    <3>2. CASE i = n + 1
      <4>1. i \notin 1..n
        BY <3>2
      <4>2. h[i] = IF i = 1 THEN s[i] ELSE g[i-1] \o s[i]
        BY <4>1
      <4>3. i # 1 => h[i-1] = g[i-1]
        BY <3>2
      <4>. QED BY <4>2, <4>3
    <3>. QED BY <3>1, <3>2
  <2>2. G(n + 1, h)
    BY <2>1
  <2>3. \E k : G(n + 1, k)
    <3> HIDE DEF h, G
    <3>. QED BY <2>2
  <2> HIDE DEF h, G
  <2>. QED BY <2>3
<1>3. N \in S
  <2> HIDE DEF S
  <2>. QED BY <1>1, <1>2, SetInduction
<1>4. \E g : G(N, g)
  BY <1>3
<1>. QED BY <1>4, Zenon

LEMMA FlattenSteps ==
    ASSUME NEW s, Len(s) \in Nat \ {0}
    PROVE  \E f : /\ f[1] = s[1] /\ \A i \in 1..Len(s) : i # 1 => f[i] = f[i-1] \o s[i]
                  /\ FlattenSeq(s) = f[Len(s)]
<1> DEFINE N == Len(s)
           f == CHOOSE g : g = [i \in 1..N |-> IF i = 1 THEN s[i] ELSE g[i-1] \o s[i]]
<1>1. f = [i \in 1..N |-> IF i = 1 THEN s[i] ELSE f[i-1] \o s[i]]
  <2> N \in Nat
    OBVIOUS
  <2> HIDE DEF N
  <2>. QED BY FlatExists
<1>2. FlattenSeq(s) = f[N]
  BY DEF FlattenSeq
<1>3. \A i \in 1..N : f[i] = IF i = 1 THEN s[i] ELSE f[i-1] \o s[i]
  <2> HIDE DEF f, N
  <2>. QED BY <1>1
<1>4. f[1] = s[1] /\ \A i \in 1..Len(s) : i # 1 => f[i] = f[i-1] \o s[i]
  <2>1. N = Len(s) /\ 1 \in 1..N
    OBVIOUS
  <2> HIDE DEF f, N
  <2>2. f[1] = s[1]
    BY <1>3, <2>1
  <2>3. \A i \in 1..N : i # 1 => f[i] = f[i-1] \o s[i]
    BY <1>3, Zenon
  <2>. QED BY <2>1, <2>2, <2>3, Zenon
<1> HIDE DEF f
<1>. QED BY <1>2, <1>4

\* Min, and the first index that call_tool finds.
LEMMA LeastOf ==
    ASSUME NEW T \in SUBSET Nat, T # {}
    PROVE  Min(T) \in T /\ \A k \in T : Min(T) <= k
BY Least DEF Min

LEMMA LeastIs ==
    ASSUME NEW T \in SUBSET Nat, NEW m \in T, \A k \in T : m <= k
    PROVE  Min(T) = m
<1>1. Min(T) \in T /\ \A k \in T : Min(T) <= k
  <2>1. T # {}
    OBVIOUS
  <2>. QED BY <2>1, LeastOf
<1>2. Min(T) \in Nat /\ m \in Nat /\ Min(T) <= m /\ m <= Min(T)
  BY <1>1
<1>. QED BY <1>2

LEMMA LeastOne == \A m \in Nat : Min({m}) = m
<1> SUFFICES ASSUME NEW m \in Nat PROVE Min({m}) = m
  OBVIOUS
<1> DEFINE T == {m}
<1>1. T \in SUBSET Nat /\ m \in T /\ \A k \in T : m <= k
  OBVIOUS
<1> HIDE DEF T
<1>2. Min(T) = m
  BY <1>1, LeastIs
<1>. QED BY <1>2 DEF T

LEMMA FirstOfIsMin == \A is : FirstOf(is) = Min(is)
BY Zenon DEF FirstOf, Min

\* The first tool of a name.
First(s, n) == IF Named(s, n) = {} THEN NoTool ELSE s[Min(Named(s, n))]

\* Two sequences put together: the first of a name is that of the first sequence, if it has one.
LEMMA NamedNat ==
    ASSUME NEW R, NEW s \in Seq(R), NEW n
    PROVE  Named(s, n) \in SUBSET Nat /\ Named(s, n) \subseteq 1..Len(s)
BY DEF Named

LEMMA FirstConcat ==
    ASSUME NEW R, NEW s \in Seq(R), NEW t \in Seq(R), NEW n
    PROVE  /\ Named(s \o t, n) = {} <=> Named(s, n) = {} /\ Named(t, n) = {}
           /\ First(s \o t, n) = IF Named(s, n) # {} THEN First(s, n) ELSE First(t, n)
<1> DEFINE u == s \o t
<1>1. /\ u \in Seq(R) /\ Len(u) = Len(s) + Len(t)
      /\ \A i \in 1..Len(s) : u[i] = s[i]
      /\ \A i \in 1..Len(t) : u[Len(s) + i] = t[i]
      /\ \A i \in 1..Len(u) : i \in 1..Len(s) \/ i - Len(s) \in 1..Len(t)
  OBVIOUS
<1> Len(s) \in Nat /\ Len(t) \in Nat /\ DOMAIN s = 1..Len(s) /\ DOMAIN t = 1..Len(t)
  OBVIOUS
<1>2. DOMAIN u = 1..Len(u)
  BY <1>1
<1> HIDE DEF u
<1>3. \A i \in 1..Len(s) : i \in Named(u, n) <=> i \in Named(s, n)
  BY <1>1, <1>2 DEF Named
<1>4. \A i \in 1..Len(t) : Len(s) + i \in Named(u, n) <=> i \in Named(t, n)
  BY <1>1, <1>2 DEF Named
<1>5. \A i \in Named(u, n) : i \in 1..Len(s) \/ i - Len(s) \in 1..Len(t)
  BY <1>1, <1>2 DEF Named
<1>6. /\ Named(u, n) \in SUBSET Nat /\ Named(s, n) \in SUBSET Nat /\ Named(t, n) \in SUBSET Nat
      /\ Named(s, n) \subseteq 1..Len(s) /\ Named(t, n) \subseteq 1..Len(t)
  BY <1>1, NamedNat
<1>7. CASE Named(s, n) # {}
  <2> DEFINE m == Min(Named(s, n))
  <2>1. m \in Named(s, n) /\ \A k \in Named(s, n) : m <= k
    BY <1>6, <1>7, LeastOf
  <2> HIDE DEF m
  <2>2. m \in Named(u, n) /\ \A k \in Named(u, n) : m <= k
    BY <2>1, <1>3, <1>5, <1>6
  <2>3. Min(Named(u, n)) = m
    BY <2>2, <1>6, LeastIs
  <2>4. u[m] = s[m]
    BY <2>1, <1>1, <1>6
  <2>. QED BY <2>2, <2>3, <2>4, <1>7 DEF First, m, u
<1>8. CASE Named(s, n) = {} /\ Named(t, n) # {}
  <2> DEFINE m == Min(Named(t, n))
  <2>1. m \in Named(t, n) /\ \A k \in Named(t, n) : m <= k
    BY <1>6, <1>8, LeastOf
  <2> HIDE DEF m
  <2>2. Len(s) + m \in Named(u, n)
    BY <2>1, <1>4, <1>6
  <2>3. \A k \in Named(u, n) : Len(s) + m <= k
    <3> SUFFICES ASSUME NEW k \in Named(u, n) PROVE Len(s) + m <= k
      OBVIOUS
    <3>1. k - Len(s) \in 1..Len(t)
      BY <1>5, <1>3, <1>8
    <3>2. k - Len(s) \in Named(t, n)
      BY <3>1, <1>4, <1>6
    <3>. QED BY <3>1, <3>2, <2>1, <1>6
  <2>4. Min(Named(u, n)) = Len(s) + m
    BY <2>2, <2>3, <1>6, LeastIs
  <2>5. u[Len(s) + m] = t[m]
    BY <2>1, <1>1, <1>6
  <2>. QED BY <2>2, <2>4, <2>5, <1>8 DEF First, m, u
<1>9. CASE Named(s, n) = {} /\ Named(t, n) = {}
  <2>1. Named(u, n) = {}
    BY <1>9, <1>3, <1>4, <1>5, <1>6
  <2>. QED BY <2>1, <1>9 DEF First, u
<1>. QED BY <1>7, <1>8, <1>9

LEMMA ElementIn == ASSUME NEW X, NEW s \in Seq(X) PROVE \A j \in DOMAIN s : s[j] \in X
OBVIOUS

LEMMA AppendIn == ASSUME NEW X, NEW s \in Seq(X), NEW x \in X PROVE Append(s, x) \in Seq(X)
OBVIOUS

LEMMA OneMore == \A m \in Nat : 1..(m + 1) = (1..m) \cup {m + 1}
OBVIOUS

\* f[i] is the first i of the sequences put together, and the sequences with the name.
Joins(f, ts, N) == f[1] = ts[1] /\ \A i \in 1..N : i # 1 => f[i] = f[i-1] \o ts[i]
Having(ts, N, n) == {i \in 1..N : Named(ts[i], n) # {}}

\* The first tool of a name in the plugins' tools put together is the first one of
\* the first plugin that has one.
LEMMA FirstFlattened ==
    ASSUME NEW R, NEW N \in Nat \ {0}, NEW ts \in [1..N -> Seq(R)], NEW n, NEW f, Joins(f, ts, N)
    PROVE  First(f[N], n) = IF Having(ts, N, n) = {} THEN NoTool ELSE First(ts[Min(Having(ts, N, n))], n)
<1>0. f[1] = ts[1] /\ \A i \in 1..N : i # 1 => f[i] = f[i-1] \o ts[i]
  BY Zenon DEF Joins
<1> DEFINE has(m) == {i \in 1..m : Named(ts[i], n) # {}}
           P(m) == /\ f[m] \in Seq(R)
                   /\ Named(f[m], n) = {} <=> has(m) = {}
                   /\ First(f[m], n) = IF has(m) = {} THEN NoTool ELSE First(ts[Min(has(m))], n)
           S == {m \in Nat : m + 1 \in 1..N => P(m + 1)}
<1>1. 0 \in S
  <2>1. f[1] = ts[1] /\ ts[1] \in Seq(R)
    BY <1>0
  <2>2. has(1) = IF Named(ts[1], n) # {} THEN {1} ELSE {}
    <3>1. 1..1 = {1}
      OBVIOUS
    <3>. QED BY <3>1, Zenon
  <2>3. Min({1}) = 1
    BY LeastOne
  <2>4. P(1)
    <3>1. CASE Named(ts[1], n) = {}
      BY <2>1, <2>2, <3>1 DEF First
    <3>2. CASE Named(ts[1], n) # {}
      BY <2>1, <2>2, <2>3, <3>2
    <3>. QED BY <3>1, <3>2
  <2> HIDE DEF P
  <2>. QED BY <2>4
<1>2. \A k \in Nat : k \in S => k + 1 \in S
  <2> SUFFICES ASSUME NEW k \in Nat, k \in S, k + 2 \in 1..N PROVE P(k + 2)
    <3> HIDE DEF P
    <3>1. \A k \in Nat : (k + 1) + 1 = k + 2
      OBVIOUS
    <3>. QED BY <3>1
  <2> DEFINE m == k + 1
  <2>0. m \in 1..N /\ m + 1 \in 1..N /\ m + 1 = k + 2 /\ m + 1 # 1 /\ (m + 1) - 1 = m
    OBVIOUS
  <2>1. P(m)
    <3> HIDE DEF P
    <3>. QED BY <2>0
  <2> HIDE DEF m
  <2>2. f[m + 1] = f[m] \o ts[m + 1] /\ ts[m + 1] \in Seq(R)
    BY <1>0, <2>0
  <2>3. f[m] \in Seq(R)
    BY <2>1
  <2> DEFINE a == f[m]
             b == ts[m + 1]
             c == f[m + 1]
  <2>4. /\ c \in Seq(R)
        /\ Named(c, n) = {} <=> Named(a, n) = {} /\ Named(b, n) = {}
        /\ First(c, n) = IF Named(a, n) # {} THEN First(a, n) ELSE First(b, n)
    <3>1. a \in Seq(R) /\ b \in Seq(R) /\ c = a \o b
      BY <2>2, <2>3
    <3> HIDE DEF a, b, c, S, P, has
    <3>2. a \o b \in Seq(R)
      BY <3>1, ConcatProperties
    <3>3. Named(a \o b, n) = {} <=> Named(a, n) = {} /\ Named(b, n) = {}
      BY <3>1, FirstConcat
    <3>4. First(a \o b, n) = IF Named(a, n) # {} THEN First(a, n) ELSE First(b, n)
      BY <3>1, FirstConcat
    <3>. QED BY <3>1, <3>2, <3>3, <3>4
  <2>5. has(m + 1) = has(m) \cup (IF Named(ts[m + 1], n) # {} THEN {m + 1} ELSE {})
    <3>0. m \in Nat
      BY <2>0
    <3>1. 1..(m + 1) = (1..m) \cup {m + 1}
      BY <3>0, OneMore, Zenon
    <3>. QED BY <3>1, Zenon
  <2>6. has(m) \in SUBSET Nat /\ has(m + 1) \in SUBSET Nat /\ \A i \in has(m) : i < m + 1
    BY <2>0
  <2>7. CASE has(m) # {}
    <3>1. Min(has(m)) \in has(m) /\ \A i \in has(m) : Min(has(m)) <= i
      <4> HIDE DEF has
      <4>. QED BY <2>6, <2>7, LeastOf
    <3>2. Min(has(m)) \in has(m + 1) /\ \A i \in has(m + 1) : Min(has(m)) <= i
      <4> HIDE DEF has
      <4>. QED BY <3>1, <2>0, <2>5, <2>6
    <3>3. Min(has(m + 1)) = Min(has(m))
      <4> HIDE DEF has
      <4>. QED BY <3>2, <2>6, LeastIs
    <3> HIDE DEF has
    <3>. QED BY <2>0, <2>1, <2>3, <2>4, <3>2, <3>3, <2>7
  <2>8. CASE has(m) = {} /\ Named(ts[m + 1], n) # {}
    <3>1. has(m + 1) = {m + 1}
      BY <2>5, <2>8
    <3>2. Min({m + 1}) = m + 1
      BY <2>0, LeastOne
    <3> HIDE DEF has
    <3>. QED BY <2>0, <2>1, <2>3, <2>4, <3>1, <3>2, <2>8
  <2>9. CASE has(m) = {} /\ Named(ts[m + 1], n) = {}
    <3>1. has(m + 1) = {}
      BY <2>5, <2>9
    <3> HIDE DEF has
    <3>. QED BY <2>0, <2>1, <2>3, <2>4, <3>1, <2>9 DEF First
  <2>. QED BY <2>7, <2>8, <2>9
<1>3. \A k \in Nat : k \in S
  <2> HIDE DEF S
  <2>. QED BY <1>1, <1>2, SetInduction
<1>4. P(N)
  <2>1. N - 1 \in S /\ (N - 1) + 1 = N /\ N \in 1..N
    <3>1. N - 1 \in Nat /\ (N - 1) + 1 = N /\ N \in 1..N
      OBVIOUS
    <3> HIDE DEF S
    <3>. QED BY <3>1, <1>3
  <2> HIDE DEF P
  <2>. QED BY <2>1
<1>5. has(N) = Having(ts, N, n)
  BY Zenon DEF Having
<1> HIDE DEF has
<1>. QED BY <1>4, <1>5

---------------------------------------------------------------------------
\* A manifest that is kept has tools that can be executed, and its pair with its path.
Good == {m \in Manifests : Valid(m)}
Entries == Seq([path : PluginFiles, manifest : Good])
PairOf(e) == <<e.path, e.manifest>>

\* Without a change of the limit between an engine and its key, every key tells the
\* limit that is compiled into its entry.
MeteredInv ==
    /\ DOMAIN loader = Loaders /\ DOMAIN loaded = Loaders
    /\ \A t \in Loaders :
          DOMAIN loader[t] = {"pc", "module", "engine", "key"}
          /\ loader[t] = [pc |-> loader[t].pc, module |-> loader[t].module,
                          engine |-> loader[t].engine, key |-> loader[t].key]
    /\ ~skewed =>
          /\ \A k \in DOMAIN cache : cache[k] = k[2]
          /\ \A t \in Loaders : loader[t].pc \in {"lookup", "compile"} => loader[t].engine = loader[t].key
          /\ \A t \in Loaders : loaded[t].baked = loaded[t].wanted

\* The names of an entry, the tools of its guest and the table agree.
RoutedInv ==
    /\ live = runtimes
    /\ ~replaced =>
          /\ \A n \in DOMAIN toolLang :
                toolLang[n] \in DOMAIN runtimes /\ n \in runtimes[toolLang[n]]
          /\ \A l \in DOMAIN runtimes : \A n \in runtimes[l] : n \in DOMAIN toolLang /\ toolLang[n] = l

ScanShape(s) ==
    /\ s \in [pc : {"idle", "next", "read"}, todo : SUBSET PluginFiles, cur : PluginFiles \cup {"none"},
              got : Entries, seen : SUBSET (PluginFiles \X Manifests), after : Nat]
    /\ s.pc = "read" => s.cur \in PluginFiles
PluginShape ==
    /\ DOMAIN pluginDir \subseteq PluginFiles
    /\ pluginDir = [f \in DOMAIN pluginDir |-> pluginDir[f]]
    /\ \A f \in DOMAIN pluginDir : pluginDir[f] \in Manifests
    /\ scan = [r \in Scanners |-> scan[r]]
    /\ \A r \in Scanners : ScanShape(scan[r])
    /\ edits \in Nat
    /\ plugins \in Entries
    /\ window \in SUBSET (PluginFiles \X Manifests)

\* What a scan has found was there since it began, and so was what it stored.
WindowInv ==
    /\ \A r \in Scanners : scan[r].pc # "idle" => Pairs(pluginDir) \subseteq scan[r].seen
    /\ \A r \in Scanners : \A i \in DOMAIN scan[r].got : PairOf(scan[r].got[i]) \in scan[r].seen
    /\ \A i \in DOMAIN plugins : PairOf(plugins[i]) \in window

CalledInv == called # NoTool => Executable(called)

LEMMA MeteredInit == HostInit => MeteredInv
BY DEF HostInit, MeteredInv, IdleLoad

LEMMA MeteredStep == MeteredInv /\ (LoadNext \/ UNCHANGED loadVars) => MeteredInv'
<1> SUFFICES ASSUME MeteredInv, LoadNext \/ UNCHANGED loadVars PROVE MeteredInv'
  OBVIOUS
<1>0. CASE UNCHANGED loadVars
  BY <1>0 DEF loadVars, MeteredInv
<1>1. CASE \E l \in Limits : SetLimit(l)
  BY <1>1 DEF SetLimit, MeteredInv
<1>2. ASSUME NEW t \in Loaders, NEW module \in Modules, NEW kind \in {"interpreter", "compiled"},
             StartLoad(t, module, kind)
      PROVE  MeteredInv'
  BY <1>2 DEF StartLoad, MeteredInv
<1>3. ASSUME NEW t \in Loaders, ReadKey(t)
      PROVE  MeteredInv'
  BY <1>3 DEF ReadKey, MeteredInv
<1>4. ASSUME NEW t \in Loaders, Lookup(t)
      PROVE  MeteredInv'
  BY <1>4 DEF Lookup, CacheKey, Got, IdleLoad, MeteredInv
<1>5. ASSUME NEW t \in Loaders, CompileModule(t)
      PROVE  MeteredInv'
  BY <1>5 DEF CompileModule, CacheKey, Got, IdleLoad, MeteredInv
<1>. QED BY <1>0, <1>1, <1>2, <1>3, <1>4, <1>5 DEF LoadNext

LEMMA RoutedInit == HostInit => RoutedInv
BY DEF HostInit, RoutedInv

LEMMA RoutedStep == RoutedInv /\ (RegistryNext \/ UNCHANGED registryVars) => RoutedInv'
<1> SUFFICES ASSUME RoutedInv, RegistryNext \/ UNCHANGED registryVars PROVE RoutedInv'
  OBVIOUS
<1>0. CASE UNCHANGED registryVars
  BY <1>0 DEF registryVars, RoutedInv
<1>1. ASSUME NEW l \in HostLanguages, RegisterRuntime(l)
      PROVE  RoutedInv'
  BY <1>1 DEF RegisterRuntime, RoutedInv
<1>2. ASSUME NEW l \in HostLanguages, NEW n \in HostTools, RegisterIn(l, n)
      PROVE  RoutedInv'
  <2>1. live' = runtimes'
    BY <1>2 DEF RegisterIn, RoutedInv
  <2>2. /\ DOMAIN runtimes' = DOMAIN runtimes /\ l \in DOMAIN runtimes
        /\ \A k \in DOMAIN runtimes : runtimes'[k] = IF k = l THEN runtimes[l] \cup {n} ELSE runtimes[k]
        /\ DOMAIN toolLang' = DOMAIN toolLang \cup {n}
        /\ \A m \in DOMAIN toolLang' : toolLang'[m] = IF m = n THEN l ELSE toolLang[m]
        /\ ~replaced' => ~replaced /\ (n \in DOMAIN toolLang => toolLang[n] = l)
    BY <1>2 DEF RegisterIn
  <2>. QED BY <2>1, <2>2 DEF RoutedInv
<1>3. ASSUME NEW l \in HostLanguages, DestroyRuntime(l)
      PROVE  RoutedInv'
  BY <1>3 DEF DestroyRuntime, Forget, RoutedInv
<1>. QED BY <1>0, <1>1, <1>2, <1>3 DEF RegistryNext

PluginInv == PluginShape /\ WindowInv /\ CalledInv

LEMMA PluginInit == HostInit => PluginInv
BY DEF HostInit, PluginInv, PluginShape, WindowInv, CalledInv, ScanShape, NoScan, Entries

\* The tools of an entry are a sequence, and each can be executed.
LEMMA GoodTools ==
    ASSUME NEW m \in Good
    PROVE  m.tools \in Seq(Range(m.tools)) /\ \A tool \in Range(m.tools) : Executable(tool)
BY HostAssumption DEF Good, Valid

\* What call_tool resolves is one of the tools of a registered plugin.
LEMMA ResolvedExecutable ==
    ASSUME plugins \in Entries, NEW n, ResolvePlugin(n) # NoTool
    PROVE  Executable(ResolvePlugin(n))
<1> DEFINE has == {i \in DOMAIN plugins : Named(plugins[i].manifest.tools, n) # {}}
           i == FirstOf(has)
           tools == plugins[i].manifest.tools
<1>1. has # {} /\ ResolvePlugin(n) = tools[Min(Named(tools, n))]
  BY Zenon DEF ResolvePlugin
<1>2. has \in SUBSET Nat
  BY DEF Entries
<1>3. i \in has
  <2> HIDE DEF has
  <2>1. Min(has) \in has
    BY <1>1, <1>2, LeastOf
  <2>2. FirstOf(has) = Min(has)
    BY FirstOfIsMin
  <2>. QED BY <2>1, <2>2
<1>4. plugins[i].manifest \in Good /\ Named(tools, n) # {}
  <2>1. i \in DOMAIN plugins /\ Named(tools, n) # {}
    BY <1>3
  <2> HIDE DEF has, i
  <2>2. plugins[i] \in [path : PluginFiles, manifest : Good]
    <3>1. plugins \in Seq([path : PluginFiles, manifest : Good])
      BY DEF Entries
    <3>2. \A j \in DOMAIN plugins : plugins[j] \in [path : PluginFiles, manifest : Good]
      BY <3>1, ElementIn, Zenon
    <3>. QED BY <2>1, <3>2, Zenon
  <2>. QED BY <2>1, <2>2
<1>5. tools \in Seq(Range(tools)) /\ \A tool \in Range(tools) : Executable(tool)
  BY <1>4, GoodTools
<1> HIDE DEF tools, i, has
<1>6. Min(Named(tools, n)) \in Named(tools, n)
  <2>1. Named(tools, n) \in SUBSET Nat
    BY <1>5, NamedNat
  <2>. QED BY <2>1, <1>4, LeastOf DEF tools
<1>7. tools[Min(Named(tools, n))] \in Range(tools)
  BY <1>6 DEF Named, Range
<1>. QED BY <1>1, <1>5, <1>7

\* A step leaves every other request's scan alone.
LEMMA ScanOf ==
    ASSUME PluginShape, NEW r \in Scanners, NEW v, scan' = [scan EXCEPT ![r] = v]
    PROVE  /\ scan' = [q \in Scanners |-> scan'[q]]
           /\ \A q \in Scanners : scan'[q] = IF q = r THEN v ELSE scan[q]
BY DEF PluginShape

LEMMA EditStep ==
    ASSUME PluginInv, NEW dir, dir = [f \in DOMAIN dir |-> dir[f]], DOMAIN dir \subseteq PluginFiles,
           \A f \in DOMAIN dir : dir[f] \in Manifests, Edited(dir)
    PROVE  PluginInv'
<1>1. /\ scan' = [q \in Scanners |-> scan'[q]]
      /\ \A q \in Scanners : scan'[q] = [scan[q] EXCEPT !.seen = @ \cup Pairs(dir)]
  BY DEF Edited, PluginInv, PluginShape
<1>2. Pairs(dir) \in SUBSET (PluginFiles \X Manifests)
  BY DEF Pairs
<1>3. \A q \in Scanners :
         /\ ScanShape(scan[q]) => ScanShape(scan'[q])
         /\ ScanShape(scan[q]) =>
               scan'[q].pc = scan[q].pc /\ scan'[q].got = scan[q].got
               /\ scan'[q].seen = scan[q].seen \cup Pairs(dir)
  <2> SUFFICES ASSUME NEW q \in Scanners, ScanShape(scan[q])
               PROVE  /\ ScanShape(scan'[q])
                      /\ scan'[q].pc = scan[q].pc /\ scan'[q].got = scan[q].got
                      /\ scan'[q].seen = scan[q].seen \cup Pairs(dir)
    OBVIOUS
  <2>. QED BY <1>1, <1>2 DEF ScanShape
<1>4. /\ pluginDir' = dir /\ edits' = edits + 1
      /\ UNCHANGED <<plugins, called, window>>
  BY DEF Edited
<1>5. PluginShape'
  BY <1>1, <1>3, <1>4 DEF PluginInv, PluginShape
<1>6. WindowInv'
  <2>1. \A q \in Scanners : Pairs(pluginDir') \subseteq scan'[q].seen
    BY <1>3, <1>4 DEF PluginInv, PluginShape
  <2>2. \A q \in Scanners : \A i \in DOMAIN scan'[q].got : PairOf(scan'[q].got[i]) \in scan'[q].seen
    BY <1>3, <1>4 DEF PluginInv, PluginShape, WindowInv
  <2>. QED BY <2>1, <2>2, <1>4 DEF PluginInv, WindowInv
<1>. QED BY <1>4, <1>5, <1>6 DEF PluginInv, CalledInv

LEMMA PluginStep == PluginInv /\ (PluginsNext \/ UNCHANGED pluginVars) => PluginInv'
<1> SUFFICES ASSUME PluginInv, PluginsNext \/ UNCHANGED pluginVars PROVE PluginInv'
  OBVIOUS
<1>0. CASE UNCHANGED pluginVars
  BY <1>0 DEF pluginVars, PluginInv, PluginShape, WindowInv, CalledInv
<1>1. ASSUME NEW f \in PluginFiles, RemoveManifest(f)
      PROVE  PluginInv'
  <2> DEFINE dir == [g \in DOMAIN pluginDir \ {f} |-> pluginDir[g]]
  <2>1. dir = [g \in DOMAIN dir |-> dir[g]] /\ DOMAIN dir \subseteq PluginFiles
        /\ (\A g \in DOMAIN dir : dir[g] \in Manifests) /\ Edited(dir)
    BY <1>1 DEF RemoveManifest, PluginInv, PluginShape
  <2> HIDE DEF dir
  <2>. QED BY <2>1, EditStep
<1>2. ASSUME NEW f \in PluginFiles, NEW m \in Manifests, PutManifest(f, m)
      PROVE  PluginInv'
  <2> DEFINE dir == [g \in DOMAIN pluginDir \cup {f} |-> IF g = f THEN m ELSE pluginDir[g]]
  <2>1. dir = [g \in DOMAIN dir |-> dir[g]] /\ DOMAIN dir \subseteq PluginFiles
        /\ (\A g \in DOMAIN dir : dir[g] \in Manifests) /\ Edited(dir)
    BY <1>2 DEF PutManifest, PluginInv, PluginShape
  <2> HIDE DEF dir
  <2>. QED BY <2>1, EditStep
<1>3. ASSUME NEW r \in Scanners, StartScan(r)
      PROVE  PluginInv'
  <2> DEFINE v == [NoScan EXCEPT !.pc = "next", !.todo = DOMAIN pluginDir,
                                 !.seen = Pairs(pluginDir), !.after = edits]
  <2>1. scan' = [scan EXCEPT ![r] = v] /\ UNCHANGED <<pluginDir, plugins, called, window, edits>>
    BY <1>3 DEF StartScan
  <2>2. /\ v.got = <<>> /\ v.seen = Pairs(pluginDir) /\ v.pc = "next"
        /\ v.todo = DOMAIN pluginDir /\ v.cur = "none" /\ v.after = edits
        /\ DOMAIN v = {"pc", "todo", "cur", "got", "seen", "after"}
    BY DEF NoScan
  <2>3. ScanShape(v)
    <3>1. Pairs(pluginDir) \in SUBSET (PluginFiles \X Manifests)
      BY DEF PluginInv, PluginShape, Pairs
    <3>2. <<>> \in Entries
      BY DEF Entries
    <3>. QED BY <2>2, <3>1, <3>2 DEF PluginInv, PluginShape, ScanShape
  <2> HIDE DEF v
  <2>4. /\ scan' = [q \in Scanners |-> scan'[q]]
        /\ \A q \in Scanners : scan'[q] = IF q = r THEN v ELSE scan[q]
    BY <2>1, ScanOf DEF PluginInv
  <2>5. PluginShape'
    BY <2>1, <2>3, <2>4 DEF PluginInv, PluginShape
  <2>. QED BY <2>1, <2>2, <2>4, <2>5 DEF PluginInv, WindowInv, CalledInv, Pairs
<1>4. ASSUME NEW r \in Scanners, StatManifest(r)
      PROVE  PluginInv'
  <2>1. PICK f \in scan[r].todo :
          scan' = [scan EXCEPT ![r] = [@ EXCEPT
                    !.todo = scan[r].todo \ {f}, !.cur = f,
                    !.pc = IF f \in DOMAIN pluginDir /\ ~pluginDir[f].huge THEN "read" ELSE "next"]]
    BY <1>4 DEF StatManifest
  <2> DEFINE v == [scan[r] EXCEPT
                    !.todo = @ \ {f}, !.cur = f,
                    !.pc = IF f \in DOMAIN pluginDir /\ ~pluginDir[f].huge THEN "read" ELSE "next"]
  <2>2. scan' = [scan EXCEPT ![r] = v] /\ UNCHANGED <<pluginDir, plugins, called, window, edits>>
    BY <1>4, <2>1 DEF StatManifest, PluginInv, PluginShape
  <2>3. ScanShape(scan[r]) /\ scan[r].pc = "next" /\ f \in PluginFiles
    BY <1>4 DEF StatManifest, PluginInv, PluginShape, ScanShape
  <2>4. ScanShape(v) /\ v.got = scan[r].got /\ v.seen = scan[r].seen
    BY <2>3 DEF ScanShape
  <2> HIDE DEF v
  <2>5. /\ scan' = [q \in Scanners |-> scan'[q]]
        /\ \A q \in Scanners : scan'[q] = IF q = r THEN v ELSE scan[q]
    BY <2>2, ScanOf DEF PluginInv
  <2>6. PluginShape'
    BY <2>2, <2>4, <2>5 DEF PluginInv, PluginShape
  <2>. QED BY <2>2, <2>3, <2>4, <2>5, <2>6 DEF PluginInv, WindowInv, CalledInv, Pairs
<1>5. ASSUME NEW r \in Scanners, ReadManifest(r)
      PROVE  PluginInv'
  <2> DEFINE f == scan[r].cur
             e == [path |-> f, manifest |-> pluginDir[f]]
             good == f \in DOMAIN pluginDir /\ Valid(pluginDir[f])
             v == [scan[r] EXCEPT !.pc = "next", !.got = IF good THEN Append(@, e) ELSE @]
  <2>1. scan' = [scan EXCEPT ![r] = v] /\ UNCHANGED <<pluginDir, plugins, called, window, edits>>
    BY <1>5 DEF ReadManifest, PluginInv, PluginShape
  <2>2. ScanShape(scan[r]) /\ scan[r].pc = "read" /\ f \in PluginFiles
    BY <1>5 DEF ReadManifest, PluginInv, PluginShape, ScanShape
  <2>3. good => e \in [path : PluginFiles, manifest : Good] /\ PairOf(e) \in scan[r].seen
    <3> SUFFICES ASSUME good PROVE e \in [path : PluginFiles, manifest : Good] /\ PairOf(e) \in scan[r].seen
      OBVIOUS
    <3>1. pluginDir[f] \in Good
      BY DEF Good, PluginInv, PluginShape
    <3>2. Pairs(pluginDir) \subseteq scan[r].seen
      BY <2>2 DEF PluginInv, WindowInv
    <3>3. PairOf(e) \in Pairs(pluginDir)
      BY DEF PairOf, Pairs
    <3>. QED BY <2>2, <3>1, <3>2, <3>3
  <2> HIDE DEF e, good, f
  <2>4. /\ v.got = IF good THEN Append(scan[r].got, e) ELSE scan[r].got
        /\ v.seen = scan[r].seen /\ v.pc = "next"
    BY <2>2 DEF ScanShape
  <2>5. v.got \in Entries
    <3>1. scan[r].got \in Seq([path : PluginFiles, manifest : Good])
      BY <2>2 DEF ScanShape, Entries
    <3> HIDE DEF v
    <3>2. good => Append(scan[r].got, e) \in Seq([path : PluginFiles, manifest : Good])
      BY <2>3, <3>1, AppendIn, Zenon
    <3>. QED BY <2>4, <3>1, <3>2, Zenon DEF Entries
  <2>6. ScanShape(v)
    BY <2>2, <2>4, <2>5 DEF ScanShape
  <2>7. \A i \in DOMAIN v.got : PairOf(v.got[i]) \in scan[r].seen
    <3>1. scan[r].got \in Seq([path : PluginFiles, manifest : Good])
      BY <2>2 DEF ScanShape, Entries
    <3>2. \A i \in DOMAIN scan[r].got : PairOf(scan[r].got[i]) \in scan[r].seen
      BY DEF PluginInv, WindowInv
    <3>3. CASE good
      <4> DEFINE w == Append(scan[r].got, e)
      <4>1. \A i \in DOMAIN w : w[i] = e \/ (i \in DOMAIN scan[r].got /\ w[i] = scan[r].got[i])
        BY <3>1, <3>3, <2>3
      <4> HIDE DEF w
      <4>2. v.got = w
        BY <2>4, <3>3 DEF w
      <4> HIDE DEF v
      <4>. QED BY <4>1, <4>2, <3>2, <2>3, <3>3
    <3>4. CASE ~good
      BY <3>2, <3>4, <2>4
    <3>. QED BY <3>3, <3>4
  <2> HIDE DEF v
  <2>8. /\ scan' = [q \in Scanners |-> scan'[q]]
        /\ \A q \in Scanners : scan'[q] = IF q = r THEN v ELSE scan[q]
    BY <2>1, ScanOf DEF PluginInv
  <2>9. PluginShape'
    BY <2>1, <2>6, <2>8 DEF PluginInv, PluginShape
  <2>. QED BY <2>1, <2>2, <2>4, <2>7, <2>8, <2>9 DEF PluginInv, WindowInv, CalledInv, Pairs
<1>6. ASSUME NEW r \in Scanners, StorePlugins(r)
      PROVE  PluginInv'
  <2>1. /\ scan' = [scan EXCEPT ![r] = NoScan] /\ plugins' = scan[r].got /\ window' = scan[r].seen
        /\ UNCHANGED <<pluginDir, called, edits>>
    BY <1>6 DEF StorePlugins, Replacing
  <2>2. /\ scan' = [q \in Scanners |-> scan'[q]]
        /\ \A q \in Scanners : scan'[q] = IF q = r THEN NoScan ELSE scan[q]
    BY <2>1, ScanOf DEF PluginInv
  <2>3. ScanShape(NoScan) /\ NoScan.pc = "idle" /\ NoScan.got = <<>>
    BY DEF ScanShape, NoScan, Entries
  <2>4. scan[r].got \in Entries /\ scan[r].seen \in SUBSET (PluginFiles \X Manifests)
    BY DEF PluginInv, PluginShape, ScanShape
  <2>5. PluginShape'
    BY <2>1, <2>2, <2>3, <2>4 DEF PluginInv, PluginShape
  <2>. QED BY <2>1, <2>2, <2>3, <2>5 DEF PluginInv, WindowInv, CalledInv, Pairs
<1>7. ASSUME NEW n \in HostTools, CallPlugin(n)
      PROVE  PluginInv'
  <2>1. /\ ResolvePlugin(n) # NoTool /\ called' = ResolvePlugin(n)
        /\ UNCHANGED <<pluginDir, scan, plugins, window, edits>>
    BY <1>7 DEF CallPlugin
  <2>2. Executable(ResolvePlugin(n))
    BY <2>1, ResolvedExecutable DEF PluginInv, PluginShape
  <2>3. CalledInv'
    BY <2>1, <2>2, Zenon DEF CalledInv
  <2>. QED BY <2>1, <2>3 DEF PluginInv, PluginShape, WindowInv
<1>. QED BY <1>0, <1>1, <1>2, <1>3, <1>4, <1>5, <1>6, <1>7 DEF PluginsNext

\* get_tools and call_tool agree: both take the first tool of a name.
LEMMA CalledListed == plugins \in Entries => CalledAsListed
<1> SUFFICES ASSUME plugins \in Entries, NEW n \in HostTools PROVE ResolvePlugin(n) = Offered(n)
  BY DEF CalledAsListed
<1> DEFINE N == Len(plugins)
           ts == [i \in DOMAIN plugins |-> plugins[i].manifest.tools]
           R == UNION {Range(m.tools) : m \in Good}
           has == {i \in 1..N : Named(ts[i], n) # {}}
<1>1. N \in Nat /\ DOMAIN plugins = 1..N
  BY DEF Entries
<1>2. ts \in [1..N -> Seq(R)]
  <2>1. \A i \in DOMAIN plugins : plugins[i] \in [path : PluginFiles, manifest : Good]
    BY ElementIn, Zenon DEF Entries
  <2>2. \A i \in DOMAIN plugins : plugins[i].manifest \in Good
    BY <2>1
  <2>3. \A m \in Good : m.tools \in Seq(R)
    <3> SUFFICES ASSUME NEW m \in Good PROVE m.tools \in Seq(R)
      OBVIOUS
    <3>1. m.tools \in Seq(Range(m.tools))
      BY GoodTools
    <3>2. Range(m.tools) \subseteq R
      OBVIOUS
    <3> HIDE DEF R
    <3>. QED BY <3>1, <3>2
  <2> HIDE DEF R
  <2>. QED BY <2>2, <2>3, <1>1
<1>3. ts \in Seq(Seq(R)) /\ Len(ts) = N
  <2> HIDE DEF R, N
  <2>1. ts \in [1..N -> Seq(R)]
    BY <1>2
  <2> HIDE DEF ts
  <2>. QED BY <2>1, <1>1
<1>4. ResolvePlugin(n) = IF has = {} THEN NoTool ELSE First(ts[Min(has)], n)
  <2>1. \A i \in DOMAIN plugins : ts[i] = plugins[i].manifest.tools
    OBVIOUS
  <2>2. {i \in DOMAIN plugins : Named(plugins[i].manifest.tools, n) # {}} = has
    BY <2>1, <1>1, Zenon
  <2> HIDE DEF has
  <2>3. has # {} => Min(has) \in DOMAIN plugins /\ Named(ts[Min(has)], n) # {}
    <3> SUFFICES ASSUME has # {} PROVE Min(has) \in has
      BY <1>1 DEF has
    <3>1. has \in SUBSET Nat
      BY <1>1 DEF has
    <3>. QED BY <3>1, LeastOf
  <2>4. FirstOf(has) = Min(has)
    BY FirstOfIsMin
  <2> HIDE DEF ts
  <2>5. ResolvePlugin(n) = LET tools == plugins[Min(has)].manifest.tools
                           IN IF has = {} THEN NoTool ELSE tools[Min(Named(tools, n))]
    BY <2>2, <2>4, Zenon DEF ResolvePlugin
  <2>6. CASE has = {}
    BY <2>5, <2>6, Zenon
  <2>7. CASE has # {}
    <3>1. ts[Min(has)] = plugins[Min(has)].manifest.tools
      BY <2>1, <2>3, <2>7, Zenon
    <3>2. First(ts[Min(has)], n) = ts[Min(has)][Min(Named(ts[Min(has)], n))]
      BY <2>3, <2>7, Zenon DEF First
    <3>. QED BY <3>1, <3>2, <2>5, <2>7, Zenon
  <2>. QED BY <2>6, <2>7
<1>5. Offered(n) = First(FlattenSeq(ts), n)
  BY Zenon DEF Offered, AllTools, First
<1>6. CASE N = 0
  <2>1. FlattenSeq(ts) = ts
    BY <1>3, <1>6, Zenon DEF FlattenSeq
  <2>2. Named(ts, n) = {} /\ has = {}
    BY <1>6, <1>1 DEF Named
  <2> HIDE DEF has, ts
  <2>. QED BY <1>4, <1>5, <2>1, <2>2, Zenon DEF First
<1>7. CASE N # 0
  <2> HIDE DEF N, R, ts
  <2>1. Len(ts) \in Nat \ {0}
    BY <1>1, <1>3, <1>7
  <2>2. PICK f : /\ f[1] = ts[1] /\ \A i \in 1..Len(ts) : i # 1 => f[i] = f[i-1] \o ts[i]
                 /\ FlattenSeq(ts) = f[Len(ts)]
    BY <2>1, FlattenSteps
  <2>3. f[1] = ts[1] /\ \A i \in 1..N : i # 1 => f[i] = f[i-1] \o ts[i]
    BY <2>2, <1>3, Zenon
  <2>4. FlattenSeq(ts) = f[N]
    BY <2>2, <1>3
  <2>5. First(f[N], n) = IF has = {} THEN NoTool ELSE First(ts[Min(has)], n)
    <3>1. N \in Nat \ {0}
      BY <1>1, <1>7
    <3>2. has = Having(ts, N, n)
      BY Zenon DEF Having
    <3>3. Joins(f, ts, N)
      BY <2>3, Zenon DEF Joins
    <3> HIDE DEF has
    <3>. QED BY <1>2, <3>1, <3>2, <3>3, FirstFlattened
  <2> HIDE DEF has
  <2>. QED BY <1>4, <1>5, <2>4, <2>5, Zenon
<1>. QED BY <1>6, <1>7

HostInv == MeteredInv /\ RoutedInv /\ PluginInv

LEMMA HostHeld == HostInv => HostedAsAsked
<1> SUFFICES ASSUME HostInv PROVE HostedAsAsked
  OBVIOUS
<1>1. MeteredAsAsked
  BY DEF HostInv, MeteredInv, MeteredAsAsked
<1>2. ListedRoutable
  BY DEF HostInv, RoutedInv, ListedRoutable
<1>3. CalledAsListed
  BY CalledListed DEF HostInv, PluginInv, PluginShape
<1>4. CalledExecutable /\ LoadedInWindow
  BY DEF HostInv, PluginInv, CalledInv, WindowInv, CalledExecutable, LoadedInWindow, PairOf
<1>. QED BY <1>1, <1>2, <1>3, <1>4 DEF HostedAsAsked

\* For any number of loaders, languages, requests and plugin files, however loads of
\* modules, registrations, edits of the plugin directory and calls interleave:
\* compile_module hands out a module with the instruction limit its key names, unless
\* the limit changed between the engine and the key; WasmRuntimeRegistry can route each
\* tool it lists, unless one was registered over another; call_tool resolves a plugin
\* tool to the definition get_tools lists, and to one that can be executed; and what is
\* registered was in its file during the load that stored it.
THEOREM HostedAsAskedAlways == HostSpec => []HostedAsAsked
<1>1. HostInit => HostInv
  BY MeteredInit, RoutedInit, PluginInit DEF HostInv
<1>2. HostInv /\ [HostNext]_hostVars => HostInv'
  <2> SUFFICES ASSUME HostInv, [HostNext]_hostVars PROVE HostInv'
    OBVIOUS
  <2>1. /\ LoadNext \/ UNCHANGED loadVars
        /\ RegistryNext \/ UNCHANGED registryVars
        /\ PluginsNext \/ UNCHANGED pluginVars
    BY DEF HostNext, hostVars
  <2>. QED BY <2>1, MeteredStep, RoutedStep, PluginStep DEF HostInv
<1>. QED BY <1>1, <1>2, HostHeld, PTL DEF HostSpec

-----------------------------------------------------------------------------
(* Prompts. Filling in arguments is a replacement of words by texts; replacements
   compose, and the ones of a request's arguments commute as long as they are plain. *)

\* Induction over the sequences of a set.
LEMMA SeqInduction ==
    ASSUME NEW W, NEW S, <<>> \in S, \A t \in Seq(W), w \in W : t \in S => Append(t, w) \in S
    PROVE  Seq(W) \subseteq S
<1> DEFINE T == {n \in Nat : \A t \in Seq(W) : Len(t) = n => t \in S}
<1>1. 0 \in T
  <2>1. \A t \in Seq(W) : Len(t) = 0 => t = <<>>
    OBVIOUS
  <2>. QED BY <2>1
<1>2. \A n \in Nat : n \in T => n + 1 \in T
  <2> SUFFICES ASSUME NEW n \in Nat, n \in T, NEW t \in Seq(W), Len(t) = n + 1 PROVE t \in S
    OBVIOUS
  <2> DEFINE u == SubSeq(t, 1, n)
  <2>1. u \in Seq(W) /\ Len(u) = n /\ t[n + 1] \in W
    OBVIOUS
  <2>2. t = Append(u, t[n + 1])
    OBVIOUS
  <2> HIDE DEF u
  <2>3. u \in S
    BY <2>1
  <2>. QED BY <2>1, <2>2, <2>3
<1>3. \A n \in Nat : n \in T
  <2> HIDE DEF T
  <2>. QED BY <1>1, <1>2, SetInduction
<1>. QED BY <1>3

\* A sequence flattened is flattened up to its last, and then that.
LEMMA FlattenAppend ==
    ASSUME NEW W, NEW s \in Seq(Seq(W)), NEW x \in Seq(W)
    PROVE  FlattenSeq(Append(s, x)) = FlattenSeq(s) \o x
<1> DEFINE u == Append(s, x)
           N == Len(s)
<1>0. N \in Nat /\ Len(u) = N + 1 /\ u[N + 1] = x /\ (\A i \in 1..N : u[i] = s[i])
  OBVIOUS
<1>1. Len(u) \in Nat \ {0}
  BY <1>0
<1> HIDE DEF u
<1>2. PICK f : /\ f[1] = u[1] /\ \A i \in 1..Len(u) : i # 1 => f[i] = f[i-1] \o u[i]
               /\ FlattenSeq(u) = f[Len(u)]
  BY <1>1, FlattenSteps
<1>3. CASE N = 0
  <2>1. FlattenSeq(s) = s /\ s = <<>>
    BY <1>3 DEF FlattenSeq
  <2>2. FlattenSeq(u) = x
    BY <1>0, <1>2, <1>3
  <2>3. <<>> \o x = x
    OBVIOUS
  <2>. QED BY <2>1, <2>2, <2>3 DEF u
<1>4. CASE N # 0
  <2>0. Len(s) \in Nat \ {0}
    BY <1>0, <1>4
  <2>1. PICK g : /\ g[1] = s[1] /\ \A i \in 1..Len(s) : i # 1 => g[i] = g[i-1] \o s[i]
                 /\ FlattenSeq(s) = g[Len(s)]
    BY <2>0, FlattenSteps
  <2> DEFINE T == {n \in Nat : n + 1 \in 1..N => f[n + 1] = g[n + 1]}
  <2>2. 0 \in T
    BY <1>0, <1>2, <1>4, <2>1
  <2>3. \A n \in Nat : n \in T => n + 1 \in T
    <3> SUFFICES ASSUME NEW n \in Nat, n \in T, (n + 1) + 1 \in 1..N PROVE f[(n + 1) + 1] = g[(n + 1) + 1]
      OBVIOUS
    <3>1. n + 1 \in 1..N /\ (n + 1) + 1 # 1 /\ ((n + 1) + 1) - 1 = n + 1 /\ (n + 1) + 1 \in 1..Len(u)
      BY <1>0
    <3>2. f[n + 1] = g[n + 1]
      BY <3>1
    <3> DEFINE k == (n + 1) + 1
    <3>3. f[k] = f[k - 1] \o u[k] /\ g[k] = g[k - 1] \o s[k] /\ u[k] = s[k]
      BY <1>0, <1>2, <2>1, <3>1
    <3>. QED BY <3>1, <3>2, <3>3
  <2>4. \A n \in Nat : n \in T
    <3> HIDE DEF T
    <3>. QED BY <2>2, <2>3, SetInduction
  <2>5. f[N] = g[N]
    <3>1. N - 1 \in Nat /\ (N - 1) + 1 = N /\ N \in 1..N
      BY <1>0, <1>4
    <3>2. N - 1 \in T
      BY <3>1, <2>4
    <3>. QED BY <3>1, <3>2
  <2>6. f[N + 1] = f[N] \o x
    <3>1. N + 1 \in 1..Len(u) /\ N + 1 # 1 /\ (N + 1) - 1 = N
      BY <1>0, <1>4
    <3>. QED BY <3>1, <1>0, <1>2
  <2>. QED BY <1>0, <1>2, <2>1, <2>5, <2>6 DEF u
<1>. QED BY <1>3, <1>4

\* A text with a text for each of its words.
Sub(t, g) == FlattenSeq([i \in DOMAIN t |-> g[t[i]]])

\* What the words of a text are replaced by, from the first to the last.
LEMMA SubEmpty == \A g : Sub(<<>>, g) = <<>>
<1> SUFFICES ASSUME NEW g PROVE Sub(<<>>, g) = <<>>
  OBVIOUS
<1> DEFINE s == [i \in DOMAIN <<>> |-> g[<<>>[i]]]
<1>1. s = <<>> /\ Len(s) = 0
  OBVIOUS
<1> HIDE DEF s
<1>2. FlattenSeq(s) = s
  BY <1>1, Zenon DEF FlattenSeq
<1>. QED BY <1>1, <1>2 DEF Sub, s

LEMMA SubAppend ==
    ASSUME NEW W, NEW g \in [W -> Seq(W)], NEW t \in Seq(W), NEW w \in W
    PROVE  Sub(Append(t, w), g) = Sub(t, g) \o g[w]
<1> DEFINE s == [i \in DOMAIN t |-> g[t[i]]]
           u == [i \in DOMAIN Append(t, w) |-> g[Append(t, w)[i]]]
<1>1. s \in Seq(Seq(W)) /\ g[w] \in Seq(W)
  OBVIOUS
<1>2. u = Append(s, g[w])
  OBVIOUS
<1> HIDE DEF s, u
<1>3. FlattenSeq(Append(s, g[w])) = FlattenSeq(s) \o g[w]
  BY <1>1, FlattenAppend
<1>. QED BY <1>2, <1>3 DEF Sub, s, u

LEMMA SubIn ==
    ASSUME NEW W, NEW g \in [W -> Seq(W)]
    PROVE  \A t \in Seq(W) : Sub(t, g) \in Seq(W)
<1> DEFINE S == {t \in Seq(W) : Sub(t, g) \in Seq(W)}
<1>1. <<>> \in S
  <2>1. Sub(<<>>, g) = <<>> /\ <<>> \in Seq(W)
    BY SubEmpty
  <2>. QED BY <2>1
<1>2. \A t \in Seq(W), w \in W : t \in S => Append(t, w) \in S
  <2>0. \A t \in Seq(W), w \in W : Append(t, w) \in Seq(W)
    OBVIOUS
  <2> SUFFICES ASSUME NEW t \in Seq(W), NEW w \in W, Sub(t, g) \in Seq(W)
               PROVE  Sub(Append(t, w), g) \in Seq(W)
    BY <2>0, Zenon
  <2>1. Sub(Append(t, w), g) = Sub(t, g) \o g[w]
    BY SubAppend
  <2>. QED BY <2>1
<1>3. Seq(W) \subseteq S
  <2> HIDE DEF S
  <2>. QED BY <1>1, <1>2, SeqInduction
<1>. QED BY <1>3

LEMMA OneLonger == \A W : \A a, o \in Seq(W) : Len(o) = 1 => a \o o \in Seq(W) /\ Len(a \o o) = Len(a) + 1
<1> SUFFICES ASSUME NEW W, NEW a \in Seq(W), NEW o \in Seq(W), Len(o) = 1
             PROVE  a \o o \in Seq(W) /\ Len(a \o o) = Len(a) + 1
  OBVIOUS
<1>1. a \o o \in Seq(W) /\ Len(a \o o) = Len(a) + Len(o)
  BY ConcatProperties
<1>. QED BY <1>1

LEMMA SubConcat ==
    ASSUME NEW W, NEW g \in [W -> Seq(W)], NEW s \in Seq(W)
    PROVE  \A t \in Seq(W) : Sub(s \o t, g) = Sub(s, g) \o Sub(t, g)
<1> DEFINE S == {t \in Seq(W) : Sub(s \o t, g) = Sub(s, g) \o Sub(t, g)}
<1>a. \A x, y, z \in Seq(W) : (x \o y) \o z = x \o (y \o z)
  <2> SUFFICES ASSUME NEW x \in Seq(W), NEW y \in Seq(W), NEW z \in Seq(W)
               PROVE  (x \o y) \o z = x \o (y \o z)
    OBVIOUS
  <2>. QED BY SMT
<1>0. Sub(s, g) \in Seq(W)
  BY SubIn
<1>1. <<>> \in S
  <2>1. s \o <<>> = s /\ Sub(s, g) \o <<>> = Sub(s, g) /\ <<>> \in Seq(W)
    BY <1>0
  <2>. QED BY <2>1, SubEmpty
<1>2. \A t \in Seq(W), w \in W : t \in S => Append(t, w) \in S
  <2>0. \A t \in Seq(W), w \in W : Append(t, w) \in Seq(W)
    OBVIOUS
  <2> SUFFICES ASSUME NEW t \in Seq(W), NEW w \in W, Sub(s \o t, g) = Sub(s, g) \o Sub(t, g)
               PROVE  Sub(s \o Append(t, w), g) = Sub(s, g) \o Sub(Append(t, w), g)
    BY <2>0, Zenon
  <2>1. Sub(Append(t, w), g) = Sub(t, g) \o g[w]
    BY SubAppend
  <2>2. s \o Append(t, w) = Append(s \o t, w) /\ s \o t \in Seq(W)
    OBVIOUS
  <2>3. Sub(Append(s \o t, w), g) = Sub(s \o t, g) \o g[w]
    BY <2>2, SubAppend
  <2>4. Sub(t, g) \in Seq(W) /\ g[w] \in Seq(W)
    BY SubIn
  <2>5. (Sub(s, g) \o Sub(t, g)) \o g[w] = Sub(s, g) \o (Sub(t, g) \o g[w])
    <3> DEFINE a == Sub(s, g)
               b == Sub(t, g)
               c == g[w]
    <3>1. a \in Seq(W) /\ b \in Seq(W) /\ c \in Seq(W)
      BY <1>0, <2>4
    <3> HIDE DEF a, b, c, S
    <3>. QED BY <3>1, <1>a DEF a, b, c
  <2>. QED BY <2>1, <2>2, <2>3, <2>5
<1>3. Seq(W) \subseteq S
  <2> HIDE DEF S
  <2>. QED BY <1>1, <1>2, SeqInduction
<1>. QED BY <1>3

\* A word without a text of its own stays.
LEMMA SubOne ==
    ASSUME NEW W, NEW g \in [W -> Seq(W)], NEW w \in W
    PROVE  Sub(<<w>>, g) = g[w]
<1>1. <<w>> = Append(<<>>, w) /\ <<>> \in Seq(W) /\ g[w] \in Seq(W)
  OBVIOUS
<1>2. Sub(Append(<<>>, w), g) = Sub(<<>>, g) \o g[w]
  BY <1>1, SubAppend
<1>3. <<>> \o g[w] = g[w]
  BY <1>1, ConcatEmptySeq
<1>. QED BY <1>1, <1>2, <1>3, SubEmpty

Kept(t, g) == \A i \in DOMAIN t : g[t[i]] = <<t[i]>>
LEMMA SubSame ==
    ASSUME NEW W, NEW g \in [W -> Seq(W)]
    PROVE  \A t \in Seq(W) : Kept(t, g) => Sub(t, g) = t
<1> USE DEF Kept
<1> DEFINE S == {t \in Seq(W) : (\A i \in DOMAIN t : g[t[i]] = <<t[i]>>) => Sub(t, g) = t}
<1>1. <<>> \in S
  <2>1. Sub(<<>>, g) = <<>> /\ <<>> \in Seq(W)
    BY SubEmpty
  <2>. QED BY <2>1
<1>2. \A t \in Seq(W), w \in W : t \in S => Append(t, w) \in S
  <2>0. \A t \in Seq(W), w \in W : Append(t, w) \in Seq(W)
    OBVIOUS
  <2> SUFFICES ASSUME NEW t \in Seq(W), NEW w \in W, t \in S,
                      \A i \in DOMAIN Append(t, w) : g[Append(t, w)[i]] = <<Append(t, w)[i]>>
               PROVE  Sub(Append(t, w), g) = Append(t, w)
    BY <2>0, Zenon
  <2>1. \A i \in DOMAIN t : i \in DOMAIN Append(t, w) /\ Append(t, w)[i] = t[i]
    OBVIOUS
  <2>2. Len(t) + 1 \in DOMAIN Append(t, w) /\ Append(t, w)[Len(t) + 1] = w
    OBVIOUS
  <2>3. Sub(t, g) = t
    BY <2>1
  <2>4. g[w] = <<w>>
    BY <2>2
  <2>5. Sub(Append(t, w), g) = Sub(t, g) \o g[w]
    BY SubAppend
  <2>6. t \o <<w>> = Append(t, w)
    OBVIOUS
  <2>. QED BY <2>3, <2>4, <2>5, <2>6
<1>3. Seq(W) \subseteq S
  <2> HIDE DEF S
  <2>. QED BY <1>1, <1>2, SeqInduction
<1>. QED BY <1>3

\* One replacement after another is one replacement.
Composed(W, g, h, k) == \A w \in W : k[w] = Sub(g[w], h)
LEMMA SubSub ==
    ASSUME NEW W, NEW g \in [W -> Seq(W)], NEW h \in [W -> Seq(W)], NEW k \in [W -> Seq(W)],
           Composed(W, g, h, k)
    PROVE  \A t \in Seq(W) : Sub(Sub(t, g), h) = Sub(t, k)
<1> DEFINE S == {t \in Seq(W) : Sub(Sub(t, g), h) = Sub(t, k)}
<1>1. <<>> \in S
  <2>1. Sub(<<>>, g) = <<>> /\ Sub(<<>>, h) = <<>> /\ Sub(<<>>, k) = <<>> /\ <<>> \in Seq(W)
    BY SubEmpty
  <2>. QED BY <2>1
<1>2. \A t \in Seq(W), w \in W : t \in S => Append(t, w) \in S
  <2>0. \A t \in Seq(W), w \in W : Append(t, w) \in Seq(W)
    OBVIOUS
  <2> SUFFICES ASSUME NEW t \in Seq(W), NEW w \in W, Sub(Sub(t, g), h) = Sub(t, k)
               PROVE  Sub(Sub(Append(t, w), g), h) = Sub(Append(t, w), k)
    BY <2>0, Zenon
  <2>1. Sub(Append(t, w), g) = Sub(t, g) \o g[w] /\ Sub(Append(t, w), k) = Sub(t, k) \o k[w]
    BY SubAppend
  <2>2. Sub(t, g) \in Seq(W) /\ g[w] \in Seq(W)
    BY SubIn
  <2>3. Sub(Sub(t, g) \o g[w], h) = Sub(Sub(t, g), h) \o Sub(g[w], h)
    BY <2>2, SubConcat
  <2>. QED BY <2>1, <2>3 DEF Composed
<1>3. Seq(W) \subseteq S
  <2> HIDE DEF S
  <2>. QED BY <1>1, <1>2, SeqInduction
<1>. QED BY <1>3

\* The words of the result are words of the texts put in.
WordsIn(W, g, X) == \A w \in W : \A j \in DOMAIN g[w] : g[w][j] \in X
LEMMA SubWords ==
    ASSUME NEW W, NEW g \in [W -> Seq(W)], NEW X, WordsIn(W, g, X)
    PROVE  \A t \in Seq(W) : \A i \in DOMAIN Sub(t, g) : Sub(t, g)[i] \in X
<1> DEFINE S == {t \in Seq(W) : \A i \in DOMAIN Sub(t, g) : Sub(t, g)[i] \in X}
<1>1. <<>> \in S
  <2>1. Sub(<<>>, g) = <<>> /\ <<>> \in Seq(W)
    BY SubEmpty
  <2>. QED BY <2>1
<1>2. \A t \in Seq(W), w \in W : t \in S => Append(t, w) \in S
  <2>0. \A t \in Seq(W), w \in W : Append(t, w) \in Seq(W)
    OBVIOUS
  <2> SUFFICES ASSUME NEW t \in Seq(W), NEW w \in W, t \in S, NEW i \in DOMAIN Sub(Append(t, w), g)
               PROVE  Sub(Append(t, w), g)[i] \in X
    BY <2>0, Zenon
  <2> DEFINE a == Sub(t, g)
             b == g[w]
  <2>1. Sub(Append(t, w), g) = a \o b /\ a \in Seq(W) /\ b \in Seq(W)
    BY SubAppend, SubIn
  <2>2. (\A j \in DOMAIN a : a[j] \in X) /\ \A j \in DOMAIN b : b[j] \in X
    BY DEF WordsIn
  <2> HIDE DEF a, b
  <2>3. i \in DOMAIN (a \o b)
    BY <2>1
  <2>4. (a \o b)[i] \in X
    BY <2>1, <2>2, <2>3
  <2>. QED BY <2>1, <2>4
<1>3. Seq(W) \subseteq S
  <2> HIDE DEF S
  <2>. QED BY <1>1, <1>2, SeqInduction
<1>. QED BY <1>3

\* As many texts of one word, as many words.
LEMMA FlattenOnes ==
    ASSUME NEW W
    PROVE  \A s \in Seq([{1} -> W]) : FlattenSeq(s) \in Seq(W) /\ Len(FlattenSeq(s)) = Len(s)
<1> DEFINE O == [{1} -> W]
           S == {s \in Seq(O) : FlattenSeq(s) \in Seq(W) /\ Len(FlattenSeq(s)) = Len(s)}
<1>0. \A o \in O : o \in Seq(W) /\ Len(o) = 1
  <2> SUFFICES ASSUME NEW o \in O PROVE o \in Seq(W) /\ Len(o) = 1
    OBVIOUS
  <2>1. 1..1 = {1}
    OBVIOUS
  <2>2. o \in [1..1 -> W]
    BY <2>1
  <2>. QED BY <2>2
<1>1. <<>> \in S
  <2>1. FlattenSeq(<<>>) = <<>>
    <3>1. Len(<<>>) = 0
      OBVIOUS
    <3>. QED BY <3>1, Zenon DEF FlattenSeq
  <2>2. <<>> \in Seq(O) /\ <<>> \in Seq(W) /\ Len(<<>>) = Len(<<>>)
    <3> HIDE DEF O
    <3>. QED OBVIOUS
  <2> HIDE DEF O
  <2>. QED BY <2>1, <2>2
<1>2. \A s \in Seq(O), o \in O : s \in S => Append(s, o) \in S
  <2> SUFFICES ASSUME NEW s \in Seq(O), NEW o \in O, FlattenSeq(s) \in Seq(W), Len(FlattenSeq(s)) = Len(s)
               PROVE  FlattenSeq(Append(s, o)) \in Seq(W) /\ Len(FlattenSeq(Append(s, o))) = Len(Append(s, o))
    OBVIOUS
  <2> HIDE DEF O
  <2>1. o \in Seq(W) /\ Len(o) = 1 /\ O \subseteq Seq(W)
    BY <1>0
  <2>2. s \in Seq(Seq(W))
    BY <2>1
  <2>3. FlattenSeq(Append(s, o)) = FlattenSeq(s) \o o
    BY <2>1, <2>2, FlattenAppend
  <2>4. Len(Append(s, o)) = Len(s) + 1 /\ Len(s) \in Nat
    OBVIOUS
  <2> DEFINE a == FlattenSeq(s)
  <2>5. a \in Seq(W) /\ Len(a) = Len(s)
    OBVIOUS
  <2> HIDE DEF a
  <2>6. a \o o \in Seq(W) /\ Len(a \o o) = Len(s) + 1
    BY <2>1, <2>4, <2>5, OneLonger, SMT
  <2>. QED BY <2>3, <2>4, <2>6 DEF a
<1>3. Seq(O) \subseteq S
  <2> HIDE DEF S, O
  <2>. QED BY <1>1, <1>2, SeqInduction
<1>. QED BY <1>3

\* The words of texts and the placeholders.
HoleWords == {Hole[k] : k \in ArgNames}
TextWords == UNION {Range(t) : t \in PromptTexts \cup ArgTexts}
Words == TextWords \cup HoleWords

\* The placeholders of some arguments with their values, and one of them.
Values(args, K) ==
    [w \in Words |-> IF \E k \in K : w = Hole[k] THEN args[CHOOSE k \in K : w = Hole[k]] ELSE <<w>>]
Value(k, v) == [w \in Words |-> IF w = Hole[k] THEN v ELSE <<w>>]

TextArgs(args) == DOMAIN args \subseteq ArgNames /\ args \in [DOMAIN args -> Seq(Words)]

LEMMA Holes == ArgNames = {"a", "b"} /\ \A k, l \in ArgNames : Hole[k] \in Words /\ (Hole[k] = Hole[l] => k = l)
<1>1. ArgNames = {"a", "b"}
  BY DEF ArgNames, Hole
<1>2. Hole["a"] = "{a}" /\ Hole["b"] = "{b}"
  BY DEF Hole
<1>3. "{a}" # "{b}"
  OBVIOUS
<1>4. \A k \in ArgNames : Hole[k] \in Words
  BY DEF Words, HoleWords
<1>. QED BY <1>1, <1>2, <1>3, <1>4

LEMMA ValuesAre ==
    ASSUME NEW args, TextArgs(args), NEW K \in SUBSET (DOMAIN args)
    PROVE  /\ Values(args, K) \in [Words -> Seq(Words)]
           /\ \A w \in Words : (\A k \in K : w # Hole[k]) => Values(args, K)[w] = <<w>>
           /\ \A k \in K : Values(args, K)[Hole[k]] = args[k]
<1>1. \A w \in Words : (\A k \in K : w # Hole[k]) => Values(args, K)[w] = <<w>>
  BY DEF Values
<1>2. ASSUME NEW k \in K PROVE Values(args, K)[Hole[k]] = args[k]
  <2> DEFINE w == Hole[k]
  <2>0. w \in Words /\ k \in ArgNames /\ w = Hole[k]
    BY Holes DEF TextArgs
  <2> HIDE DEF w
  <2>1. \A l \in K : w = Hole[l] => l = k
    BY <2>0, Holes DEF TextArgs
  <2>2. (CHOOSE l \in K : w = Hole[l]) = k
    BY <2>0, <2>1
  <2>3. Values(args, K)[w] = args[CHOOSE l \in K : w = Hole[l]]
    BY <2>0 DEF Values
  <2>. QED BY <2>2, <2>3 DEF w
<1>3. \A w \in Words : Values(args, K)[w] \in Seq(Words)
  <2> SUFFICES ASSUME NEW w \in Words PROVE Values(args, K)[w] \in Seq(Words)
    OBVIOUS
  <2>1. CASE \A k \in K : w # Hole[k]
    <3>1. <<w>> \in Seq(Words)
      OBVIOUS
    <3>. QED BY <1>1, <2>1, <3>1
  <2>2. CASE \E k \in K : w = Hole[k]
    BY <1>2, <2>2 DEF TextArgs
  <2>. QED BY <2>1, <2>2
<1>4. Values(args, K) \in [Words -> Seq(Words)]
  BY <1>3 DEF Values
<1>. QED BY <1>1, <1>2, <1>4

LEMMA ValueIs ==
    ASSUME NEW k, NEW v \in Seq(Words)
    PROVE  /\ Value(k, v) \in [Words -> Seq(Words)]
           /\ \A w \in Words : Value(k, v)[w] = IF w = Hole[k] THEN v ELSE <<w>>
<1>1. \A w \in Words : <<w>> \in Seq(Words)
  OBVIOUS
<1>. QED BY <1>1 DEF Value

LEMMA ReplacedIs ==
    ASSUME NEW t \in Seq(Words), NEW k, NEW v \in Seq(Words)
    PROVE  Replaced(t, k, v) = Sub(t, Value(k, v)) /\ Replaced(t, k, v) \in Seq(Words)
<1>1. \A i \in DOMAIN t : t[i] \in Words
  BY ElementIn
<1>a. \A w \in Words : Value(k, v)[w] = IF w = Hole[k] THEN v ELSE <<w>>
  BY ValueIs
<1>2. \A i \in DOMAIN t : Value(k, v)[t[i]] = IF t[i] = Hole[k] THEN v ELSE <<t[i]>>
  BY <1>1, <1>a, Zenon
<1>3. [i \in DOMAIN t |-> IF t[i] = Hole[k] THEN v ELSE <<t[i]>>] = [i \in DOMAIN t |-> Value(k, v)[t[i]]]
  BY <1>2
<1>4. Replaced(t, k, v) = Sub(t, Value(k, v))
  BY <1>3, Zenon DEF Replaced, Sub
<1>5. Value(k, v) \in [Words -> Seq(Words)]
  BY ValueIs
<1>. QED BY <1>4, <1>5, SubIn

\* Arguments that are plain: one more of them filled in.
LEMMA FilledOneMore ==
    ASSUME NEW args, TextArgs(args), Plain(args), NEW K \in SUBSET (DOMAIN args), NEW k \in DOMAIN args,
           NEW t \in Seq(Words)
    PROVE  Replaced(Sub(t, Values(args, K)), k, args[k]) = Sub(t, Values(args, K \cup {k}))
<1> DEFINE g == Values(args, K)
           h == Value(k, args[k])
           m == Values(args, K \cup {k})
<1>1. /\ g \in [Words -> Seq(Words)]
      /\ \A w \in Words : (\A l \in K : w # Hole[l]) => g[w] = <<w>>
      /\ \A l \in K : g[Hole[l]] = args[l]
  BY ValuesAre
<1>2. /\ m \in [Words -> Seq(Words)]
      /\ \A w \in Words : (\A l \in K \cup {k} : w # Hole[l]) => m[w] = <<w>>
      /\ \A l \in K \cup {k} : m[Hole[l]] = args[l]
  <2>1. K \cup {k} \in SUBSET (DOMAIN args)
    OBVIOUS
  <2>. QED BY <2>1, ValuesAre
<1>3. /\ h \in [Words -> Seq(Words)]
      /\ \A w \in Words : h[w] = IF w = Hole[k] THEN args[k] ELSE <<w>>
  <2>1. args[k] \in Seq(Words)
    BY DEF TextArgs
  <2>. QED BY <2>1, ValueIs
<1> HIDE DEF g, h, m
<1>4. \A w \in Words : m[w] = Sub(g[w], h)
  <2> SUFFICES ASSUME NEW w \in Words PROVE m[w] = Sub(g[w], h)
    OBVIOUS
  <2>1. CASE \E l \in K : w = Hole[l]
    <3> PICK l \in K : w = Hole[l]
      BY <2>1
    <3>1. g[w] = args[l] /\ m[w] = args[l] /\ args[l] \in Seq(Words)
      BY <1>1, <1>2 DEF TextArgs
    <3>2. \A i \in DOMAIN args[l] : h[args[l][i]] = <<args[l][i]>>
      <4> SUFFICES ASSUME NEW i \in DOMAIN args[l] PROVE h[args[l][i]] = <<args[l][i]>>
        OBVIOUS
      <4>1. args[l][i] \in Words
        BY <3>1, ElementIn
      <4>2. args[l][i] # Hole[k]
        BY DEF Plain
      <4>. QED BY <1>3, <4>1, <4>2
    <3>3. Sub(args[l], h) = args[l]
      <4>1. Kept(args[l], h)
        BY <3>2, Zenon DEF Kept
      <4>. QED BY <1>3, <3>1, <4>1, SubSame
    <3>. QED BY <3>1, <3>3
  <2>2. CASE (\A l \in K : w # Hole[l]) /\ w = Hole[k]
    <3>1. g[w] = <<w>> /\ m[w] = args[k] /\ h[w] = args[k]
      BY <1>1, <1>2, <1>3, <2>2
    <3>. QED BY <1>3, <3>1, SubOne
  <2>3. CASE (\A l \in K : w # Hole[l]) /\ w # Hole[k]
    <3>1. g[w] = <<w>> /\ m[w] = <<w>> /\ h[w] = <<w>>
      BY <1>1, <1>2, <1>3, <2>3
    <3>. QED BY <1>3, <3>1, SubOne
  <2>. QED BY <2>1, <2>2, <2>3
<1>5. Sub(Sub(t, g), h) = Sub(t, m)
  <2>1. Composed(Words, g, h, m)
    BY <1>4, Zenon DEF Composed
  <2>2. g \in [Words -> Seq(Words)] /\ h \in [Words -> Seq(Words)] /\ m \in [Words -> Seq(Words)]
    BY <1>1, <1>2, <1>3
  <2>3. \A u \in Seq(Words) : Sub(Sub(u, g), h) = Sub(u, m)
    BY <2>1, <2>2, SubSub
  <2>. QED BY <2>3
<1>6. Sub(t, g) \in Seq(Words) /\ args[k] \in Seq(Words)
  BY <1>1, SubIn DEF TextArgs
<1>7. Replaced(Sub(t, g), k, args[k]) = Sub(Sub(t, g), Value(k, args[k]))
  BY <1>6, ReplacedIs
<1>. QED BY <1>5, <1>7 DEF g, h, m

\* The loop as a function of how many arguments it has filled in.
Filler(g, text, args, order, N) ==
    g = [n \in 0..N |-> IF n = 0 THEN text ELSE Replaced(g[n - 1], order[n], args[order[n]])]
LEMMA FillExists ==
    ASSUME NEW text, NEW args, NEW order, NEW N \in Nat
    PROVE  \E g : Filler(g, text, args, order, N)
<1> DEFINE G(n, g) == g = [i \in 0..n |-> IF i = 0 THEN text ELSE Replaced(g[i - 1], order[i], args[order[i]])]
           S == {n \in Nat : \E g : G(n, g)}
<1>1. 0 \in S
  <2> DEFINE g == [i \in 0..0 |-> text]
  <2>1. G(0, g)
    <3>1. \A i \in 0..0 : i = 0
      OBVIOUS
    <3>. QED BY <3>1, Zenon
  <2>2. \E k : G(0, k)
    <3> HIDE DEF g, G
    <3>. QED BY <2>1
  <2> HIDE DEF G
  <2>. QED BY <2>2
<1>2. \A n \in Nat : n \in S => n + 1 \in S
  <2> SUFFICES ASSUME NEW n \in Nat, n \in S PROVE n + 1 \in S
    OBVIOUS
  <2> PICK g : G(n, g)
    OBVIOUS
  <2> DEFINE h == [i \in 0..(n+1) |-> IF i \in 0..n THEN g[i] ELSE Replaced(g[i - 1], order[i], args[order[i]])]
  <2>1. \A i \in 0..(n+1) : h[i] = IF i = 0 THEN text ELSE Replaced(h[i - 1], order[i], args[order[i]])
    <3> TAKE i \in 0..(n+1)
    <3>1. CASE i \in 0..n
      <4>1. h[i] = g[i] /\ (i # 0 => h[i-1] = g[i-1])
        BY <3>1
      <4>2. g[i] = IF i = 0 THEN text ELSE Replaced(g[i - 1], order[i], args[order[i]])
        BY <3>1
      <4>. QED BY <4>1, <4>2
    <3>2. CASE i = n + 1
      <4>1. i \notin 0..n /\ i # 0
        BY <3>2
      <4>2. h[i] = Replaced(g[i - 1], order[i], args[order[i]])
        BY <4>1
      <4>3. h[i-1] = g[i-1]
        BY <3>2
      <4>. QED BY <4>1, <4>2, <4>3
    <3>. QED BY <3>1, <3>2
  <2>2. G(n + 1, h)
    BY <2>1
  <2>3. \E k : G(n + 1, k)
    <3> HIDE DEF h, G
    <3>. QED BY <2>2
  <2> HIDE DEF h, G
  <2>. QED BY <2>3
<1>3. N \in S
  <2> HIDE DEF S
  <2>. QED BY <1>1, <1>2, SetInduction
<1>4. \E g : G(N, g)
  BY <1>3
<1>. QED BY <1>4, Zenon DEF Filler

\* The loop of get_prompt, one argument after the other.
FillsUp(f, text, args, order, N) ==
    f[0] = text /\ \A n \in 1..N : f[n] = Replaced(f[n - 1], order[n], args[order[n]])

LEMMA FilledSteps ==
    ASSUME NEW text, NEW args, NEW order, Len(order) \in Nat
    PROVE  \E f : FillsUp(f, text, args, order, Len(order)) /\ Filled(text, args, order) = f[Len(order)]
<1> DEFINE N == Len(order)
           f == CHOOSE g : Filler(g, text, args, order, N)
<1>1. f = [n \in 0..N |-> IF n = 0 THEN text ELSE Replaced(f[n - 1], order[n], args[order[n]])]
  <2> N \in Nat
    OBVIOUS
  <2> HIDE DEF N
  <2>1. \E g : Filler(g, text, args, order, N)
    BY FillExists
  <2>2. Filler(f, text, args, order, N)
    BY <2>1, Zenon
  <2> HIDE DEF f
  <2>. QED BY <2>2, Zenon DEF Filler
<1>2. Filled(text, args, order) = f[N]
  BY Zenon DEF Filled, Filler
<1>3. N = Len(order) /\ N \in Nat
  OBVIOUS
<1> HIDE DEF f, N
<1>4. f[0] = text
  BY <1>1, <1>3
<1>5. \A n \in 1..N : f[n] = Replaced(f[n - 1], order[n], args[order[n]])
  <2>1. \A n \in 1..N : n \in 0..N /\ n # 0
    BY <1>3
  <2>. QED BY <1>1, <2>1
<1>. QED BY <1>2, <1>3, <1>4, <1>5, Zenon DEF FillsUp

\* The order of a hash map has every argument once.
LEMMA OrderCovers ==
    ASSUME NEW K \in SUBSET ArgNames, NEW order \in SetToSeqs(K)
    PROVE  Len(order) \in Nat /\ order \in [1..Len(order) -> K] /\ \A k \in K : \E i \in 1..Len(order) : order[i] = k
<1> DEFINE n == Cardinality(K)
<1>1. IsFiniteSet(K) /\ n \in Nat
  <2>1. IsFiniteSet(ArgNames)
    <3>1. IsFiniteSet({"a"}) /\ IsFiniteSet({"b"})
      BY FS_Singleton
    <3>2. IsFiniteSet({"a"} \cup {"b"}) /\ {"a"} \cup {"b"} = {"a", "b"}
      BY <3>1, FS_Union
    <3>. QED BY <3>2, Holes
  <2>. QED BY <2>1, FS_Subset, FS_CardinalityType
<1>2. order \in [1..n -> K] /\ \A i, j \in 1..n : i # j => order[i] # order[j]
  BY DEF SetToSeqs
<1> HIDE DEF n
<1>3. Len(order) = n
  BY <1>1, <1>2
<1>4. order \in Injection(1..n, K)
  BY <1>2 DEF Injection, IsInjective
<1>5. IsFiniteSet(1..n) /\ Cardinality(1..n) = n
  BY <1>1, FS_Interval
<1>6. order \in Surjection(1..n, K)
  BY <1>1, <1>4, <1>5, FS_Injection DEF n
<1>. QED BY <1>1, <1>2, <1>3, <1>6 DEF Surjection

Upto(order, n) == {order[i] : i \in 1..n}

\* Arguments that are plain: the loop and the template's meaning are one replacement.
LEMMA FilledIs ==
    ASSUME NEW text \in Seq(Words), NEW args, TextArgs(args), Plain(args), NEW order \in SetToSeqs(DOMAIN args)
    PROVE  Filled(text, args, order) = Sub(text, Values(args, DOMAIN args))
<1> DEFINE N == Len(order)
           K == DOMAIN args
<1>0. K \in SUBSET ArgNames
  BY DEF TextArgs
<1>1. N \in Nat /\ order \in [1..N -> K] /\ \A k \in K : \E i \in 1..N : order[i] = k
  <2> HIDE DEF K
  <2>. QED BY <1>0, OrderCovers DEF K
<1>2. PICK f : FillsUp(f, text, args, order, N) /\ Filled(text, args, order) = f[N]
  BY <1>1, FilledSteps
<1> HIDE DEF N
<1>3. f[0] = text /\ \A n \in 1..N : f[n] = Replaced(f[n - 1], order[n], args[order[n]])
  BY <1>2 DEF FillsUp
<1> DEFINE P(n) == f[n] = Sub(text, Values(args, Upto(order, n)))
           S == {n \in Nat : n \in 0..N => P(n)}
<1>4. 0 \in S
  <2>1. Upto(order, 0) = {} /\ {} \in SUBSET K
    BY DEF Upto
  <2>2. Values(args, {}) \in [Words -> Seq(Words)] /\ \A w \in Words : Values(args, {})[w] = <<w>>
    <3>1. \A w \in Words : \A k \in {} : w # Hole[k]
      OBVIOUS
    <3>. QED BY <2>1, <3>1, ValuesAre
  <2>3. Kept(text, Values(args, {}))
    <3>1. \A i \in DOMAIN text : text[i] \in Words
      BY ElementIn
    <3>. QED BY <2>2, <3>1 DEF Kept
  <2>4. Sub(text, Values(args, {})) = text
    BY <2>2, <2>3, SubSame
  <2>. QED BY <1>3, <2>1, <2>4
<1>5. \A n \in Nat : n \in S => n + 1 \in S
  <2> SUFFICES ASSUME NEW n \in Nat, n \in S, n + 1 \in 0..N PROVE P(n + 1)
    OBVIOUS
  <2>1. n \in 0..N /\ n + 1 \in 1..N /\ (n + 1) - 1 = n
    BY <1>1
  <2>2. f[n] = Sub(text, Values(args, Upto(order, n)))
    BY <2>1
  <2> DEFINE k == order[n + 1]
             L == Upto(order, n)
  <2>3. k \in K /\ L \in SUBSET K
    BY <1>1, <2>1 DEF Upto
  <2>4. Upto(order, n + 1) = L \cup {k}
    <3>1. 1..(n + 1) = (1..n) \cup {n + 1}
      BY OneMore, Zenon
    <3>. QED BY <3>1, Zenon DEF Upto
  <2>5. f[n + 1] = Replaced(f[n], k, args[k])
    BY <1>3, <2>1
  <2> HIDE DEF k, L
  <2>6. Replaced(Sub(text, Values(args, L)), k, args[k]) = Sub(text, Values(args, L \cup {k}))
    BY <2>3, FilledOneMore
  <2>. QED BY <2>2, <2>4, <2>5, <2>6 DEF L
<1>6. \A n \in Nat : n \in S
  <2> HIDE DEF S
  <2>. QED BY <1>4, <1>5, SetInduction
<1>7. P(N)
  <2>1. N \in S /\ N \in 0..N
    <3> HIDE DEF S
    <3>. QED BY <1>1, <1>6
  <2>. QED BY <2>1
<1>8. Upto(order, N) = K
  BY <1>1 DEF Upto
<1>. QED BY <1>2, <1>7, <1>8

LEMMA AtOnceIs ==
    ASSUME NEW text \in Seq(Words), NEW args
    PROVE  AtOnce(text, args) = Sub(text, Values(args, DOMAIN args))
<1>1. \A i \in DOMAIN text : text[i] \in Words
  BY ElementIn
<1>2. \A w \in Words : Values(args, DOMAIN args)[w] =
        IF \E k \in DOMAIN args : w = Hole[k] THEN args[CHOOSE k \in DOMAIN args : w = Hole[k]] ELSE <<w>>
  BY Zenon DEF Values
<1>3. \A i \in DOMAIN text : Values(args, DOMAIN args)[text[i]] =
        IF \E k \in DOMAIN args : text[i] = Hole[k]
        THEN args[CHOOSE k \in DOMAIN args : text[i] = Hole[k]] ELSE <<text[i]>>
  BY <1>1, <1>2, Zenon
<1>. QED BY <1>3, Zenon DEF AtOnce, Sub

\* What is filled in shows no placeholder of an argument, and no value that is no text.
LEMMA NoneShown ==
    ASSUME NEW text \in PromptTexts, NEW args, TextArgs(args), Plain(args), text \in Seq(Words),
           \A k \in DOMAIN args : args[k] \in ArgTexts,
           NEW k \in DOMAIN args, NEW i \in DOMAIN Sub(text, Values(args, DOMAIN args))
    PROVE  Sub(text, Values(args, DOMAIN args))[i] \notin {Hole[k], NotText[1]}
<1> DEFINE g == Values(args, DOMAIN args)
           X == {w \in Words : w \notin {Hole[k], NotText[1]}}
<1>1. /\ g \in [Words -> Seq(Words)]
      /\ \A w \in Words : (\A l \in DOMAIN args : w # Hole[l]) => g[w] = <<w>>
      /\ \A l \in DOMAIN args : g[Hole[l]] = args[l]
  BY ValuesAre
<1>2. \A w \in Words : w # NotText[1]
  <2>1. \A l \in ArgNames : Hole[l] # NotText[1]
    <3>1. Hole["a"] = "{a}" /\ Hole["b"] = "{b}" /\ NotText[1] = "(a number)"
      BY DEF Hole, NotText
    <3>2. "{a}" # "(a number)" /\ "{b}" # "(a number)"
      OBVIOUS
    <3>. QED BY <3>1, <3>2, Holes
  <2>2. \A w \in HoleWords : w # NotText[1]
    BY <2>1 DEF HoleWords
  <2>3. \A t \in PromptTexts \cup ArgTexts : \A w \in Range(t) : w # NotText[1]
    BY TextsAssumption
  <2>4. \A w \in TextWords : w # NotText[1]
    <3> SUFFICES ASSUME NEW w \in TextWords PROVE w # NotText[1]
      OBVIOUS
    <3>1. PICK t \in PromptTexts \cup ArgTexts : w \in Range(t)
      BY Zenon DEF TextWords
    <3>. QED BY <2>3, <3>1
  <2>. QED BY <2>2, <2>4 DEF Words
<1> HIDE DEF g
<1>3. WordsIn(Words, g, X)
  <2> SUFFICES ASSUME NEW w \in Words, NEW j \in DOMAIN g[w] PROVE g[w][j] \in X
    BY DEF WordsIn
  <2>1. g[w] \in Seq(Words) /\ g[w][j] \in Words
    BY <1>1, ElementIn
  <2>2. CASE \E l \in DOMAIN args : w = Hole[l]
    BY <1>1, <1>2, <2>1, <2>2 DEF Plain
  <2>3. CASE \A l \in DOMAIN args : w # Hole[l]
    <3>1. g[w] = <<w>>
      BY <1>1, <2>3
    <3>2. g[w][j] = w
      BY <3>1
    <3>. QED BY <1>2, <2>1, <2>3, <3>2
  <2>. QED BY <2>2, <2>3
<1>4. \A t \in Seq(Words) : \A l \in DOMAIN Sub(t, g) : Sub(t, g)[l] \in X
  <2> HIDE DEF X
  <2>. QED BY <1>1, <1>3, SubWords
<1>. QED BY <1>4 DEF g

\* A text and an argument are texts of words.
LEMMA TextsAre == \A t \in PromptTexts \cup ArgTexts : t \in Seq(Words)
<1> SUFFICES ASSUME NEW t \in PromptTexts \cup ArgTexts PROVE t \in Seq(Words)
  OBVIOUS
<1>1. t \in Seq(Range(t))
  BY TextsAssumption
<1>2. Range(t) \subseteq Words
  BY Zenon DEF Words, TextWords
<1>. QED BY <1>1, <1>2

\* The arguments that are kept are texts.
LEMMA StringsAre ==
    ASSUME NEW sent \in Sendings
    PROVE  /\ TextArgs(Strings(sent))
           /\ \A k \in DOMAIN Strings(sent) : Strings(sent)[k] \in ArgTexts
<1>1. PICK K \in SUBSET ArgNames : sent \in [K -> ArgTexts \union {NotText}]
  BY DEF Sendings
<1> DEFINE args == Strings(sent)
<1>2. /\ DOMAIN args \subseteq ArgNames /\ args = [k \in DOMAIN args |-> args[k]]
      /\ \A k \in DOMAIN args : args[k] \in ArgTexts
  BY <1>1 DEF Strings
<1> HIDE DEF args
<1>3. TextArgs(args)
  BY <1>2, TextsAre DEF TextArgs
<1>. QED BY <1>2, <1>3 DEF args

\* The answer to a request, and the one connection.
AnswerInv ==
    said.ok =>
      /\ request.prompt \in DOMAIN prompts
      /\ request.args \in Sendings
      /\ request.order \in SetToSeqs(DOMAIN Strings(request.args))
      /\ prompts[request.prompt].required \subseteq DOMAIN Strings(request.args)
      /\ said.text = Filled(prompts[request.prompt].text, Strings(request.args), request.order)
      /\ Len(said.blocks) = Len(prompts[request.prompt].blocks)
PromptsInv ==
    /\ prompts \in Seq(Candidates)
    /\ AnswerInv
    /\ readings \subseteq {dbConn} /\ (dbConn = "none" => readings = {})

LEMMA PromptsInitInv == PromptsInit => PromptsInv
BY DEF PromptsInit, PromptsInv, AnswerInv, Nothing

LEMMA CandidateIs ==
    ASSUME NEW p \in Candidates
    PROVE  p.text \in PromptTexts /\ Len(p.blocks) \in Nat /\ DOMAIN p.blocks = 1..Len(p.blocks)
<1>1. /\ p.text \in PromptTexts
      /\ p.blocks \in {<<>>, <<"text", "db", "gone">>, <<"file", "text">>}
  BY DEF Candidates
<1>. QED BY <1>1

\* Every block of a prompt gives one.
AllBlocks(bs, text, args, order, db) == FlattenSeq([j \in DOMAIN bs |-> Block(bs[j], text, args, order, db)])
LEMMA BlocksAsMany ==
    ASSUME NEW bs, Len(bs) \in Nat, DOMAIN bs = 1..Len(bs), NEW text, NEW args, NEW order, NEW db
    PROVE  Len(AllBlocks(bs, text, args, order, db)) = Len(bs)
<1> DEFINE s == [j \in DOMAIN bs |-> Block(bs[j], text, args, order, db)]
           W == {s[j][1] : j \in DOMAIN bs}
<1>1. \A b : DOMAIN Block(b, text, args, order, db) = {1}
             /\ Block(b, text, args, order, db) = [i \in {1} |-> Block(b, text, args, order, db)[i]]
  <2> SUFFICES ASSUME NEW b
               PROVE  DOMAIN Block(b, text, args, order, db) = {1}
                      /\ Block(b, text, args, order, db) = [i \in {1} |-> Block(b, text, args, order, db)[i]]
    OBVIOUS
  <2>1. \A x : DOMAIN <<x>> = {1} /\ <<x>> = [i \in {1} |-> <<x>>[i]]
    OBVIOUS
  <2>2. \E x : Block(b, text, args, order, db) = <<x>>
    BY Zenon DEF Block
  <2>. QED BY <2>1, <2>2
<1>2. DOMAIN s = 1..Len(bs) /\ \A j \in DOMAIN bs : s[j] \in [{1} -> W]
  <2>1. \A j \in DOMAIN bs : s[j] = [i \in {1} |-> s[j][i]] /\ s[j][1] \in W
    BY <1>1
  <2> HIDE DEF W
  <2>2. \A j \in DOMAIN bs : s[j] \in [{1} -> W]
    <3> SUFFICES ASSUME NEW j \in DOMAIN bs PROVE s[j] \in [{1} -> W]
      OBVIOUS
    <3> DEFINE x == s[j]
    <3>1. x = [i \in {1} |-> x[i]] /\ x[1] \in W
      BY <2>1
    <3> HIDE DEF x, s
    <3>2. x \in [{1} -> W]
      BY <3>1
    <3>. QED BY <3>2 DEF x
  <2>. QED BY <2>2
<1>3. s = [j \in 1..Len(bs) |-> s[j]]
  OBVIOUS
<1> HIDE DEF s, W
<1>4. s \in Seq([{1} -> W]) /\ Len(s) = Len(bs)
  BY <1>2, <1>3
<1>5. AllBlocks(bs, text, args, order, db) = FlattenSeq(s)
  BY Zenon DEF AllBlocks, s
<1>. QED BY <1>4, <1>5, FlattenOnes

LEMMA RegisterKeeps ==
    ASSUME PromptsInv, NEW p \in Candidates, RegisterPrompt(p) PROVE PromptsInv'
<1>1. /\ prompts' = Append(prompts, p) /\ UNCHANGED <<request, said, dbConn, readings>>
      /\ prompts \in Seq(Candidates)
  BY DEF RegisterPrompt, PromptsInv
<1>2. /\ prompts' \in Seq(Candidates)
      /\ \A i \in DOMAIN prompts : i \in DOMAIN prompts' /\ prompts'[i] = prompts[i]
  BY <1>1
<1>3. AnswerInv'
  BY <1>1, <1>2 DEF PromptsInv, AnswerInv
<1>. QED BY <1>1, <1>2, <1>3 DEF PromptsInv

LEMMA GetKeeps ==
    ASSUME PromptsInv, NEW n \in PromptNames, NEW structured \in BOOLEAN, NEW sent \in Sendings,
           GetPrompt(n, structured, sent)
    PROVE  PromptsInv'
<1> DEFINE i == Found(n, structured)
           args == Strings(sent)
           missing == i # 0 /\ ~ (prompts[i].required \subseteq DOMAIN args)
           uses == i # 0 /\ ~ missing /\ \E j \in DOMAIN prompts[i].blocks : prompts[i].blocks[j] = "db"
<1>1. PICK order \in SetToSeqs(DOMAIN args), db \in Opens :
       /\ request' = [prompt |-> i, args |-> sent, order |-> order]
       /\ said' = IF i = 0 \/ missing THEN Nothing
                  ELSE [ok |-> TRUE, text |-> Filled(prompts[i].text, args, order),
                        blocks |-> FlattenSeq([j \in DOMAIN prompts[i].blocks |->
                          Block(prompts[i].blocks[j], prompts[i].text, args, order, db)])]
       /\ dbConn' = IF uses THEN db ELSE dbConn
       /\ readings' = IF uses /\ db # "none" THEN readings \union {db} ELSE readings
  BY DEF GetPrompt
<1>2. prompts' = prompts /\ prompts \in Seq(Candidates)
  BY DEF GetPrompt, PromptsInv
<1>3. i # 0 => i \in DOMAIN prompts
  <2> DEFINE found == {j \in DOMAIN prompts : prompts[j].name = n /\ Structured(prompts[j]) = structured}
  <2>1. i = IF found = {} THEN 0 ELSE CHOOSE j \in found : \A k \in found : j <= k
    BY DEF Found
  <2>2. found \in SUBSET Nat
    BY <1>2
  <2>3. found # {} => i \in found
    <3> HIDE DEF found, i
    <3>1. found # {} => \E m \in found : \A k \in found : m <= k
      BY <2>2, Least
    <3>. QED BY <2>1, <3>1
  <2> HIDE DEF i
  <2>. QED BY <2>1, <2>3
<1>4. AnswerInv'
  <2> SUFFICES ASSUME i # 0, ~missing PROVE AnswerInv'
    <3>1. i = 0 \/ missing => said' = Nothing
      <4> HIDE DEF i, missing, uses, args
      <4>. QED BY <1>1
    <3>2. Nothing.ok = FALSE
      BY DEF Nothing
    <3>. QED BY <3>1, <3>2 DEF AnswerInv
  <2>1. i \in DOMAIN prompts /\ prompts[i] \in Candidates
    BY <1>2, <1>3, ElementIn
  <2>2. prompts[i].required \subseteq DOMAIN args
    OBVIOUS
  <2> DEFINE blocks == FlattenSeq([j \in DOMAIN prompts[i].blocks |->
                          Block(prompts[i].blocks[j], prompts[i].text, args, order, db)])
  <2>3. Len(blocks) = Len(prompts[i].blocks)
    <3> HIDE DEF i, args
    <3>1. Len(prompts[i].blocks) \in Nat /\ DOMAIN prompts[i].blocks = 1..Len(prompts[i].blocks)
      BY <2>1, CandidateIs
    <3>2. blocks = AllBlocks(prompts[i].blocks, prompts[i].text, args, order, db)
      BY Zenon DEF AllBlocks
    <3> HIDE DEF blocks
    <3>. QED BY <3>1, <3>2, BlocksAsMany
  <2>4. said' = [ok |-> TRUE, text |-> Filled(prompts[i].text, args, order), blocks |-> blocks]
    <3> HIDE DEF i, args, uses
    <3>. QED BY <1>1
  <2> HIDE DEF i, missing, uses, blocks
  <2>5. /\ said'.text = Filled(prompts[i].text, args, order) /\ said'.blocks = blocks
        /\ request'.prompt = i /\ request'.args = sent /\ request'.order = order
    BY <1>1, <2>4
  <2>. QED BY <1>1, <1>2, <2>1, <2>2, <2>3, <2>5 DEF AnswerInv
<1>5. readings' \subseteq {dbConn'} /\ (dbConn' = "none" => readings' = {})
  <2> HIDE DEF i, missing, uses, args
  <2>. QED BY <1>1 DEF Opens, PromptsInv
<1>. QED BY <1>2, <1>4, <1>5 DEF PromptsInv

LEMMA PromptsStep == PromptsInv /\ [PromptsNext]_promptVars => PromptsInv'
<1> SUFFICES ASSUME PromptsInv, [PromptsNext]_promptVars PROVE PromptsInv'
  OBVIOUS
<1>1. CASE UNCHANGED promptVars
  BY <1>1 DEF promptVars, PromptsInv, AnswerInv
<1>2. ASSUME NEW path \in DbPaths, SetDatabasePath(path) PROVE PromptsInv'
  BY <1>2 DEF SetDatabasePath, PromptsInv, AnswerInv
<1>. QED BY <1>1, <1>2, RegisterKeeps, GetKeeps DEF PromptsNext

LEMMA PromptsHeld == PromptsInv => PromptsHonest
<1> SUFFICES ASSUME PromptsInv PROVE PromptsHonest
  OBVIOUS
<1>1. OneDatabase
  <2>1. Cardinality({dbConn}) = 1 /\ IsFiniteSet({dbConn})
    BY FS_Singleton
  <2>2. Cardinality(readings) <= Cardinality({dbConn})
    BY <2>1, FS_Subset DEF PromptsInv
  <2>. QED BY <2>1, <2>2 DEF OneDatabase
<1>2. ASSUME said.ok PROVE BlocksKept
  BY <1>2 DEF PromptsInv, AnswerInv, BlocksKept
<1>3. ASSUME said.ok, Plain(Strings(request.args)) PROVE FilledAsMeant /\ RequiredShown
  <2> DEFINE text == prompts[request.prompt].text
             args == Strings(request.args)
             order == request.order
  <2>1. text \in PromptTexts
    <3>1. prompts[request.prompt] \in Candidates
      BY <1>3, ElementIn DEF PromptsInv, AnswerInv
    <3>. QED BY <3>1, CandidateIs
  <2>2. TextArgs(args) /\ (\A k \in DOMAIN args : args[k] \in ArgTexts) /\ Plain(args)
    BY <1>3, StringsAre DEF PromptsInv, AnswerInv
  <2>3. text \in Seq(Words)
    BY <2>1, TextsAre
  <2>4. order \in SetToSeqs(DOMAIN args) /\ said.text = Filled(text, args, order)
        /\ prompts[request.prompt].required \subseteq DOMAIN args
    BY <1>3 DEF PromptsInv, AnswerInv
  <2>5. FilledAsMeant <=> said.text = AtOnce(text, args)
    BY <1>3 DEF FilledAsMeant
  <2>6. RequiredShown <=> \A k \in prompts[request.prompt].required :
             \A i \in DOMAIN said.text : said.text[i] \notin {Hole[k], NotText[1]}
    BY <1>3 DEF RequiredShown
  <2> HIDE DEF text, args, order
  <2>7. said.text = Sub(text, Values(args, DOMAIN args))
    BY <2>2, <2>3, <2>4, FilledIs
  <2>8. AtOnce(text, args) = Sub(text, Values(args, DOMAIN args))
    BY <2>3, AtOnceIs
  <2>9. ASSUME NEW k \in DOMAIN args, NEW i \in DOMAIN Sub(text, Values(args, DOMAIN args))
        PROVE  Sub(text, Values(args, DOMAIN args))[i] \notin {Hole[k], NotText[1]}
    BY <2>1, <2>2, <2>3, NoneShown
  <2>. QED BY <2>4, <2>5, <2>6, <2>7, <2>8, <2>9
<1>4. FilledAsMeant /\ RequiredShown /\ BlocksKept
  BY <1>2, <1>3 DEF FilledAsMeant, RequiredShown, BlocksKept
<1>. QED BY <1>1, <1>4 DEF PromptsHonest

\* For every set of texts, arguments and database paths and after any sequence of
\* registrations, requests and changes of the path: get_prompt, which replaces one
\* argument after the other in the order of a hash map, answers with what the template
\* means when no argument has a placeholder in it, shows no placeholder of a required
\* argument, gives a block for each of the prompt's whatever fails, and all its reads
\* are of the one database the first connection opened.
THEOREM PromptsHonestAlways == PromptsSpec => []PromptsHonest
<1>. QED BY PromptsInitInv, PromptsStep, PromptsHeld, PTL DEF PromptsSpec

-----------------------------------------------------------------------------
(* BuiltinTools. A call changes nothing before its write; what writers of one inode
   leave there is theirs as long as no two had it open at once. *)

\* A sequence, of whatever it has.
IsText(s) == s \in Seq(Range(s))

LEMMA TextIn == \A W : \A s \in Seq(W) : IsText(s)
<1> SUFFICES ASSUME NEW W, NEW s \in Seq(W) PROVE s \in Seq(Range(s))
  BY DEF IsText
<1>1. \A i \in 1..Len(s) : s[i] \in Range(s)
  BY DEF Range
<1>2. s \in [1..Len(s) -> Range(s)] /\ Len(s) \in Nat
  BY <1>1
<1>. QED BY <1>2

LEMMA EmptyText == IsText(<<>>)
BY DEF IsText

\* Words replaced one for one.
LEMMA EditedText ==
    ASSUME NEW s, IsText(s), NEW old, NEW new PROVE IsText(EditReplaced(s, old, new))
<1> DEFINE u == EditReplaced(s, old, new)
           W == Range(s) \cup {new}
<1>1. DOMAIN s = 1..Len(s) /\ Len(s) \in Nat /\ \A k \in DOMAIN s : s[k] \in Range(s)
  BY DEF IsText
<1>2. u \in [1..Len(s) -> W]
  BY <1>1 DEF EditReplaced
<1> HIDE DEF u, W
<1>3. u \in Seq(W)
  BY <1>1, <1>2
<1>. QED BY <1>3, TextIn DEF u

\* What is written over a file: the new words and what is left of the old ones.
LEMMA OverlaidText ==
    ASSUME NEW new, NEW old, IsText(new), IsText(old)
    PROVE  /\ IsText(new \o SubSeq(old, Len(new) + 1, Len(old)))
           /\ old = <<>> => new \o SubSeq(old, Len(new) + 1, Len(old)) = new
<1> DEFINE W == Range(new) \cup Range(old)
           rest == SubSeq(old, Len(new) + 1, Len(old))
<1>1. new \in Seq(W) /\ old \in Seq(W) /\ Len(new) \in Nat /\ Len(old) \in Nat
  BY DEF IsText
<1> HIDE DEF W
<1>2. rest \in Seq(W)
  <2>1. \A i \in (Len(new) + 1)..Len(old) : old[i] \in W
    BY <1>1
  <2>2. Len(new) + 1 \in Int /\ Len(old) \in Int
    BY <1>1
  <2>. QED BY <2>1, <2>2, SubSeqProperties
<1> HIDE DEF rest
<1>3. new \o rest \in Seq(W)
  BY <1>1, <1>2
<1>4. IsText(new \o rest)
  BY <1>3, TextIn
<1>5. old = <<>> => rest = <<>>
  <2> SUFFICES ASSUME old = <<>> PROVE rest = <<>>
    OBVIOUS
  <2>1. Len(old) = 0 /\ Len(new) + 1 \in Int /\ Len(old) < Len(new) + 1
    BY <1>1
  <2>. QED BY <2>1, SubSeqEmpty DEF rest
<1>6. rest = <<>> => new \o rest = new
  BY <1>1
<1>. QED BY <1>4, <1>5, <1>6 DEF rest

\* The edits as a function of how many were applied.
Editor(g, words, es, N) ==
    g = [n \in 0..N |-> IF n = 0 THEN words ELSE EditReplaced(g[n - 1], es[n][1], es[n][2])]

LEMMA EditorExists ==
    ASSUME NEW words, NEW es, NEW N \in Nat
    PROVE  \E g : Editor(g, words, es, N)
<1> DEFINE G(n, g) == g = [i \in 0..n |-> IF i = 0 THEN words ELSE EditReplaced(g[i - 1], es[i][1], es[i][2])]
           S == {n \in Nat : \E g : G(n, g)}
<1>1. 0 \in S
  <2> DEFINE g == [i \in 0..0 |-> words]
  <2>1. G(0, g)
    <3>1. \A i \in 0..0 : i = 0
      OBVIOUS
    <3>. QED BY <3>1, Zenon
  <2>2. \E k : G(0, k)
    <3> HIDE DEF g, G
    <3>. QED BY <2>1
  <2> HIDE DEF G
  <2>. QED BY <2>2
<1>2. \A n \in Nat : n \in S => n + 1 \in S
  <2> SUFFICES ASSUME NEW n \in Nat, n \in S PROVE n + 1 \in S
    OBVIOUS
  <2> PICK g : G(n, g)
    OBVIOUS
  <2> DEFINE h == [i \in 0..(n+1) |-> IF i \in 0..n THEN g[i] ELSE EditReplaced(g[i - 1], es[i][1], es[i][2])]
  <2>1. \A i \in 0..(n+1) : h[i] = IF i = 0 THEN words ELSE EditReplaced(h[i - 1], es[i][1], es[i][2])
    <3> TAKE i \in 0..(n+1)
    <3>1. CASE i \in 0..n
      <4>1. h[i] = g[i] /\ (i # 0 => h[i-1] = g[i-1])
        BY <3>1
      <4>2. g[i] = IF i = 0 THEN words ELSE EditReplaced(g[i - 1], es[i][1], es[i][2])
        BY <3>1
      <4>. QED BY <4>1, <4>2
    <3>2. CASE i = n + 1
      <4>1. i \notin 0..n /\ i # 0
        BY <3>2
      <4>2. h[i] = EditReplaced(g[i - 1], es[i][1], es[i][2])
        BY <4>1
      <4>3. h[i-1] = g[i-1]
        BY <3>2
      <4>. QED BY <4>1, <4>2, <4>3
    <3>. QED BY <3>1, <3>2
  <2>2. G(n + 1, h)
    BY <2>1
  <2>3. \E k : G(n + 1, k)
    <3> HIDE DEF h, G
    <3>. QED BY <2>2
  <2> HIDE DEF h, G
  <2>. QED BY <2>3
<1>3. N \in S
  <2> HIDE DEF S
  <2>. QED BY <1>1, <1>2, SetInduction
<1>4. \E g : G(N, g)
  BY <1>3
<1>. QED BY <1>4, Zenon DEF Editor

\* The edits of a call keep a text a text.
LEMMA EditsText ==
    ASSUME NEW words, IsText(words), NEW es, Len(es) \in Nat
    PROVE  IsText(AfterEdits(words, es)[Len(es)])
<1> DEFINE N == Len(es)
           f == CHOOSE g : Editor(g, words, es, N)
<1>1. f = [n \in 0..N |-> IF n = 0 THEN words ELSE EditReplaced(f[n - 1], es[n][1], es[n][2])]
  <2> N \in Nat
    OBVIOUS
  <2> HIDE DEF N
  <2>1. \E g : Editor(g, words, es, N)
    BY EditorExists
  <2>2. Editor(f, words, es, N)
    BY <2>1, Zenon
  <2> HIDE DEF f
  <2>. QED BY <2>2, Zenon DEF Editor
<1>2. AfterEdits(words, es) = f
  BY Zenon DEF AfterEdits, Editor
<1>3. N = Len(es) /\ N \in Nat
  OBVIOUS
<1> HIDE DEF f, N
<1> DEFINE S == {n \in Nat : n \in 0..N => IsText(f[n])}
<1>4. 0 \in S
  BY <1>1, <1>3
<1>5. \A n \in Nat : n \in S => n + 1 \in S
  <2> SUFFICES ASSUME NEW n \in Nat, n \in S, n + 1 \in 0..N PROVE IsText(f[n + 1])
    OBVIOUS
  <2>1. n \in 0..N /\ (n + 1) - 1 = n /\ n + 1 # 0
    BY <1>3
  <2>2. f[n + 1] = EditReplaced(f[n], es[n + 1][1], es[n + 1][2])
    BY <1>1, <2>1
  <2>3. IsText(f[n])
    BY <2>1
  <2>4. IsText(EditReplaced(f[n], es[n + 1][1], es[n + 1][2]))
    BY <2>3, EditedText
  <2>. QED BY <2>2, <2>4
<1>6. \A n \in Nat : n \in S
  <2> HIDE DEF S
  <2>. QED BY <1>4, <1>5, SetInduction
<1>7. N \in S /\ N \in 0..N
  <2> HIDE DEF S
  <2>. QED BY <1>3, <1>6
<1>. QED BY <1>2, <1>3, <1>7

\* A call has the fields of its tool.
LEMMA CallsAre ==
    ASSUME NEW c \in Calls
    PROVE  /\ c.tool \in Native \cup Dynamic
           /\ c.tool = "file_write" => c.text \in Texts
           /\ c.tool = "edit_file" => c.edits \in Edits
BY FilesAssumption DEF Calls, Native, Readers

FirstPlaces == {"cache", "stat", "open", "truncate", "slurp", "lookup", "create_directory",
                "list_directory", "get_file_info", "move_file"}
LEMMA RouteIs ==
    ASSUME NEW t \in ToolThreads, toolCall[t] \in Calls
    PROVE  /\ Route(t) \in FirstPlaces
           /\ toolCall[t].tool = "edit_file" => Route(t) = "stat"
           /\ Route(t) = "lookup" => toolCall[t].tool # "convert_to_nda_tool"
<1>1. toolCall[t].tool \in Native \cup Dynamic
  BY CallsAre
<1>. QED BY <1>1, FilesAssumption DEF Route, Native, Readers, FirstPlaces

\* The places of an edit, and those where a call has something open.
EditPlaces == {"start", "stat", "slurp", "apply", "truncate", "write", "done"}
OpenPlaces == {"canonical", "read", "write", "done"}

FilesShape ==
    /\ DOMAIN data = Inodes /\ \A i \in Inodes : IsText(data[i])
    /\ DOMAIN toolPc = ToolThreads /\ DOMAIN toolResult = ToolThreads
    /\ DOMAIN fetched = ToolThreads /\ \A t \in ToolThreads : IsText(fetched[t])
    /\ DOMAIN handle = ToolThreads
    /\ \A t \in ToolThreads : toolCall[t] \in Calls

\* A call changes nothing before it writes, and an edit that writes is one that does.
CallInv(t) ==
    /\ t \in touched => toolPc[t] \in {"write", "done"}
    /\ toolPc[t] = "write" => t \in touched /\ handle[t] \in Inodes
    /\ handle[t] \in Inodes => toolPc[t] \in OpenPlaces
    /\ toolPc[t] \in {"canonical", "read"} => handle[t] \in Inodes
    /\ toolResult[t] # "none" => toolPc[t] = "done"
    /\ toolPc[t] = "apply" => toolCall[t].tool = "edit_file"
    /\ toolCall[t].tool = "edit_file" =>
          /\ toolPc[t] \in EditPlaces
          /\ toolPc[t] = "truncate" => ~toolCall[t].dry
          /\ t \in touched => ~toolCall[t].dry /\ toolResult[t] # "not found"

\* The thread that has the cache locked runs a frame.
FrameInv ==
    /\ frameLock # "free" => frameLock \in ToolThreads /\ toolPc[frameLock] = "frame"
    /\ \A t \in ToolThreads : toolPc[t] = "frame" => frameLock = t
    /\ \A t \in ToolThreads : toolPc[t] \in {"lookup", "frame"} => toolCall[t].tool # "convert_to_nda_tool"

\* An inode that two writers never shared.
Writers(i) == {t \in ToolThreads : handle[t] = i /\ t \in touched}
Whole(i) ==
    \/ \E t \in Writers(i) : toolPc[t] = "write" \/ toolResult[t] = "write failed"
    \/ \E t \in Writers(i) : data[i] = Output(t)
    \/ Writers(i) = {} /\ data[i] \in Texts
Alone(i) ==
    \A t \in ToolThreads : toolPc[t] = "write" /\ handle[t] = i =>
        data[i] = <<>> /\ \A u \in ToolThreads : toolPc[u] = "write" /\ handle[u] = i => u = t
InodesInv == \A i \in Inodes : i \notin overlaid => Whole(i) /\ Alone(i)

FilesInv == FilesShape /\ (\A t \in ToolThreads : CallInv(t)) /\ FrameInv /\ InodesInv

LEMMA FilesInit == ToolsInit => FilesInv
<1> SUFFICES ASSUME ToolsInit PROVE FilesInv
  OBVIOUS
<1>0. 0 \notin Inodes
  BY FilesAssumption DEF Inodes
<1>1. FilesShape
  <2>1. \A i \in Inodes : data[i] \in Texts
    BY DEF ToolsInit
  <2>2. \A i \in Inodes : IsText(data[i])
    BY <2>1, FilesAssumption DEF IsText
  <2>. QED BY <2>2, EmptyText DEF ToolsInit, FilesShape
<1>2. \A t \in ToolThreads : CallInv(t)
  BY <1>0 DEF ToolsInit, CallInv, EditPlaces
<1>3. FrameInv
  BY DEF ToolsInit, FrameInv
<1>4. InodesInv
  <2>1. \A i \in Inodes : Writers(i) = {} /\ data[i] \in Texts
    BY DEF ToolsInit, Writers
  <2>2. \A i \in Inodes : Alone(i)
    BY DEF ToolsInit, Alone
  <2>. QED BY <2>1, <2>2 DEF InodesInv, Whole
<1>. QED BY <1>1, <1>2, <1>3, <1>4 DEF FilesInv

\* A step of a call that writes nothing.
QuietStep(t) ==
    /\ toolPc[t] \notin {"write", "done"} /\ toolPc'[t] # "write"
    /\ \A u \in ToolThreads \ {t} :
          /\ toolPc'[u] = toolPc[u] /\ handle'[u] = handle[u] /\ fetched'[u] = fetched[u]
          /\ toolResult'[u] = toolResult[u] /\ (u \in touched' <=> u \in touched)
    /\ t \in touched' => handle'[t] \notin Inodes
    /\ UNCHANGED <<data, overlaid, toolCall>>

LEMMA QuietKeeps ==
    ASSUME FilesInv, NEW t \in ToolThreads, QuietStep(t) PROVE InodesInv'
<1> SUFFICES ASSUME NEW i \in Inodes, i \notin overlaid' PROVE Whole(i)' /\ Alone(i)'
  BY DEF InodesInv
<1>1. i \notin overlaid /\ Whole(i) /\ Alone(i) /\ data'[i] = data[i]
  BY DEF QuietStep, FilesInv, InodesInv
<1>2. t \notin touched
  BY DEF QuietStep, FilesInv, CallInv
<1>3. Writers(i)' = Writers(i) /\ t \notin Writers(i)
  BY <1>2 DEF Writers, QuietStep
<1>4. \A u \in Writers(i) : Output(u)' = Output(u) /\ toolPc'[u] = toolPc[u] /\ toolResult'[u] = toolResult[u]
  BY <1>3 DEF Writers, QuietStep, Output
<1>5. Whole(i)'
  BY <1>1, <1>3, <1>4 DEF Whole
<1>6. Alone(i)'
  <2>1. \A u \in ToolThreads : toolPc'[u] = "write" => u # t /\ toolPc[u] = "write" /\ handle'[u] = handle[u]
    BY DEF QuietStep
  <2>. QED BY <1>1, <2>1 DEF Alone
<1>. QED BY <1>5, <1>6

\* The parts of the invariant that are about one call at a time.
CallsInv == FilesShape /\ (\A t \in ToolThreads : CallInv(t)) /\ FrameInv

\* Only the one thread's entry of a function changes.
Only(f, g, t, x) == DOMAIN g = ToolThreads /\ g[t] = x /\ \A u \in ToolThreads \ {t} : g[u] = f[u]

LEMMA OnlyExcept == \A f, x : \A t \in ToolThreads : DOMAIN f = ToolThreads => Only(f, [f EXCEPT ![t] = x], t, x)
BY DEF Only
LEMMA OnlySame == \A f : \A t \in ToolThreads : DOMAIN f = ToolThreads => Only(f, f, t, f[t])
BY DEF Only

\* A call goes to place l with r for an answer, the inode h open and w in its hands.
Moves(t, l, r, h, w) ==
    /\ Only(toolPc, toolPc', t, l) /\ Only(toolResult, toolResult', t, r)
    /\ Only(handle, handle', t, h) /\ Only(fetched, fetched', t, w)
    /\ toolPc[t] \notin {"frame", "write", "done"} /\ l \notin {"frame", "write"}
    /\ r = "none" \/ l = "done"
    /\ IsText(w)
    /\ h \in Inodes => l \in OpenPlaces
    /\ l \in {"canonical", "read"} => h \in Inodes
    /\ l = "lookup" => toolCall[t].tool # "convert_to_nda_tool"
    /\ l = "apply" => toolCall[t].tool = "edit_file"
    /\ toolCall[t].tool = "edit_file" => l \in EditPlaces /\ (l = "truncate" => ~toolCall[t].dry)
    /\ UNCHANGED <<data, toolCall, frameLock, touched, overlaid>>

LEMMA MovesKeep ==
    ASSUME FilesInv, NEW t \in ToolThreads, NEW l, NEW r, NEW h, NEW w, Moves(t, l, r, h, w)
    PROVE  CallsInv' /\ QuietStep(t)
<1> USE DEF Only
<1>1. t \notin touched /\ touched' = touched
  BY DEF Moves, FilesInv, CallInv
<1>2. FilesShape'
  BY DEF Moves, FilesInv, FilesShape
<1>3. ASSUME NEW u \in ToolThreads PROVE CallInv(u)'
  <2>1. CASE u = t
    BY <1>1, <2>1 DEF Moves, CallInv
  <2>2. CASE u # t
    BY <2>2 DEF Moves, FilesInv, CallInv
  <2>. QED BY <2>1, <2>2
<1>4. FrameInv'
  BY DEF Moves, FilesInv, FrameInv
<1>5. QuietStep(t)
  BY <1>1 DEF Moves, QuietStep
<1>. QED BY <1>2, <1>3, <1>4, <1>5 DEF CallsInv

\* Where a call comes from, and what it leaves when it only goes on or answers.
Domains == DOMAIN toolPc = ToolThreads /\ DOMAIN toolResult = ToolThreads /\ DOMAIN handle = ToolThreads
           /\ DOMAIN fetched = ToolThreads

LEMMA Going ==
    ASSUME FilesInv, NEW t \in ToolThreads, NEW l, GotoStep(t, l), toolPc[t] # "done"
    PROVE  Only(toolPc, toolPc', t, l) /\ Only(toolResult, toolResult', t, "none")
<1>1. toolResult[t] = "none" /\ DOMAIN toolPc = ToolThreads /\ DOMAIN toolResult = ToolThreads
  BY DEF FilesInv, FilesShape, CallInv
<1>2. toolPc' = [toolPc EXCEPT ![t] = l] /\ toolResult' = toolResult
  BY DEF GotoStep
<1>. QED BY <1>1, <1>2, OnlyExcept, OnlySame

LEMMA Answering ==
    ASSUME FilesInv, NEW t \in ToolThreads, NEW r, ToolAnswer(t, r)
    PROVE  Only(toolPc, toolPc', t, "done") /\ Only(toolResult, toolResult', t, r)
<1>1. DOMAIN toolPc = ToolThreads /\ DOMAIN toolResult = ToolThreads
  BY DEF FilesInv, FilesShape
<1>2. toolPc' = [toolPc EXCEPT ![t] = "done"] /\ toolResult' = [toolResult EXCEPT ![t] = r]
  BY DEF ToolAnswer
<1>. QED BY <1>1, <1>2, OnlyExcept

LEMMA Keeping ==
    ASSUME FilesInv, NEW t \in ToolThreads
    PROVE  /\ handle' = handle => Only(handle, handle', t, handle[t])
           /\ fetched' = fetched => Only(fetched, fetched', t, fetched[t])
           /\ IsText(fetched[t])
           /\ toolPc[t] \notin OpenPlaces => handle[t] \notin Inodes
BY OnlySame DEF FilesInv, FilesShape, CallInv

\* An answer, and a step to the next place, of a call that changes nothing.
LEMMA AnswerKeeps ==
    ASSUME FilesInv, NEW t \in ToolThreads, NEW r, ToolAnswer(t, r), toolPc[t] \notin {"frame", "write", "done"},
           UNCHANGED <<data, toolCall, handle, fetched, frameLock, touched, overlaid>>
    PROVE  CallsInv' /\ QuietStep(t)
<1>1. Moves(t, "done", r, handle[t], fetched[t])
  BY Answering, Keeping DEF Moves, OpenPlaces, EditPlaces
<1>. QED BY <1>1, MovesKeep

LEMMA GotoKeeps ==
    ASSUME FilesInv, NEW t \in ToolThreads, NEW l, GotoStep(t, l), toolPc[t] \notin {"frame", "write", "done"},
           l \notin {"frame", "write", "canonical"}, toolPc[t] \notin OpenPlaces \/ l \in OpenPlaces,
           l = "read" => toolPc[t] = "canonical",
           l = "lookup" => toolCall[t].tool # "convert_to_nda_tool",
           l = "apply" => toolCall[t].tool = "edit_file",
           toolCall[t].tool = "edit_file" => l \in EditPlaces /\ (l = "truncate" => ~toolCall[t].dry),
           UNCHANGED <<data, toolCall, handle, fetched, frameLock, touched, overlaid>>
    PROVE  CallsInv' /\ QuietStep(t)
<1>1. l = "read" => handle[t] \in Inodes
  BY DEF FilesInv, CallInv
<1>2. Moves(t, l, "none", handle[t], fetched[t])
  BY <1>1, Going, Keeping DEF Moves
<1>. QED BY <1>2, MovesKeep

LEMMA StartKeeps == ASSUME FilesInv, NEW t \in ToolThreads, Start(t) PROVE CallsInv' /\ QuietStep(t)
<1>1. Route(t) \in FirstPlaces /\ (toolCall[t].tool = "edit_file" => Route(t) = "stat")
      /\ (Route(t) = "lookup" => toolCall[t].tool # "convert_to_nda_tool")
  BY RouteIs DEF FilesInv, FilesShape
<1> DEFINE l == Route(t)
<1>2. /\ toolPc[t] = "start" /\ UNCHANGED <<fs, data, toolCall, handle, fetched, frames, frameLock, touched, overlaid>>
      /\ \/ GotoStep(t, l) \/ ToolAnswer(t, "invalid")
  BY DEF Start, files, locks, history
<1> HIDE DEF l
<1>3. CASE GotoStep(t, l)
  BY <1>1, <1>2, <1>3, GotoKeeps DEF FirstPlaces, OpenPlaces, EditPlaces, l
<1>4. CASE ToolAnswer(t, "invalid")
  BY <1>2, <1>4, AnswerKeeps
<1>. QED BY <1>2, <1>3, <1>4

LEMMA OpenReadKeeps == ASSUME FilesInv, NEW t \in ToolThreads, OpenRead(t) PROVE CallsInv' /\ QuietStep(t)
<1> USE DEF files, locks, history
<1>0. toolPc[t] = "open" /\ UNCHANGED <<data, toolCall, fetched, frameLock, touched, overlaid>>
  BY DEF OpenRead
<1>1. CASE UNCHANGED handle /\ \E r : ToolAnswer(t, r)
  BY <1>0, <1>1, AnswerKeeps
<1>2. CASE /\ fs[toolCall[t].path] \in Inodes /\ handle' = [handle EXCEPT ![t] = fs[toolCall[t].path]]
           /\ GotoStep(t, "canonical")
  <2> DEFINE i == fs[toolCall[t].path]
  <2>1. Only(handle, handle', t, i)
    BY <1>2, OnlyExcept DEF FilesInv, FilesShape
  <2>2. toolCall[t].tool # "edit_file"
    BY <1>0 DEF FilesInv, CallInv, EditPlaces
  <2>3. Moves(t, "canonical", "none", i, fetched[t])
    BY <1>0, <1>2, <2>1, <2>2, Going, Keeping DEF Moves, OpenPlaces
  <2> HIDE DEF i
  <2>. QED BY <2>3, MovesKeep
<1>3. \/ UNCHANGED handle /\ ToolAnswer(t, "error")
      \/ UNCHANGED handle /\ ToolAnswer(t, "too large")
      \/ /\ fs[toolCall[t].path] \in Inodes /\ handle' = [handle EXCEPT ![t] = fs[toolCall[t].path]]
         /\ GotoStep(t, "canonical")
  BY DEF OpenRead, IsFile
<1>. QED BY <1>1, <1>2, <1>3

LEMMA CanonicalizeKeeps ==
    ASSUME FilesInv, NEW t \in ToolThreads, Canonicalize(t) PROVE CallsInv' /\ QuietStep(t)
<1> USE DEF files, locks, history
<1>0. toolPc[t] = "canonical" /\ UNCHANGED <<data, toolCall, handle, fetched, frameLock, touched, overlaid>>
  BY DEF Canonicalize
<1>1. CASE ToolAnswer(t, "error")
  BY <1>0, <1>1, AnswerKeeps
<1>2. CASE GotoStep(t, "read")
  <2>1. toolCall[t].tool # "edit_file"
    BY <1>0 DEF FilesInv, CallInv, EditPlaces
  <2>. QED BY <1>0, <1>2, <2>1, GotoKeeps DEF OpenPlaces
<1>. QED BY <1>1, <1>2 DEF Canonicalize

LEMMA StatKeeps == ASSUME FilesInv, NEW t \in ToolThreads, StatFile(t) PROVE CallsInv' /\ QuietStep(t)
<1> USE DEF files, locks, history
<1>0. toolPc[t] = "stat" /\ UNCHANGED <<data, toolCall, handle, fetched, frameLock, touched, overlaid>>
  BY DEF StatFile
<1>1. ASSUME NEW r, ToolAnswer(t, r) PROVE CallsInv' /\ QuietStep(t)
  BY <1>0, <1>1, AnswerKeeps
<1>2. CASE GotoStep(t, "slurp")
  BY <1>0, <1>2, GotoKeeps DEF OpenPlaces, EditPlaces
<1>. QED BY <1>1, <1>2 DEF StatFile

LEMMA DestinationKeeps ==
    ASSUME FilesInv, NEW t \in ToolThreads, CheckDestination(t) PROVE CallsInv' /\ QuietStep(t)
<1> USE DEF files, locks, history
<1>0. toolPc[t] = "move_file" /\ UNCHANGED <<data, toolCall, handle, fetched, frameLock, touched, overlaid>>
  BY DEF CheckDestination
<1>1. ASSUME NEW r, ToolAnswer(t, r) PROVE CallsInv' /\ QuietStep(t)
  BY <1>0, <1>1, AnswerKeeps
<1>2. CASE GotoStep(t, "rename")
  <2>1. toolCall[t].tool # "edit_file"
    BY <1>0 DEF FilesInv, CallInv, EditPlaces
  <2>. QED BY <1>0, <1>2, <2>1, GotoKeeps DEF OpenPlaces
<1>. QED BY <1>1, <1>2 DEF CheckDestination

LEMMA AnswersKeep ==
    ASSUME FilesInv, NEW t \in ToolThreads, FileInfo(t) \/ RunDynamic(t) PROVE CallsInv' /\ QuietStep(t)
<1> USE DEF files, locks, history
<1>0. toolPc[t] \in {"get_file_info", "plugin"}
      /\ UNCHANGED <<data, toolCall, handle, fetched, frameLock, touched, overlaid>>
  BY DEF FileInfo, RunDynamic
<1>1. PICK r : ToolAnswer(t, r)
  BY DEF FileInfo, RunDynamic
<1>. QED BY <1>0, <1>1, AnswerKeeps

\* The steps that read: what they have read are words.
LEMMA ReadKeeps ==
    ASSUME FilesInv, NEW t \in ToolThreads, NEW w, IsText(w), fetched' = [fetched EXCEPT ![t] = w], NEW r,
           ToolAnswer(t, r), toolPc[t] \notin {"frame", "write", "done"},
           UNCHANGED <<data, toolCall, handle, frameLock, touched, overlaid>>
    PROVE  CallsInv' /\ QuietStep(t)
<1>1. Only(fetched, fetched', t, w)
  BY OnlyExcept DEF FilesInv, FilesShape
<1>2. Moves(t, "done", r, handle[t], w)
  BY <1>1, Answering, Keeping DEF Moves, OpenPlaces, EditPlaces
<1>. QED BY <1>2, MovesKeep

LEMMA ReadOnKeeps ==
    ASSUME FilesInv, NEW t \in ToolThreads, NEW w, IsText(w), fetched' = [fetched EXCEPT ![t] = w], NEW l,
           GotoStep(t, l), toolPc[t] \notin {"frame", "write", "done"},
           l \notin {"frame", "write", "lookup", "canonical", "read"}, toolPc[t] \notin OpenPlaces,
           l = "apply" => toolCall[t].tool = "edit_file",
           toolCall[t].tool = "edit_file" => l \in EditPlaces /\ (l = "truncate" => ~toolCall[t].dry),
           UNCHANGED <<data, toolCall, handle, frameLock, touched, overlaid>>
    PROVE  CallsInv' /\ QuietStep(t)
<1>1. Only(fetched, fetched', t, w)
  BY OnlyExcept DEF FilesInv, FilesShape
<1>2. Moves(t, l, "none", handle[t], w)
  BY <1>1, Going, Keeping DEF Moves
<1>. QED BY <1>2, MovesKeep

LEMMA ReadOpenedKeeps == ASSUME FilesInv, NEW t \in ToolThreads, ReadOpened(t) PROVE CallsInv' /\ QuietStep(t)
<1> USE DEF files, locks, history
<1>0. /\ toolPc[t] = "read" /\ UNCHANGED <<data, toolCall, handle, frameLock, touched, overlaid>>
      /\ fetched' = [fetched EXCEPT ![t] = data[handle[t]]] /\ ToolAnswer(t, "ok")
  BY DEF ReadOpened
<1>1. IsText(data[handle[t]])
  BY <1>0 DEF FilesInv, FilesShape, CallInv
<1> DEFINE w == data[handle[t]]
<1>2. IsText(w) /\ fetched' = [fetched EXCEPT ![t] = w]
  BY <1>0, <1>1
<1> HIDE DEF w
<1>. QED BY <1>0, <1>2, ReadKeeps

LEMMA SlurpKeeps == ASSUME FilesInv, NEW t \in ToolThreads, Slurp(t) PROVE CallsInv' /\ QuietStep(t)
<1> USE DEF files, locks, history
<1>0. toolPc[t] = "slurp" /\ UNCHANGED <<data, toolCall, handle, frameLock, touched, overlaid>>
  BY DEF Slurp
<1>1. CASE ~IsFile(toolCall[t].path)
  <2>1. ToolAnswer(t, "error") /\ fetched' = fetched
    BY <1>1 DEF Slurp
  <2>. QED BY <1>0, <2>1, AnswerKeeps
<1>2. CASE IsFile(toolCall[t].path)
  <2> DEFINE w == data[fs[toolCall[t].path]]
  <2>1. IsText(w)
    BY <1>2 DEF FilesInv, FilesShape, IsFile
  <2>2. /\ fetched' = [fetched EXCEPT ![t] = w]
        /\ CASE toolCall[t].tool = "edit_file" -> GotoStep(t, "apply")
             [] toolCall[t].tool = "convert_to_nda_document" -> GotoStep(t, "truncate")
             [] OTHER -> ToolAnswer(t, "ok")
    BY <1>2, Zenon DEF Slurp
  <2> HIDE DEF w
  <2>3. CASE toolCall[t].tool = "edit_file"
    <3>1. GotoStep(t, "apply")
      BY <2>2, <2>3
    <3>. QED BY <1>0, <2>1, <2>2, <2>3, <3>1, ReadOnKeeps DEF OpenPlaces, EditPlaces
  <2>4. CASE toolCall[t].tool = "convert_to_nda_document"
    <3>1. GotoStep(t, "truncate")
      BY <2>2, <2>4
    <3>. QED BY <1>0, <2>1, <2>2, <2>4, <3>1, ReadOnKeeps DEF OpenPlaces
  <2>5. CASE toolCall[t].tool \notin {"edit_file", "convert_to_nda_document"}
    <3>1. ToolAnswer(t, "ok")
      BY <2>2, <2>5
    <3>. QED BY <1>0, <2>1, <2>2, <3>1, ReadKeeps
  <2>. QED BY <2>3, <2>4, <2>5
<1>. QED BY <1>1, <1>2

LEMMA ApplyKeeps == ASSUME FilesInv, NEW t \in ToolThreads, ApplyEdits(t) PROVE CallsInv' /\ QuietStep(t)
<1> USE DEF files, locks, history
<1>0. toolPc[t] = "apply" /\ UNCHANGED <<data, toolCall, handle, frameLock, touched, overlaid>>
  BY DEF ApplyEdits
<1>a. toolCall[t].tool = "edit_file" /\ Len(toolCall[t].edits) \in Nat /\ IsText(fetched[t])
      /\ DOMAIN fetched = ToolThreads
  BY <1>0, CallsAre, FilesAssumption DEF FilesInv, FilesShape, CallInv
<1>1. CASE ~AllFound(fetched[t], toolCall[t].edits)
  <2>1. ToolAnswer(t, "not found") /\ fetched' = fetched
    BY <1>1 DEF ApplyEdits
  <2>. QED BY <1>0, <2>1, AnswerKeeps
<1>2. CASE AllFound(fetched[t], toolCall[t].edits)
  <2> DEFINE w == AfterEdits(fetched[t], toolCall[t].edits)[Len(toolCall[t].edits)]
  <2>1. IsText(w)
    BY <1>a, EditsText
  <2>2. fetched' = [fetched EXCEPT ![t] = w]
    BY <1>2, <1>a DEF ApplyEdits
  <2>3. IF toolCall[t].dry THEN ToolAnswer(t, "ok") ELSE GotoStep(t, "truncate")
    BY <1>2 DEF ApplyEdits
  <2> HIDE DEF w
  <2>4. CASE toolCall[t].dry
    BY <1>0, <2>1, <2>2, <2>3, <2>4, ReadKeeps
  <2>5. CASE ~toolCall[t].dry
    BY <1>0, <2>1, <2>2, <2>3, <2>5, ReadOnKeeps DEF OpenPlaces, EditPlaces
  <2>. QED BY <2>4, <2>5
<1>. QED BY <1>1, <1>2

LEMMA ListKeeps ==
    ASSUME FilesInv, NEW t \in ToolThreads, ListNames(t) \/ ListEntry(t) PROVE CallsInv' /\ QuietStep(t)
<1> USE DEF files, locks, history
<1>0. /\ toolPc[t] \in {"list_directory", "entry"}
      /\ UNCHANGED <<data, toolCall, handle, frameLock, touched, overlaid>>
  BY DEF ListNames, ListEntry
<1>a. toolCall[t].tool # "edit_file" /\ IsText(fetched[t]) /\ DOMAIN fetched = ToolThreads
  BY <1>0 DEF FilesInv, FilesShape, CallInv, EditPlaces
<1>1. CASE ListNames(t)
  <2>1. PICK names \in SetToSeqs({p \in Files : fs[p] # NoEntry}) : fetched' = [fetched EXCEPT ![t] = names]
    BY <1>1 DEF ListNames
  <2>2. IsText(names)
    <3> DEFINE K == {p \in Files : fs[p] # NoEntry}
    <3>1. names \in [1..Cardinality(K) -> K]
      BY DEF SetToSeqs
    <3>2. Cardinality(K) \in Nat
      BY FilesAssumption, FS_Subset, FS_CardinalityType
    <3> HIDE DEF K
    <3>3. names \in Seq(K)
      BY <3>1, <3>2
    <3>. QED BY <3>3, TextIn
  <2>3. GotoStep(t, "entry")
    BY <1>1 DEF ListNames
  <2>. QED BY <1>0, <1>a, <2>1, <2>2, <2>3, ReadOnKeeps DEF OpenPlaces
<1>2. CASE ListEntry(t)
  <2>1. CASE fetched' = fetched /\ \E r : ToolAnswer(t, r)
    BY <1>0, <2>1, AnswerKeeps
  <2>2. CASE fetched[t] # <<>> /\ fetched' = [fetched EXCEPT ![t] = Tail(@)] /\ GotoStep(t, "entry")
    <3> DEFINE w == Tail(fetched[t])
    <3>1. IsText(w)
      <4>1. w \in Seq(Range(fetched[t]))
        BY <1>a, <2>2 DEF IsText
      <4>. QED BY <4>1, TextIn
    <3>2. fetched' = [fetched EXCEPT ![t] = w]
      BY <2>2, <1>a
    <3> HIDE DEF w
    <3>. QED BY <1>0, <1>a, <2>2, <3>1, <3>2, ReadOnKeeps DEF OpenPlaces
  <2>3. \/ fetched' = fetched /\ ToolAnswer(t, "ok")
        \/ fetched' = fetched /\ ToolAnswer(t, "error")
        \/ fetched[t] # <<>> /\ fetched' = [fetched EXCEPT ![t] = Tail(@)] /\ GotoStep(t, "entry")
    BY <1>2 DEF ListEntry
  <2>. QED BY <2>1, <2>2, <2>3
<1>. QED BY <1>1, <1>2

\* The steps that change a name answer at once, and have nothing open.
LEMMA NamesKeep ==
    ASSUME FilesInv, NEW t \in ToolThreads, RenameFile(t) \/ CreateDirectory(t) PROVE CallsInv' /\ QuietStep(t)
<1>0. /\ toolPc[t] \in {"rename", "create_directory"}
      /\ UNCHANGED <<data, toolCall, handle, fetched, frameLock, overlaid>>
      /\ touched' = touched \/ touched' = touched \cup {t}
  BY DEF RenameFile, CreateDirectory, locks
<1>1. PICK r : ToolAnswer(t, r)
  BY DEF RenameFile, CreateDirectory
<1>2. Only(toolPc, toolPc', t, "done") /\ Only(toolResult, toolResult', t, r)
  BY <1>1, Answering
<1>3. toolCall[t].tool # "edit_file" /\ handle[t] \notin Inodes
  BY <1>0 DEF FilesInv, CallInv, EditPlaces, OpenPlaces
<1> USE DEF Only
<1>4. FilesShape'
  BY <1>0, <1>2 DEF FilesInv, FilesShape
<1>5. ASSUME NEW u \in ToolThreads PROVE CallInv(u)'
  <2>1. CASE u = t
    BY <1>0, <1>2, <1>3, <2>1 DEF CallInv
  <2>2. CASE u # t
    BY <1>0, <1>2, <2>2 DEF FilesInv, CallInv
  <2>. QED BY <2>1, <2>2
<1>6. FrameInv'
  BY <1>0, <1>2 DEF FilesInv, FrameInv
<1>7. QuietStep(t)
  BY <1>0, <1>2, <1>3 DEF QuietStep
<1>. QED BY <1>4, <1>5, <1>6, <1>7 DEF CallsInv

\* The mutex of the frame cache.
LEMMA CacheKeeps == ASSUME FilesInv, NEW t \in ToolThreads, CacheFrame(t) PROVE CallsInv' /\ QuietStep(t)
<1>1. /\ toolPc[t] = "cache" /\ ToolAnswer(t, "ok")
      /\ UNCHANGED <<data, toolCall, handle, fetched, frameLock, touched, overlaid>>
  BY DEF CacheFrame, files, history
<1>. QED BY <1>1, AnswerKeeps

LEMMA LookupKeeps == ASSUME FilesInv, NEW t \in ToolThreads, LookupFrame(t) PROVE CallsInv' /\ QuietStep(t)
<1>0. /\ toolPc[t] = "lookup" /\ frameLock = "free"
      /\ UNCHANGED <<data, toolCall, handle, fetched, touched, overlaid>>
      /\ \/ frameLock' = t /\ GotoStep(t, "frame")
         \/ frameLock' = frameLock /\ GotoStep(t, "plugin")
  BY DEF LookupFrame, files, history
<1>a. toolCall[t].tool # "edit_file" /\ toolCall[t].tool # "convert_to_nda_tool" /\ handle[t] \notin Inodes
      /\ t \notin touched
  BY <1>0 DEF FilesInv, CallInv, FrameInv, EditPlaces, OpenPlaces
<1>1. CASE frameLock' = frameLock /\ GotoStep(t, "plugin")
  BY <1>0, <1>a, <1>1, GotoKeeps DEF OpenPlaces
<1>2. CASE frameLock' = t /\ GotoStep(t, "frame")
  <2>1. Only(toolPc, toolPc', t, "frame") /\ Only(toolResult, toolResult', t, "none")
    BY <1>0, <1>2, Going
  <2> USE DEF Only
  <2>2. FilesShape'
    BY <1>0, <2>1 DEF FilesInv, FilesShape
  <2>3. ASSUME NEW u \in ToolThreads PROVE CallInv(u)'
    <3>1. CASE u = t
      BY <1>0, <1>a, <2>1, <3>1 DEF CallInv
    <3>2. CASE u # t
      BY <1>0, <2>1, <3>2 DEF FilesInv, CallInv
    <3>. QED BY <3>1, <3>2
  <2>4. FrameInv'
    BY <1>0, <1>a, <1>2, <2>1, FilesAssumption DEF FilesInv, FrameInv
  <2>5. QuietStep(t)
    BY <1>0, <1>a, <2>1 DEF QuietStep
  <2>. QED BY <2>2, <2>3, <2>4, <2>5 DEF CallsInv
<1>. QED BY <1>0, <1>1, <1>2

LEMMA RunFrameKeeps == ASSUME FilesInv, NEW t \in ToolThreads, RunFrame(t) PROVE CallsInv' /\ QuietStep(t)
<1>0. toolPc[t] = "frame" /\ UNCHANGED <<data, toolCall, handle, fetched, touched, overlaid>>
  BY DEF RunFrame, files, history
<1>1. toolCall[t].tool # "convert_to_nda_tool" /\ frameLock = t /\ handle[t] \notin Inodes /\ t \notin touched
      /\ toolCall[t].tool # "edit_file"
  BY <1>0 DEF FilesInv, FrameInv, CallInv, OpenPlaces, EditPlaces
<1>2. frameLock' = "free" /\ \E r : ToolAnswer(t, r)
  BY <1>1 DEF RunFrame
<1>3. PICK r : ToolAnswer(t, r)
  BY <1>2
<1>4. Only(toolPc, toolPc', t, "done") /\ Only(toolResult, toolResult', t, r)
  BY <1>3, Answering
<1> USE DEF Only
<1>5. FilesShape'
  BY <1>0, <1>4 DEF FilesInv, FilesShape
<1>6. ASSUME NEW u \in ToolThreads PROVE CallInv(u)'
  <2>1. CASE u = t
    BY <1>0, <1>1, <1>4, <2>1 DEF CallInv
  <2>2. CASE u # t
    BY <1>0, <1>4, <2>2 DEF FilesInv, CallInv
  <2>. QED BY <2>1, <2>2
<1>7. FrameInv'
  BY <1>0, <1>1, <1>2, <1>4 DEF FilesInv, FrameInv
<1>8. QuietStep(t)
  BY <1>0, <1>1, <1>4 DEF QuietStep
<1>. QED BY <1>5, <1>6, <1>7, <1>8 DEF CallsInv

\* std::fs::write: the file is emptied or made ...
LEMMA TruncateKeeps == ASSUME FilesInv, NEW t \in ToolThreads, Truncate(t) PROVE FilesInv'
<1>0. toolPc[t] = "truncate" /\ UNCHANGED <<toolCall, fetched, frameLock>> /\ t \notin touched
  BY DEF Truncate, locks, FilesInv, CallInv
<1>1. CASE fs[Target(t)] = Directory
  <2>1. ToolAnswer(t, "error") /\ UNCHANGED <<data, handle, touched, overlaid>>
    BY <1>1 DEF Truncate, files, history
  <2>2. CallsInv' /\ QuietStep(t)
    BY <1>0, <2>1, AnswerKeeps
  <2>. QED BY <2>2, QuietKeeps DEF FilesInv, CallsInv
<1>2. CASE fs[Target(t)] # Directory
  <2>1. PICK i \in Inodes :
          /\ data' = [data EXCEPT ![i] = <<>>] /\ handle' = [handle EXCEPT ![t] = i]
          /\ touched' = touched \cup {t} /\ Opened(t, i) /\ GotoStep(t, "write")
    BY <1>2 DEF Truncate
  <2>2. Only(toolPc, toolPc', t, "write") /\ Only(toolResult, toolResult', t, "none") /\ Only(handle, handle', t, i)
    BY <1>0, <2>1, Going, OnlyExcept DEF FilesInv, FilesShape
  <2> USE DEF Only
  <2>3. DOMAIN data' = Inodes /\ data'[i] = <<>> /\ \A j \in Inodes \ {i} : data'[j] = data[j]
    BY <2>1 DEF FilesInv, FilesShape
  <2>4. FilesShape'
    BY <1>0, <2>2, <2>3, EmptyText DEF FilesInv, FilesShape
  <2>5. ASSUME NEW u \in ToolThreads PROVE CallInv(u)'
    <3>1. CASE u = t
      <4>1. /\ toolPc'[u] = "write" /\ toolResult'[u] = "none" /\ handle'[u] = i /\ toolCall'[u] = toolCall[u]
            /\ u \in touched'
        BY <1>0, <2>1, <2>2, <3>1
      <4>2. toolCall[u].tool = "edit_file" => ~toolCall[u].dry
        BY <1>0, <3>1 DEF FilesInv, CallInv
      <4>3. Inodes' = Inodes /\ "write" \in OpenPlaces /\ "write" \in EditPlaces
        BY DEF Inodes, OpenPlaces, EditPlaces
      <4>. QED BY <4>1, <4>2, <4>3, <2>1 DEF CallInv
    <3>2. CASE u # t
      <4>1. /\ toolPc'[u] = toolPc[u] /\ toolResult'[u] = toolResult[u] /\ handle'[u] = handle[u]
            /\ toolCall'[u] = toolCall[u] /\ (u \in touched' <=> u \in touched)
        BY <1>0, <2>1, <2>2, <3>2
      <4>. QED BY <4>1 DEF FilesInv, CallInv
    <3>. QED BY <3>1, <3>2
  <2>6. FrameInv'
    BY <1>0, <2>2 DEF FilesInv, FrameInv
  <2>7. ASSUME NEW j \in Inodes, j \notin overlaid', j # i PROVE Whole(j)' /\ Alone(j)'
    <3>1. j \notin overlaid /\ Whole(j) /\ Alone(j) /\ data'[j] = data[j]
      BY <2>1, <2>3, <2>7 DEF Opened, FilesInv, InodesInv
    <3>2. Writers(j)' = Writers(j) /\ t \notin Writers(j)
      BY <1>0, <2>1, <2>2, <2>7 DEF Writers
    <3>3. \A u \in Writers(j) : Output(u)' = Output(u) /\ toolPc'[u] = toolPc[u] /\ toolResult'[u] = toolResult[u]
      BY <1>0, <2>2, <3>2 DEF Writers, Output
    <3>4. Whole(j)'
      BY <3>1, <3>2, <3>3 DEF Whole
    <3>5. Alone(j)'
      BY <2>2, <2>7, <3>1 DEF Alone
    <3>. QED BY <3>4, <3>5
  <2>8. ASSUME i \notin overlaid' PROVE Whole(i)' /\ Alone(i)'
    <3>1. t \in Writers(i)' /\ toolPc'[t] = "write"
      BY <2>1, <2>2 DEF Writers
    <3>2. \A u \in ToolThreads \ {t} : ~(toolPc[u] = "write" /\ handle[u] = i)
      BY <2>1, <2>8 DEF Opened
    <3>3. Alone(i)'
      BY <2>2, <2>3, <3>2 DEF Alone
    <3>. QED BY <3>1, <3>3 DEF Whole
  <2>9. InodesInv'
    BY <2>7, <2>8 DEF InodesInv
  <2>. QED BY <2>4, <2>5, <2>6, <2>9 DEF FilesInv
<1>. QED BY <1>1, <1>2

\* ... and written.
LEMMA WriteKeeps == ASSUME FilesInv, NEW t \in ToolThreads, NEW ok \in BOOLEAN, Write(t, ok) PROVE FilesInv'
<1>0. /\ toolPc[t] = "write" /\ UNCHANGED <<toolCall, handle, fetched, frameLock, touched, overlaid>>
      /\ t \in touched /\ handle[t] \in Inodes
  BY DEF Write, locks, history, FilesInv, CallInv
<1> DEFINE i == handle[t]
           new == Output(t)
           old == data[i]
           both == new \o SubSeq(old, Len(new) + 1, Len(old))
<1>1. IsText(new) /\ IsText(old)
  <2>1. IsText(old)
    BY <1>0 DEF FilesInv, FilesShape
  <2>2. toolCall[t].tool = "file_write" => IsText(toolCall[t].text)
    BY CallsAre, FilesAssumption DEF FilesInv, FilesShape, IsText
  <2>3. IsText(fetched[t])
    BY DEF FilesInv, FilesShape
  <2>. QED BY <2>1, <2>2, <2>3 DEF Output
<1>2. IsText(both) /\ (old = <<>> => both = new)
  <2> HIDE DEF i, new, old
  <2>. QED BY <1>1, OverlaidText
<1>3. \/ ok /\ data' = [data EXCEPT ![i] = both] /\ ToolAnswer(t, "ok")
      \/ data' = data /\ ToolAnswer(t, "write failed")
  BY DEF Write
<1>4. PICK r \in {"ok", "write failed"} :
        /\ ToolAnswer(t, r) /\ DOMAIN data' = Inodes /\ (\A j \in Inodes \ {i} : data'[j] = data[j])
        /\ (r = "ok" => data'[i] = both) /\ (r # "ok" => data'[i] = data[i])
  <2> HIDE DEF both
  <2>1. CASE ok /\ data' = [data EXCEPT ![i] = both] /\ ToolAnswer(t, "ok")
    BY <1>0, <2>1 DEF FilesInv, FilesShape
  <2>2. CASE data' = data /\ ToolAnswer(t, "write failed")
    BY <1>0, <2>2 DEF FilesInv, FilesShape
  <2>. QED BY <1>3, <2>1, <2>2
<1> HIDE DEF both, old
<1>5. Only(toolPc, toolPc', t, "done") /\ Only(toolResult, toolResult', t, r)
  BY <1>4, Answering
<1> USE DEF Only
<1>6. FilesShape'
  <2>1. \A j \in Inodes : IsText(data'[j])
    BY <1>2, <1>4 DEF FilesInv, FilesShape
  <2>. QED BY <1>0, <1>4, <1>5, <2>1 DEF FilesInv, FilesShape
<1>7. ASSUME NEW u \in ToolThreads PROVE CallInv(u)'
  <2>1. CASE u = t
    BY <1>0, <1>5, <2>1 DEF FilesInv, CallInv, EditPlaces, OpenPlaces
  <2>2. CASE u # t
    BY <1>0, <1>5, <2>2 DEF FilesInv, CallInv
  <2>. QED BY <2>1, <2>2
<1>8. FrameInv'
  BY <1>0, <1>5 DEF FilesInv, FrameInv
<1>9. \A j \in Inodes : Writers(j)' = Writers(j)
  BY <1>0 DEF Writers
<1>10. ASSUME NEW j \in Inodes, j \notin overlaid', j # i PROVE Whole(j)' /\ Alone(j)'
  <2>1. j \notin overlaid /\ Whole(j) /\ Alone(j) /\ data'[j] = data[j]
    BY <1>0, <1>4, <1>10 DEF FilesInv, InodesInv
  <2>2. t \notin Writers(j)
    BY <1>10 DEF Writers
  <2>3. \A u \in Writers(j) : Output(u)' = Output(u) /\ toolPc'[u] = toolPc[u] /\ toolResult'[u] = toolResult[u]
    BY <1>0, <1>5, <2>2 DEF Writers, Output
  <2>4. Whole(j)'
    BY <1>9, <2>1, <2>3 DEF Whole
  <2>5. Alone(j)'
    BY <1>0, <1>5, <2>1 DEF Alone
  <2>. QED BY <2>4, <2>5
<1>11. ASSUME i \notin overlaid' PROVE Whole(i)' /\ Alone(i)'
  <2>1. Alone(i) /\ t \in Writers(i)
    BY <1>0, <1>11 DEF FilesInv, InodesInv, Writers
  <2>2. data[i] = <<>> /\ \A u \in ToolThreads \ {t} : ~(toolPc[u] = "write" /\ handle[u] = i)
    BY <1>0, <2>1 DEF Alone
  <2>3. Alone(i)'
    BY <1>0, <1>5, <2>2 DEF Alone
  <2>4. CASE r = "ok"
    <3>1. data'[i] = Output(t)
      BY <1>2, <1>4, <2>2, <2>4 DEF old
    <3>2. Output(t)' = Output(t)
      BY <1>0 DEF Output
    <3>3. i' = i
      BY <1>0
    <3>. QED BY <1>0, <1>9, <2>1, <2>3, <3>1, <3>2, <3>3 DEF Whole
  <2>5. CASE r = "write failed"
    BY <1>0, <1>5, <1>9, <2>1, <2>3, <2>5 DEF Whole
  <2>. QED BY <1>4, <2>4, <2>5
<1>12. InodesInv'
  BY <1>0, <1>10, <1>11 DEF InodesInv
<1>. QED BY <1>6, <1>7, <1>8, <1>12 DEF FilesInv

LEMMA FilesStep == FilesInv /\ [ToolsNext]_toolVars => FilesInv'
<1> SUFFICES ASSUME FilesInv, [ToolsNext]_toolVars PROVE FilesInv'
  OBVIOUS
<1>1. CASE UNCHANGED toolVars
  <2>1. FilesShape' /\ FrameInv'
    BY <1>1 DEF toolVars, files, locks, history, FilesInv, FilesShape, FrameInv
  <2>2. \A u \in ToolThreads : CallInv(u)'
    BY <1>1 DEF toolVars, files, locks, history, FilesInv, CallInv
  <2>3. \A u \in ToolThreads : Output(u)' = Output(u)
    BY <1>1 DEF toolVars, Output
  <2>4. \A i \in Inodes : Writers(i)' = Writers(i)
    BY <1>1 DEF toolVars, files, locks, history, Writers
  <2>5. \A i \in Inodes : i \notin overlaid' => i \notin overlaid /\ Whole(i) /\ Alone(i)
    BY <1>1 DEF toolVars, history, FilesInv, InodesInv
  <2>6. \A i \in Inodes : Whole(i) => Whole(i)'
    BY <1>1, <2>3, <2>4 DEF toolVars, files, Whole, Writers
  <2>7. \A i \in Inodes : Alone(i) => Alone(i)'
    BY <1>1 DEF toolVars, files, Alone
  <2>. QED BY <2>1, <2>2, <2>5, <2>6, <2>7 DEF FilesInv, InodesInv
<1>2. ASSUME NEW t \in ToolThreads, ThreadStep(t) PROVE FilesInv'
  <2>1. CASE Truncate(t) \/ \E ok \in BOOLEAN : Write(t, ok)
    BY <2>1, TruncateKeeps, WriteKeeps
  <2>2. CASE ~(Truncate(t) \/ \E ok \in BOOLEAN : Write(t, ok))
    <3>1. CallsInv' /\ QuietStep(t)
      BY <1>2, <2>2, StartKeeps, OpenReadKeeps, CanonicalizeKeeps, ReadOpenedKeeps, StatKeeps, SlurpKeeps, ApplyKeeps,
         DestinationKeeps, NamesKeep, AnswersKeep, ListKeeps, CacheKeeps, LookupKeeps, RunFrameKeeps DEF ThreadStep
    <3>. QED BY <3>1, QuietKeeps DEF FilesInv, CallsInv
  <2>. QED BY <2>1, <2>2
<1>. QED BY <1>1, <1>2 DEF ToolsNext

LEMMA FilesHeld == FilesInv => FilesWhole
<1> SUFFICES ASSUME FilesInv PROVE FilesWhole
  OBVIOUS
<1>1. EditAllOrNothing
  BY DEF FilesInv, CallInv, EditAllOrNothing
<1>2. WrittenWhole
  <2> SUFFICES ASSUME NEW p \in Files, fs[p] \in Inodes, fs[p] \notin overlaid
               PROVE  \/ \E t \in Writers(fs[p]) : toolPc[t] = "write" \/ toolResult[t] = "write failed"
                      \/ \E t \in Writers(fs[p]) : data[fs[p]] = Output(t)
                      \/ Writers(fs[p]) = {} /\ data[fs[p]] \in Texts
    BY DEF WrittenWhole, IsFile, Writers
  <2>. QED BY DEF FilesInv, InodesInv, Whole
<1>3. SomeCallMoves
  BY DEF FilesInv, FrameInv, SomeCallMoves, Waits
<1>. QED BY <1>1, <1>2, <1>3 DEF FilesWhole

\* For any number of files, texts and calls side by side: edit_file leaves the file
\* alone when a text is not found and in a dry run; a file that two writers never had
\* open at once holds all of what one std::fs::write wrote, unless one failed or goes
\* on; and the mutex of the frame cache, held while a frame runs, never has every call
\* that is left waiting for it.
THEOREM FilesWholeAlways == ToolsSpec => []FilesWhole
<1>. QED BY FilesInit, FilesStep, FilesHeld, PTL DEF ToolsSpec

-----------------------------------------------------------------------------
(* OutboundHttp. Each turn of build_tree's loop keeps: the entries printed are those of
   the first lines of the preorder that are not excluded, and the counter is what the
   preorder so far leaves of the limit. The induction goes over the entries of a
   directory inside the one over the levels below the depth limit. *)

\* The lines of a tree, and the texts made of them: an entry's line stays, or one that
\* is not about something excluded.
LineNames == {""} \cup UNION {{dir[i].name : i \in DOMAIN dir} : dir \in Directories}
Lines == [kind : {"entry", "limit", "depth"}, name : LineNames, depth : Int, last : BOOLEAN]
EntryText == [l \in Lines |-> IF l.kind = "entry" THEN <<l>> ELSE <<>>]
VisibleText == [l \in Lines |-> IF l.name \in Excluded THEN <<>> ELSE <<l>>]

\* The two texts, and that what the property filters is a replacement by them.
LEMMA LineTexts == EntryText \in [Lines -> Seq(Lines)] /\ VisibleText \in [Lines -> Seq(Lines)]
BY DEF EntryText, VisibleText

LEMMA EntryLinesAre == \A t \in Seq(Lines) : EntryLines(t) = Sub(t, EntryText)
<1> SUFFICES ASSUME NEW t \in Seq(Lines) PROVE EntryLines(t) = Sub(t, EntryText)
  OBVIOUS
<1>1. \A i \in DOMAIN t : EntryText[t[i]] = IF t[i].kind = "entry" THEN <<t[i]>> ELSE <<>>
  BY DEF EntryText
<1>. QED BY <1>1, Zenon DEF EntryLines, Sub

LEMMA NotExcludedAre == \A t \in Seq(Lines) : NotExcluded(t) = Sub(t, VisibleText)
<1> SUFFICES ASSUME NEW t \in Seq(Lines) PROVE NotExcluded(t) = Sub(t, VisibleText)
  OBVIOUS
<1>1. \A i \in DOMAIN t : VisibleText[t[i]] = IF t[i].name \in Excluded THEN <<>> ELSE <<t[i]>>
  BY DEF VisibleText
<1>. QED BY <1>1, Zenon DEF NotExcluded, Sub

\* The first lines of a text that goes on.
LEMMA FirstOfConcat ==
    ASSUME NEW W, NEW q \in Seq(W), NEW r \in Seq(W), NEW n \in Nat
    PROVE  /\ n <= Len(q) => FirstLines(q \o r, n) = FirstLines(q, n)
           /\ Len(q) < n => FirstLines(q \o r, n) = q \o FirstLines(r, n - Len(q))
           /\ Len(q) <= n => FirstLines(q, n) = q
           /\ FirstLines(q, n) \in Seq(W)
<1> USE DEF FirstLines
<1>0. Len(q) \in Nat /\ Len(r) \in Nat /\ q \o r \in Seq(W) /\ Len(q \o r) = Len(q) + Len(r)
  OBVIOUS
<1>1. n <= Len(q) => FirstLines(q \o r, n) = FirstLines(q, n)
  <2> SUFFICES ASSUME n <= Len(q) PROVE SubSeq(q \o r, 1, n) = SubSeq(q, 1, n)
    BY <1>0
  <2>. QED BY <1>0
<1>2. Len(q) < n => FirstLines(q \o r, n) = q \o FirstLines(r, n - Len(q))
  <2> SUFFICES ASSUME Len(q) < n PROVE FirstLines(q \o r, n) = q \o FirstLines(r, n - Len(q))
    OBVIOUS
  <2>1. CASE Len(q \o r) < n
    <3>1. Len(r) < n - Len(q)
      BY <1>0, <2>1
    <3>2. SubSeq(q \o r, 1, Len(q \o r)) = q \o r /\ SubSeq(r, 1, Len(r)) = r
      BY <1>0
    <3>. QED BY <2>1, <3>1, <3>2
  <2>2. CASE ~(Len(q \o r) < n)
    <3>1. ~(Len(r) < n - Len(q)) /\ n - Len(q) \in Nat
      BY <1>0, <2>2
    <3>2. SubSeq(q \o r, 1, n) = q \o SubSeq(r, 1, n - Len(q))
      BY <1>0, <2>2, <3>1
    <3>. QED BY <2>2, <3>1, <3>2
  <2>. QED BY <2>1, <2>2
<1>3. Len(q) <= n => FirstLines(q, n) = q
  BY <1>0
<1>4. FirstLines(q, n) \in Seq(W)
  BY <1>0
<1>. QED BY <1>1, <1>2, <1>3, <1>4

LEMMA EmptyLines == <<>> \in Seq(Lines)
OBVIOUS

LEMMA LinesConcat ==
    \A q, r \in Seq(Lines), n \in Nat :
        /\ n <= Len(q) => FirstLines(q \o r, n) = FirstLines(q, n)
        /\ Len(q) < n => FirstLines(q \o r, n) = q \o FirstLines(r, n - Len(q))
        /\ Len(q) <= n => FirstLines(q, n) = q
        /\ FirstLines(q, n) \in Seq(Lines)
BY FirstOfConcat, Zenon

LEMMA LinesAll == \A q \in Seq(Lines), n \in Nat : Len(q) <= n => FirstLines(q, n) = q
<1>. QED BY EmptyLines, LinesConcat, Zenon

\* A limit less what was used of it.
Less(n, m) == IF m < n THEN n - m ELSE 0

\* What a walk of a directory whose entries are p in preorder gives from a limit n.
Walked(w, p, n) ==
    /\ w.lines \in Seq(Lines) /\ w.left = Less(n, Len(p))
    /\ Sub(w.lines, EntryText) = Sub(FirstLines(p, n), VisibleText)
    /\ w.open \in BOOLEAN /\ (~w.open => w.left = 0)

LEMMA WalkedNothing == \A n \in Nat : Walked(NoneListed(n), <<>>, n)
<1> SUFFICES ASSUME NEW n \in Nat PROVE Walked(NoneListed(n), <<>>, n)
  OBVIOUS
<1>1. FirstLines(<<>>, n) = <<>> /\ Less(n, Len(<<>>)) = n /\ <<>> \in Seq(Lines)
  BY DEF FirstLines, Less
<1>2. Sub(<<>>, EntryText) = <<>> /\ Sub(<<>>, VisibleText) = <<>>
  BY SubEmpty
<1>. QED BY <1>1, <1>2 DEF Walked, NoneListed

\* A line that is no entry is not seen.
LEMMA OtherLine ==
    ASSUME NEW t \in Seq(Lines), NEW l \in Lines, l.kind # "entry"
    PROVE  Append(t, l) \in Seq(Lines) /\ Sub(Append(t, l), EntryText) = Sub(t, EntryText)
<1>1. Sub(Append(t, l), EntryText) = Sub(t, EntryText) \o EntryText[l]
  BY LineTexts, SubAppend
<1>2. EntryText[l] = <<>> /\ Sub(t, EntryText) \in Seq(Lines)
  BY LineTexts, SubIn DEF EntryText
<1>3. \A x \in Seq(Lines) : x \o <<>> = x
  OBVIOUS
<1>. QED BY <1>1, <1>2, <1>3

\* An entry and what is below it, put after lines that are an image of what was walked.
LEMMA EntryAdded ==
    ASSUME NEW s \in Seq(Lines), NEW q \in Seq(Lines), NEW l \in Lines, l.kind = "entry", l.name \notin Excluded,
           NEW t \in Seq(Lines), NEW c \in Seq(Lines),
           Sub(s, EntryText) = Sub(q, VisibleText), Sub(t, EntryText) = Sub(c, VisibleText)
    PROVE  Sub(Append(s, l) \o t, EntryText) = Sub(q \o (<<l>> \o c), VisibleText)
<1>1. Append(s, l) \in Seq(Lines) /\ <<l>> \in Seq(Lines) /\ <<l>> \o c \in Seq(Lines)
  OBVIOUS
<1>2. Sub(Append(s, l) \o t, EntryText) = Sub(Append(s, l), EntryText) \o Sub(t, EntryText)
  BY <1>1, LineTexts, SubConcat
<1>3. Sub(Append(s, l), EntryText) = Sub(s, EntryText) \o <<l>>
  <2>1. Sub(Append(s, l), EntryText) = Sub(s, EntryText) \o EntryText[l]
    BY LineTexts, SubAppend
  <2>2. EntryText[l] = <<l>>
    BY DEF EntryText
  <2>. QED BY <2>1, <2>2
<1>4. Sub(q \o (<<l>> \o c), VisibleText) = Sub(q, VisibleText) \o Sub(<<l>> \o c, VisibleText)
  BY <1>1, LineTexts, SubConcat
<1>5. Sub(<<l>> \o c, VisibleText) = <<l>> \o Sub(c, VisibleText)
  <2>1. Sub(<<l>> \o c, VisibleText) = Sub(<<l>>, VisibleText) \o Sub(c, VisibleText)
    BY <1>1, LineTexts, SubConcat
  <2>2. Sub(<<l>>, VisibleText) = VisibleText[l]
    BY LineTexts, SubOne
  <2>3. VisibleText[l] = <<l>>
    BY DEF VisibleText
  <2>. QED BY <2>1, <2>2, <2>3
<1>6. Sub(q, VisibleText) \in Seq(Lines) /\ Sub(c, VisibleText) \in Seq(Lines)
  BY LineTexts, SubIn
<1>7. \A a, b, d \in Seq(Lines) : (a \o b) \o d = a \o (b \o d)
  OBVIOUS
<1>8. (Sub(q, VisibleText) \o <<l>>) \o Sub(c, VisibleText) = Sub(q, VisibleText) \o (<<l>> \o Sub(c, VisibleText))
  BY <1>1, <1>6, <1>7
<1>. QED BY <1>2, <1>3, <1>4, <1>5, <1>8

\* The lines of an entry in the reference.
EntryOf(e, isLast, depth, sub) ==
    <<Line("entry", e.name, depth, isLast)>> \o IF IsDir(e) /\ e.name \notin Excluded THEN sub ELSE <<>>

LEMMA LessMore ==
    \A n, a, b \in Nat : Less(n, a + b) = Less(Less(n, a), b) /\ Less(n, a) \in Nat
BY DEF Less

\* One turn of the loop takes the walk of some entries to that of one more.
LEMMA NextWalks ==
    ASSUME NEW n \in Nat, NEW s, NEW q \in Seq(Lines), Walked(s, q, n),
           NEW e, NEW isLast \in BOOLEAN, NEW depth \in Int, e.name \in LineNames,
           NEW below, NEW sub \in Seq(Lines),
           IsDir(e) => \A m \in Nat : Walked(below[e.children][m], sub, m)
    PROVE  Walked(NextEntry(s, e, isLast, depth, below), q \o EntryOf(e, isLast, depth, sub), n)
<1> DEFINE l == Line("entry", e.name, depth, isLast)
           lim == Line("limit", "", depth, TRUE)
           r == EntryOf(e, isLast, depth, sub)
           w == NextEntry(s, e, isLast, depth, below)
<1>1. l \in Lines /\ l.kind = "entry" /\ l.name = e.name /\ lim \in Lines /\ lim.kind # "entry"
  BY DEF Line, Lines, LineNames
<1> HIDE DEF l, lim
<1>2. r \in Seq(Lines) /\ Len(r) \in Nat /\ Len(q) \in Nat /\ q \o r \in Seq(Lines) /\ Len(q \o r) = Len(q) + Len(r)
  <2>1. r = <<l>> \o IF IsDir(e) /\ e.name \notin Excluded THEN sub ELSE <<>>
    BY DEF EntryOf, l
  <2> HIDE DEF r
  <2>2. r \in Seq(Lines)
    BY <1>1, <2>1
  <2>. QED BY <2>2
<1> HIDE DEF r
<1>3. s.lines \in Seq(Lines) /\ s.left = Less(n, Len(q)) /\ Sub(s.lines, EntryText) = Sub(FirstLines(q, n), VisibleText)
      /\ s.open \in BOOLEAN /\ (~s.open => s.left = 0)
  BY DEF Walked
<1>4. CASE s.left = 0
  <2>1. n <= Len(q)
    BY <1>2, <1>3, <1>4 DEF Less
  <2>2. FirstLines(q \o r, n) = FirstLines(q, n)
    BY <1>2, <2>1, LinesConcat
  <2>3. Less(n, Len(q \o r)) = 0
    BY <1>2, <2>1 DEF Less
  <2>4. CASE ~s.open
    <3>1. w = s
      BY <2>4 DEF NextEntry
    <3> HIDE DEF w
    <3>2. Walked(w, q \o r, n)
      BY <1>3, <1>4, <2>2, <2>3, <2>4, <3>1 DEF Walked
    <3>. QED BY <3>2 DEF w, r
  <2>5. CASE s.open
    <3>1. w = [lines |-> Append(s.lines, lim), left |-> 0, open |-> FALSE]
      BY <1>4, <2>5 DEF NextEntry, lim
    <3>2. Append(s.lines, lim) \in Seq(Lines) /\ Sub(Append(s.lines, lim), EntryText) = Sub(s.lines, EntryText)
      BY <1>1, <1>3, OtherLine
    <3> HIDE DEF w
    <3>3. Walked(w, q \o r, n)
      BY <1>3, <2>2, <2>3, <3>1, <3>2 DEF Walked
    <3>. QED BY <3>3 DEF w, r
  <2>. QED BY <1>3, <2>4, <2>5
<1>5. CASE s.left # 0
  <2>1. Len(q) < n /\ s.left = n - Len(q) /\ s.left \in Nat \ {0} /\ s.left - 1 \in Nat /\ s.open
    BY <1>2, <1>3, <1>5 DEF Less
  <2>2. FirstLines(q, n) = q /\ FirstLines(q \o r, n) = q \o FirstLines(r, s.left)
    <3>1. Len(q) <= n
      BY <1>2, <2>1
    <3>2. FirstLines(q, n) = q
      BY <3>1, LinesAll
    <3>3. FirstLines(q \o r, n) = q \o FirstLines(r, n - Len(q))
      BY <1>2, <2>1, LinesConcat
    <3>. QED BY <2>1, <3>2, <3>3
  <2>3. CASE e.name \in Excluded
    <3>1. w = [lines |-> s.lines, left |-> s.left - 1, open |-> TRUE]
      BY <1>5, <2>1, <2>3 DEF NextEntry, BelowEntry
    <3>2. r = <<l>>
      <4>1. r = <<l>> \o <<>>
        BY <2>3 DEF r, EntryOf, l
      <4>. QED BY <1>1, <4>1
    <3>3. FirstLines(r, s.left) = r
      <4>1. Len(r) = 1
        BY <3>2
      <4>2. Len(r) <= s.left
        BY <2>1, <4>1
      <4>. QED BY <1>2, <2>1, <4>2, LinesAll
    <3>4. Sub(q \o r, VisibleText) = Sub(q, VisibleText)
      <4>1. q \o r = Append(q, l)
        BY <1>1, <3>2
      <4>2. Sub(Append(q, l), VisibleText) = Sub(q, VisibleText) \o VisibleText[l]
        BY <1>1, LineTexts, SubAppend
      <4>3. VisibleText[l] = <<>> /\ Sub(q, VisibleText) \in Seq(Lines)
        BY <1>1, <2>3, LineTexts, SubIn DEF VisibleText
      <4>4. \A x \in Seq(Lines) : x \o <<>> = x
        OBVIOUS
      <4>. QED BY <4>1, <4>2, <4>3, <4>4
    <3>5. s.left - 1 = Less(n, Len(q \o r))
      BY <1>2, <2>1, <3>2 DEF Less
    <3> HIDE DEF w
    <3>6. Walked(w, q \o r, n)
      BY <1>3, <2>2, <3>1, <3>3, <3>4, <3>5 DEF Walked
    <3>. QED BY <3>6 DEF w, r
  <2>4. CASE e.name \notin Excluded
    <3> DEFINE t == IF IsDir(e) THEN below[e.children][s.left - 1] ELSE NoneListed(s.left - 1)
               p == IF IsDir(e) THEN sub ELSE <<>>
    <3>1. w = [lines |-> Append(s.lines, l) \o t.lines, left |-> t.left, open |-> TRUE]
      BY <1>5, <2>1, <2>4 DEF NextEntry, BelowEntry, l
    <3>2. r = <<l>> \o p /\ p \in Seq(Lines)
      BY <2>4 DEF r, EntryOf, l
    <3>3. Walked(t, p, s.left - 1)
      BY <2>1, WalkedNothing
    <3> HIDE DEF t, p, w
    <3> DEFINE c == FirstLines(p, s.left - 1)
    <3>4. c \in Seq(Lines)
      BY <2>1, <3>2, LinesConcat
    <3>5. FirstLines(r, s.left) = <<l>> \o c
      <4>1. <<l>> \in Seq(Lines) /\ Len(<<l>>) = 1
        BY <1>1
      <4>2. CASE s.left = 1
        <5>1. FirstLines(r, 1) = <<l>>
          <6>1. FirstLines(<<l>> \o p, 1) = FirstLines(<<l>>, 1) /\ FirstLines(<<l>>, 1) = <<l>>
            <7> DEFINE one == <<l>>
            <7>1. one \in Seq(Lines) /\ 1 <= Len(one) /\ Len(one) <= 1 /\ 1 \in Nat
              BY <4>1
            <7> HIDE DEF one
            <7>2. FirstLines(one \o p, 1) = FirstLines(one, 1)
              BY <3>2, <7>1, LinesConcat
            <7>3. FirstLines(one, 1) = one
              BY <7>1, LinesAll
            <7>. QED BY <7>2, <7>3 DEF one
          <6>. QED BY <3>2, <6>1
        <5>2. c = <<>>
          BY <3>2, <4>2 DEF FirstLines
        <5>3. <<l>> \o <<>> = <<l>>
          BY <4>1
        <5>. QED BY <4>2, <5>1, <5>2, <5>3
      <4>3. CASE s.left # 1
        <5>1. Len(<<l>>) < s.left
          BY <2>1, <4>1, <4>3
        <5>2. FirstLines(<<l>> \o p, s.left) = <<l>> \o FirstLines(p, s.left - Len(<<l>>))
          <6> DEFINE one == <<l>>
          <6>1. one \in Seq(Lines) /\ s.left \in Nat /\ Len(one) < s.left
            BY <2>1, <4>1, <5>1
          <6> HIDE DEF one
          <6>2. FirstLines(one \o p, s.left) = one \o FirstLines(p, s.left - Len(one))
            BY <3>2, <6>1, LinesConcat
          <6>. QED BY <6>2 DEF one
        <5>. QED BY <3>2, <4>1, <5>2
      <4>. QED BY <4>2, <4>3
    <3>6. t.lines \in Seq(Lines) /\ Sub(t.lines, EntryText) = Sub(c, VisibleText) /\ t.left = Less(s.left - 1, Len(p))
      BY <3>3 DEF Walked
    <3> HIDE DEF c
    <3>7. Sub(Append(s.lines, l) \o t.lines, EntryText) = Sub(q \o (<<l>> \o c), VisibleText)
      BY <1>1, <1>3, <2>2, <2>4, <3>4, <3>6, EntryAdded
    <3>8. t.left = Less(n, Len(q \o r))
      <4>1. Len(r) = 1 + Len(p) /\ Len(p) \in Nat
        BY <1>1, <3>2
      <4>. QED BY <1>2, <2>1, <3>6, <4>1 DEF Less
    <3>9. Append(s.lines, l) \o t.lines \in Seq(Lines)
      BY <1>1, <1>3, <3>6
    <3>10. Walked(w, q \o r, n)
      BY <2>2, <3>1, <3>5, <3>7, <3>8, <3>9 DEF Walked
    <3>. QED BY <3>10 DEF w, r
  <2>. QED BY <2>3, <2>4
<1>. QED BY <1>4, <1>5

\* The loop over a directory's entries as a function of how many it has passed.
Passes(g, dir, depth, n, below, N) ==
    g = [i \in 0..N |-> IF i = 0 THEN NoneListed(n) ELSE NextEntry(g[i - 1], dir[i], i = Len(dir), depth, below)]

LEMMA PassesExists ==
    ASSUME NEW dir, NEW depth, NEW n, NEW below, NEW N \in Nat
    PROVE  \E g : Passes(g, dir, depth, n, below, N)
<1> DEFINE G(m, g) == g = [i \in 0..m |-> IF i = 0 THEN NoneListed(n) ELSE NextEntry(g[i - 1], dir[i], i = Len(dir), depth, below)]
           S == {m \in Nat : \E g : G(m, g)}
<1>1. 0 \in S
  <2> DEFINE g == [i \in 0..0 |-> NoneListed(n)]
  <2>1. G(0, g)
    <3>1. \A i \in 0..0 : i = 0
      OBVIOUS
    <3>. QED BY <3>1, Zenon
  <2>2. \E k : G(0, k)
    <3> HIDE DEF g, G
    <3>. QED BY <2>1
  <2> HIDE DEF G
  <2>. QED BY <2>2
<1>2. \A m \in Nat : m \in S => m + 1 \in S
  <2> SUFFICES ASSUME NEW m \in Nat, m \in S PROVE m + 1 \in S
    OBVIOUS
  <2> PICK g : G(m, g)
    OBVIOUS
  <2> DEFINE h == [i \in 0..(m+1) |-> IF i \in 0..m THEN g[i] ELSE NextEntry(g[i - 1], dir[i], i = Len(dir), depth, below)]
  <2>1. \A i \in 0..(m+1) : h[i] = IF i = 0 THEN NoneListed(n) ELSE NextEntry(h[i - 1], dir[i], i = Len(dir), depth, below)
    <3> TAKE i \in 0..(m+1)
    <3>1. CASE i \in 0..m
      <4>1. h[i] = g[i] /\ (i # 0 => h[i-1] = g[i-1])
        BY <3>1
      <4>2. g[i] = IF i = 0 THEN NoneListed(n) ELSE NextEntry(g[i - 1], dir[i], i = Len(dir), depth, below)
        BY <3>1
      <4>. QED BY <4>1, <4>2
    <3>2. CASE i = m + 1
      <4>1. i \notin 0..m /\ i # 0
        BY <3>2
      <4>2. h[i] = NextEntry(g[i - 1], dir[i], i = Len(dir), depth, below)
        BY <4>1
      <4>3. h[i-1] = g[i-1]
        BY <3>2
      <4>. QED BY <4>1, <4>2, <4>3
    <3>. QED BY <3>1, <3>2
  <2>2. G(m + 1, h)
    BY <2>1
  <2>3. \E k : G(m + 1, k)
    <3> HIDE DEF h, G
    <3>. QED BY <2>2
  <2> HIDE DEF h, G
  <2>. QED BY <2>3
<1>3. N \in S
  <2> HIDE DEF S
  <2>. QED BY <1>1, <1>2, SetInduction
<1>4. \E g : G(N, g)
  BY <1>3
<1>. QED BY <1>4, Zenon DEF Passes

\* A walk of a directory passes its entries one after the other.
Passed(f, dir, depth, n, below) ==
    /\ f[0] = NoneListed(n) /\ ListEntries(dir, depth, n, below) = f[Len(dir)]
    /\ \A i \in 1..Len(dir) : f[i] = NextEntry(f[i - 1], dir[i], i = Len(dir), depth, below)

LEMMA ListsEntries ==
    ASSUME NEW dir, Len(dir) \in Nat, NEW depth, NEW n, NEW below
    PROVE  \E f : Passed(f, dir, depth, n, below)
<1> DEFINE N == Len(dir)
           f == CHOOSE g : Passes(g, dir, depth, n, below, N)
<1>1. f = [i \in 0..N |-> IF i = 0 THEN NoneListed(n) ELSE NextEntry(f[i - 1], dir[i], i = Len(dir), depth, below)]
  <2> N \in Nat
    OBVIOUS
  <2> HIDE DEF N
  <2>1. \E g : Passes(g, dir, depth, n, below, N)
    BY PassesExists
  <2>2. Passes(f, dir, depth, n, below, N)
    BY <2>1, Zenon
  <2> HIDE DEF f
  <2>. QED BY <2>2, Zenon DEF Passes
<1>2. ListEntries(dir, depth, n, below) = f[N]
  BY Zenon DEF ListEntries, Passes
<1>3. N = Len(dir) /\ N \in Nat
  OBVIOUS
<1> HIDE DEF f, N
<1>4. f[0] = NoneListed(n)
  BY <1>1, <1>3
<1>5. \A i \in 1..N : f[i] = NextEntry(f[i - 1], dir[i], i = Len(dir), depth, below)
  <2> SUFFICES ASSUME NEW i \in 1..N PROVE f[i] = NextEntry(f[i - 1], dir[i], i = Len(dir), depth, below)
    OBVIOUS
  <2>1. i \in 0..N /\ i # 0
    BY <1>3
  <2>. QED BY <1>1, <2>1
<1>6. Passed(f, dir, depth, n, below)
  BY <1>2, <1>3, <1>4, <1>5, Zenon DEF Passed, N
<1>. QED BY <1>6, Zenon

\* What the reference has of a directory, and what build_tree gives of it below.
Pieces(dir, depth, subs) == [i \in DOMAIN dir |-> EntryOf(dir[i], i = Len(dir), depth, subs[dir[i].children])]
BelowInv(below, subs) ==
    \A d \in Directories : subs[d] \in Seq(Lines) /\ \A m \in Nat : Walked(below[d][m], subs[d], m)

\* What the names and the pieces of a directory are.
LEMMA DirectoryIs ==
    ASSUME NEW dir \in Directories
    PROVE  /\ Len(dir) \in Nat /\ DOMAIN dir = 1..Len(dir)
           /\ \A i \in DOMAIN dir : dir[i].name \in LineNames /\ (IsDir(dir[i]) => dir[i].children \in Directories)
<1>1. dir \in Seq(Range(dir)) /\ \A e \in Range(dir) : e.children \in Directories \/ e.children = <<[name |-> "file"]>>
  BY OutboundAssumption
<1>2. Len(dir) \in Nat /\ DOMAIN dir = 1..Len(dir) /\ \A i \in DOMAIN dir : dir[i] \in Range(dir)
  BY <1>1
<1>3. \A i \in DOMAIN dir : dir[i].name \in LineNames
  <2>1. \A i \in DOMAIN dir : dir[i].name \in {dir[j].name : j \in DOMAIN dir}
    OBVIOUS
  <2>2. {dir[j].name : j \in DOMAIN dir} \subseteq LineNames
    BY Zenon DEF LineNames
  <2>. QED BY <2>1, <2>2
<1>. QED BY <1>1, <1>2, <1>3 DEF IsDir, FileMark

LEMMA PieceIs ==
    ASSUME NEW dir \in Directories, NEW depth \in Int, NEW below, NEW subs, BelowInv(below, subs), NEW i \in DOMAIN dir
    PROVE  EntryOf(dir[i], i = Len(dir), depth, subs[dir[i].children]) \in Seq(Lines)
<1>1. Line("entry", dir[i].name, depth, i = Len(dir)) \in Lines
  BY DirectoryIs DEF Line, Lines
<1>2. IsDir(dir[i]) => subs[dir[i].children] \in Seq(Lines)
  BY DirectoryIs DEF BelowInv
<1>3. \A l \in Lines : \A s \in Seq(Lines) : <<l>> \o s \in Seq(Lines)
  OBVIOUS
<1>. QED BY <1>1, <1>2, <1>3, EmptyLines DEF EntryOf

\* A directory is walked as the reference has it, if those below it are.
LEMMA DirectoryWalks ==
    ASSUME NEW dir \in Directories, NEW depth \in Int, NEW below, NEW subs, BelowInv(below, subs)
    PROVE  /\ FlattenSeq(Pieces(dir, depth, subs)) \in Seq(Lines)
           /\ \A n \in Nat : Walked(ListEntries(dir, depth, n, below), FlattenSeq(Pieces(dir, depth, subs)), n)
<1> DEFINE P == Pieces(dir, depth, subs)
           N == Len(dir)
           Q(i) == FlattenSeq(SubSeq(P, 1, i))
<1>0. N \in Nat /\ DOMAIN dir = 1..N /\ N = Len(dir)
  BY DirectoryIs
<1>1. P \in Seq(Seq(Lines)) /\ Len(P) = N
  <2>1. P \in [1..N -> Seq(Lines)]
    BY <1>0, PieceIs DEF Pieces
  <2> HIDE DEF P, N
  <2>. QED BY <1>0, <2>1
<1>2. \A i \in 1..N : P[i] = EntryOf(dir[i], i = N, depth, subs[dir[i].children])
  BY <1>0 DEF Pieces
<1> HIDE DEF P, N
<1>3. Q(0) = <<>>
  <2>1. SubSeq(P, 1, 0) = <<>> /\ Len(<<>>) = 0
    BY <1>1
  <2>2. FlattenSeq(<<>>) = <<>>
    BY <2>1, Zenon DEF FlattenSeq
  <2>. QED BY <2>1, <2>2
<1>4. \A i \in 1..N : Q(i) = Q(i - 1) \o P[i]
  <2> SUFFICES ASSUME NEW i \in 1..N PROVE Q(i) = Q(i - 1) \o P[i]
    OBVIOUS
  <2>1. SubSeq(P, 1, i) = Append(SubSeq(P, 1, i - 1), P[i]) /\ SubSeq(P, 1, i - 1) \in Seq(Seq(Lines)) /\ P[i] \in Seq(Lines)
    BY <1>0, <1>1
  <2>2. FlattenSeq(Append(SubSeq(P, 1, i - 1), P[i])) = FlattenSeq(SubSeq(P, 1, i - 1)) \o P[i]
    BY <2>1, FlattenAppend
  <2>. QED BY <2>1, <2>2
<1>5. Q(N) = FlattenSeq(P)
  <2>1. SubSeq(P, 1, N) = P
    BY <1>0, <1>1
  <2>. QED BY <2>1
<1> HIDE DEF Q
<1>6. \A i \in 0..N : Q(i) \in Seq(Lines)
  <2> DEFINE S == {i \in Nat : i \in 0..N => Q(i) \in Seq(Lines)}
  <2>1. 0 \in S
    BY <1>3, EmptyLines
  <2>2. \A i \in Nat : i \in S => i + 1 \in S
    <3> SUFFICES ASSUME NEW i \in Nat, i \in S, i + 1 \in 0..N PROVE Q(i + 1) \in Seq(Lines)
      OBVIOUS
    <3>1. i \in 0..N /\ i + 1 \in 1..N /\ (i + 1) - 1 = i
      BY <1>0
    <3>2. Q(i) \in Seq(Lines) /\ Q(i + 1) = Q(i) \o P[i + 1] /\ P[i + 1] \in Seq(Lines)
      BY <1>1, <1>4, <3>1
    <3>3. \A a, b \in Seq(Lines) : a \o b \in Seq(Lines)
      OBVIOUS
    <3>. QED BY <3>2, <3>3, Zenon
  <2>3. \A i \in Nat : i \in S
    <3> HIDE DEF S
    <3>. QED BY <2>1, <2>2, SetInduction
  <2>. QED BY <1>0, <2>3
<1>7. ASSUME NEW n \in Nat PROVE Walked(ListEntries(dir, depth, n, below), Q(N), n)
  <2>0. Len(dir) \in Nat
    BY <1>0
  <2>1. PICK f : /\ f[0] = NoneListed(n) /\ ListEntries(dir, depth, n, below) = f[Len(dir)]
                 /\ \A i \in 1..Len(dir) : f[i] = NextEntry(f[i - 1], dir[i], i = Len(dir), depth, below)
    <3>1. PICK f : Passed(f, dir, depth, n, below)
      BY <2>0, ListsEntries, Zenon
    <3>. QED BY <3>1, Zenon DEF Passed
  <2> DEFINE S == {i \in Nat : i \in 0..N => Walked(f[i], Q(i), n)}
  <2>2. 0 \in S
    BY <1>3, <2>1, WalkedNothing
  <2>3. \A i \in Nat : i \in S => i + 1 \in S
    <3> SUFFICES ASSUME NEW i \in Nat, i \in S, i + 1 \in 0..N PROVE Walked(f[i + 1], Q(i + 1), n)
      OBVIOUS
    <3>1. i \in 0..N /\ i + 1 \in 1..N /\ (i + 1) - 1 = i /\ i + 1 \in DOMAIN dir
      BY <1>0
    <3> DEFINE e == dir[i + 1]
               isLast == (i + 1 = N)
               sub == subs[e.children]
    <3>2. Walked(f[i], Q(i), n) /\ Q(i) \in Seq(Lines)
      BY <1>6, <3>1
    <3>3. e.name \in LineNames /\ (IsDir(e) => e.children \in Directories)
      BY <3>1, DirectoryIs
    <3>4. f[i + 1] = NextEntry(f[i], e, isLast, depth, below)
      BY <1>0, <2>1, <3>1
    <3>5. Q(i + 1) = Q(i) \o EntryOf(e, isLast, depth, sub)
      BY <1>2, <1>4, <3>1
    <3>6. isLast \in BOOLEAN
      OBVIOUS
    <3> HIDE DEF e, isLast, sub
    <3>7. CASE IsDir(e)
      <4>1. sub \in Seq(Lines) /\ \A m \in Nat : Walked(below[e.children][m], sub, m)
        BY <3>3, <3>7 DEF BelowInv, sub
      <4>2. Walked(NextEntry(f[i], e, isLast, depth, below), Q(i) \o EntryOf(e, isLast, depth, sub), n)
        BY <3>2, <3>3, <3>6, <4>1, NextWalks
      <4>. QED BY <3>4, <3>5, <4>2
    <3>8. CASE ~IsDir(e)
      <4>1. EntryOf(e, isLast, depth, sub) = EntryOf(e, isLast, depth, <<>>)
        BY <3>8 DEF EntryOf
      <4>2. Walked(NextEntry(f[i], e, isLast, depth, below), Q(i) \o EntryOf(e, isLast, depth, <<>>), n)
        BY <3>2, <3>3, <3>6, <3>8, EmptyLines, NextWalks
      <4>. QED BY <3>4, <3>5, <4>1, <4>2
    <3>. QED BY <3>7, <3>8
  <2>4. \A i \in Nat : i \in S
    <3> HIDE DEF S
    <3>. QED BY <2>2, <2>3, SetInduction
  <2>5. Walked(f[N], Q(N), n)
    BY <1>0, <2>4
  <2>. QED BY <1>0, <2>1, <2>5
<1>. QED BY <1>0, <1>5, <1>6, <1>7 DEF P

\* The levels of build_tree, from the depth limit up, ...
BuildLevels(g, max, N) ==
    g = [h \in 0..N |-> [dir \in Directories |-> [n \in Nat |->
           IF h = 0 THEN [lines |-> <<Line("depth", "", max, TRUE)>>, left |-> n, open |-> TRUE]
           ELSE ListEntries(dir, max - h, n, g[h - 1])]]]
\* ... and those of the reference.
OrderLevels(g, max, N) ==
    g = [h \in 0..N |-> [dir \in Directories |->
           IF h = 0 THEN <<>>
           ELSE FlattenSeq([i \in DOMAIN dir |->
                  <<Line("entry", dir[i].name, max - h, i = Len(dir))>>
                  \o IF IsDir(dir[i]) /\ dir[i].name \notin Excluded
                     THEN g[h - 1][dir[i].children] ELSE <<>>])]]

\* One level, from the one below it.
BuildLevel(max, h, below) ==
    [dir \in Directories |-> [n \in Nat |->
           IF h = 0 THEN [lines |-> <<Line("depth", "", max, TRUE)>>, left |-> n, open |-> TRUE]
           ELSE ListEntries(dir, max - h, n, below)]]
OrderLevel(max, h, subs) ==
    [dir \in Directories |-> IF h = 0 THEN <<>> ELSE FlattenSeq(Pieces(dir, max - h, subs))]

LEMMA LevelsAre ==
    \A g, max, N :
        /\ BuildLevels(g, max, N) <=> g = [h \in 0..N |-> BuildLevel(max, h, g[h - 1])]
        /\ OrderLevels(g, max, N) <=> g = [h \in 0..N |-> OrderLevel(max, h, g[h - 1])]
BY Zenon DEF BuildLevels, OrderLevels, BuildLevel, OrderLevel, Pieces, EntryOf

\* The function of the levels exists, and what it is level by level.
LEMMA BuildExists == ASSUME NEW max, NEW N \in Nat PROVE \E g : BuildLevels(g, max, N)
<1> DEFINE G(m, g) == g = [h \in 0..m |-> BuildLevel(max, h, g[h - 1])]
           S == {m \in Nat : \E g : G(m, g)}
<1>1. 0 \in S
  <2> DEFINE g == [h \in 0..0 |-> BuildLevel(max, 0, 0)]
  <2>1. G(0, g)
    <3>1. \A h \in 0..0 : h = 0
      OBVIOUS
    <3>2. \A b, c : BuildLevel(max, 0, b) = BuildLevel(max, 0, c)
      BY Zenon DEF BuildLevel
    <3>. QED BY <3>1, <3>2, Zenon
  <2>2. \E k : G(0, k)
    <3> HIDE DEF g, G
    <3>. QED BY <2>1
  <2> HIDE DEF G
  <2>. QED BY <2>2
<1>2. \A m \in Nat : m \in S => m + 1 \in S
  <2> SUFFICES ASSUME NEW m \in Nat, m \in S PROVE m + 1 \in S
    OBVIOUS
  <2> PICK g : G(m, g)
    OBVIOUS
  <2> DEFINE k == [h \in 0..(m+1) |-> IF h \in 0..m THEN g[h] ELSE BuildLevel(max, h, g[h - 1])]
  <2>1. \A h \in 0..(m+1) : k[h] = BuildLevel(max, h, k[h - 1])
    <3> TAKE h \in 0..(m+1)
    <3>1. CASE h = 0
      <4>1. h \in 0..m /\ k[h] = g[h] /\ g[h] = BuildLevel(max, h, g[h - 1])
        BY <3>1
      <4>2. \A b, c : BuildLevel(max, 0, b) = BuildLevel(max, 0, c)
        BY Zenon DEF BuildLevel
      <4> HIDE DEF k
      <4>3. BuildLevel(max, h, g[h - 1]) = BuildLevel(max, h, k[h - 1])
        BY <3>1, <4>2, Zenon
      <4>. QED BY <4>1, <4>3, Zenon
    <3>2. CASE h # 0 /\ h \in 0..m
      <4>1. k[h] = g[h] /\ k[h-1] = g[h-1]
        BY <3>2
      <4>2. g[h] = BuildLevel(max, h, g[h - 1])
        BY <3>2
      <4> HIDE DEF k
      <4>. QED BY <4>1, <4>2, Zenon
    <3>3. CASE h = m + 1
      <4>1. h \notin 0..m /\ k[h-1] = g[h-1]
        BY <3>3
      <4>2. k[h] = BuildLevel(max, h, g[h - 1])
        BY <4>1
      <4> HIDE DEF k
      <4>. QED BY <4>1, <4>2, Zenon
    <3>. QED BY <3>1, <3>2, <3>3
  <2>2. G(m + 1, k)
    BY <2>1
  <2>3. \E j : G(m + 1, j)
    <3> HIDE DEF k, G
    <3>. QED BY <2>2
  <2> HIDE DEF k, G
  <2>. QED BY <2>3
<1>3. N \in S
  <2> HIDE DEF S
  <2>. QED BY <1>1, <1>2, SetInduction
<1>4. \E g : G(N, g)
  BY <1>3
<1>. QED BY <1>4, LevelsAre, Zenon

LEMMA BuildSteps ==
    \A g, max, N : BuildLevels(g, max, N) => \A h \in 0..N : g[h] = BuildLevel(max, h, g[h - 1])
<1> SUFFICES ASSUME NEW g, NEW max, NEW N, BuildLevels(g, max, N), NEW h \in 0..N
             PROVE  g[h] = BuildLevel(max, h, g[h - 1])
  OBVIOUS
<1>1. g = [j \in 0..N |-> BuildLevel(max, j, g[j - 1])]
  BY Zenon DEF BuildLevels, BuildLevel
<1>. QED BY <1>1, Zenon

LEMMA BuildIs ==
    ASSUME NEW max \in Nat
    PROVE  \A h \in 0..max : BuildTree(max)[h] = BuildLevel(max, h, BuildTree(max)[h - 1])
<1> DEFINE f == CHOOSE g : BuildLevels(g, max, max)
<1>1. BuildLevels(f, max, max)
  <2>1. \E g : BuildLevels(g, max, max)
    BY BuildExists
  <2>. QED BY <2>1, Zenon
<1>2. BuildTree(max) = f
  BY Zenon DEF BuildTree, BuildLevels
<1> HIDE DEF f
<1>4. \A h \in 0..max : f[h] = BuildLevel(max, h, f[h - 1])
  BY <1>1, BuildSteps, Zenon
<1>. QED BY <1>2, <1>4, Zenon

\* The same of the reference.
LEMMA OrderExists == ASSUME NEW max, NEW N \in Nat PROVE \E g : OrderLevels(g, max, N)
<1> DEFINE G(m, g) == g = [h \in 0..m |-> OrderLevel(max, h, g[h - 1])]
           S == {m \in Nat : \E g : G(m, g)}
<1>1. 0 \in S
  <2> DEFINE g == [h \in 0..0 |-> OrderLevel(max, 0, 0)]
  <2>1. G(0, g)
    <3>1. \A h \in 0..0 : h = 0
      OBVIOUS
    <3>2. \A b, c : OrderLevel(max, 0, b) = OrderLevel(max, 0, c)
      BY Zenon DEF OrderLevel
    <3>. QED BY <3>1, <3>2, Zenon
  <2>2. \E k : G(0, k)
    <3> HIDE DEF g, G
    <3>. QED BY <2>1
  <2> HIDE DEF G
  <2>. QED BY <2>2
<1>2. \A m \in Nat : m \in S => m + 1 \in S
  <2> SUFFICES ASSUME NEW m \in Nat, m \in S PROVE m + 1 \in S
    OBVIOUS
  <2> PICK g : G(m, g)
    OBVIOUS
  <2> DEFINE k == [h \in 0..(m+1) |-> IF h \in 0..m THEN g[h] ELSE OrderLevel(max, h, g[h - 1])]
  <2>1. \A h \in 0..(m+1) : k[h] = OrderLevel(max, h, k[h - 1])
    <3> TAKE h \in 0..(m+1)
    <3>1. CASE h = 0
      <4>1. h \in 0..m /\ k[h] = g[h] /\ g[h] = OrderLevel(max, h, g[h - 1])
        BY <3>1
      <4>2. \A b, c : OrderLevel(max, 0, b) = OrderLevel(max, 0, c)
        BY Zenon DEF OrderLevel
      <4> HIDE DEF k
      <4>3. OrderLevel(max, h, g[h - 1]) = OrderLevel(max, h, k[h - 1])
        BY <3>1, <4>2, Zenon
      <4>. QED BY <4>1, <4>3, Zenon
    <3>2. CASE h # 0 /\ h \in 0..m
      <4>1. k[h] = g[h] /\ k[h-1] = g[h-1]
        BY <3>2
      <4>2. g[h] = OrderLevel(max, h, g[h - 1])
        BY <3>2
      <4> HIDE DEF k
      <4>. QED BY <4>1, <4>2, Zenon
    <3>3. CASE h = m + 1
      <4>1. h \notin 0..m /\ k[h-1] = g[h-1]
        BY <3>3
      <4>2. k[h] = OrderLevel(max, h, g[h - 1])
        BY <4>1
      <4> HIDE DEF k
      <4>. QED BY <4>1, <4>2, Zenon
    <3>. QED BY <3>1, <3>2, <3>3
  <2>2. G(m + 1, k)
    BY <2>1
  <2>3. \E j : G(m + 1, j)
    <3> HIDE DEF k, G
    <3>. QED BY <2>2
  <2> HIDE DEF k, G
  <2>. QED BY <2>3
<1>3. N \in S
  <2> HIDE DEF S
  <2>. QED BY <1>1, <1>2, SetInduction
<1>4. \E g : G(N, g)
  BY <1>3
<1>. QED BY <1>4, LevelsAre, Zenon

LEMMA OrderSteps ==
    \A g, max, N : OrderLevels(g, max, N) => \A h \in 0..N : g[h] = OrderLevel(max, h, g[h - 1])
<1> SUFFICES ASSUME NEW g, NEW max, NEW N, OrderLevels(g, max, N), NEW h \in 0..N
             PROVE  g[h] = OrderLevel(max, h, g[h - 1])
  OBVIOUS
<1>1. g = [j \in 0..N |-> OrderLevel(max, j, g[j - 1])]
  BY Zenon DEF OrderLevels, OrderLevel, Pieces, EntryOf
<1>. QED BY <1>1, Zenon

LEMMA OrderIs ==
    ASSUME NEW max \in Nat
    PROVE  \A h \in 0..max : Preorder(max)[h] = OrderLevel(max, h, Preorder(max)[h - 1])
<1> DEFINE f == CHOOSE g : OrderLevels(g, max, max)
<1>1. OrderLevels(f, max, max)
  <2>1. \E g : OrderLevels(g, max, max)
    BY OrderExists
  <2>. QED BY <2>1, Zenon
<1>2. Preorder(max) = f
  BY Zenon DEF Preorder, OrderLevels
<1> HIDE DEF f
<1>4. \A h \in 0..max : f[h] = OrderLevel(max, h, f[h - 1])
  BY <1>1, OrderSteps, Zenon
<1>. QED BY <1>2, <1>4, Zenon

\* At the depth limit nothing is listed; above it the loop walks what is below.
LEMMA LevelWalks ==
    ASSUME NEW max \in Nat, NEW h \in 0..max, NEW below, NEW subs, h # 0 => BelowInv(below, subs)
    PROVE  BelowInv(BuildLevel(max, h, below), OrderLevel(max, h, subs))
<1> SUFFICES ASSUME NEW d \in Directories
             PROVE  /\ OrderLevel(max, h, subs)[d] \in Seq(Lines)
                    /\ \A m \in Nat : Walked(BuildLevel(max, h, below)[d][m], OrderLevel(max, h, subs)[d], m)
  BY DEF BelowInv
<1>1. CASE h = 0
  <2> DEFINE l == Line("depth", "", max, TRUE)
  <2>1. OrderLevel(max, h, subs)[d] = <<>>
    BY <1>1 DEF OrderLevel
  <2>2. \A m \in Nat : BuildLevel(max, h, below)[d][m] = [lines |-> <<l>>, left |-> m, open |-> TRUE]
    BY <1>1 DEF BuildLevel
  <2>3. l \in Lines /\ l.kind # "entry"
    BY DEF Line, Lines, LineNames
  <2> HIDE DEF l
  <2>4. <<l>> \in Seq(Lines) /\ Sub(<<l>>, EntryText) = <<>>
    <3>1. Append(<<>>, l) = <<l>>
      BY <2>3
    <3>2. Append(<<>>, l) \in Seq(Lines) /\ Sub(Append(<<>>, l), EntryText) = Sub(<<>>, EntryText)
      BY <2>3, EmptyLines, OtherLine
    <3>. QED BY <3>1, <3>2, SubEmpty
  <2>5. ASSUME NEW m \in Nat PROVE Walked([lines |-> <<l>>, left |-> m, open |-> TRUE], <<>>, m)
    <3>1. FirstLines(<<>>, m) = <<>> /\ Less(m, Len(<<>>)) = m
      BY DEF FirstLines, Less
    <3>2. Sub(<<>>, VisibleText) = <<>>
      BY SubEmpty
    <3>. QED BY <2>4, <3>1, <3>2 DEF Walked
  <2>. QED BY <2>1, <2>2, <2>5, EmptyLines
<1>2. CASE h # 0
  <2>1. OrderLevel(max, h, subs)[d] = FlattenSeq(Pieces(d, max - h, subs))
    BY <1>2 DEF OrderLevel
  <2>2. \A m \in Nat : BuildLevel(max, h, below)[d][m] = ListEntries(d, max - h, m, below)
    BY <1>2 DEF BuildLevel
  <2>3. max - h \in Int
    OBVIOUS
  <2>4. /\ FlattenSeq(Pieces(d, max - h, subs)) \in Seq(Lines)
        /\ \A m \in Nat : Walked(ListEntries(d, max - h, m, below), FlattenSeq(Pieces(d, max - h, subs)), m)
    BY <1>2, <2>3, DirectoryWalks
  <2>. QED BY <2>1, <2>2, <2>4
<1>. QED BY <1>1, <1>2

LEMMA LevelsWalk ==
    ASSUME NEW max \in Nat
    PROVE  \A h \in 0..max : BelowInv(BuildTree(max)[h], Preorder(max)[h])
<1> DEFINE S == {h \in Nat : h \in 0..max => BelowInv(BuildTree(max)[h], Preorder(max)[h])}
<1>1. 0 \in S
  <2>1. BuildTree(max)[0] = BuildLevel(max, 0, BuildTree(max)[0 - 1]) /\ Preorder(max)[0] = OrderLevel(max, 0, Preorder(max)[0 - 1])
    BY BuildIs, OrderIs
  <2>2. BelowInv(BuildLevel(max, 0, BuildTree(max)[0 - 1]), OrderLevel(max, 0, Preorder(max)[0 - 1]))
    BY LevelWalks
  <2>. QED BY <2>1, <2>2
<1>2. \A h \in Nat : h \in S => h + 1 \in S
  <2> SUFFICES ASSUME NEW h \in Nat, h \in S, h + 1 \in 0..max PROVE BelowInv(BuildTree(max)[h + 1], Preorder(max)[h + 1])
    OBVIOUS
  <2>1. h \in 0..max /\ (h + 1) - 1 = h
    OBVIOUS
  <2>2. BelowInv(BuildTree(max)[h], Preorder(max)[h])
    BY <2>1
  <2>3. BuildTree(max)[h + 1] = BuildLevel(max, h + 1, BuildTree(max)[h])
    <3>1. BuildTree(max)[h + 1] = BuildLevel(max, h + 1, BuildTree(max)[(h + 1) - 1])
      BY BuildIs
    <3>. QED BY <2>1, <3>1
  <2>4. Preorder(max)[h + 1] = OrderLevel(max, h + 1, Preorder(max)[h])
    <3>1. Preorder(max)[h + 1] = OrderLevel(max, h + 1, Preorder(max)[(h + 1) - 1])
      BY OrderIs
    <3>. QED BY <2>1, <3>1
  <2>5. BelowInv(BuildLevel(max, h + 1, BuildTree(max)[h]), OrderLevel(max, h + 1, Preorder(max)[h]))
    BY <2>2, LevelWalks
  <2>. QED BY <2>3, <2>4, <2>5
<1>3. \A h \in Nat : h \in S
  <2> HIDE DEF S
  <2>. QED BY <1>1, <1>2, SetInduction
<1>. QED BY <1>3

\* directory_tree lists what the reference has, whatever the limits.
LEMMA TreeIsPreorder ==
    ASSUME NEW dir \in Directories, NEW max \in Nat, NEW n \in Nat
    PROVE  EntryLines(DirectoryTree(dir, max, n)) = NotExcluded(FirstLines(Preorder(max)[max][dir], n))
<1> DEFINE w == BuildTree(max)[max][dir][n]
           p == Preorder(max)[max][dir]
<1>1. p \in Seq(Lines) /\ Walked(w, p, n)
  <2>1. BelowInv(BuildTree(max)[max], Preorder(max)[max])
    BY LevelsWalk
  <2>. QED BY <2>1 DEF BelowInv
<1>2. DirectoryTree(dir, max, n) = w.lines
  BY DEF DirectoryTree
<1> HIDE DEF w, p
<1>3. w.lines \in Seq(Lines) /\ FirstLines(p, n) \in Seq(Lines) /\ Sub(w.lines, EntryText) = Sub(FirstLines(p, n), VisibleText)
  BY <1>1, LinesConcat DEF Walked
<1>4. EntryLines(w.lines) = Sub(w.lines, EntryText)
  BY <1>3, EntryLinesAre
<1>5. NotExcluded(FirstLines(p, n)) = Sub(FirstLines(p, n), VisibleText)
  BY <1>3, NotExcludedAre
<1>. QED BY <1>2, <1>3, <1>4, <1>5 DEF p

Heards == {"transport", "server error", "client error", "ok"}
HttpRecords == [pc : {"idle", "dns", "build", "sent", "served", "done"},
          url : Urls \cup {"none"}, method : HttpMethods \cup {"none"}, headers : BOOLEAN,
          attempt : 0..MAX_RETRIES, answer : {"none", "refused", "failed", "body"},
          size : BodySizes \cup {0, MAX_RESPONSE_SIZE}]

\* How far a call r is, how often (e) it was carried out by then, and what it heard (h).
HttpCallInv(r, e, h) ==
    /\ r \in HttpRecords /\ e \in Nat /\ h \in Seq(Heards)
    /\ r.pc \in {"idle", "dns"} => e = 0 /\ r.attempt = 0
    /\ r.pc \in {"build", "sent"} => e <= r.attempt
    /\ r.pc = "served" => e >= 1 /\ e <= r.attempt + 1
    /\ r.pc = "done" => e <= r.attempt + 1
    /\ r.pc \in {"sent", "served"} \/ (r.pc = "build" /\ r.attempt > 0) => r.method # "TRACE" /\ r.headers
    /\ r.pc # "done" => r.answer = "none"
    /\ r.answer = "refused" => e = 0
    /\ r.answer = "body" => e >= 1 /\ h # <<>> /\ h[Len(h)] = "ok"
    /\ Unheard(h, r.pc = "done")

OutboundInv ==
    /\ TreeListsPreorder
    /\ hcall \in [HttpCalls -> HttpRecords] /\ effects \in [HttpCalls -> Nat] /\ heard \in [HttpCalls -> Seq(Heards)]
    /\ \A c \in HttpCalls : HttpCallInv(hcall[c], effects[c], heard[c])

\* Of a call that goes on only transport errors were heard; what ends it comes last.
LEMMA UnheardNext ==
    ASSUME NEW h \in Seq(Heards), NEW k \in Heards, Unheard(h, FALSE)
    PROVE  Unheard(h, TRUE) /\ Unheard(Append(h, k), TRUE) /\ (k = "transport" => Unheard(Append(h, k), FALSE))
<1>1. Append(h, k) \in Seq(Heards) /\ Len(Append(h, k)) = Len(h) + 1 /\ Len(h) \in Nat /\ DOMAIN h = 1..Len(h)
  OBVIOUS
<1>2. DOMAIN Append(h, k) = 1..(Len(h) + 1)
  BY <1>1
<1>3. \A i \in 1..Len(h) : Append(h, k)[i] = h[i] /\ h[i] = "transport"
  BY DEF Unheard
<1>4. Append(h, k)[Len(h) + 1] = k
  OBVIOUS
<1>5. \A i \in 1..(Len(h) + 1) : i \in 1..Len(h) \/ i = Len(h) + 1
  BY <1>1
<1>. QED BY <1>1, <1>2, <1>3, <1>4, <1>5 DEF Unheard

LEMMA GoingOn ==
    ASSUME NEW r, NEW e, NEW h, HttpCallInv(r, e, h), r.pc # "done"
    PROVE  Unheard(h, FALSE)
<1>1. Unheard(h, r.pc = "done")
  BY DEF HttpCallInv
<1>. QED BY <1>1 DEF Unheard

\* A step of a call that goes on.
LEMMA WaitingCalls ==
    ASSUME NEW q \in HttpRecords, NEW e \in Nat, NEW h \in Seq(Heards), Unheard(h, FALSE), q.pc # "done", q.answer = "none",
           q.pc \in {"idle", "dns"} => e = 0 /\ q.attempt = 0,
           q.pc \in {"build", "sent"} => e <= q.attempt,
           q.pc = "served" => e >= 1 /\ e <= q.attempt + 1,
           q.pc \in {"sent", "served"} \/ (q.pc = "build" /\ q.attempt > 0) => q.method # "TRACE" /\ q.headers
    PROVE  HttpCallInv(q, e, h)
<1>1. Unheard(h, q.pc = "done")
  BY DEF Unheard
<1>. QED BY <1>1 DEF HttpCallInv

\* What the steps of a call make of its record.
LEMMA FreshCalls == HttpCallInv(Fresh, 0, <<>>)
  BY OutboundAssumption DEF Fresh, HttpRecords, HttpCallInv, Unheard

LEMMA ValidatedCalls ==
    ASSUME NEW r, NEW e, NEW h, HttpCallInv(r, e, h), r.pc = "idle", NEW url \in Urls, NEW m \in HttpMethods, NEW b \in BOOLEAN
    PROVE  /\ HttpCallInv([Fresh EXCEPT !.pc = "done", !.url = url, !.method = m, !.answer = "refused"], e, h)
           /\ HttpCallInv([Fresh EXCEPT !.pc = "dns", !.url = url, !.method = m, !.headers = b], e, h)
<1>1. e = 0 /\ h \in Seq(Heards) /\ e \in Nat /\ Unheard(h, FALSE) /\ Unheard(h, TRUE)
  <2>1. e = 0 /\ h \in Seq(Heards) /\ e \in Nat /\ Unheard(h, r.pc = "done") /\ (r.pc = "done") = FALSE
    BY DEF HttpCallInv
  <2>2. Unheard(h, FALSE)
    BY <2>1
  <2>. QED BY <2>1, <2>2 DEF Unheard
<1>2. HttpCallInv([Fresh EXCEPT !.pc = "done", !.url = url, !.method = m, !.answer = "refused"], e, h)
  <2> DEFINE q == [Fresh EXCEPT !.pc = "done", !.url = url, !.method = m, !.answer = "refused"]
  <2>1. Fresh \in HttpRecords /\ Fresh.attempt = 0
    BY OutboundAssumption DEF Fresh, HttpRecords
  <2>2. q \in HttpRecords
    BY <2>1 DEF HttpRecords
  <2>3. q.pc = "done" /\ q.attempt = 0 /\ q.answer = "refused"
    BY <2>1 DEF HttpRecords
  <2> HIDE DEF q
  <2>4. Unheard(h, q.pc = "done")
    BY <1>1, <2>3 DEF Unheard
  <2>5. HttpCallInv(q, e, h)
    BY <1>1, <2>2, <2>3, <2>4 DEF HttpCallInv
  <2>. QED BY <2>5 DEF q
<1>3. HttpCallInv([Fresh EXCEPT !.pc = "dns", !.url = url, !.method = m, !.headers = b], e, h)
  <2> DEFINE q == [Fresh EXCEPT !.pc = "dns", !.url = url, !.method = m, !.headers = b]
  <2>0. Fresh \in HttpRecords /\ Fresh.attempt = 0 /\ Fresh.answer = "none"
    BY OutboundAssumption DEF Fresh, HttpRecords
  <2>1. q \in HttpRecords /\ q.pc = "dns" /\ q.attempt = 0 /\ q.answer = "none"
    BY <2>0 DEF HttpRecords
  <2> HIDE DEF q
  <2>2. Unheard(h, q.pc = "done")
    BY <1>1, <2>1 DEF Unheard
  <2>3. HttpCallInv(q, e, h)
    BY <1>1, <2>1, <2>2 DEF HttpCallInv
  <2>. QED BY <2>3 DEF q
<1>. QED BY <1>2, <1>3

LEMMA AnsweredCalls ==
    ASSUME NEW r, NEW e, NEW h, NEW k \in Heards, HttpCallInv(r, e, h), r.pc # "done"
    PROVE  /\ HttpCallInv([r EXCEPT !.pc = "done", !.answer = "failed"], e, h)
           /\ HttpCallInv([r EXCEPT !.pc = "done", !.answer = "failed"], e, Append(h, k))
           /\ e = 0 => HttpCallInv([r EXCEPT !.pc = "done", !.answer = "refused"], e, h)
<1>1. e <= r.attempt + 1
  BY OutboundAssumption DEF HttpCallInv, HttpRecords
<1>2. h \in Seq(Heards) /\ Append(h, k) \in Seq(Heards) /\ Unheard(h, TRUE) /\ Unheard(Append(h, k), TRUE)
  <2>1. h \in Seq(Heards) /\ Unheard(h, FALSE)
    BY GoingOn DEF HttpCallInv
  <2>2. Append(h, k) \in Seq(Heards)
    BY <2>1
  <2>3. Unheard(h, TRUE) /\ Unheard(Append(h, k), TRUE)
    BY <2>1, UnheardNext, Zenon
  <2>. QED BY <2>1, <2>2, <2>3
<1>3. ASSUME NEW g \in Seq(Heards), Unheard(g, TRUE) PROVE HttpCallInv([r EXCEPT !.pc = "done", !.answer = "failed"], e, g)
  <2> DEFINE q == [r EXCEPT !.pc = "done", !.answer = "failed"]
  <2>1. q \in HttpRecords /\ q.pc = "done" /\ q.answer = "failed" /\ q.attempt = r.attempt /\ e \in Nat
    BY DEF HttpCallInv, HttpRecords
  <2> HIDE DEF q
  <2>2. HttpCallInv(q, e, g)
    BY <1>1, <1>3, <2>1 DEF HttpCallInv
  <2>. QED BY <2>2 DEF q
<1>4. ASSUME e = 0 PROVE HttpCallInv([r EXCEPT !.pc = "done", !.answer = "refused"], e, h)
  <2> DEFINE q == [r EXCEPT !.pc = "done", !.answer = "refused"]
  <2>1. q \in HttpRecords /\ q.pc = "done" /\ q.answer = "refused" /\ q.attempt = r.attempt /\ e \in Nat
    BY DEF HttpCallInv, HttpRecords
  <2> HIDE DEF q
  <2>2. HttpCallInv(q, e, h)
    BY <1>1, <1>2, <1>4, <2>1 DEF HttpCallInv
  <2>. QED BY <2>2 DEF q
<1>. QED BY <1>2, <1>3, <1>4

\* The request is built again for every attempt; what refuses it refused the first.
LEMMA BuiltCalls ==
    ASSUME NEW r, NEW e, NEW h, HttpCallInv(r, e, h), r.pc = "build"
    PROVE  /\ r.method = "TRACE" \/ ~ r.headers => e = 0
           /\ r.method # "TRACE" /\ r.headers => HttpCallInv([r EXCEPT !.pc = "sent"], e, h)
<1>1. r.method = "TRACE" \/ ~ r.headers => e = 0
  BY OutboundAssumption DEF HttpCallInv, HttpRecords
<1>2. r.method # "TRACE" /\ r.headers => HttpCallInv([r EXCEPT !.pc = "sent"], e, h)
  BY OutboundAssumption, GoingOn, WaitingCalls DEF HttpCallInv, HttpRecords
<1>. QED BY <1>1, <1>2

LEMMA ResolvedCalls ==
    ASSUME NEW r, NEW e, NEW h, HttpCallInv(r, e, h), r.pc = "dns"
    PROVE  e = 0 /\ HttpCallInv([r EXCEPT !.pc = "build"], e, h)
  BY OutboundAssumption, GoingOn, WaitingCalls DEF HttpCallInv, HttpRecords

LEMMA ServedCalls ==
    ASSUME NEW r, NEW e, NEW h, HttpCallInv(r, e, h), r.pc = "sent"
    PROVE  HttpCallInv([r EXCEPT !.pc = "served"], e + 1, h)
  BY OutboundAssumption, GoingOn, WaitingCalls DEF HttpCallInv, HttpRecords

LEMMA RetriedCalls ==
    ASSUME NEW r, NEW e, NEW h, HttpCallInv(r, e, h), r.pc \in {"sent", "served"}, r.attempt < MAX_RETRIES
    PROVE  HttpCallInv([r EXCEPT !.pc = "build", !.attempt = r.attempt + 1], e, Append(h, "transport"))
<1>1. Append(h, "transport") \in Seq(Heards) /\ Unheard(Append(h, "transport"), FALSE)
  <2>1. h \in Seq(Heards) /\ "transport" \in Heards /\ Unheard(h, FALSE)
    BY GoingOn DEF HttpCallInv, Heards
  <2>2. Unheard(Append(h, "transport"), FALSE)
    BY <2>1, UnheardNext, Zenon
  <2>3. Append(h, "transport") \in Seq(Heards)
    BY <2>1
  <2>. QED BY <2>2, <2>3
<1>2. ASSUME NEW g \in Seq(Heards), Unheard(g, FALSE) PROVE HttpCallInv([r EXCEPT !.pc = "build", !.attempt = r.attempt + 1], e, g)
  <2> DEFINE q == [r EXCEPT !.pc = "build", !.attempt = r.attempt + 1]
  <2>1. r \in HttpRecords /\ e \in Nat /\ e <= r.attempt + 1 /\ r.answer = "none" /\ r.method # "TRACE" /\ r.headers
    BY OutboundAssumption DEF HttpCallInv, HttpRecords
  <2>2. r.attempt + 1 \in 0..MAX_RETRIES
    BY <2>1, OutboundAssumption DEF HttpRecords
  <2>3. q \in HttpRecords
    BY <2>1, <2>2 DEF HttpRecords
  <2>4. q.pc = "build" /\ q.attempt = r.attempt + 1 /\ q.answer = r.answer /\ q.method = r.method /\ q.headers = r.headers
    BY <2>1 DEF HttpRecords
  <2> HIDE DEF q
  <2>5. HttpCallInv(q, e, g)
    BY <1>2, <2>1, <2>3, <2>4, WaitingCalls
  <2>. QED BY <2>5 DEF q
<1>. QED BY <1>1, <1>2

LEMMA BodyCalls ==
    ASSUME NEW r, NEW e, NEW h, HttpCallInv(r, e, h), r.pc = "served", NEW k \in BodySizes \cup {MAX_RESPONSE_SIZE}
    PROVE  HttpCallInv([r EXCEPT !.pc = "done", !.answer = "body", !.size = k], e, Append(h, "ok"))
<1>1. Append(h, "ok") \in Seq(Heards) /\ Append(h, "ok") # <<>> /\ Append(h, "ok")[Len(Append(h, "ok"))] = "ok"
      /\ Unheard(Append(h, "ok"), TRUE)
  <2>1. h \in Seq(Heards) /\ "ok" \in Heards /\ Unheard(h, FALSE)
    BY GoingOn DEF HttpCallInv, Heards
  <2>2. Unheard(Append(h, "ok"), TRUE)
    BY <2>1, UnheardNext, Zenon
  <2>3. Append(h, "ok") \in Seq(Heards) /\ Append(h, "ok") # <<>> /\ Append(h, "ok")[Len(Append(h, "ok"))] = "ok"
    BY <2>1
  <2>. QED BY <2>2, <2>3
<1>2. ASSUME NEW g \in Seq(Heards), g # <<>>, g[Len(g)] = "ok", Unheard(g, TRUE)
      PROVE  HttpCallInv([r EXCEPT !.pc = "done", !.answer = "body", !.size = k], e, g)
  <2> DEFINE q == [r EXCEPT !.pc = "done", !.answer = "body", !.size = k]
  <2>1. /\ q \in HttpRecords /\ q.pc = "done" /\ q.answer = "body" /\ q.attempt = r.attempt
        /\ e \in Nat /\ e >= 1 /\ e <= q.attempt + 1
    BY OutboundAssumption DEF HttpCallInv, HttpRecords
  <2> HIDE DEF q
  <2>2. HttpCallInv(q, e, g)
    BY <1>2, <2>1 DEF HttpCallInv
  <2>. QED BY <2>2 DEF q
<1>. QED BY <1>1, <1>2

LEMMA OutboundInitInv == OutboundInit => OutboundInv
<1> SUFFICES ASSUME OutboundInit PROVE OutboundInv
  OBVIOUS
<1>1. TreeListsPreorder
  BY DEF OutboundInit, TreeListsPreorder
<1>2. ASSUME NEW c \in HttpCalls PROVE hcall[c] = Fresh /\ effects[c] = 0 /\ heard[c] = <<>>
  BY DEF OutboundInit
<1>3. Fresh \in HttpRecords /\ <<>> \in Seq(Heards) /\ HttpCallInv(Fresh, 0, <<>>)
  BY FreshCalls DEF HttpCallInv
<1>4. hcall \in [HttpCalls -> HttpRecords] /\ effects \in [HttpCalls -> Nat] /\ heard \in [HttpCalls -> Seq(Heards)]
  BY <1>3 DEF OutboundInit
<1>. QED BY <1>1, <1>2, <1>3, <1>4 DEF OutboundInv

\* A step that writes one call.
LEMMA OneCall ==
    ASSUME OutboundInv, NEW c \in HttpCalls, NEW r, NEW e, NEW h, UNCHANGED tree, HttpCallInv(r, e, h),
           hcall' = [hcall EXCEPT ![c] = r], effects' = [effects EXCEPT ![c] = e], heard' = [heard EXCEPT ![c] = h]
    PROVE  OutboundInv'
<1>0. hcall \in [HttpCalls -> HttpRecords] /\ effects \in [HttpCalls -> Nat] /\ heard \in [HttpCalls -> Seq(Heards)]
  BY DEF OutboundInv
<1>1. TreeListsPreorder'
  BY DEF OutboundInv, TreeListsPreorder
<1>2. r \in HttpRecords /\ e \in Nat /\ h \in Seq(Heards)
  BY DEF HttpCallInv
<1>3. hcall' \in [HttpCalls -> HttpRecords] /\ effects' \in [HttpCalls -> Nat] /\ heard' \in [HttpCalls -> Seq(Heards)]
  BY <1>0, <1>2
<1>4. ASSUME NEW b \in HttpCalls PROVE HttpCallInv(hcall'[b], effects'[b], heard'[b])
  <2>1. CASE b = c
    <3>1. hcall'[b] = r /\ effects'[b] = e /\ heard'[b] = h
      BY <1>0, <2>1
    <3>. QED BY <3>1
  <2>2. CASE b # c
    <3>1. hcall'[b] = hcall[b] /\ effects'[b] = effects[b] /\ heard'[b] = heard[b]
      BY <1>0, <2>2
    <3>2. HttpCallInv(hcall[b], effects[b], heard[b])
      BY DEF OutboundInv
    <3>. QED BY <3>1, <3>2
  <2>. QED BY <2>1, <2>2
<1>. QED BY <1>1, <1>3, <1>4 DEF OutboundInv

\* What a call that does not change has.
LEMMA CallNow ==
    ASSUME OutboundInv, NEW c \in HttpCalls
    PROVE  /\ HttpCallInv(hcall[c], effects[c], heard[c])
           /\ UNCHANGED effects => effects' = [effects EXCEPT ![c] = effects[c]]
           /\ UNCHANGED heard => heard' = [heard EXCEPT ![c] = heard[c]]
  BY DEF OutboundInv

\* What AnswerCall writes.
LEMMA AnswerWrites ==
    ASSUME OutboundInv, NEW c \in HttpCalls, NEW k
    PROVE  AnswerCall(c, k) => hcall' = [hcall EXCEPT ![c] = [hcall[c] EXCEPT !.pc = "done", !.answer = k]]
  BY DEF AnswerCall, OutboundInv

\* The steps of a call, one lemma each.
LEMMA ForwardKeeps == ASSUME OutboundInv, NEW c \in HttpCalls, Forward(c) PROVE OutboundInv'
<1>0. /\ UNCHANGED tree /\ HttpCallInv(hcall[c], effects[c], heard[c])
      /\ effects' = [effects EXCEPT ![c] = effects[c]] /\ heard' = [heard EXCEPT ![c] = heard[c]]
  BY CallNow DEF Forward, Validate, BuildRequest
<1>1. CASE Validate(c)
  <2>1. hcall[c].pc = "idle"
    BY <1>1 DEF Validate
  <2>2. PICK url \in Urls, m \in HttpMethods, b \in BOOLEAN :
          \/ hcall' = [hcall EXCEPT ![c] = [Fresh EXCEPT !.pc = "done", !.url = url, !.method = m, !.answer = "refused"]]
          \/ hcall' = [hcall EXCEPT ![c] = [Fresh EXCEPT !.pc = "dns", !.url = url, !.method = m, !.headers = b]]
    BY <1>1 DEF Validate
  <2>. QED BY <1>0, <2>1, <2>2, ValidatedCalls, OneCall
<1>2. CASE BuildRequest(c)
  <2>1. hcall[c].pc = "build"
    BY <1>2 DEF BuildRequest
  <2>2. CASE hcall[c].method = "TRACE" \/ ~ hcall[c].headers
    <3>1. hcall' = [hcall EXCEPT ![c] = [hcall[c] EXCEPT !.pc = "done", !.answer = "refused"]]
      BY <1>2, <2>2, AnswerWrites DEF BuildRequest
    <3>2. effects[c] = 0
      BY <1>0, <2>1, <2>2, BuiltCalls
    <3>3. HttpCallInv([hcall[c] EXCEPT !.pc = "done", !.answer = "refused"], effects[c], heard[c])
      BY <1>0, <2>1, <3>2, AnsweredCalls DEF Heards
    <3>. QED BY <1>0, <3>1, <3>3, OneCall
  <2>3. CASE hcall[c].method # "TRACE" /\ hcall[c].headers
    <3>1. hcall' = [hcall EXCEPT ![c] = [hcall[c] EXCEPT !.pc = "sent"]]
      BY <1>2, <2>3 DEF BuildRequest
    <3>2. HttpCallInv([hcall[c] EXCEPT !.pc = "sent"], effects[c], heard[c])
      BY <1>0, <2>1, <2>3, BuiltCalls
    <3>. QED BY <1>0, <3>1, <3>2, OneCall
  <2>4. hcall[c].headers \in BOOLEAN
    BY <1>0 DEF HttpCallInv, HttpRecords
  <2>. QED BY <2>2, <2>3, <2>4
<1>. QED BY <1>1, <1>2 DEF Forward

LEMMA ResolveKeeps == ASSUME OutboundInv, NEW c \in HttpCalls, Resolved(c) \/ DnsTimeout(c) PROVE OutboundInv'
<1>0. /\ UNCHANGED tree /\ HttpCallInv(hcall[c], effects[c], heard[c])
      /\ effects' = [effects EXCEPT ![c] = effects[c]] /\ heard' = [heard EXCEPT ![c] = heard[c]]
  BY CallNow DEF Resolved, DnsTimeout
<1>1. hcall[c].pc = "dns"
  BY DEF Resolved, DnsTimeout
<1>2. effects[c] = 0 /\ HttpCallInv([hcall[c] EXCEPT !.pc = "build"], effects[c], heard[c])
  BY <1>0, <1>1, ResolvedCalls
<1>3. /\ HttpCallInv([hcall[c] EXCEPT !.pc = "done", !.answer = "refused"], effects[c], heard[c])
      /\ HttpCallInv([hcall[c] EXCEPT !.pc = "done", !.answer = "failed"], effects[c], heard[c])
  BY <1>0, <1>1, <1>2, AnsweredCalls DEF Heards
<1>4. \/ AnswerCall(c, "refused") \/ AnswerCall(c, "failed")
      \/ hcall' = [hcall EXCEPT ![c].pc = "build"]
  BY DEF Resolved, DnsTimeout
<1>5. \/ hcall' = [hcall EXCEPT ![c] = [hcall[c] EXCEPT !.pc = "done", !.answer = "refused"]]
      \/ hcall' = [hcall EXCEPT ![c] = [hcall[c] EXCEPT !.pc = "done", !.answer = "failed"]]
      \/ hcall' = [hcall EXCEPT ![c] = [hcall[c] EXCEPT !.pc = "build"]]
  BY <1>4, AnswerWrites
<1>. QED BY <1>0, <1>2, <1>3, <1>5, OneCall

LEMMA TransportKeeps == ASSUME OutboundInv, NEW c \in HttpCalls, Transport(c) PROVE OutboundInv'
<1>0. UNCHANGED tree /\ HttpCallInv(hcall[c], effects[c], heard[c]) /\ effects' = [effects EXCEPT ![c] = effects[c]]
  BY CallNow DEF Transport
<1>1. hcall[c].pc \in {"sent", "served"} /\ heard' = [heard EXCEPT ![c] = Append(heard[c], "transport")]
  BY DEF Transport
<1>2. CASE hcall[c].attempt < MAX_RETRIES
  <2>1. hcall' = [hcall EXCEPT ![c] = [hcall[c] EXCEPT !.pc = "build", !.attempt = hcall[c].attempt + 1]]
    BY <1>2 DEF Transport, OutboundInv, HttpRecords
  <2>2. HttpCallInv([hcall[c] EXCEPT !.pc = "build", !.attempt = hcall[c].attempt + 1], effects[c], Append(heard[c], "transport"))
    BY <1>0, <1>1, <1>2, RetriedCalls
  <2>. QED BY <1>0, <1>1, <2>1, <2>2, OneCall
<1>3. CASE ~ (hcall[c].attempt < MAX_RETRIES)
  <2>1. hcall' = [hcall EXCEPT ![c] = [hcall[c] EXCEPT !.pc = "done", !.answer = "failed"]]
    BY <1>3, AnswerWrites DEF Transport
  <2>2. HttpCallInv([hcall[c] EXCEPT !.pc = "done", !.answer = "failed"], effects[c], Append(heard[c], "transport"))
    BY <1>0, <1>1, AnsweredCalls DEF Heards
  <2>. QED BY <1>0, <1>1, <2>1, <2>2, OneCall
<1>. QED BY <1>2, <1>3

LEMMA RespondKeeps == ASSUME OutboundInv, NEW c \in HttpCalls, Respond(c) PROVE OutboundInv'
<1>0. UNCHANGED tree /\ HttpCallInv(hcall[c], effects[c], heard[c]) /\ effects' = [effects EXCEPT ![c] = effects[c]]
  BY CallNow DEF Respond
<1>1. hcall[c].pc = "served"
  BY DEF Respond
<1>2. PICK status \in Statuses, size \in BodySizes :
        /\ heard' = [heard EXCEPT ![c] = Append(heard[c], Class(status))]
        /\ IF status >= 400 THEN AnswerCall(c, "failed") ELSE ReadBody(c, size)
  BY DEF Respond
<1>3. Class(status) \in Heards
  BY DEF Class, Heards
<1>4. CASE AnswerCall(c, "failed")
  <2>1. hcall' = [hcall EXCEPT ![c] = [hcall[c] EXCEPT !.pc = "done", !.answer = "failed"]]
    BY <1>4, AnswerWrites
  <2>2. HttpCallInv([hcall[c] EXCEPT !.pc = "done", !.answer = "failed"], effects[c], Append(heard[c], Class(status)))
    BY <1>0, <1>1, <1>3, AnsweredCalls
  <2>. QED BY <1>0, <1>2, <2>1, <2>2, OneCall
<1>5. CASE ~ (status >= 400) /\ ~ AnswerCall(c, "failed")
  <2> DEFINE k == IF size > MAX_RESPONSE_SIZE THEN MAX_RESPONSE_SIZE ELSE size
  <2>0. Class(status) = "ok"
    BY <1>5, OutboundAssumption DEF Class
  <2>1. heard' = [heard EXCEPT ![c] = Append(heard[c], "ok")] /\ k \in BodySizes \cup {MAX_RESPONSE_SIZE}
    BY <1>2, <2>0
  <2>2. hcall' = [hcall EXCEPT ![c] = [hcall[c] EXCEPT !.pc = "done", !.answer = "body", !.size = k]]
    BY <1>2, <1>5 DEF ReadBody, OutboundInv
  <2> HIDE DEF k
  <2>3. HttpCallInv([hcall[c] EXCEPT !.pc = "done", !.answer = "body", !.size = k], effects[c], Append(heard[c], "ok"))
    BY <1>0, <1>1, <2>1, BodyCalls
  <2>. QED BY <1>0, <2>1, <2>2, <2>3, OneCall
<1>. QED BY <1>2, <1>4, <1>5

LEMMA ServeKeeps == ASSUME OutboundInv, NEW c \in HttpCalls, Serve(c) PROVE OutboundInv'
<1>0. UNCHANGED tree /\ HttpCallInv(hcall[c], effects[c], heard[c]) /\ heard' = [heard EXCEPT ![c] = heard[c]]
  BY CallNow DEF Serve
<1>1. /\ hcall[c].pc = "sent" /\ hcall' = [hcall EXCEPT ![c] = [hcall[c] EXCEPT !.pc = "served"]]
      /\ effects' = [effects EXCEPT ![c] = effects[c] + 1]
  BY DEF Serve
<1>2. HttpCallInv([hcall[c] EXCEPT !.pc = "served"], effects[c] + 1, heard[c])
  BY <1>0, <1>1, ServedCalls
<1>. QED BY <1>0, <1>1, <1>2, OneCall

\* A step that writes no call.
LEMMA OutboundSame == ASSUME OutboundInv, TreeListsPreorder', UNCHANGED <<hcall, effects, heard>> PROVE OutboundInv'
<1>1. hcall' = hcall /\ effects' = effects /\ heard' = heard
  OBVIOUS
<1>2. ASSUME NEW b \in HttpCalls PROVE HttpCallInv(hcall'[b], effects'[b], heard'[b])
  BY <1>1 DEF OutboundInv
<1>3. hcall' \in [HttpCalls -> HttpRecords] /\ effects' \in [HttpCalls -> Nat] /\ heard' \in [HttpCalls -> Seq(Heards)]
  BY <1>1 DEF OutboundInv
<1>. QED BY <1>2, <1>3 DEF OutboundInv

LEMMA OutboundStep == OutboundInv /\ [OutboundNext]_httpVars => OutboundInv'
<1> SUFFICES ASSUME OutboundInv, [OutboundNext]_httpVars PROVE OutboundInv'
  OBVIOUS
<1>0. UNCHANGED tree => TreeListsPreorder'
  BY DEF OutboundInv, TreeListsPreorder
<1>1. CASE UNCHANGED httpVars
  BY <1>0, <1>1, OutboundSame DEF httpVars
<1>2. CASE ListTree
  <2>1. PICK d \in Directories, m \in MaxDepths, n \in EntryLimits :
          tree' = [dir |-> d, max |-> m, limit |-> n, lines |-> DirectoryTree(d, m, n)]
    BY <1>2 DEF ListTree
  <2>2. m \in Nat /\ n \in Nat
    BY OutboundAssumption
  <2>3. EntryLines(DirectoryTree(d, m, n)) = NotExcluded(FirstLines(Preorder(m)[m][d], n))
    BY <2>2, TreeIsPreorder
  <2>4. tree'.lines = DirectoryTree(d, m, n) /\ tree'.max = m /\ tree'.limit = n /\ tree'.dir = d
    BY <2>1
  <2>5. TreeListsPreorder'
    BY <2>3, <2>4 DEF TreeListsPreorder
  <2>. QED BY <1>2, <2>5, OutboundSame DEF ListTree
<1>3. ASSUME NEW c \in HttpCalls, Forward(c) \/ Hear(c) \/ Serve(c) \/ LateDns(c) PROVE OutboundInv'
  <2>1. CASE Hear(c)
    BY <2>1, ResolveKeeps, TransportKeeps, RespondKeeps DEF Hear
  <2>2. CASE LateDns(c)
    BY <1>0, <2>2, OutboundSame DEF LateDns
  <2>. QED BY <1>3, <2>1, <2>2, ForwardKeeps, ServeKeeps
<1>. QED BY <1>1, <1>2, <1>3 DEF OutboundNext

LEMMA OutboundHeld == OutboundInv => OutboundExact
<1> SUFFICES ASSUME OutboundInv PROVE OutboundExact
  OBVIOUS
<1>1. ASSUME NEW c \in HttpCalls
      PROVE  /\ effects[c] <= hcall[c].attempt + 1 /\ hcall[c].attempt <= MAX_RETRIES
             /\ Unheard(heard[c], hcall[c].pc = "done")
             /\ hcall[c].answer = "refused" => effects[c] = 0
             /\ hcall[c].answer = "body" => effects[c] >= 1 /\ Last(heard[c]) = "ok"
  <2>1. HttpCallInv(hcall[c], effects[c], heard[c])
    BY DEF OutboundInv
  <2>2. effects[c] <= hcall[c].attempt + 1
    BY <2>1, OutboundAssumption DEF HttpCallInv, HttpRecords
  <2>3. hcall[c].attempt <= MAX_RETRIES
    BY <2>1, OutboundAssumption DEF HttpCallInv, HttpRecords
  <2>4. hcall[c].answer = "refused" => effects[c] = 0
    BY <2>1 DEF HttpCallInv
  <2>5. hcall[c].answer = "body" => effects[c] >= 1 /\ Last(heard[c]) = "ok"
    BY <2>1 DEF HttpCallInv, Last
  <2>6. Unheard(heard[c], hcall[c].pc = "done")
    BY <2>1 DEF HttpCallInv
  <2>. QED BY <2>2, <2>3, <2>4, <2>5, <2>6
<1>. QED BY <1>1 DEF OutboundInv, OutboundExact, EffectsWithinAttempts

\* For any number of calls, retries, statuses and directories: a request is carried out
\* at most once per attempt and never if it was refused, the attempts stay within
\* MAX_RETRIES, a request is sent again only while nothing but transport errors was heard
\* of it, a body that is returned is that of the last response, which was a success; and build_tree, whose limit on entries is one counter for all levels, lists
\* the first entries of the tree in preorder without the excluded ones.
THEOREM OutboundExactAlways == OutboundSpec => []OutboundExact
<1>. QED BY OutboundInitInv, OutboundStep, OutboundHeld, PTL DEF OutboundSpec
=============================================================================
