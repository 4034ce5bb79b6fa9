----------------------------- MODULE ContextProofs -----------------------------
(***************************************************************************)
(* The request context and the audit registry, for any number of workers,  *)
(* requests, threads and sessions.                                         *)
(*                                                                         *)
(* Audit entries are routed to the session of the request: a handler that  *)
(* sets the cell of its worker and makes its calls before its next await   *)
(* finds there what it has set, because no other task runs on that worker  *)
(* meanwhile.  The same fact makes cancellation keys the caller's own.     *)
(* The registry then keeps an entry in the log of its session, which has   *)
(* one owner for as long as anybody can reach it, and a flush leaves no    *)
(* entry behind.  An export copies the logs one after the other: what it   *)
(* has to have is in its answer or in a log it has still to copy, and what *)
(* it sorts has every number once, because numbers are given out once.     *)
(***************************************************************************)
EXTENDS RequestContext, AuditRegistry, TLAPS, FiniteSetTheorems, SequenceTheorems,
        WellFoundedInduction

Places == {"new", "ready", "exec", "check", "await", "leave", "done"}

\* The places where a task occupies a worker, and those where it still makes calls.
Occupying == {"ready", "exec", "check", "leave"}
Calling == {"ready", "exec", "check"}

Shape ==
    /\ at \in [Tasks -> Places]
    /\ on \in [Tasks -> Workers \cup {"none"}]
    /\ DOMAIN session_id = Workers
    /\ DOMAIN own = Tasks

\* A worker runs one task at a time.
Exclusive ==
    /\ \A t \in Tasks : at[t] \in Occupying <=> on[t] # "none"
    /\ \A t, u \in Tasks : (on[t] = on[u] /\ on[t] # "none") => t = u

CellIsOwn ==
    \A t \in Tasks : (t \notin Sockets /\ at[t] \in Calling) => session_id[on[t]] = own[t]

\* Entries come from tasks that have begun, whose session is settled.
Recorded == \A e \in audit : e.task \in Tasks /\ at[e.task] # "new"

RoutedInv == Shape /\ Exclusive /\ CellIsOwn /\ Recorded /\ AuditRouted

LEMMA RoutedInit == Init => RoutedInv
BY DEF Init, RoutedInv, Shape, Exclusive, CellIsOwn, Recorded, AuditRouted, Places, Occupying,
       Calling

\* A task that stays on its worker, or gives it up, disturbs nobody's cell.
LEMMA KeepsRouted ==
    ASSUME RoutedInv, NEW t \in Tasks, at[t] \in Calling, NEW where \in Places, where # "new",
           at' = [at EXCEPT ![t] = where],
           \/ where \in Occupying /\ UNCHANGED on
           \/ where \notin Occupying /\ on' = [on EXCEPT ![t] = "none"],
           UNCHANGED <<session_id, own>>,
           audit' = audit \/ (at[t] = "exec" /\ audit' = audit \cup {Entry(t)})
    PROVE  RoutedInv'
<1> USE DEF RoutedInv
<1>1. Shape'
  BY DEF Shape
<1>2. Exclusive'
  BY DEF Shape, Exclusive, Occupying, Calling
<1>3. CellIsOwn'
  BY DEF Shape, CellIsOwn, Occupying, Calling
<1>4. Recorded'
  BY DEF Shape, Recorded, Entry, Calling
<1>5. AuditRouted'
  <2>1. ASSUME NEW e \in audit', e.task \notin Sockets PROVE e.session = own'[e.task]
    <3>1. CASE e \in audit
      BY <2>1, <3>1 DEF AuditRouted
    <3>2. CASE e \notin audit
      <4>1. e = Entry(t)
        BY <2>1, <3>2
      <4>2. e.task = t /\ e.session = session_id[on[t]]
        BY <4>1 DEF Entry
      <4>. QED BY <2>1, <4>2 DEF CellIsOwn
    <3>. QED BY <3>1, <3>2
  <2>. QED BY <2>1 DEF AuditRouted
<1>. QED BY <1>1, <1>2, <1>3, <1>4, <1>5

LEMMA AfterPlaces == \A t \in Tasks : After(t) \in {"ready", "leave", "await"}
BY DEF After

LEMMA SettleKeeps ==
    ASSUME RoutedInv, NEW t \in Tasks, at[t] \in Calling, Settle(t), UNCHANGED <<session_id, own>>,
           audit' = audit \/ (at[t] = "exec" /\ audit' = audit \cup {Entry(t)})
    PROVE  RoutedInv'
<1>1. CASE After(t) = "await"
  <2>1. at' = [at EXCEPT ![t] = "await"] /\ on' = [on EXCEPT ![t] = "none"]
    BY <1>1 DEF Settle
  <2>. QED BY <2>1, KeepsRouted DEF Places, Occupying
<1>2. CASE After(t) \in {"ready", "leave"}
  <2>1. at' = [at EXCEPT ![t] = After(t)] /\ on' = [on EXCEPT ![t] = on[t]]
    BY <1>2 DEF Settle
  <2>2. UNCHANGED on
    BY <2>1 DEF RoutedInv, Shape
  <2>. QED BY <1>2, <2>1, <2>2, KeepsRouted DEF Places, Occupying
<1>. QED BY <1>1, <1>2, AfterPlaces

LEMMA RoutedStep == RoutedInv /\ [Next]_vars => RoutedInv'
<1> SUFFICES ASSUME RoutedInv, [Next]_vars PROVE RoutedInv'
  OBVIOUS
<1> USE DEF RoutedInv
<1>1. ASSUME NEW t \in Tasks, NEW w \in Workers, NEW s, Enter(t, w, s) PROVE RoutedInv'
  <2>. USE <1>1 DEF Enter
  <2>0. w # "none" /\ \A u \in Tasks : on[u] # w
    BY ContextAssumption DEF IdleWorkers
  <2>1. Shape'
    BY DEF Shape, Places
  <2>2. Exclusive'
    BY <2>0 DEF Shape, Exclusive, Occupying
  <2>3. CellIsOwn'
    <3>1. ASSUME NEW u \in Tasks, u \notin Sockets, at'[u] \in Calling
          PROVE  session_id'[on'[u]] = own'[u]
      <4>1. CASE u = t
        BY <2>0, <3>1, <4>1 DEF Shape, Calling
      <4>2. CASE u # t
        <5>1. at[u] \in Calling /\ on'[u] = on[u] /\ own'[u] = own[u] /\ on[u] # w
          BY <2>0, <3>1, <4>2 DEF Shape
        <5>2. on[u] \in Workers /\ session_id'[on[u]] = session_id[on[u]]
          BY <5>1 DEF Shape, Exclusive, Calling, Occupying
        <5>. QED BY <3>1, <5>1, <5>2 DEF CellIsOwn
      <4>. QED BY <4>1, <4>2
    <3>. QED BY <3>1 DEF CellIsOwn
  <2>4. Recorded'
    BY DEF Recorded, Shape
  <2>5. AuditRouted'
    BY DEF AuditRouted, Recorded, Shape
  <2>. QED BY <2>1, <2>2, <2>3, <2>4, <2>5
<1>2. ASSUME NEW t \in Tasks, NEW id, Cancel(t, id) PROVE RoutedInv'
  BY <1>2, SettleKeeps DEF Cancel, Calling
<1>3. ASSUME NEW t \in Tasks, NEW id, Call(t, id) PROVE RoutedInv'
  <2>1. CASE CancellationKey(on[t], id) \in cancelled
    BY <1>3, <2>1, SettleKeeps DEF Call, Calling
  <2>2. CASE CancellationKey(on[t], id) \notin cancelled
    BY <1>3, <2>2, KeepsRouted DEF Call, Calling, Places, Occupying
  <2>. QED BY <2>1, <2>2
<1>4. ASSUME NEW t \in Tasks, CallNda(t) PROVE RoutedInv'
  BY <1>4, KeepsRouted DEF CallNda, Calling, Places, Occupying
<1>5. ASSUME NEW t \in Tasks, Limited(t) PROVE RoutedInv'
  BY <1>5, SettleKeeps DEF Limited, Calling
<1>6. ASSUME NEW t \in Tasks, Record(t) PROVE RoutedInv'
  BY <1>6, KeepsRouted DEF Record, Calling, Places, Occupying
<1>7. ASSUME NEW t \in Tasks, Finish(t) PROVE RoutedInv'
  BY <1>7, SettleKeeps DEF Finish, Calling
<1>8. ASSUME NEW t \in Tasks, NEW w \in Workers, Resume(t, w) PROVE RoutedInv'
  <2>. USE <1>8 DEF Resume
  <2>0. w # "none" /\ \A u \in Tasks : on[u] # w
    BY ContextAssumption DEF IdleWorkers
  <2>1. Shape'
    BY DEF Shape, Places
  <2>2. Exclusive'
    BY <2>0 DEF Shape, Exclusive, Occupying
  <2>3. CellIsOwn'
    BY DEF Shape, CellIsOwn, Calling
  <2>4. Recorded' /\ AuditRouted'
    BY DEF Shape, Recorded, AuditRouted
  <2>. QED BY <2>1, <2>2, <2>3, <2>4
<1>9. ASSUME NEW t \in Tasks, Leave(t) PROVE RoutedInv'
  <2>. USE <1>9 DEF Leave
  <2>1. Shape'
    BY DEF Shape, Places
  <2>2. Exclusive'
    BY DEF Shape, Exclusive, Occupying
  <2>3. CellIsOwn'
    BY DEF Shape, CellIsOwn, Exclusive, Calling, Occupying
  <2>4. Recorded' /\ AuditRouted'
    BY DEF Shape, Recorded, AuditRouted
  <2>. QED BY <2>1, <2>2, <2>3, <2>4
<1>10. CASE UNCHANGED vars
  BY <1>10 DEF vars, Shape, Exclusive, CellIsOwn, Recorded, AuditRouted
<1>. QED BY <1>1, <1>2, <1>3, <1>4, <1>5, <1>6, <1>7, <1>8, <1>9, <1>10 DEF Next

\* No POST, NDA frame, batch or streamable request is ever recorded in the audit log
\* of another session, although workers are shared and the transport cell is never
\* cleared.
THEOREM AuditRoutedHolds == Spec => []AuditRouted
<1>1. RoutedInv => AuditRouted
  BY DEF RoutedInv
<1>. QED BY <1>1, RoutedInit, RoutedStep, PTL DEF Spec

-----------------------------------------------------------------------------
(* Cancellation.  A key is made from the cell of the worker, and CellIsOwn says *)
(* that this is the caller's session, unless the caller is a socket.  What the  *)
(* set holds was asked for; and until the set is emptied at its limit it holds  *)
(* whatever was asked for and can still be honoured.                            *)

Executing == {t \in Tasks \ Ndas : at[t] \in {"exec", "check"}}

\* A socket's session is its own, and a call that executes was sent.
CallsKnown ==
    /\ \A t \in Tasks : /\ at[t] = "check" => t \notin Ndas
                        /\ (t \in Sockets /\ at[t] # "new") => own[t] = t
    /\ \A t \in Executing : req[t] \in Ids /\ <<own[t], req[t]>> \in called
    /\ \A t, u \in Executing : (own[t] = own[u] /\ req[t] = req[u]) => t = u

CancelledAsked == SocketsQuiet => cancelled \subseteq asked

\* add_cancelled has not met its limit.
Roomy == Cardinality(asked) < MaxCancelled

CancelledKept ==
    (SocketsQuiet /\ Roomy) =>
      /\ asked \subseteq cancelled \cup called
      /\ \A t \in Executing : <<own[t], req[t]>> \in asked => <<own[t], req[t]>> \in cancelled

CancelInv ==
    /\ RoutedInv /\ CallsKnown /\ IsFiniteSet(asked)
    /\ DOMAIN req = Tasks /\ DOMAIN own = Tasks
    /\ CancelledAsked /\ CancelledKept /\ CancelOwn /\ (Roomy => CancelHonoured)

LEMMA CancelInit == Init => CancelInv
<1> SUFFICES ASSUME Init PROVE CancelInv
  OBVIOUS
<1>1. IsFiniteSet({})
  BY FS_EmptySet
<1>2. RoutedInv
  BY RoutedInit
<1>. QED BY <1>1, <1>2 DEF Init, CancelInv, CallsKnown, Executing, CancelledAsked, CancelledKept,
                           CancelOwn, CancelHonoured

\* What a step may do besides: the tasks go on, and no key is asked for or forgotten.
LEMMA QuietKeeps ==
    ASSUME CancelInv, RoutedInv', UNCHANGED <<cancelled, own, req, asked, called, answers>>,
           \A t \in Tasks : at'[t] \in {"exec", "check"} => (t \in Ndas \/ at[t] \in {"exec", "check"}),
           \A t \in Tasks : at'[t] # "new" => at[t] # "new",
           \A t \in Tasks : at'[t] = "check" => t \notin Ndas
    PROVE  CancelInv'
<1> USE DEF CancelInv
<1>1. Executing' \subseteq Executing
  BY DEF Executing
<1>2. CallsKnown'
  BY <1>1 DEF CallsKnown
<1>3. CancelledAsked' /\ CancelledKept' /\ CancelOwn' /\ (Roomy => CancelHonoured)'
  BY <1>1 DEF CancelledAsked, CancelledKept, CancelOwn, CancelHonoured, SocketsQuiet, Roomy
<1>. QED BY <1>2, <1>3

\* The key that a task makes is that of its own session, or sockets speak.
LEMMA KeyIsOwn ==
    ASSUME CancelInv, NEW t \in Tasks, at[t] \in Calling, t \notin Sockets, NEW id
    PROVE  CancellationKey(on[t], id) = <<own[t], id>>
BY DEF CancelInv, RoutedInv, CellIsOwn, CancellationKey

\* The fields of a new answer.
LEMMA AnswerFields ==
    ASSUME NEW t, NEW id, NEW result, Answer(t, id, result), NEW a \in answers', a \notin answers
    PROVE  a.result = result /\ (a.asked <=> <<own[t], id>> \in asked)
<1> DEFINE new == [task |-> t, id |-> id, result |-> result, asked |-> <<own[t], id>> \in asked]
<1>1. a = new
  BY DEF Answer
<1>2. a.result = result
  BY <1>1
<1>3. a.asked <=> <<own[t], id>> \in asked
  BY <1>1, Zenon
<1>. QED BY <1>2, <1>3

\* Where a step leaves a task that is not to execute.
LEMMA SettlePlaces ==
    ASSUME CancelInv, NEW t \in Tasks, Settle(t)
    PROVE  /\ at'[t] \in {"ready", "leave", "await"}
           /\ \A u \in Tasks : u # t => at'[u] = at[u]
BY AfterPlaces DEF Settle, CancelInv, RoutedInv, Shape

LEMMA CancelKeeps ==
    ASSUME CancelInv, RoutedInv', NEW t \in Tasks, NEW id \in Ids, Cancel(t, id) PROVE CancelInv'
<1> USE DEF CancelInv
<1>0. /\ at[t] = "ready" /\ asked' = asked \cup {<<own[t], id>>}
      /\ cancelled' = (IF Cardinality(cancelled) >= MaxCancelled THEN {} ELSE cancelled)
                        \cup {CancellationKey(on[t], id)}
      /\ UNCHANGED <<own, req, called, answers>>
      /\ at'[t] \in {"ready", "leave", "await"} /\ \A u \in Tasks : u # t => at'[u] = at[u]
  BY SettlePlaces DEF Cancel
<1>1. Executing' = Executing
  BY <1>0 DEF Executing
<1>2. CallsKnown'
  <2>1. \A u \in Tasks : at'[u] # "new" => at[u] # "new"
    BY <1>0
  <2>. QED BY <1>0, <1>1, <2>1 DEF CallsKnown
<1>3. IsFiniteSet(asked')
  BY <1>0, FS_AddElement
<1>4. SocketsQuiet' => SocketsQuiet /\ t \notin Sockets
  <2>1. t \in Sockets => own[t] = t
    BY <1>0 DEF CallsKnown
  <2>2. <<own[t], id>> \in asked' \cup called' /\ asked \subseteq asked' /\ called \subseteq called'
    BY <1>0
  <2>3. t \in Sockets => <<own[t], id>> \in Sockets \X Ids
    BY <2>1
  <2>. QED BY <2>2, <2>3 DEF SocketsQuiet
<1>5. SocketsQuiet' => CancellationKey(on[t], id) = <<own[t], id>>
  BY <1>0, <1>4, KeyIsOwn DEF Calling
<1>6. CancelledAsked'
  BY <1>0, <1>4, <1>5 DEF CancelledAsked
<1>7. CancelOwn'
  BY <1>0, <1>4 DEF CancelOwn
<1>8. ASSUME Roomy', SocketsQuiet' PROVE Roomy /\ cancelled' = cancelled \cup {<<own[t], id>>}
  <2>1. Cardinality(asked) <= Cardinality(asked') /\ Cardinality(asked) \in Nat /\ Cardinality(asked') \in Nat
    BY <1>0, <1>3, FS_Subset, FS_CardinalityType
  <2>2. cancelled \subseteq asked
    BY <1>4, <1>8 DEF CancelledAsked
  <2>3. Cardinality(cancelled) <= Cardinality(asked) /\ Cardinality(cancelled) \in Nat
    BY <2>2, FS_Subset, FS_CardinalityType
  <2>4. ~(Cardinality(cancelled) >= MaxCancelled) /\ Roomy
    BY <1>8, <2>1, <2>3, ContextAssumption DEF Roomy
  <2>. QED BY <1>0, <1>5, <1>8, <2>4
<1>9. CancelledKept'
  BY <1>0, <1>1, <1>4, <1>8 DEF CancelledKept
<1>10. (Roomy => CancelHonoured)'
  BY <1>0, <1>4, <1>8 DEF CancelHonoured
<1>. QED BY <1>0, <1>2, <1>3, <1>6, <1>7, <1>9, <1>10

LEMMA CallKeeps ==
    ASSUME CancelInv, RoutedInv', NEW t \in Tasks, NEW id \in Ids, Call(t, id) PROVE CancelInv'
<1> USE DEF CancelInv
<1> DEFINE key == <<own[t], id>>
<1>0. /\ at[t] = "ready" /\ t \notin Ndas /\ key \notin called /\ called' = called \cup {key}
      /\ UNCHANGED <<own, asked>>
  BY DEF Call
<1>1. SocketsQuiet' => SocketsQuiet /\ t \notin Sockets
  <2>1. t \in Sockets => own[t] = t
    BY <1>0 DEF CallsKnown
  <2>2. <<own[t], id>> \in asked' \cup called' /\ asked \subseteq asked' /\ called \subseteq called'
    BY <1>0
  <2>3. t \in Sockets => <<own[t], id>> \in Sockets \X Ids
    BY <2>1
  <2>. QED BY <2>2, <2>3 DEF SocketsQuiet
<1>2. SocketsQuiet' => CancellationKey(on[t], id) = key
  BY <1>0, <1>1, KeyIsOwn DEF Calling
<1>3. t \notin Executing /\ \A u \in Executing : <<own[u], req[u]>> # key
  BY <1>0 DEF Executing, CallsKnown
<1>4. CASE CancellationKey(on[t], id) \in cancelled
  <2>1. /\ cancelled' = cancelled \ {CancellationKey(on[t], id)} /\ UNCHANGED req
        /\ at'[t] \in {"ready", "leave", "await"} /\ \A u \in Tasks : u # t => at'[u] = at[u]
        /\ Answer(t, id, "cancelled")
    BY <1>4, SettlePlaces DEF Call
  <2>2. Executing' = Executing
    BY <1>0, <2>1 DEF Executing
  <2>3. CallsKnown'
    <3>1. \A u \in Tasks : at'[u] # "new" => at[u] # "new"
      BY <1>0, <2>1
    <3>. QED BY <1>0, <2>1, <2>2, <3>1 DEF CallsKnown
  <2>4. CancelledAsked'
    BY <1>0, <1>1, <2>1 DEF CancelledAsked
  <2>5. CancelledKept'
    BY <1>0, <1>1, <1>2, <1>3, <2>1, <2>2 DEF CancelledKept, Roomy
  <2>6. CancelOwn'
    <3>1. SocketsQuiet' => key \in asked
      BY <1>1, <1>2, <1>4 DEF CancelledAsked
    <3>2. \A a \in answers' : a \in answers \/ (a.asked <=> key \in asked)
      BY <2>1, AnswerFields
    <3>. QED BY <1>1, <3>1, <3>2 DEF CancelOwn
  <2>7. (Roomy => CancelHonoured)'
    <3>1. \A a \in answers' : a \in answers \/ a.result = "cancelled"
      BY <2>1, AnswerFields
    <3>. QED BY <1>0, <1>1, <3>1 DEF CancelHonoured, Roomy
  <2>. QED BY <1>0, <2>1, <2>3, <2>4, <2>5, <2>6, <2>7
<1>5. CASE CancellationKey(on[t], id) \notin cancelled
  <2>1. /\ req' = [req EXCEPT ![t] = id] /\ at' = [at EXCEPT ![t] = "exec"]
        /\ UNCHANGED <<cancelled, answers>>
    BY <1>5 DEF Call
  <2>2. Executing' = Executing \cup {t} /\ req'[t] = id /\ \A u \in Executing : req'[u] = req[u]
    BY <1>0, <1>3, <2>1 DEF Executing, RoutedInv, Shape
  <2>3. CallsKnown'
    <3>1. \A u \in Tasks : at'[u] # "new" => at[u] # "new"
      BY <1>0, <2>1 DEF RoutedInv, Shape
    <3>. QED BY <1>0, <1>3, <2>1, <2>2, <3>1 DEF CallsKnown
  <2>4. CancelledAsked' /\ CancelOwn' /\ (Roomy => CancelHonoured)'
    BY <1>0, <1>1, <2>1 DEF CancelledAsked, CancelOwn, CancelHonoured, Roomy
  <2>5. CancelledKept'
    BY <1>0, <1>1, <1>2, <1>5, <2>1, <2>2 DEF CancelledKept, Roomy
  <2>. QED BY <1>0, <2>1, <2>3, <2>4, <2>5
<1>. QED BY <1>4, <1>5

LEMMA LimitedKeeps ==
    ASSUME CancelInv, RoutedInv', NEW t \in Tasks, Limited(t) PROVE CancelInv'
<1> USE DEF CancelInv
<1>1. /\ at[t] = "exec" /\ UNCHANGED <<cancelled, own, req, asked, called>>
      /\ at'[t] \in {"ready", "leave", "await"} /\ \A u \in Tasks : u # t => at'[u] = at[u]
      /\ \A a \in answers' : a \in answers \/ a.result = "limited"
  BY SettlePlaces, AnswerFields DEF Limited
<1>2. Executing' \subseteq Executing /\ \A u \in Tasks : at'[u] # "new" => at[u] # "new"
  BY <1>1 DEF Executing
<1>3. CallsKnown'
  BY <1>1, <1>2 DEF CallsKnown
<1>4. CancelledAsked' /\ CancelledKept'
  BY <1>1, <1>2 DEF CancelledAsked, CancelledKept, SocketsQuiet, Roomy
<1>5. CancelOwn' /\ (Roomy => CancelHonoured)'
  BY <1>1 DEF CancelOwn, CancelHonoured, SocketsQuiet, Roomy
<1>. QED BY <1>1, <1>3, <1>4, <1>5

LEMMA FinishKeeps ==
    ASSUME CancelInv, RoutedInv', NEW t \in Tasks, Finish(t) PROVE CancelInv'
<1> USE DEF CancelInv
<1> DEFINE key == <<own[t], req[t]>>
<1>1. /\ at[t] = "check" /\ UNCHANGED <<own, req, asked, called>>
      /\ at'[t] \in {"ready", "leave", "await"} /\ \A u \in Tasks : u # t => at'[u] = at[u]
      /\ cancelled' = cancelled \ {CancellationKey(on[t], req[t])}
      /\ Answer(t, req[t], IF CancellationKey(on[t], req[t]) \in cancelled THEN "cancelled" ELSE "done")
  BY SettlePlaces DEF Finish
<1>2. /\ Executing' = Executing \ {t} /\ t \in Executing
      /\ \A u \in Tasks : at'[u] # "new" => at[u] # "new"
  BY <1>1 DEF Executing, CallsKnown
<1>3. CallsKnown'
  BY <1>1, <1>2 DEF CallsKnown
<1>4. SocketsQuiet => t \notin Sockets /\ CancellationKey(on[t], req[t]) = key
  <2>1. SocketsQuiet => t \notin Sockets
    <3>1. key \in called /\ req[t] \in Ids /\ (t \in Sockets => own[t] = t)
      BY <1>1, <1>2 DEF CallsKnown
    <3>2. t \in Sockets => key \in Sockets \X Ids
      BY <3>1
    <3>. QED BY <3>1, <3>2 DEF SocketsQuiet
  <2>. QED BY <1>1, <2>1, KeyIsOwn DEF Calling
<1>5. SocketsQuiet' = SocketsQuiet /\ Roomy' = Roomy
  BY <1>1 DEF SocketsQuiet, Roomy
<1>6. CancelledAsked'
  BY <1>1, <1>5 DEF CancelledAsked
<1>7. CancelledKept'
  <2>1. \A u \in Executing' : <<own[u], req[u]>> # key
    BY <1>2 DEF CallsKnown
  <2>2. key \in called
    BY <1>2 DEF CallsKnown
  <2>. QED BY <1>1, <1>2, <1>4, <1>5, <2>1, <2>2 DEF CancelledKept
<1>a. ASSUME NEW a \in answers', a \notin answers, SocketsQuiet
      PROVE  (a.asked <=> key \in asked) /\ a.result = IF key \in cancelled THEN "cancelled" ELSE "done"
  BY <1>1, <1>4, <1>a, AnswerFields
<1>8. CancelOwn'
  BY <1>5, <1>a DEF CancelOwn, CancelledAsked
<1>9. (Roomy => CancelHonoured)'
  BY <1>2, <1>5, <1>a DEF CancelHonoured, CancelledKept
<1>. QED BY <1>1, <1>3, <1>6, <1>7, <1>8, <1>9

LEMMA CancelStep == CancelInv /\ [Next]_vars => CancelInv'
<1> SUFFICES ASSUME CancelInv, [Next]_vars PROVE CancelInv'
  OBVIOUS
<1> USE DEF CancelInv
<1>0. RoutedInv'
  BY RoutedStep
<1>s. at \in [Tasks -> Places]
  BY DEF RoutedInv, Shape
<1>1. ASSUME NEW t \in Tasks, NEW w \in Workers, NEW s \in SessionChoices(t), Enter(t, w, s) PROVE CancelInv'
  <2>1. /\ at[t] = "new" /\ own' = [own EXCEPT ![t] = s]
        /\ UNCHANGED <<cancelled, req, asked, called, answers>>
        /\ at'[t] \in {"await", "ready"} /\ \A u \in Tasks : u # t => at'[u] = at[u]
    BY <1>1, <1>s DEF Enter
  <2>2. Executing' = Executing /\ t \notin Executing /\ Executing \subseteq Tasks
    BY <2>1 DEF Executing
  <2>3. /\ \A u \in Executing : own'[u] = own[u]
        /\ \A u \in Tasks : (u \in Sockets /\ at'[u] # "new") => own'[u] = u
    <3>1. \A u \in Tasks : u # t => own'[u] = own[u]
      BY <2>1
    <3>2. t \in Sockets => own'[t] = t
      BY <1>1, <2>1 DEF SessionChoices
    <3>. QED BY <2>1, <2>2, <3>1, <3>2 DEF CallsKnown
  <2>4. CallsKnown'
    BY <2>1, <2>2, <2>3 DEF CallsKnown
  <2>5. CancelledAsked' /\ CancelledKept' /\ CancelOwn' /\ (Roomy => CancelHonoured)'
    BY <2>1, <2>2, <2>3 DEF CancelledAsked, CancelledKept, CancelOwn, CancelHonoured, SocketsQuiet, Roomy
  <2>. QED BY <1>0, <2>1, <2>4, <2>5
<1>2. ASSUME NEW t \in Tasks, NEW id \in Ids, Cancel(t, id) PROVE CancelInv'
  BY <1>0, <1>2, CancelKeeps
<1>3. ASSUME NEW t \in Tasks, NEW id \in Ids, Call(t, id) PROVE CancelInv'
  BY <1>0, <1>3, CallKeeps
<1>4. ASSUME NEW t \in Tasks, CallNda(t) PROVE CancelInv'
  BY <1>0, <1>s, <1>4, QuietKeeps DEF CallNda, CallsKnown
<1>5. ASSUME NEW t \in Tasks, Limited(t) PROVE CancelInv'
  BY <1>0, <1>5, LimitedKeeps
<1>6. ASSUME NEW t \in Tasks, Record(t) PROVE CancelInv'
  BY <1>0, <1>s, <1>6, QuietKeeps DEF Record, CallsKnown
<1>7. ASSUME NEW t \in Tasks, Finish(t) PROVE CancelInv'
  BY <1>0, <1>7, FinishKeeps
<1>8. ASSUME NEW t \in Tasks, NEW w \in Workers, Resume(t, w) PROVE CancelInv'
  BY <1>0, <1>s, <1>8, QuietKeeps DEF Resume, CallsKnown
<1>9. ASSUME NEW t \in Tasks, Leave(t) PROVE CancelInv'
  BY <1>0, <1>s, <1>9, QuietKeeps DEF Leave, CallsKnown
<1>10. CASE UNCHANGED vars
  BY <1>0, <1>10, QuietKeeps DEF vars, CallsKnown
<1>. QED BY <1>1, <1>2, <1>3, <1>4, <1>5, <1>6, <1>7, <1>8, <1>9, <1>10 DEF Next

\* For any number of workers, sessions and requests, a cancellation reaches the call
\* it names in its own session and no other call, and until MAX_CANCELLED_IDS of them
\* were asked for none is forgotten: the result of a cancelled call is not sent.
THEOREM CancelsKeptHold == Spec => []((Roomy => CancelsKept) /\ CancelOwn)
<1>1. CancelInv => (Roomy => CancelsKept) /\ CancelOwn
  BY DEF CancelInv, CancelsKept
<1>. QED BY <1>1, CancelInit, CancelStep, PTL DEF Spec

-----------------------------------------------------------------------------
(* The audit registry.  A log has one owner as long as anybody can reach it:    *)
(* the session it is registered with, that of the threads that hold an Arc, and *)
(* that of the entries recorded in it are the same.                             *)

Holding == {t \in Threads : pc[t] \in {"number", "push"}}
Owned(l, s) ==
    /\ \A r \in recorded : r[2] = l => r[1] = s
    /\ \A t \in Holding : arc[t] = l => sid[t] = s
    /\ \A u \in AuditSessions : sessionLogs[u] = l => u = s

AuditShape ==
    /\ logs \in Seq(Seq(Nat)) /\ audit_seq \in Nat \ {0}
    /\ sessionLogs \in [AuditSessions -> Nat] /\ \A s \in AuditSessions : sessionLogs[s] <= Len(logs)
    /\ DOMAIN pc = Threads /\ DOMAIN arc = Threads /\ seq \in [Threads -> Nat]
    /\ DOMAIN sid = Threads /\ \A t \in Threads : pc[t] # "idle" => sid[t] \in AuditSessions
    /\ \A t \in Holding : arc[t] \in 1..Len(logs)
    /\ \A r \in recorded : r \in AuditSessions \X (1..Len(logs)) \X Nat

Owners ==
    /\ \A s \in RegisteredLogs : Owned(sessionLogs[s], s)
    /\ \A t \in Holding : Owned(arc[t], sid[t])
    /\ \A r \in recorded : Owned(r[2], r[1])

NotOrphaned ==
    /\ \A t \in Holding : sessionLogs[sid[t]] = arc[t] \/ arc[t] \in dropped
    /\ NoOrphanEntry

\* A number is drawn once.
NumbersUnique ==
    /\ \A r \in recorded : r[3] < audit_seq
    /\ \A t \in Threads : pc[t] = "push" => seq[t] < audit_seq /\ \A r \in recorded : r[3] # seq[t]
    /\ \A t, u \in Threads : (pc[t] = "push" /\ pc[u] = "push" /\ seq[t] = seq[u]) => t = u
    /\ \A l \in 1..Len(logs) : \A n \in Range(logs[l]) : \E r \in recorded : r[2] = l /\ r[3] = n

AuditInv == AuditShape /\ Owners /\ NotOrphaned /\ NumbersUnique /\ RegistryBounded

\* What a step leaves to those who know a log: its owner, its records, and that what
\* was trimmed from it does not come back.
LogsStay ==
    /\ Len(logs) <= Len(logs') /\ recorded \subseteq recorded'
    /\ \A r \in recorded : r[3] \notin Range(logs[r[2]]) => r[3] \notin Range(logs'[r[2]])
    /\ \A l \in 1..Len(logs) : \A s : Owned(l, s) => Owned(l, s)'

\* The ring keeps none but what was in it and the new entry.
LEMMA NewestRange ==
    ASSUME NEW s \in Seq(Nat), NEW x \in Nat
    PROVE  /\ NewestEntries(Append(s, x)) \in Seq(Nat)
           /\ Range(NewestEntries(Append(s, x))) \subseteq Range(s) \cup {x}
<1> DEFINE a == Append(s, x)
           S == (Range(s) \cup {x}) \cap Nat
<1>1. a \in Seq(Nat) /\ Len(a) \in Nat /\ DOMAIN a = 1..Len(a) /\ \A i \in 1..Len(a) : a[i] \in S
  BY DEF Range
<1> HIDE DEF a
<1>2. CASE Len(a) > MaxEntries
  <2> DEFINE m == Len(a) - MaxEntries + 1
             b == SubSeq(a, m, Len(a))
  <2>1. m \in 1..Len(a) /\ Len(a) \in Int
    BY <1>1, <1>2, AuditAssumption
  <2> HIDE DEF m, S
  <2>2. b \in Seq(S)
    BY <1>1, <2>1, SubSeqProperties
  <2>3. NewestEntries(a) = b
    BY <1>2 DEF NewestEntries, m
  <2> HIDE DEF b
  <2>4. NewestEntries(a) \in Seq(Nat) /\ Range(NewestEntries(a)) \subseteq S
    BY <2>2, <2>3 DEF Range, S
  <2>. QED BY <2>4 DEF S, a
<1>3. CASE ~(Len(a) > MaxEntries)
  <2>1. NewestEntries(a) = a /\ Range(a) \subseteq S
    BY <1>1, <1>3 DEF NewestEntries, Range
  <2>. QED BY <1>1, <2>1 DEF S, a
<1>. QED BY <1>2, <1>3

LEMMA AuditInitInv == AuditInit => AuditInv
<1> SUFFICES ASSUME AuditInit PROVE AuditInv
  OBVIOUS
<1> USE DEF AuditInit
<1>1. RegisteredLogs = {} /\ Holding = {} /\ Len(logs) = 0
  BY DEF RegisteredLogs, Holding
<1>2. RegistryBounded
  BY <1>1, FS_EmptySet, AuditAssumption DEF RegistryBounded
<1>3. AuditShape
  BY <1>1 DEF AuditShape, None
<1>4. Owners /\ NotOrphaned
  BY <1>1 DEF Owners, NotOrphaned, NoOrphanEntry
<1>5. NumbersUnique
  BY <1>1 DEF NumbersUnique
<1>. QED BY <1>2, <1>3, <1>4, <1>5 DEF AuditInv

\* What does not touch the logs and the threads keeps the invariant.
LEMMA AuditQuiet ==
    ASSUME AuditInv, UNCHANGED <<sessionLogs, logs, audit_seq, pc, sid, arc, seq, recorded, dropped>>
    PROVE  AuditInv' /\ LogsStay
<1>1. AuditInv'
  BY DEF AuditInv, AuditShape, Owners, Owned, NotOrphaned, NoOrphanEntry, NumbersUnique, RegistryBounded,
         RegisteredLogs, Holding
<1>2. Len(logs) <= Len(logs')
  BY DEF AuditInv, AuditShape
<1>3. \A l \in 1..Len(logs) : \A s : Owned(l, s) => Owned(l, s)'
  BY DEF Owned, Holding
<1>. QED BY <1>1, <1>2, <1>3 DEF LogsStay

LEMMA RecordKeeps ==
    ASSUME AuditInv, NEW t \in Threads, NEW s \in AuditSessions, RecordToolCall(t, s) PROVE AuditInv' /\ LogsStay
<1> USE DEF AuditInv
<1>1. /\ pc[t] = "idle" /\ pc' = [pc EXCEPT ![t] = "lookup"] /\ sid' = [sid EXCEPT ![t] = s]
      /\ UNCHANGED <<sessionLogs, logs, audit_seq, arc, seq, recorded, dropped>>
  BY DEF RecordToolCall
<1>2. /\ Holding' = Holding /\ RegisteredLogs' = RegisteredLogs /\ t \notin Holding
      /\ \A u \in Holding : sid'[u] = sid[u]
  BY <1>1 DEF Holding, RegisteredLogs, AuditShape
<1>3. AuditShape'
  BY <1>1, <1>2 DEF AuditShape
<1>4. Owners' /\ NotOrphaned' /\ RegistryBounded'
  BY <1>1, <1>2 DEF Owners, Owned, NotOrphaned, NoOrphanEntry, RegistryBounded
<1>5. NumbersUnique'
  <2>1. \A u \in Threads : pc'[u] = "push" => pc[u] = "push"
    BY <1>1 DEF AuditShape
  <2>. QED BY <1>1, <2>1 DEF NumbersUnique
<1>6. LogsStay
  BY <1>1, <1>2 DEF LogsStay, Owned, AuditShape
<1>. QED BY <1>3, <1>4, <1>5, <1>6

\* A thread gets the log its session is registered with.
LEMMA FetchKeeps ==
    ASSUME AuditInv, NEW t \in Threads, pc[t] \in {"lookup", "insert"}, sessionLogs[sid[t]] # None,
           arc' = [arc EXCEPT ![t] = sessionLogs[sid[t]]], pc' = [pc EXCEPT ![t] = "number"],
           UNCHANGED <<sessionLogs, logs, audit_seq, sid, seq, recorded, dropped>>
    PROVE  AuditInv' /\ LogsStay
<1> USE DEF AuditInv
<1>1. /\ Holding' = Holding \cup {t} /\ RegisteredLogs' = RegisteredLogs /\ t \notin Holding
      /\ \A u \in Holding : arc'[u] = arc[u]
      /\ arc'[t] = sessionLogs[sid[t]] /\ sid[t] \in RegisteredLogs /\ sid[t] \in AuditSessions
      /\ sessionLogs[sid[t]] \in 1..Len(logs)
  BY DEF Holding, RegisteredLogs, AuditShape, None
<1>2. AuditShape'
  BY <1>1 DEF AuditShape
<1>3. ASSUME NEW l, NEW s, Owned(l, s) PROVE Owned(l, s)'
  BY <1>1, <1>3 DEF Owned
<1>4. Owners'
  BY <1>1, <1>3 DEF Owners
<1>5. NotOrphaned' /\ RegistryBounded'
  BY <1>1 DEF NotOrphaned, NoOrphanEntry, RegistryBounded
<1>6. NumbersUnique'
  BY DEF NumbersUnique, AuditShape
<1>7. LogsStay
  BY <1>3 DEF LogsStay, AuditShape
<1>. QED BY <1>2, <1>4, <1>5, <1>6, <1>7

LEMMA LookupKeeps == ASSUME AuditInv, NEW t \in Threads, Lookup(t) PROVE AuditInv' /\ LogsStay
<1>1. CASE sessionLogs[sid[t]] # None
  BY <1>1, FetchKeeps DEF Lookup
<1>2. CASE sessionLogs[sid[t]] = None
  <2> USE DEF AuditInv
  <2>1. /\ pc[t] = "lookup" /\ pc' = [pc EXCEPT ![t] = "insert"] /\ arc' = [arc EXCEPT ![t] = None]
        /\ UNCHANGED <<sessionLogs, logs, audit_seq, sid, seq, recorded, dropped>>
    BY <1>2 DEF Lookup
  <2>2. /\ Holding' = Holding /\ RegisteredLogs' = RegisteredLogs
        /\ \A u \in Holding : arc'[u] = arc[u]
    BY <2>1 DEF Holding, RegisteredLogs, AuditShape
  <2>3. AuditShape'
    BY <2>1, <2>2 DEF AuditShape
  <2>4. Owners' /\ NotOrphaned' /\ RegistryBounded'
    BY <2>1, <2>2 DEF Owners, Owned, NotOrphaned, NoOrphanEntry, RegistryBounded
  <2>5. NumbersUnique'
    BY <2>1 DEF NumbersUnique, AuditShape
  <2>6. LogsStay
    BY <2>1, <2>2 DEF LogsStay, Owned, AuditShape
  <2>. QED BY <2>3, <2>4, <2>5, <2>6
<1>. QED BY <1>1, <1>2

\* The limit: the session that comes takes the place of one that goes.
LEMMA InsertBounded ==
    ASSUME RegistryBounded, NEW s \in AuditSessions \ RegisteredLogs, NEW victims,
           victims \in IF Cardinality(RegisteredLogs) >= MaxSessions
                         THEN {{v} : v \in RegisteredLogs} ELSE {{}}
    PROVE  Cardinality((RegisteredLogs \ victims) \cup {s}) <= MaxSessions
<1>1. /\ IsFiniteSet(RegisteredLogs) /\ Cardinality(RegisteredLogs) \in Nat
      /\ s \notin RegisteredLogs
  <2>1. RegisteredLogs \subseteq AuditSessions
    BY DEF RegisteredLogs
  <2>. QED BY <2>1, AuditAssumption, FS_Subset, FS_CardinalityType
<1>2. CASE Cardinality(RegisteredLogs) >= MaxSessions
  <2>1. PICK v \in RegisteredLogs : victims = {v}
    BY <1>2
  <2>2. Cardinality(RegisteredLogs \ {v}) = Cardinality(RegisteredLogs) - 1 /\ IsFiniteSet(RegisteredLogs \ {v})
    BY <1>1, FS_RemoveElement
  <2>3. Cardinality((RegisteredLogs \ {v}) \cup {s}) = Cardinality(RegisteredLogs \ {v}) + 1
    BY <1>1, <2>2, FS_AddElement
  <2>. QED BY <1>1, <2>1, <2>2, <2>3, AuditAssumption DEF RegistryBounded
<1>3. CASE ~(Cardinality(RegisteredLogs) >= MaxSessions)
  <2>1. RegisteredLogs \ victims = RegisteredLogs
    BY <1>3
  <2>2. Cardinality(RegisteredLogs \cup {s}) = Cardinality(RegisteredLogs) + 1
    BY <1>1, FS_AddElement
  <2>. QED BY <1>1, <1>3, <2>1, <2>2, AuditAssumption
<1>. QED BY <1>2, <1>3

LEMMA InsertKeeps == ASSUME AuditInv, NEW t \in Threads, Insert(t) PROVE AuditInv' /\ LogsStay
<1> USE DEF AuditInv
<1>0. /\ pc[t] = "insert" /\ pc' = [pc EXCEPT ![t] = "number"] /\ sid[t] \in AuditSessions
      /\ UNCHANGED <<audit_seq, sid, seq, recorded>>
  BY DEF Insert, AuditShape
<1>1. CASE sessionLogs[sid[t]] # None
  BY <1>0, <1>1, FetchKeeps DEF Insert
<1>2. CASE sessionLogs[sid[t]] = None
  <2>0. PICK victims \in IF Cardinality(RegisteredLogs) >= MaxSessions
                           THEN {{s} : s \in RegisteredLogs} ELSE {{}} :
          /\ logs' = Append(logs, <<>>)
          /\ sessionLogs' = [s \in AuditSessions |-> IF s = sid[t] THEN Len(logs) + 1
                                                     ELSE IF s \in victims THEN None ELSE sessionLogs[s]]
          /\ dropped' = dropped \cup {sessionLogs[s] : s \in victims}
          /\ arc' = [arc EXCEPT ![t] = Len(logs) + 1]
    BY <1>2 DEF Insert
  <2>n. PICK new \in Nat : new = Len(logs) + 1
    BY DEF AuditShape
  <2>1. /\ logs' \in Seq(Seq(Nat)) /\ Len(logs) \in Nat /\ Len(logs') = new
        /\ logs'[new] = <<>> /\ \A l \in 1..Len(logs) : logs'[l] = logs[l]
        /\ 1..new = 1..Len(logs) \cup {new} /\ new \notin 1..Len(logs)
    <3>1. logs \in Seq(Seq(Nat)) /\ <<>> \in Seq(Nat)
      BY DEF AuditShape
    <3>. QED BY <2>0, <2>n, <3>1
  <2>2. /\ Holding' = Holding \cup {t} /\ t \notin Holding
        /\ \A u \in Holding : arc'[u] = arc[u] /\ arc[u] \in 1..Len(logs)
        /\ arc'[t] = new
    BY <1>0, <2>0, <2>n DEF Holding, AuditShape
  <2>3. /\ sessionLogs' \in [AuditSessions -> Nat] /\ sessionLogs'[sid[t]] = new
        /\ \A s \in AuditSessions : s # sid[t] => sessionLogs'[s] \in {None, sessionLogs[s]}
        /\ \A s \in AuditSessions : (s # sid[t] /\ s \notin victims) => sessionLogs'[s] = sessionLogs[s]
    BY <1>0, <2>0, <2>n DEF AuditShape, None
  <2>4. RegisteredLogs' = (RegisteredLogs \ victims) \cup {sid[t]} /\ sid[t] \notin RegisteredLogs
    BY <1>0, <1>2, <2>0, <2>n DEF RegisteredLogs, None
  <2>5. RegistryBounded'
    BY <1>0, <2>0, <2>4, InsertBounded DEF RegistryBounded
  <2>6. AuditShape'
    <3>1. \A s \in AuditSessions : sessionLogs'[s] <= Len(logs')
      <4>1. ASSUME NEW s \in AuditSessions PROVE sessionLogs'[s] <= new
        <5>1. sessionLogs'[s] \in {new, 0, sessionLogs[s]}
          BY <2>3 DEF None
        <5>2. sessionLogs[s] \in Nat /\ sessionLogs[s] <= Len(logs)
          BY DEF AuditShape
        <5>. QED BY <2>1, <2>n, <5>1, <5>2
      <4>. QED BY <2>1, <4>1
    <3>2. \A u \in Threads : pc'[u] # "idle" => sid'[u] \in AuditSessions
      BY <1>0 DEF AuditShape
    <3>3. \A r \in recorded : r \in AuditSessions \X (1..Len(logs')) \X Nat
      BY <2>1 DEF AuditShape
    <3>4. \A u \in Holding' : arc'[u] \in 1..Len(logs')
      BY <2>1, <2>2
    <3>. QED BY <1>0, <2>0, <2>1, <2>3, <3>1, <3>2, <3>3, <3>4 DEF AuditShape
  <2>7. ASSUME NEW l \in 1..Len(logs), NEW s, Owned(l, s) PROVE Owned(l, s)'
    <3>1. \A u \in Holding' : arc'[u] = l => sid'[u] = s
      BY <1>0, <2>1, <2>2, <2>7 DEF Owned
    <3>2. \A u \in AuditSessions : sessionLogs'[u] = l => u = s
      <4>1. ASSUME NEW u \in AuditSessions, sessionLogs'[u] = l PROVE u = s
        <5>1. u # sid[t] /\ l # 0
          BY <2>1, <2>3, <4>1
        <5>2. sessionLogs[u] = l
          BY <2>3, <4>1, <5>1 DEF None
        <5>. QED BY <2>7, <5>2 DEF Owned
      <4>. QED BY <4>1
    <3>. QED BY <1>0, <2>7, <3>1, <3>2 DEF Owned
  <2>8. Owned(new, sid[t])'
    <3>1. \A r \in recorded : r[2] # new
      BY <2>1 DEF AuditShape
    <3>2. \A u \in Holding' : arc'[u] = new => u = t
      BY <2>1, <2>2
    <3>3. \A u \in AuditSessions : sessionLogs'[u] = new => u = sid[t]
      <4>1. ASSUME NEW u \in AuditSessions, u # sid[t] PROVE sessionLogs'[u] # new
        <5>1. sessionLogs'[u] \in {0, sessionLogs[u]}
          BY <2>3, <4>1 DEF None
        <5>2. sessionLogs[u] \in Nat /\ sessionLogs[u] <= Len(logs)
          BY DEF AuditShape
        <5>. QED BY <2>1, <2>n, <5>1, <5>2
      <4>. QED BY <4>1
    <3>. QED BY <1>0, <3>1, <3>2, <3>3 DEF Owned
  <2>9. Owners'
    <3>1. \A s \in RegisteredLogs' : Owned(sessionLogs[s], s)'
      <4>1. ASSUME NEW s \in RegisteredLogs', s # sid[t] PROVE Owned(sessionLogs[s], s)'
        <5>1. s \in RegisteredLogs /\ sessionLogs'[s] = sessionLogs[s] /\ sessionLogs[s] \in 1..Len(logs)
          BY <2>3, <2>4, <4>1 DEF RegisteredLogs, AuditShape, None
        <5>2. Owned(sessionLogs[s], s)
          BY <5>1 DEF Owners
        <5>3. PICK l \in 1..Len(logs) : l = sessionLogs[s]
          BY <5>1
        <5>4. Owned(l, s)'
          BY <2>7, <5>2, <5>3
        <5>. QED BY <5>1, <5>3, <5>4 DEF Owned
      <4>. QED BY <1>0, <2>3, <2>8, <4>1 DEF Owned
    <3>2. \A u \in Holding' : Owned(arc[u], sid[u])'
      <4>1. ASSUME NEW u \in Holding PROVE Owned(arc[u], sid[u])'
        <5>1. PICK l \in 1..Len(logs), s \in {sid[u]} : l = arc[u] /\ Owned(l, s)
          BY <2>2 DEF Owners
        <5>2. Owned(l, s)' /\ l = arc'[u] /\ s = sid'[u]
          BY <1>0, <2>2, <2>7, <5>1
        <5>. QED BY <5>2 DEF Owned
      <4>. QED BY <1>0, <2>2, <2>8, <4>1 DEF Owned
    <3>3. \A r \in recorded : r[2] \in 1..Len(logs)
      BY DEF AuditShape
    <3>. QED BY <1>0, <2>7, <3>1, <3>2, <3>3 DEF Owners
  <2>10. NotOrphaned'
    <3>1. ASSUME NEW s \in AuditSessions, NEW l \in 1..Len(logs), sessionLogs[s] = l \/ l \in dropped
          PROVE  sessionLogs'[s] = l \/ l \in dropped'
      BY <1>2, <2>0, <2>3, <3>1 DEF None
    <3>2. \A u \in Holding' : sessionLogs'[sid'[u]] = arc'[u] \/ arc'[u] \in dropped'
      BY <1>0, <2>2, <2>3, <3>1 DEF NotOrphaned, AuditShape, Holding
    <3>3. \A r \in recorded : r[1] \in AuditSessions /\ r[2] \in 1..Len(logs)
      BY DEF AuditShape
    <3>. QED BY <1>0, <3>1, <3>2, <3>3 DEF NotOrphaned, NoOrphanEntry
  <2>11. NumbersUnique'
    <3>1. \A l \in 1..Len(logs') : \A n \in Range(logs'[l]) : \E r \in recorded : r[2] = l /\ r[3] = n
      <4>1. Range(<<>>) = {}
        BY DEF Range
      <4>2. ASSUME NEW l \in 1..Len(logs'), NEW n \in Range(logs'[l]) PROVE \E r \in recorded : r[2] = l /\ r[3] = n
        <5>1. l \in 1..Len(logs) /\ logs'[l] = logs[l]
          BY <2>1, <4>1, <4>2
        <5>. QED BY <4>2, <5>1 DEF NumbersUnique
      <4>. QED BY <4>2
    <3>2. \A u \in Threads : pc'[u] = "push" => pc[u] = "push"
      BY <1>0 DEF AuditShape
    <3>3. UNCHANGED <<audit_seq, seq, recorded>>
      BY <1>0
    <3>4. /\ \A r \in recorded : r[3] < audit_seq
          /\ \A u \in Threads : pc'[u] = "push" => seq[u] < audit_seq /\ \A r \in recorded : r[3] # seq[u]
      BY <3>2 DEF NumbersUnique
    <3>5. \A u, v \in Threads : (pc'[u] = "push" /\ pc'[v] = "push" /\ seq[u] = seq[v]) => u = v
      BY <3>2 DEF NumbersUnique
    <3>. QED BY <3>1, <3>3, <3>4, <3>5 DEF NumbersUnique
  <2>12. LogsStay
    <3>1. \A r \in recorded : r[2] \in 1..Len(logs)
      BY DEF AuditShape
    <3>2. Len(logs) <= Len(logs') /\ recorded' = recorded
      BY <1>0, <2>1, <2>n
    <3>3. \A r \in recorded : logs'[r[2]] = logs[r[2]]
      BY <2>1, <3>1
    <3>. QED BY <2>7, <3>2, <3>3 DEF LogsStay
  <2>. QED BY <2>5, <2>6, <2>9, <2>10, <2>11, <2>12
<1>. QED BY <1>1, <1>2

LEMMA DrawKeeps == ASSUME AuditInv, NEW t \in Threads, DrawNumber(t) PROVE AuditInv' /\ LogsStay
<1> USE DEF AuditInv
<1>1. /\ pc[t] = "number" /\ pc' = [pc EXCEPT ![t] = "push"] /\ audit_seq' = audit_seq + 1
      /\ seq' = [seq EXCEPT ![t] = audit_seq]
      /\ UNCHANGED <<sessionLogs, logs, sid, arc, recorded, dropped>>
  BY DEF DrawNumber
<1>2. Holding' = Holding /\ RegisteredLogs' = RegisteredLogs
  BY <1>1 DEF Holding, RegisteredLogs, AuditShape
<1>3. AuditShape'
  BY <1>1, <1>2 DEF AuditShape, Holding
<1>4. Owners' /\ NotOrphaned' /\ RegistryBounded'
  BY <1>1, <1>2 DEF Owners, Owned, NotOrphaned, NoOrphanEntry, RegistryBounded
<1>5. NumbersUnique'
  <2>1. \A u \in Threads : /\ u # t => pc'[u] = pc[u] /\ seq'[u] = seq[u]
                           /\ seq'[t] = audit_seq /\ seq[u] \in Nat
    BY <1>1 DEF AuditShape
  <2>2. audit_seq \in Nat /\ \A r \in recorded : r[3] \in Nat
    BY DEF AuditShape
  <2>. QED BY <1>1, <2>1, <2>2 DEF NumbersUnique
<1>6. LogsStay
  BY <1>1, <1>2 DEF LogsStay, Owned, AuditShape
<1>. QED BY <1>3, <1>4, <1>5, <1>6

LEMMA PushKeeps == ASSUME AuditInv, NEW t \in Threads, Push(t) PROVE AuditInv' /\ LogsStay
<1> USE DEF AuditInv
<1>1. /\ pc[t] = "push" /\ pc' = [pc EXCEPT ![t] = "idle"]
      /\ logs' = [logs EXCEPT ![arc[t]] = NewestEntries(Append(logs[arc[t]], seq[t]))]
      /\ recorded' = recorded \cup {<<sid[t], arc[t], seq[t]>>}
      /\ UNCHANGED <<sessionLogs, audit_seq, sid, arc, seq, dropped>>
  BY DEF Push
<1>2. /\ t \in Holding /\ arc[t] \in 1..Len(logs) /\ sid[t] \in AuditSessions /\ seq[t] \in Nat
      /\ Holding' = Holding \ {t} /\ RegisteredLogs' = RegisteredLogs
  BY <1>1 DEF Holding, RegisteredLogs, AuditShape
<1>3. /\ logs' \in Seq(Seq(Nat)) /\ Len(logs') = Len(logs) /\ Len(logs) \in Nat
      /\ \A l \in 1..Len(logs) : l # arc[t] => logs'[l] = logs[l]
      /\ Range(logs'[arc[t]]) \subseteq Range(logs[arc[t]]) \cup {seq[t]}
  <2> DEFINE new == NewestEntries(Append(logs[arc[t]], seq[t]))
  <2>1. logs[arc[t]] \in Seq(Nat) /\ logs \in Seq(Seq(Nat))
    BY <1>2 DEF AuditShape
  <2>2. new \in Seq(Nat) /\ Range(new) \subseteq Range(logs[arc[t]]) \cup {seq[t]}
    BY <1>2, <2>1, NewestRange
  <2>3. logs' = [logs EXCEPT ![arc[t]] = new]
    BY <1>1
  <2> HIDE DEF new
  <2>. QED BY <1>2, <2>1, <2>2, <2>3
<1>4. AuditShape'
  BY <1>1, <1>2, <1>3 DEF AuditShape
<1>5. ASSUME NEW l, NEW s, Owned(l, s) PROVE Owned(l, s)'
  <2>1. arc[t] = l => sid[t] = s
    BY <1>2, <1>5 DEF Owned
  <2>. QED BY <1>1, <1>2, <1>5, <2>1 DEF Owned
<1>6. Owners'
  BY <1>1, <1>2, <1>5 DEF Owners
<1>7. NotOrphaned' /\ RegistryBounded'
  BY <1>1, <1>2 DEF NotOrphaned, NoOrphanEntry, RegistryBounded
<1>8. NumbersUnique'
  <2>1. \A l \in 1..Len(logs') : \A n \in Range(logs'[l]) : \E r \in recorded' : r[2] = l /\ r[3] = n
    <3>1. ASSUME NEW l \in 1..Len(logs), NEW n \in Range(logs'[l]) PROVE \E r \in recorded' : r[2] = l /\ r[3] = n
      <4>1. CASE n \in Range(logs[l])
        BY <1>1, <3>1, <4>1 DEF NumbersUnique
      <4>2. CASE n \notin Range(logs[l])
        <5>1. l = arc[t] /\ n = seq[t]
          BY <1>3, <3>1, <4>2
        <5>2. <<sid[t], arc[t], seq[t]>> \in recorded'
          BY <1>1
        <5>. QED BY <5>1, <5>2
      <4>. QED BY <4>1, <4>2
    <3>. QED BY <1>3, <3>1
  <2>2. \A u \in Threads : pc'[u] = "push" => pc[u] = "push" /\ u # t
    BY <1>1 DEF AuditShape
  <2>3. \A r \in recorded' : r[3] < audit_seq
    BY <1>1 DEF NumbersUnique
  <2>4. ASSUME NEW u \in Threads, pc'[u] = "push" PROVE \A r \in recorded' : r[3] # seq[u]
    BY <1>1, <2>2, <2>4 DEF NumbersUnique
  <2>. QED BY <1>1, <2>1, <2>2, <2>3, <2>4 DEF NumbersUnique
<1>9. LogsStay
  <2>1. ASSUME NEW r \in recorded, r[3] \notin Range(logs[r[2]]) PROVE r[3] \notin Range(logs'[r[2]])
    <3>1. r[2] \in 1..Len(logs) /\ r[3] # seq[t]
      BY <1>1 DEF AuditShape, NumbersUnique
    <3>. QED BY <1>3, <2>1, <3>1
  <2>. QED BY <1>1, <1>3, <1>5, <2>1 DEF LogsStay
<1>. QED BY <1>4, <1>6, <1>7, <1>8, <1>9

LEMMA RemoveKeeps == ASSUME AuditInv, NEW s \in AuditSessions, RemoveSession(s) PROVE AuditInv' /\ LogsStay
<1> USE DEF AuditInv
<1>1. /\ sessionLogs' = [sessionLogs EXCEPT ![s] = None] /\ dropped' = dropped \cup {sessionLogs[s]}
      /\ UNCHANGED <<logs, audit_seq, pc, sid, arc, seq, recorded>>
  BY DEF RemoveSession, threadVars
<1>2. /\ Holding' = Holding /\ RegisteredLogs' \subseteq RegisteredLogs
      /\ \A u \in AuditSessions : sessionLogs'[u] = IF u = s THEN 0 ELSE sessionLogs[u]
  BY <1>1 DEF Holding, RegisteredLogs, AuditShape, None
<1>3. AuditShape'
  <2>1. sessionLogs' \in [AuditSessions -> Nat]
    BY <1>1 DEF AuditShape, None
  <2>2. \A u \in AuditSessions : sessionLogs'[u] <= Len(logs)
    BY <1>2 DEF AuditShape
  <2>. QED BY <1>1, <1>2, <2>1, <2>2 DEF AuditShape
<1>4. Owners'
  <2>1. ASSUME NEW l \in 1..Len(logs), NEW u, Owned(l, u) PROVE Owned(l, u)'
    BY <1>1, <1>2, <2>1 DEF Owned
  <2>2. \A u \in RegisteredLogs' : sessionLogs'[u] = sessionLogs[u] /\ sessionLogs[u] \in 1..Len(logs)
    BY <1>2 DEF RegisteredLogs, AuditShape, None
  <2>. QED BY <1>1, <1>2, <2>1, <2>2 DEF Owners, AuditShape
<1>5. NotOrphaned'
  BY <1>1, <1>2 DEF NotOrphaned, NoOrphanEntry, AuditShape
<1>6. RegistryBounded'
  <2>1. IsFiniteSet(RegisteredLogs)
    BY AuditAssumption, FS_Subset DEF RegisteredLogs
  <2>2. Cardinality(RegisteredLogs') <= Cardinality(RegisteredLogs)
    BY <1>2, <2>1, FS_Subset
  <2>. QED BY <2>1, <2>2, <1>2, FS_Subset, FS_CardinalityType, AuditAssumption DEF RegistryBounded
<1>7. NumbersUnique'
  BY <1>1 DEF NumbersUnique
<1>8. LogsStay
  <2>1. ASSUME NEW l \in 1..Len(logs), NEW u, Owned(l, u) PROVE Owned(l, u)'
    BY <1>1, <1>2, <2>1 DEF Owned
  <2>. QED BY <1>1, <2>1 DEF LogsStay, AuditShape
<1>. QED BY <1>3, <1>4, <1>5, <1>6, <1>7, <1>8

LEMMA AuditStep == AuditInv /\ [AuditNext]_auditVars => AuditInv' /\ LogsStay
<1> SUFFICES ASSUME AuditInv, [AuditNext]_auditVars PROVE AuditInv' /\ LogsStay
  OBVIOUS
<1>1. ASSUME NEW f \in Flushers,
             \/ FlushAll(f) \/ \E s \in AuditSessions : FlushSession(f, s)
             \/ Export(f) \/ WriteFile(f) \/ WriteFails(f) \/ Count(f)
      PROVE  AuditInv' /\ LogsStay
  BY <1>1, AuditQuiet DEF FlushAll, FlushSession, Export, WriteFile, WriteFails, Count, threadVars
<1>2. CASE Exporting
  BY <1>2, AuditQuiet DEF Exporting, ExportSession, ExportLog, AggregateAll, AggregateLog, AggregateSort, Summarise,
     SummaryGet, SummaryLen, SummarySessions, SummaryEntries, StartExport, exportLeaves, threadVars
<1>3. CASE UNCHANGED auditVars
  BY <1>3, AuditQuiet DEF auditVars, threadVars
<1>. QED BY <1>1, <1>2, <1>3, RecordKeeps, LookupKeeps, InsertKeeps, DrawKeeps, PushKeeps, RemoveKeeps DEF AuditNext

\* Through every race of get_or_create with itself, with evictions and with removals,
\* for any number of threads and sessions: the registry keeps its limit, an entry is
\* in the log its session is registered with unless that log was dropped, and no two
\* sessions ever share a log.
THEOREM RegistryHolds == AuditSpec => [](RegistryBounded /\ NoOrphanEntry /\ LogsIsolated)
<1>1. AuditInv => RegistryBounded /\ NoOrphanEntry /\ LogsIsolated
  BY DEF AuditInv, NotOrphaned, Owners, Owned, LogsIsolated, RegisteredLogs
<1>. QED BY <1>1, AuditInitInv, AuditStep, PTL DEF AuditSpec

-----------------------------------------------------------------------------
(* A flush.  What was due when it began was trimmed, or is still in a log on    *)
(* the list, or is in a file that this flush has written and will not again.    *)

FlushRecords ==
    [at : {"idle", "export", "write", "count"}, lock : BOOLEAN, todo : SUBSET (AuditSessions \X Nat),
     cur : (AuditSessions \X Nat) \cup {<<>>}, json : Seq(Nat), total : Nat, written : Nat,
     due : SUBSET (AuditSessions \X Nat), ok : BOOLEAN]

\* The logs on the list of a flush.
TodoKnown(w) ==
    /\ \A p \in w.todo : p[2] \in 1..Len(logs) /\ Owned(p[2], p[1])
    /\ \A p, q \in w.todo : p[1] = q[1] => p = q
    /\ w.at \in {"write", "count"} => w.cur \in w.todo

DueAccounted(w) ==
    \A e \in w.due :
      \/ Trimmed(e[1], e[2])
      \/ /\ \E p \in w.todo : p[1] = e[1] /\ e[2] \in Range(logs[p[2]])
         /\ (w.at = "write" /\ e[1] = w.cur[1]) => e[2] \in Range(w.json)
         /\ (w.at = "count" /\ e[1] = w.cur[1]) => e[2] \in Range(disk[e[1]])
      \/ (\A p \in w.todo : p[1] # e[1]) /\ e[2] \in Range(disk[e[1]])

FlushInv ==
    /\ flush \in [Flushers -> FlushRecords] /\ disk \in [AuditSessions -> Seq(Nat)]
    /\ \A f \in Flushers : flush[f].at # "idle" =>
         ~flush[f].ok /\ TodoKnown(flush[f]) /\ DueAccounted(flush[f])


LEMMA IdleRecord == IdleFlusher \in FlushRecords /\ IdleFlusher.at = "idle" /\ ~IdleFlusher.ok
BY DEF IdleFlusher, FlushRecords

LEMMA EntriesType ==
    ASSUME AuditInv, NEW ss \in SUBSET AuditSessions PROVE Entries(ss) \in SUBSET (AuditSessions \X Nat)
BY DEF Entries, AuditInv, AuditShape

LEMMA FlushInit == AuditInit => FlushInv
<1> SUFFICES ASSUME AuditInit PROVE FlushInv
  OBVIOUS
<1>. QED BY IdleRecord DEF AuditInit, FlushInv

\* Steps of the others: an entry that is trimmed while a flush is under way was
\* recorded for the owner of the log.
LEMMA FlushLeft ==
    ASSUME AuditInv, AuditInv', LogsStay, FlushInv, UNCHANGED <<flush, disk>> PROVE FlushInv'
<1>1. \A s, n : Trimmed(s, n) => Trimmed(s, n)'
  BY DEF Trimmed, LogsStay
<1>2. ASSUME NEW l \in 1..Len(logs), NEW s, Owned(l, s), NEW n \in Range(logs[l])
      PROVE  n \in Range(logs'[l]) \/ Trimmed(s, n)'
  <2>1. PICK r \in recorded : r[2] = l /\ r[3] = n
    BY <1>2 DEF AuditInv, NumbersUnique
  <2>2. r[1] = s /\ r \in recorded'
    BY <1>2, <2>1 DEF Owned, LogsStay
  <2>. QED BY <2>1, <2>2 DEF Trimmed
<1>3. ASSUME NEW f \in Flushers, flush[f].at # "idle"
      PROVE  ~flush[f].ok /\ TodoKnown(flush[f])' /\ DueAccounted(flush[f])'
  <2>1. ~flush[f].ok /\ TodoKnown(flush[f]) /\ DueAccounted(flush[f])
    BY <1>3 DEF FlushInv
  <2>2. \A l \in 1..Len(logs) : l \in 1..Len(logs')
    BY DEF LogsStay, AuditInv, AuditShape
  <2>3. TodoKnown(flush[f])'
    <3>1. ASSUME NEW p \in flush[f].todo PROVE p[2] \in 1..Len(logs') /\ Owned(p[2], p[1])'
      BY <2>1, <2>2, <3>1 DEF TodoKnown, LogsStay
    <3>. QED BY <2>1, <3>1 DEF TodoKnown
  <2>4. DueAccounted(flush[f])'
    <3> SUFFICES ASSUME NEW e \in flush[f].due, ~Trimmed(e[1], e[2])'
                 PROVE  \/ /\ \E p \in flush[f].todo : p[1] = e[1] /\ e[2] \in Range(logs'[p[2]])
                           /\ (flush[f].at = "write" /\ e[1] = flush[f].cur[1]) => e[2] \in Range(flush[f].json)
                           /\ (flush[f].at = "count" /\ e[1] = flush[f].cur[1]) => e[2] \in Range(disk[e[1]])
                        \/ (\A p \in flush[f].todo : p[1] # e[1]) /\ e[2] \in Range(disk[e[1]])
      BY DEF DueAccounted
    <3>1. ~Trimmed(e[1], e[2])
      BY <1>1
    <3>2. ASSUME NEW p \in flush[f].todo, p[1] = e[1], e[2] \in Range(logs[p[2]]) PROVE e[2] \in Range(logs'[p[2]])
      BY <1>2, <2>1, <3>2 DEF TodoKnown
    <3>. QED BY <2>1, <3>1, <3>2 DEF DueAccounted
  <2>. QED BY <2>1, <2>3, <2>4
<1>. QED BY <1>3 DEF FlushInv

\* A flush is at its next step.
LEMMA FlushMoved ==
    ASSUME FlushInv, NEW f \in Flushers, NEW w \in FlushRecords, flush' = [flush EXCEPT ![f] = w],
           disk' \in [AuditSessions -> Seq(Nat)],
           w.at # "idle" => ~w.ok /\ TodoKnown(w)' /\ DueAccounted(w)',
           \A g \in Flushers \ {f} : flush[g].at # "idle" =>
             \A u \in FlushRecords : u = flush[g] => ~u.ok /\ TodoKnown(u)' /\ DueAccounted(u)'
    PROVE  FlushInv'
<1>1. flush' \in [Flushers -> FlushRecords]
  BY DEF FlushInv
<1>2. ASSUME NEW g \in Flushers, flush'[g].at # "idle"
      PROVE  ~flush'[g].ok /\ TodoKnown(flush[g])' /\ DueAccounted(flush[g])'
  <2>1. PICK u \in FlushRecords : u = flush'[g]
    BY <1>1
  <2>2. ~u.ok /\ TodoKnown(u)' /\ DueAccounted(u)'
    BY <1>2, <2>1 DEF FlushInv
  <2>. QED BY <2>1, <2>2 DEF TodoKnown, DueAccounted
<1>. QED BY <1>1, <1>2 DEF FlushInv

\* A flush begins with the entries of the logs on its list.
LEMMA FlushBegins ==
    ASSUME AuditInv, FlushInv, NEW f \in Flushers, NEW ss \in SUBSET RegisteredLogs, NEW w \in FlushRecords,
           w.at \in {"idle", "export"}, w.todo = {<<s, sessionLogs[s]>> : s \in ss}, w.due = Entries(ss),
           w.at # "idle" => ~w.ok, flush' = [flush EXCEPT ![f] = w],
           UNCHANGED <<sessionLogs, logs, audit_seq, pc, sid, arc, seq, recorded, disk>>
    PROVE  FlushInv'
<1>1. \A s \in ss : sessionLogs[s] \in 1..Len(logs) /\ Owned(sessionLogs[s], s)
  BY DEF RegisteredLogs, AuditInv, AuditShape, Owners, None
<1>2. TodoKnown(w)'
  <2>1. \A p \in w.todo : \E s \in ss : p = <<s, sessionLogs[s]>>
    OBVIOUS
  <2>2. \A p \in w.todo : p[2] \in 1..Len(logs) /\ Owned(p[2], p[1])
    BY <1>1, <2>1
  <2>3. w.at \notin {"write", "count"} /\ \A p, q \in w.todo : p[1] = q[1] => p = q
    BY <2>1
  <2>. QED BY <2>2, <2>3 DEF TodoKnown, Owned, Holding
<1>3. DueAccounted(w)'
  <2>1. ASSUME NEW e \in w.due PROVE \E p \in w.todo : p[1] = e[1] /\ e[2] \in Range(logs[p[2]])
    <3>1. e[1] \in ss /\ e[2] \in Range(logs[sessionLogs[e[1]]])
      BY <2>1 DEF Entries
    <3>2. <<e[1], sessionLogs[e[1]]>> \in w.todo
      BY <3>1
    <3>. QED BY <3>1, <3>2
  <2>2. w.at \notin {"write", "count"}
    OBVIOUS
  <2>. QED BY <2>1, <2>2 DEF DueAccounted
<1>4. ASSUME NEW g \in Flushers \ {f}, flush[g].at # "idle", NEW u \in FlushRecords, u = flush[g]
      PROVE  ~u.ok /\ TodoKnown(u)' /\ DueAccounted(u)'
  <2>1. ~u.ok /\ TodoKnown(u) /\ DueAccounted(u)
    BY <1>4 DEF FlushInv
  <2>2. TodoKnown(u)'
    BY <2>1 DEF TodoKnown, Owned, Holding
  <2>3. DueAccounted(u)'
    BY <2>1 DEF DueAccounted, Trimmed
  <2>. QED BY <2>1, <2>2, <2>3
<1>. QED BY <1>2, <1>3, <1>4, FlushMoved DEF FlushInv

LEMMA FlushNextKeeps ==
    ASSUME AuditInv, FlushInv, NEW f \in Flushers, \A g \in Flushers : g = f,
           Export(f) \/ WriteFile(f) \/ WriteFails(f) \/ Count(f)
    PROVE  FlushInv'
<1>0. /\ flush[f].at # "idle" /\ flush[f] \in FlushRecords /\ ~flush[f].ok
      /\ TodoKnown(flush[f]) /\ DueAccounted(flush[f])
      /\ UNCHANGED <<sessionLogs, logs, audit_seq, pc, sid, arc, seq, recorded>>
  BY DEF FlushInv, Export, WriteFile, WriteFails, Count, threadVars
<1>1. CASE Export(f)
  <2>1. PICK p \in flush[f].todo : flush' = [flush EXCEPT ![f].at = "write", ![f].cur = p, ![f].json = logs[p[2]]]
    BY <1>1 DEF Export
  <2>2. PICK w \in FlushRecords : w = [flush[f] EXCEPT !.at = "write", !.cur = p, !.json = logs[p[2]]]
    <3>1. p \in AuditSessions \X Nat /\ logs[p[2]] \in Seq(Nat)
      BY <1>0 DEF FlushRecords, TodoKnown, AuditInv, AuditShape
    <3>. QED BY <1>0, <3>1 DEF FlushRecords
  <2>3. flush' = [flush EXCEPT ![f] = w] /\ disk' = disk
    BY <1>1, <2>1, <2>2 DEF Export, FlushInv
  <2>4. /\ w.at = "write" /\ w.cur = p /\ w.json = logs[p[2]] /\ ~w.ok
        /\ w.todo = flush[f].todo /\ w.due = flush[f].due
    BY <1>0, <2>2 DEF FlushRecords
  <2>5. TodoKnown(w)'
    BY <1>0, <2>4 DEF TodoKnown, Owned, Holding
  <2>6. DueAccounted(w)'
    <3>1. \A q \in flush[f].todo : q[1] = p[1] => q = p
      BY <1>0 DEF TodoKnown
    <3>. QED BY <1>0, <2>3, <2>4, <3>1 DEF DueAccounted, Trimmed
  <2>. QED BY <2>3, <2>4, <2>5, <2>6, FlushMoved DEF FlushInv
<1>2. CASE WriteFile(f)
  <2> DEFINE c == flush[f].cur
  <2>1. /\ flush[f].at = "write" /\ disk' = [disk EXCEPT ![c[1]] = flush[f].json]
        /\ flush' = [flush EXCEPT ![f].at = "count", ![f].written = @ + Len(flush[f].json)]
    BY <1>2 DEF WriteFile
  <2>2. PICK w \in FlushRecords : w = [flush[f] EXCEPT !.at = "count", !.written = @ + Len(flush[f].json)]
    <3>1. flush[f].written + Len(flush[f].json) \in Nat
      BY <1>0 DEF FlushRecords
    <3>. QED BY <1>0, <3>1 DEF FlushRecords
  <2>3. flush' = [flush EXCEPT ![f] = w]
    BY <2>1, <2>2 DEF FlushInv
  <2>4. w.at = "count" /\ w.cur = c /\ ~w.ok /\ w.todo = flush[f].todo /\ w.due = flush[f].due
    BY <1>0, <2>2 DEF FlushRecords
  <2>5. /\ c \in flush[f].todo /\ c[1] \in AuditSessions /\ flush[f].json \in Seq(Nat)
        /\ \A e \in flush[f].due : e[1] \in AuditSessions
    BY <1>0, <2>1 DEF TodoKnown, FlushRecords
  <2>6. /\ disk' \in [AuditSessions -> Seq(Nat)] /\ disk'[c[1]] = flush[f].json
        /\ \A s \in AuditSessions : s # c[1] => disk'[s] = disk[s]
    <3> HIDE DEF c
    <3>. QED BY <2>1, <2>5 DEF FlushInv
  <2>7. TodoKnown(w)'
    BY <1>0, <2>4, <2>5 DEF TodoKnown, Owned, Holding
  <2>8. DueAccounted(w)'
    BY <1>0, <2>1, <2>4, <2>5, <2>6 DEF DueAccounted, Trimmed
  <2>. QED BY <2>3, <2>4, <2>6, <2>7, <2>8, FlushMoved DEF FlushInv
<1>3. CASE WriteFails(f)
  <2>2. flush' = [flush EXCEPT ![f] = IdleFlusher] /\ disk' = disk
    BY <1>3 DEF WriteFails
  <2>. QED BY <2>2, IdleRecord, FlushMoved DEF FlushInv
<1>4. CASE Count(f)
  <2> DEFINE c == flush[f].cur
             rest == flush[f].todo \ {c}
             done == rest = {}
             held == flush[f].lock /\ ~done
             total == flush[f].total + Counted(f)
             new == [flush[f] EXCEPT !.at = IF done THEN "idle" ELSE "export", !.lock = held,
                                     !.todo = rest, !.ok = done, !.total = total]
  <2>1. flush[f].at = "count" /\ flush' = [flush EXCEPT ![f] = new] /\ disk' = disk
    BY <1>4 DEF Count, FlushInv
  <2>2. done \in BOOLEAN /\ held \in BOOLEAN
    OBVIOUS
  <2>3. c \in flush[f].todo /\ c[2] \in 1..Len(logs) /\ rest \in SUBSET (AuditSessions \X Nat)
    BY <1>0, <2>1 DEF TodoKnown, FlushRecords
  <2>4. total \in Nat
    <3>1. flush[f].json \in Seq(Nat) /\ logs[c[2]] \in Seq(Nat) /\ flush[f].total \in Nat
      BY <1>0, <2>3 DEF FlushRecords, AuditInv, AuditShape
    <3>2. Counted(f) \in Nat
      BY <3>1 DEF Counted
    <3>. QED BY <3>1, <3>2
  <2>5. /\ new \in FlushRecords /\ new.at = (IF done THEN "idle" ELSE "export") /\ new.todo = rest
        /\ new.ok = done /\ new.due = flush[f].due
    <3> HIDE DEF total, rest, done, held
    <3>. QED BY <1>0, <2>2, <2>3, <2>4 DEF FlushRecords
  <2> HIDE DEF new
  <2>6. PICK w \in FlushRecords : w = new
    BY <2>5
  <2>7. TodoKnown(w)'
    BY <1>0, <2>5, <2>6 DEF TodoKnown, Owned, Holding
  <2>8. DueAccounted(w)'
    <3>1. ASSUME NEW e \in flush[f].due, ~Trimmed(e[1], e[2])
          PROVE  \/ \E p \in rest : p[1] = e[1] /\ e[2] \in Range(logs[p[2]])
                 \/ (\A p \in rest : p[1] # e[1]) /\ e[2] \in Range(disk[e[1]])
      BY <1>0, <2>1, <2>3, <3>1 DEF DueAccounted, TodoKnown
    <3>. QED BY <1>0, <2>1, <2>5, <2>6, <3>1 DEF DueAccounted, Trimmed
  <2>9. w.at # "idle" => ~w.ok
    BY <2>5, <2>6
  <2>. QED BY <2>1, <2>6, <2>7, <2>8, <2>9, FlushMoved DEF FlushInv
<1>. QED BY <1>1, <1>2, <1>3, <1>4

LEMMA FlushStep ==
    ASSUME \A f, g \in Flushers : f = g, AuditInv, FlushInv, [AuditNext]_auditVars PROVE FlushInv'
<1>0. AuditInv' /\ LogsStay
  BY AuditStep
<1>1. CASE UNCHANGED <<flush, disk>>
  BY <1>0, <1>1, FlushLeft
<1>2. ASSUME NEW f \in Flushers, FlushAll(f) PROVE FlushInv'
  <2> DEFINE none == RegisteredLogs = {}
             some == RegisteredLogs # {}
             todo == {<<s, sessionLogs[s]>> : s \in RegisteredLogs}
             new == [IdleFlusher EXCEPT !.at = IF none THEN "idle" ELSE "export", !.lock = some, !.todo = todo,
                                        !.due = Entries(RegisteredLogs), !.ok = none]
  <2>1. none \in BOOLEAN /\ some \in BOOLEAN
    OBVIOUS
  <2>2. todo \in SUBSET (AuditSessions \X Nat) /\ Entries(RegisteredLogs) \in SUBSET (AuditSessions \X Nat)
    <3>1. RegisteredLogs \subseteq AuditSessions
      BY DEF RegisteredLogs
    <3>2. Entries(RegisteredLogs) \in SUBSET (AuditSessions \X Nat)
      BY <3>1, EntriesType
    <3>. QED BY <3>1, <3>2 DEF AuditInv, AuditShape
  <2>3. flush' = [flush EXCEPT ![f] = new]
    BY <1>2 DEF FlushAll
  <2>4. /\ new \in FlushRecords /\ new.at = (IF none THEN "idle" ELSE "export") /\ new.todo = todo
        /\ new.due = Entries(RegisteredLogs) /\ new.ok = none
    <3> HIDE DEF none, some, todo
    <3>. QED BY <2>1, <2>2, IdleRecord DEF FlushRecords
  <2> HIDE DEF new
  <2>5. UNCHANGED <<sessionLogs, logs, audit_seq, pc, sid, arc, seq, recorded, disk>>
    BY <1>2 DEF FlushAll, threadVars
  <2>. QED BY <2>3, <2>4, <2>5, FlushBegins
<1>3. ASSUME NEW f \in Flushers, NEW s \in AuditSessions, FlushSession(f, s) PROVE FlushInv'
  <2>1. {s} \in SUBSET RegisteredLogs /\ {s} # {}
    BY <1>3 DEF FlushSession, RegisteredLogs
  <2> DEFINE todo == {<<s, sessionLogs[s]>>}
             new == [IdleFlusher EXCEPT !.at = "export", !.todo = todo, !.due = Entries({s})]
  <2>2. todo \in SUBSET (AuditSessions \X Nat) /\ Entries({s}) \in SUBSET (AuditSessions \X Nat)
    BY EntriesType DEF AuditInv, AuditShape
  <2>3. flush' = [flush EXCEPT ![f] = new]
    BY <1>3 DEF FlushSession
  <2>4. /\ new \in FlushRecords /\ new.at = "export" /\ new.todo = todo /\ new.due = Entries({s}) /\ ~new.ok
    <3> HIDE DEF todo
    <3>. QED BY <2>2, IdleRecord DEF FlushRecords
  <2> HIDE DEF new
  <2>5. UNCHANGED <<sessionLogs, logs, audit_seq, pc, sid, arc, seq, recorded, disk>>
    BY <1>3 DEF FlushSession, threadVars
  <2>6. todo = {<<u, sessionLogs[u]>> : u \in {s}}
    OBVIOUS
  <2>. QED BY <2>1, <2>3, <2>4, <2>5, <2>6, FlushBegins
<1>4. ASSUME NEW f \in Flushers, Export(f) \/ WriteFile(f) \/ WriteFails(f) \/ Count(f) PROVE FlushInv'
  BY <1>4, FlushNextKeeps
<1>5. CASE Exporting
  BY <1>1, <1>5 DEF Exporting, ExportSession, ExportLog, AggregateAll, AggregateLog, AggregateSort, Summarise,
     SummaryGet, SummaryLen, SummarySessions, SummaryEntries, StartExport, exportLeaves
<1>6. ASSUME NEW t \in Threads,
             \/ \E s \in AuditSessions : RecordToolCall(t, s)
             \/ Lookup(t) \/ Insert(t) \/ DrawNumber(t) \/ Push(t)
      PROVE  FlushInv'
  BY <1>1, <1>6 DEF RecordToolCall, Lookup, Insert, DrawNumber, Push
<1>7. ASSUME NEW s \in AuditSessions, RemoveSession(s) PROVE FlushInv'
  BY <1>1, <1>7 DEF RemoveSession
<1>8. CASE UNCHANGED auditVars
  BY <1>1, <1>8 DEF auditVars
<1>. QED BY <1>2, <1>3, <1>4, <1>5, <1>6, <1>7, <1>8 DEF AuditNext

\* What a successful count says, about the state it is made in.
LEMMA FlushDone ==
    ASSUME FlushInv, [AuditNext]_auditVars, NEW f \in Flushers, flush[f].at = "count", flush'[f].ok
    PROVE  \A e \in flush[f].due : e[2] \in Range(disk'[e[1]]) \/ Trimmed(e[1], e[2])
<1>1. ~flush[f].ok /\ TodoKnown(flush[f]) /\ DueAccounted(flush[f]) /\ flush[f] \in FlushRecords
  BY DEF FlushInv
<1>2. flush' # flush
  BY <1>1
<1>3. Count(f)
  <2>1. ASSUME NEW g \in Flushers, g # f,
               \/ FlushAll(g) \/ \E s \in AuditSessions : FlushSession(g, s)
               \/ Export(g) \/ WriteFile(g) \/ WriteFails(g) \/ Count(g)
        PROVE  flush'[f] = flush[f]
    BY <2>1 DEF FlushInv, FlushAll, FlushSession, Export, WriteFile, WriteFails, Count
  <2>2. ~Exporting
    BY <1>2 DEF Exporting, ExportSession, ExportLog, AggregateAll, AggregateLog, AggregateSort, Summarise,
       SummaryGet, SummaryLen, SummarySessions, SummaryEntries, StartExport, exportLeaves
  <2>3. ASSUME NEW t \in Threads
        PROVE  ~(\/ \E s \in AuditSessions : RecordToolCall(t, s)
                 \/ Lookup(t) \/ Insert(t) \/ DrawNumber(t) \/ Push(t))
    BY <1>2 DEF RecordToolCall, Lookup, Insert, DrawNumber, Push
  <2>4. \A s \in AuditSessions : ~RemoveSession(s)
    BY <1>2 DEF RemoveSession
  <2>5. ~UNCHANGED auditVars
    BY <1>2 DEF auditVars
  <2>6. ~(FlushAll(f) \/ (\E s \in AuditSessions : FlushSession(f, s)) \/ Export(f) \/ WriteFile(f) \/ WriteFails(f))
    BY DEF FlushAll, FlushSession, Export, WriteFile, WriteFails
  <2>. QED BY <1>1, <2>1, <2>2, <2>3, <2>4, <2>5, <2>6 DEF AuditNext
<1>4. disk' = disk /\ flush[f].todo \ {flush[f].cur} = {}
  <2> DEFINE done == flush[f].todo \ {flush[f].cur} = {}
  <2>1. disk' = disk /\ flush'[f].ok = done
    BY <1>1, <1>3 DEF Count, FlushInv, FlushRecords
  <2>. QED BY <2>1
<1>. QED BY <1>1, <1>4 DEF DueAccounted, TodoKnown

\* One flusher, any number of recording threads: when a flush reports success, every
\* entry registered when it began is in the file of its session, unless the ring has
\* dropped it meanwhile.  (Two flushers can overwrite each other's files.)
THEOREM FlushCoversHolds ==
    ASSUME \A f, g \in Flushers : f = g
    PROVE  AuditSpec => FlushCovers
<1>1. AuditInit => AuditInv /\ FlushInv
  BY AuditInitInv, FlushInit
<1>2. AuditInv /\ FlushInv /\ [AuditNext]_auditVars => AuditInv' /\ FlushInv'
  BY AuditStep, FlushStep
<1>3. AuditInv /\ FlushInv /\ [AuditNext]_auditVars =>
        [\A f \in Flushers : (flush[f].at = "count" /\ flush'[f].ok) =>
            \A e \in flush[f].due : e[2] \in Range(disk'[e[1]]) \/ Trimmed(e[1], e[2])]_auditVars
  BY FlushDone
<1>. QED BY <1>1, <1>2, <1>3, PTL DEF AuditSpec, FlushCovers

-----------------------------------------------------------------------------
(* Induction over the numbers, from their well-foundedness.                     *)

\* A set of numbers has a least one.
LEMMA Least ==
    ASSUME NEW T \in SUBSET Nat, T # {}
    PROVE  \E m \in T : \A k \in T : m <= k
<1>1. IsWellFoundedOn(OpToRel(<, Nat), Nat)
  BY NatLessThanWellFounded
<1>2. PICK m \in T : \A k \in T : ~ (<<k, m>> \in OpToRel(<, Nat))
  BY <1>1, WFMin
<1>3. \A k \in T : ~(k < m)
  BY <1>2 DEF OpToRel
<1>. QED BY <1>3

\* A set with 0 and with the successor of each of its numbers has all of them.
LEMMA SetInduction ==
    ASSUME NEW S, 0 \in S, \A n \in Nat : n \in S => n + 1 \in S
    PROVE  \A n \in Nat : n \in S
<1> SUFFICES ASSUME NEW n0 \in Nat, n0 \notin S PROVE FALSE
  OBVIOUS
<1> DEFINE T == {n \in Nat : n \notin S}
<1>1. PICK m \in T : \A k \in T : m <= k
  <2>1. T \in SUBSET Nat /\ T # {}
    OBVIOUS
  <2> HIDE DEF T
  <2>. QED BY <2>1, Least
<1>2. m # 0 /\ m - 1 \in Nat
  BY <1>1
<1>3. m - 1 \in S
  BY <1>1, <1>2
<1>. QED BY <1>1, <1>2, <1>3

-----------------------------------------------------------------------------
(* Sorting.                                                                     *)

\* No number twice; the newest first; and s is a in that order.
Distinct(a) == \A i, j \in DOMAIN a : a[i][2] = a[j][2] => i = j
Falling(s) == \A i, j \in DOMAIN s : i < j => s[i][2] > s[j][2]
Arranges(s, a) == s \in [DOMAIN a -> Range(a)] /\ Range(s) = Range(a) /\ Falling(s)

\* What the next lemma starts from and what it gives: a list with one entry more.
Numbered(X) == \A e \in X : e[2] \in Nat
Extends(X, n, s, x) == \E t \in [1..(n + 1) -> X] : Range(t) = Range(s) \cup {x} /\ Falling(t)
Fresh(s, x) == \A i \in DOMAIN s : s[i][2] # x[2]

\* An entry put where it belongs into a list the newest first.
LEMMA Inserted ==
    ASSUME NEW X, Numbered(X), NEW n \in Nat, NEW s \in [1..n -> X], NEW x \in X, Falling(s), Fresh(s, x)
    PROVE  Extends(X, n, s, x)
<1>0. (\A e \in X : e[2] \in Nat) /\ \A i \in 1..n : s[i][2] # x[2]
  BY DEF Numbered, Fresh
<1> DEFINE T == {i \in 1..n : s[i][2] < x[2]} \cup {n + 1}
<1>1. PICK m \in T : \A k \in T : m <= k
  <2>1. T \in SUBSET Nat /\ T # {}
    OBVIOUS
  <2> HIDE DEF T
  <2>. QED BY <2>1, Least
<1>2. m \in 1..(n + 1) /\ (m \in 1..n => s[m][2] < x[2])
  BY <1>1
<1>3. \A i \in 1..n : i < m => s[i][2] > x[2]
  <2> SUFFICES ASSUME NEW i \in 1..n, i < m PROVE s[i][2] > x[2]
    OBVIOUS
  <2>1. i \notin T
    BY <1>1, <1>2
  <2>2. s[i] \in X /\ s[i][2] \in Nat /\ x[2] \in Nat
    BY <1>0
  <2>. QED BY <2>1, <2>2, <1>0
<1>4. \A i \in 1..n : i >= m => s[i][2] < x[2]
  <2> SUFFICES ASSUME NEW i \in 1..n, i >= m PROVE s[i][2] < x[2]
    OBVIOUS
  <2>1. m \in 1..n /\ s[m][2] < x[2]
    BY <1>2
  <2>2. s[i][2] \in Nat /\ x[2] \in Nat /\ s[m][2] \in Nat
    BY <2>1, <1>0
  <2>3. i = m \/ s[m][2] > s[i][2]
    BY <2>1 DEF Falling
  <2>. QED BY <2>1, <2>2, <2>3
<1> HIDE DEF T
<1> DEFINE t == [i \in 1..(n + 1) |-> IF i < m THEN s[i] ELSE IF i = m THEN x ELSE s[i - 1]]
<1>5. \A i \in 1..(n + 1) :
         \/ i < m /\ i \in 1..n /\ t[i] = s[i]
         \/ i = m /\ t[i] = x
         \/ i > m /\ i - 1 \in 1..n /\ t[i] = s[i - 1]
  BY <1>2
<1>6. DOMAIN t = 1..(n + 1) /\ DOMAIN s = 1..n
  OBVIOUS
<1>7. \A i \in 1..n : (i < m => t[i] = s[i]) /\ (i >= m => i + 1 \in 1..(n + 1) /\ t[i + 1] = s[i])
  BY <1>2
<1>8. t[m] = x
  BY <1>2
<1> HIDE DEF t
<1>9. t \in [1..(n + 1) -> X]
  <2>1. \A i \in 1..(n + 1) : t[i] \in X
    BY <1>5
  <2>2. t = [i \in 1..(n + 1) |-> t[i]]
    BY DEF t
  <2>. QED BY <2>1, <2>2
<1>10. Range(t) = Range(s) \cup {x}
  <2>1. Range(t) \subseteq Range(s) \cup {x}
    BY <1>5, <1>6 DEF Range
  <2>2. x \in Range(t)
    BY <1>2, <1>6, <1>8 DEF Range
  <2>3. ASSUME NEW i \in 1..n PROVE s[i] \in Range(t)
    <3>1. CASE i < m
      <4>1. i \in DOMAIN t /\ t[i] = s[i]
        BY <3>1, <1>6, <1>7
      <4>. QED BY <4>1 DEF Range
    <3>2. CASE i >= m
      <4>1. i + 1 \in DOMAIN t /\ t[i + 1] = s[i]
        BY <3>2, <1>6, <1>7
      <4>. QED BY <4>1 DEF Range
    <3>. QED BY <3>1, <3>2, <1>2
  <2>. QED BY <2>1, <2>2, <2>3, <1>6 DEF Range
<1>11. Falling(t)
  <2> SUFFICES ASSUME NEW i \in 1..(n + 1), NEW j \in 1..(n + 1), i < j PROVE t[i][2] > t[j][2]
    BY <1>6 DEF Falling
  <2>1. \A k \in 1..n : s[k][2] \in Nat
    BY <1>0
  <2>2. \A k, l \in 1..n : k < l => s[k][2] > s[l][2]
    BY <1>6 DEF Falling
  <2>3. x[2] \in Nat
    BY <1>0
  <2>4. CASE i < m
    BY <2>4, <2>1, <2>2, <2>3, <1>3, <1>5, <1>2
  <2>5. CASE i = m
    BY <2>5, <2>1, <2>3, <1>4, <1>5, <1>2
  <2>6. CASE i > m
    BY <2>6, <2>1, <2>2, <1>5, <1>2
  <2>. QED BY <2>4, <2>5, <2>6, <1>2
<1>. QED BY <1>9, <1>10, <1>11 DEF Extends

\* Entries with different numbers can be put in order, however many they are.
LEMMA Arrangeable ==
    ASSUME NEW X, Numbered(X), NEW a \in Seq(X), Distinct(a)
    PROVE  \E s : Arranges(s, a)
<1> DEFINE P(n, s) == s \in [1..n -> X] /\ Range(s) = {a[i] : i \in 1..n} /\ Falling(s)
           S == {n \in Nat : n <= Len(a) => \E s : P(n, s)}
<1>0. Len(a) \in Nat /\ DOMAIN a = 1..Len(a) /\ \A i \in 1..Len(a) : a[i] \in X
  OBVIOUS
<1>1. 0 \in S
  <2>1. P(0, <<>>)
    BY DEF Range, Falling
  <2> HIDE DEF P
  <2>. QED BY <2>1
<1>2. \A n \in Nat : n \in S => n + 1 \in S
  <2> SUFFICES ASSUME NEW n \in Nat, n + 1 <= Len(a), \E s : P(n, s) PROVE \E t : P(n + 1, t)
    <3> HIDE DEF P
    <3>. QED BY <1>0
  <2>1. PICK s : P(n, s)
    OBVIOUS
  <2>2. a[n + 1] \in X /\ 1..(n + 1) = (1..n) \cup {n + 1} /\ n + 1 \in 1..Len(a)
    BY <1>0
  <2>3. \A i \in 1..n : s[i][2] # a[n + 1][2]
    <3> SUFFICES ASSUME NEW i \in 1..n, s[i][2] = a[n + 1][2] PROVE FALSE
      OBVIOUS
    <3>1. s[i] \in Range(s)
      BY <2>1 DEF Range
    <3>2. PICK j \in 1..n : s[i] = a[j]
      BY <3>1, <2>1
    <3>3. j \in DOMAIN a /\ n + 1 \in DOMAIN a /\ j # n + 1
      BY <1>0
    <3>. QED BY <3>2, <3>3 DEF Distinct
  <2>4. PICK t \in [1..(n + 1) -> X] : Range(t) = Range(s) \cup {a[n + 1]} /\ Falling(t)
    <3> DEFINE x == a[n + 1]
    <3>1. s \in [1..n -> X] /\ Falling(s) /\ x \in X /\ Fresh(s, x)
      BY <2>1, <2>2, <2>3 DEF Fresh
    <3> HIDE DEF x, P, S
    <3>2. Extends(X, n, s, x)
      BY <3>1, Inserted
    <3>. QED BY <3>2 DEF x, Extends
  <2>5. {a[i] : i \in 1..(n + 1)} = {a[i] : i \in 1..n} \cup {a[n + 1]}
    BY <2>2
  <2>6. P(n + 1, t)
    BY <2>1, <2>4, <2>5
  <2>. QED BY <2>6
<1>3. Len(a) \in S
  <2> HIDE DEF S
  <2>. QED BY <1>0, <1>1, <1>2, SetInduction
<1>4. PICK s : P(Len(a), s)
  BY <1>0, <1>3
<1>5. {a[i] : i \in 1..Len(a)} = Range(a)
  BY <1>0 DEF Range
<1>6. \A i \in 1..Len(a) : s[i] \in Range(a)
  BY <1>4, <1>5 DEF Range
<1>7. s \in [DOMAIN a -> Range(a)] /\ Range(s) = Range(a) /\ Falling(s)
  BY <1>0, <1>4, <1>5, <1>6
<1>. QED BY <1>7 DEF Arranges

\* sort_by on the sequence number keeps all the entries.
LEMMA SortedArranges ==
    ASSUME NEW X, Numbered(X), NEW a \in Seq(X), Distinct(a)
    PROVE  Arranges(Sorted(a), a)
<1>1. \E s \in [DOMAIN a -> Range(a)] : Range(s) = Range(a) /\ Falling(s)
  BY Arrangeable DEF Arranges
<1>. QED BY <1>1, Zenon DEF Sorted, Arranges, Falling

\* The ring of a log: no entry twice, never more than the limit, never shorter.
OnceEach(s) == \A i, j \in DOMAIN s : s[i] = s[j] => i = j

\* A push drops the oldest entry of a full ring and no other.
LEMMA NewestKeeps ==
    ASSUME NEW s \in Seq(Nat), NEW x \in Nat, OnceEach(s), Len(s) <= MaxEntries, x \notin Range(s)
    PROVE  LET n == NewestEntries(Append(s, x))
           IN OnceEach(n) /\ Len(n) <= MaxEntries /\ Len(s) <= Len(n)
<1> DEFINE a == Append(s, x)
           k == Len(s)
<1> MaxEntries \in Nat \ {0} /\ k \in Nat /\ k <= MaxEntries
  BY AuditAssumption
<1>1. /\ a \in Seq(Nat) /\ Len(a) = k + 1 /\ DOMAIN a = 1..(k + 1) /\ DOMAIN s = 1..k
      /\ a[k + 1] = x /\ \A i \in 1..k : a[i] = s[i] /\ a[i] # x
  BY DEF Range
<1>2. \A i, j \in 1..(k + 1) : a[i] = a[j] => i = j
  BY <1>1 DEF OnceEach
<1> HIDE DEF a, k
<1>3. CASE Len(a) > MaxEntries
  <2> DEFINE b == SubSeq(a, Len(a) - MaxEntries + 1, Len(a))
  <2>1. k = MaxEntries /\ Len(a) - MaxEntries + 1 = 2
    BY <1>1, <1>3
  <2>2. b = SubSeq(a, 2, k + 1)
    BY <1>1, <2>1
  <2>3. /\ Len(SubSeq(a, 2, k + 1)) = k /\ DOMAIN SubSeq(a, 2, k + 1) = 1..k
        /\ \A i \in 1..k : SubSeq(a, 2, k + 1)[i] = a[i + 1]
    BY <1>1, <2>1
  <2> HIDE DEF b
  <2>4. OnceEach(b)
    <3> SUFFICES ASSUME NEW i \in 1..k, NEW j \in 1..k, b[i] = b[j] PROVE i = j
      BY <2>2, <2>3 DEF OnceEach
    <3>1. i + 1 \in 1..(k + 1) /\ j + 1 \in 1..(k + 1) /\ a[i + 1] = a[j + 1]
      BY <2>2, <2>3
    <3>2. i + 1 = j + 1
      BY <3>1, <1>2
    <3>. QED BY <3>2
  <2>5. NewestEntries(a) = b
    BY <1>3 DEF NewestEntries, b
  <2>. QED BY <2>1, <2>2, <2>3, <2>4, <2>5 DEF a, k
<1>4. CASE ~(Len(a) > MaxEntries)
  <2>1. NewestEntries(a) = a
    BY <1>4 DEF NewestEntries
  <2>2. OnceEach(a)
    BY <1>1, <1>2 DEF OnceEach
  <2>. QED BY <1>1, <1>4, <2>1, <2>2 DEF a, k
<1>. QED BY <1>3, <1>4

\* Every log is such a ring, of entries that were recorded.
LogsInv ==
    /\ \A l \in 1..Len(logs) : OnceEach(logs[l]) /\ Len(logs[l]) <= MaxEntries
    /\ \A r, q \in recorded : r[3] = q[3] => r = q
    /\ dropped \subseteq 1..Len(logs)
    /\ \A s \in RegisteredLogs : sessionLogs[s] \notin dropped

\* What a step leaves to a reader of the registry: a log never gets shorter, a session
\* only loses its log when that is dropped, and none does under the read lock.
LogsGrow ==
    /\ \A l \in 1..Len(logs) : Len(logs[l]) <= Len(logs'[l])
    /\ dropped \subseteq dropped'
    /\ dropped' = dropped => \A s \in RegisteredLogs : sessionLogs'[s] = sessionLogs[s]
    /\ export.lock => sessionLogs' = sessionLogs

LEMMA LogsInit == AuditInit => LogsInv
BY DEF AuditInit, LogsInv, RegisteredLogs, None

\* Steps that leave the logs alone.
LEMMA LogsQuiet ==
    ASSUME AuditInv, LogsInv, UNCHANGED <<sessionLogs, logs, recorded, dropped>>
    PROVE  LogsInv' /\ LogsGrow
<1>1. \A l \in 1..Len(logs) : Len(logs[l]) \in Nat
  BY DEF AuditInv, AuditShape
<1>. QED BY <1>1 DEF LogsInv, LogsGrow, RegisteredLogs

LEMMA LogsStep == AuditInv /\ LogsInv /\ [AuditNext]_auditVars => LogsInv' /\ LogsGrow
<1> SUFFICES ASSUME AuditInv, LogsInv, [AuditNext]_auditVars PROVE LogsInv' /\ LogsGrow
  OBVIOUS
<1>0. logs \in Seq(Seq(Nat)) /\ \A l \in 1..Len(logs) : logs[l] \in Seq(Nat) /\ Len(logs[l]) \in Nat
  BY DEF AuditInv, AuditShape
<1>1. ASSUME NEW f \in Flushers,
             \/ FlushAll(f) \/ \E s \in AuditSessions : FlushSession(f, s)
             \/ Export(f) \/ WriteFile(f) \/ WriteFails(f) \/ Count(f)
      PROVE  LogsInv' /\ LogsGrow
  BY <1>1, LogsQuiet DEF FlushAll, FlushSession, Export, WriteFile, WriteFails, Count
<1>2. CASE Exporting
  BY <1>2, LogsQuiet DEF Exporting, ExportSession, ExportLog, AggregateAll, AggregateLog, AggregateSort, Summarise,
     SummaryGet, SummaryLen, SummarySessions, SummaryEntries, StartExport, exportLeaves
<1>3. CASE UNCHANGED auditVars
  BY <1>3, LogsQuiet DEF auditVars
<1>4. ASSUME NEW t \in Threads,
             \/ \E s \in AuditSessions : RecordToolCall(t, s)
             \/ Lookup(t) \/ DrawNumber(t)
      PROVE  LogsInv' /\ LogsGrow
  BY <1>4, LogsQuiet DEF RecordToolCall, Lookup, DrawNumber
<1>5. ASSUME NEW t \in Threads, Insert(t), sessionLogs[sid[t]] # None
      PROVE  LogsInv' /\ LogsGrow
  BY <1>5, LogsQuiet DEF Insert
<1>6. ASSUME NEW t \in Threads, Insert(t), sessionLogs[sid[t]] = None
      PROVE  LogsInv' /\ LogsGrow
  <2>0. PICK victims \in IF Cardinality(RegisteredLogs) >= MaxSessions
                           THEN {{s} : s \in RegisteredLogs} ELSE {{}} :
          /\ logs' = Append(logs, <<>>)
          /\ sessionLogs' = [s \in AuditSessions |-> IF s = sid[t] THEN Len(logs) + 1
                                                     ELSE IF s \in victims THEN None ELSE sessionLogs[s]]
          /\ dropped' = dropped \cup {sessionLogs[s] : s \in victims}
    BY <1>6 DEF Insert
  <2>1. victims \subseteq RegisteredLogs /\ recorded' = recorded /\ ~export.lock /\ sid[t] \notin RegisteredLogs
    BY <1>6, <2>0 DEF Insert, WriteLockFree, RegisteredLogs
  <2>2. /\ Len(logs') = Len(logs) + 1 /\ logs'[Len(logs) + 1] = <<>> /\ Len(logs) \in Nat
        /\ \A l \in 1..Len(logs) : logs'[l] = logs[l]
        /\ 1..(Len(logs) + 1) = 1..Len(logs) \cup {Len(logs) + 1}
    BY <1>0, <2>0
  <2>3. \A s \in RegisteredLogs : sessionLogs[s] \in 1..Len(logs)
    BY DEF RegisteredLogs, AuditInv, AuditShape, None
  <2>4. \A l \in 1..Len(logs') : OnceEach(logs'[l]) /\ Len(logs'[l]) <= MaxEntries
    <3>1. OnceEach(<<>>) /\ Len(<<>>) <= MaxEntries
      BY AuditAssumption DEF OnceEach
    <3>. QED BY <2>2, <3>1 DEF LogsInv
  <2>5. dropped' \subseteq 1..Len(logs')
    BY <2>0, <2>1, <2>2, <2>3 DEF LogsInv
  <2>6. \A s \in RegisteredLogs' :
           \/ s = sid[t] /\ sessionLogs'[s] = Len(logs) + 1
           \/ s \in RegisteredLogs /\ s \notin victims /\ sessionLogs'[s] = sessionLogs[s]
    BY <2>0 DEF RegisteredLogs
  <2>7. \A s, u \in RegisteredLogs : s # u => sessionLogs[s] # sessionLogs[u]
    BY DEF AuditInv, Owners, Owned, RegisteredLogs
  <2>8. \A s \in RegisteredLogs' : sessionLogs'[s] \notin dropped'
    <3> SUFFICES ASSUME NEW s \in RegisteredLogs' PROVE sessionLogs'[s] \notin dropped'
      OBVIOUS
    <3>1. CASE s = sid[t] /\ sessionLogs'[s] = Len(logs) + 1
      BY <3>1, <2>0, <2>1, <2>2, <2>3 DEF LogsInv
    <3>2. CASE s \in RegisteredLogs /\ s \notin victims /\ sessionLogs'[s] = sessionLogs[s]
      BY <3>2, <2>0, <2>1, <2>7 DEF LogsInv
    <3>. QED BY <2>6, <3>1, <3>2
  <2>9. dropped' = dropped => victims = {}
    BY <2>0, <2>1 DEF LogsInv
  <2>10. dropped' = dropped => \A s \in RegisteredLogs : sessionLogs'[s] = sessionLogs[s]
    BY <2>0, <2>1, <2>9 DEF RegisteredLogs
  <2>11. LogsInv'
    BY <2>1, <2>4, <2>5, <2>8 DEF LogsInv
  <2>12. \A l \in 1..Len(logs) : Len(logs[l]) <= Len(logs'[l])
    BY <2>2, <1>0
  <2>. QED BY <2>0, <2>1, <2>10, <2>11, <2>12 DEF LogsGrow
<1>7. ASSUME NEW t \in Threads, Push(t)
      PROVE  LogsInv' /\ LogsGrow
  <2> DEFINE l0 == arc[t]
             new == NewestEntries(Append(logs[l0], seq[t]))
  <2>1. /\ pc[t] = "push" /\ logs' = [logs EXCEPT ![l0] = new]
        /\ recorded' = recorded \cup {<<sid[t], arc[t], seq[t]>>}
        /\ UNCHANGED <<sessionLogs, dropped>>
    BY <1>7 DEF Push
  <2>2. l0 \in 1..Len(logs) /\ seq[t] \in Nat /\ t \in Holding
    BY <2>1 DEF AuditInv, AuditShape, Holding
  <2>3. \A r \in recorded : r[3] # seq[t]
    BY <2>1 DEF AuditInv, NumbersUnique
  <2>4. seq[t] \notin Range(logs[l0])
    <3>1. \A n \in Range(logs[l0]) : \E r \in recorded : r[3] = n
      BY <2>2 DEF AuditInv, NumbersUnique
    <3>. QED BY <2>3, <3>1
  <2>5. OnceEach(new) /\ Len(new) <= MaxEntries /\ Len(logs[l0]) <= Len(new)
    BY <2>2, <2>4, <1>0, NewestKeeps DEF LogsInv
  <2> HIDE DEF new, l0
  <2>6. Len(logs') = Len(logs) /\ \A l \in 1..Len(logs) : logs'[l] = IF l = l0 THEN new ELSE logs[l]
    BY <2>1, <2>2, <1>0
  <2>7. \A r, q \in recorded' : r[3] = q[3] => r = q
    BY <2>1, <2>3 DEF LogsInv
  <2>8. LogsInv'
    BY <2>1, <2>5, <2>6, <2>7 DEF LogsInv, RegisteredLogs
  <2>9. \A l \in 1..Len(logs) : Len(logs[l]) <= Len(logs'[l])
    <3>1. \A n \in Nat : n <= n
      OBVIOUS
    <3>2. \A l \in 1..Len(logs) : Len(logs[l]) <= Len(logs[l])
      BY <3>1, <1>0
    <3>. QED BY <2>5, <2>6, <3>2
  <2>. QED BY <2>1, <2>8, <2>9 DEF LogsGrow
<1>8. ASSUME NEW s \in AuditSessions, RemoveSession(s)
      PROVE  LogsInv' /\ LogsGrow
  <2>1. /\ sessionLogs' = [sessionLogs EXCEPT ![s] = None] /\ dropped' = dropped \cup {sessionLogs[s]}
        /\ UNCHANGED <<logs, recorded>> /\ s \in RegisteredLogs /\ ~export.lock
    BY <1>8 DEF RemoveSession, WriteLockFree, RegisteredLogs
  <2>2. RegisteredLogs' \subseteq RegisteredLogs \ {s} /\ \A u \in RegisteredLogs' : sessionLogs'[u] = sessionLogs[u]
    BY <2>1 DEF RegisteredLogs, AuditInv, AuditShape
  <2>3. \A u, v \in RegisteredLogs : u # v => sessionLogs[u] # sessionLogs[v]
    BY DEF AuditInv, Owners, Owned, RegisteredLogs
  <2>4. sessionLogs[s] \in 1..Len(logs)
    BY <2>1 DEF RegisteredLogs, AuditInv, AuditShape, None
  <2>5. LogsInv'
    <3>1. \A u \in RegisteredLogs' : sessionLogs'[u] \notin dropped'
      BY <2>1, <2>2, <2>3 DEF LogsInv
    <3>2. dropped' \subseteq 1..Len(logs')
      BY <2>1, <2>4 DEF LogsInv
    <3>3. /\ \A l \in 1..Len(logs') : OnceEach(logs'[l]) /\ Len(logs'[l]) <= MaxEntries
          /\ \A r, q \in recorded' : r[3] = q[3] => r = q
      BY <2>1 DEF LogsInv
    <3>. QED BY <3>1, <3>2, <3>3 DEF LogsInv
  <2>6. dropped' # dropped
    BY <2>1 DEF LogsInv
  <2>7. \A l \in 1..Len(logs) : Len(logs[l]) <= Len(logs'[l])
    BY <2>1, <1>0
  <2>. QED BY <2>1, <2>5, <2>6, <2>7 DEF LogsGrow
<1>. QED BY <1>1, <1>2, <1>3, <1>4, <1>5, <1>6, <1>7, <1>8 DEF AuditNext

-----------------------------------------------------------------------------
(* A sum over sessions as the size of a set of places.                          *)

Slots(K, size) == {x \in K \X Nat : x[2] \in 1..size[x[1]]}

\* Finitely many sessions have finitely many places; more of them, or longer logs,
\* have more; one session more adds its own.
LEMMA SlotsFinite ==
    ASSUME NEW K, IsFiniteSet(K), NEW size, \A k \in K : size[k] \in 0..MaxEntries
    PROVE  IsFiniteSet(Slots(K, size)) /\ Cardinality(Slots(K, size)) \in Nat
<1>1. MaxEntries \in Nat
  BY AuditAssumption
<1>2. IsFiniteSet(1..MaxEntries)
  BY <1>1, FS_Interval
<1>3. IsFiniteSet(K \X (1..MaxEntries))
  BY <1>2, FS_Product
<1>4. Slots(K, size) \subseteq K \X (1..MaxEntries)
  BY <1>1 DEF Slots
<1>. QED BY <1>3, <1>4, FS_Subset, FS_CardinalityType

LEMMA SlotsGrow ==
    ASSUME NEW K, NEW L, IsFiniteSet(L), K \subseteq L, NEW old, NEW new,
           \A k \in K : old[k] \in Nat /\ old[k] <= new[k], \A k \in L : new[k] \in 0..MaxEntries
    PROVE  Cardinality(Slots(K, old)) <= Cardinality(Slots(L, new))
<1>1. Slots(K, old) \subseteq Slots(L, new)
  <2> SUFFICES ASSUME NEW x \in Slots(K, old) PROVE x \in Slots(L, new)
    OBVIOUS
  <2>1. x \in K \X Nat /\ x[2] \in 1..old[x[1]]
    BY DEF Slots
  <2>2. x[1] \in K /\ x[2] \in Nat
    BY <2>1
  <2>3. old[x[1]] \in Nat /\ old[x[1]] <= new[x[1]] /\ new[x[1]] \in Nat
    BY <2>2, AuditAssumption
  <2>4. x \in L \X Nat /\ x[2] \in 1..new[x[1]]
    BY <2>1, <2>2, <2>3
  <2>. QED BY <2>4 DEF Slots
<1>2. IsFiniteSet(Slots(L, new))
  BY SlotsFinite
<1>. QED BY <1>1, <1>2, FS_Subset

LEMMA SlotsAdd ==
    ASSUME NEW K, IsFiniteSet(K), NEW c, c \notin K, NEW size, \A k \in K \cup {c} : size[k] \in 0..MaxEntries
    PROVE  Cardinality(Slots(K \cup {c}, size)) = Cardinality(Slots(K, size)) + size[c]
<1> DEFINE C == {c} \X (1..size[c])
<1>0. size[c] \in Nat
  BY AuditAssumption
<1>1. Slots(K \cup {c}, size) = Slots(K, size) \cup C
  BY <1>0 DEF Slots
<1>2. Slots(K, size) \cap C = {}
  BY DEF Slots
<1>3. IsFiniteSet(C) /\ Cardinality(C) = size[c]
  <2>1. IsFiniteSet({c}) /\ Cardinality({c}) = 1
    BY FS_Singleton
  <2>2. IsFiniteSet(1..size[c]) /\ Cardinality(1..size[c]) = size[c]
    BY <1>0, FS_Interval
  <2>. QED BY <1>0, <2>1, <2>2, FS_Product
<1>4. IsFiniteSet(Slots(K, size)) /\ Cardinality(Slots(K, size)) \in Nat
  BY SlotsFinite
<1> DEFINE S == Slots(K, size)
<1> HIDE DEF C, S
<1>5. Cardinality(S \cup C) = Cardinality(S) + Cardinality(C) - Cardinality(S \cap C)
  BY <1>3, <1>4, FS_Union DEF S
<1>6. Cardinality(S \cap C) = 0
  BY <1>2, FS_EmptySet DEF S
<1>7. Cardinality(S) \in Nat /\ Slots(K \cup {c}, size) = S \cup C
  BY <1>1, <1>4 DEF S
<1>8. Cardinality(S \cup C) = Cardinality(S) + size[c]
  BY <1>0, <1>3, <1>5, <1>6, <1>7
<1>. QED BY <1>7, <1>8 DEF S

LEMMA SlotsNone == \A size : Cardinality(Slots({}, size)) = 0
<1> SUFFICES ASSUME NEW size PROVE Slots({}, size) = {}
  BY FS_EmptySet
<1>. QED BY DEF Slots

\* A sequence of different entries shows as many as it is long.
LEMMA ShownOnce ==
    ASSUME NEW X, NEW a \in Seq(X), \A i, j \in DOMAIN a : a[i] = a[j] => i = j
    PROVE  Cardinality(Range(a)) = Len(a)
<1>1. Len(a) \in Nat /\ DOMAIN a = 1..Len(a)
  OBVIOUS
<1>2. IsFiniteSet(1..Len(a)) /\ Cardinality(1..Len(a)) = Len(a)
  BY <1>1, FS_Interval
<1>3. a \in Bijection(1..Len(a), Range(a))
  BY <1>1 DEF Bijection, Injection, Surjection, Range, IsInjective
<1>4. ExistsBijection(1..Len(a), Range(a))
  BY <1>3 DEF ExistsBijection
<1>. QED BY <1>2, <1>4, FS_Bijection

-----------------------------------------------------------------------------
(* The endpoints that read the logs.                                            *)

\* The state of the endpoint that runs.
ExportRecords ==
    [at : {"idle", "all", "walk", "ids", "len", "sessions", "done"},
     kind : {"none", "session", "all", "summary"}, lock : BOOLEAN, todo : SUBSET (AuditSessions \X Nat),
     cur : (AuditSessions \X Nat) \cup {<<>>}, answer : Seq(AuditSessions \X Nat), ids : SUBSET AuditSessions,
     counted : Nat, sessions : Nat, due : SUBSET (AuditSessions \X Nat), dropped : SUBSET Nat]

IsRecorded(e) == \E r \in recorded : r[1] = e[1] /\ r[3] = e[2]

\* The export of one session holds the Arc of its log.
OneLog ==
    export.at = "all" =>
      /\ export.kind = "session"
      /\ export.cur \in AuditSessions \X (1..Len(logs)) /\ Owned(export.cur[2], export.cur[1])
      /\ \A e \in export.due :
           e[1] = export.cur[1] /\ (Trimmed(e[1], e[2]) \/ e[2] \in Range(logs[export.cur[2]]))

\* The walk over all logs: what was due is in the answer, or in a log on the list.
Walk ==
    export.at = "walk" =>
      /\ export.kind \in {"all", "summary"} /\ export.lock
      /\ \A p \in export.todo : p[1] \in RegisteredLogs /\ p[2] = sessionLogs[p[1]]
      /\ Distinct(export.answer)
      /\ \A e \in Range(export.answer) : IsRecorded(e) /\ \A p \in export.todo : p[1] # e[1]
      /\ \A e \in export.due :
           \/ Trimmed(e[1], e[2]) \/ e \in Range(export.answer)
           \/ \E p \in export.todo : p[1] = e[1] /\ e[2] \in Range(logs[p[2]])

\* The size of every session's log, and the sessions whose entries the summary has
\* counted, or, in the walk, still has to copy.
Sizes == [s \in AuditSessions |-> IF sessionLogs[s] = None THEN 0 ELSE Len(logs[sessionLogs[s]])]
Outstanding ==
    IF export.at = "walk" THEN {p[1] : p \in export.todo}
    ELSE IF export.at \in {"ids", "len", "sessions"}
      THEN {s \in export.ids : (\A p \in export.todo : p[1] # s) /\ ~(export.at = "len" /\ export.cur[1] = s)}
      ELSE {}

\* Where a summary can be and what its list then is.
SummaryPlace ==
    /\ export.at \in {"ids", "len", "sessions"} => export.kind = "summary" /\ export.answer = <<>>
    /\ export.at = "len" => export.cur \in AuditSessions \X (1..Len(logs))
    /\ export.at \in {"ids", "len"} => \A p \in export.todo : p[2] = None
    /\ export.at = "sessions" => export.todo = {}
    /\ export.kind = "summary" => export.dropped \subseteq dropped

\* As long as no log is dropped.
Summary ==
    (export.kind = "summary" /\ dropped = export.dropped) =>
      /\ export.ids \subseteq RegisteredLogs
      /\ export.at \in {"ids", "len"} => \A p \in export.todo : p[1] \in export.ids
      /\ export.at = "len" => /\ export.cur[1] \in export.ids /\ export.cur[2] = sessionLogs[export.cur[1]]
                              /\ \A p \in export.todo : p[1] # export.cur[1]
      /\ export.at \in {"sessions", "walk", "done"} => export.sessions >= Cardinality(export.ids)
      /\ export.counted <= Len(export.answer) + Cardinality(Slots(Outstanding, Sizes))

\* The inductive invariant of the endpoints: EntriesKept with what each has still to do.
ExportInv ==
    /\ export \in ExportRecords
    /\ OneLog /\ Walk /\ ExportsExact /\ SummaryPlace /\ Summary

LEMMA ExportInit == AuditInit => ExportInv
<1> SUFFICES ASSUME AuditInit PROVE ExportInv
  OBVIOUS
<1>1. export = NoExport
  BY DEF AuditInit
<1>2. export \in ExportRecords /\ export.at = "idle" /\ export.kind = "none"
  BY <1>1 DEF NoExport, ExportRecords
<1>. QED BY <1>2 DEF ExportInv, OneLog, Walk, ExportsExact, SummaryPlace, Summary

\* A ring holds at most MaxEntries.
LEMMA SizesBounded == AuditInv /\ LogsInv => \A s \in AuditSessions : Sizes[s] \in 0..MaxEntries
<1> SUFFICES ASSUME AuditInv, LogsInv, NEW s \in AuditSessions PROVE Sizes[s] \in 0..MaxEntries
  OBVIOUS
<1>0. MaxEntries \in Nat
  BY AuditAssumption
<1>1. CASE sessionLogs[s] = None
  BY <1>0, <1>1 DEF Sizes
<1>2. CASE sessionLogs[s] # None
  <2>1. sessionLogs[s] \in 1..Len(logs)
    BY <1>2 DEF AuditInv, AuditShape, None
  <2>2. logs[sessionLogs[s]] \in Seq(Nat) /\ Len(logs[sessionLogs[s]]) <= MaxEntries
    BY <2>1 DEF AuditInv, AuditShape, LogsInv
  <2>. QED BY <1>0, <1>2, <2>2 DEF Sizes
<1>. QED BY <1>1, <1>2

LEMMA SizesBoundedNext == (AuditInv /\ LogsInv => \A s \in AuditSessions : Sizes[s] \in 0..MaxEntries)'
BY SizesBounded, PTL

LEMMA RegisteredFinite == \A K \in SUBSET AuditSessions : IsFiniteSet(K) /\ Cardinality(K) \in Nat
BY AuditAssumption, FS_Subset, FS_CardinalityType

\* What was trimmed stays so, and an entry leaves a log only when it is trimmed.
LEMMA TrimmedStays ==
    ASSUME LogsStay, NEW s, NEW n, Trimmed(s, n) PROVE Trimmed(s, n)'
BY DEF Trimmed, LogsStay

LEMMA LeavesTrimmed ==
    ASSUME AuditInv, AuditInv', LogsStay, NEW l \in 1..Len(logs), NEW s, Owned(l, s), NEW n \in Range(logs[l])
    PROVE  Trimmed(s, n)' \/ n \in Range(logs'[l])
<1>1. PICK r \in recorded : r[2] = l /\ r[3] = n
  BY DEF AuditInv, NumbersUnique
<1>2. r[1] = s /\ r \in recorded'
  BY <1>1 DEF Owned, LogsStay
<1>. QED BY <1>1, <1>2 DEF Trimmed

\* Steps of the others.
LEMMA ExportLeft ==
    ASSUME AuditInv, AuditInv', LogsInv, LogsInv', LogsStay, LogsGrow, ExportInv, UNCHANGED export
    PROVE  ExportInv'
<1>0. export \in ExportRecords /\ \A l \in 1..Len(logs) : l \in 1..Len(logs')
  BY DEF ExportInv, LogsStay, AuditInv, AuditShape
<1>1. OneLog'
  <2> SUFFICES ASSUME export.at = "all" PROVE OneLog'
    BY DEF OneLog
  <2>0. OneLog
    BY DEF ExportInv
  <2> DEFINE l == export.cur[2]
             s == export.cur[1]
  <2>1. l \in 1..Len(logs) /\ Owned(l, s) /\ export.cur \in AuditSessions \X (1..Len(logs'))
    BY <1>0, <2>0 DEF OneLog
  <2>2. Owned(l, s)'
    <3> HIDE DEF l, s
    <3>1. \A k \in 1..Len(logs) : \A u : Owned(k, u) => Owned(k, u)'
      BY DEF LogsStay
    <3>2. PICK k \in 1..Len(logs), u \in {s} : k = l /\ Owned(k, u)
      BY <2>1
    <3>3. Owned(k, u)'
      BY <3>1, <3>2
    <3>. QED BY <3>2, <3>3 DEF Owned, l, s
  <2>3. ASSUME NEW e \in export.due PROVE e[1] = s /\ (Trimmed(e[1], e[2])' \/ e[2] \in Range(logs'[l]))
    <3>1. e[1] = s /\ (Trimmed(e[1], e[2]) \/ e[2] \in Range(logs[l]))
      BY <2>0 DEF OneLog
    <3>2. CASE Trimmed(e[1], e[2])
      BY <3>1, <3>2, TrimmedStays
    <3>3. CASE e[2] \in Range(logs[l])
      <4> HIDE DEF l, s
      <4>. QED BY <3>1, <3>3, <2>1, LeavesTrimmed
    <3>. QED BY <3>1, <3>2, <3>3
  <2>. QED BY <2>0, <2>1, <2>2, <2>3 DEF OneLog, Owned
<1>2. Walk'
  <2> SUFFICES ASSUME export.at = "walk" PROVE Walk'
    BY DEF Walk
  <2>0. Walk /\ sessionLogs' = sessionLogs /\ RegisteredLogs' = RegisteredLogs
    BY DEF ExportInv, Walk, LogsGrow, RegisteredLogs
  <2>1. \A e : IsRecorded(e) => IsRecorded(e)'
    BY DEF IsRecorded, LogsStay
  <2>2. ASSUME NEW e \in export.due
        PROVE  \/ Trimmed(e[1], e[2])' \/ e \in Range(export.answer)
               \/ \E p \in export.todo : p[1] = e[1] /\ e[2] \in Range(logs'[p[2]])
    <3>1. \/ Trimmed(e[1], e[2]) \/ e \in Range(export.answer)
          \/ \E p \in export.todo : p[1] = e[1] /\ e[2] \in Range(logs[p[2]])
      BY <2>0 DEF Walk
    <3>2. CASE Trimmed(e[1], e[2])
      BY <3>2, TrimmedStays
    <3>3. ASSUME NEW p \in export.todo, p[1] = e[1], e[2] \in Range(logs[p[2]])
          PROVE  Trimmed(e[1], e[2])' \/ e[2] \in Range(logs'[p[2]])
      <4>1. p[1] \in RegisteredLogs /\ p[2] = sessionLogs[p[1]]
        BY <2>0 DEF Walk
      <4>2. p[2] \in 1..Len(logs) /\ Owned(p[2], p[1])
        BY <4>1 DEF RegisteredLogs, AuditInv, AuditShape, Owners, None
      <4>3. PICK l \in 1..Len(logs), s \in {p[1]} : l = p[2] /\ Owned(l, s)
        BY <4>2
      <4>4. Trimmed(s, e[2])' \/ e[2] \in Range(logs'[l])
        BY <4>3, <3>3, LeavesTrimmed
      <4>. QED BY <4>3, <4>4, <3>3
    <3>. QED BY <3>1, <3>2, <3>3
  <2>. QED BY <2>0, <2>1, <2>2 DEF Walk, Distinct
<1>3. ExportsExact'
  <2>1. \A e : IsRecorded(e) => IsRecorded(e)'
    BY DEF IsRecorded, LogsStay
  <2>2. \A e \in export.due : Trimmed(e[1], e[2]) => Trimmed(e[1], e[2])'
    BY TrimmedStays
  <2>. QED BY <2>1, <2>2 DEF ExportInv, ExportsExact, IsRecorded
<1>4. SummaryPlace'
  BY <1>0 DEF ExportInv, SummaryPlace, LogsGrow
<1>5. Summary'
  <2> SUFFICES ASSUME export.kind = "summary", dropped' = export.dropped PROVE Summary'
    BY DEF Summary
  <2>0. dropped' = dropped /\ dropped = export.dropped /\ Summary /\ Walk
    BY DEF ExportInv, SummaryPlace, LogsGrow
  <2>1. /\ \A s \in RegisteredLogs : sessionLogs'[s] = sessionLogs[s]
        /\ RegisteredLogs \subseteq RegisteredLogs' /\ Outstanding' = Outstanding
    BY <2>0 DEF LogsGrow, RegisteredLogs, Outstanding
  <2>2. Outstanding \subseteq RegisteredLogs
    BY <2>0 DEF Summary, Walk, Outstanding
  <2>3. \A s \in RegisteredLogs : Sizes[s] \in Nat /\ Sizes[s] <= Sizes'[s]
    <3> SUFFICES ASSUME NEW s \in RegisteredLogs PROVE Sizes[s] \in Nat /\ Sizes[s] <= Sizes'[s]
      OBVIOUS
    <3>1. s \in AuditSessions /\ sessionLogs[s] \in 1..Len(logs) /\ sessionLogs'[s] = sessionLogs[s]
          /\ sessionLogs[s] # None
      BY <2>1 DEF RegisteredLogs, AuditInv, AuditShape, None
    <3>2. logs[sessionLogs[s]] \in Seq(Nat) /\ Len(logs[sessionLogs[s]]) <= Len(logs'[sessionLogs[s]])
      BY <3>1 DEF AuditInv, AuditShape, LogsGrow
    <3>. QED BY <3>1, <3>2 DEF Sizes
  <2>4. \A s \in AuditSessions : Sizes'[s] \in 0..MaxEntries
    BY SizesBoundedNext
  <2>5. Cardinality(Slots(Outstanding, Sizes)) <= Cardinality(Slots(Outstanding', Sizes'))
    <3>1. Outstanding \subseteq AuditSessions /\ IsFiniteSet(Outstanding)
      BY <2>2, RegisteredFinite DEF RegisteredLogs
    <3>2. Cardinality(Slots(Outstanding, Sizes)) <= Cardinality(Slots(Outstanding, Sizes'))
      BY <2>2, <2>3, <2>4, <3>1, SlotsGrow
    <3>. QED BY <2>1, <3>2
  <2>6. /\ Cardinality(Slots(Outstanding, Sizes)) \in Nat /\ Cardinality(Slots(Outstanding', Sizes')) \in Nat
        /\ export.counted \in Nat /\ Len(export.answer) \in Nat
    <3>1. Outstanding \subseteq AuditSessions /\ IsFiniteSet(Outstanding)
      BY <2>2, RegisteredFinite DEF RegisteredLogs
    <3>2. Cardinality(Slots(Outstanding, Sizes)) \in Nat
      BY <3>1, SizesBounded, SlotsFinite
    <3>3. Cardinality(Slots(Outstanding, Sizes')) \in Nat
      BY <2>4, <3>1, SlotsFinite
    <3>. QED BY <1>0, <2>1, <3>2, <3>3 DEF ExportRecords
  <2>7. export.counted <= Len(export.answer) + Cardinality(Slots(Outstanding', Sizes'))
    BY <2>0, <2>5, <2>6 DEF Summary
  <2>8. export.ids \subseteq RegisteredLogs /\ export.ids \subseteq RegisteredLogs'
    BY <2>0, <2>1 DEF Summary
  <2>9. export.at = "len" => export.cur[2] = sessionLogs'[export.cur[1]]
    BY <2>0, <2>1, <2>8 DEF Summary
  <2>. QED BY <2>0, <2>7, <2>8, <2>9 DEF Summary
<1>. QED BY <1>0, <1>1, <1>2, <1>3, <1>4, <1>5 DEF ExportInv

\* What the endpoints leave alone.
ReadOnly == UNCHANGED <<sessionLogs, logs, recorded, dropped, audit_seq, pc, sid, arc>>

LEMMA ReadOnlySame ==
    ASSUME ReadOnly
    PROVE  /\ Sizes' = Sizes /\ RegisteredLogs' = RegisteredLogs
           /\ \A s, n : Trimmed(s, n)' <=> Trimmed(s, n)
           /\ \A l, s : Owned(l, s)' <=> Owned(l, s)
           /\ \A e : IsRecorded(e)' <=> IsRecorded(e)
BY DEF ReadOnly, Sizes, RegisteredLogs, Trimmed, Owned, IsRecorded, Holding

\* The state between two endpoints.
LEMMA NoExportIs ==
    /\ NoExport \in ExportRecords /\ NoExport.answer = <<>> /\ NoExport.counted = 0
    /\ NoExport.kind = "none" /\ NoExport.at = "idle"
BY DEF NoExport, ExportRecords

\* The entries that are due are in the logs they are in.
LEMMA DueInLogs ==
    ASSUME AuditInv, NEW ss \in SUBSET AuditSessions, NEW e \in Entries(ss)
    PROVE  e[1] \in ss /\ e[1] \in RegisteredLogs /\ e[2] \in Range(logs[sessionLogs[e[1]]])
BY DEF Entries, RegisteredLogs

\* export_json of one session: the log is found, and then read.
LEMMA ExportSessionKeeps ==
    ASSUME AuditInv, ExportInv, NEW s \in AuditSessions, ExportSession(s) PROVE ExportInv'
<1> DEFINE cur == <<s, sessionLogs[s]>>
           due == Entries({s})
           w == [NoExport EXCEPT !.at = "all", !.kind = "session", !.cur = cur, !.due = due]
<1>1. export' = w /\ ReadOnly /\ sessionLogs[s] # None
  BY DEF ExportSession, StartExport, exportLeaves, threadVars, ReadOnly
<1>2. cur \in AuditSessions \X (1..Len(logs)) /\ Owned(sessionLogs[s], s) /\ s \in RegisteredLogs
  BY <1>1 DEF AuditInv, AuditShape, Owners, RegisteredLogs, None
<1>3. due \in SUBSET (AuditSessions \X Nat) /\ \A e \in due : e[1] = s /\ e[2] \in Range(logs[sessionLogs[s]])
  BY EntriesType, DueInLogs
<1> HIDE DEF due
<1>4. w \in ExportRecords /\ w.at = "all" /\ w.kind = "session" /\ w.cur = cur /\ w.due = due
  <2>1. cur \in AuditSessions \X Nat
    BY <1>2 DEF AuditInv, AuditShape
  <2> HIDE DEF cur
  <2>. QED BY <1>3, <2>1, NoExportIs DEF ExportRecords
<1> HIDE DEF w
<1>5. OneLog'
  <2>1. Owned(sessionLogs[s], s)'
    <3>1. PICK l \in Nat, u \in {s} : l = sessionLogs[s] /\ l = sessionLogs'[s] /\ Owned(l, u)
      BY <1>1, <1>2 DEF ReadOnly, AuditInv, AuditShape
    <3>2. Owned(l, u)'
      BY <1>1, <3>1, ReadOnlySame
    <3>. QED BY <3>1, <3>2 DEF Owned
  <2>. QED BY <1>1, <1>2, <1>3, <1>4, <2>1, ReadOnlySame DEF OneLog, ReadOnly, Owned
<1>. QED BY <1>1, <1>4, <1>5 DEF ExportInv, Walk, ExportsExact, SummaryPlace, Summary

LEMMA ExportLogKeeps ==
    ASSUME AuditInv, LogsInv, ExportInv, ExportLog PROVE ExportInv'
<1> DEFINE s == export.cur[1]
           log == logs[export.cur[2]]
           ans == Of(export.cur)
           w == [export EXCEPT !.at = "done", !.answer = ans]
<1>1. export' = w /\ ReadOnly /\ export.at = "all" /\ export \in ExportRecords /\ OneLog
  BY DEF ExportLog, exportLeaves, threadVars, ReadOnly, ExportInv
<1>2. /\ export.kind = "session" /\ export.cur \in AuditSessions \X (1..Len(logs)) /\ Owned(export.cur[2], s)
      /\ \A e \in export.due : e[1] = s /\ (Trimmed(e[1], e[2]) \/ e[2] \in Range(log))
  BY <1>1 DEF OneLog
<1>3. /\ log \in Seq(Nat) /\ OnceEach(log) /\ s \in AuditSessions
      /\ \A n \in Range(log) : \E r \in recorded : r[1] = s /\ r[3] = n
  <2>1. export.cur[2] \in 1..Len(logs) /\ s \in AuditSessions
    BY <1>2
  <2>2. log \in Seq(Nat) /\ OnceEach(log)
    BY <2>1 DEF AuditInv, AuditShape, LogsInv
  <2>3. \A n \in Range(log) : \E r \in recorded : r[2] = export.cur[2] /\ r[3] = n
    BY <2>1 DEF AuditInv, NumbersUnique
  <2>. QED BY <1>2, <2>1, <2>2, <2>3 DEF Owned
<1>4. ans = [i \in DOMAIN log |-> <<s, log[i]>>]
  BY DEF Of
<1> HIDE DEF ans, log, s
<1>5. ans \in Seq(AuditSessions \X Nat) /\ DOMAIN ans = DOMAIN log /\ \A i \in DOMAIN log : ans[i] = <<s, log[i]>>
  <2>1. DOMAIN ans = 1..Len(log) /\ DOMAIN log = 1..Len(log) /\ Len(log) \in Nat
    BY <1>3, <1>4
  <2>2. \A i \in 1..Len(log) : ans[i] = <<s, log[i]>> /\ ans[i] \in AuditSessions \X Nat
    BY <1>3, <1>4, <2>1
  <2>3. ans = [i \in 1..Len(log) |-> ans[i]]
    BY <1>4, <2>1
  <2>4. ans \in Seq(AuditSessions \X Nat)
    BY <2>1, <2>2, <2>3
  <2>. QED BY <2>1, <2>2, <2>4
<1>6. w \in ExportRecords /\ w.at = "done" /\ w.kind = "session" /\ w.answer = ans /\ w.cur = export.cur /\ w.due = export.due
  BY <1>1, <1>2, <1>5 DEF ExportRecords
<1> HIDE DEF w
<1>7. Cardinality(Range(ans)) = Len(ans)
  <2>1. \A i, j \in DOMAIN ans : ans[i] = ans[j] => i = j
    BY <1>3, <1>5 DEF OnceEach
  <2>. QED BY <1>5, <2>1, ShownOnce
<1>8. /\ \A e \in Range(ans) : e[1] = s /\ e[2] \in Range(log)
      /\ \A n \in Range(log) : <<s, n>> \in Range(ans)
  BY <1>5 DEF Range
<1>9. \A e \in export.due : e = <<e[1], e[2]>>
  BY <1>1 DEF ExportRecords
<1>10. /\ \A e \in export.due : e \in Range(ans) \/ Trimmed(e[1], e[2])
       /\ \A e \in Range(ans) : \E r \in recorded : r[1] = e[1] /\ r[3] = e[2]
  BY <1>2, <1>3, <1>8, <1>9
<1>11. ExportsExact'
  <2>1. \A e \in export.due : e \in Range(ans) \/ Trimmed(e[1], e[2])'
    BY <1>1, <1>10, ReadOnlySame
  <2>2. recorded' = recorded /\ s = export.cur[1]
    BY <1>1 DEF ReadOnly, s
  <2>. QED BY <1>1, <1>6, <1>7, <1>8, <1>10, <2>1, <2>2 DEF ExportsExact
<1>. QED BY <1>1, <1>6, <1>11 DEF ExportInv, OneLog, Walk, SummaryPlace, Summary

\* The walk begins.
LEMMA WalkBegins ==
    ASSUME AuditInv, ReadOnly, export' \in ExportRecords, export'.at = "walk", export'.kind \in {"all", "summary"},
           export'.lock, export'.answer = <<>>, export'.due = Entries(RegisteredLogs),
           export'.todo = {<<s, sessionLogs[s]>> : s \in RegisteredLogs}
    PROVE  OneLog' /\ Walk' /\ ExportsExact'
<1>1. \A p \in export'.todo : p[1] \in RegisteredLogs /\ p[2] = sessionLogs[p[1]]
  OBVIOUS
<1>2. Distinct(<<>>) /\ Range(<<>>) = {}
  BY DEF Distinct, Range
<1>3. ASSUME NEW e \in export'.due PROVE \E p \in export'.todo : p[1] = e[1] /\ e[2] \in Range(logs[p[2]])
  <2>1. e[1] \in RegisteredLogs /\ e[2] \in Range(logs[sessionLogs[e[1]]])
    <3>1. RegisteredLogs \in SUBSET AuditSessions
      BY DEF RegisteredLogs
    <3>. QED BY <3>1, DueInLogs
  <2>2. <<e[1], sessionLogs[e[1]]>> \in export'.todo
    BY <2>1
  <2>. QED BY <2>1, <2>2
<1>4. Walk'
  <2>1. RegisteredLogs' = RegisteredLogs /\ sessionLogs' = sessionLogs /\ logs' = logs
    BY ReadOnlySame DEF ReadOnly
  <2>. QED BY <1>1, <1>2, <1>3, <2>1 DEF Walk
<1>. QED BY <1>4 DEF OneLog, ExportsExact

LEMMA TodoType ==
    ASSUME AuditInv
    PROVE  /\ {<<s, sessionLogs[s]>> : s \in RegisteredLogs} \in SUBSET (AuditSessions \X Nat)
           /\ Entries(RegisteredLogs) \in SUBSET (AuditSessions \X Nat)
<1>1. RegisteredLogs \in SUBSET AuditSessions
  BY DEF RegisteredLogs
<1>. QED BY <1>1, EntriesType DEF AuditInv, AuditShape

\* The read lock is taken, for an aggregate or for a summary.
LEMMA AggregateAllKeeps ==
    ASSUME AuditInv, ExportInv, AggregateAll PROVE ExportInv'
<1> DEFINE todo == {<<s, sessionLogs[s]>> : s \in RegisteredLogs}
           due == Entries(RegisteredLogs)
           v == [NoExport EXCEPT !.at = "walk", !.lock = TRUE, !.todo = todo, !.due = due]
           w == [v EXCEPT !.kind = "all"]
<1>1. export' = w /\ ReadOnly
  BY DEF AggregateAll, Aggregating, StartExport, exportLeaves, threadVars, ReadOnly
<1>2. todo \in SUBSET (AuditSessions \X Nat) /\ due \in SUBSET (AuditSessions \X Nat)
  BY TodoType
<1> HIDE DEF todo, due
<1>3. /\ w \in ExportRecords /\ w.at = "walk" /\ w.kind = "all" /\ w.lock = TRUE /\ w.answer = <<>>
      /\ w.due = due /\ w.todo = todo
  BY <1>2, NoExportIs DEF ExportRecords
<1> HIDE DEF w, v
<1>4. OneLog' /\ Walk' /\ ExportsExact'
  BY <1>1, <1>3, WalkBegins DEF todo, due
<1>. QED BY <1>1, <1>3, <1>4 DEF ExportInv, SummaryPlace, Summary

LEMMA SummariseKeeps ==
    ASSUME AuditInv, LogsInv, ExportInv, Summarise PROVE ExportInv'
<1> DEFINE ids == RegisteredLogs
           todo == {<<s, None>> : s \in RegisteredLogs}
           w == [NoExport EXCEPT !.at = "ids", !.kind = "summary", !.dropped = dropped, !.ids = ids, !.todo = todo]
<1>1. export' = w /\ ReadOnly
  BY DEF Summarise, StartExport, exportLeaves, threadVars, ReadOnly
<1>2. /\ ids \in SUBSET AuditSessions /\ todo \in SUBSET (AuditSessions \X Nat) /\ dropped \in SUBSET Nat
      /\ (\A p \in todo : p[1] \in ids) /\ \A s \in ids : \E p \in todo : p[1] = s
  <2>1. ids \in SUBSET AuditSessions
    BY DEF RegisteredLogs
  <2>2. todo \in SUBSET (AuditSessions \X Nat)
    BY <2>1 DEF None
  <2>3. dropped \in SUBSET Nat
    BY DEF LogsInv
  <2>4. \A p \in todo : p[1] \in ids
    OBVIOUS
  <2>5. \A s \in ids : <<s, None>> \in todo /\ <<s, None>>[1] = s
    OBVIOUS
  <2>. QED BY <2>1, <2>2, <2>3, <2>4, <2>5
<1>3. ids = RegisteredLogs /\ \A p \in todo : p[2] = None
  OBVIOUS
<1> HIDE DEF ids, todo
<1>4. /\ w \in ExportRecords /\ w.at = "ids" /\ w.kind = "summary" /\ w.answer = <<>> /\ w.dropped = dropped
      /\ w.ids = ids /\ w.todo = todo /\ w.counted = 0
  BY <1>2, NoExportIs DEF ExportRecords
<1> HIDE DEF w
<1>5. Outstanding' = {}
  BY <1>1, <1>2, <1>4 DEF Outstanding
<1>6. Summary'
  <2>1. RegisteredLogs' = RegisteredLogs
    BY <1>1, ReadOnlySame
  <2>2. Cardinality(Slots(Outstanding', Sizes')) = 0
    BY <1>5, SlotsNone
  <2>. QED BY <1>1, <1>2, <1>3, <1>4, <2>1, <2>2 DEF Summary
<1>. QED BY <1>1, <1>3, <1>4, <1>6 DEF ExportInv, OneLog, Walk, ExportsExact, SummaryPlace, ReadOnly

\* Nothing was dropped, so that what is outstanding is registered.
LEMMA OutstandingRegistered ==
    ASSUME ExportInv, export.kind = "summary", dropped = export.dropped
    PROVE  Outstanding \subseteq RegisteredLogs
BY DEF ExportInv, Summary, Walk, Outstanding

\* The steps of a summary: a session is looked up, its log is measured, the sessions
\* are counted, and the entries are collected.
LEMMA SummaryGetKeeps ==
    ASSUME AuditInv, LogsInv, ExportInv, SummaryGet PROVE ExportInv'
<1>1. PICK p \in export.todo :
        export' = [export EXCEPT !.at = IF sessionLogs[p[1]] = None THEN "ids" ELSE "len",
                                 !.todo = export.todo \ {p}, !.cur = <<p[1], sessionLogs[p[1]]>>]
  BY DEF SummaryGet
<1>2. ReadOnly /\ export.at = "ids" /\ export \in ExportRecords /\ SummaryPlace /\ Summary
  BY DEF SummaryGet, exportLeaves, threadVars, ReadOnly, ExportInv
<1>3. p[1] \in AuditSessions /\ sessionLogs[p[1]] \in Nat /\ sessionLogs[p[1]] <= Len(logs) /\ Len(logs) \in Nat
  BY <1>2 DEF ExportRecords, AuditInv, AuditShape
<1> DEFINE cur == <<p[1], sessionLogs[p[1]]>>
           place == IF sessionLogs[p[1]] = None THEN "ids" ELSE "len"
<1>4. cur \in AuditSessions \X Nat /\ place \in {"ids", "len"}
      /\ (place = "len" => cur \in AuditSessions \X (1..Len(logs)))
      /\ cur[1] = p[1] /\ cur[2] = sessionLogs[p[1]]
  BY <1>3 DEF None
<1>a. export' = [export EXCEPT !.at = place, !.todo = export.todo \ {p}, !.cur = cur]
  BY <1>1
<1> HIDE DEF cur, place
<1>5. /\ export' \in ExportRecords /\ export'.at = place /\ export'.todo = export.todo \ {p} /\ export'.cur = cur
      /\ export'.kind = export.kind /\ export'.answer = export.answer /\ export'.ids = export.ids
      /\ export'.counted = export.counted /\ export'.dropped = export.dropped
  BY <1>2, <1>4, <1>a DEF ExportRecords
<1>6. SummaryPlace'
  BY <1>2, <1>4, <1>5 DEF SummaryPlace, ReadOnly
<1>7. Summary'
  <2> SUFFICES ASSUME export.kind = "summary", dropped = export.dropped PROVE Summary'
    BY <1>2, <1>5 DEF Summary, ReadOnly
  <2>1. /\ export.ids \subseteq RegisteredLogs /\ \A q \in export.todo : q[1] \in export.ids
        /\ export.counted <= Len(export.answer) + Cardinality(Slots(Outstanding, Sizes))
    BY <1>2 DEF Summary
  <2>2. RegisteredLogs' = RegisteredLogs /\ Sizes' = Sizes /\ sessionLogs' = sessionLogs /\ dropped' = dropped
    BY <1>2, ReadOnlySame DEF ReadOnly
  <2>3. place = "len"
    BY <2>1, <1>2 DEF place, RegisteredLogs
  <2>4. \A q \in export.todo \ {p} : q[1] # p[1]
    <3>1. \A q \in export.todo : q[2] = None /\ q = <<q[1], q[2]>>
      BY <1>2 DEF SummaryPlace, ExportRecords
    <3>. QED BY <3>1
  <2>5. Outstanding' = Outstanding
    BY <1>2, <1>4, <1>5, <2>3, <2>4 DEF Outstanding
  <2>. QED BY <1>4, <1>5, <2>1, <2>2, <2>3, <2>4, <2>5 DEF Summary
<1>. QED BY <1>2, <1>4, <1>5, <1>6, <1>7 DEF ExportInv, OneLog, Walk, ExportsExact

LEMMA SummaryLenKeeps ==
    ASSUME AuditInv, LogsInv, ExportInv, SummaryLen PROVE ExportInv'
<1> DEFINE n == Len(logs[export.cur[2]])
           c == export.counted + n
<1>1. /\ ReadOnly /\ export.at = "len" /\ export \in ExportRecords /\ SummaryPlace /\ Summary
      /\ export' = [export EXCEPT !.at = "ids", !.counted = c]
  BY DEF SummaryLen, exportLeaves, threadVars, ReadOnly, ExportInv
<1>2. export.cur \in AuditSessions \X (1..Len(logs)) /\ n \in Nat /\ c \in Nat /\ export.counted \in Nat
  <2>1. export.cur \in AuditSessions \X (1..Len(logs)) /\ export.counted \in Nat
    BY <1>1 DEF SummaryPlace, ExportRecords
  <2>2. logs[export.cur[2]] \in Seq(Nat)
    BY <2>1 DEF AuditInv, AuditShape
  <2>. QED BY <2>1, <2>2
<1>3. c = export.counted + n
  OBVIOUS
<1> HIDE DEF c
<1>5. /\ export' \in ExportRecords /\ export'.at = "ids" /\ export'.todo = export.todo /\ export'.cur = export.cur
      /\ export'.kind = export.kind /\ export'.answer = export.answer /\ export'.ids = export.ids
      /\ export'.counted = c /\ export'.dropped = export.dropped
  BY <1>1, <1>2 DEF ExportRecords
<1>6. SummaryPlace'
  BY <1>1, <1>5 DEF SummaryPlace, ReadOnly
<1>7. Summary'
  <2> SUFFICES ASSUME export.kind = "summary", dropped = export.dropped PROVE Summary'
    BY <1>1, <1>5 DEF Summary, ReadOnly
  <2> DEFINE s == export.cur[1]
  <2>1. /\ export.ids \subseteq RegisteredLogs /\ \A q \in export.todo : q[1] \in export.ids /\ q[1] # s
        /\ s \in export.ids /\ export.cur[2] = sessionLogs[s]
        /\ export.counted <= Len(export.answer) + Cardinality(Slots(Outstanding, Sizes))
    BY <1>1 DEF Summary
  <2>2. RegisteredLogs' = RegisteredLogs /\ Sizes' = Sizes /\ sessionLogs' = sessionLogs /\ dropped' = dropped
    BY <1>1, ReadOnlySame DEF ReadOnly
  <2>3. Outstanding' = Outstanding \cup {s} /\ s \notin Outstanding
    BY <1>1, <1>5, <2>1 DEF Outstanding
  <2>4. s \in AuditSessions /\ sessionLogs[s] # None /\ Sizes[s] = n
    BY <2>1 DEF RegisteredLogs, Sizes
  <2>5. Outstanding \subseteq AuditSessions /\ IsFiniteSet(Outstanding)
    BY OutstandingRegistered, RegisteredFinite DEF RegisteredLogs
  <2> HIDE DEF s, n
  <2>6. Cardinality(Slots(Outstanding \cup {s}, Sizes)) = Cardinality(Slots(Outstanding, Sizes)) + n
    BY <2>3, <2>4, <2>5, SizesBounded, SlotsAdd
  <2>7. Cardinality(Slots(Outstanding, Sizes)) \in Nat /\ Len(export.answer) \in Nat
    BY <1>1, <2>5, SizesBounded, SlotsFinite DEF ExportRecords
  <2>8. c <= Len(export.answer) + Cardinality(Slots(Outstanding', Sizes'))
    BY <1>2, <1>3, <2>1, <2>2, <2>3, <2>6, <2>7
  <2>. QED BY <1>5, <2>1, <2>2, <2>8 DEF Summary
<1>. QED BY <1>1, <1>5, <1>6, <1>7 DEF ExportInv, OneLog, Walk, ExportsExact

LEMMA SummarySessionsKeeps ==
    ASSUME AuditInv, LogsInv, ExportInv, SummarySessions PROVE ExportInv'
<1> DEFINE c == Cardinality(RegisteredLogs)
<1>1. /\ ReadOnly /\ export.at = "ids" /\ export.todo = {} /\ export \in ExportRecords /\ SummaryPlace /\ Summary
      /\ export' = [export EXCEPT !.at = "sessions", !.sessions = c]
  BY DEF SummarySessions, exportLeaves, threadVars, ReadOnly, ExportInv
<1>2. c \in Nat
  BY RegisteredFinite DEF RegisteredLogs
<1> HIDE DEF c
<1>5. /\ export' \in ExportRecords /\ export'.at = "sessions" /\ export'.todo = export.todo
      /\ export'.kind = export.kind /\ export'.answer = export.answer /\ export'.ids = export.ids
      /\ export'.counted = export.counted /\ export'.dropped = export.dropped /\ export'.sessions = c
  BY <1>1, <1>2 DEF ExportRecords
<1>6. SummaryPlace'
  BY <1>1, <1>5 DEF SummaryPlace, ReadOnly
<1>7. Summary'
  <2> SUFFICES ASSUME export.kind = "summary", dropped = export.dropped PROVE Summary'
    BY <1>1, <1>5 DEF Summary, ReadOnly
  <2>1. /\ export.ids \subseteq RegisteredLogs
        /\ export.counted <= Len(export.answer) + Cardinality(Slots(Outstanding, Sizes))
    BY <1>1 DEF Summary
  <2>2. RegisteredLogs' = RegisteredLogs /\ Sizes' = Sizes /\ dropped' = dropped /\ Outstanding' = Outstanding
    BY <1>1, <1>5, ReadOnlySame DEF ReadOnly, Outstanding
  <2>3. Cardinality(export.ids) <= c /\ Cardinality(export.ids) \in Nat
    <3>1. IsFiniteSet(RegisteredLogs) /\ export.ids \in SUBSET RegisteredLogs /\ IsFiniteSet(export.ids)
      BY <2>1, RegisteredFinite DEF RegisteredLogs
    <3>. QED BY <3>1, FS_Subset, FS_CardinalityType DEF c
  <2>4. c >= Cardinality(export.ids)
    BY <1>2, <2>3
  <2>. QED BY <1>5, <2>1, <2>2, <2>4 DEF Summary
<1>. QED BY <1>1, <1>5, <1>6, <1>7 DEF ExportInv, OneLog, Walk, ExportsExact

LEMMA SummaryEntriesKeeps ==
    ASSUME AuditInv, LogsInv, ExportInv, SummaryEntries PROVE ExportInv'
<1> DEFINE todo == {<<s, sessionLogs[s]>> : s \in RegisteredLogs}
           due == Entries(RegisteredLogs)
<1>1. /\ ReadOnly /\ export.at = "sessions" /\ export \in ExportRecords /\ SummaryPlace /\ Summary
      /\ export' = [export EXCEPT !.at = "walk", !.lock = TRUE, !.todo = todo, !.due = due]
  BY DEF SummaryEntries, Aggregating, exportLeaves, threadVars, ReadOnly, ExportInv
<1>2. todo \in SUBSET (AuditSessions \X Nat) /\ due \in SUBSET (AuditSessions \X Nat)
  BY TodoType
<1>3. {p[1] : p \in todo} = RegisteredLogs
  <2>1. \A s \in RegisteredLogs : <<s, sessionLogs[s]>> \in todo /\ <<s, sessionLogs[s]>>[1] = s
    OBVIOUS
  <2>2. \A p \in todo : p[1] \in RegisteredLogs
    OBVIOUS
  <2> HIDE DEF todo
  <2>. QED BY <2>1, <2>2
<1> HIDE DEF todo, due
<1>5. /\ export' \in ExportRecords /\ export'.at = "walk" /\ export'.lock = TRUE /\ export'.todo = todo /\ export'.due = due
      /\ export'.kind = export.kind /\ export'.answer = export.answer /\ export'.ids = export.ids
      /\ export'.counted = export.counted /\ export'.dropped = export.dropped /\ export'.sessions = export.sessions
      /\ export.kind = "summary" /\ export.answer = <<>> /\ export.todo = {}
  BY <1>1, <1>2 DEF ExportRecords, SummaryPlace
<1>6. OneLog' /\ Walk' /\ ExportsExact'
  BY <1>1, <1>5, WalkBegins DEF todo, due
<1>7. Summary'
  <2> SUFFICES ASSUME export.kind = "summary", dropped = export.dropped PROVE Summary'
    BY <1>1, <1>5 DEF Summary, ReadOnly
  <2>1. /\ export.ids \subseteq RegisteredLogs /\ export.sessions >= Cardinality(export.ids)
        /\ export.counted <= Len(export.answer) + Cardinality(Slots(Outstanding, Sizes))
    BY <1>1 DEF Summary
  <2>2. RegisteredLogs' = RegisteredLogs /\ Sizes' = Sizes /\ dropped' = dropped /\ Outstanding' = RegisteredLogs
    BY <1>1, <1>3, <1>5, ReadOnlySame DEF ReadOnly, Outstanding
  <2>3. Outstanding \subseteq RegisteredLogs /\ RegisteredLogs \subseteq AuditSessions
    BY OutstandingRegistered DEF RegisteredLogs
  <2>4. IsFiniteSet(RegisteredLogs) /\ IsFiniteSet(Outstanding)
    BY <2>3, RegisteredFinite
  <2>5. \A s \in RegisteredLogs : Sizes[s] \in 0..MaxEntries /\ Sizes[s] \in Nat /\ Sizes[s] <= Sizes[s]
    BY <2>3, SizesBounded, AuditAssumption
  <2>6. Cardinality(Slots(Outstanding, Sizes)) <= Cardinality(Slots(RegisteredLogs, Sizes))
    BY <2>3, <2>4, <2>5, SlotsGrow
  <2>7. /\ Cardinality(Slots(Outstanding, Sizes)) \in Nat /\ Cardinality(Slots(RegisteredLogs, Sizes)) \in Nat
        /\ Len(export.answer) \in Nat /\ export.counted \in Nat
    BY <1>1, <2>3, <2>4, <2>5, SlotsFinite DEF ExportRecords
  <2>8. export.counted <= Len(export.answer) + Cardinality(Slots(Outstanding', Sizes'))
    BY <2>1, <2>2, <2>6, <2>7
  <2>. QED BY <1>5, <2>1, <2>2, <2>8 DEF Summary
<1>. QED BY <1>1, <1>5, <1>6, <1>7 DEF ExportInv, SummaryPlace, ReadOnly

\* A log on the list, as the entries of its session.
LEMMA OfLog ==
    ASSUME AuditInv, LogsInv, NEW p \in AuditSessions \X Nat, p[1] \in RegisteredLogs, p[2] = sessionLogs[p[1]]
    PROVE  /\ Of(p) \in Seq(AuditSessions \X Nat) /\ Len(Of(p)) = Sizes[p[1]]
           /\ \A i, j \in DOMAIN Of(p) : Of(p)[i][2] = Of(p)[j][2] => i = j
           /\ \A e \in Range(Of(p)) : e[1] = p[1] /\ \E r \in recorded : r[1] = p[1] /\ r[2] = p[2] /\ r[3] = e[2]
           /\ \A n \in Range(logs[p[2]]) : <<p[1], n>> \in Range(Of(p))
<1> DEFINE s == p[1]
           log == logs[p[2]]
           ans == Of(p)
<1>1. p[2] \in 1..Len(logs) /\ s \in AuditSessions /\ Owned(p[2], s)
  BY DEF RegisteredLogs, AuditInv, AuditShape, Owners, None
<1>2. log \in Seq(Nat) /\ OnceEach(log)
  BY <1>1 DEF AuditInv, AuditShape, LogsInv
<1>3. \A n \in Range(log) : \E r \in recorded : r[1] = s /\ r[2] = p[2] /\ r[3] = n
  <2>1. \A n \in Range(log) : \E r \in recorded : r[2] = p[2] /\ r[3] = n
    BY <1>1 DEF AuditInv, NumbersUnique
  <2>. QED BY <1>1, <2>1 DEF Owned
<1>4. Sizes[s] = Len(log)
  BY <1>1 DEF Sizes, RegisteredLogs
<1>5. ans = [i \in DOMAIN log |-> <<s, log[i]>>]
  BY DEF Of
<1> HIDE DEF ans, log, s
<1>6. DOMAIN ans = 1..Len(log) /\ DOMAIN log = 1..Len(log) /\ Len(log) \in Nat
  BY <1>2, <1>5
<1>7. \A i \in 1..Len(log) : ans[i] = <<s, log[i]>> /\ ans[i] \in AuditSessions \X Nat
  BY <1>1, <1>2, <1>5, <1>6
<1>8. ans \in Seq(AuditSessions \X Nat) /\ Len(ans) = Len(log)
  <2>1. ans = [i \in 1..Len(log) |-> ans[i]]
    BY <1>5, <1>6
  <2>. QED BY <1>6, <1>7, <2>1
<1>9. \A i, j \in DOMAIN ans : ans[i][2] = ans[j][2] => i = j
  BY <1>2, <1>6, <1>7 DEF OnceEach
<1>10. /\ \A e \in Range(ans) : e[1] = s /\ e[2] \in Range(log)
       /\ \A n \in Range(log) : <<s, n>> \in Range(ans)
  BY <1>6, <1>7 DEF Range
<1>11. \A e \in Range(ans) : e[1] = s /\ \E r \in recorded : r[1] = s /\ r[2] = p[2] /\ r[3] = e[2]
  BY <1>3, <1>10
<1>. QED BY <1>4, <1>8, <1>9, <1>10, <1>11 DEF ans, s, log

\* The answer with one more log.
LEMMA JoinedDistinct ==
    ASSUME NEW X, NEW a \in Seq(X), NEW b \in Seq(X), Distinct(a), Distinct(b),
           \A e \in Range(a) : \A d \in Range(b) : e[2] # d[2]
    PROVE  Distinct(a \o b) /\ Range(a \o b) = Range(a) \cup Range(b)
<1> DEFINE c == a \o b
<1>1. /\ Len(c) = Len(a) + Len(b) /\ DOMAIN c = 1..(Len(a) + Len(b)) /\ DOMAIN a = 1..Len(a) /\ DOMAIN b = 1..Len(b)
      /\ Len(a) \in Nat /\ Len(b) \in Nat
      /\ \A i \in 1..Len(a) : c[i] = a[i]
      /\ \A i \in 1..Len(b) : c[Len(a) + i] = b[i]
  OBVIOUS
<1> HIDE DEF c
<1>2. \A i \in DOMAIN c :
         \/ i \in DOMAIN a /\ c[i] = a[i]
         \/ i - Len(a) \in DOMAIN b /\ c[i] = b[i - Len(a)]
  <2> SUFFICES ASSUME NEW i \in DOMAIN c, i \notin DOMAIN a PROVE i - Len(a) \in DOMAIN b /\ c[i] = b[i - Len(a)]
    BY <1>1
  <2>1. i - Len(a) \in 1..Len(b) /\ Len(a) + (i - Len(a)) = i
    BY <1>1
  <2>. QED BY <1>1, <2>1
<1>3. \A i \in DOMAIN a : a[i] \in Range(a)
  BY DEF Range
<1>4. \A i \in DOMAIN b : b[i] \in Range(b)
  BY DEF Range
<1>5. Distinct(c)
  <2> SUFFICES ASSUME NEW i \in DOMAIN c, NEW j \in DOMAIN c, c[i][2] = c[j][2] PROVE i = j
    BY DEF Distinct
  <2>1. CASE i \in DOMAIN a /\ c[i] = a[i] /\ j \in DOMAIN a /\ c[j] = a[j]
    BY <2>1 DEF Distinct
  <2>2. CASE i - Len(a) \in DOMAIN b /\ c[i] = b[i - Len(a)] /\ j - Len(a) \in DOMAIN b /\ c[j] = b[j - Len(a)]
    <3>1. i - Len(a) = j - Len(a)
      BY <2>2 DEF Distinct
    <3>2. i \in Int /\ j \in Int
      BY <1>1
    <3>. QED BY <1>1, <3>1, <3>2
  <2>3. CASE i \in DOMAIN a /\ c[i] = a[i] /\ j - Len(a) \in DOMAIN b /\ c[j] = b[j - Len(a)]
    BY <2>3, <1>3, <1>4
  <2>4. CASE j \in DOMAIN a /\ c[j] = a[j] /\ i - Len(a) \in DOMAIN b /\ c[i] = b[i - Len(a)]
    BY <2>4, <1>3, <1>4
  <2>. QED BY <1>2, <2>1, <2>2, <2>3, <2>4
<1>6. Range(c) = Range(a) \cup Range(b)
  <2>1. Range(c) \subseteq Range(a) \cup Range(b)
    BY <1>2, <1>3, <1>4 DEF Range
  <2>2. Range(a) \subseteq Range(c)
    BY <1>1 DEF Range
  <2>3. ASSUME NEW i \in DOMAIN b PROVE b[i] \in Range(c)
    <3>1. Len(a) + i \in DOMAIN c /\ c[Len(a) + i] = b[i]
      BY <1>1
    <3>. QED BY <3>1 DEF Range
  <2>. QED BY <2>1, <2>2, <2>3 DEF Range
<1>. QED BY <1>5, <1>6 DEF c

\* The walk copies a log, and in the end sorts and cuts the answer.
LEMMA AggregateLogKeeps ==
    ASSUME AuditInv, LogsInv, ExportInv, AggregateLog PROVE ExportInv'
<1>1. PICK p \in export.todo : export' = [export EXCEPT !.todo = export.todo \ {p}, !.answer = export.answer \o Of(p)]
  BY DEF AggregateLog
<1>2. ReadOnly /\ export.at = "walk" /\ export \in ExportRecords /\ SummaryPlace /\ Summary /\ Walk
  BY DEF AggregateLog, exportLeaves, threadVars, ReadOnly, ExportInv
<1> DEFINE a == export.answer
           b == Of(p)
           s == p[1]
           c == a \o b
<1>3. p \in AuditSessions \X Nat /\ s \in RegisteredLogs /\ p[2] = sessionLogs[s] /\ a \in Seq(AuditSessions \X Nat)
  BY <1>2 DEF Walk, ExportRecords
<1>4. /\ b \in Seq(AuditSessions \X Nat) /\ Len(b) = Sizes[s] /\ Distinct(b)
      /\ \A e \in Range(b) : e[1] = s /\ \E r \in recorded : r[1] = s /\ r[2] = p[2] /\ r[3] = e[2]
      /\ \A n \in Range(logs[p[2]]) : <<s, n>> \in Range(b)
  BY <1>3, OfLog DEF Distinct
<1>5. /\ Distinct(a)
      /\ \A e \in Range(a) : IsRecorded(e) /\ e[1] # s
  BY <1>2 DEF Walk
<1>6. \A e \in Range(a) : \A d \in Range(b) : e[2] # d[2]
  <2> SUFFICES ASSUME NEW e \in Range(a), NEW d \in Range(b), e[2] = d[2] PROVE FALSE
    OBVIOUS
  <2> HIDE DEF a, b, s
  <2>1. PICK q \in recorded : q[1] = e[1] /\ q[3] = e[2]
    BY <1>5 DEF IsRecorded
  <2>2. PICK r \in recorded : r[1] = s /\ r[3] = d[2]
    BY <1>4
  <2>3. q = r
    BY <2>1, <2>2 DEF LogsInv
  <2>. QED BY <1>5, <2>1, <2>2, <2>3
<1> HIDE DEF a, b
<1>7. Distinct(c) /\ Range(c) = Range(a) \cup Range(b)
  BY <1>3, <1>4, <1>5, <1>6, JoinedDistinct
<1>8. c \in Seq(AuditSessions \X Nat) /\ Len(c) = Len(a) + Len(b)
  BY <1>3, <1>4, ConcatProperties
<1>9. export' = [export EXCEPT !.todo = export.todo \ {p}, !.answer = c]
  BY <1>1 DEF a, b
<1> HIDE DEF c
<1>10. /\ export' \in ExportRecords /\ export'.at = "walk" /\ export'.lock = export.lock
       /\ export'.todo = export.todo \ {p} /\ export'.due = export.due
       /\ export'.kind = export.kind /\ export'.answer = c /\ export'.ids = export.ids
       /\ export'.counted = export.counted /\ export'.dropped = export.dropped /\ export'.sessions = export.sessions
  BY <1>2, <1>8, <1>9 DEF ExportRecords
<1>11. \A q \in export.todo \ {p} : q[1] # s
  <2>1. \A q \in export.todo : q[2] = sessionLogs[q[1]] /\ q = <<q[1], q[2]>>
    BY <1>2 DEF Walk, ExportRecords
  <2>. QED BY <2>1
<1>12. Walk'
  <2>1. /\ RegisteredLogs' = RegisteredLogs /\ sessionLogs' = sessionLogs /\ logs' = logs
        /\ \A u, n : Trimmed(u, n)' <=> Trimmed(u, n)
        /\ \A e : IsRecorded(e)' <=> IsRecorded(e)
    BY <1>2, ReadOnlySame DEF ReadOnly
  <2>2. \A e \in Range(c) : IsRecorded(e)' /\ \A q \in export'.todo : q[1] # e[1]
    <3>1. ASSUME NEW e \in Range(a) PROVE IsRecorded(e) /\ \A q \in export.todo : q[1] # e[1]
      BY <1>2, <3>1 DEF Walk, a
    <3>2. ASSUME NEW e \in Range(b) PROVE IsRecorded(e) /\ \A q \in export.todo \ {p} : q[1] # e[1]
      <4> HIDE DEF s
      <4>. QED BY <1>4, <1>11, <3>2 DEF IsRecorded
    <3>. QED BY <1>7, <1>10, <2>1, <3>1, <3>2
  <2>3. \A e \in export.due :
           \/ Trimmed(e[1], e[2])' \/ e \in Range(c)
           \/ \E q \in export'.todo : q[1] = e[1] /\ e[2] \in Range(logs[q[2]])
    <3> SUFFICES ASSUME NEW e \in export.due, ~Trimmed(e[1], e[2]), e \notin Range(c)
                 PROVE  \E q \in export.todo \ {p} : q[1] = e[1] /\ e[2] \in Range(logs[q[2]])
      BY <1>10, <2>1
    <3>1. e \notin Range(a) /\ e \notin Range(b) /\ e = <<e[1], e[2]>>
      BY <1>2, <1>7 DEF ExportRecords
    <3>2. PICK q \in export.todo : q[1] = e[1] /\ e[2] \in Range(logs[q[2]])
      BY <1>2, <3>1 DEF Walk, a
    <3>3. q # p
      BY <1>4, <3>1, <3>2
    <3>. QED BY <3>2, <3>3
  <2>. QED BY <1>2, <1>7, <1>10, <2>1, <2>2, <2>3 DEF Walk
<1>13. Summary'
  <2> SUFFICES ASSUME export.kind = "summary", dropped = export.dropped PROVE Summary'
    BY <1>2, <1>10 DEF Summary, ReadOnly
  <2>1. /\ export.ids \subseteq RegisteredLogs /\ export.sessions >= Cardinality(export.ids)
        /\ export.counted <= Len(a) + Cardinality(Slots(Outstanding, Sizes))
    BY <1>2 DEF Summary, a
  <2>2. RegisteredLogs' = RegisteredLogs /\ Sizes' = Sizes /\ dropped' = dropped
    BY <1>2, ReadOnlySame DEF ReadOnly
  <2>3. Outstanding = {q[1] : q \in export.todo} /\ Outstanding' = {q[1] : q \in export.todo \ {p}}
    BY <1>2, <1>10 DEF Outstanding
  <2>4. Outstanding = Outstanding' \cup {s} /\ s \notin Outstanding'
    BY <1>11, <2>3
  <2>5. Outstanding \subseteq AuditSessions /\ IsFiniteSet(Outstanding') /\ s \in AuditSessions
    <3>1. Outstanding \subseteq AuditSessions
      BY OutstandingRegistered DEF RegisteredLogs
    <3>2. Outstanding' \in SUBSET AuditSessions /\ s \in AuditSessions
      BY <2>4, <3>1
    <3>3. PICK K \in SUBSET AuditSessions : K = Outstanding'
      BY <3>2
    <3>4. IsFiniteSet(K)
      BY RegisteredFinite
    <3>. QED BY <3>1, <3>2, <3>3, <3>4
  <2> HIDE DEF s
  <2>6. PICK K \in SUBSET AuditSessions : K = Outstanding'
    BY <2>4, <2>5
  <2>7. \A u \in AuditSessions : Sizes[u] \in 0..MaxEntries
    BY SizesBounded
  <2>8. Cardinality(Slots(K \cup {s}, Sizes)) = Cardinality(Slots(K, Sizes)) + Sizes[s]
    BY <2>4, <2>5, <2>6, <2>7, SlotsAdd
  <2>9. Cardinality(Slots(K, Sizes)) \in Nat /\ Sizes[s] \in Nat
    BY <2>5, <2>6, <2>7, SlotsFinite, AuditAssumption
  <2>10. Outstanding = K \cup {s}
    BY <2>4, <2>6
  <2>11. export.counted <= Len(c) + Cardinality(Slots(K, Sizes))
    <3>1. export.counted \in Nat /\ Len(a) \in Nat
      BY <1>2, <1>3 DEF ExportRecords
    <3>. QED BY <1>4, <1>8, <2>1, <2>8, <2>9, <2>10, <3>1
  <2>. QED BY <1>10, <2>1, <2>2, <2>6, <2>11 DEF Summary
<1>14. OneLog' /\ ExportsExact' /\ SummaryPlace'
  BY <1>2, <1>10 DEF OneLog, ExportsExact, SummaryPlace, ReadOnly
<1>. QED BY <1>10, <1>12, <1>13, <1>14 DEF ExportInv

LEMMA AggregateSortKeeps ==
    ASSUME AuditInv, LogsInv, ExportInv, AggregateSort PROVE ExportInv'
<1> DEFINE a == export.answer
           c == Sorted(a)
<1>1. ReadOnly /\ export.at = "walk" /\ export.todo = {} /\ export \in ExportRecords /\ SummaryPlace /\ Summary /\ Walk
  BY DEF AggregateSort, exportLeaves, threadVars, ReadOnly, ExportInv
<1>2. export' = [export EXCEPT !.at = "done", !.lock = FALSE, !.answer = c]
  BY DEF AggregateSort
<1>3. a \in Seq(AuditSessions \X Nat) /\ Distinct(a) /\ \A e \in Range(a) : IsRecorded(e)
  BY <1>1 DEF Walk, ExportRecords
<1>4. \A e \in export.due : Trimmed(e[1], e[2]) \/ e \in Range(a)
  BY <1>1 DEF Walk
<1>5. Arranges(c, a)
  <2>1. Numbered(AuditSessions \X Nat)
    BY DEF Numbered
  <2>. QED BY <1>3, <2>1, SortedArranges
<1> HIDE DEF c
<1>6. c \in [1..Len(a) -> Range(a)] /\ Range(c) = Range(a) /\ Falling(c) /\ Len(a) \in Nat
  BY <1>3, <1>5 DEF Arranges
<1>7. \A e \in Range(a) : e \in AuditSessions \X Nat
  BY <1>3 DEF Range
<1>8. c \in Seq(AuditSessions \X Nat) /\ Len(c) = Len(a) /\ DOMAIN c = 1..Len(a)
  <2>1. c \in [1..Len(a) -> AuditSessions \X Nat]
    BY <1>6, <1>7
  <2>. QED BY <1>6, <2>1
<1>9. \A i, j \in DOMAIN c : c[i] = c[j] => i = j
  <2> SUFFICES ASSUME NEW i \in DOMAIN c, NEW j \in DOMAIN c, c[i] = c[j], i # j PROVE FALSE
    OBVIOUS
  <2>1. c[i] \in AuditSessions \X Nat /\ c[i][2] \in Nat /\ i \in Nat /\ j \in Nat
    BY <1>8
  <2>2. i < j \/ j < i
    BY <2>1
  <2>3. c[i][2] > c[j][2] \/ c[j][2] > c[i][2]
    BY <1>6, <2>2 DEF Falling
  <2>. QED BY <2>1, <2>3
<1>10. Cardinality(Range(c)) = Len(c)
  BY <1>8, <1>9, ShownOnce
<1>11. /\ export' \in ExportRecords /\ export'.at = "done"
       /\ export'.todo = export.todo /\ export'.due = export.due
       /\ export'.kind = export.kind /\ export'.answer = c /\ export'.ids = export.ids
       /\ export'.counted = export.counted /\ export'.dropped = export.dropped /\ export'.sessions = export.sessions
  BY <1>1, <1>2, <1>8 DEF ExportRecords
<1>12. ExportsExact'
  <2>1. /\ \A u, n : Trimmed(u, n)' <=> Trimmed(u, n)
        /\ \A e : IsRecorded(e)' <=> IsRecorded(e)
        /\ recorded' = recorded
    BY <1>1, ReadOnlySame DEF ReadOnly
  <2>2. export'.kind # "session"
    BY <1>1, <1>11 DEF Walk
  <2>3. \A e \in export'.due : e \in Range(c) \/ Trimmed(e[1], e[2])'
    BY <1>4, <1>6, <1>11, <2>1
  <2>4. \A e \in Range(c) : \E r \in recorded' : r[1] = e[1] /\ r[3] = e[2]
    BY <1>3, <1>6, <2>1 DEF IsRecorded
  <2>5. \A i, j \in DOMAIN c : i < j => c[i][2] > c[j][2]
    BY <1>6 DEF Falling
  <2>. QED BY <1>10, <1>11, <2>2, <2>3, <2>4, <2>5 DEF ExportsExact
<1>13. Summary'
  <2> SUFFICES ASSUME export.kind = "summary", dropped = export.dropped PROVE Summary'
    BY <1>1, <1>11 DEF Summary, ReadOnly
  <2>1. /\ export.ids \subseteq RegisteredLogs /\ export.sessions >= Cardinality(export.ids)
        /\ export.counted <= Len(a) + Cardinality(Slots(Outstanding, Sizes))
    BY <1>1 DEF Summary
  <2>2. RegisteredLogs' = RegisteredLogs /\ dropped' = dropped
    BY <1>1, ReadOnlySame DEF ReadOnly
  <2>3. Outstanding = {} /\ Outstanding' = {}
    BY <1>1, <1>11 DEF Outstanding
  <2>4. Cardinality(Slots(Outstanding, Sizes)) = 0 /\ Cardinality(Slots(Outstanding', Sizes')) = 0
    BY <2>3, SlotsNone
  <2>. QED BY <1>8, <1>11, <2>1, <2>2, <2>4 DEF Summary
<1>. QED BY <1>1, <1>11, <1>12, <1>13 DEF ExportInv, OneLog, Walk, SummaryPlace, ReadOnly

\* Whoever makes a step.
LEMMA ExportStep ==
    AuditInv /\ LogsInv /\ ExportInv /\ [AuditNext]_auditVars => ExportInv'
<1> SUFFICES ASSUME AuditInv, LogsInv, ExportInv, [AuditNext]_auditVars PROVE ExportInv'
  OBVIOUS
<1>0. AuditInv' /\ LogsStay /\ LogsInv' /\ LogsGrow
  BY AuditStep, LogsStep
<1>1. CASE UNCHANGED export
  BY <1>0, <1>1, ExportLeft
<1>2. CASE Exporting
  BY <1>2, ExportSessionKeeps, ExportLogKeeps, AggregateAllKeeps, AggregateLogKeeps, AggregateSortKeeps,
     SummariseKeeps, SummaryGetKeeps, SummaryLenKeeps, SummarySessionsKeeps, SummaryEntriesKeeps DEF Exporting
<1>3. ASSUME NEW f \in Flushers,
             \/ FlushAll(f) \/ \E s \in AuditSessions : FlushSession(f, s)
             \/ Export(f) \/ WriteFile(f) \/ WriteFails(f) \/ Count(f)
      PROVE  ExportInv'
  BY <1>1, <1>3 DEF FlushAll, FlushSession, Export, WriteFile, WriteFails, Count
<1>4. ASSUME NEW t \in Threads,
             \/ \E s \in AuditSessions : RecordToolCall(t, s)
             \/ Lookup(t) \/ Insert(t) \/ DrawNumber(t) \/ Push(t)
      PROVE  ExportInv'
  BY <1>1, <1>4 DEF RecordToolCall, Lookup, Insert, DrawNumber, Push
<1>5. ASSUME NEW s \in AuditSessions, RemoveSession(s) PROVE ExportInv'
  BY <1>1, <1>5 DEF RemoveSession
<1>6. CASE UNCHANGED auditVars
  BY <1>1, <1>6 DEF auditVars
<1>. QED BY <1>2, <1>3, <1>4, <1>5, <1>6 DEF AuditNext

\* For any number of sessions, threads and limits, through every race of
\* AuditRegistry::get_or_create with itself, with evictions, removals and flushes: the
\* registry keeps its limit of sessions; an entry that record_full pushed is in the log
\* its session is registered with, or in one that was dropped, and in no other session's;
\* an export of one session or of all has every entry it had to have and that was not
\* trimmed, each once, only of its sessions and, over all sessions, newest first; and
\* the parts of the summary disagree downwards only when a session was dropped meanwhile.
THEOREM EntriesKeptHolds == AuditSpec => []EntriesKept
<1>1. AuditInit => AuditInv /\ LogsInv /\ ExportInv
  BY AuditInitInv, LogsInit, ExportInit
<1>2. AuditInv /\ LogsInv /\ ExportInv /\ [AuditNext]_auditVars => AuditInv' /\ LogsInv' /\ ExportInv'
  BY AuditStep, LogsStep, ExportStep
<1>3. AuditInv /\ LogsInv /\ ExportInv => EntriesKept
  <2> SUFFICES ASSUME AuditInv, LogsInv, ExportInv PROVE EntriesKept
    OBVIOUS
  <2>1. RegistryBounded /\ NoOrphanEntry /\ LogsIsolated
    BY DEF AuditInv, NotOrphaned, Owners, Owned, LogsIsolated, RegisteredLogs
  <2>2. SummaryGrows
    <3> SUFFICES ASSUME export.at = "done", export.kind = "summary", dropped = export.dropped
                 PROVE  Len(export.answer) >= export.counted /\ export.sessions >= Cardinality(export.ids)
      BY DEF SummaryGrows
    <3>1. Outstanding = {}
      BY DEF Outstanding
    <3>2. Cardinality(Slots(Outstanding, Sizes)) = 0
      BY <3>1, SlotsNone
    <3>3. export.counted \in Nat /\ Len(export.answer) \in Nat
      BY DEF ExportInv, ExportRecords
    <3>. QED BY <3>2, <3>3 DEF ExportInv, Summary
  <2>. QED BY <2>1, <2>2 DEF EntriesKept, ExportInv
<1>. QED BY <1>1, <1>2, <1>3, PTL DEF AuditSpec
================================================================================
