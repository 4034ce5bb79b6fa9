--------------------------- MODULE AuditRegistry ---------------------------
(***************************************************************************)
(* The audit registry of src/audit.rs: one ring-buffered log per session   *)
(* behind a reader-writer lock.  Threads that finished a tool call fetch   *)
(* the log of their session (get_or_create), draw a sequence number and    *)
(* push an entry; sessions are evicted or removed meanwhile, and flushers  *)
(* write the logs to disk.  A log is named by its position in "logs"; a    *)
(* thread that holds an Arc keeps the log alive after its removal.         *)
(***************************************************************************)
EXTENDS Integers, FiniteSets, Sequences, Functions, TLC

CONSTANTS
    Threads,      \* threads that record tool calls
    Flushers,     \* callers of flush_all and of the per-session flush
    AuditSessions,\* session ids
    MaxSessions,  \* MAX_AUDIT_SESSIONS
    MaxEntries,   \* MAX_AUDIT_ENTRIES
    MaxRecords,   \* bound: tool calls recorded
    MaxRemovals,  \* bound: sessions deleted or expired
    MaxFlushes    \* bound: flushes and exports started

ASSUME AuditAssumption ==
    /\ IsFiniteSet(AuditSessions) /\ IsFiniteSet(Threads) /\ IsFiniteSet(Flushers)
    /\ MaxSessions \in Nat \ {0} /\ MaxEntries \in Nat \ {0}
    /\ MaxRecords \in Nat /\ MaxRemovals \in Nat /\ MaxFlushes \in Nat

VARIABLES
    sessionLogs, \* AuditRegistry.sessions: session -> log, or None
    logs,       \* the entries (sequence numbers) of every log ever created
    audit_seq,  \* AUDIT_SEQUENCE
    pc, sid, arc, seq,   \* each recording thread: step, session, Arc, number drawn
    flush,      \* each flusher's state
    disk,       \* the file of each session
    export,     \* the export or the summary an endpoint is putting together
    recorded,   \* history: <<session, log, sequence>> of completed records
    dropped,    \* history: logs evicted or removed
    began, removals, flushes   \* counters for the bounds

threadVars == <<pc, sid, arc, seq>>
bounds == <<began, removals, flushes>>
auditVars == <<sessionLogs, logs, audit_seq, threadVars, flush, disk, export, recorded, dropped, bounds>>

None == 0

RegisteredLogs == {s \in AuditSessions : sessionLogs[s] # None}

\* flush_all holds the read lock from its first file to its last, and aggregate_all
\* from its first log to its last.
WriteLockFree == ~export.lock /\ \A f \in Flushers : ~flush[f].lock

IdleFlusher == [at |-> "idle", lock |-> FALSE, todo |-> {}, cur |-> <<>>, json |-> <<>>,
                total |-> 0, written |-> 0, due |-> {}, ok |-> FALSE]

NoExport == [at |-> "idle", kind |-> "none", lock |-> FALSE, todo |-> {}, cur |-> <<>>, answer |-> <<>>,
             ids |-> {}, counted |-> 0, sessions |-> 0, due |-> {}, dropped |-> {}]

AuditInit ==
    /\ sessionLogs = [s \in AuditSessions |-> None]
    /\ logs = <<>>
    /\ audit_seq = 1
    /\ pc = [t \in Threads |-> "idle"]
    /\ sid = [t \in Threads |-> None]
    /\ arc = [t \in Threads |-> None]
    /\ seq = [t \in Threads |-> 0]
    /\ flush = [f \in Flushers |-> IdleFlusher]
    /\ disk = [s \in AuditSessions |-> <<>>]
    /\ export = NoExport
    /\ recorded = {} /\ dropped = {}
    /\ began = 0 /\ removals = 0 /\ flushes = 0

-----------------------------------------------------------------------------
\* record_tool_call and its variants, from the end of a tool call.
RecordToolCall(t, s) ==
    /\ pc[t] = "idle" /\ began < MaxRecords
    /\ began' = began + 1
    /\ sid' = [sid EXCEPT ![t] = s]
    /\ pc' = [pc EXCEPT ![t] = "lookup"]
    /\ UNCHANGED <<sessionLogs, logs, audit_seq, arc, seq, flush, disk, export, recorded, dropped,
                   removals, flushes>>

\* get_or_create, fast path under the read lock.
Lookup(t) ==
    /\ pc[t] = "lookup"
    /\ arc' = [arc EXCEPT ![t] = sessionLogs[sid[t]]]
    /\ pc' = [pc EXCEPT ![t] = IF sessionLogs[sid[t]] = None THEN "insert" ELSE "number"]
    /\ UNCHANGED <<sessionLogs, logs, audit_seq, sid, seq, flush, disk, export, recorded, dropped, bounds>>

\* Faulty variant: the slow path trusts the miss of the fast path.
InsertUnrechecked(t) ==
    /\ pc[t] = "insert" /\ WriteLockFree
    /\ \E victims \in IF Cardinality(RegisteredLogs) >= MaxSessions
                        THEN {{s} : s \in RegisteredLogs} ELSE {{}} :
         /\ logs' = Append(logs, <<>>)
         /\ sessionLogs' = [s \in AuditSessions |-> IF s = sid[t] THEN Len(logs) + 1
                                                 ELSE IF s \in victims THEN None ELSE sessionLogs[s]]
         /\ dropped' = dropped \cup {sessionLogs[s] : s \in victims}
         /\ arc' = [arc EXCEPT ![t] = Len(logs) + 1]
    /\ pc' = [pc EXCEPT ![t] = "number"]
    /\ UNCHANGED <<audit_seq, sid, seq, flush, disk, export, recorded, bounds>>

\* Faulty variant: a full registry still takes a new session.
InsertUnbounded(t) ==
    /\ pc[t] = "insert" /\ WriteLockFree
    /\ IF sessionLogs[sid[t]] # None
         THEN /\ arc' = [arc EXCEPT ![t] = sessionLogs[sid[t]]]
              /\ UNCHANGED <<sessionLogs, logs>>
         ELSE /\ logs' = Append(logs, <<>>)
              /\ sessionLogs' = [sessionLogs EXCEPT ![sid[t]] = Len(logs) + 1]
              /\ arc' = [arc EXCEPT ![t] = Len(logs) + 1]
    /\ pc' = [pc EXCEPT ![t] = "number"]
    /\ UNCHANGED <<audit_seq, sid, seq, flush, disk, export, recorded, dropped, bounds>>

\* Faulty variant: the buffer of the evicted session is handed to the new one.
InsertRecycles(t) ==
    /\ pc[t] = "insert" /\ WriteLockFree
    /\ IF sessionLogs[sid[t]] # None
         THEN /\ arc' = [arc EXCEPT ![t] = sessionLogs[sid[t]]]
              /\ UNCHANGED <<sessionLogs, logs, dropped>>
         ELSE IF Cardinality(RegisteredLogs) >= MaxSessions
           THEN \E s \in RegisteredLogs :
                  /\ sessionLogs' = [sessionLogs EXCEPT ![s] = None, ![sid[t]] = sessionLogs[s]]
                  /\ arc' = [arc EXCEPT ![t] = sessionLogs[s]]
                  /\ dropped' = dropped \cup {sessionLogs[s]}
                  /\ UNCHANGED logs
           ELSE /\ logs' = Append(logs, <<>>)
                /\ sessionLogs' = [sessionLogs EXCEPT ![sid[t]] = Len(logs) + 1]
                /\ arc' = [arc EXCEPT ![t] = Len(logs) + 1]
                /\ UNCHANGED dropped
    /\ pc' = [pc EXCEPT ![t] = "number"]
    /\ UNCHANGED <<audit_seq, sid, seq, flush, disk, export, recorded, bounds>>

\* get_or_create, slow path under the write lock: a session another thread has
\* inserted meanwhile is reused; a full registry first drops whichever session
\* the hash map yields first.
Insert(t) ==
    /\ pc[t] = "insert" /\ WriteLockFree
    /\ IF sessionLogs[sid[t]] # None
         THEN /\ arc' = [arc EXCEPT ![t] = sessionLogs[sid[t]]]
              /\ UNCHANGED <<sessionLogs, logs, dropped>>
         ELSE \E victims \in IF Cardinality(RegisteredLogs) >= MaxSessions
                               THEN {{s} : s \in RegisteredLogs} ELSE {{}} :
                /\ logs' = Append(logs, <<>>)
                /\ sessionLogs' = [s \in AuditSessions |-> IF s = sid[t] THEN Len(logs) + 1
                                                        ELSE IF s \in victims THEN None ELSE sessionLogs[s]]
                /\ dropped' = dropped \cup {sessionLogs[s] : s \in victims}
                /\ arc' = [arc EXCEPT ![t] = Len(logs) + 1]
    /\ pc' = [pc EXCEPT ![t] = "number"]
    /\ UNCHANGED <<audit_seq, sid, seq, flush, disk, export, recorded, bounds>>

\* record_full draws the number before it takes the mutex of the log ...
DrawNumber(t) ==
    /\ pc[t] = "number"
    /\ seq' = [seq EXCEPT ![t] = audit_seq]
    /\ audit_seq' = audit_seq + 1
    /\ pc' = [pc EXCEPT ![t] = "push"]
    /\ UNCHANGED <<sessionLogs, logs, sid, arc, flush, disk, export, recorded, dropped, bounds>>

\* Faulty variant: a full ring is emptied.
NewestEntriesCleared(s) == IF Len(s) > MaxEntries THEN <<s[Len(s)]>> ELSE s

\* The ring: the newest MaxEntries pushes.
NewestEntries(s) == IF Len(s) > MaxEntries THEN SubSeq(s, Len(s) - MaxEntries + 1, Len(s)) ELSE s

\* ... and pushes and trims under it.
Push(t) ==
    /\ pc[t] = "push"
    /\ logs' = [logs EXCEPT ![arc[t]] = NewestEntries(Append(@, seq[t]))]
    /\ recorded' = recorded \cup {<<sid[t], arc[t], seq[t]>>}
    /\ pc' = [pc EXCEPT ![t] = "idle"]
    /\ UNCHANGED <<sessionLogs, audit_seq, sid, arc, seq, flush, disk, export, dropped, bounds>>

\* remove: called when a session is deleted or has expired.
RemoveSession(s) ==
    /\ WriteLockFree /\ removals < MaxRemovals
    /\ sessionLogs[s] # None
    /\ removals' = removals + 1
    /\ sessionLogs' = [sessionLogs EXCEPT ![s] = None]
    /\ dropped' = dropped \cup {sessionLogs[s]}
    /\ UNCHANGED <<logs, audit_seq, threadVars, flush, disk, export, recorded, began, flushes>>

-----------------------------------------------------------------------------
Entries(ss) == {e \in ss \X (1..audit_seq) :
                  sessionLogs[e[1]] # None /\ e[2] \in Range(logs[sessionLogs[e[1]]])}

\* flush_all takes the read lock and walks the map in hash order ...
FlushAll(f) ==
    /\ flush[f].at = "idle" /\ flushes < MaxFlushes
    /\ flushes' = flushes + 1
    /\ flush' = [flush EXCEPT ![f] =
         [IdleFlusher EXCEPT !.at = IF RegisteredLogs = {} THEN "idle" ELSE "export",
                      !.lock = RegisteredLogs # {},
                      !.todo = {<<s, sessionLogs[s]>> : s \in RegisteredLogs},
                      !.due = Entries(RegisteredLogs),
                      !.ok = RegisteredLogs = {}]]
    /\ UNCHANGED <<sessionLogs, logs, audit_seq, threadVars, disk, export, recorded, dropped, began, removals>>

\* ... while the per-session flush takes an Arc and releases the lock.
FlushSession(f, s) ==
    /\ flush[f].at = "idle" /\ flushes < MaxFlushes
    /\ sessionLogs[s] # None
    /\ flushes' = flushes + 1
    /\ flush' = [flush EXCEPT ![f] =
         [IdleFlusher EXCEPT !.at = "export", !.todo = {<<s, sessionLogs[s]>>}, !.due = Entries({s})]]
    /\ UNCHANGED <<sessionLogs, logs, audit_seq, threadVars, disk, export, recorded, dropped, began, removals>>

\* flush_to_file: serialise a snapshot of the log ...
Export(f) ==
    /\ flush[f].at = "export"
    /\ \E p \in flush[f].todo :
         flush' = [flush EXCEPT ![f].at = "write", ![f].cur = p, ![f].json = logs[p[2]]]
    /\ UNCHANGED <<sessionLogs, logs, audit_seq, threadVars, disk, export, recorded, dropped, bounds>>

\* ... write it over the file of the session ...
WriteFile(f) ==
    /\ flush[f].at = "write"
    /\ disk' = [disk EXCEPT ![flush[f].cur[1]] = flush[f].json]
    /\ flush' = [flush EXCEPT ![f].at = "count", ![f].written = @ + Len(flush[f].json)]
    /\ UNCHANGED <<sessionLogs, logs, audit_seq, threadVars, export, recorded, dropped, bounds>>

\* ... or fail, which ends flush_all at this session ...
WriteFails(f) ==
    /\ flush[f].at = "write"
    /\ flush' = [flush EXCEPT ![f] = IdleFlusher]
    /\ UNCHANGED <<sessionLogs, logs, audit_seq, threadVars, disk, export, recorded, dropped, bounds>>

\* flush_to_file counts the log again, the per-session flush what it has written.
Counted(f) == IF flush[f].lock THEN Len(logs[flush[f].cur[2]]) ELSE Len(flush[f].json)

\* Faulty variant: the walk ends one session early.
CountStopsEarly(f) ==
    /\ flush[f].at = "count"
    /\ LET rest == flush[f].todo \ {flush[f].cur}
           done == Cardinality(rest) <= 1
       IN  flush' = [flush EXCEPT ![f].at = IF done THEN "idle" ELSE "export",
                                  ![f].lock = @ /\ ~done, ![f].todo = rest, ![f].ok = done,
                                  ![f].total = @ + Counted(f)]
    /\ UNCHANGED <<sessionLogs, logs, audit_seq, threadVars, disk, export, recorded, dropped, bounds>>

\* ... and count the entries.
Count(f) ==
    /\ flush[f].at = "count"
    /\ LET rest == flush[f].todo \ {flush[f].cur}
           done == rest = {}
       IN  flush' = [flush EXCEPT ![f].at = IF done THEN "idle" ELSE "export",
                                  ![f].lock = @ /\ ~done, ![f].todo = rest, ![f].ok = done,
                                  ![f].total = @ + Counted(f)]
    /\ UNCHANGED <<sessionLogs, logs, audit_seq, threadVars, disk, export, recorded, dropped, bounds>>

-----------------------------------------------------------------------------
(* The endpoints that read the logs: of one session, of all of them, and the   *)
(* summary.  None of them sees the registry at one moment.                     *)

exportLeaves == <<sessionLogs, logs, audit_seq, threadVars, flush, disk, recorded, dropped, began, removals>>

Of(p) == [i \in DOMAIN logs[p[2]] |-> <<p[1], logs[p[2]][i]>>]

StartExport(start) ==
    /\ export.at \in {"idle", "done"} /\ flushes < MaxFlushes
    /\ flushes' = flushes + 1
    /\ export' = start
    /\ UNCHANGED exportLeaves

\* session_audit_export_json and _csv: get takes an Arc and releases the lock ...
ExportSession(s) ==
    /\ sessionLogs[s] # None
    /\ StartExport([NoExport EXCEPT !.at = "all", !.kind = "session", !.cur = <<s, sessionLogs[s]>>,
                                   !.due = Entries({s})])

\* ... and the log is copied under its own mutex.
ExportLog ==
    /\ export.at = "all"
    /\ export' = [export EXCEPT !.at = "done", !.answer = Of(export.cur)]
    /\ UNCHANGED <<exportLeaves, flushes>>

\* aggregate_all, of the other exports: the read lock is taken ...
Aggregating(e) ==
    [e EXCEPT !.at = "walk", !.lock = TRUE, !.todo = {<<s, sessionLogs[s]>> : s \in RegisteredLogs},
              !.due = Entries(RegisteredLogs)]

AggregateAll == StartExport([Aggregating(NoExport) EXCEPT !.kind = "all"])

\* Faulty variant: of every log but the newest entry is copied.
AggregateLogShort ==
    /\ export.at = "walk"
    /\ \E p \in export.todo :
         export' = [export EXCEPT !.todo = @ \ {p}, !.answer = @ \o SubSeq(Of(p), 1, Len(Of(p)) - 1)]
    /\ UNCHANGED <<exportLeaves, flushes>>

\* ... the logs are copied one by one ...
AggregateLog ==
    /\ export.at = "walk"
    /\ \E p \in export.todo : export' = [export EXCEPT !.todo = @ \ {p}, !.answer = @ \o Of(p)]
    /\ UNCHANGED <<exportLeaves, flushes>>

\* Faulty variant: the entries stay in the order of the sessions.
SortedNot(answer) == answer

\* ... and sorted, the newest first; no two entries have one number.
Sorted(answer) ==
    CHOOSE s \in [DOMAIN answer -> Range(answer)] :
        /\ Range(s) = Range(answer)
        /\ \A i, j \in DOMAIN s : i < j => s[i][2] > s[j][2]

AggregateSort ==
    /\ export.at = "walk" /\ export.todo = {}
    /\ export' = [export EXCEPT !.at = "done", !.lock = FALSE, !.answer = Sorted(@)]
    /\ UNCHANGED <<exportLeaves, flushes>>

\* admin_audit_summary: the ids under one lock ...
Summarise ==
    StartExport([NoExport EXCEPT !.at = "ids", !.kind = "summary", !.dropped = dropped, !.ids = RegisteredLogs,
                                 !.todo = {<<s, None>> : s \in RegisteredLogs}])

\* ... each log fetched under another, if it is still there, ...
SummaryGet ==
    /\ export.at = "ids"
    /\ \E p \in export.todo :
         export' = [export EXCEPT !.at = IF sessionLogs[p[1]] = None THEN "ids" ELSE "len",
                                  !.todo = @ \ {p}, !.cur = <<p[1], sessionLogs[p[1]]>>]
    /\ UNCHANGED <<exportLeaves, flushes>>

\* ... and counted, ...
SummaryLen ==
    /\ export.at = "len"
    /\ export' = [export EXCEPT !.at = "ids", !.counted = @ + Len(logs[export.cur[2]])]
    /\ UNCHANGED <<exportLeaves, flushes>>

\* ... the number of sessions, and then all entries once more.
SummarySessions ==
    /\ export.at = "ids" /\ export.todo = {}
    /\ export' = [export EXCEPT !.at = "sessions", !.sessions = Cardinality(RegisteredLogs)]
    /\ UNCHANGED <<exportLeaves, flushes>>

SummaryEntries ==
    /\ export.at = "sessions"
    /\ export' = Aggregating(export)
    /\ UNCHANGED <<exportLeaves, flushes>>

Exporting ==
    \/ \E s \in AuditSessions : ExportSession(s)
    \/ ExportLog \/ AggregateAll \/ AggregateLog \/ AggregateSort
    \/ Summarise \/ SummaryGet \/ SummaryLen \/ SummarySessions \/ SummaryEntries

AuditNext ==
    \/ \E t \in Threads :
         \/ \E s \in AuditSessions : RecordToolCall(t, s)
         \/ Lookup(t) \/ Insert(t) \/ DrawNumber(t) \/ Push(t)
    \/ \E s \in AuditSessions : RemoveSession(s)
    \/ \E f \in Flushers :
         \/ FlushAll(f) \/ \E s \in AuditSessions : FlushSession(f, s)
         \/ Export(f) \/ WriteFile(f) \/ WriteFails(f) \/ Count(f)
    \/ Exporting

AuditSpec == AuditInit /\ [][AuditNext]_auditVars

-----------------------------------------------------------------------------
\* The registry never holds more than MAX_AUDIT_SESSIONS logs, although any
\* number of threads may have missed in the fast path of get_or_create.
RegistryBounded == Cardinality(RegisteredLogs) <= MaxSessions

\* An entry that record_full has pushed is in the log its session is registered
\* with, unless that log was evicted or removed: two threads that create the log
\* of one session at the same time end up with the same log.
NoOrphanEntry == \A r \in recorded : sessionLogs[r[1]] = r[2] \/ r[2] \in dropped

\* No two sessions share a log, and an Arc that a thread still holds belongs to
\* the session it records for: no interleaving of eviction and creation lets an
\* entry of one session appear in the buffer of another.
LogsIsolated ==
    /\ \A s, u \in RegisteredLogs : s # u => sessionLogs[s] # sessionLogs[u]
    /\ \A r, q \in recorded : r[2] = q[2] => r[1] = q[1]

Trimmed(s, n) == \E r \in recorded : r[1] = s /\ r[3] = n /\ n \notin Range(logs[r[2]])

\* An export holds every entry its sessions had when it began, unless it was trimmed
\* meanwhile, each once, and only entries recorded for the session they are listed
\* under; an export of all sessions lists the newest first although the logs were
\* copied one after the other.
ExportsExact ==
    export.at = "done" =>
      LET shown == Range(export.answer) IN
      /\ Cardinality(shown) = Len(export.answer)
      /\ \A e \in export.due : e \in shown \/ Trimmed(e[1], e[2])
      /\ \A e \in shown : \E r \in recorded : r[1] = e[1] /\ r[3] = e[2]
      /\ export.kind = "session" => \A e \in shown : e[1] = export.cur[1]
      /\ export.kind # "session" =>
           \A i, j \in DOMAIN export.answer : i < j => export.answer[i][2] > export.answer[j][2]

\* The parts of the summary are read at different times and need not agree, but they
\* only disagree downwards when a session was evicted or removed meanwhile.
SummaryGrows ==
    (export.at = "done" /\ export.kind = "summary" /\ dropped = export.dropped) =>
      /\ Len(export.answer) >= export.counted
      /\ export.sessions >= Cardinality(export.ids)

\* Through every race of get_or_create with itself, with evictions and with removals the
\* registry keeps its limit, an entry is in the log of its session and in no other, and
\* what the endpoints export of the logs is theirs.
EntriesKept == RegistryBounded /\ NoOrphanEntry /\ LogsIsolated /\ ExportsExact /\ SummaryGrows

\* When a flush reports success, every entry that was registered when it began is
\* in the file of its session, or was trimmed from the ring meanwhile.
FlushCovers ==
    [][\A f \in Flushers :
         (flush[f].at = "count" /\ flush'[f].ok) =>
            \A e \in flush[f].due : e[2] \in Range(disk'[e[1]]) \/ Trimmed(e[1], e[2])]_auditVars

-----------------------------------------------------------------------------
(* What comments and messages of the code claim and its behaviours do not      *)
(* satisfy: the README says on which instance each is refuted.                 *)

\* What flush_to_file says it returns: "the number of entries written".
FlushCountsWritten ==
    \A f \in Flushers : flush[f].ok => flush[f].total = flush[f].written

\* What the eviction warning says: the oldest session goes.  Logs are numbered in
\* the order of their creation.
EvictsOldest ==
    [][\A s \in AuditSessions :
         (sessionLogs[s] # None /\ sessionLogs'[s] = None /\ removals' = removals) =>
            \A u \in RegisteredLogs : sessionLogs[s] <= sessionLogs[u]]_auditVars
=============================================================================
