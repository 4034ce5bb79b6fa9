---------------------------- MODULE NestedPlugins ----------------------------
(***************************************************************************)
(* The registry of dynamic plugins of the nested edge prototype.           *)
(* Instances that share no memory keep it in one of two stores: a volume   *)
(* file, changed under a lock file that is reclaimed once it is old, or a  *)
(* Postgres table, reached over a connection that is reused and replaced   *)
(* once when it fails.  A registry maps a plugin's name to its code.       *)
(*                                                                         *)
(* The file store is modelled at the level of file system calls.  The      *)
(* temporary file has one name for all writers, so an inode may be open in *)
(* two of them, and renamed while one still writes to it.                  *)
(***************************************************************************)
EXTENDS Naturals, FiniteSets

CONSTANTS
  Instances,          \* processes of the edge deployment
  PluginNames, Codes,
  Stores,             \* subset of {"file", "native", "edge"}
  Torn,               \* content that does not parse
  LOCK_TIMEOUT,       \* in lifetimes of a lock (STALE_MS): 2 in the code
  MaxToolCalls, MaxRestarts, MaxLosses   \* bounds of a behaviour

ASSUME NestedAssumption ==
  /\ Stores \subseteq {"file", "native", "edge"} /\ {"nobody", "gone"} \cap Instances = {}
  /\ \A names \in SUBSET PluginNames : Torn \notin [names -> Codes]

VARIABLES
  store,      \* the store all instances are configured for
  job,       \* instance -> its request
  lock,       \* the lock file
  paths,      \* "registry" and "tmp" -> inode, 0: no such file
  inodes,     \* inode -> content
  table,      \* the Postgres table: name -> [code, version]
  pgConn,       \* instance -> has it a connection
  ledger,     \* history: the registry after every change made so far
  stray,      \* history: the lock was lost to somebody else in use
  calls, restarts, losses

nestedVars == <<store, job, lock, paths, inodes, table, pgConn, ledger, stray,
                calls, restarts, losses>>

fileVars == <<lock, paths, inodes>>
pgVars == <<table, pgConn, losses>>

Empty == [n \in {} |-> n]
Idle == [pc |-> "idle", op |-> "none", name |-> "none", code |-> "none",
         cur |-> Empty, inode |-> 0, waited |-> 0, reused |-> FALSE,
         applied |-> 0, removed |-> 0, answer |-> "none"]
Free == [owner |-> "nobody", age |-> 0]

NestedInit ==
  /\ store \in Stores
  /\ job = [p \in Instances |-> Idle]
  /\ lock = Free
  /\ paths = [registry |-> 0, tmp |-> 0]
  /\ inodes = Empty
  /\ table = Empty
  /\ pgConn = [p \in Instances |-> FALSE]
  /\ ledger = Empty
  /\ stray = FALSE
  /\ calls = 0 /\ restarts = 0 /\ losses = 0

With(map, name, code) == [n \in DOMAIN map \union {name} |-> IF n = name THEN code ELSE map[n]]
Without(map, name) == [n \in DOMAIN map \ {name} |-> map[n]]
Goto(p, pc) == job' = [job EXCEPT ![p].pc = pc]
\* A request ends: its arguments, what it read and waited are forgotten.
RequestEnded(w, what) == [Idle EXCEPT !.op = w.op, !.applied = w.applied, !.removed = w.removed,
                     !.answer = what]
Answered(p, what) == job' = [job EXCEPT ![p] = RequestEnded(@, what)]

(***************************************************************************)
(* nested_register, nested_unregister and call_tool for a plugin.  The     *)
(* mutex of the runtime lets one request of an instance through at a time. *)
(***************************************************************************)
Begin(p) ==
  /\ job[p].pc = "idle" /\ calls < MaxToolCalls
  /\ \E op \in {"register", "unregister", "call"}, n \in PluginNames, c \in Codes :
       job' = [job EXCEPT ![p] = [Idle EXCEPT !.op = op, !.name = n, !.code = c,
                  !.pc = IF store # "file" THEN "connect"
                         ELSE IF op = "call" THEN "read" ELSE "lock"]]
  /\ calls' = calls + 1
  /\ UNCHANGED <<store, fileVars, pgVars, ledger, stray, restarts>>

(***************************************************************************)
(* The file store                                                          *)
(***************************************************************************)
\* read_to_string and from_str with unwrap_or_default.
Content(i) == IF i = 0 THEN Empty ELSE inodes[i]
LoadRegistry == IF Content(paths.registry) = Torn THEN Empty ELSE Content(paths.registry)

\* create_new: the lock is ours, or it exists and its age is looked at.
TryLock(p) ==
  /\ job[p].pc = "lock"
  /\ IF lock.owner = "nobody"
     THEN /\ lock' = [owner |-> p, age |-> 0]
          /\ Goto(p, "load")
     ELSE Goto(p, "stat") /\ UNCHANGED lock
  /\ UNCHANGED <<store, paths, inodes, pgVars, ledger, stray, calls, restarts>>

\* A mutant of StatLock: it waits for ever.
StatForever(p) ==
  /\ job[p].pc = "stat"
  /\ Goto(p, "lock")
  /\ UNCHANGED <<store, fileVars, pgVars, ledger, stray, calls, restarts>>

\* A mutant of StatLock: the timeout is looked at before the age.
StatTimeoutFirst(p) ==
  /\ job[p].pc = "stat"
  /\ IF job[p].waited >= LOCK_TIMEOUT THEN Answered(p, "timeout")
     ELSE IF lock.age > 0 THEN Goto(p, "reclaim")
     ELSE Goto(p, "lock")
  /\ UNCHANGED <<store, fileVars, pgVars, ledger, stray, calls, restarts>>

\* metadata: an old lock is to be removed, else the timeout is looked at; a
\* lock that is gone by now has age 0.
StatLock(p) ==
  /\ job[p].pc = "stat"
  /\ IF lock.age > 0 THEN Goto(p, "reclaim")
     ELSE IF job[p].waited >= LOCK_TIMEOUT THEN Answered(p, "timeout")
     ELSE Goto(p, "lock")
  /\ UNCHANGED <<store, fileVars, pgVars, ledger, stray, calls, restarts>>

\* remove_file, of the lock that has this name now.
Reclaim(p) ==
  /\ job[p].pc = "reclaim"
  /\ lock' = Free
  /\ stray' = (stray \/ (lock.owner \in Instances /\ job[lock.owner].pc # "idle"))
  /\ Goto(p, "lock")
  /\ UNCHANGED <<store, paths, inodes, pgVars, ledger, calls, restarts>>

\* A mutant of Load: the map of the request before is written back.
LoadStale(p) ==
  /\ job[p].pc = "load"
  /\ job' = [job EXCEPT ![p].cur = With(@, job[p].name, job[p].code), ![p].pc = "open"]
  /\ UNCHANGED <<store, fileVars, pgVars, ledger, stray, calls, restarts>>

\* The closure of merge_register and merge_unregister up to save_registry.
Load(p) ==
  /\ job[p].pc = "load"
  /\ IF job[p].op = "register"
     THEN job' = [job EXCEPT ![p].cur = With(LoadRegistry, job[p].name, job[p].code),
                               ![p].pc = "open"]
     ELSE IF job[p].name \in DOMAIN LoadRegistry
     THEN job' = [job EXCEPT ![p].cur = Without(LoadRegistry, job[p].name),
                               ![p].pc = "open"]
     ELSE job' = [job EXCEPT ![p].pc = "release", ![p].answer = "absent"]
  /\ UNCHANGED <<store, fileVars, pgVars, ledger, stray, calls, restarts>>

\* A mutant of OpenTmp: the registry itself is opened for writing.
OpenInPlace(p) ==
  LET i == IF paths.registry = 0 THEN Cardinality(DOMAIN inodes) + 1 ELSE paths.registry IN
  /\ job[p].pc = "open"
  /\ inodes' = With(inodes, i, Torn)
  /\ paths' = [registry |-> i, tmp |-> i]
  /\ job' = [job EXCEPT ![p].inode = i, ![p].pc = "write"]
  /\ UNCHANGED <<store, lock, pgVars, ledger, stray, calls, restarts>>

\* fs::write: the file is opened and emptied, then written.  An empty file
\* does not parse either.
OpenTmp(p) ==
  LET i == IF paths.tmp = 0 THEN Cardinality(DOMAIN inodes) + 1 ELSE paths.tmp IN
  /\ job[p].pc = "open"
  /\ inodes' = With(inodes, i, Torn)
  /\ paths' = [paths EXCEPT !.tmp = i]
  /\ job' = [job EXCEPT ![p].inode = i, ![p].pc = "write"]
  /\ UNCHANGED <<store, lock, pgVars, ledger, stray, calls, restarts>>

\* Over another writer's longer content the end of that content remains.
WriteTmp(p) ==
  /\ job[p].pc = "write"
  /\ \E body \in {job[p].cur} \union
                 (IF inodes[job[p].inode] = Torn THEN {} ELSE {Torn}) :
       inodes' = [inodes EXCEPT ![job[p].inode] = body]
  /\ job' = [job EXCEPT ![p].pc = "rename", ![p].inode = 0, ![p].cur = Empty]
  /\ UNCHANGED <<store, lock, paths, pgVars, ledger, stray, calls, restarts>>

\* The temporary file may be gone, renamed by another writer.  The registry
\* that is replaced has no name left, and what it held is forgotten.
Rename(p) ==
  /\ job[p].pc = "rename"
  /\ IF paths.tmp = 0
     THEN /\ job' = [job EXCEPT ![p].pc = "release", ![p].answer = "failed"]
          /\ UNCHANGED <<paths, inodes, ledger>>
     ELSE /\ paths' = [registry |-> paths.tmp, tmp |-> 0]
          /\ inodes' = IF paths.registry = 0 THEN inodes
                       ELSE [inodes EXCEPT ![paths.registry] = Empty]
          /\ ledger' = IF job[p].op = "register"
                       THEN With(ledger, job[p].name, job[p].code)
                       ELSE Without(ledger, job[p].name)
          /\ job' = [job EXCEPT ![p].pc = "release", ![p].answer = "ok"]
  /\ UNCHANGED <<store, lock, pgVars, stray, calls, restarts>>

\* remove_file, whoever's lock it is.
Release(p) ==
  /\ job[p].pc = "release"
  /\ lock' = Free
  /\ stray' = (stray \/ (lock.owner \in Instances \ {p} /\ job[lock.owner].pc # "idle"))
  /\ Answered(p, job[p].answer)
  /\ UNCHANGED <<store, paths, inodes, pgVars, ledger, calls, restarts>>

\* call_tool looks the name up in one read, nested_call_plugin the code in
\* another; the code runs with the whole fuel limit, and may trap.
ReadPlugin(p) ==
  /\ job[p].pc = "read"
  /\ IF job[p].name \in DOMAIN LoadRegistry THEN Goto(p, "fetch") ELSE Answered(p, "absent")
  /\ UNCHANGED <<store, fileVars, pgVars, ledger, stray, calls, restarts>>

RunPlugin(p) ==
  /\ job[p].pc = "fetch"
  /\ IF job[p].name \notin DOMAIN LoadRegistry THEN Answered(p, "absent")
     ELSE \E what \in {"ok", "failed"} : Answered(p, what)
  /\ UNCHANGED <<store, fileVars, pgVars, ledger, stray, calls, restarts>>

\* An instance stops, and starts again with nothing but the volume.
Restart(p) ==
  /\ job[p].pc # "idle" /\ restarts < MaxRestarts
  /\ job' = [job EXCEPT ![p] = Idle]
  /\ pgConn' = [pgConn EXCEPT ![p] = FALSE]
  /\ lock' = IF lock.owner = p THEN [lock EXCEPT !.owner = "gone"] ELSE lock
  /\ restarts' = restarts + 1
  /\ UNCHANGED <<store, paths, inodes, table, losses, ledger, stray, calls>>

\* STALE_MS pass.  An instance still at work has then lost its claim.
Pass ==
  /\ store = "file" /\ \E p \in Instances : job[p].pc \in {"lock", "stat"}
  /\ lock' = IF lock.owner = "nobody" \/ lock.age > 0 THEN lock ELSE [lock EXCEPT !.age = 1]
  /\ job' = [p \in Instances |->
       IF job[p].pc \in {"lock", "stat"} /\ job[p].waited < LOCK_TIMEOUT
       THEN [job[p] EXCEPT !.waited = @ + 1] ELSE job[p]]
  /\ job' # job \/ lock' # lock
  /\ stray' = (stray \/ lock.owner \in Instances)
  /\ UNCHANGED <<store, paths, inodes, pgVars, ledger, calls, restarts>>

(***************************************************************************)
(* The Postgres store.  pgreg opens a connection for each request; pgedge  *)
(* keeps one, and tries once more on a new one when the kept one fails.    *)
(***************************************************************************)
Statements == {"insert", "select", "exists", "delete", "count"}
First(p) == CASE job[p].op = "register" -> "insert"
              [] job[p].op = "call"     -> "select"
              [] OTHER -> IF store = "native" THEN "delete" ELSE "exists"

\* A failed load_all is the empty registry.
Fail(p) == Answered(p, IF job[p].op = "call" THEN "absent" ELSE "failed")

\* connect_auth and ensure_table, unless a connection is kept.
Connect(p) ==
  /\ job[p].pc = "connect"
  /\ IF pgConn[p] THEN /\ job' = [job EXCEPT ![p].pc = First(p), ![p].reused = TRUE]
                       /\ UNCHANGED losses
     ELSE \/ Goto(p, First(p)) /\ UNCHANGED losses
          \/ Fail(p) /\ losses < MaxLosses /\ losses' = losses + 1
  /\ pgConn' = [pgConn EXCEPT ![p] = FALSE]
  /\ UNCHANGED <<store, fileVars, table, ledger, stray, calls, restarts>>

\* What a statement does to the table, and to the request's history.
Effect(p) ==
  CASE job[p].pc = "insert" ->
         /\ table' = With(table, job[p].name,
              [code |-> job[p].code,
               version |-> IF job[p].name \in DOMAIN table
                           THEN table[job[p].name].version + 1 ELSE 1])
         /\ ledger' = With(ledger, job[p].name, job[p].code)
    [] job[p].pc = "delete" ->
         /\ table' = Without(table, job[p].name)
         /\ ledger' = Without(ledger, job[p].name)
    [] OTHER -> UNCHANGED <<table, ledger>>

\* The request's history after the statement it is at.
Counted(p) ==
  [job[p] EXCEPT !.applied = IF job[p].pc = "insert" THEN @ + 1 ELSE @,
                  !.removed = IF job[p].pc = "delete" /\ job[p].name \in DOMAIN table
                              THEN @ + 1 ELSE @]

Done(p, what) ==
  /\ job' = [job EXCEPT ![p] = RequestEnded(Counted(p), what)]
  /\ pgConn' = [pgConn EXCEPT ![p] = store = "edge"]

\* execute gives the native client the number of rows it removed.
\* A mutant: the number is not looked at.
RowsIgnored == FALSE
RowsTold == store = "native"

Execute(p) ==
  LET here == job[p].name \in DOMAIN table
      next == IF job[p].pc = "exists" THEN "delete" ELSE "count"
  IN
  /\ job[p].pc \in Statements
  /\ Effect(p)
  /\ CASE job[p].pc = "count" -> Done(p, "ok")
       [] job[p].pc = "select" -> Done(p, IF here THEN "ok" ELSE "absent")
       [] job[p].pc = "exists" /\ ~ here -> Done(p, "absent")
       [] job[p].pc = "delete" /\ RowsTold /\ ~ here -> Done(p, "absent")
       [] OTHER ->
            /\ job' = [job EXCEPT ![p] = [Counted(p) EXCEPT !.pc = next]]
            /\ UNCHANGED pgConn
  /\ UNCHANGED <<store, fileVars, losses, stray, calls, restarts>>

\* A mutant of Lose: every failure is tried again.
LoseRetries(p) ==
  /\ job[p].pc \in Statements
  /\ losses < MaxLosses /\ losses' = losses + 1
  /\ Effect(p) /\ job' = [job EXCEPT ![p] = [Counted(p) EXCEPT !.pc = "connect"]]
  /\ UNCHANGED <<store, fileVars, pgConn, stray, calls, restarts>>

\* The connection is lost before the statement is carried out, or after it and
\* before the answer is read.
Lose(p) ==
  /\ job[p].pc \in Statements
  /\ losses < MaxLosses /\ losses' = losses + 1
  /\ \E served \in BOOLEAN :
       /\ IF served THEN Effect(p) ELSE UNCHANGED <<table, ledger>>
       /\ LET w == IF served THEN Counted(p) ELSE job[p] IN
          job' = [job EXCEPT ![p] =
            IF w.reused THEN [w EXCEPT !.pc = "connect", !.reused = FALSE]
            ELSE RequestEnded(w, IF w.op = "call" THEN "absent" ELSE "failed")]
  /\ UNCHANGED <<store, fileVars, pgConn, stray, calls, restarts>>

-----------------------------------------------------------------------------
FileStep(p) == \/ TryLock(p) \/ StatLock(p) \/ Reclaim(p) \/ Load(p) \/ OpenTmp(p)
               \/ WriteTmp(p) \/ Rename(p) \/ Release(p) \/ ReadPlugin(p) \/ RunPlugin(p)
PgStep(p) == Connect(p) \/ Execute(p) \/ Lose(p)

NestedNext == \/ \E p \in Instances : Begin(p) \/ FileStep(p) \/ PgStep(p) \/ Restart(p)
              \/ Pass

\* An instance goes on with its request, and time passes while one waits.
NestedFair == /\ \A p \in Instances : WF_nestedVars(FileStep(p) \/ PgStep(p))
              /\ WF_nestedVars(Pass)
NestedSpec == NestedInit /\ [][NestedNext]_nestedVars /\ NestedFair

-----------------------------------------------------------------------------
\* As long as no lock was taken from an instance still at work, the published
\* registry is exactly the changes made so far, a crash between any two file
\* system calls included: nothing is lost, torn or brought back.
PublishedExact ==
  store = "file" /\ ~ stray => Content(paths.registry) = ledger

\* The lock of a crashed instance is reclaimed by the next request that meets
\* it, before that request gives up: STALE_MS is checked ahead of TIMEOUT, and
\* is shorter.
OrphanReclaimed ==
  \A p \in Instances :
    (restarts = MaxRestarts /\ lock.owner = "gone" /\ job[p].pc = "lock" /\ job[p].waited = 0)
      ~> lock.owner # "gone"

\* Every request of an instance that stays up is answered: the registry is
\* never wedged for good.
NestedRequestsEnd == \A p \in Instances : job[p].pc # "idle" ~> job[p].pc = "idle"

\* A registration that was confirmed was carried out, at most once more than
\* asked for; one statement per row is atomic across instances.
AppliedAtMostTwice ==
  \A p \in Instances : store # "file" /\ job[p].op = "register" =>
    /\ job[p].applied <= 2
    /\ job[p].answer = "ok" => job[p].applied >= 1

\* The native client's answer to unregister is exact: it is confirmed by the
\* one instance that removed the plugin, and denied only if it removed nothing.
NativeExact ==
  \A p \in Instances : store = "native" /\ job[p].op = "unregister" =>
    /\ job[p].answer = "ok" => job[p].removed = 1
    /\ job[p].answer = "absent" => job[p].removed = 0

\* Whichever store keeps the nested registry, it holds what its callers were told, with
\* crashes and lost answers: exactly in a file, at most doubled in the database.
StoresExact == PublishedExact /\ AppliedAtMostTwice /\ NativeExact

-----------------------------------------------------------------------------
(* Claims of comments that do not hold; the README's table says why. *)

\* "so only one writer enters the critical section at a time".
OneWriter == Cardinality({p \in Instances :
               job[p].pc \in {"load", "open", "write", "rename", "release"}}) <= 1

\* "a concurrent reader sees either the old or the new registry.json, never a
\* torn/partial file".
NeverTorn == store = "file" => Content(paths.registry) # Torn

\* The in-guest client gives the same answers: "the property file locking
\* cannot provide".
EdgeExact ==
  \A p \in Instances : store = "edge" /\ job[p].op = "unregister" =>
    /\ job[p].answer = "ok" => job[p].removed = 1
    /\ job[p].answer = "absent" => job[p].removed = 0

\* version counts the registrations.
VersionCounts ==
  \A n \in DOMAIN table : table[n].version <= calls
=============================================================================
