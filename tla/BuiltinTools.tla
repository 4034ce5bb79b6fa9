---------------------------- MODULE BuiltinTools ----------------------------
(***************************************************************************)
(* The built-in tools of src/registry.rs (call_tool_with_csharp_path) that *)
(* work on files, and the routing of the others, called by the threads of  *)
(* a server at the same time.  A call is as many steps as it makes system  *)
(* calls or takes locks: nothing else keeps two calls apart.               *)
(*                                                                         *)
(* A file is an inode with a sequence of words; a path names an inode, a   *)
(* directory or nothing.  std::fs::write truncates and then writes from    *)
(* the start, and two writers of one inode overlay each other.             *)
(***************************************************************************)
EXTENDS Integers, Sequences, SequencesExt

CONSTANTS
    ToolThreads,      \* the server's workers
    Files,        \* valid absolute paths
    BadPath,      \* an empty, relative or traversing path, or a symbolic link
    Texts,        \* contents a client writes
    Edits,        \* lists of edits a client asks for: <<old word, new word>>
    MaxFileWords, \* the 10 MB limit of file_read and edit_file, in words
    MaxInodes,    \* bound: files ever created
    Dynamic       \* names of tools that are not built in

VARIABLES
    fs,        \* path -> NoEntry, Directory or an inode
    data,      \* inode -> its words
    toolCall,  \* thread -> the call it serves
    toolPc,    \* thread -> where it is
    handle,    \* thread -> the inode it has open
    fetched,   \* thread -> the words or names it has read
    toolResult, \* thread -> its answer
    frames,    \* NMCP_FRAME_CACHE: names with a cached frame
    frameLock, \* the thread that holds its mutex, or "free"
    touched,   \* history: threads whose call changed a file or a name
    overlaid   \* history: inodes two writers had open at once

toolVars == <<fs, data, toolCall, toolPc, handle, fetched, toolResult, frames, frameLock, touched, overlaid>>
files == <<fs, data>>
locks == <<frames, frameLock>>
history == <<touched, overlaid>>

NoEntry == 0
Directory == -1
Inodes == 1..MaxInodes
IsFile(p) == fs[p] \in Inodes
Created == {i \in Inodes : \/ \E p \in Files : fs[p] = i
                           \/ \E t \in ToolThreads : handle[t] = i}

Readers == {"file_read", "read_nda", "execute_nda"}
\* The names of the tools that are native code.
Native == Readers \cup {"create_directory", "list_directory", "get_file_info", "file_write", "edit_file",
                      "move_file", "convert_to_nda_document", "convert_to_nda_tool"}

ASSUME FilesAssumption ==
    /\ IsFiniteSet(Files) /\ MaxInodes \in Nat /\ "free" \notin ToolThreads
    /\ Dynamic \cap Native = {}
    /\ \A words \in Texts : words \in Seq(Range(words))
    /\ \A e \in Edits : Len(e) \in Nat

Calls ==
    [tool : Readers \cup {"create_directory", "list_directory", "get_file_info"},
     path : Files \cup {BadPath}]
    \cup [tool : {"file_write"}, path : Files, text : Texts]
    \cup [tool : {"edit_file"}, path : Files, edits : Edits, dry : BOOLEAN]
    \cup {[tool |-> x, path |-> p, dest |-> q] : x \in {"move_file", "convert_to_nda_document"},
                                              p \in Files, q \in Files \cup {BadPath}}
    \cup [tool : {"convert_to_nda_tool"}, name : Dynamic \cup {"convert_to_nda_tool"}]
    \cup [tool : Dynamic]

ToolsInit ==
    /\ fs \in [Files -> {NoEntry, 1}] /\ \E p \in Files : fs[p] = 1
    /\ \A p, q \in Files : fs[p] = 1 /\ fs[q] = 1 => p = q
    /\ data \in [Inodes -> Texts] /\ \A i \in Inodes \ {1} : data[i] = data[1]
    /\ toolCall \in [ToolThreads -> Calls]
    /\ toolPc = [t \in ToolThreads |-> "start"]
    /\ handle = [t \in ToolThreads |-> 0]
    /\ fetched = [t \in ToolThreads |-> <<>>]
    /\ toolResult = [t \in ToolThreads |-> "none"]
    /\ frames \in SUBSET Dynamic
    /\ frameLock = "free"
    /\ touched = {} /\ overlaid = {}

GotoStep(t, l) == toolPc' = [toolPc EXCEPT ![t] = l] /\ UNCHANGED toolResult
ToolAnswer(t, r) == toolPc' = [toolPc EXCEPT ![t] = "done"] /\ toolResult' = [toolResult EXCEPT ![t] = r]

\* Faulty variant: a name with a cached frame runs its frame, built in or not.
RouteFramesFirst(t) ==
    CASE toolCall[t].tool \in frames -> "lookup"
      [] toolCall[t].tool = "convert_to_nda_tool" -> "cache"
      [] toolCall[t].tool \in {"read_nda", "execute_nda", "edit_file"} -> "stat"
      [] toolCall[t].tool = "file_read" -> "open"
      [] toolCall[t].tool = "file_write" -> "truncate"
      [] toolCall[t].tool = "convert_to_nda_document" -> "slurp"
      [] toolCall[t].tool \in Dynamic -> "lookup"
      [] OTHER -> toolCall[t].tool

\* The match on the tool's name: native code first, everything else last.
Route(t) ==
    CASE toolCall[t].tool = "convert_to_nda_tool" -> "cache"
      [] toolCall[t].tool \in {"read_nda", "execute_nda", "edit_file"} -> "stat"
      [] toolCall[t].tool = "file_read" -> "open"
      [] toolCall[t].tool = "file_write" -> "truncate"
      [] toolCall[t].tool = "convert_to_nda_document" -> "slurp"
      [] toolCall[t].tool \in Dynamic -> "lookup"
      [] OTHER -> toolCall[t].tool

\* validate_file_path of every path the call names, before anything is done.
Start(t) ==
    /\ toolPc[t] = "start"
    /\ IF \E f \in {"path", "dest"} \cap DOMAIN toolCall[t] : toolCall[t][f] = BadPath
         THEN ToolAnswer(t, "invalid")
         ELSE GotoStep(t, Route(t))
    /\ UNCHANGED <<files, toolCall, handle, fetched, locks, history>>

\* file_read: the file is opened, and its size is looked at once.
OpenRead(t) ==
    /\ toolPc[t] = "open"
    /\ IF ~IsFile(toolCall[t].path) THEN ToolAnswer(t, "error") /\ UNCHANGED handle
       ELSE IF Len(data[fs[toolCall[t].path]]) > MaxFileWords
              THEN ToolAnswer(t, "too large") /\ UNCHANGED handle
       ELSE /\ handle' = [handle EXCEPT ![t] = fs[toolCall[t].path]]
            /\ GotoStep(t, "canonical")
    /\ UNCHANGED <<files, toolCall, fetched, locks, history>>

\* canonicalize looks the path up again and fails if it has gone.
Canonicalize(t) ==
    /\ toolPc[t] = "canonical"
    /\ IF fs[toolCall[t].path] = NoEntry THEN ToolAnswer(t, "error") ELSE GotoStep(t, "read")
    /\ UNCHANGED <<files, toolCall, handle, fetched, locks, history>>

ReadOpened(t) ==
    /\ toolPc[t] = "read"
    /\ fetched' = [fetched EXCEPT ![t] = data[handle[t]]]
    /\ ToolAnswer(t, "ok")
    /\ UNCHANGED <<files, toolCall, handle, locks, history>>

\* read_nda, execute_nda and edit_file: metadata, and the limit on the size.
StatFile(t) ==
    /\ toolPc[t] = "stat"
    /\ IF fs[toolCall[t].path] = NoEntry THEN ToolAnswer(t, "error")
       ELSE IF IsFile(toolCall[t].path) /\ Len(data[fs[toolCall[t].path]]) > MaxFileWords
              THEN ToolAnswer(t, "too large")
       ELSE GotoStep(t, "slurp")
    /\ UNCHANGED <<files, toolCall, handle, fetched, locks, history>>

\* std::fs::read or read_to_string: the path is opened anew and read to its end.
\* The NDA tools answer from what they have read.
Slurp(t) ==
    /\ toolPc[t] = "slurp"
    /\ IF ~IsFile(toolCall[t].path) THEN ToolAnswer(t, "error") /\ UNCHANGED fetched
       ELSE /\ fetched' = [fetched EXCEPT ![t] = data[fs[toolCall[t].path]]]
            /\ CASE toolCall[t].tool = "edit_file" -> GotoStep(t, "apply")
                 [] toolCall[t].tool = "convert_to_nda_document" -> GotoStep(t, "truncate")
                 [] OTHER -> ToolAnswer(t, "ok")
    /\ UNCHANGED <<files, toolCall, handle, locks, history>>

\* content.replace(old, new): every occurrence.
EditReplaced(words, old, new) == [k \in DOMAIN words |-> IF words[k] = old THEN new ELSE words[k]]

\* The content after the first n edits.
AfterEdits(words, edits) ==
    LET after[n \in 0..Len(edits)] ==
          IF n = 0 THEN words ELSE EditReplaced(after[n - 1], edits[n][1], edits[n][2])
    IN  after

AllFound(words, edits) ==
    \A n \in 1..Len(edits) : Contains(AfterEdits(words, edits)[n - 1], edits[n][1])

\* Faulty variant: what could be applied is written, although an edit was not found.
ApplyEditsPartly(t) ==
    /\ toolPc[t] = "apply"
    /\ fetched' = [fetched EXCEPT ![t] = AfterEdits(@, toolCall[t].edits)[Len(toolCall[t].edits)]]
    /\ IF AllFound(fetched[t], toolCall[t].edits)
         THEN IF toolCall[t].dry THEN ToolAnswer(t, "ok") ELSE GotoStep(t, "truncate")
         ELSE toolPc' = [toolPc EXCEPT ![t] = "truncate"] /\ toolResult' = [toolResult EXCEPT ![t] = "not found"]
    /\ UNCHANGED <<files, toolCall, handle, locks, history>>

\* edit_file: every edit works on the outcome of those before it; one that is not
\* found ends the call, and a dry run ends it before the file is written.
ApplyEdits(t) ==
    /\ toolPc[t] = "apply"
    /\ IF ~AllFound(fetched[t], toolCall[t].edits) THEN ToolAnswer(t, "not found") /\ UNCHANGED fetched
       ELSE /\ fetched' = [fetched EXCEPT ![t] = AfterEdits(@, toolCall[t].edits)[Len(toolCall[t].edits)]]
            /\ IF toolCall[t].dry THEN ToolAnswer(t, "ok") ELSE GotoStep(t, "truncate")
    /\ UNCHANGED <<files, toolCall, handle, locks, history>>

Target(t) == IF toolCall[t].tool = "convert_to_nda_document" THEN toolCall[t].dest ELSE toolCall[t].path
Output(t) == IF toolCall[t].tool = "file_write" THEN toolCall[t].text ELSE fetched[t]
Opened(t, i) ==
    overlaid' = IF \E u \in ToolThreads \ {t} : toolPc[u] = "write" /\ handle[u] = i
                THEN overlaid \cup {i} ELSE overlaid

\* Faulty variant: an existing file is opened without being truncated.
TruncateNot(t) ==
    /\ toolPc[t] = "truncate"
    /\ IsFile(Target(t))
    /\ handle' = [handle EXCEPT ![t] = fs[Target(t)]]
    /\ Opened(t, fs[Target(t)])
    /\ GotoStep(t, "write")
    /\ UNCHANGED <<files, toolCall, fetched, locks, touched>>

\* std::fs::write, file_write and the ends of edit_file and
\* convert_to_nda_document: the file is created or truncated ...
Truncate(t) ==
    /\ toolPc[t] = "truncate"
    /\ IF fs[Target(t)] = Directory
         THEN ToolAnswer(t, "error") /\ UNCHANGED <<files, handle, history>>
         ELSE \E i \in Inodes :
                /\ IF IsFile(Target(t)) THEN i = fs[Target(t)]
                   ELSE i \notin Created /\ \A j \in Inodes \ Created : i <= j
                /\ fs' = [fs EXCEPT ![Target(t)] = i]
                /\ data' = [data EXCEPT ![i] = <<>>]
                /\ handle' = [handle EXCEPT ![t] = i]
                /\ touched' = touched \cup {t}
                /\ Opened(t, i)
                /\ GotoStep(t, "write")
    /\ UNCHANGED <<toolCall, fetched, locks>>

\* ... and written from its start; or the disk is full.
Write(t, ok) ==
    /\ toolPc[t] = "write"
    /\ IF ok
         THEN /\ LET new == Output(t)  old == data[handle[t]] IN
                   data' = [data EXCEPT ![handle[t]] = new \o SubSeq(old, Len(new) + 1, Len(old))]
              /\ ToolAnswer(t, "ok")
         ELSE ToolAnswer(t, "write failed") /\ UNCHANGED data
    /\ UNCHANGED <<fs, toolCall, handle, fetched, locks, history>>

\* move_file: the destination is looked at ...
CheckDestination(t) ==
    /\ toolPc[t] = "move_file"
    /\ IF fs[toolCall[t].dest] # NoEntry THEN ToolAnswer(t, "exists") ELSE GotoStep(t, "rename")
    /\ UNCHANGED <<files, toolCall, handle, fetched, locks, history>>

\* ... and replaced by rename, if the system allows it.
RenameFile(t) ==
    /\ toolPc[t] = "rename"
    /\ LET from == fs[toolCall[t].path]  to == fs[toolCall[t].dest] IN
         IF from = NoEntry \/ (to # NoEntry /\ (from = Directory) # (to = Directory))
           THEN ToolAnswer(t, "error") /\ UNCHANGED <<fs, touched>>
           ELSE /\ fs' = [fs EXCEPT ![toolCall[t].path] = NoEntry, ![toolCall[t].dest] = from]
                /\ touched' = touched \cup {t}
                /\ ToolAnswer(t, "ok")
    /\ UNCHANGED <<data, toolCall, handle, fetched, locks, overlaid>>

\* create_dir_all: a directory that is there already is a success.
CreateDirectory(t) ==
    /\ toolPc[t] = "create_directory"
    /\ IF IsFile(toolCall[t].path) THEN ToolAnswer(t, "error") /\ UNCHANGED <<fs, touched>>
       ELSE /\ fs' = [fs EXCEPT ![toolCall[t].path] = Directory]
            /\ touched' = IF fs[toolCall[t].path] = NoEntry THEN touched \cup {t} ELSE touched
            /\ ToolAnswer(t, "ok")
    /\ UNCHANGED <<data, toolCall, handle, fetched, locks, overlaid>>

\* get_file_info: one metadata call.
FileInfo(t) ==
    /\ toolPc[t] = "get_file_info"
    /\ ToolAnswer(t, IF fs[toolCall[t].path] = NoEntry THEN "error" ELSE "ok")
    /\ UNCHANGED <<files, toolCall, handle, fetched, locks, history>>

\* list_directory: the names are read ...
ListNames(t) ==
    /\ toolPc[t] = "list_directory"
    /\ \E names \in SetToSeqs({p \in Files : fs[p] # NoEntry}) : fetched' = [fetched EXCEPT ![t] = names]
    /\ GotoStep(t, "entry")
    /\ UNCHANGED <<files, toolCall, handle, locks, history>>

\* ... and each one's metadata; a name that has gone fails the whole call.
ListEntry(t) ==
    /\ toolPc[t] = "entry"
    /\ IF fetched[t] = <<>> THEN ToolAnswer(t, "ok") /\ UNCHANGED fetched
       ELSE IF fs[Head(fetched[t])] = NoEntry THEN ToolAnswer(t, "error") /\ UNCHANGED fetched
       ELSE fetched' = [fetched EXCEPT ![t] = Tail(@)] /\ GotoStep(t, "entry")
    /\ UNCHANGED <<files, toolCall, handle, locks, history>>

\* convert_to_nda_tool: cache_nmcp_frame, under the cache's mutex.
CacheFrame(t) ==
    /\ toolPc[t] = "cache" /\ frameLock = "free"
    /\ frames' = frames \cup {IF toolCall[t].tool = "convert_to_nda_tool" THEN toolCall[t].name
                              ELSE toolCall[t].tool}
    /\ ToolAnswer(t, "ok")
    /\ UNCHANGED <<files, toolCall, handle, fetched, frameLock, history>>

\* A dynamic tool: a cached frame is executed with the cache still locked ...
LookupFrame(t) ==
    /\ toolPc[t] = "lookup" /\ frameLock = "free"
    /\ IF toolCall[t].tool \in frames
         THEN frameLock' = t /\ GotoStep(t, "frame")
         ELSE UNCHANGED frameLock /\ GotoStep(t, "plugin")
    /\ UNCHANGED <<files, toolCall, handle, fetched, frames, history>>

\* ... execute_cached_nmcp_frame: a built-in tool in process, the others by the C#
\* engine.  The guard goes when it returns.
RunFrame(t) ==
    /\ toolPc[t] = "frame"
    /\ IF toolCall[t].tool = "convert_to_nda_tool"
         THEN GotoStep(t, "cache") /\ UNCHANGED frameLock
         ELSE /\ \E r \in {"ok", "error"} : ToolAnswer(t, r)
              /\ frameLock' = "free"
    /\ UNCHANGED <<files, toolCall, handle, fetched, frames, history>>

\* The plugin that has the tool, or else the C# engine, with no lock held.
RunDynamic(t) ==
    /\ toolPc[t] = "plugin"
    /\ \E r \in {"ok", "error"} : ToolAnswer(t, r)
    /\ UNCHANGED <<files, toolCall, handle, fetched, locks, history>>

ThreadStep(t) ==
    \/ Start(t)
    \/ OpenRead(t) \/ Canonicalize(t) \/ ReadOpened(t)
    \/ StatFile(t) \/ Slurp(t) \/ ApplyEdits(t)
    \/ Truncate(t) \/ \E ok \in BOOLEAN : Write(t, ok)
    \/ CheckDestination(t) \/ RenameFile(t) \/ CreateDirectory(t)
    \/ FileInfo(t) \/ ListNames(t) \/ ListEntry(t)
    \/ CacheFrame(t) \/ LookupFrame(t) \/ RunFrame(t) \/ RunDynamic(t)

ToolsNext == \E t \in ToolThreads : ThreadStep(t)

\* Every worker runs on; the engine and the plugins answer or are ended by their
\* deadlines (ChildProcess).
ToolsSpec == ToolsInit /\ [][ToolsNext]_toolVars /\ \A t \in ToolThreads : WF_toolVars(ThreadStep(t))

-----------------------------------------------------------------------------
\* An edit whose text is not found, and a dry run, leave the file alone, whichever
\* of the edits it was and whatever ran at the same time.
EditAllOrNothing ==
    \A t \in ToolThreads :
        toolCall[t].tool = "edit_file" /\ (toolResult[t] = "not found" \/ toolCall[t].dry) => t \notin touched

\* When nobody has it open for writing, a file two writers never shared holds
\* exactly what one call wrote, or what it held at the start.
WrittenWhole ==
    \A p \in Files : IsFile(p) /\ fs[p] \notin overlaid =>
        LET writers == {t \in ToolThreads : handle[t] = fs[p] /\ t \in touched} IN
            \/ \E t \in writers : toolPc[t] = "write" \/ toolResult[t] = "write failed"
            \/ \E t \in writers : data[fs[p]] = Output(t)
            \/ writers = {} /\ data[fs[p]] \in Texts

\* The only step of a call that can wait for another call takes the mutex of the
\* frame cache.
Waits(t) == toolPc[t] \in {"cache", "lookup"} /\ frameLock # "free"

\* Until all calls have ended, one of the threads can go on: no thread waits for the
\* lock it holds, and none for a thread that waits for it.
SomeCallMoves ==
    (\E t \in ToolThreads : toolPc[t] # "done") =>
        \E t \in ToolThreads : toolPc[t] # "done" /\ ~Waits(t)

\* File tools that run side by side leave whole files and never wait for each other
\* without end.
FilesWhole == EditAllOrNothing /\ WrittenWhole /\ SomeCallMoves

-----------------------------------------------------------------------------
(* Claims the code does not satisfy. *)

\* A file holds what one call wrote, also when two calls write it at once.
WrittenWholeAlways ==
    (\A t \in ToolThreads : toolPc[t] # "write") =>
        \A p \in Files : IsFile(p) =>
            \/ data[fs[p]] \in Texts
            \/ \E t \in ToolThreads : handle[t] = fs[p] /\ (data[fs[p]] = Output(t) \/ toolResult[t] = "write failed")

\* A call that reports an error has changed nothing: a full disk leaves the file
\* empty.
FailedKeepsFile == \A t \in ToolThreads : toolResult[t] \notin {"none", "ok"} => t \notin touched

\* "Check if destination already exists": a file made in between is replaced.
MoveKeepsDestination ==
    [][\A t \in ToolThreads : toolPc[t] = "rename" /\ fs' # fs => fs[toolCall[t].dest] = NoEntry]_toolVars

\* file_read returns at most its limit: the size is the one the file had before.
ReadWithinLimit ==
    \A t \in ToolThreads : toolCall[t].tool = "file_read" /\ toolResult[t] = "ok" => Len(fetched[t]) <= MaxFileWords

\* A listing of a directory that exists succeeds.
ListingSucceeds == \A t \in ToolThreads : toolCall[t].tool = "list_directory" => toolResult[t] # "error"

\* Converting a tool does not wait for another thread's engine call.
ConvertNotBlocked == [](\A t \in ToolThreads : toolPc[t] = "cache" => frameLock = "free")
=============================================================================
