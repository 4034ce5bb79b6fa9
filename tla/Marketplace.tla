---------------------------- MODULE Marketplace ----------------------------
(***************************************************************************)
(* The plugin marketplace of src/plugins/marketplace.rs behind the routes  *)
(* of src/transport/http.rs.  No marketplace lives in memory: every        *)
(* request reads index.json and installed.json into a copy of its own,     *)
(* changes the copy, and writes both files back, one after the other and   *)
(* each by truncating it first.  Requests run side by side on the worker   *)
(* threads.                                                                *)
(***************************************************************************)
EXTENDS Integers, FiniteSets

CONSTANTS
    Plugins,     \* plugin identifiers
    Requests,    \* the requests of a behaviour, each made at most once
    Latest,      \* [Plugins -> version in the index, 0 when not listed]
    MaxCrashes   \* bound: process crashes

ASSUME MarketAssumption == Latest \in [Plugins -> Nat]

VARIABLES
    indexFile,      \* [whole, listed, reviews]
    installedFile,  \* [whole, version]: version[p] = 0 when p is not installed
    dirs,           \* what each plugin's directory holds
    req,            \* the requests
    accepted,       \* history: reviews answered 201
    disturbed,      \* history: requests overlapped, a removal or a write of a file failed, or a crash
    marketCrashes

marketVars == <<indexFile, installedFile, dirs, req, accepted, disturbed, marketCrashes>>

NoDir == 0
Partial == -1     \* created, and not (or no longer) complete
Idle == [pc |-> "idle"]

\* Marketplace::new: a file that is missing or does not parse is an empty one.
LoadedIndex == IF indexFile.whole THEN indexFile
               ELSE [whole |-> TRUE, listed |-> {}, reviews |-> {}]
LoadedInstalled == IF installedFile.whole THEN installedFile
                   ELSE [whole |-> TRUE, version |-> [p \in Plugins |-> 0]]

MarketInit ==
    /\ indexFile = [whole |-> TRUE, listed |-> {p \in Plugins : Latest[p] > 0}, reviews |-> {}]
    /\ \E was \in SUBSET Plugins :
         /\ installedFile = [whole |-> TRUE, version |-> [p \in Plugins |-> IF p \in was THEN 1 ELSE 0]]
         /\ dirs = [p \in Plugins |-> IF p \in was THEN 1 ELSE NoDir]
    /\ req = [r \in Requests |-> Idle]
    /\ accepted = {}
    /\ disturbed = FALSE
    /\ marketCrashes = 0

Active(r) == req[r].pc \notin {"idle", "ok", "error"}
Step(r, pc) == req' = [req EXCEPT ![r].pc = pc]
Finish(r, answer) ==
    req' = [req EXCEPT ![r] = [pc |-> answer, op |-> @.op, plugin |-> @.plugin]]

\* The handler starts, and reads the first file ...
Receive(r, op, p) ==
    /\ req[r] = Idle
    /\ req' = [req EXCEPT ![r] = [pc |-> "load", op |-> op, plugin |-> p,
                                  index |-> LoadedIndex, installed |-> LoadedInstalled]]
    /\ disturbed' = (disturbed \/ \E o \in Requests : Active(o))
    /\ UNCHANGED <<indexFile, installedFile, dirs, accepted, marketCrashes>>

\* ... and then the second; the first test of each operation is on the copies.
Load(r) ==
    /\ req[r].pc = "load"
    /\ LET q == req[r]
           have == LoadedInstalled.version[q.plugin] # 0
           now == CASE q.op = "review" -> IF q.plugin \in q.index.listed THEN "rate" ELSE "error"
                     [] q.op = "install" -> IF ~have THEN "mkdir" ELSE "error"
                     [] OTHER -> IF have THEN "remove" ELSE "error"
       IN  IF now = "error" THEN Finish(r, "error")
           ELSE req' = [req EXCEPT ![r] = [q EXCEPT !.installed = LoadedInstalled, !.pc = now]]
    /\ UNCHANGED <<indexFile, installedFile, dirs, accepted, disturbed, marketCrashes>>

\* submit_review, on the copy.
Rate(r) ==
    /\ req[r].pc = "rate"
    /\ req' = [req EXCEPT ![r].index.reviews = @ \cup {r}, ![r].pc = "write_index"]
    /\ UNCHANGED <<indexFile, installedFile, dirs, accepted, disturbed, marketCrashes>>

\* install: the plugin must be in the index; its directory may be there already.
MakeDir(r) ==
    /\ req[r].pc = "mkdir"
    /\ LET p == req[r].plugin IN
         IF p \in req[r].index.listed
           THEN /\ dirs' = [dirs EXCEPT ![p] = IF @ = NoDir THEN Partial ELSE @]
                /\ Step(r, "fetch")
           ELSE Finish(r, "error") /\ UNCHANGED dirs
    /\ UNCHANGED <<indexFile, installedFile, accepted, disturbed, marketCrashes>>

\* Faulty variant: the directory of a refused archive is kept, and entered.
FetchUnverified(r, outcome) ==
    /\ req[r].pc = "fetch"
    /\ LET p == req[r].plugin IN
         /\ dirs' = [dirs EXCEPT ![p] = IF outcome = "complete" THEN Latest[p] ELSE Partial]
         /\ req' = [req EXCEPT ![r].pc = "write_index", ![r].installed.version[p] = Latest[p]]
    /\ UNCHANGED <<indexFile, installedFile, accepted, disturbed, marketCrashes>>

\* curl, the checksum, tar and the manifest.  A failed download, a wrong checksum and
\* a failed extraction remove the directory; a program that cannot be started, or
\* a file that cannot be read or written, leaves it.
Fetch(r, outcome) ==
    /\ req[r].pc = "fetch"
    /\ LET p == req[r].plugin IN
         \/ /\ outcome = "complete"
            /\ dirs' = [dirs EXCEPT ![p] = Latest[p]]
            /\ req' = [req EXCEPT ![r].pc = "write_index", ![r].installed.version[p] = Latest[p]]
         \/ outcome = "refused" /\ dirs' = [dirs EXCEPT ![p] = NoDir] /\ Finish(r, "error")
         \/ outcome = "broken" /\ dirs' = [dirs EXCEPT ![p] = Partial] /\ Finish(r, "error")
    /\ UNCHANGED <<indexFile, installedFile, accepted, disturbed, marketCrashes>>

\* uninstall, and the first half of update_plugin.
RemoveDir(r, removed) ==
    /\ req[r].pc = "remove"
    /\ LET p == req[r].plugin IN
         IF removed
           THEN /\ dirs' = [dirs EXCEPT ![p] = NoDir]
                /\ req' = [req EXCEPT ![r].pc = "write_index", ![r].installed.version[p] = 0]
                /\ UNCHANGED disturbed
           ELSE /\ dirs[p] # NoDir
                /\ dirs' = [dirs EXCEPT ![p] = Partial]
                /\ Finish(r, "error")
                /\ disturbed' = TRUE
    /\ UNCHANGED <<indexFile, installedFile, accepted, marketCrashes>>

\* save: fs::write truncates the file and then fills it.
TruncateIndex(r) ==
    /\ req[r].pc = "write_index"
    /\ indexFile' = [indexFile EXCEPT !.whole = FALSE]
    /\ Step(r, "fill_index")
    /\ UNCHANGED <<installedFile, dirs, accepted, disturbed, marketCrashes>>

\* Two writers at once may leave neither's text; a failed write leaves a part of it.
Contended(r, pc) == \E o \in Requests \ {r} : req[o].pc = pc

FillIndex(r, whole) ==
    /\ req[r].pc = "fill_index"
    /\ indexFile' = [req[r].index EXCEPT !.whole = whole]
    /\ IF whole \/ Contended(r, "fill_index") THEN Step(r, "write_installed")
       ELSE Finish(r, "error")
    /\ disturbed' = (disturbed \/ ~whole)
    /\ UNCHANGED <<installedFile, dirs, accepted, marketCrashes>>

TruncateInstalled(r) ==
    /\ req[r].pc = "write_installed"
    /\ installedFile' = [installedFile EXCEPT !.whole = FALSE]
    /\ Step(r, "fill_installed")
    /\ UNCHANGED <<indexFile, dirs, accepted, disturbed, marketCrashes>>

\* Faulty variant: only the entry of the request is written.
FillInstalledOnlyOwn(r, whole) ==
    /\ req[r].pc = "fill_installed"
    /\ installedFile' = [whole |-> whole,
                         version |-> [p \in Plugins |-> IF p = req[r].plugin
                                        THEN req[r].installed.version[p] ELSE 0]]
    /\ Finish(r, IF whole THEN "ok" ELSE "error")
    /\ accepted' = IF whole /\ req[r].op = "review" THEN accepted \cup {r} ELSE accepted
    /\ disturbed' = (disturbed \/ ~whole)
    /\ UNCHANGED <<indexFile, dirs, marketCrashes>>

\* The end of save: update_plugin goes on to install, the others answer.
FillInstalled(r, whole) ==
    /\ req[r].pc = "fill_installed"
    /\ installedFile' = [req[r].installed EXCEPT !.whole = whole]
    /\ LET saved == whole \/ Contended(r, "fill_installed")
           q == req[r]
       IN  /\ IF saved /\ q.op = "update" /\ q.installed.version[q.plugin] = 0
                THEN Step(r, "mkdir")
                ELSE Finish(r, IF saved THEN "ok" ELSE "error")
           /\ accepted' = IF saved /\ q.op = "review" THEN accepted \cup {r} ELSE accepted
    /\ disturbed' = (disturbed \/ ~whole)
    /\ UNCHANGED <<indexFile, dirs, marketCrashes>>

\* The process dies: what the requests held is gone, the files stay as they are.
MarketCrash ==
    /\ marketCrashes < MaxCrashes
    /\ \E r \in Requests : Active(r)
    /\ req' = [r \in Requests |-> IF Active(r) THEN [req[r] EXCEPT !.pc = "error"] ELSE req[r]]
    /\ marketCrashes' = marketCrashes + 1
    /\ disturbed' = TRUE
    /\ UNCHANGED <<indexFile, installedFile, dirs, accepted>>

Operations == {"install", "uninstall", "update", "review"}

MarketNext ==
    \/ \E r \in Requests :
         \/ \E op \in Operations, p \in Plugins : Receive(r, op, p)
         \/ Load(r) \/ Rate(r) \/ MakeDir(r)
         \/ \E outcome \in {"complete", "refused", "broken"} : Fetch(r, outcome)
         \/ \E ok \in BOOLEAN : RemoveDir(r, ok) \/ FillIndex(r, ok) \/ FillInstalled(r, ok)
         \/ TruncateIndex(r) \/ TruncateInstalled(r)
    \/ MarketCrash

MarketSpec == MarketInit /\ [][MarketNext]_marketVars

-----------------------------------------------------------------------------
Settled == \A r \in Requests : ~Active(r)

\* As long as requests come one at a time and the file system works, every plugin
\* listed as installed has a complete directory of that version, whatever failed
\* in downloads, checksums and extractions, and in the second half of updates.
InstalledComplete ==
    Settled /\ ~disturbed =>
        /\ indexFile.whole /\ installedFile.whole
        /\ \A p \in Plugins : installedFile.version[p] # 0 => dirs[p] = installedFile.version[p]

\* Under the same condition no request undoes another's effect: a review that was
\* accepted stays in the index, and only a request that names a plugin changes it.
NothingForgotten ==
    Settled /\ ~disturbed =>
        /\ accepted \subseteq indexFile.reviews
        /\ \A p \in Plugins : dirs[p] = 1 => installedFile.version[p] = 1

\* Between requests that came one at a time, on a file system that works, the directories
\* and the two index files agree, and nothing a request confirmed is lost, whichever
\* download, checksum or extraction failed.
InstallsKept == InstalledComplete /\ NothingForgotten

-----------------------------------------------------------------------------
(* Claims the code does not satisfy. *)

\* "Review submitted", 201: two requests that overlap, and one is lost.
ReviewsKept == Settled /\ indexFile.whole => accepted \subseteq indexFile.reviews

\* A crash in save leaves a file that the next request reads as empty, and saves so.
SurvivesCrash == Settled => indexFile.listed # {}

\* "Update an installed plugin to the latest version": a failed download leaves none.
UpdateKeepsPlugin ==
    \A r \in Requests : req[r].pc = "error" /\ req[r].op = "update" /\ ~disturbed
        => dirs[req[r].plugin] # NoDir \/ installedFile.version[req[r].plugin] # 0

\* A refused install leaves no directory behind.
NoStrayDirectory ==
    Settled /\ ~disturbed => \A p \in Plugins : dirs[p] # NoDir => installedFile.version[p] # 0
=============================================================================
