----------------------------- MODULE OutboundHttp -----------------------------
(***************************************************************************)
(* The http_request tool of execute_tool, and the directory_tree tool.     *)
(*                                                                         *)
(* http_request checks the URL, resolves the host on a thread of its own   *)
(* with a limit of time, and then sends the request up to MAX_RETRIES + 1  *)
(* times.  The remote server may carry a request out and the connection    *)
(* may still fail before the response arrives; the HTTP client reports     *)
(* statuses of 400 and above as errors (ureq 2: Error::Status).            *)
(*                                                                         *)
(* directory_tree is a function from a directory to the lines it prints.   *)
(***************************************************************************)
EXTENDS Naturals, Sequences, FiniteSets, SequencesExt

CONSTANTS
  HttpCalls,      \* threads of the server that run http_request
  Urls,           \* classes of URLs: "scheme", "private", "numeric", "public"
  HttpMethods,    \* "GET", "POST", "TRACE" (one that is not supported)
  Statuses,       \* statuses a server may answer
  MAX_RETRIES,    \* 3 in the code
  BodySizes, MAX_RESPONSE_SIZE,
  Directories, Excluded, MaxDepths, EntryLimits   \* inputs of directory_tree

ASSUME OutboundAssumption ==
  /\ MAX_RETRIES \in Nat /\ Statuses \subseteq Nat /\ MaxDepths \subseteq Nat /\ EntryLimits \subseteq Nat
  /\ \A dir \in Directories :
       /\ dir \in Seq(Range(dir))
       /\ \A e \in Range(dir) : e.children \in Directories \/ e.children = <<[name |-> "file"]>>

VARIABLES
  hcall,     \* call -> its progress
  resolver,  \* call -> the DNS thread: "none", "asking", "gone"
  effects,   \* call -> times the server carried the request out
  heard,     \* call -> what the attempts brought, oldest first
  tree       \* the directory_tree call looked at, or NoTree

httpVars == <<hcall, resolver, effects, heard, tree>>

NoTree == <<>>
Fresh == [pc |-> "idle", url |-> "none", method |-> "none", headers |-> TRUE,
          attempt |-> 0, answer |-> "none", size |-> 0]

OutboundInit ==
  /\ hcall = [c \in HttpCalls |-> Fresh]
  /\ resolver = [c \in HttpCalls |-> "none"]
  /\ effects = [c \in HttpCalls |-> 0]
  /\ heard = [c \in HttpCalls |-> <<>>]
  /\ tree = NoTree

AnswerCall(c, what) == hcall' = [hcall EXCEPT ![c].pc = "done", ![c].answer = what]

\* The scheme, the host patterns and the numeric forms, then the DNS thread.
Validate(c) ==
  /\ hcall[c].pc = "idle"
  /\ \E url \in Urls, m \in HttpMethods, h \in BOOLEAN :
       IF url \in {"scheme", "private", "numeric"}
       THEN /\ hcall' = [hcall EXCEPT ![c] = [Fresh EXCEPT !.pc = "done",
                           !.url = url, !.method = m, !.answer = "refused"]]
            /\ UNCHANGED resolver
       ELSE /\ hcall' = [hcall EXCEPT ![c] = [Fresh EXCEPT !.pc = "dns",
                           !.url = url, !.method = m, !.headers = h]]
            /\ resolver' = [resolver EXCEPT ![c] = "asking"]
  /\ UNCHANGED <<effects, heard, tree>>

\* recv_timeout returns the answer of the DNS thread; the thread is detached.
Resolved(c) ==
  /\ hcall[c].pc = "dns" /\ resolver[c] = "asking"
  /\ \E found \in {"public", "blocked", "failed"} :
       IF found = "blocked" THEN AnswerCall(c, "refused")
       ELSE hcall' = [hcall EXCEPT ![c].pc = "build"]
  /\ resolver' = [resolver EXCEPT ![c] = "gone"]
  /\ UNCHANGED <<effects, heard, tree>>

DnsTimeout(c) ==
  /\ hcall[c].pc = "dns" /\ resolver[c] = "asking"
  /\ AnswerCall(c, "failed")
  /\ UNCHANGED <<resolver, effects, heard, tree>>

\* The answer of a DNS thread nobody waits for any more.
LateDns(c) ==
  /\ hcall[c].pc = "done" /\ resolver[c] = "asking"
  /\ resolver' = [resolver EXCEPT ![c] = "gone"]
  /\ UNCHANGED <<hcall, effects, heard, tree>>

\* An agent per attempt; the method and the headers are checked in each.
BuildRequest(c) ==
  /\ hcall[c].pc = "build"
  /\ IF hcall[c].method = "TRACE" \/ ~ hcall[c].headers
     THEN AnswerCall(c, "refused")
     ELSE hcall' = [hcall EXCEPT ![c].pc = "sent"]
  /\ UNCHANGED <<resolver, effects, heard, tree>>

\* External: the server carries the request out, at most once per attempt.
Serve(c) ==
  /\ hcall[c].pc = "sent"
  /\ hcall' = [hcall EXCEPT ![c].pc = "served"]
  /\ effects' = [effects EXCEPT ![c] = @ + 1]
  /\ UNCHANGED <<resolver, heard, tree>>

\* The result is a transport error: retried with a growing pause, or the end.
Transport(c) ==
  /\ hcall[c].pc \in {"sent", "served"}
  /\ heard' = [heard EXCEPT ![c] = Append(@, "transport")]
  /\ IF hcall[c].attempt < MAX_RETRIES
     THEN hcall' = [hcall EXCEPT ![c].pc = "build", ![c].attempt = @ + 1]
     ELSE AnswerCall(c, "failed")
  /\ UNCHANGED <<resolver, effects, tree>>

Class(status) ==
  IF status >= 500 THEN "server error" ELSE IF status >= 400 THEN "client error" ELSE "ok"

\* A mutant: a body that cannot be read counts as a transport error, and is retried.
ReadBodyRetried(c, size) ==
  \/ /\ hcall[c].attempt < MAX_RETRIES
     /\ hcall' = [hcall EXCEPT ![c].pc = "build", ![c].attempt = @ + 1]
  \/ hcall' = [hcall EXCEPT ![c].pc = "done", ![c].answer = "body", ![c].size = size]

\* read_to_string reads up to the limit, or fails: the connection is lost while the
\* body comes, or the bytes are not UTF-8.  The request is not sent again then.
ReadBody(c, size) ==
  \/ AnswerCall(c, "failed")
  \/ hcall' = [hcall EXCEPT ![c].pc = "done", ![c].answer = "body",
                ![c].size = IF size > MAX_RESPONSE_SIZE THEN MAX_RESPONSE_SIZE ELSE size]

\* The result is a response: Error::Status from 400 on, else Ok and its body.
Respond(c) ==
  /\ hcall[c].pc = "served"
  /\ \E status \in Statuses, size \in BodySizes :
       /\ heard' = [heard EXCEPT ![c] = Append(@, Class(status))]
       /\ IF status >= 400 THEN AnswerCall(c, "failed") ELSE ReadBody(c, size)
  /\ UNCHANGED <<resolver, effects, tree>>

(***************************************************************************)
(* directory_tree.  A directory is a sequence of entries [name, children], *)
(* a file has no children but FileMark.                                    *)
(***************************************************************************)
FileMark == <<[name |-> "file"]>>
IsDir(e) == e.children # FileMark

Line(kind, name, depth, last) == [kind |-> kind, name |-> name, depth |-> depth, last |-> last]

NoneListed(n) == [lines |-> <<>>, left |-> n, open |-> TRUE]

\* A mutant: what a subdirectory has listed is not taken off the limit.
BelowEntryAnew(s, e, below) ==
  IF IsDir(e) THEN [below[e.children][s.left - 1] EXCEPT !.left = s.left - 1] ELSE NoneListed(s.left - 1)

\* The recursive call, for an entry that is a directory.
BelowEntry(s, e, below) ==
  IF IsDir(e) THEN below[e.children][s.left - 1] ELSE NoneListed(s.left - 1)

\* One turn of build_tree's loop over the entries of a directory: the lines so far,
\* what is left of the limit on entries, and whether the loop goes on.
NextEntry(s, e, isLast, depth, below) ==
  IF ~ s.open THEN s
  ELSE IF s.left = 0
    THEN [lines |-> Append(s.lines, Line("limit", "", depth, TRUE)), left |-> 0, open |-> FALSE]
  ELSE IF e.name \in Excluded THEN [lines |-> s.lines, left |-> s.left - 1, open |-> TRUE]
  ELSE LET sub == BelowEntry(s, e, below)
       IN  [lines |-> Append(s.lines, Line("entry", e.name, depth, isLast)) \o sub.lines,
            left |-> sub.left, open |-> TRUE]

\* The loop; below lists a subdirectory.
ListEntries(dir, depth, n, below) ==
  LET after[i \in 0..Len(dir)] ==
        IF i = 0 THEN NoneListed(n) ELSE NextEntry(after[i - 1], dir[i], i = Len(dir), depth, below)
  IN  after[Len(dir)]

\* build_tree, as a function of the levels that are left above the depth limit.
BuildTree(max) ==
  LET level[h \in 0..max] ==
        [dir \in Directories |-> [n \in Nat |->
           IF h = 0 THEN [lines |-> <<Line("depth", "", max, TRUE)>>, left |-> n, open |-> TRUE]
           ELSE ListEntries(dir, max - h, n, level[h - 1])]]
  IN  level

DirectoryTree(dir, max, limit) == BuildTree(max)[max][dir][limit].lines

\* The reference: every entry above the depth limit in preorder, the excluded
\* ones too but nothing below them.
Preorder(max) ==
  LET level[h \in 0..max] ==
        [dir \in Directories |->
           IF h = 0 THEN <<>>
           ELSE FlattenSeq([i \in DOMAIN dir |->
                  <<Line("entry", dir[i].name, max - h, i = Len(dir))>>
                  \o IF IsDir(dir[i]) /\ dir[i].name \notin Excluded
                     THEN level[h - 1][dir[i].children] ELSE <<>>])]
  IN  level

ListTree ==
  /\ \E d \in Directories, m \in MaxDepths, n \in EntryLimits :
       tree' = [dir |-> d, max |-> m, limit |-> n, lines |-> DirectoryTree(d, m, n)]
  /\ UNCHANGED <<hcall, resolver, effects, heard>>

Forward(c) == Validate(c) \/ BuildRequest(c)
Hear(c) == Resolved(c) \/ DnsTimeout(c) \/ Transport(c) \/ Respond(c)

OutboundNext ==
  \/ tree = NoTree /\ \E c \in HttpCalls : Forward(c) \/ Hear(c) \/ Serve(c) \/ LateDns(c)
  \/ (\A c \in HttpCalls : hcall[c].pc = "idle") /\ tree = NoTree /\ ListTree

\* A call's own steps, and the timeouts of recv_timeout and of the agent, which
\* end every wait: the resolver and the server need not do anything.
OutboundFair ==
  \A c \in HttpCalls :
    /\ WF_httpVars(BuildRequest(c))
    /\ WF_httpVars(Resolved(c) \/ DnsTimeout(c))
    /\ WF_httpVars(Transport(c) \/ Respond(c))

OutboundSpec == OutboundInit /\ [][OutboundNext]_httpVars /\ OutboundFair

-----------------------------------------------------------------------------
\* A call that was started returns, whatever the resolver and the server do
\* (recv_timeout, the agent's timeout and the bounded retry loop).
HttpEnds == \A c \in HttpCalls : hcall[c].pc # "idle" ~> hcall[c].pc = "done"

\* Nothing was heard of the attempts in h, but of the last one when the call is over.
Unheard(h, over) == \A i \in DOMAIN h : h[i] = "transport" \/ (over /\ i = Len(h))

\* A refused call was never carried out.  The server carries a request out at most once
\* per attempt, and it is sent again only while nothing was heard of it: once a status
\* has arrived there is no further attempt, not even when its body cannot be read.
EffectsWithinAttempts ==
  \A c \in HttpCalls :
    /\ effects[c] <= hcall[c].attempt + 1 /\ hcall[c].attempt <= MAX_RETRIES
    /\ Unheard(heard[c], hcall[c].pc = "done")
    /\ hcall[c].answer = "refused" => effects[c] = 0
    /\ hcall[c].answer = "body" => effects[c] >= 1 /\ Last(heard[c]) = "ok"

EntryLines(lines) ==
  FlattenSeq([i \in DOMAIN lines |-> IF lines[i].kind = "entry" THEN <<lines[i]>> ELSE <<>>])
NotExcluded(lines) ==
  FlattenSeq([i \in DOMAIN lines |-> IF lines[i].name \in Excluded THEN <<>> ELSE <<lines[i]>>])
FirstLines(lines, n) == SubSeq(lines, 1, IF Len(lines) < n THEN Len(lines) ELSE n)

\* The entries listed are the tree's in preorder, cut at the limit of entries,
\* without the excluded ones: the limit is shared by all levels (build_tree).
TreeListsPreorder ==
  tree # NoTree =>
    EntryLines(tree.lines) = NotExcluded(FirstLines(Preorder(tree.max)[tree.max][tree.dir], tree.limit))

\* http_request is carried out as often as its attempts at most and never again once
\* it was answered, and directory_tree lists the directories it walks in order up to
\* its limit.
OutboundExact == EffectsWithinAttempts /\ TreeListsPreorder

-----------------------------------------------------------------------------
(* Claims that do not hold; the README's table says why. *)

\* A request the server carried out and answered with success is not reported failed.
SuccessReported ==
  \A c \in HttpCalls : heard[c] # <<>> /\ Last(heard[c]) = "ok" => hcall[c].answer = "body"

\* "Retry on 5xx server errors (transient)".
ServerErrorsRetried ==
  \A c \in HttpCalls : hcall[c].pc = "done" /\ heard[c] # <<>> /\ Last(heard[c]) = "server error"
    => hcall[c].attempt = MAX_RETRIES

\* A request that is not idempotent is carried out once.
PostOnce == \A c \in HttpCalls : hcall[c].method = "POST" => effects[c] <= 1

\* The branch glyph of the last entry printed is the closing one.
LastEntryCloses ==
  tree # NoTree /\ tree.lines # <<>> =>
    \E i \in DOMAIN tree.lines : tree.lines[i].depth = 0 /\ tree.lines[i].last
=============================================================================
