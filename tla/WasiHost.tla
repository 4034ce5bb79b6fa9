----------------------------- MODULE WasiHost ------------------------------
(***************************************************************************)
(* The host side of WASI that an interpreter guest calls                   *)
(* (src/wasm_runtime/wasi.rs, src/wasm_runtime/wasi_net.rs): descriptors   *)
(* of files and sockets, the stdin buffer, paths below preopened           *)
(* directories, and readiness polls.  A guest is single-threaded, so each  *)
(* host function is one step; its peers on a socket, and the embedder that *)
(* feeds stdin, move between the steps.                                    *)
(*                                                                         *)
(* Paths are taken in normal form: a directory and a name in it.  Bytes    *)
(* are numbered in the order they are produced.                            *)
(***************************************************************************)
EXTENDS Integers, Sequences, SequencesExt, FiniteSets, Functions

CONSTANTS
    Dirs, FileNames,       \* directories and the names in them
    Preopens,          \* the preopened directories, a sequence
    AllowedHosts,      \* the allow list of the sockets
    OtherHosts,        \* hosts that are not on it
    SOCKET_FD_BASE,    \* 1000 in the code
    Iovs,              \* the vectors of buffer lengths a guest passes
    MaxBytes,          \* bound: bytes produced, in total
    MaxHostCalls       \* bound: host calls


VARIABLES
    build,       \* "quickjs" (build_quickjs_imports), "plain" or "networking"
                 \* (build_wasi_imports without and with wasm-networking)
    files,       \* WasiFsState.files: descriptor -> open file
    nextFd,      \* WasiFsState.next_fd
    tree,        \* what a path names: 0, Directory, or an inode
    inodes,      \* contents of the inodes, a sequence
    stdin,       \* stdin_buffer
    socks,       \* WasiSocketState.sockets: descriptor -> bytes not read yet
    listeners,   \* WasiSocketState.listeners: the descriptors
    nextSock,    \* WasiSocketState.next_fd
    answer,      \* what the last host call returned
    produced,    \* history: bytes produced so far
    pushed,      \* history: bytes pushed to stdin, and delivered from it
    taken,
    sent,        \* history: bytes the peer of a socket sent, and those the
    given,       \* guest was told it received
    failed,      \* history: sockets on which a receive answered an error
    closed,      \* history: descriptors closed
    calls        \* host calls so far

fsVars   == <<files, nextFd, tree, inodes>>
netVars  == <<socks, listeners, nextSock, sent, given, failed>>
inVars   == <<stdin, pushed, taken>>
wasiVars == <<build, fsVars, netVars, inVars, answer, produced, closed, calls>>

networking == build = "networking"
Directory == -1
Paths     == Dirs \X FileNames
Hosts     == AllowedHosts \cup OtherHosts
Fds       == DOMAIN files \cup DOMAIN socks \cup listeners

HostCalling        == calls < MaxHostCalls /\ calls' = calls + 1 /\ UNCHANGED build
Answers(e, n)  == answer' = [errno |-> e, count |-> n]
\* A call that changes nothing but its answer.
RefusedCall(e)     == Answers(e, 0) /\ UNCHANGED <<fsVars, netVars, inVars, produced, closed>>

WasiInit ==
    /\ build \in {"quickjs", "plain", "networking"}
    /\ files = <<>> /\ nextFd = 3
    /\ tree = [p \in Paths |-> 0] /\ inodes = <<>>
    /\ stdin = <<>> /\ pushed = <<>> /\ taken = <<>>
    /\ socks = <<>> /\ listeners = {} /\ nextSock = SOCKET_FD_BASE
    /\ sent = <<>> /\ given = <<>> /\ failed = {}
    /\ answer = [errno |-> "none", count |-> 0]
    /\ produced = 0 /\ closed = {} /\ calls = 0

\* The total of the lengths.
Total(iov) == FoldSeq(+, 0, iov)

ASSUME WasiAssumption ==
    /\ SOCKET_FD_BASE \in Nat /\ SOCKET_FD_BASE > 3
    /\ MaxBytes \in Nat
    /\ \A iov \in Iovs : Total(iov) \in Nat

\* HashMap::insert.
Inserted(f, x, v) == [y \in DOMAIN f \cup {x} |-> IF y = x THEN v ELSE f[y]]

\* Mutant: every buffer is filled from the front of the data.
FilledFromFront(iov, bytes) ==
    LET n == IF Total(iov) < Len(bytes) THEN Total(iov) ELSE Len(bytes)
    IN [i \in 1..n |-> IF i > iov[1] THEN bytes[i - iov[1]] ELSE bytes[i]]
\* What a read into the buffers takes of the bytes that are there: the loop
\* fills them in turn and stops at the end of the data.
Filled(iov, bytes) == SubSeq(bytes, 1, IF Total(iov) < Len(bytes) THEN Total(iov) ELSE Len(bytes))
Rest(iov, bytes) == SubSeq(bytes, Len(Filled(iov, bytes)) + 1, Len(bytes))
NextBytes(n) == [i \in 1..n |-> produced + i]
MayProduce(n) == produced + n =< MaxBytes /\ produced' = produced + n

---------------------------------------------------------------------------
\* Standard input.

\* WasiEnv::push_stdin, by the embedder between two host calls.
PushStdin(n) ==
    /\ MayProduce(n)
    /\ stdin' = stdin \o NextBytes(n)
    /\ pushed' = pushed \o NextBytes(n)
    /\ UNCHANGED <<build, fsVars, netVars, taken, answer, closed, calls>>

\* fd_read on descriptor 0: AGAIN on an empty buffer, else the buffers are
\* filled in turn from the front.
ReadStdin(iov) ==
    /\ HostCalling /\ build # "quickjs"
    /\ \/ stdin = <<>> /\ RefusedCall("AGAIN")
       \/ /\ stdin # <<>>
          /\ taken' = taken \o Filled(iov, stdin)
          /\ stdin' = Rest(iov, stdin)
          /\ Answers("ok", Len(Filled(iov, stdin)))
          /\ UNCHANGED <<fsVars, netVars, pushed, produced, closed>>

---------------------------------------------------------------------------
\* Files.

\* Where a path leads: descriptor 3 stands for the first preopened directory,
\* and an absolute path replaces what it is joined to.
Resolve(dirfd, dir, name) ==
    IF dir # "relative" THEN <<dir, name>>
    ELSE IF dirfd = 3 /\ Preopens # <<>> THEN <<Preopens[1], name>>
    ELSE <<"relative", name>>
Permitted(dirfd, path) ==
    /\ dirfd = 3 => Preopens # <<>>
    /\ path[1] \in ToSet(Preopens)

\* Mutant: the lowest free number.
AllocFdLowest == CHOOSE fd \in 3..nextFd :
    fd \notin DOMAIN files /\ \A x \in 3..(fd - 1) : x \in DOMAIN files
\* alloc_fd: numbers are handed out in order and never again.
AllocFd == nextFd

OpenAs(node, access) ==
    /\ files' = Inserted(files, AllocFd, [node |-> node, pos |-> 0, access |-> access])
    /\ nextFd' = nextFd + 1
    /\ Answers("ok", AllocFd)

\* path_open: read only, write only, or both when neither or both are asked
\* for; a writer truncates unless it asked to create.
PathOpen(dirfd, dir, name, read, write, create) ==
    LET path   == Resolve(dirfd, dir, name)
        access == IF read = write THEN "both" ELSE IF read THEN "read" ELSE "write"
    IN /\ HostCalling /\ build # "quickjs"
       /\ \/ ~Permitted(dirfd, path) /\ RefusedCall("PERM")
          \/ /\ Permitted(dirfd, path)
             /\ \/ /\ tree[path] = 0 /\ (access = "read" \/ ~create)
                   /\ RefusedCall("NOENT")
                \/ /\ tree[path] = Directory /\ access # "read"
                   /\ RefusedCall("INVAL")
                \/ /\ tree[path] = 0 /\ access # "read" /\ create
                   /\ inodes' = Append(inodes, <<>>)
                   /\ tree' = [tree EXCEPT ![path] = Len(inodes')]
                   /\ OpenAs(Len(inodes'), access)
                   /\ UNCHANGED <<netVars, inVars, produced, closed>>
                \/ /\ tree[path] # 0 /\ (tree[path] = Directory => access = "read")
                   /\ inodes' = IF access = "read" \/ create THEN inodes
                                ELSE [inodes EXCEPT ![tree[path]] = <<>>]
                   /\ OpenAs(tree[path], access)
                   /\ UNCHANGED <<tree, netVars, inVars, produced, closed>>

\* Where fd_write and fd_close look a descriptor up: with networking the
\* numbers from SOCKET_FD_BASE on are sockets.  fd_read and fd_seek always
\* look in the files.
FileRange(fd) == fd >= 3 /\ (networking => fd < SOCKET_FD_BASE)

\* fd_read on a file: to the end of the buffers or of the file; a failed read
\* (a directory, a file opened to write) ends the loop and is still answered 0.
ReadFile(fd, iov) ==
    /\ HostCalling /\ fd >= 3 /\ build # "quickjs"
    /\ \/ fd \notin DOMAIN files /\ RefusedCall("BADF")
       \/ /\ fd \in DOMAIN files
          /\ LET f    == files[fd]
                 left == IF f.node = Directory \/ f.access = "write" THEN <<>>
                         ELSE SubSeq(inodes[f.node], f.pos + 1, Len(inodes[f.node]))
             IN /\ files' = [files EXCEPT ![fd].pos = @ + Len(Filled(iov, left))]
                /\ Answers("ok", Len(Filled(iov, left)))
          /\ UNCHANGED <<nextFd, tree, inodes, netVars, inVars, produced, closed>>

\* Bytes below the position, zeros where the position is past the end, the new
\* bytes, and what followed them.
Overwrite(content, pos, bytes) ==
    [i \in 1..(IF pos + Len(bytes) > Len(content) THEN pos + Len(bytes) ELSE Len(content)) |->
        IF i > pos /\ i =< pos + Len(bytes) THEN bytes[i - pos]
        ELSE IF i =< Len(content) THEN content[i] ELSE 0]

\* fd_write on a file; a failed write ends the loop and is still answered 0.
WriteFile(fd, iov) ==
    /\ HostCalling /\ FileRange(fd) /\ build # "quickjs"
    /\ \/ fd \notin DOMAIN files /\ RefusedCall("BADF")
       \/ /\ fd \in DOMAIN files /\ files[fd].access = "read" /\ RefusedCall("ok")
       \/ /\ fd \in DOMAIN files /\ files[fd].access # "read"
          /\ MayProduce(Total(iov))
          /\ LET f == files[fd]
             IN /\ inodes' = IF Total(iov) = 0 THEN inodes
                             ELSE [inodes EXCEPT ![f.node] =
                                       Overwrite(@, f.pos, NextBytes(Total(iov)))]
                /\ files' = [files EXCEPT ![fd].pos = @ + Total(iov)]
          /\ Answers("ok", Total(iov))
          /\ UNCHANGED <<nextFd, tree, netVars, inVars, closed>>

\* fd_seek and fd_tell: from the start, from here, or from the end; a position
\* before the start is an error.  (Offsets in a directory are left out.)
Seek(fd, offset, whence) ==
    /\ HostCalling
    /\ \/ fd \notin DOMAIN files /\ RefusedCall("BADF")
       \/ fd \in DOMAIN files /\ files[fd].node # Directory /\
          LET to == offset + (CASE whence = 0 -> 0
                                [] whence = 1 -> files[fd].pos
                                [] OTHER -> Len(inodes[files[fd].node]))
          IN \/ whence \notin 0..2 /\ RefusedCall("INVAL")
             \/ whence \in 0..2 /\ to < 0 /\ RefusedCall("IO")
             \/ /\ whence \in 0..2 /\ to >= 0
                /\ files' = [files EXCEPT ![fd].pos = to]
                /\ Answers("ok", to)
                /\ UNCHANGED <<nextFd, tree, inodes, netVars, inVars, produced, closed>>

\* path_unlink_file: an open descriptor keeps the contents.
Unlink(dirfd, dir, name) ==
    LET path == Resolve(dirfd, dir, name)
    IN /\ HostCalling /\ build # "quickjs"
       /\ \/ ~Permitted(dirfd, path) /\ RefusedCall("PERM")
          \/ Permitted(dirfd, path) /\ tree[path] = 0 /\ RefusedCall("NOENT")
          \/ Permitted(dirfd, path) /\ tree[path] = Directory /\ RefusedCall("IO")
          \/ /\ Permitted(dirfd, path) /\ tree[path] > 0
             /\ tree' = [tree EXCEPT ![path] = 0]
             /\ Answers("ok", 0)
             /\ UNCHANGED <<files, nextFd, inodes, netVars, inVars, produced, closed>>

\* path_rename: both ends have to be permitted; a file replaces a file, a
\* directory an (empty) directory.
Rename(dirfd, from, newfd, to) ==
    LET old == Resolve(dirfd, from[1], from[2])
        new == Resolve(newfd, to[1], to[2])
        ok  == Permitted(dirfd, old) /\ Permitted(newfd, new)
    IN /\ HostCalling /\ build # "quickjs"
       /\ \/ ~ok /\ RefusedCall("PERM")
          \/ ok /\ tree[old] = 0 /\ RefusedCall("NOENT")
          \/ /\ ok /\ tree[old] # 0 /\ tree[new] # 0
             /\ (tree[old] = Directory) # (tree[new] = Directory)
             /\ RefusedCall("IO")
          \/ /\ ok /\ tree[old] # 0
             /\ tree[new] # 0 => (tree[old] = Directory) = (tree[new] = Directory)
             /\ tree' = IF old = new THEN tree ELSE [tree EXCEPT ![new] = tree[old], ![old] = 0]
             /\ Answers("ok", 0)
             /\ UNCHANGED <<files, nextFd, inodes, netVars, inVars, produced, closed>>

\* path_create_directory: create_dir_all, which an existing directory satisfies.
CreateDirectory(dirfd, dir, name) ==
    LET path == Resolve(dirfd, dir, name)
    IN /\ HostCalling /\ build # "quickjs"
       /\ \/ ~Permitted(dirfd, path) /\ RefusedCall("PERM")
          \/ Permitted(dirfd, path) /\ tree[path] > 0 /\ RefusedCall("IO")
          \/ /\ Permitted(dirfd, path) /\ tree[path] =< 0
             /\ tree' = [tree EXCEPT ![path] = Directory]
             /\ Answers("ok", 0)
             /\ UNCHANGED <<files, nextFd, inodes, netVars, inVars, produced, closed>>

---------------------------------------------------------------------------
\* Sockets, with the networking feature.

\* connect_tcp and listen_tcp: the allow list first, then the network, which
\* may refuse as well.
Connect(host) ==
    /\ HostCalling /\ networking
    /\ \/ RefusedCall("CONNREFUSED")
       \/ /\ host \in AllowedHosts
          /\ socks' = Inserted(socks, nextSock, <<>>)
          /\ sent' = Inserted(sent, nextSock, <<>>) /\ given' = Inserted(given, nextSock, <<>>)
          /\ nextSock' = nextSock + 1
          /\ Answers("ok", nextSock)
          /\ UNCHANGED <<listeners, failed, fsVars, inVars, produced, closed>>
Listen(host) ==
    /\ HostCalling /\ networking
    /\ \/ RefusedCall("CONNREFUSED")
       \/ /\ host \in AllowedHosts
          /\ listeners' = listeners \cup {nextSock}
          /\ nextSock' = nextSock + 1
          /\ Answers("ok", nextSock)
          /\ UNCHANGED <<socks, sent, given, failed, fsVars, inVars, produced, closed>>

\* sock_accept: a connection that waits becomes a socket.
Accept(fd) ==
    /\ HostCalling /\ networking
    /\ \/ fd \notin listeners /\ RefusedCall("BADF")
       \/ fd \in listeners /\ RefusedCall("NOSYS")
       \/ /\ fd \in listeners
          /\ socks' = Inserted(socks, nextSock, <<>>)
          /\ sent' = Inserted(sent, nextSock, <<>>) /\ given' = Inserted(given, nextSock, <<>>)
          /\ nextSock' = nextSock + 1
          /\ Answers("ok", nextSock)
          /\ UNCHANGED <<listeners, failed, fsVars, inVars, produced, closed>>

\* The peer sends.
PeerSends(fd, n) ==
    /\ fd \in DOMAIN socks
    /\ MayProduce(n)
    /\ socks' = [socks EXCEPT ![fd] = @ \o NextBytes(n)]
    /\ sent' = [sent EXCEPT ![fd] = @ \o NextBytes(n)]
    /\ UNCHANGED <<build, fsVars, inVars, listeners, nextSock, given, failed, answer, closed,
                   calls>>

\* sock_recv: what is there, into the buffers in turn.  A read that would
\* block ends the loop; one that fails in a later buffer is answered with an
\* error, and what the earlier buffers took is gone.
Recv(fd, iov) ==
    /\ HostCalling /\ networking
    /\ \/ fd \notin DOMAIN socks /\ RefusedCall("BADF")
       \/ /\ fd \in DOMAIN socks
          /\ socks' = [socks EXCEPT ![fd] = Rest(iov, socks[fd])]
          /\ given' = [given EXCEPT ![fd] = @ \o Filled(iov, socks[fd])]
          /\ Answers("ok", Len(Filled(iov, socks[fd])))
          /\ UNCHANGED <<listeners, nextSock, sent, failed, fsVars, inVars, produced, closed>>
       \/ /\ fd \in DOMAIN socks
          /\ \E k \in 0..(Len(iov) - 1) : 
                socks' = [socks EXCEPT ![fd] = Rest(SubSeq(iov, 1, k), socks[fd])]
          /\ failed' = failed \cup {fd}
          /\ Answers("CONNABORTED", 0)
          /\ UNCHANGED <<listeners, nextSock, sent, given, fsVars, inVars, produced, closed>>

\* sock_send, sock_shutdown and fd_write on a socket number: the answers
\* depend on the descriptor, nothing the guest can see again changes.
\* fd_write does not refuse a number that is not open.
Send(fd) ==
    /\ HostCalling /\ networking
    /\ \/ fd \notin DOMAIN socks /\ RefusedCall("BADF")
       \/ fd \in DOMAIN socks /\ (RefusedCall("ok") \/ RefusedCall("CONNABORTED"))
WriteSocket(fd) == HostCalling /\ networking /\ fd >= SOCKET_FD_BASE /\ RefusedCall("ok")

---------------------------------------------------------------------------
\* Either kind.

\* fd_write on stdout and stderr: all is counted, only stderr is shown.  For
\* QuickJS fd_write answers zero bytes whatever the descriptor.
WriteOut(fd, iov) ==
    /\ HostCalling
    /\ fd < 3 \/ build = "quickjs"
    /\ Answers("ok", IF build = "quickjs" THEN 0 ELSE Total(iov))
    /\ UNCHANGED <<fsVars, netVars, inVars, produced, closed>>
\* The calls that always answer the same: fd_sync, fd_renumber, fd_prestat_get,
\* fd_pread and the like BADF, path_link, path_symlink and the like INVAL.
Unsupported == HostCalling /\ (RefusedCall("BADF") \/ RefusedCall("INVAL"))

Without(f, x) == [y \in DOMAIN f \ {x} |-> f[y]]

\* fd_close, with and without networking.
Close(fd) ==
    /\ HostCalling
    /\ LET open == IF FileRange(fd) THEN fd \in DOMAIN files
                   ELSE networking /\ fd \in DOMAIN socks \cup listeners
       IN \/ ~open /\ RefusedCall("BADF")
          \/ /\ open
             /\ IF FileRange(fd)
                THEN files' = Without(files, fd) /\ UNCHANGED <<socks, listeners>>
                ELSE /\ socks' = Without(socks, fd)
                     /\ listeners' = IF fd \in DOMAIN socks THEN listeners ELSE listeners \ {fd}
                     /\ UNCHANGED files
             /\ closed' = closed \cup {fd}
             /\ Answers("ok", 0)
             /\ UNCHANGED <<nextFd, tree, inodes, nextSock, sent, given, failed, inVars, produced>>

\* fd_fdstat_get, fd_readdir and the readiness part of poll_oneoff: what a
\* descriptor is.  Without networking a poll looks in the files, with it every
\* number below SOCKET_FD_BASE is ready.
Stat(fd) ==
    HostCalling /\ (IF fd \in {1, 2} \/ (networking /\ fd >= SOCKET_FD_BASE
                                     /\ fd \in DOMAIN socks \cup listeners)
                THEN RefusedCall("ok") ELSE RefusedCall("BADF"))
ReadDir(fd) == HostCalling /\ (IF fd \in DOMAIN files THEN RefusedCall("NOTSUP") ELSE RefusedCall("BADF"))
PollReady(fd) ==
    IF networking THEN fd < SOCKET_FD_BASE \/ fd \in DOMAIN socks \cup listeners
    ELSE fd < 3 \/ fd \in DOMAIN files
Poll(fd) ==
    /\ HostCalling
    /\ Answers("ok", IF PollReady(fd) THEN 1 ELSE 0)
    /\ UNCHANGED <<fsVars, netVars, inVars, produced, closed>>

Numbers == 0..(SOCKET_FD_BASE + 2)
WasiNext ==
    \/ PushStdin(2)
    \/ \E iov \in Iovs : ReadStdin(iov)
    \/ \E dirfd \in {3, 4}, dir \in Dirs \cup {"relative"}, name \in FileNames :
          \/ \E read, write, create \in BOOLEAN : PathOpen(dirfd, dir, name, read, write, create)
          \/ Unlink(dirfd, dir, name)
          \/ CreateDirectory(dirfd, dir, name)
          \/ \E to \in (Dirs \cup {"relative"}) \X FileNames : Rename(dirfd, <<dir, name>>, 3, to)
    \/ \E fd \in Numbers :
          \/ \E iov \in Iovs : ReadFile(fd, iov) \/ WriteFile(fd, iov) \/ Recv(fd, iov) \/ WriteOut(fd, iov)
          \/ \E offset \in -1..1, whence \in 0..3 : Seek(fd, offset, whence)
          \/ Accept(fd) \/ Send(fd) \/ WriteSocket(fd)
          \/ Close(fd) \/ Stat(fd) \/ ReadDir(fd) \/ Poll(fd)
          \/ PeerSends(fd, 2)
    \/ Unsupported
    \/ \E host \in Hosts : Connect(host) \/ Listen(host)

WasiSpec == WasiInit /\ [][WasiNext]_wasiVars

---------------------------------------------------------------------------
(* Properties *)

\* The guest reads the bytes pushed to stdin in order, each exactly once,
\* however it splits its buffers and however reads and pushes alternate.
StdinWhole == taken \o stdin = pushed

\* Until a receive on a socket was answered with an error, what the guest was
\* given is exactly what the peer sent, in order.  (After an error bytes may be
\* missing: the buffers filled before it are not reported.)
ReceivedWhole ==
    \A fd \in DOMAIN socks \ failed : given[fd] \o socks[fd] = sent[fd]

\* A descriptor number means one thing for ever: a closed one is never open
\* again, so a stale number held by the guest cannot reach another file.  It
\* holds until files use up the numbers below SOCKET_FD_BASE; from there on a
\* file and a socket may have the same one.
FdNeverReused == nextFd =< SOCKET_FD_BASE => closed \cap Fds = {}

\* The guest gets every byte once and in order from stdin and from sockets, and never
\* meets another file under a descriptor it closed.
WasiExact == StdinWhole /\ ReceivedWhole /\ FdNeverReused

\* Does not hold: every open descriptor can be closed.  With networking a file
\* whose number reached SOCKET_FD_BASE is looked up among the sockets.
EveryFileClosable == \A fd \in DOMAIN files : FileRange(fd)
\* Does not hold: no open file has the number of the preopened directory.
ThreeIsThePreopen == Preopens # <<>> => 3 \notin DOMAIN files
\* Does not hold: a poll does not call a number ready that is not open.
ReadyMeansOpen == \A fd \in Numbers : PollReady(fd) => fd < 3 \/ fd \in Fds
=============================================================================
