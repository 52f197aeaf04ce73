----------------------------- MODULE ComebackFS -----------------------------
(***************************************************************************)
(* internal/comebackfs: a mounted backup.  The kernel sends requests, the  *)
(* fuse server runs each in a goroutine of its own (a slot of Thread), and *)
(* the goroutines share the table of inodes with its look-up counts, the   *)
(* table of file handles, and one lock per inode and per handle, held      *)
(* while a listing or a file is downloaded.  Sections under fs.mu are one  *)
(* action.  The kernel's side is what the FUSE protocol lets it do: it     *)
(* uses an inode or handle only while it holds a reference, and forgets an *)
(* inode only when none of its requests uses it.                           *)
(***************************************************************************)
EXTENDS Integers, Sequences, FiniteSets

CONSTANTS
    Entry,        \* the entries of the backup's listings, and the root
    Root,         \* the entry NewFileSystem makes up for the root
    Type,         \* Entry -> "dir", "file", "symlink", or "other"
    Name,         \* Entry -> its name in its directory
    Inode,        \* Entry -> FileInfo.Inode
    Listing,      \* Entry -> the entries of a directory's blob, in order
    Scores,       \* Entry -> the chunks of a file, in order
    Thread,       \* goroutines serving requests, at most this many at once
    MaxRequests   \* bound: requests the kernel sends while mounted

ASSUME BackupAssumption ==
    /\ Root \in Entry /\ Type[Root] = "dir"
    /\ Type \in [Entry -> {"dir", "file", "symlink", "other"}]
    /\ \A e \in Entry : Listing[e] \in Seq(Entry)
    /\ \A e \in Entry : Scores[e] \in Seq({Scores[e][k] : k \in DOMAIN Scores[e]})
    /\ "none" \notin Thread /\ MaxRequests \in Nat

VARIABLES
    inodes,        \* the keys of fileSystem.inodes
    count,         \* inodeRecord.lookupCount
    made,          \* the entry createInode was given
    listed,        \* the inodes whose children and listing are loaded
    inodeLock,     \* who holds dirInode.mu, fileInode.mu
    handles,       \* fileSystem.fileHandles: handle -> the entry it reads
    nextHandleID,
    file,          \* handle -> contents, for the handles whose file is set
    handleLock,    \* who holds fileHandle.mu
    anonymous,     \* how many anonymous files are open
    dead,          \* log.Fatalf or a nil dereference ended the process
    known,         \* kernel: its look-up count of each inode
    forgetting,    \* kernel: counts of forget requests not served yet
    opened,        \* kernel: handles it may use
    seen,          \* kernel: what its directory stream has returned
    pos,           \* kernel: where the directory stream continues
    sent,          \* kernel: requests sent so far
    op,            \* the request of each goroutine
    pc,            \* where the goroutine is
    found,         \* LookUpInode's e
    written        \* ensureFile: chunks written to f so far

table == <<inodes, count, made, listed>>
handleVars == <<handles, nextHandleID>>
fileVars == <<file, anonymous>>
locks == <<inodeLock, handleLock>>
stream == <<seen, pos>>
kernel == <<known, forgetting, opened, sent>>
local == <<op, pc, found, written>>
vars == <<table, handleVars, fileVars, locks, stream, kernel, local, dead>>

Id == {Inode[e] : e \in Entry}
Names == {Name[e] : e \in Entry}
Handle == 0..MaxRequests
NoOne == "none"

\* Directories and files have a mutex; symlinkInode.Lock does nothing.
Lockable(i) == Type[made[i]] # "symlink"

Request ==
    [kind : {"getattr", "readdir", "readlink", "open"}, inode : Id]
    \cup [kind : {"lookup"}, inode : Id, name : Names]
    \cup [kind : {"read", "release"}, handle : Handle]
NoRequest == [kind |-> "none"]

PCs == {"idle", "find", "lock", "locked", "register", "lockChild", "fill",
        "lockHandle", "reading", "loading"}

TypeOK ==
    /\ inodes \subseteq Id /\ listed \subseteq inodes
    /\ count \in [Id -> Nat] /\ made \in [Id -> Entry]
    /\ inodeLock \in [Id -> Thread \cup {NoOne}]
    /\ handles \in [DOMAIN handles -> Entry] /\ DOMAIN handles \subseteq Handle
    /\ nextHandleID \in Nat /\ DOMAIN file \subseteq DOMAIN handles
    /\ handleLock \in [Handle -> Thread \cup {NoOne}]
    /\ anonymous \in Nat /\ dead \in BOOLEAN
    /\ known \in [Id -> Nat] /\ forgetting \in [Id -> Nat]
    /\ opened \subseteq Handle /\ sent \in 0..MaxRequests
    /\ pos \in [Id -> Nat]
    /\ op \in [Thread -> Request \cup {NoRequest}]
    /\ pc \in [Thread -> PCs]
    /\ found \in [Thread -> Entry]

RootInode == Inode[Root]

\* NewFileSystem: the root is registered with a count of one, which is the
\* reference a kernel holds on the root of any mounted file system.
Init ==
    /\ inodes = {RootInode} /\ listed = {}
    /\ count = [i \in Id |-> IF i = RootInode THEN 1 ELSE 0]
    /\ made = [i \in Id |-> Root]
    /\ inodeLock = [i \in Id |-> NoOne]
    /\ handles = <<>> /\ nextHandleID = 0
    /\ file = <<>> /\ anonymous = 0
    /\ handleLock = [h \in Handle |-> NoOne]
    /\ dead = FALSE
    /\ known = count
    /\ forgetting = [i \in Id |-> 0]
    /\ opened = {} /\ sent = 0
    /\ seen = [i \in Id |-> <<>>] /\ pos = [i \in Id |-> 0]
    /\ op = [t \in Thread |-> NoRequest]
    /\ pc = [t \in Thread |-> "idle"]
    /\ found = [t \in Thread |-> Root]
    /\ written = [t \in Thread |-> <<>>]

------------------------------------------------------------------------------
(* The kernel                                                              *)

Uses(o, i) == o.kind \in {"getattr", "readdir", "readlink", "open", "lookup"}
              /\ o.inode = i
Reads(o, h) == o.kind = "read" /\ o.handle = h
Busy(t) == pc[t] # "idle"

\* What the kernel may ask for.  It takes an inode's type from the
\* attributes it was given, which are those of the inode object.
MayAsk(o) ==
    IF o.kind \in {"read", "release"}
    THEN /\ o.handle \in opened
         /\ o.kind = "release" => ~\E t \in Thread : Busy(t) /\ Reads(op[t], o.handle)
    ELSE /\ known[o.inode] > 0
         /\ o.kind \in {"lookup", "readdir"} => Type[made[o.inode]] = "dir"
         /\ o.kind = "open" => Type[made[o.inode]] = "file"
         /\ o.kind = "readlink" => Type[made[o.inode]] = "symlink"
         /\ o.kind = "readdir" =>
                ~\E t \in Thread : Busy(t) /\ op[t] = o   \* one position per stream

Ask(t, o) ==
    /\ pc[t] = "idle" /\ sent < MaxRequests /\ MayAsk(o)
    /\ sent' = sent + 1
    /\ op' = [op EXCEPT ![t] = o]
    /\ pc' = [pc EXCEPT ![t] = "find"]
    /\ opened' = IF o.kind = "release" THEN opened \ {o.handle} ELSE opened
    /\ UNCHANGED <<table, handleVars, fileVars, locks, stream, known,
                   forgetting, found, written, dead>>

\* The kernel drops an inode it no longer uses and tells the server by how
\* much to lower the count.  Bound: one such request per inode at a time.
Forget(i) ==
    /\ i # RootInode /\ known[i] > 0 /\ forgetting[i] = 0
    /\ ~\E t \in Thread : Busy(t) /\ Uses(op[t], i)
    /\ forgetting' = [forgetting EXCEPT ![i] = known[i]]
    /\ known' = [known EXCEPT ![i] = 0]
    /\ seen' = [seen EXCEPT ![i] = <<>>]
    /\ pos' = [pos EXCEPT ![i] = 0]
    /\ UNCHANGED <<table, handleVars, fileVars, locks, opened, sent, local, dead>>

------------------------------------------------------------------------------
(* fs.go and dir_inode.go: inodes                                          *)

Goto(t, where) == pc' = [pc EXCEPT ![t] = where]

\* The handler returns, with or without an error; its locals are gone.
Answer(t) ==
    /\ pc' = [pc EXCEPT ![t] = "idle"]
    /\ op' = [op EXCEPT ![t] = NoRequest]
    /\ found' = [found EXCEPT ![t] = Root]
    /\ written' = [written EXCEPT ![t] = <<>>]
Die == dead' = TRUE /\ UNCHANGED <<table, handleVars, fileVars, locks, stream, kernel, local>>

\* The first section under fs.mu of every request on an inode or a file's
\* contents: find the record, and die if it is not there.
FindInode(t) ==
    /\ pc[t] = "find" /\ op[t].kind \in {"getattr", "readdir", "readlink", "lookup"}
    /\ IF op[t].inode \in inodes
       THEN /\ Goto(t, "lock")
            /\ UNCHANGED <<table, handleVars, fileVars, locks, stream, kernel,
                           op, found, written, dead>>
       ELSE Die

LockInode(t) ==
    /\ pc[t] = "lock"
    /\ LET i == op[t].inode IN
         IF Lockable(i)
         THEN /\ inodeLock[i] = NoOne
              /\ inodeLock' = [inodeLock EXCEPT ![i] = t]
         ELSE UNCHANGED inodeLock
    /\ Goto(t, "locked")
    /\ UNCHANGED <<table, handleVars, fileVars, handleLock, stream, kernel,
                   op, found, written, dead>>

Unlock(t, i) ==
    inodeLock' = [inodeLock EXCEPT ![i] = IF @ = t THEN NoOne ELSE @]

\* GetInodeAttributes and ReadSymlink answer from constant data.
AnswerConstant(t) ==
    /\ pc[t] = "locked" /\ op[t].kind \in {"getattr", "readlink"}
    /\ Unlock(t, op[t].inode)
    /\ Answer(t)
    /\ UNCHANGED <<table, handleVars, fileVars, handleLock, stream, kernel, dead>>

NeedsListing(t) == pc[t] = "locked" /\ op[t].kind \in {"readdir", "lookup"}

\* ensureChildren: read and index the listing, once per inode object.
ensureChildren(t) ==
    /\ NeedsListing(t) /\ op[t].inode \notin listed
    /\ listed' = listed \cup {op[t].inode}
    /\ UNCHANGED <<inodes, count, made, handleVars, fileVars, locks, stream,
                   kernel, local, dead>>

\* Mutant: the error return leaves the directory locked.
ensureChildrenFailsLocked(t) ==
    /\ NeedsListing(t) /\ op[t].inode \notin listed
    /\ Answer(t)
    /\ UNCHANGED <<table, handleVars, fileVars, locks, stream, kernel, dead>>

\* The blob cannot be loaded or parsed: the request fails, and a later one
\* tries again.
ensureChildrenFails(t) ==
    /\ NeedsListing(t) /\ op[t].inode \notin listed
    /\ Unlock(t, op[t].inode)
    /\ Answer(t)
    /\ UNCHANGED <<table, handleVars, fileVars, handleLock, stream, kernel, dead>>

\* The entries of ensureChildren's listing, each with its Offset.
Dirents(i) ==
    LET l == Listing[made[i]] IN
    [k \in 1..Len(l) |-> [entry |-> l[k], offset |-> k]]

\* dirInode.Read: as many entries from the offset on as the buffer holds;
\* the stream continues at the offset of the last entry it got.
ReadDir(t) ==
    LET i == op[t].inode
        rest == SubSeq(Dirents(i), pos[i] + 1, Len(Dirents(i)))
    IN
    /\ NeedsListing(t) /\ op[t].kind = "readdir" /\ i \in listed
    /\ IF rest = <<>> THEN UNCHANGED stream
       ELSE \E n \in 1..Len(rest) :
              /\ seen' = [seen EXCEPT ![i] = @ \o [k \in 1..n |-> rest[k].entry]]
              /\ pos' = [pos EXCEPT ![i] = rest[n].offset]
    /\ Unlock(t, i)
    /\ Answer(t)
    /\ UNCHANGED <<table, handleVars, fileVars, handleLock, kernel, dead>>

Children(i) == {Listing[made[i]][k] : k \in DOMAIN Listing[made[i]]}

\* LookUpChild, under the parent's lock; ENOENT when there is no such entry.
LookUpChild(t) ==
    LET i == op[t].inode
        named == {e \in Children(i) : Name[e] = op[t].name}
    IN
    /\ NeedsListing(t) /\ op[t].kind = "lookup" /\ i \in listed
    /\ Unlock(t, i)
    /\ IF named = {}
       THEN Answer(t)
       ELSE /\ Goto(t, "register")
            /\ \E e \in named : found' = [found EXCEPT ![t] = e]
            /\ UNCHANGED <<op, written>>
    /\ UNCHANGED <<table, handleVars, fileVars, handleLock, stream, kernel, dead>>

\* Mutant: the count is raised only when the inode is created.
lookUpOrCreateInodeUncounted(t) ==
    LET i == Inode[found[t]] IN
    /\ pc[t] = "register" /\ (i \in inodes \/ Type[found[t]] # "other")
    /\ inodes' = inodes \cup {i}
    /\ count' = [count EXCEPT ![i] = IF i \in inodes THEN @ ELSE 1]
    /\ made' = [made EXCEPT ![i] = IF i \in inodes THEN @ ELSE found[t]]
    /\ Goto(t, "lockChild")
    /\ UNCHANGED <<listed, handleVars, fileVars, locks, stream, kernel,
                   op, found, written, dead>>

\* createInode knows no devices, pipes and sockets: looking one up fails.
lookUpFails(t) ==
    /\ pc[t] = "register"
    /\ Inode[found[t]] \notin inodes /\ Type[found[t]] = "other"
    /\ Answer(t)
    /\ UNCHANGED <<table, handleVars, fileVars, locks, stream, kernel, dead>>

\* lookUpOrCreateInode: an inode is found by number alone.
lookUpOrCreateInode(t) ==
    LET i == Inode[found[t]] IN
    /\ pc[t] = "register" /\ (i \in inodes \/ Type[found[t]] # "other")
    /\ inodes' = inodes \cup {i}
    /\ count' = [count EXCEPT ![i] = IF i \in inodes THEN @ + 1 ELSE 1]
    /\ made' = [made EXCEPT ![i] = IF i \in inodes THEN @ ELSE found[t]]
    /\ Goto(t, "lockChild")
    /\ UNCHANGED <<listed, handleVars, fileVars, locks, stream, kernel,
                   op, found, written, dead>>

\* The child's lock, which another request may hold during a download.
LockChild(t) ==
    LET i == Inode[found[t]] IN
    /\ pc[t] = "lockChild"
    /\ IF Lockable(i)
       THEN /\ inodeLock[i] = NoOne
            /\ inodeLock' = [inodeLock EXCEPT ![i] = t]
       ELSE UNCHANGED inodeLock
    /\ Goto(t, "fill")
    /\ UNCHANGED <<table, handleVars, fileVars, handleLock, stream, kernel,
                   op, found, written, dead>>

\* The answer to a look-up: the kernel has one more reference.
AnswerLookUp(t) ==
    LET i == Inode[found[t]] IN
    /\ pc[t] = "fill"
    /\ known' = [known EXCEPT ![i] = @ + 1]
    /\ Unlock(t, i)
    /\ Answer(t)
    /\ UNCHANGED <<table, handleVars, fileVars, handleLock, stream, forgetting, opened, sent, dead>>

\* Mutant: the inode is removed whatever is left of its count.
ForgetInodeAlways(i) ==
    /\ forgetting[i] > 0
    /\ forgetting' = [forgetting EXCEPT ![i] = 0]
    /\ IF i \in inodes /\ count[i] >= forgetting[i]
       THEN /\ count' = [count EXCEPT ![i] = @ - forgetting[i]]
            /\ inodes' = inodes \ {i}
            /\ listed' = listed \cap inodes'
            /\ UNCHANGED dead
       ELSE dead' = TRUE /\ UNCHANGED <<count, inodes, listed>>
    /\ UNCHANGED <<made, handleVars, fileVars, locks, stream, known, opened,
                   sent, local>>

\* ForgetInode: lower the count by N, and drop the record at zero.
ForgetInode(i) ==
    /\ forgetting[i] > 0
    /\ forgetting' = [forgetting EXCEPT ![i] = 0]
    /\ IF i \in inodes /\ count[i] >= forgetting[i]
       THEN /\ count' = [count EXCEPT ![i] = @ - forgetting[i]]
            /\ inodes' = IF count'[i] = 0 THEN inodes \ {i} ELSE inodes
            /\ listed' = listed \cap inodes'
            /\ UNCHANGED dead
       ELSE dead' = TRUE /\ UNCHANGED <<count, inodes, listed>>
    /\ UNCHANGED <<made, handleVars, fileVars, locks, stream, known, opened,
                   sent, local>>

------------------------------------------------------------------------------
(* fs.go and file_handle.go: file handles                                  *)

Without(f, h) == [k \in DOMAIN f \ {h} |-> f[k]]
With(f, h, x) == [k \in DOMAIN f \cup {h} |-> IF k = h THEN x ELSE f[k]]

OpenFile(t) ==
    /\ pc[t] = "find" /\ op[t].kind = "open"
    /\ IF op[t].inode \in inodes
       THEN /\ handles' = With(handles, nextHandleID, made[op[t].inode])
            /\ nextHandleID' = nextHandleID + 1
            /\ opened' = opened \cup {nextHandleID}
            /\ Answer(t)
            /\ UNCHANGED <<table, fileVars, locks, stream, known, forgetting,
                           sent, dead>>
       ELSE Die

FindHandle(t) ==
    /\ pc[t] = "find" /\ op[t].kind = "read"
    /\ IF op[t].handle \in DOMAIN handles
       THEN /\ Goto(t, "lockHandle")
            /\ UNCHANGED <<table, handleVars, fileVars, locks, stream, kernel,
                           op, found, written, dead>>
       ELSE Die

LockHandle(t) ==
    /\ pc[t] = "lockHandle" /\ handleLock[op[t].handle] = NoOne
    /\ handleLock' = [handleLock EXCEPT ![op[t].handle] = t]
    /\ Goto(t, "reading")
    /\ UNCHANGED <<table, handleVars, fileVars, inodeLock, stream, kernel,
                   op, found, written, dead>>

\* ensureFile, the start: an anonymous file to copy the contents into.
AnonymousFile(t) ==
    /\ pc[t] = "reading" /\ op[t].handle \notin DOMAIN file
    /\ anonymous' = anonymous + 1
    /\ written' = [written EXCEPT ![t] = <<>>]
    /\ Goto(t, "loading")
    /\ UNCHANGED <<table, handleVars, file, locks, stream, kernel, op, found, dead>>

Wanted(t) == Scores[handles[op[t].handle]]

\* One iteration: load a chunk, unmarshal it, append it to the file.
LoadChunk(t) ==
    /\ pc[t] = "loading" /\ Len(written[t]) < Len(Wanted(t))
    /\ written' = [written EXCEPT ![t] = Append(@, Wanted(t)[Len(@) + 1])]
    /\ UNCHANGED <<table, handleVars, fileVars, locks, stream, kernel, op, pc,
                   found, dead>>

UnlockHandle(t) == handleLock' = [handleLock EXCEPT ![op[t].handle] = NoOne]

\* Mutant: the file is kept as far as it was written.
LoadChunkFailsKept(t) ==
    /\ pc[t] = "loading" /\ Len(written[t]) < Len(Wanted(t))
    /\ file' = With(file, op[t].handle, written[t])
    /\ UnlockHandle(t)
    /\ Answer(t)
    /\ UNCHANGED <<table, handleVars, anonymous, inodeLock, stream, kernel, dead>>

\* Load, UnmarshalFile or Write fails, or the request was interrupted: the
\* file is closed, and the next read starts again.
LoadChunkFails(t) ==
    /\ pc[t] = "loading" /\ Len(written[t]) < Len(Wanted(t))
    /\ anonymous' = anonymous - 1
    /\ UnlockHandle(t)
    /\ Answer(t)
    /\ UNCHANGED <<table, handleVars, file, inodeLock, stream, kernel, dead>>

\* ensureFile, the end.
FileComplete(t) ==
    /\ pc[t] = "loading" /\ Len(written[t]) = Len(Wanted(t))
    /\ file' = With(file, op[t].handle, written[t])
    /\ Goto(t, "reading")
    /\ UNCHANGED <<table, handleVars, anonymous, locks, stream, kernel, op,
                   found, written, dead>>

\* ReadAt reads from the local file.
ReadFile(t) ==
    /\ pc[t] = "reading" /\ op[t].handle \in DOMAIN file
    /\ UnlockHandle(t)
    /\ Answer(t)
    /\ UNCHANGED <<table, handleVars, fileVars, inodeLock, stream, kernel, dead>>

\* ReleaseFileHandle: Destroy closes the file, without the handle's lock.
ReleaseFileHandle(t) ==
    LET h == op[t].handle IN
    /\ pc[t] = "find" /\ op[t].kind = "release"
    /\ IF h \in DOMAIN handles
       THEN /\ anonymous' = IF h \in DOMAIN file THEN anonymous - 1 ELSE anonymous
            /\ file' = Without(file, h)
            /\ handles' = Without(handles, h)
            /\ Answer(t)
            /\ UNCHANGED <<table, nextHandleID, locks, stream, kernel, dead>>
       ELSE Die

------------------------------------------------------------------------------
\* The goroutine's own steps.
Serve(t) ==
    \/ FindInode(t) \/ LockInode(t) \/ AnswerConstant(t)
    \/ ensureChildren(t) \/ ensureChildrenFails(t)
    \/ ReadDir(t) \/ LookUpChild(t)
    \/ lookUpFails(t) \/ lookUpOrCreateInode(t) \/ LockChild(t) \/ AnswerLookUp(t)
    \/ OpenFile(t) \/ FindHandle(t) \/ LockHandle(t)
    \/ AnonymousFile(t) \/ LoadChunk(t) \/ LoadChunkFails(t) \/ FileComplete(t)
    \/ ReadFile(t) \/ ReleaseFileHandle(t)

\* The kernel has sent all it will send and everything is answered.
Quiet ==
    /\ sent = MaxRequests /\ \A t \in Thread : ~Busy(t)
    /\ \A i \in Id : forgetting[i] = 0
    /\ UNCHANGED vars

Next ==
    \/ /\ ~dead
       /\ \/ \E t \in Thread, o \in Request : Ask(t, o)
          \/ \E i \in Id : Forget(i) \/ ForgetInode(i)
          \/ \E t \in Thread : Serve(t)
    \/ Quiet

Spec == Init /\ [][Next]_vars

------------------------------------------------------------------------------
(* Properties                                                              *)

\* Requests that have registered an inode the kernel does not know of yet.
Registered(i) == {t \in Thread : pc[t] \in {"lockChild", "fill"} /\ Inode[found[t]] = i}

\* The count of an inode is the kernel's count, plus the forgets it has sent
\* that are not served, plus the look-ups registered and not answered
\* (lookUpOrCreateInode, ForgetInode), and every variable is of its type.  A
\* look-up that finds an inode the kernel is just forgetting does not lose its
\* reference.
CountsAgree ==
    /\ TypeOK
    /\ \A i \in Id :
        /\ count[i] = known[i] + forgetting[i] + Cardinality(Registered(i))
        /\ i \in inodes <=> count[i] > 0

\* No request works on the object of an inode that was forgotten, nor on
\* the contents of a handle that was released, although it looked either up
\* in an earlier section under fs.mu (LookUpInode, ReadFile); and none of the
\* log.Fatalf lines and map accesses of fs.go that would end the process is
\* reached by what a kernel may send.
NothingUsedAfterItsEnd ==
    /\ ~dead
    /\ \A t \in Thread :
        /\ pc[t] \in {"lock", "locked"} => op[t].inode \in inodes
        /\ pc[t] \in {"lockHandle", "reading", "loading"} =>
               op[t].handle \in DOMAIN handles

\* However the kernel's buffers cut it, a directory stream returns the listing
\* in order, each entry once (ensureChildren's Offset, Read's slice); and a
\* handle's local file is the whole file, even after downloads that failed half
\* way and were tried again (ensureFile).
AnswersAreRight ==
    /\ \A i \in Id : seen[i] # <<>> =>
           seen[i] = SubSeq(Listing[made[i]], 1, Len(seen[i]))
    /\ \A h \in DOMAIN file : file[h] = Scores[handles[h]]

\* A request that fails leaves nothing behind: who holds the lock of an inode or
\* a handle is at work under it, and who waits for a lock holds none, so that
\* nobody waits for ever (a child's lock is taken after the parent's is
\* released); and the open anonymous files are those of live handles and of
\* downloads in progress (ensureFile's deferred Close, Destroy).
NothingLeftBehind ==
    /\ \A i \in Id : inodeLock[i] # NoOne =>
           LET t == inodeLock[i] IN
           \/ pc[t] = "locked" /\ op[t].inode = i
           \/ pc[t] = "fill" /\ Inode[found[t]] = i
    /\ \A h \in Handle : handleLock[h] # NoOne =>
           LET t == handleLock[h] IN
           pc[t] \in {"reading", "loading"} /\ op[t].handle = h
    /\ anonymous = Cardinality(DOMAIN file)
                   + Cardinality({t \in Thread : pc[t] = "loading"})

=============================================================================
