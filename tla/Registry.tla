------------------------------ MODULE Registry ------------------------------
(***************************************************************************)
(* The registry of completed backups in the bucket (internal/registry/      *)
(* gcs.go) and the commands that use it: save, which records one backup,    *)
(* and the readers (list, verify, mount), which list all of them.  Each     *)
(* command is a process of its own, perhaps on a machine of its own, which   *)
(* first opens the registry: the first one ever claims the bucket with a     *)
(* marker object, every later one checks its password against the marker.   *)
(*                                                                         *)
(* The bucket's client repeats a request whose reply is lost, and a request  *)
(* may reach the service long after its sender gave up or was killed, so a   *)
(* request once sent may be carried out at any later time, any number of     *)
(* times.  What protects the bucket is the precondition of every creation,   *)
(* that the object does not exist.                                          *)
(***************************************************************************)
EXTENDS Naturals

CONSTANTS
  Savers, Readers,  \* the commands
  Password,         \* the password each was given
  MaxSecond         \* bound: the job names are 1..MaxSecond

Commands == Savers \union Readers
Seconds == 1..MaxSecond

ASSUME MaxSecondAssumption == MaxSecond \in Nat

\* What is under jobs/, by name: name 0 is the bare prefix, a "directory" some
\* tools create; others are start times, to the second.
Names == 0..MaxSecond
NoObject == [kind |-> "none"]
Foreign == [kind |-> "foreign"]      \* not the registry's, and not parsable as a job
Job(c) == [kind |-> "job", score |-> c]
Objects == {NoObject, Foreign} \union {Job(c) : c \in Savers}

VARIABLES
  marker,  \* the marker object
  jobs,    \* the objects under jobs/
  sent,    \* the creations ever requested
  pc,      \* where each command is
  key,     \* the key of the crypter it was given
  start,   \* the time it chose as the start of its backup
  at,      \* how far its listing has got
  found,   \* what its listing has returned
  before,  \* the names that existed when its listing began
  chosen   \* the job it mounts

registryVars == <<marker, jobs, sent, pc, key, start, at, found, before, chosen>>

-----------------------------------------------------------------------------
\* The salt is random, so it is the claimer's own; a key is as good as the
\* password and the salt it was derived from.
DeriveKey(password, salt) == [password |-> password, salt |-> salt]
NoKey == [password |-> "none"]
Keys == {NoKey} \union {DeriveKey(Password[c], salt) : c \in Commands, salt \in Commands}

\* The marker records the salt, and a ciphertext only its key can decrypt.
NoMarker == [kind |-> "none"]
Marker(c) == [kind |-> "marker", salt |-> c, key |-> DeriveKey(Password[c], c)]
Markers == {NoMarker} \union {Marker(c) : c \in Commands}

Waiting == {"claim", "record"}
Ended == {"failed", "wrong password", "refused", "recorded", "unparsable", "no jobs", "mounted", "killed"}

Places == Ended \union Waiting \union {"open", "ready", "save", "list", "listed"}

Goto(c, where) == pc' = [pc EXCEPT ![c] = where]

RegistryInit ==
  /\ marker = NoMarker
  /\ jobs \in [Names -> {NoObject, Foreign}]
  /\ sent = {}
  /\ pc = [c \in Commands |-> "open"]
  /\ key = [c \in Commands |-> NoKey]
  /\ start = [c \in Commands |-> 0]
  /\ at = [c \in Commands |-> 0]
  /\ found = [c \in Commands |-> {}]
  /\ before = [c \in Commands |-> {}]
  /\ chosen = [c \in Commands |-> 0]

-----------------------------------------------------------------------------
\* The user runs the command with the password of the bucket, or another.
Accepts(password) == DeriveKey(password, marker.salt) = marker.key

\* The marker exists: derive the key from its salt, and try its ciphertext.
OpenFound(c) ==
  /\ pc[c] = "open" /\ marker # NoMarker
  /\ IF Accepts(Password[c])
       THEN /\ Goto(c, "ready")
            /\ key' = [key EXCEPT ![c] = DeriveKey(Password[c], marker.salt)]
       ELSE Goto(c, "wrong password") /\ UNCHANGED key
  /\ UNCHANGED <<marker, jobs, sent, start, at, found, before, chosen>>

\* There is no marker: ask for one to be created, with a new salt.
Claim(c) ==
  /\ pc[c] = "open" /\ marker = NoMarker
  /\ Goto(c, "claim")
  /\ sent' = sent \union {<<c, "marker">>}
  /\ UNCHANGED <<marker, jobs, key, start, at, found, before, chosen>>

\* A save chooses its start time by the clock of its machine, whatever that is.
StartSave(c) ==
  /\ c \in Savers /\ pc[c] = "ready"
  /\ \E s \in Seconds : start' = [start EXCEPT ![c] = s]
  /\ Goto(c, "save")
  /\ UNCHANGED <<marker, jobs, sent, key, at, found, before, chosen>>

\* The save is complete: ask for its record to be created.
RequestRecord(c) ==
  /\ pc[c] = "save"
  /\ Goto(c, "record")
  /\ sent' = sent \union {<<c, "job">>}
  /\ UNCHANGED <<marker, jobs, key, start, at, found, before, chosen>>

-----------------------------------------------------------------------------
\* The service.  What a request finds under its name, and the precondition.
AbsentAny(c, what) == TRUE   \* fault: the creations have no precondition
Absent(c, what) ==
  IF what = "marker" THEN marker = NoMarker ELSE jobs[start[c]] = NoObject

Awaits(c, what) == pc[c] = IF what = "marker" THEN "claim" ELSE "record"

\* A request creates the object; its reply arrives, or is lost or late.
CreateObject(c, what) ==
  /\ <<c, what>> \in sent /\ Absent(c, what)
  /\ IF what = "marker" THEN marker' = Marker(c) /\ UNCHANGED jobs
       ELSE jobs' = [jobs EXCEPT ![start[c]] = Job(c)] /\ UNCHANGED marker
  /\ \/ UNCHANGED <<pc, key>>
     \/ /\ Awaits(c, what)
        /\ IF what = "marker"
             THEN Goto(c, "ready") /\ key' = [key EXCEPT ![c] = DeriveKey(Password[c], c)]
             ELSE Goto(c, "recorded") /\ UNCHANGED key
  /\ UNCHANGED <<sent, start, at, found, before, chosen>>

\* The object exists, if only because an earlier attempt created it: an error,
\* and the command ends.
PreconditionError(c, what) ==
  /\ <<c, what>> \in sent /\ Awaits(c, what) /\ ~Absent(c, what)
  /\ Goto(c, "refused")
  /\ UNCHANGED <<marker, jobs, sent, key, start, at, found, before, chosen>>

\* Any request, of any kind, fails for good.
Fails(c) ==
  /\ pc[c] \in {"open", "save", "list"} \union Waiting
  /\ Goto(c, "failed")
  /\ UNCHANGED <<marker, jobs, sent, key, start, at, found, before, chosen>>

-----------------------------------------------------------------------------
StartList(c) ==
  /\ c \in Readers /\ pc[c] = "ready"
  /\ before' = [before EXCEPT ![c] = {n \in Names : jobs[n] # NoObject}]
  /\ Goto(c, "list")
  /\ UNCHANGED <<marker, jobs, sent, key, start, at, found, chosen>>

\* The token a page ends with, after the last of its names.
ContinuationTokenTooFar(n) == n + 2   \* fault: a name is left out between pages
ContinuationToken(n) == n + 1

\* One page of the listing: the objects of a range of names, as they are now.
ListPage(c) ==
  /\ pc[c] = "list" /\ at[c] <= MaxSecond
  /\ \E n \in at[c]..MaxSecond :
       /\ at' = [at EXCEPT ![c] = ContinuationToken(n)]
       /\ found' = [found EXCEPT ![c] =
            @ \union {<<m, jobs[m]>> : m \in {k \in at[c]..n : jobs[k] # NoObject}}]
  /\ UNCHANGED <<marker, jobs, sent, pc, key, start, before, chosen>>

\* Of the objects listed, the one with the bare prefix is not for parsing.
ForParsing(objects) == {o \in objects : o[1] # 0}
Unparsable(objects) == \E o \in ForParsing(objects) : o[2] = Foreign

\* Every object is parsed; one that cannot be fails the listing.
ParseJobs(c) ==
  /\ pc[c] = "list" /\ at[c] > MaxSecond
  /\ Goto(c, IF Unparsable(found[c]) THEN "unparsable" ELSE "listed")
  /\ UNCHANGED <<marker, jobs, sent, key, start, at, found, before, chosen>>

\* The job with the newest start time, of the jobs listed.
Newest(objects) == {s \in Seconds : /\ \E o \in objects : o[1] = s
                                    /\ \A o \in objects : o[1] <= s}

Mount(c) ==
  /\ pc[c] = "listed"
  /\ IF ForParsing(found[c]) = {} THEN Goto(c, "no jobs") /\ UNCHANGED chosen
       ELSE /\ \E s \in Newest(ForParsing(found[c])) : chosen' = [chosen EXCEPT ![c] = s]
            /\ Goto(c, "mounted")
  /\ UNCHANGED <<marker, jobs, sent, key, start, at, found, before>>

Kill(c) ==
  /\ pc[c] \notin Ended
  /\ Goto(c, "killed")
  /\ UNCHANGED <<marker, jobs, sent, key, start, at, found, before, chosen>>

-----------------------------------------------------------------------------
Runs(c) == \/ OpenFound(c) \/ Claim(c) \/ StartSave(c) \/ RequestRecord(c)
           \/ StartList(c) \/ ListPage(c) \/ ParseJobs(c) \/ Mount(c)

Answers(c) == \E what \in {"marker", "job"} : CreateObject(c, what) \/ PreconditionError(c, what)

AllEnded == (\A c \in Commands : pc[c] \in Ended) /\ UNCHANGED registryVars

RegistryNext == \/ \E c \in Commands : Runs(c) \/ Answers(c) \/ Fails(c) \/ Kill(c)
        \/ AllEnded

RegistrySpec == RegistryInit /\ [][RegistryNext]_registryVars

-----------------------------------------------------------------------------
RegistryTypeOK ==
  /\ marker \in Markers
  /\ jobs \in [Names -> Objects]
  /\ sent \subseteq (Commands \X {"marker", "job"})
  /\ pc \in [Commands -> Places]
  /\ key \in [Commands -> Keys]
  /\ start \in [Commands -> Names]
  /\ at \in [Commands -> 0..MaxSecond + 1]
  /\ found \in [Commands -> SUBSET (Names \X Objects)]
  /\ before \in [Commands -> SUBSET Names]
  /\ chosen \in [Commands -> Names]

\* Past the opening of the registry, everyone's key is the one the marker is
\* encrypted with, whoever claimed the bucket and whoever raced for it: no two
\* commands ever store blobs under different keys.  (gcs.go:241: "use a
\* precondition to defeat the race condition where another machine is doing the
\* same simultaneously".)
OneKey ==
  \A c \in Commands :
    pc[c] \in {"ready", "save", "record", "recorded", "list", "listed", "mounted"} =>
      marker # NoMarker /\ key[c] = marker.key

\* The password is found to be wrong only when it is not the claimer's: the salt
\* in the marker is the one its ciphertext's key was derived from, even when the
\* claimer itself never learned that it had succeeded.
RefusalIsDeserved ==
  \A c \in Commands : pc[c] = "wrong password" =>
    marker # NoMarker /\ Password[c] # Password[marker.salt]

\* A save reports success only when the registry holds its own record, for good.
ReportedMeansRecorded ==
  \A c \in Commands : pc[c] = "recorded" => jobs[start[c]] = Job(c)

\* A backup that is refused on its precondition lost its name to a record: its
\* own, or one of the same second.  It is never refused for nothing.
RefusedMeansTaken ==
  \A c \in Commands : pc[c] = "refused" =>
    /\ marker # NoMarker
    /\ start[c] # 0 => jobs[start[c]] # NoObject

\* A listing that succeeds shows every record there was when it began, with the
\* contents it still has, in spite of the records that come in between its pages
\* and of foreign objects.
ListingComplete ==
  \A c \in Commands : pc[c] \in {"listed", "mounted", "no jobs"} =>
    \A s \in before[c] \ {0} : /\ <<s, jobs[s]>> \in found[c]
                               /\ \E d \in Savers : jobs[s] = Job(d)

\* Only an object that cannot be a job fails the parsing, never the bare prefix.
ParsesJobs ==
  \A c \in Commands : pc[c] = "unparsable" => \E s \in Seconds : jobs[s] = Foreign

\* What is mounted is a backup that was recorded, and none that was recorded
\* when the command started to list began later.
MountsNewest ==
  \A c \in Commands : pc[c] = "mounted" =>
    /\ \E d \in Savers : jobs[chosen[c]] = Job(d)
    /\ \A s \in before[c] : s <= chosen[c]

\* No object of the registry is ever overwritten or removed, in spite of requests
\* that are repeated and carried out late.  (gcs.go:86: "use a generation
\* precondition to ensure we don't overwrite anything".)
NothingOverwritten ==
  [][ /\ marker # NoMarker => marker' = marker
      /\ \A n \in Names : jobs[n] # NoObject => jobs'[n] = jobs[n] ]_<<marker, jobs>>

=============================================================================
