------------------------------ MODULE ScoreMap ------------------------------
(***************************************************************************)
(* The score map (internal/save/score_map.go, internal/state/score_map.go): *)
(* a save does not read a file if the map has the scores of a file with the  *)
(* same path, inode, size, permissions and mtime.  The key is made from what *)
(* lstat said when the directory was read, the file is opened later, and     *)
(* may be written to before, between and after; and a file can be written    *)
(* without a change of its mtime, if within the granularity of the clock it  *)
(* is taken from.  Five minutes between the mtime and the making of the key  *)
(* are to rule that out.                                                   *)
(*                                                                         *)
(* The model has one file whose writes leave its size as it is, so that a    *)
(* key is no more than its mtime.  Nobody sets the mtime back (utimes).      *)
(***************************************************************************)
EXTENDS Integers, Sequences

CONSTANTS
  Saver,       \* visits of the file, one at a time or concurrent, in one process or many
  Chunks,      \* the number of chunks of the file
  MinElapsed,  \* minElapsed, five minutes
  MaxAge,      \* how old an mtime can be when it is set: granularity plus lag
  MaxAhead,    \* how far it can be ahead of the clock of the save
  MaxTime, MaxWrites  \* bounds: the clock, and the writes to the file

ASSUME TimesAssumption ==
  /\ Chunks \in Nat /\ MaxTime \in Nat /\ MaxWrites \in Nat
  /\ MinElapsed \in Nat /\ MaxAge \in Nat /\ MaxAhead \in Nat
  /\ MaxAge < MinElapsed

VARIABLES
  now,       \* the clock
  mtime,     \* of the file
  contents,  \* its chunks: the number of the write each is from
  writes,    \* writes so far
  entries,   \* the entries ever made, of any process's map, evicted or not
  visit,     \* where each visit is
  info,      \* the mtime its lstat returned
  keyed,     \* whether it has a key
  scores,    \* what it has read, or found
  changed    \* whether the file was written to since its lstat

file == <<mtime, contents, writes>>
scoreMapVars == <<now, file, entries, visit, info, keyed, scores, changed>>

Versions == 0..MaxWrites
Contents == [1..Chunks -> Versions]
Times == Int

\* What can be read: the first chunks, each as it was when it was read.
Reads == {q \in Seq(Versions) : Len(q) <= Chunks}

-----------------------------------------------------------------------------
ScoreMapTypeOK ==
  /\ now \in Nat /\ mtime \in Times
  /\ contents \in Contents /\ writes \in Versions
  /\ entries \subseteq [mtime : Times, scores : Contents]
  /\ visit \in [Saver -> {"idle", "stated", "reading", "saved"}]
  /\ info \in [Saver -> Times] /\ keyed \in [Saver -> BOOLEAN]
  /\ scores \in [Saver -> Reads]
  /\ changed \in [Saver -> BOOLEAN]
  /\ \A s \in Saver : visit[s] = "saved" => scores[s] \in Contents

ScoreMapInit ==
  /\ now = 0 /\ mtime = 0 /\ contents = [k \in 1..Chunks |-> 0] /\ writes = 0
  /\ entries = {}
  /\ visit = [s \in Saver |-> "idle"]
  /\ info = [s \in Saver |-> 0] /\ keyed = [s \in Saver |-> FALSE]
  /\ scores = [s \in Saver |-> <<>>]
  /\ changed = [s \in Saver |-> FALSE]

-----------------------------------------------------------------------------
Tick ==
  /\ now < MaxTime /\ now' = now + 1
  /\ UNCHANGED <<file, entries, visit, info, keyed, scores, changed>>

\* Anybody writes to the file: a chunk is new, and the mtime is about now.
Write ==
  /\ writes < MaxWrites /\ writes' = writes + 1
  /\ \E k \in 1..Chunks : contents' = [contents EXCEPT ![k] = writes + 1]
  /\ mtime' \in (now - MaxAge)..(now + MaxAhead)
  /\ changed' = [s \in Saver |-> TRUE]
  /\ UNCHANGED <<now, entries, visit, info, keyed, scores>>

\* The directory the file is in is read, with an lstat of the file.
Lstat(s) ==
  /\ visit[s] \in {"idle", "saved"}
  /\ visit' = [visit EXCEPT ![s] = "stated"]
  /\ info' = [info EXCEPT ![s] = mtime]
  /\ scores' = [scores EXCEPT ![s] = <<>>]
  /\ changed' = [changed EXCEPT ![s] = FALSE]
  /\ keyed' = [keyed EXCEPT ![s] = FALSE]
  /\ UNCHANGED <<now, file, entries>>

\* Mutant: any file has a key.
EligibleAlways(m) == TRUE
\* makeScoreMapKey: is the mtime far enough in the past?
Eligible(m) == now - m >= MinElapsed

\* The visit of the file begins.  There is no entry, or it has been evicted or
\* is in another process's map; or the file is not eligible.
Miss(s) ==
  /\ visit[s] = "stated" /\ visit' = [visit EXCEPT ![s] = "reading"]
  /\ keyed' = [keyed EXCEPT ![s] = Eligible(info[s])]
  /\ UNCHANGED <<now, file, entries, info, scores, changed>>

\* There is an entry with the key: its scores are the file's.
Hit(s) ==
  /\ visit[s] = "stated" /\ Eligible(info[s])
  /\ \E e \in entries : /\ e.mtime = info[s]
                        /\ scores' = [scores EXCEPT ![s] = e.scores]
  /\ visit' = [visit EXCEPT ![s] = "saved"]
  /\ UNCHANGED <<now, file, entries, info, keyed, changed>>

\* Anything but EOF.
MoreToRead(read) == Len(read) < Chunks

\* saveFileChunk: the next chunk, as it is now.
ReadChunk(s) ==
  /\ visit[s] = "reading" /\ MoreToRead(scores[s])
  /\ scores' = [scores EXCEPT ![s] = Append(@, contents[Len(@) + 1])]
  /\ UNCHANGED <<now, file, entries, visit, info, keyed, changed>>

\* EOF: a file with a key gets its entry.
Set(s) ==
  /\ visit[s] = "reading" /\ ~MoreToRead(scores[s])
  /\ visit' = [visit EXCEPT ![s] = "saved"]
  /\ entries' = IF keyed[s] THEN entries \union {[mtime |-> info[s], scores |-> scores[s]]}
                ELSE entries
  /\ UNCHANGED <<now, file, info, keyed, scores, changed>>

\* An error of the file system or the bucket, or the process is killed.
Fails(s) ==
  /\ visit[s] \in {"stated", "reading"} /\ visit' = [visit EXCEPT ![s] = "idle"]
  /\ scores' = [scores EXCEPT ![s] = <<>>]
  /\ UNCHANGED <<now, file, entries, info, keyed, changed>>

ScoreMapNext == \/ Tick \/ Write
        \/ \E s \in Saver : Lstat(s) \/ Miss(s) \/ Hit(s) \/ ReadChunk(s) \/ Set(s) \/ Fails(s)

ScoreMapSpec == ScoreMapInit /\ [][ScoreMapNext]_scoreMapVars

-----------------------------------------------------------------------------
\* Whatever the map says of a file with the present stat of this one is what the
\* file contains: no process can be misled by an entry, made by any process, at
\* any time, from a file written to before or during its reading (score_map.go
\* 36: "we don't want to do any fancy caching, for fear of race conditions").
EntriesAreFresh == \A e \in entries : e.mtime = mtime => e.scores = contents

\* A save of a file nobody writes to from its lstat on has the file's contents,
\* whether it read them or found them in the map.
QuietFileIsSaved == \A s \in Saver : visit[s] = "saved" /\ ~changed[s] => scores[s] = contents

\* No write of the future can be mistaken for a file there is an entry for: an
\* mtime that has an entry is one the file cannot get again.
KeysAreOver == \A e \in entries : e.mtime < now - MaxAge
=============================================================================
