------------------------- MODULE SavePipelineProofs -------------------------
(***************************************************************************)
(* Proofs about SavePipeline, for every tree, every content and every      *)
(* capacity of the semaphores and of the channel.  The inductive           *)
(* invariants are layered: each layer is proved with the earlier ones as   *)
(* hypotheses.  And about ScoreMap, which has the inside of what            *)
(* SavePipeline takes for granted, that the scores in the score map are     *)
(* those of the file's contents.                                            *)
(***************************************************************************)
EXTENDS SavePipeline, ScoreMap, FiniteSetTheorems, TLAPS

------------------------------------------------------------------------------
(* The walk's operators, as SavePipeline's own                             *)

\* The instance of DagTraversal speaks of the same graphs.
LEMMA SameWalk ==
    /\ \A g, n : Walk!Deps(g, n) = Deps(g, n)
    /\ \A g, S : Walk!Closed(g, S) <=> Closed(g, S)
    /\ \A g : Walk!Reachable(g) = Reachable(g)
  BY DEF Walk!Deps, Deps, Walk!Closed, Closed, Walk!Reachable, Reachable

\* A node's dependencies are nodes.
LEMMA DepsAreNodes ==
    ASSUME NEW g \in Graphs, NEW n \in Node PROVE Deps(g, n) \subseteq Node
<1>1. g[n] \in Seq(Node)
  BY GraphsAssumption
<1> QED BY <1>1 DEF Deps

\* The only blob of a directory is its listing.
LEMMA ListingOfDir ==
    ASSUME NEW n \in Dirs
    PROVE  n \in Node /\ DOMAIN Content[n] = {1} /\ BlobsOf(n) = {Content[n][1]}
<1>1. n \in Node /\ Content[n] \in Seq(Blob) /\ Len(Content[n]) = 1
  BY ContentAssumption
<1>2. DOMAIN Content[n] = {1}
  BY <1>1
<1> QED BY <1>1, <1>2 DEF BlobsOf

\* The chunks of a node, by their positions.
LEMMA ChunksOf ==
    ASSUME NEW n \in Node
    PROVE  /\ Len(Content[n]) \in Nat /\ DOMAIN Content[n] = 1..Len(Content[n])
           /\ \A i \in 1..Len(Content[n]) : Content[n][i] \in Blob
           /\ BlobsOf(n) = {Content[n][i] : i \in 1..Len(Content[n])}
           /\ BlobsOf(n) \subseteq Blob
<1>1. Content[n] \in Seq(Blob)
  BY ContentAssumption
<1> QED BY <1>1 DEF BlobsOf

------------------------------------------------------------------------------
(* The semaphores                                                          *)

ReadPlaces == {"read", "acquireEncrypt", "releaseRead"}
EncryptPlaces == {"releaseRead", "encrypt"}

\* The units in use are the calls at the places that hold one.
SemInv ==
    /\ IsFiniteSet(At(ReadPlaces)) /\ readSem = Cardinality(At(ReadPlaces))
    /\ IsFiniteSet(At(EncryptPlaces)) /\ encryptSem = Cardinality(At(EncryptPlaces))

\* How a move between two places changes the number of calls at the places S.
Delta(S, from, to) ==
    (IF to \in S THEN 1 ELSE 0) - (IF from \in S THEN 1 ELSE 0)

\* One call moves.
LEMMA Moves ==
    ASSUME pc \in [Node -> PCs], NEW n \in Node, NEW where, Goto(n, where),
           NEW S, IsFiniteSet(At(S))
    PROVE  /\ IsFiniteSet(At(S)')
           /\ Cardinality(At(S)') = Cardinality(At(S)) + Delta(S, pc[n], where)
           /\ Cardinality(At(S)') \in Nat
<1>1. pc'[n] = where /\ \A m \in Node \ {n} : pc'[m] = pc[m]
  BY DEF Goto
<1>2. At(S)' = IF where \in S THEN At(S) \cup {n} ELSE At(S) \ {n}
  <2>1. ASSUME NEW m \in Node
        PROVE  m \in At(S)' <=> m \in (IF where \in S THEN At(S) \cup {n} ELSE At(S) \ {n})
    <3>1. CASE m = n
      BY <1>1, <3>1 DEF At
    <3>2. CASE m # n
      BY <1>1, <3>2 DEF At
    <3> QED BY <3>1, <3>2
  <2> QED BY <2>1 DEF At
<1>3. n \in At(S) <=> pc[n] \in S
  BY DEF At
<1>4. Cardinality(At(S)) \in Nat
  BY FS_CardinalityType
<1>5. CASE where \in S
  <2>1. /\ IsFiniteSet(At(S) \cup {n})
        /\ Cardinality(At(S) \cup {n}) =
             IF n \in At(S) THEN Cardinality(At(S)) ELSE Cardinality(At(S)) + 1
    BY FS_AddElement
  <2> QED BY <1>2, <1>3, <1>4, <1>5, <2>1 DEF Delta
<1>6. CASE where \notin S
  <2>1. /\ IsFiniteSet(At(S) \ {n})
        /\ Cardinality(At(S) \ {n}) =
             IF n \in At(S) THEN Cardinality(At(S)) - 1 ELSE Cardinality(At(S))
    BY FS_RemoveElement
  <2>2. Cardinality(At(S) \ {n}) \in Nat
    BY <2>1, FS_CardinalityType
  <2> QED BY <1>2, <1>3, <1>4, <1>6, <2>1, <2>2 DEF Delta
<1> QED BY <1>5, <1>6

\* A call that moves takes and gives back what the places ask for.
LEMMA Balance ==
    ASSUME pc \in [Node -> PCs], SemInv, NEW n \in Node, NEW where, Goto(n, where),
           readSem' = readSem + Delta(ReadPlaces, pc[n], where),
           encryptSem' = encryptSem + Delta(EncryptPlaces, pc[n], where)
    PROVE  SemInv' /\ readSem' \in Nat /\ encryptSem' \in Nat
  BY Moves DEF SemInv

------------------------------------------------------------------------------
(* Type correctness                                                        *)

Saving == {"acquireEncrypt", "releaseRead", "encrypt", "create", "add"}

\* A Visit call is somewhere exactly while the walk has it running, and the
\* chunk it works on exists.
CallInv ==
    \A n \in Node :
        /\ pc[n] # "out" <=> phase[n] = "visiting"
        /\ pc[n] \in Saving => chunk[n] <= Len(Content[n])
        /\ n \in Dirs => chunk[n] = 1

TypeInv == TypeOK /\ CallInv /\ SemInv

\* The initial state has the right types, and nobody holds a semaphore.
THEOREM InitType == Init => TypeInv
<1> SUFFICES ASSUME Init PROVE TypeInv
  OBVIOUS
<1>1. \A S : "out" \notin S => At(S) = {}
  BY DEF Init, At
<1>2. SemInv
  <2>1. At(ReadPlaces) = {} /\ At(EncryptPlaces) = {}
    BY <1>1 DEF ReadPlaces, EncryptPlaces
  <2> QED BY <2>1, FS_EmptySet DEF Init, SemInv
<1>3. CallInv
  BY DEF Init, Walk!Init, CallInv, Saving
<1>4. TypeOK
  <2>1. Walk!TypeOK
    BY DEF Init, Walk!Init, Walk!TypeOK, Walk!Phases, Walk!Outcomes
  <2>2. /\ pc \in [Node -> PCs] /\ chunk \in [Node -> Nat \ {0}]
        /\ readSem \in 0..ReadCap /\ encryptSem \in 0..EncryptCap
    BY CapAssumption DEF Init, PCs
  <2>3. existingScores \subseteq Blob /\ bucket \subseteq Blob /\ scoreMap \subseteq Keyed
    BY ContentAssumption DEF Init
  <2>4. processedNodes \in Seq(Node) /\ Len(processedNodes) <= ChanCap
    BY CapAssumption DEF Init
  <2> QED BY <2>1, <2>2, <2>3, <2>4 DEF Init, TypeOK
<1> QED BY <1>2, <1>3, <1>4 DEF TypeInv

\* A call that returns an error leaves the walk and nothing else.
LEMMA CallFails ==
    ASSUME TypeOK, CallInv, NEW n \in Node, Fail(n)
    PROVE  /\ CallInv' /\ Walk!TypeOK' /\ pc' \in [Node -> PCs]
           /\ phase' = [phase EXCEPT ![n] = "failed"]
           /\ UNCHANGED <<graph, outcome, chunk, processedNodes, closed, finder,
                          groupErr, joined, result, ctx>>
<1>1. /\ phase' = [phase EXCEPT ![n] = "failed"] /\ pc' = [pc EXCEPT ![n] = "out"]
      /\ UNCHANGED <<graph, outcome, chunk, processedNodes, closed, finder,
                     groupErr, joined, result, ctx>>
  BY DEF Fail, Walk!FailCall, Walk!Advance, Goto, chanVars, groupVars
<1>2. CallInv'
  BY <1>1 DEF CallInv, TypeOK, Walk!TypeOK, Saving
<1>3. Walk!TypeOK' /\ pc' \in [Node -> PCs]
  BY <1>1 DEF TypeOK, Walk!TypeOK, Walk!Phases, PCs
<1> QED BY <1>1, <1>2, <1>3

\* Every step keeps the types, the place of each call in the stack of stores,
\* and the count of each semaphore equal to the number of calls that hold it.
THEOREM NextType == TypeInv /\ [Next]_vars => TypeInv'
<1> SUFFICES ASSUME TypeInv, [Next]_vars PROVE TypeInv'
  OBVIOUS
<1> USE DEF TypeInv, storeVars, semVars, walkVars, chanVars, groupVars
<1>0. /\ pc \in [Node -> PCs] /\ readSem \in 0..ReadCap /\ encryptSem \in 0..EncryptCap
      /\ ReadCap \in Nat /\ EncryptCap \in Nat /\ SemInv
  BY CapAssumption DEF TypeOK
<1>1. ASSUME NEW n \in Node, StartFind(n) PROVE TypeInv'
  <2>1. UNCHANGED <<pc, chunk, readSem, encryptSem>> /\ SemInv'
    BY <1>1 DEF StartFind, SemInv, At
  <2> QED BY <1>1, <2>1
             DEF StartFind, Walk!StartFind, TypeOK, CallInv, Walk!TypeOK, Walk!Advance,
                 Walk!Phases, Walk!Outcomes
<1>2. ASSUME NEW n \in Node, EndFind(n) PROVE TypeInv'
  <2>1. UNCHANGED <<pc, chunk, readSem, encryptSem>> /\ SemInv'
    BY <1>2 DEF EndFind, SemInv, At
  <2> QED BY <1>2, <2>1
             DEF EndFind, Walk!EndFind, TypeOK, CallInv, Walk!TypeOK, Walk!Advance,
                 Walk!Phases, Walk!Outcomes
<1>3. ASSUME NEW n \in Node, FailFind(n) PROVE TypeInv'
  <2>1. Fail(n) /\ Goto(n, "out")
    BY <1>3 DEF FailFind, Fail
  <2>2. /\ readSem' = readSem + Delta(ReadPlaces, pc[n], "out")
        /\ encryptSem' = encryptSem + Delta(EncryptPlaces, pc[n], "out")
    BY <1>3, <1>0
       DEF FailFind, Delta, ReadPlaces, EncryptPlaces, CallInv, Walk!FailCall,
           Walk!Advance
  <2>3. SemInv' /\ readSem' \in Nat /\ encryptSem' \in Nat
    BY <1>0, <2>1, <2>2, Balance
  <2>4. readSem' \in 0..ReadCap /\ encryptSem' \in 0..EncryptCap
    BY <1>3, <1>0, <2>3 DEF FailFind
  <2>5. existingScores' \subseteq Blob /\ bucket' \subseteq Blob /\ scoreMap' \subseteq Keyed
    BY <1>3 DEF FailFind, TypeOK
  <2> QED BY <2>1, <2>3, <2>4, <2>5, CallFails DEF TypeOK
<1>4. ASSUME NEW n \in Node, StartVisit(n) PROVE TypeInv'
  <2>1. PICK where \in {"send", "acquireRead"} : Goto(n, where)
    BY <1>4 DEF StartVisit
  <2>2. pc[n] = "out"
    BY <1>4 DEF StartVisit, Walk!StartVisit, Walk!Advance, CallInv, TypeOK, Walk!TypeOK
  <2>3. SemInv' /\ readSem' \in Nat /\ encryptSem' \in Nat
    BY <1>4, <1>0, <2>1, <2>2, Balance DEF StartVisit, Delta, ReadPlaces, EncryptPlaces
  <2>4. TypeOK'
    BY <1>4, <2>1
       DEF StartVisit, Walk!StartVisit, TypeOK, Goto, PCs, Walk!TypeOK, Walk!Advance,
           Walk!Phases, Walk!Outcomes
  <2>5. CallInv'
    BY <1>4, <2>1
       DEF StartVisit, Walk!StartVisit, TypeOK, CallInv, Saving, Goto, Walk!TypeOK,
           Walk!Advance, Walk!Phases, Walk!Outcomes
  <2> QED BY <2>3, <2>4, <2>5
<1>5. ASSUME NEW n \in Node, AcquireRead(n) PROVE TypeInv'
  <2>1. Goto(n, "read") /\ SemInv' /\ readSem' \in Nat /\ encryptSem' \in Nat
    BY <1>5, <1>0, Balance
       DEF AcquireRead, Fail, Delta, ReadPlaces, EncryptPlaces, CallInv
  <2>2. TypeOK'
    BY <1>5, <1>0, <2>1 DEF AcquireRead, TypeOK, Goto, PCs, Walk!TypeOK
  <2>3. CallInv'
    BY <1>5, <1>0, <2>1 DEF AcquireRead, TypeOK, CallInv, Saving, Goto
  <2> QED BY <2>1, <2>2, <2>3
<1>6. ASSUME NEW n \in Node, AcquireReadCancelled(n) PROVE TypeInv'
  <2>1. Fail(n) /\ Goto(n, "out")
    BY <1>6 DEF AcquireReadCancelled, Fail
  <2>2. /\ readSem' = readSem + Delta(ReadPlaces, pc[n], "out")
        /\ encryptSem' = encryptSem + Delta(EncryptPlaces, pc[n], "out")
    BY <1>6, <1>0 DEF AcquireReadCancelled, Delta, ReadPlaces, EncryptPlaces
  <2>3. SemInv' /\ readSem' \in Nat /\ encryptSem' \in Nat
    BY <1>0, <2>1, <2>2, Balance
  <2>4. readSem' \in 0..ReadCap /\ encryptSem' \in 0..EncryptCap
    BY <1>6, <1>0, <2>3 DEF AcquireReadCancelled
  <2>5. existingScores' \subseteq Blob /\ bucket' \subseteq Blob /\ scoreMap' \subseteq Keyed
    BY <1>6 DEF AcquireReadCancelled, TypeOK
  <2> QED BY <2>1, <2>3, <2>4, <2>5, CallFails DEF TypeOK
<1>7. ASSUME NEW n \in Node, Read(n) PROVE TypeInv'
  <2>1. Goto(n, "acquireEncrypt") /\ SemInv' /\ readSem' \in Nat /\ encryptSem' \in Nat
    BY <1>7, <1>0, Balance DEF Read, Fail, Delta, ReadPlaces, EncryptPlaces, CallInv
  <2>2. TypeOK'
    BY <1>7, <1>0, <2>1 DEF Read, TypeOK, Goto, PCs, Walk!TypeOK
  <2>3. CallInv'
    BY <1>7, <1>0, <2>1 DEF Read, TypeOK, CallInv, Saving, Goto
  <2> QED BY <2>1, <2>2, <2>3
<1>8. ASSUME NEW n \in Node, ReadEOF(n) PROVE TypeInv'
  <2>1. Goto(n, "send") /\ SemInv' /\ readSem' \in Nat /\ encryptSem' \in Nat
    BY <1>8, <1>0, Balance DEF ReadEOF, Fail, Delta, ReadPlaces, EncryptPlaces, CallInv
  <2>2. TypeOK'
    BY <1>8, <1>0, <2>1 DEF ReadEOF, TypeOK, Goto, PCs, Walk!TypeOK
  <2>3. CallInv'
    BY <1>8, <1>0, <2>1 DEF ReadEOF, TypeOK, CallInv, Saving, Goto
  <2> QED BY <2>1, <2>2, <2>3
<1>9. ASSUME NEW n \in Node, ReadFails(n) PROVE TypeInv'
  <2>1. Fail(n) /\ Goto(n, "out")
    BY <1>9 DEF ReadFails, Fail
  <2>2. /\ readSem' = readSem + Delta(ReadPlaces, pc[n], "out")
        /\ encryptSem' = encryptSem + Delta(EncryptPlaces, pc[n], "out")
    BY <1>9, <1>0 DEF ReadFails, Delta, ReadPlaces, EncryptPlaces
  <2>3. SemInv' /\ readSem' \in Nat /\ encryptSem' \in Nat
    BY <1>0, <2>1, <2>2, Balance
  <2>4. readSem' \in 0..ReadCap /\ encryptSem' \in 0..EncryptCap
    BY <1>9, <1>0, <2>3 DEF ReadFails
  <2>5. existingScores' \subseteq Blob /\ bucket' \subseteq Blob /\ scoreMap' \subseteq Keyed
    BY <1>9 DEF ReadFails, TypeOK
  <2> QED BY <2>1, <2>3, <2>4, <2>5, CallFails DEF TypeOK
<1>10. ASSUME NEW n \in Node, AcquireEncrypt(n) PROVE TypeInv'
  <2>1. Goto(n, "releaseRead") /\ SemInv' /\ readSem' \in Nat /\ encryptSem' \in Nat
    BY <1>10, <1>0, Balance
       DEF AcquireEncrypt, Fail, Delta, ReadPlaces, EncryptPlaces, CallInv
  <2>2. TypeOK'
    BY <1>10, <1>0, <2>1 DEF AcquireEncrypt, TypeOK, Goto, PCs, Walk!TypeOK
  <2>3. CallInv'
    BY <1>10, <1>0, <2>1 DEF AcquireEncrypt, TypeOK, CallInv, Saving, Goto
  <2> QED BY <2>1, <2>2, <2>3
<1>11. ASSUME NEW n \in Node, AcquireEncryptCancelled(n) PROVE TypeInv'
  <2>1. Fail(n) /\ Goto(n, "out")
    BY <1>11 DEF AcquireEncryptCancelled, Fail
  <2>2. /\ readSem' = readSem + Delta(ReadPlaces, pc[n], "out")
        /\ encryptSem' = encryptSem + Delta(EncryptPlaces, pc[n], "out")
    BY <1>11, <1>0 DEF AcquireEncryptCancelled, Delta, ReadPlaces, EncryptPlaces
  <2>3. SemInv' /\ readSem' \in Nat /\ encryptSem' \in Nat
    BY <1>0, <2>1, <2>2, Balance
  <2>4. readSem' \in 0..ReadCap /\ encryptSem' \in 0..EncryptCap
    BY <1>11, <1>0, <2>3 DEF AcquireEncryptCancelled
  <2>5. existingScores' \subseteq Blob /\ bucket' \subseteq Blob /\ scoreMap' \subseteq Keyed
    BY <1>11 DEF AcquireEncryptCancelled, TypeOK
  <2> QED BY <2>1, <2>3, <2>4, <2>5, CallFails DEF TypeOK
<1>12. ASSUME NEW n \in Node, ReleaseRead(n) PROVE TypeInv'
  <2>1. Goto(n, "encrypt") /\ SemInv' /\ readSem' \in Nat /\ encryptSem' \in Nat
    BY <1>12, <1>0, Balance
       DEF ReleaseRead, Fail, Delta, ReadPlaces, EncryptPlaces, CallInv
  <2>2. TypeOK'
    BY <1>12, <1>0, <2>1 DEF ReleaseRead, TypeOK, Goto, PCs, Walk!TypeOK
  <2>3. CallInv'
    BY <1>12, <1>0, <2>1 DEF ReleaseRead, TypeOK, CallInv, Saving, Goto
  <2> QED BY <2>1, <2>2, <2>3
<1>13. ASSUME NEW n \in Node, AlreadyThere(n) PROVE TypeInv'
  <2>1. PICK where \in {"send", "acquireRead"} :
          /\ Goto(n, where)
          /\ n \in Dirs => UNCHANGED chunk
          /\ n \notin Dirs => chunk' = [chunk EXCEPT ![n] = chunk[n] + 1]
    BY <1>13 DEF AlreadyThere, ChunkSaved
  <2>2. SemInv' /\ readSem' \in Nat /\ encryptSem' \in Nat
    BY <1>13, <1>0, <2>1, Balance DEF AlreadyThere, Delta, ReadPlaces, EncryptPlaces
  <2>3. Content[n][chunk[n]] \in Blob
    BY <1>13, ChunksOf DEF AlreadyThere, CallInv, Saving, TypeOK
  <2>4. TypeOK'
    BY <1>13, <1>0, <2>1, <2>2, <2>3 DEF AlreadyThere, TypeOK, Goto, PCs, Walk!TypeOK
  <2>5. CallInv'
    BY <1>13, <2>1 DEF AlreadyThere, TypeOK, CallInv, Saving, Goto
  <2> QED BY <2>2, <2>4, <2>5
<1>14. ASSUME NEW n \in Node, PassOn(n) PROVE TypeInv'
  <2>1. Goto(n, "create") /\ SemInv' /\ readSem' \in Nat /\ encryptSem' \in Nat
    BY <1>14, <1>0, Balance DEF PassOn, Fail, Delta, ReadPlaces, EncryptPlaces, CallInv
  <2>2. TypeOK'
    BY <1>14, <1>0, <2>1 DEF PassOn, TypeOK, Goto, PCs, Walk!TypeOK
  <2>3. CallInv'
    BY <1>14, <1>0, <2>1 DEF PassOn, TypeOK, CallInv, Saving, Goto
  <2> QED BY <2>1, <2>2, <2>3
<1>15. ASSUME NEW n \in Node, EncryptFails(n) PROVE TypeInv'
  <2>1. Fail(n) /\ Goto(n, "out")
    BY <1>15 DEF EncryptFails, Fail
  <2>2. /\ readSem' = readSem + Delta(ReadPlaces, pc[n], "out")
        /\ encryptSem' = encryptSem + Delta(EncryptPlaces, pc[n], "out")
    BY <1>15, <1>0 DEF EncryptFails, Delta, ReadPlaces, EncryptPlaces
  <2>3. SemInv' /\ readSem' \in Nat /\ encryptSem' \in Nat
    BY <1>0, <2>1, <2>2, Balance
  <2>4. readSem' \in 0..ReadCap /\ encryptSem' \in 0..EncryptCap
    BY <1>15, <1>0, <2>3 DEF EncryptFails
  <2>5. existingScores' \subseteq Blob /\ bucket' \subseteq Blob /\ scoreMap' \subseteq Keyed
    BY <1>15 DEF EncryptFails, TypeOK
  <2> QED BY <2>1, <2>3, <2>4, <2>5, CallFails DEF TypeOK
<1>16. ASSUME NEW n \in Node, CreateObject(n) PROVE TypeInv'
  <2>1. Goto(n, "add") /\ SemInv' /\ readSem' \in Nat /\ encryptSem' \in Nat
    BY <1>16, <1>0, Balance
       DEF CreateObject, Fail, Delta, ReadPlaces, EncryptPlaces, CallInv
  <2>2. Content[n][chunk[n]] \in Blob
    BY <1>16, ChunksOf DEF CreateObject, CallInv, Saving, TypeOK
  <2>3. TypeOK'
    BY <1>16, <1>0, <2>1, <2>2 DEF CreateObject, TypeOK, Goto, PCs, Walk!TypeOK
  <2>4. CallInv'
    BY <1>16, <1>0, <2>1 DEF CreateObject, TypeOK, CallInv, Saving, Goto
  <2> QED BY <2>1, <2>3, <2>4
<1>17. ASSUME NEW n \in Node, CreateFails(n) PROVE TypeInv'
  <2>1. Fail(n) /\ Goto(n, "out")
    BY <1>17 DEF CreateFails, Fail
  <2>2. /\ readSem' = readSem + Delta(ReadPlaces, pc[n], "out")
        /\ encryptSem' = encryptSem + Delta(EncryptPlaces, pc[n], "out")
    BY <1>17, <1>0 DEF CreateFails, Delta, ReadPlaces, EncryptPlaces
  <2>3. SemInv' /\ readSem' \in Nat /\ encryptSem' \in Nat
    BY <1>0, <2>1, <2>2, Balance
  <2>4. readSem' \in 0..ReadCap /\ encryptSem' \in 0..EncryptCap
    BY <1>17, <1>0, <2>3 DEF CreateFails
  <2>5. existingScores' \subseteq Blob /\ bucket' \subseteq Blob /\ scoreMap' \subseteq Keyed
    BY <1>17, ChunksOf DEF CreateFails, TypeOK, CallInv, Saving
  <2> QED BY <2>1, <2>3, <2>4, <2>5, CallFails DEF TypeOK
<1>18. ASSUME NEW n \in Node, AddScore(n) PROVE TypeInv'
  <2>1. PICK where \in {"send", "acquireRead"} :
          /\ Goto(n, where)
          /\ n \in Dirs => UNCHANGED chunk
          /\ n \notin Dirs => chunk' = [chunk EXCEPT ![n] = chunk[n] + 1]
    BY <1>18 DEF AddScore, ChunkSaved
  <2>2. SemInv' /\ readSem' \in Nat /\ encryptSem' \in Nat
    BY <1>18, <1>0, <2>1, Balance DEF AddScore, Delta, ReadPlaces, EncryptPlaces
  <2>3. Content[n][chunk[n]] \in Blob
    BY <1>18, ChunksOf DEF AddScore, CallInv, Saving, TypeOK
  <2>4. TypeOK'
    BY <1>18, <1>0, <2>1, <2>2, <2>3 DEF AddScore, TypeOK, Goto, PCs, Walk!TypeOK
  <2>5. CallInv'
    BY <1>18, <2>1 DEF AddScore, TypeOK, CallInv, Saving, Goto
  <2> QED BY <2>2, <2>4, <2>5
<1>19. ASSUME NEW n \in Node, Send(n) PROVE TypeInv'
  <2>1. Goto(n, "out") /\ SemInv' /\ readSem' \in Nat /\ encryptSem' \in Nat
    BY <1>19, <1>0, Balance DEF Send, Delta, ReadPlaces, EncryptPlaces
  <2>2. processedNodes' \in Seq(Node) /\ Len(processedNodes') <= ChanCap
    BY <1>19, CapAssumption DEF Send, TypeOK
  <2>3. TypeOK'
    BY <1>19, <2>1, <2>2
       DEF Send, Walk!EndVisit, TypeOK, Goto, PCs, Walk!TypeOK, Walk!Advance,
           Walk!Phases, Walk!Outcomes
  <2>4. CallInv'
    BY <1>19, <2>1
       DEF Send, Walk!EndVisit, TypeOK, CallInv, Saving, Goto, Walk!TypeOK,
           Walk!Advance, Walk!Phases, Walk!Outcomes
  <2> QED BY <2>1, <2>3, <2>4
<1>20. ASSUME NEW n \in Node, SendCancelled(n) PROVE TypeInv'
  <2>1. Fail(n) /\ Goto(n, "out")
    BY <1>20 DEF SendCancelled, Fail
  <2>2. /\ readSem' = readSem + Delta(ReadPlaces, pc[n], "out")
        /\ encryptSem' = encryptSem + Delta(EncryptPlaces, pc[n], "out")
    BY <1>20, <1>0 DEF SendCancelled, Delta, ReadPlaces, EncryptPlaces
  <2>3. SemInv' /\ readSem' \in Nat /\ encryptSem' \in Nat
    BY <1>0, <2>1, <2>2, Balance
  <2>4. readSem' \in 0..ReadCap /\ encryptSem' \in 0..EncryptCap
    BY <1>20, <1>0, <2>3 DEF SendCancelled
  <2>5. existingScores' \subseteq Blob /\ bucket' \subseteq Blob /\ scoreMap' \subseteq Keyed
    BY <1>20 DEF SendCancelled, TypeOK
  <2> QED BY <2>1, <2>3, <2>4, <2>5, CallFails DEF TypeOK
<1>21. CASE WalkEnds
  <2>1. UNCHANGED <<pc, chunk, readSem, encryptSem>> /\ SemInv'
    BY <1>21 DEF WalkEnds, SemInv, At
  <2> QED BY <1>21, <2>1
             DEF WalkEnds, Walk!Finish, TypeOK, CallInv, Walk!TypeOK, Walk!Advance,
                 Walk!Phases, Walk!Outcomes
<1>22. CASE CloseChannel
  <2>1. UNCHANGED <<pc, chunk, readSem, encryptSem>> /\ SemInv'
    BY <1>22 DEF CloseChannel, SemInv, At
  <2> QED BY <1>22, <2>1 DEF CloseChannel, TypeOK, CallInv, Walk!TypeOK
<1>23. CASE NoRoot
  <2>1. UNCHANGED <<pc, chunk, readSem, encryptSem>> /\ SemInv'
    BY <1>23 DEF NoRoot, SemInv, At
  <2> QED BY <1>23, <2>1 DEF NoRoot, TypeOK, CallInv, Walk!TypeOK
<1>24. CASE WalkJoins
  <2>1. UNCHANGED <<pc, chunk, readSem, encryptSem>> /\ SemInv'
    BY <1>24 DEF WalkJoins, Join, SemInv, At
  <2> QED BY <1>24, <2>1 DEF WalkJoins, Join, TypeOK, CallInv, Walk!TypeOK
<1>25. CASE FinderJoins
  <2>1. UNCHANGED <<pc, chunk, readSem, encryptSem>> /\ SemInv'
    BY <1>25 DEF FinderJoins, Join, SemInv, At
  <2> QED BY <1>25, <2>1 DEF FinderJoins, Join, TypeOK, CallInv, Walk!TypeOK
<1>26. CASE Return
  <2>1. UNCHANGED <<pc, chunk, readSem, encryptSem>> /\ SemInv'
    BY <1>26 DEF Return, SemInv, At
  <2> QED BY <1>26, <2>1 DEF Return, TypeOK, CallInv, Walk!TypeOK
<1>27. CASE CancelContext
  <2>1. UNCHANGED <<pc, chunk, readSem, encryptSem>> /\ SemInv'
    BY <1>27 DEF CancelContext, SemInv, At
  <2> QED BY <1>27, <2>1 DEF CancelContext, TypeOK, CallInv, Walk!TypeOK
<1>28. CASE Receive
  <2>1. UNCHANGED <<pc, chunk, readSem, encryptSem>> /\ SemInv'
    BY <1>28 DEF Receive, SemInv, At
  <2>2. processedNodes' \in Seq(Node) /\ Len(processedNodes') <= ChanCap
    BY <1>28, CapAssumption DEF Receive, TypeOK
  <2> QED BY <1>28, <2>1, <2>2 DEF Receive, TypeOK, CallInv, Walk!TypeOK
<1>29. CASE UNCHANGED vars
  BY <1>29 DEF vars, TypeOK, CallInv, SemInv, At, Walk!TypeOK
<1> QED
  BY <1>1, <1>2, <1>3, <1>4, <1>5, <1>6, <1>7, <1>8, <1>9, <1>10, <1>11, <1>12, <1>13,
     <1>14, <1>15, <1>16, <1>17, <1>18, <1>19, <1>20, <1>21, <1>22, <1>23, <1>24,
     <1>25, <1>26, <1>27, <1>28, <1>29
     DEF Next, BlobStep, WalkStep, GroupStep, Terminated

------------------------------------------------------------------------------
(* What is in the bucket                                                   *)

\* The chunks a call is past are in the bucket, and so are all blobs of a node
\* whose call has nothing left to save but to report it; the two caches, filled
\* on the way, know only what is there.
SavedInv ==
    /\ existingScores \subseteq bucket
    /\ \A n \in scoreMap : BlobsOf(n) \subseteq bucket
    /\ \A n \in Node :
          /\ \A i \in 1..(chunk[n] - 1) : Content[n][i] \in bucket
          /\ pc[n] = "add" => Content[n][chunk[n]] \in bucket
          /\ pc[n] = "send" \/ phase[n] = "visited" => BlobsOf(n) \subseteq bucket

\* A step that puts no call at "add" or "send", finishes none and moves none on
\* to its next chunk.
LEMMA SavedStays ==
    ASSUME SavedInv, bucket \subseteq bucket', chunk' = chunk,
           UNCHANGED <<existingScores, scoreMap>>,
           \A n \in Node :
              /\ pc'[n] = "add" => pc[n] = "add"
              /\ pc'[n] = "send" \/ phase'[n] = "visited" =>
                    pc[n] = "send" \/ phase[n] = "visited"
    PROVE  SavedInv'
  BY DEF SavedInv

\* A call that has the score of its chunk goes on.
LEMMA SavedChunk ==
    ASSUME TypeInv, SavedInv, NEW n \in Node, pc[n] \in Saving, ChunkSaved(n),
           Content[n][chunk[n]] \in bucket,
           UNCHANGED <<phase, bucket, scoreMap>>, existingScores' \subseteq bucket
    PROVE  SavedInv'
<1>1. pc \in [Node -> PCs] /\ chunk \in [Node -> Nat \ {0}]
  BY DEF TypeInv, TypeOK
<1>2. CASE n \in Dirs
  <2>1. pc' = [pc EXCEPT ![n] = "send"] /\ chunk' = chunk
    BY <1>2 DEF ChunkSaved, Goto
  <2>2. BlobsOf(n) \subseteq bucket
    BY <1>2, ListingOfDir DEF TypeInv, CallInv
  <2> QED BY <1>1, <2>1, <2>2 DEF SavedInv
<1>3. CASE n \notin Dirs
  <2>1. /\ pc' = [pc EXCEPT ![n] = "acquireRead"]
        /\ chunk' = [chunk EXCEPT ![n] = chunk[n] + 1]
    BY <1>3 DEF ChunkSaved, Goto
  <2>2. ASSUME NEW i \in 1..(chunk'[n] - 1) PROVE Content[n][i] \in bucket
    <3>1. i \in 1..(chunk[n] - 1) \/ i = chunk[n]
      BY <1>1, <2>1
    <3> QED BY <3>1 DEF SavedInv
  <2>3. \A m \in Node \ {n} : chunk'[m] = chunk[m] /\ pc'[m] = pc[m]
    BY <1>1, <2>1
  <2>4. pc'[n] = "acquireRead" /\ (phase'[n] = "visited" => phase[n] = "visited")
    BY <1>1, <2>1
  <2> QED BY <2>2, <2>3, <2>4 DEF SavedInv
<1> QED BY <1>2, <1>3

\* At first nothing has been saved, and the caches know only what is in the bucket.
LEMMA InitSaved == Init => SavedInv
  BY DEF Init, Walk!Init, SavedInv

\* A score enters a cache, or is handed to the visitor above, only when the
\* blob is in the bucket.
LEMMA NextSaved == TypeInv /\ SavedInv /\ [Next]_vars => SavedInv'
<1> SUFFICES ASSUME TypeInv, SavedInv, [Next]_vars PROVE SavedInv'
  OBVIOUS
<1> USE DEF storeVars, semVars, walkVars, chanVars, groupVars
<1>0. /\ pc \in [Node -> PCs] /\ phase \in [Node -> Walk!Phases]
      /\ chunk \in [Node -> Nat \ {0}]
  BY DEF TypeInv, TypeOK, Walk!TypeOK
<1>1. ASSUME NEW n \in Node, StartFind(n) \/ EndFind(n) PROVE SavedInv'
  BY <1>1, <1>0, SavedStays
     DEF StartFind, EndFind, Walk!StartFind, Walk!EndFind, Walk!Advance
<1>2. ASSUME NEW n \in Node, StartVisit(n) PROVE SavedInv'
  <2>1. CASE NothingToSave(n)
    <3>1. BlobsOf(n) \subseteq bucket
      <4>1. CASE n \in Symlinks
        BY <4>1, ContentAssumption DEF BlobsOf
      <4>2. CASE n \in scoreMap
        BY <4>2 DEF SavedInv
      <4> QED BY <2>1, <4>1, <4>2 DEF NothingToSave
    <3>2. /\ pc' = [pc EXCEPT ![n] = "send"] /\ phase' = [phase EXCEPT ![n] = "visiting"]
          /\ UNCHANGED <<chunk, existingScores, scoreMap, bucket>>
      BY <1>2, <2>1 DEF StartVisit, Walk!StartVisit, Walk!Advance, Goto
    <3> QED BY <1>0, <3>1, <3>2 DEF SavedInv
  <2>2. CASE ~NothingToSave(n)
    <3>1. /\ pc' = [pc EXCEPT ![n] = "acquireRead"]
          /\ phase' = [phase EXCEPT ![n] = "visiting"]
          /\ UNCHANGED <<chunk, existingScores, scoreMap, bucket>>
      BY <1>2, <2>2 DEF StartVisit, Walk!StartVisit, Walk!Advance, Goto
    <3> QED BY <1>0, <3>1, SavedStays
  <2> QED BY <2>1, <2>2
<1>3. ASSUME NEW n \in Node,
             AcquireRead(n) \/ Read(n) \/ AcquireEncrypt(n) \/ ReleaseRead(n) \/ PassOn(n)
      PROVE  SavedInv'
  BY <1>3, <1>0, SavedStays
     DEF AcquireRead, Read, AcquireEncrypt, ReleaseRead, PassOn, Goto
<1>4. ASSUME NEW n \in Node, Fail(n), bucket \subseteq bucket',
             UNCHANGED <<existingScores, scoreMap>>
      PROVE  SavedInv'
  <2>1. pc' = [pc EXCEPT ![n] = "out"]
    BY <1>4 DEF Fail, Goto
  <2> QED BY <1>0, <1>4, <2>1, CallFails, SavedStays DEF TypeInv
<1>5. ASSUME NEW n \in Node,
             \/ FailFind(n) \/ AcquireReadCancelled(n) \/ ReadFails(n)
             \/ AcquireEncryptCancelled(n) \/ EncryptFails(n) \/ CreateFails(n)
             \/ SendCancelled(n)
      PROVE  SavedInv'
  BY <1>4, <1>5 DEF FailFind, AcquireReadCancelled, ReadFails, AcquireEncryptCancelled,
                    EncryptFails, CreateFails, SendCancelled
<1>6. ASSUME NEW n \in Node, ReadEOF(n) PROVE SavedInv'
  <2>1. BlobsOf(n) \subseteq bucket
    <3>1. ASSUME NEW i \in 1..Len(Content[n]) PROVE Content[n][i] \in bucket
      <4>1. i \in 1..(chunk[n] - 1)
        BY <1>0, <1>6, ChunksOf DEF ReadEOF
      <4> QED BY <4>1 DEF SavedInv
    <3> QED BY <3>1, ChunksOf
  <2>2. /\ pc' = [pc EXCEPT ![n] = "send"] /\ scoreMap' \subseteq scoreMap \cup {n}
        /\ UNCHANGED <<phase, chunk, existingScores, bucket>>
    BY <1>6 DEF ReadEOF, Goto
  <2> QED BY <1>0, <2>1, <2>2 DEF SavedInv
<1>7. ASSUME NEW n \in Node, AlreadyThere(n) PROVE SavedInv'
  BY <1>7, SavedChunk DEF AlreadyThere, SavedInv, Saving
<1>8. ASSUME NEW n \in Node, CreateObject(n) PROVE SavedInv'
  BY <1>0, <1>8 DEF CreateObject, Goto, SavedInv
<1>9. ASSUME NEW n \in Node, AddScore(n) PROVE SavedInv'
  BY <1>9, SavedChunk DEF AddScore, SavedInv, Saving
<1>10. ASSUME NEW n \in Node, Send(n) PROVE SavedInv'
  BY <1>0, <1>10 DEF Send, Walk!EndVisit, Walk!Advance, Goto, SavedInv
<1>11. CASE GroupStep \/ CancelContext \/ UNCHANGED vars
  BY <1>11, SavedStays
     DEF GroupStep, WalkEnds, Walk!Finish, CloseChannel, Receive, NoRoot, WalkJoins,
         FinderJoins, Join, Return, CancelContext, vars
<1> QED
  BY <1>1, <1>2, <1>3, <1>5, <1>6, <1>7, <1>8, <1>9, <1>10, <1>11
     DEF Next, BlobStep, WalkStep, Terminated

------------------------------------------------------------------------------
(* The order of the walk, and listings without holes                       *)

\* A Visit call begins after those of the node's dependencies have ended.
OrderInv ==
    \A n \in Node : phase[n] \in {"visiting", "visited"} =>
                       \A d \in Deps(graph, n) : phase[d] = "visited"

\* A listing is under way only when all it refers to is in the bucket.
LEMMA NextOrder == TypeInv /\ OrderInv /\ [Next]_vars => OrderInv'
<1> SUFFICES ASSUME TypeInv, OrderInv, [Next]_vars PROVE OrderInv'
  OBVIOUS
<1> USE DEF storeVars, semVars, walkVars, chanVars, groupVars
<1>0. phase \in [Node -> Walk!Phases] /\ \A n \in Node : Deps(graph, n) \subseteq Node
  BY DepsAreNodes DEF TypeInv, TypeOK, Walk!TypeOK
<1>1. ASSUME NEW n \in Node, NEW from, NEW to, Walk!Advance(n, from, to),
             from # "visited",
             to \in {"visiting", "visited"} =>
                from = "visiting" \/ \A d \in Deps(graph, n) : phase[d] = "visited"
      PROVE  OrderInv'
  <2>1. phase[n] = from /\ phase' = [phase EXCEPT ![n] = to] /\ graph' = graph
    BY <1>1 DEF Walk!Advance
  <2>2. \A m \in Node : phase[m] = "visited" => phase'[m] = "visited"
    BY <1>0, <1>1, <2>1
  <2> QED BY <1>0, <1>1, <2>1, <2>2 DEF OrderInv
<1>2. ASSUME NEW n \in Node, StartVisit(n) PROVE OrderInv'
  BY <1>1, <1>2, SameWalk DEF StartVisit, Walk!StartVisit
<1>3. ASSUME NEW n \in Node, Send(n) PROVE OrderInv'
  BY <1>1, <1>3 DEF Send, Walk!EndVisit
<1>4. ASSUME NEW n \in Node, StartFind(n) \/ EndFind(n) PROVE OrderInv'
  BY <1>1, <1>4 DEF StartFind, EndFind, Walk!StartFind, Walk!EndFind
<1>5. ASSUME NEW n \in Node, Fail(n) PROVE OrderInv'
  BY <1>1, <1>5 DEF Fail, Walk!FailCall
<1>6. CASE UNCHANGED <<graph, phase>>
  BY <1>6 DEF OrderInv
<1> QED
  BY <1>2, <1>3, <1>4, <1>5, <1>6
     DEF Next, BlobStep, WalkStep, GroupStep, CancelContext, Terminated, vars,
         AcquireRead, AcquireReadCancelled, Read, ReadEOF, ReadFails, AcquireEncrypt,
         AcquireEncryptCancelled, ReleaseRead, AlreadyThere, PassOn, EncryptFails,
         CreateObject, CreateFails, AddScore, SendCancelled, FailFind, WalkEnds,
         Walk!Finish, CloseChannel, Receive, NoRoot, WalkJoins, FinderJoins, Join, Return

\* Only CreateObject, and its lost answers, put anything in the bucket.
LEMMA BucketGrows ==
    ASSUME TypeInv, [Next]_vars
    PROVE  /\ graph' = graph
           /\ \/ bucket' = bucket
              \/ \E n \in Node : /\ pc[n] = "create"
                                 /\ bucket' = bucket \cup {Content[n][chunk[n]]}
<1> USE DEF storeVars, semVars, walkVars, chanVars, groupVars
<1>1. ASSUME NEW n \in Node, CreateObject(n) \/ CreateFails(n)
      PROVE  /\ graph' = graph
             /\ \/ bucket' = bucket
                \/ /\ pc[n] = "create"
                   /\ bucket' = bucket \cup {Content[n][chunk[n]]}
  BY <1>1, CallFails DEF CreateObject, CreateFails, TypeInv
<1>2. ASSUME NEW n \in Node, Fail(n) PROVE graph' = graph
  BY <1>2, CallFails DEF TypeInv
<1>3. ASSUME NEW n \in Node, BlobStep(n) \/ WalkStep(n), ~CreateObject(n), ~CreateFails(n)
      PROVE  graph' = graph /\ bucket' = bucket
  BY <1>2, <1>3
     DEF BlobStep, WalkStep, AcquireRead, AcquireReadCancelled, Read, ReadEOF, ReadFails,
         AcquireEncrypt, AcquireEncryptCancelled, ReleaseRead, AlreadyThere, PassOn,
         EncryptFails, AddScore, Send, SendCancelled, StartFind, EndFind, FailFind,
         StartVisit, Walk!StartFind, Walk!EndFind, Walk!StartVisit, Walk!EndVisit,
         Walk!Advance
<1>4. CASE GroupStep \/ CancelContext \/ UNCHANGED vars
  BY <1>4
     DEF GroupStep, WalkEnds, Walk!Finish, CloseChannel, Receive, NoRoot, WalkJoins,
         FinderJoins, Join, Return, CancelContext, vars
<1> QED BY <1>1, <1>3, <1>4 DEF Next, Terminated

\* When a call is in CreateObject, everything below its node is in the bucket.
LEMMA BelowIsSaved ==
    ASSUME TypeInv, SavedInv, OrderInv, NEW n \in Node, phase[n] = "visiting"
    PROVE  TreeBlobs(graph, n) \subseteq BlobsOf(n) \cup bucket
<1> DEFINE S == {n} \cup {m \in Node : phase[m] = "visited"}
<1>1. graph \in Graphs /\ S \in SUBSET Node
  BY DEF TypeInv, TypeOK, Walk!TypeOK
<1>2. Closed(graph, S)
  BY <1>1, DepsAreNodes DEF Closed, OrderInv
<1>3. ASSUME NEW m \in Node, \A T \in SUBSET Node : n \in T /\ Closed(graph, T) => m \in T
      PROVE  BlobsOf(m) \subseteq BlobsOf(n) \cup bucket
  <2>1. m \in S
    BY <1>1, <1>2, <1>3
  <2> QED BY <2>1 DEF SavedInv
<1> QED BY <1>3 DEF TreeBlobs

\* The bucket a save begins with has no dangling listing.
LEMMA InitIntact == Init => NoDanglingListing
  BY ContentAssumption DEF Init, Walk!Init, NoDanglingListing

\* A blob that completes a directory's listing belongs to a directory (perhaps
\* another one, with the same listing) whose own call is creating it.
LEMMA NextIntact ==
    TypeInv /\ SavedInv /\ OrderInv /\ NoDanglingListing /\ [Next]_vars => NoDanglingListing'
<1> SUFFICES ASSUME TypeInv, SavedInv, OrderInv, NoDanglingListing, [Next]_vars
             PROVE  NoDanglingListing'
  OBVIOUS
<1>1. graph' = graph /\ graph \in Graphs
  BY BucketGrows DEF TypeInv, TypeOK, Walk!TypeOK
<1>2. CASE bucket' = bucket
  BY <1>1, <1>2 DEF NoDanglingListing
<1>3. ASSUME NEW n \in Node, pc[n] = "create", bucket' = bucket \cup {Content[n][chunk[n]]}
      PROVE  NoDanglingListing'
  <2>1. phase[n] = "visiting" /\ Content[n][chunk[n]] \in BlobsOf(n)
    BY <1>3, ChunksOf DEF TypeInv, CallInv, Saving, TypeOK
  <2>2. ASSUME NEW d \in Dirs, BlobsOf(d) \subseteq bucket'
        PROVE  TreeBlobs(graph, d) \subseteq bucket'
    <3>1. CASE BlobsOf(d) \subseteq bucket
      BY <1>3, <3>1 DEF NoDanglingListing, Intact
    <3>2. CASE ~(BlobsOf(d) \subseteq bucket)
      <4>1. Content[d][1] = Content[n][chunk[n]]
        BY <1>3, <2>2, <3>2, ListingOfDir
      <4>2. n \in Dirs /\ TreeBlobs(graph, n) = TreeBlobs(graph, d)
        BY <1>1, <2>1, <4>1, ListingAssumption
      <4>3. BlobsOf(n) = {Content[n][chunk[n]]}
        BY <4>2, ListingOfDir DEF TypeInv, CallInv
      <4> QED BY <1>3, <2>1, <4>2, <4>3, BelowIsSaved
    <3> QED BY <3>1, <3>2
  <2> QED BY <1>1, <2>2 DEF NoDanglingListing, Intact
<1> QED BY <1>2, <1>3, BucketGrows

------------------------------------------------------------------------------
(* Save's two goroutines and what they return                              *)

\* When the walk is over, no call is; the channel is closed after that, and the
\* goroutines have seen what they report.
GroupInv ==
    /\ outcome # "running" => \A n \in Node : pc[n] = "out"
    /\ outcome = "ok" => \A n \in Reachable(graph) : phase[n] = "visited"
    /\ closed => outcome # "running"
    /\ "walk" \in joined => closed /\ (groupErr = "none" => outcome = "ok")
    /\ "finder" \in joined =>
          \/ finder = "found" /\ closed /\ processedNodes = << >>
          \/ finder \in {"duplicate", "noRoot"} /\ groupErr # "none"
    /\ result = "ok" => joined = {"walk", "finder"} /\ groupErr = "none"

\* What findRootScore has seen of the root: it is sent once, when it has been
\* visited, and is either in the channel or has been found.
RootAt(i) == i \in 1..Len(processedNodes) /\ processedNodes[i] = Root

RootInv ==
    /\ finder # "duplicate"
    /\ \A i, j \in 1..Len(processedNodes) : RootAt(i) /\ RootAt(j) => i = j
    /\ \A i \in 1..Len(processedNodes) :
          RootAt(i) => phase[Root] = "visited" /\ finder = "searching"
    /\ finder = "found" => phase[Root] = "visited"
    /\ finder = "searching" /\ phase[Root] = "visited" =>
          \E i \in 1..Len(processedNodes) : RootAt(i)
    /\ finder = "noRoot" =>
          closed /\ processedNodes = << >> /\ phase[Root] # "visited"

\* At first no goroutine of the errgroup has ended, and the channel is empty.
LEMMA InitGroup == Init => GroupInv /\ RootInv
<1> SUFFICES ASSUME Init PROVE GroupInv /\ RootInv
  OBVIOUS
<1>1. Root \in Node /\ phase[Root] = "idle"
  BY ContentAssumption DEF Init, Walk!Init
<1>2. processedNodes = << >> /\ 1..Len(processedNodes) = {}
  BY DEF Init
<1> QED BY <1>1, <1>2 DEF Init, Walk!Init, GroupInv, RootInv

\* Once the walk is over, its nodes and calls stand still.
LEMMA WalkStandsStill ==
    ASSUME TypeInv, GroupInv, [Next]_vars, outcome # "running"
    PROVE  UNCHANGED <<phase, graph, outcome, pc>>
           /\ (processedNodes' = processedNodes \/ Receive)
<1> USE DEF storeVars, semVars, walkVars, chanVars, groupVars
<1>1. ASSUME NEW n \in Node, BlobStep(n) PROVE FALSE
  BY <1>1
     DEF GroupInv, BlobStep, AcquireRead, AcquireReadCancelled, Read, ReadEOF, ReadFails,
         AcquireEncrypt, AcquireEncryptCancelled, ReleaseRead, AlreadyThere, PassOn,
         EncryptFails, CreateObject, CreateFails, AddScore, Send, SendCancelled
<1>2. ASSUME NEW n \in Node, WalkStep(n) PROVE FALSE
  BY <1>2
     DEF WalkStep, StartFind, EndFind, FailFind, Fail, StartVisit, Walk!StartFind,
         Walk!EndFind, Walk!StartVisit, Walk!FailCall, Walk!Advance
<1>3. CASE GroupStep \/ CancelContext \/ UNCHANGED vars
  BY <1>3
     DEF GroupStep, WalkEnds, Walk!Finish, CloseChannel, Receive, NoRoot, WalkJoins,
         FinderJoins, Join, Return, CancelContext, vars
<1> QED BY <1>1, <1>2, <1>3 DEF Next, Terminated

\* A step of a call or of the walk leaves Save's goroutines alone, and happens
\* while the walk is running; only Send touches the channel.
LEMMA CallsOnly ==
    ASSUME TypeInv, NEW n \in Node, BlobStep(n) \/ WalkStep(n)
    PROVE  /\ UNCHANGED <<graph, outcome, closed, finder, groupErr, joined, result>>
           /\ processedNodes' = processedNodes \/ Send(n)
<1> USE DEF storeVars, semVars, walkVars, chanVars, groupVars
<1>1. ASSUME Fail(n)
      PROVE  UNCHANGED <<graph, outcome, closed, finder, groupErr, joined, result,
                         processedNodes>>
  BY <1>1, CallFails DEF TypeInv
<1>2. CASE WalkStep(n)
  BY <1>1, <1>2
     DEF WalkStep, StartFind, EndFind, FailFind, StartVisit, Walk!StartFind, Walk!EndFind,
         Walk!StartVisit, Walk!Advance
<1>3. CASE BlobStep(n)
  BY <1>1, <1>3
     DEF BlobStep, AcquireRead, AcquireReadCancelled, Read, ReadEOF, ReadFails,
         AcquireEncrypt, AcquireEncryptCancelled, ReleaseRead, AlreadyThere, PassOn,
         EncryptFails, CreateObject, CreateFails, AddScore, Send, SendCancelled,
         Walk!EndVisit, Walk!Advance
<1> QED BY <1>2, <1>3

\* The errgroup keeps the first error of its two goroutines.
LEMMA NextGroup == TypeInv /\ GroupInv /\ [Next]_vars => GroupInv'
<1> SUFFICES ASSUME TypeInv, GroupInv, [Next]_vars PROVE GroupInv'
  OBVIOUS
<1> USE DEF storeVars, semVars, walkVars, chanVars, groupVars
<1>0. joined \subseteq {"walk", "finder"} /\ result \in {"running", "ok", "error"}
  BY DEF TypeInv, TypeOK
<1>1. ASSUME NEW n \in Node, BlobStep(n) \/ WalkStep(n) PROVE GroupInv'
  <2>1. CASE outcome = "running"
    BY <1>1, <2>1, CallsOnly DEF GroupInv
  <2>2. CASE outcome # "running"
    <3>1. processedNodes' = processedNodes
      BY <1>1, <2>2, CallsOnly DEF Send, Walk!EndVisit, Walk!Advance
    <3> QED BY <1>1, <2>2, <3>1, CallsOnly, WalkStandsStill DEF GroupInv
  <2> QED BY <2>1, <2>2
<1>2. CASE WalkEnds
  <2>1. \A n \in Node : phase[n] # "visiting"
    BY <1>2 DEF WalkEnds, Walk!Finish, Walk!InCall
  <2>2. \A n \in Node : pc[n] = "out"
    BY <2>1 DEF TypeInv, CallInv
  <2>3. outcome' = "ok" => \A n \in Reachable(graph) : phase[n] = "visited"
    BY <1>2, SameWalk DEF WalkEnds, Walk!Finish
  <2>4. /\ outcome = "running" /\ outcome' # "running"
        /\ UNCHANGED <<graph, phase, pc, closed, joined, groupErr, finder, result,
                       processedNodes>>
    BY <1>2 DEF WalkEnds, Walk!Finish
  <2> QED BY <2>2, <2>3, <2>4 DEF GroupInv
<1>3. CASE CloseChannel
  BY <1>3 DEF CloseChannel, GroupInv
<1>4. CASE Receive
  BY <1>4 DEF Receive, GroupInv
<1>5. CASE NoRoot
  BY <1>5 DEF NoRoot, GroupInv
<1>6. CASE WalkJoins
  BY <1>0, <1>6 DEF WalkJoins, Join, GroupInv
<1>7. CASE FinderJoins
  BY <1>0, <1>7 DEF FinderJoins, Join, GroupInv
<1>8. CASE Return
  BY <1>8 DEF Return, GroupInv
<1>9. CASE CancelContext \/ UNCHANGED vars
  BY <1>9 DEF CancelContext, vars, GroupInv
<1> QED
  BY <1>1, <1>2, <1>3, <1>4, <1>5, <1>6, <1>7, <1>8, <1>9
     DEF Next, GroupStep, Terminated

\* The root's score goes through the channel once, before it is closed, and
\* findRootScore finds it there.
LEMMA NextRoot == TypeInv /\ GroupInv /\ RootInv /\ [Next]_vars => RootInv'
<1> SUFFICES ASSUME TypeInv, GroupInv, RootInv, [Next]_vars PROVE RootInv'
  OBVIOUS
<1> USE DEF storeVars, semVars, walkVars, chanVars, groupVars
<1>0. /\ Root \in Node /\ processedNodes \in Seq(Node) /\ phase \in [Node -> Walk!Phases]
      /\ Len(processedNodes) \in Nat
  BY ContentAssumption DEF TypeInv, TypeOK, Walk!TypeOK
<1>1. ASSUME NEW n \in Node, Send(n) PROVE RootInv'
  <2>1. /\ processedNodes' = Append(processedNodes, n) /\ outcome = "running"
        /\ phase[n] = "visiting" /\ phase' = [phase EXCEPT ![n] = "visited"]
        /\ UNCHANGED <<finder, closed>>
    BY <1>1 DEF Send, Walk!EndVisit, Walk!Advance
  <2>2. /\ Len(processedNodes') = Len(processedNodes) + 1
        /\ processedNodes'[Len(processedNodes) + 1] = n
        /\ \A i \in 1..Len(processedNodes) : processedNodes'[i] = processedNodes[i]
    BY <1>0, <2>1
  <2>3. ~closed /\ finder \in {"searching", "found"}
    BY <2>1 DEF GroupInv, RootInv, TypeInv, TypeOK
  <2>4. CASE n = Root
    <3>1. finder = "searching" /\ \A i \in 1..Len(processedNodes) : ~RootAt(i)
      BY <2>1, <2>3, <2>4 DEF RootInv
    <3>2. \A i \in 1..Len(processedNodes') : RootAt(i)' <=> i = Len(processedNodes) + 1
      BY <1>0, <2>2, <2>4, <3>1 DEF RootAt
    <3>3. phase'[Root] = "visited" /\ finder' = "searching"
      BY <1>0, <2>1, <2>4, <3>1
    <3>4. Len(processedNodes) + 1 \in 1..Len(processedNodes')
      BY <1>0, <2>2
    <3> QED BY <3>2, <3>3, <3>4 DEF RootInv
  <2>5. CASE n # Root
    <3>1. \A i \in 1..Len(processedNodes') :
             RootAt(i)' <=> i \in 1..Len(processedNodes) /\ RootAt(i)
      BY <1>0, <2>2, <2>5 DEF RootAt
    <3>2. phase'[Root] = phase[Root]
      BY <1>0, <2>1, <2>5
    <3>3. 1..Len(processedNodes) \subseteq 1..Len(processedNodes')
      BY <1>0, <2>2
    <3> QED BY <2>1, <2>3, <3>1, <3>2, <3>3 DEF RootInv
  <2> QED BY <2>4, <2>5
<1>2. CASE Receive
  <2>1. /\ processedNodes # << >> /\ processedNodes' = Tail(processedNodes)
        /\ finder \in {"searching", "found"}
        /\ finder' = IF processedNodes[1] # Root THEN finder
                     ELSE IF finder = "found" THEN "duplicate" ELSE "found"
        /\ UNCHANGED <<phase, closed>>
    BY <1>2 DEF Receive
  <2>2. /\ Len(processedNodes') = Len(processedNodes) - 1 /\ Len(processedNodes) > 0
        /\ \A i \in 1..Len(processedNodes') : processedNodes'[i] = processedNodes[i + 1]
    BY <1>0, <2>1
  <2>3. \A i \in 1..Len(processedNodes') : RootAt(i)' <=> RootAt(i + 1)
    BY <1>0, <2>2 DEF RootAt
  <2>4. CASE processedNodes[1] = Root
    <3>1. RootAt(1) /\ 1 \in 1..Len(processedNodes)
      BY <1>0, <2>2, <2>4 DEF RootAt
    <3>2. finder' = "found" /\ phase'[Root] = "visited"
      BY <2>1, <3>1, <2>4 DEF RootInv
    <3>3. \A i \in 1..Len(processedNodes') : ~RootAt(i)'
      <4>1. ASSUME NEW i \in 1..Len(processedNodes') PROVE ~RootAt(i)'
        <5>1. i + 1 # 1 /\ i + 1 \in 1..Len(processedNodes)
          BY <1>0, <2>2
        <5> QED BY <2>3, <3>1, <5>1 DEF RootInv
      <4> QED BY <4>1
    <3> QED BY <3>2, <3>3 DEF RootInv
  <2>5. CASE processedNodes[1] # Root
    <3>1. finder' = finder /\ ~RootAt(1)
      BY <2>1, <2>5 DEF RootAt
    <3>2. \A i \in 1..Len(processedNodes') : i + 1 \in 1..Len(processedNodes) /\ i \in Int
      BY <1>0, <2>2
    <3>3. \A i, j \in 1..Len(processedNodes') : RootAt(i)' /\ RootAt(j)' => i = j
      <4>1. \A i, j \in 1..Len(processedNodes') : RootAt(i)' /\ RootAt(j)' => i + 1 = j + 1
        BY <2>3, <3>2 DEF RootInv
      <4> QED BY <3>2, <4>1
    <3>4. \A i \in 1..Len(processedNodes') :
             RootAt(i)' => phase'[Root] = "visited" /\ finder' = "searching"
      BY <2>1, <2>3, <3>1, <3>2 DEF RootInv
    <3>5. finder = "searching" /\ phase[Root] = "visited" =>
             \E i \in 1..Len(processedNodes') : RootAt(i)'
      <4>1. HAVE finder = "searching" /\ phase[Root] = "visited"
      <4>2. PICK k \in 1..Len(processedNodes) : RootAt(k)
        BY <4>1 DEF RootInv
      <4>3. k # 1 /\ k - 1 \in 1..Len(processedNodes') /\ (k - 1) + 1 = k
        BY <1>0, <2>2, <3>1, <4>2
      <4> QED BY <2>3, <4>2, <4>3
    <3> QED BY <2>1, <3>1, <3>3, <3>4, <3>5 DEF RootInv
  <2> QED BY <2>4, <2>5
<1>3. CASE NoRoot
  <2>1. /\ finder = "searching" /\ processedNodes = << >> /\ closed /\ finder' = "noRoot"
        /\ UNCHANGED <<phase, closed, processedNodes>>
    BY <1>3 DEF NoRoot
  <2>2. 1..Len(processedNodes) = {}
    BY <2>1
  <2>3. phase[Root] # "visited"
    BY <2>1, <2>2 DEF RootInv
  <2> QED BY <2>1, <2>2, <2>3 DEF RootInv
<1>4. ASSUME UNCHANGED <<processedNodes, finder>>, phase'[Root] = "visited" <=> phase[Root] = "visited",
             closed => closed'
      PROVE  RootInv'
  BY <1>4 DEF RootInv, RootAt
<1>5. ASSUME NEW n \in Node, BlobStep(n) \/ WalkStep(n), ~Send(n) PROVE RootInv'
  <2>1. UNCHANGED <<processedNodes, finder, closed>>
    BY <1>5, CallsOnly
  <2>2. phase'[Root] = "visited" <=> phase[Root] = "visited"
    <3>1. ASSUME NEW from, NEW to, Walk!Advance(n, from, to), from # "visited", to # "visited"
          PROVE  phase'[Root] = "visited" <=> phase[Root] = "visited"
      BY <1>0, <3>1 DEF Walk!Advance
    <3>2. CASE StartFind(n) \/ EndFind(n) \/ StartVisit(n) \/ Fail(n)
      BY <3>1, <3>2
         DEF StartFind, EndFind, StartVisit, Fail, Walk!StartFind, Walk!EndFind,
                        Walk!StartVisit, Walk!FailCall
    <3>3. CASE ~(StartFind(n) \/ EndFind(n) \/ StartVisit(n) \/ Fail(n))
      BY <1>5, <3>3
         DEF BlobStep, WalkStep, FailFind, AcquireRead, AcquireReadCancelled, Read, ReadEOF,
             ReadFails, AcquireEncrypt, AcquireEncryptCancelled, ReleaseRead, AlreadyThere,
             PassOn, EncryptFails, CreateObject, CreateFails, AddScore, SendCancelled
    <3> QED BY <3>2, <3>3
  <2> QED BY <1>4, <2>1, <2>2
<1>6. CASE \/ WalkEnds \/ CloseChannel \/ WalkJoins \/ FinderJoins \/ Return
           \/ CancelContext \/ UNCHANGED vars
  BY <1>4, <1>6
     DEF WalkEnds, Walk!Finish, CloseChannel, WalkJoins, FinderJoins, Join, Return,
                    CancelContext, vars
<1> QED
  BY <1>1, <1>2, <1>3, <1>5, <1>6 DEF Next, GroupStep, Terminated

------------------------------------------------------------------------------
(* The invariant and what follows from it                                  *)

IInv ==
    /\ TypeInv
    /\ SavedInv
    /\ OrderInv
    /\ NoDanglingListing
    /\ GroupInv
    /\ RootInv

\* Every state of a save satisfies the inductive invariant.
THEOREM Invariance == Spec => []IInv
<1>1. Init => IInv
  <2>1. Init => OrderInv
    BY DEF Init, Walk!Init, OrderInv
  <2> QED BY <2>1, InitType, InitSaved, InitIntact, InitGroup DEF IInv
<1>2. IInv /\ [Next]_vars => IInv'
  BY NextType, NextSaved, NextOrder, NextIntact, NextGroup, NextRoot DEF IInv
<1> QED BY <1>1, <1>2, PTL DEF Spec

\* The two semaphores are held exactly as often as calls need them, on every
\* path through the layers of blob stores, and so bound the buffers in memory.
THEOREM SaveKeepsSemaphores == Spec => []SemaphoresBalanced
<1>1. IInv => SemaphoresBalanced
  <2> SUFFICES ASSUME IInv PROVE SemaphoresBalanced
    OBVIOUS
  <2>1. TypeOK /\ SemInv
    BY DEF IInv, TypeInv
  <2>2. At(ReadPlaces \cup EncryptPlaces) = At(ReadPlaces) \cup At(EncryptPlaces)
    BY DEF At
  <2>3. /\ IsFiniteSet(At(ReadPlaces) \cap At(EncryptPlaces))
        /\ Cardinality(At(ReadPlaces) \cap At(EncryptPlaces)) \in Nat
    BY <2>1, FS_Intersection, FS_CardinalityType DEF SemInv
  <2>4. Cardinality(At(ReadPlaces) \cup At(EncryptPlaces)) =
           Cardinality(At(ReadPlaces)) + Cardinality(At(EncryptPlaces))
             - Cardinality(At(ReadPlaces) \cap At(EncryptPlaces))
    BY <2>1, FS_Union DEF SemInv
  <2>5. Cardinality(At(ReadPlaces \cup EncryptPlaces)) <= ReadCap + EncryptCap
    <3>1. /\ readSem \in 0..ReadCap /\ encryptSem \in 0..EncryptCap
          /\ ReadCap \in Nat /\ EncryptCap \in Nat
      BY <2>1, CapAssumption DEF TypeOK
    <3>2. PICK c \in Nat : Cardinality(At(ReadPlaces \cup EncryptPlaces)) =
                              readSem + encryptSem - c
      BY <2>1, <2>2, <2>3, <2>4 DEF SemInv
    <3>3. readSem + encryptSem - c <= ReadCap + EncryptCap
      BY <3>1
    <3> QED BY <3>2, <3>3
  <2>6. ReadPlaces \cup EncryptPlaces =
           {"read", "acquireEncrypt", "releaseRead", "encrypt"}
    BY DEF ReadPlaces, EncryptPlaces
  <2> QED BY <2>1, <2>5, <2>6 DEF SemaphoresBalanced, SemInv, ReadPlaces, EncryptPlaces
<1> QED BY <1>1, Invariance, PTL

\* At every moment of a save, what the shared set of existing scores and the
\* score map claim to be in the bucket is there.
THEOREM SaveCachesAreRight == Spec => []CachesAreRight
<1>1. IInv => CachesAreRight
  BY DEF IInv, SavedInv, CachesAreRight
<1> QED BY <1>1, Invariance, PTL

\* A crash at any moment of a save leaves no listing without its subtree.
THEOREM SaveLeavesNoDanglingListing == Spec => []NoDanglingListing
<1>1. IInv => NoDanglingListing
  BY DEF IInv
<1> QED BY <1>1, Invariance, PTL

\* A save that returns a score has put everything below it in the bucket.
THEOREM SaveIsComplete == Spec => []BackupComplete
<1>1. IInv => BackupComplete
  <2> SUFFICES ASSUME IInv, result = "ok"
               PROVE  /\ finder = "found"
                      /\ \A n \in Reachable(graph) : BlobsOf(n) \subseteq bucket
    BY DEF BackupComplete
  <2>1. outcome = "ok" /\ finder = "found"
    BY DEF IInv, GroupInv
  <2>2. ASSUME NEW n \in Reachable(graph) PROVE BlobsOf(n) \subseteq bucket
    <3>1. n \in Node /\ phase[n] = "visited"
      BY <2>1, <2>2 DEF IInv, GroupInv, Reachable
    <3> QED BY <3>1 DEF IInv, SavedInv
  <2> QED BY <2>1, <2>2
<1> QED BY <1>1, Invariance, PTL

\* The channel is closed only when no call can send any more, and delivers the
\* root of a successful walk exactly once.
THEOREM SaveChannelIsSound == Spec => []RootChannelSound
<1>1. IInv => RootChannelSound
  <2> SUFFICES ASSUME IInv PROVE RootChannelSound
    OBVIOUS
  <2>1. closed => \A n \in Node : pc[n] = "out"
    BY DEF IInv, GroupInv
  <2>2. ASSUME outcome = "ok" PROVE finder \in {"searching", "found"}
    <3>1. Root \in Reachable(graph)
      BY ContentAssumption DEF Reachable
    <3>2. phase[Root] = "visited"
      BY <2>2, <3>1 DEF IInv, GroupInv
    <3> QED BY <3>2 DEF IInv, RootInv, TypeInv, TypeOK
  <2> QED BY <2>1, <2>2 DEF RootChannelSound
<1> QED BY <1>1, Invariance, PTL

------------------------------------------------------------------------------
(* The score map                                                           *)


\* What s has read so far is what the file contains.
Agrees(s) == \A k \in 1..Len(scores[s]) : scores[s][k] = contents[k]

\* A key is made only when its mtime is over, and an entry only under a key.
Keys == /\ \A s \in Saver : visit[s] = "reading" /\ keyed[s] => info[s] < now - MaxAge
        /\ KeysAreOver

\* A visit has the file's present stat until somebody writes to it; and has read
\* what is there, if nobody did, or if the file still has the mtime of the key.
Quiet == \A s \in Saver : visit[s] # "idle" /\ ~changed[s] => info[s] = mtime
Reading ==
  \A s \in Saver :
    /\ visit[s] = "stated" => scores[s] = <<>>
    /\ visit[s] = "reading" /\ ~changed[s] => Agrees(s)
    /\ visit[s] = "reading" /\ keyed[s] /\ info[s] = mtime => Agrees(s)

FreshInv == ScoreMapTypeOK /\ Keys /\ Quiet /\ Reading /\ EntriesAreFresh /\ QuietFileIsSaved

LEMMA ScoreMapInitOK ==
    ASSUME ScoreMapInit
    PROVE  FreshInv
<1>1. ScoreMapTypeOK
  <2>1. contents \in Contents /\ writes \in Versions
    BY TimesAssumption DEF ScoreMapInit, Contents, Versions
  <2>2. <<>> \in Reads
    BY TimesAssumption DEF Reads
  <2> QED BY <2>1, <2>2 DEF ScoreMapInit, ScoreMapTypeOK, Times
<1> QED BY <1>1 DEF ScoreMapInit, FreshInv, Keys, KeysAreOver, Quiet, Reading, EntriesAreFresh, QuietFileIsSaved

\* A whole reading that agrees with the file is the file's contents.
LEMMA WholeReading ==
    ASSUME ScoreMapTypeOK, NEW s \in Saver, Len(scores[s]) >= Chunks
    PROVE  /\ scores[s] \in Contents
           /\ Agrees(s) => scores[s] = contents
<1>1. scores[s] \in Seq(Versions) /\ Len(scores[s]) = Chunks
  <2>1. scores[s] \in Seq(Versions) /\ Len(scores[s]) <= Chunks
    BY DEF ScoreMapTypeOK, Reads
  <2> QED BY <2>1, TimesAssumption
<1>2. scores[s] \in [1..Chunks -> Versions]
  BY <1>1
<1>3. contents \in [1..Chunks -> Versions]
  BY DEF ScoreMapTypeOK, Contents
<1>4. ASSUME Agrees(s)
      PROVE  scores[s] = contents
  <2>1. \A k \in 1..Chunks : scores[s][k] = contents[k]
    BY <1>1, <1>4 DEF Agrees
  <2>2. scores[s] = [k \in 1..Chunks |-> scores[s][k]]
    BY <1>2
  <2>3. contents = [k \in 1..Chunks |-> contents[k]]
    BY <1>3
  <2>4. [k \in 1..Chunks |-> scores[s][k]] = [k \in 1..Chunks |-> contents[k]]
    BY <2>1
  <2> QED BY <2>2, <2>3, <2>4, Zenon
<1> QED BY <1>2, <1>4 DEF Contents

\* One chunk more.
LEMMA OneChunk ==
    ASSUME ScoreMapTypeOK, NEW s \in Saver, Len(scores[s]) < Chunks
    PROVE  LET q == Append(scores[s], contents[Len(scores[s]) + 1]) IN
             /\ q \in Reads
             /\ Agrees(s) => \A k \in 1..Len(q) : q[k] = contents[k]
<1> DEFINE q == Append(scores[s], contents[Len(scores[s]) + 1])
<1>1. scores[s] \in Seq(Versions) /\ Len(scores[s]) \in Nat
  BY DEF ScoreMapTypeOK, Reads
<1>2. contents[Len(scores[s]) + 1] \in Versions
  BY <1>1, TimesAssumption DEF ScoreMapTypeOK, Contents
<1>3. q \in Seq(Versions) /\ Len(q) = Len(scores[s]) + 1
  BY <1>1, <1>2
<1>4. q \in Reads
  BY <1>1, <1>3, TimesAssumption DEF Reads
<1>5. ASSUME Agrees(s), NEW k \in 1..Len(q)
      PROVE  q[k] = contents[k]
  <2>1. CASE k \in 1..Len(scores[s])
    BY <1>1, <1>5, <2>1 DEF Agrees
  <2>2. CASE k = Len(scores[s]) + 1
    BY <1>1, <2>2
  <2> QED BY <1>1, <1>3, <2>1, <2>2
<1> QED BY <1>4, <1>5

LEMMA ScoreMapTypeKept ==
    ASSUME FreshInv, [ScoreMapNext]_scoreMapVars
    PROVE  ScoreMapTypeOK'
<1> ScoreMapTypeOK
  BY DEF FreshInv
<1>1. CASE Tick
  BY <1>1 DEF Tick, ScoreMapTypeOK, file
<1>2. CASE Write
  <2>1. writes' \in Versions
    BY <1>2, TimesAssumption DEF Write, ScoreMapTypeOK, Versions
  <2>2. contents' \in Contents
    BY <1>2, <2>1 DEF Write, ScoreMapTypeOK, Contents
  <2>3. mtime' \in Times
    BY <1>2 DEF Write, Times
  <2>4. changed' \in [Saver -> BOOLEAN]
    BY <1>2 DEF Write
  <2> QED BY <1>2, <2>1, <2>2, <2>3, <2>4 DEF Write, ScoreMapTypeOK
<1>3. ASSUME NEW s \in Saver, Lstat(s)
      PROVE  ScoreMapTypeOK'
  <2>1. <<>> \in Reads
    BY TimesAssumption DEF Reads
  <2> QED BY <1>3, <2>1 DEF Lstat, ScoreMapTypeOK, file
<1>4. ASSUME NEW s \in Saver, Miss(s)
      PROVE  ScoreMapTypeOK'
  <2>1. Eligible(info[s]) \in BOOLEAN
    BY DEF Eligible
  <2>2. keyed' \in [Saver -> BOOLEAN]
    BY <1>4, <2>1 DEF Miss, ScoreMapTypeOK
  <2> QED BY <1>4, <2>2 DEF Miss, ScoreMapTypeOK, file
<1>5. ASSUME NEW s \in Saver, Hit(s)
      PROVE  ScoreMapTypeOK'
  <2>1. PICK e \in entries : scores' = [scores EXCEPT ![s] = e.scores]
    BY <1>5 DEF Hit
  <2>2. e.scores \in Contents
    BY <2>1 DEF ScoreMapTypeOK
  <2>3. e.scores \in Reads
    BY <2>2, TimesAssumption DEF Contents, Reads
  <2> QED BY <1>5, <2>1, <2>2, <2>3 DEF Hit, ScoreMapTypeOK, file
<1>6. ASSUME NEW s \in Saver, ReadChunk(s)
      PROVE  ScoreMapTypeOK'
  <2>1. Append(scores[s], contents[Len(scores[s]) + 1]) \in Reads
    BY <1>6, OneChunk DEF ReadChunk, MoreToRead
  <2>2. scores' \in [Saver -> Reads]
    BY <1>6, <2>1 DEF ReadChunk, ScoreMapTypeOK
  <2> QED BY <1>6, <2>2 DEF ReadChunk, ScoreMapTypeOK, file
<1>7. ASSUME NEW s \in Saver, Set(s)
      PROVE  ScoreMapTypeOK'
  <2>1. scores[s] \in Contents
    <3>1. Len(scores[s]) \in Nat /\ ~(Len(scores[s]) < Chunks)
      BY <1>7 DEF Set, MoreToRead, ScoreMapTypeOK, Reads
    <3> QED BY <3>1, WholeReading, TimesAssumption
  <2>2. [mtime |-> info[s], scores |-> scores[s]] \in [mtime : Times, scores : Contents]
    BY <2>1 DEF ScoreMapTypeOK
  <2>3. entries' \subseteq [mtime : Times, scores : Contents]
    BY <1>7, <2>2 DEF Set, ScoreMapTypeOK
  <2> QED BY <1>7, <2>1, <2>3 DEF Set, ScoreMapTypeOK, file
<1>8. ASSUME NEW s \in Saver, Fails(s)
      PROVE  ScoreMapTypeOK'
  <2>1. <<>> \in Reads
    BY TimesAssumption DEF Reads
  <2> QED BY <1>8, <2>1 DEF Fails, ScoreMapTypeOK, file
<1>9. CASE UNCHANGED scoreMapVars
  BY <1>9 DEF ScoreMapTypeOK, scoreMapVars, file
<1> QED BY <1>1, <1>2, <1>3, <1>4, <1>5, <1>6, <1>7, <1>8, <1>9 DEF ScoreMapNext

\* A key: an mtime that lies minElapsed back can no longer be set.
LEMMA EligibleOK ==
    ASSUME ScoreMapTypeOK, NEW m \in Times, Eligible(m)
    PROVE  m < now - MaxAge
BY TimesAssumption DEF Eligible, ScoreMapTypeOK, Times

LEMMA ScoreKeysKept ==
    ASSUME FreshInv, [ScoreMapNext]_scoreMapVars
    PROVE  Keys'
<1> ScoreMapTypeOK /\ Keys
  BY DEF FreshInv
<1>t. now \in Int /\ MaxAge \in Int /\ \A e \in entries : e.mtime \in Int
  BY TimesAssumption DEF ScoreMapTypeOK, Times
<1>1. CASE Tick
  <2>1. now' = now + 1 /\ UNCHANGED <<visit, keyed, info, entries>>
    BY <1>1 DEF Tick
  <2>2. \A s \in Saver : info[s] \in Int
    BY DEF ScoreMapTypeOK, Times
  <2> QED BY <1>t, <2>1, <2>2 DEF Keys, KeysAreOver
<1>2. ASSUME NEW s \in Saver, Miss(s)
      PROVE  Keys'
  <2>1. /\ keyed'[s] => info[s] < now - MaxAge
        /\ \A r \in Saver \ {s} : keyed'[r] = keyed[r] /\ visit'[r] = visit[r]
    BY <1>2, EligibleOK DEF Miss, ScoreMapTypeOK
  <2> QED BY <1>2, <2>1 DEF Keys, KeysAreOver, Miss
<1>3. ASSUME NEW s \in Saver, Set(s)
      PROVE  Keys'
  <2>1. /\ \A r \in Saver : visit'[r] = "reading" => visit[r] = "reading"
        /\ UNCHANGED <<now, keyed, info>>
        /\ \A e \in entries' : e \in entries \/ (keyed[s] /\ e.mtime = info[s])
    BY <1>3 DEF Set, ScoreMapTypeOK
  <2>2. keyed[s] => info[s] < now - MaxAge
    BY <1>3 DEF Set, Keys
  <2> QED BY <2>1, <2>2 DEF Keys, KeysAreOver
<1>4. ASSUME NEW s \in Saver, Lstat(s) \/ Hit(s) \/ ReadChunk(s) \/ Fails(s)
      PROVE  Keys'
  <2>1. /\ UNCHANGED <<now, entries>>
        /\ \A r \in Saver : visit'[r] = "reading" =>
             visit[r] = "reading" /\ keyed'[r] = keyed[r] /\ info'[r] = info[r]
    BY <1>4 DEF Lstat, Hit, ReadChunk, Fails, ScoreMapTypeOK
  <2> QED BY <2>1 DEF Keys, KeysAreOver
<1>5. CASE Write \/ UNCHANGED scoreMapVars
  BY <1>5 DEF Keys, KeysAreOver, Write, scoreMapVars
<1> QED BY <1>1, <1>2, <1>3, <1>4, <1>5 DEF ScoreMapNext

\* A write gives the file an mtime that no key and no entry has.
LEMMA WriteIsSeen ==
    ASSUME FreshInv, Write
    PROVE  /\ \A e \in entries : e.mtime # mtime'
           /\ \A s \in Saver : visit[s] = "reading" /\ keyed[s] => info[s] # mtime'
<1>1. mtime' \in Int /\ mtime' >= now - MaxAge /\ now - MaxAge \in Int
  BY TimesAssumption DEF Write, FreshInv, ScoreMapTypeOK
<1>2. \A e \in entries : e.mtime \in Int /\ e.mtime < now - MaxAge
  BY DEF FreshInv, Keys, KeysAreOver, ScoreMapTypeOK, Times
<1>3. \A s \in Saver : info[s] \in Int
  BY DEF FreshInv, ScoreMapTypeOK, Times
<1>4. \A s \in Saver : visit[s] = "reading" /\ keyed[s] => info[s] < now - MaxAge
  BY DEF FreshInv, Keys
<1> QED BY <1>1, <1>2, <1>3, <1>4

LEMMA VisitsStay ==
    ASSUME FreshInv, [ScoreMapNext]_scoreMapVars
    PROVE  Quiet' /\ Reading' /\ EntriesAreFresh' /\ QuietFileIsSaved'
<1> ScoreMapTypeOK
  BY DEF FreshInv
<1> DEFINE Goal == Quiet' /\ Reading' /\ EntriesAreFresh' /\ QuietFileIsSaved'
<1>1. CASE Write
  <2>1. /\ \A s \in Saver : changed'[s] = TRUE
        /\ UNCHANGED <<entries, visit, info, keyed, scores>>
    BY <1>1 DEF Write
  <2>2. Quiet' /\ QuietFileIsSaved'
    BY <2>1 DEF Quiet, QuietFileIsSaved
  <2>3. EntriesAreFresh'
    BY <1>1, <2>1, WriteIsSeen DEF EntriesAreFresh
  <2>4. Reading'
    BY <1>1, <2>1, WriteIsSeen DEF Reading, FreshInv
  <2> QED BY <2>2, <2>3, <2>4
<1>2. ASSUME NEW s \in Saver, Lstat(s)
      PROVE  Goal
  <2>1. /\ visit'[s] = "stated" /\ info'[s] = mtime /\ scores'[s] = <<>>
        /\ UNCHANGED <<mtime, contents, entries>>
        /\ \A r \in Saver \ {s} : /\ visit'[r] = visit[r] /\ info'[r] = info[r] /\ scores'[r] = scores[r]
                                  /\ changed'[r] = changed[r] /\ keyed'[r] = keyed[r]
    BY <1>2 DEF Lstat, ScoreMapTypeOK, file
  <2> QED BY <2>1 DEF FreshInv, Quiet, Reading, Agrees, EntriesAreFresh, QuietFileIsSaved
<1>3. ASSUME NEW s \in Saver, Miss(s)
      PROVE  Goal
  <2>1. /\ visit[s] = "stated" /\ visit'[s] = "reading" /\ scores[s] = <<>>
        /\ UNCHANGED <<mtime, contents, entries, info, scores, changed>>
        /\ \A r \in Saver \ {s} : visit'[r] = visit[r] /\ keyed'[r] = keyed[r]
    BY <1>3 DEF Miss, ScoreMapTypeOK, file, FreshInv, Reading
  <2>2. Agrees(s)'
    BY <2>1 DEF Agrees
  <2> QED BY <2>1, <2>2 DEF FreshInv, Quiet, Reading, Agrees, EntriesAreFresh, QuietFileIsSaved
<1>4. ASSUME NEW s \in Saver, Hit(s)
      PROVE  Goal
  <2>1. PICK e \in entries : e.mtime = info[s] /\ scores' = [scores EXCEPT ![s] = e.scores]
    BY <1>4 DEF Hit
  <2>2. /\ visit[s] = "stated" /\ visit'[s] = "saved" /\ scores'[s] = e.scores
        /\ UNCHANGED <<mtime, contents, entries, info, keyed, changed>>
        /\ \A r \in Saver \ {s} : visit'[r] = visit[r] /\ scores'[r] = scores[r]
    BY <1>4, <2>1 DEF Hit, ScoreMapTypeOK, file
  <2>3. ~changed[s] => e.scores = contents
    BY <2>1, <2>2 DEF FreshInv, Quiet, EntriesAreFresh
  <2> QED BY <2>2, <2>3 DEF FreshInv, Quiet, Reading, Agrees, EntriesAreFresh, QuietFileIsSaved
<1>5. ASSUME NEW s \in Saver, ReadChunk(s)
      PROVE  Goal
  <2>1. /\ visit[s] = "reading" /\ scores'[s] = Append(scores[s], contents[Len(scores[s]) + 1])
        /\ UNCHANGED <<mtime, contents, entries, visit, info, keyed, changed>>
        /\ \A r \in Saver \ {s} : scores'[r] = scores[r]
    BY <1>5 DEF ReadChunk, ScoreMapTypeOK, file
  <2>2. Agrees(s) => Agrees(s)'
    BY <1>5, <2>1, OneChunk DEF ReadChunk, MoreToRead, Agrees
  <2> QED BY <2>1, <2>2 DEF FreshInv, Quiet, Reading, Agrees, EntriesAreFresh, QuietFileIsSaved
<1>6. ASSUME NEW s \in Saver, Set(s)
      PROVE  Goal
  <2>1. /\ visit[s] = "reading" /\ visit'[s] = "saved"
        /\ UNCHANGED <<mtime, contents, info, keyed, scores, changed>>
        /\ \A r \in Saver \ {s} : visit'[r] = visit[r]
        /\ \A e \in entries' : \/ e \in entries
                               \/ keyed[s] /\ e.mtime = info[s] /\ e.scores = scores[s]
    BY <1>6 DEF Set, ScoreMapTypeOK, file
  <2>2. Agrees(s) => scores[s] = contents
    <3>1. Len(scores[s]) \in Nat /\ ~(Len(scores[s]) < Chunks)
      BY <1>6 DEF Set, MoreToRead, ScoreMapTypeOK, Reads
    <3> QED BY <3>1, WholeReading, TimesAssumption
  <2>3. keyed[s] /\ info[s] = mtime => scores[s] = contents
    BY <2>1, <2>2 DEF FreshInv, Reading
  <2>4. ~changed[s] => scores[s] = contents
    BY <2>1, <2>2 DEF FreshInv, Reading
  <2>5. EntriesAreFresh'
    BY <2>1, <2>3 DEF FreshInv, EntriesAreFresh
  <2> QED BY <2>1, <2>4, <2>5 DEF FreshInv, Quiet, Reading, Agrees, QuietFileIsSaved
<1>7. ASSUME NEW s \in Saver, Fails(s)
      PROVE  Goal
  <2>1. /\ visit'[s] = "idle" /\ UNCHANGED <<mtime, contents, entries, info, keyed, changed>>
        /\ \A r \in Saver \ {s} : visit'[r] = visit[r] /\ scores'[r] = scores[r]
    BY <1>7 DEF Fails, ScoreMapTypeOK, file
  <2> QED BY <2>1 DEF FreshInv, Quiet, Reading, Agrees, EntriesAreFresh, QuietFileIsSaved
<1>8. CASE Tick \/ UNCHANGED scoreMapVars
  BY <1>8 DEF Tick, scoreMapVars, file, FreshInv, Quiet, Reading, Agrees, EntriesAreFresh, QuietFileIsSaved
<1> QED BY <1>1, <1>2, <1>3, <1>4, <1>5, <1>6, <1>7, <1>8 DEF ScoreMapNext

LEMMA FreshInvariance == ScoreMapSpec => []FreshInv
<1>1. FreshInv /\ [ScoreMapNext]_scoreMapVars => FreshInv'
  BY ScoreMapTypeKept, ScoreKeysKept, VisitsStay DEF FreshInv
<1> QED BY <1>1, ScoreMapInitOK, PTL DEF ScoreMapSpec

\* Every visit, entry and clock has its type, for any number of them (saveFile).
THEOREM ScoreMapTypes == ScoreMapSpec => []ScoreMapTypeOK
BY FreshInvariance, PTL DEF FreshInv

\* minElapsed is enough: for any granularity and lag of mtimes below it, no entry
\* of the score map ever stands for a file that contains something else
\* (makeScoreMapKey, saveFile).
THEOREM NoStaleEntry == ScoreMapSpec => []EntriesAreFresh
BY FreshInvariance, PTL DEF FreshInv

\* A file nobody writes to from its lstat on is saved as it is (saveFile).
THEOREM QuietFilesAreSaved == ScoreMapSpec => []QuietFileIsSaved
BY FreshInvariance, PTL DEF FreshInv

\* An mtime with an entry is one that no write can set any more (makeScoreMapKey).
THEOREM KeysStayOver == ScoreMapSpec => []KeysAreOver
BY FreshInvariance, PTL DEF FreshInv, Keys
=============================================================================
