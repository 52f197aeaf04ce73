-------------------------- MODULE GcPipelineProofs --------------------------
(***************************************************************************)
(* Proofs about GcPipeline, for every chain of stages that gc.go and       *)
(* delete_garbage.go may set up: any pools, any capacities, any partition  *)
(* of the listing.  Objects are followed through the chain: what they have *)
(* passed, and that none is lost unless some goroutine has failed.         *)
(***************************************************************************)
EXTENDS GcPipeline, SequenceTheorems, TLAPS

------------------------------------------------------------------------------
(* The chain                                                               *)

\* What PipelineAssumption says of the command that was given.
LEMMA ChainFacts ==
    ASSUME command \in Command
    PROVE  /\ Last \in Nat /\ Last > 1 /\ Stages = 1..Last /\ NoItem \notin Object
           /\ InUse \subseteq Object /\ Capacity \in [Stages -> Nat]
           /\ \A s \in Stages : /\ Of(s) # {}
                                /\ Kind[s] = "list" <=> s = 1
                                /\ Kind[s] = "delete" <=> s = Last
           /\ \A w \in Worker : Stage[w] \in Stages
           /\ Source \in {"blobs", "garbage"}
<1>1. /\ Kind \in Seq({"list", "parse", "count", "filter", "clone", "delete"})
      /\ Kind # <<>> /\ Capacity \in [Stages -> Nat] /\ Source \in {"blobs", "garbage"}
      /\ NoItem \notin Object /\ InUse \subseteq Object
      /\ \A w \in Worker : Stage[w] \in Stages
      /\ \A s \in Stages : /\ Kind[s] = "list" <=> s = 1
                           /\ Kind[s] = "delete" <=> s = Last
  <2>0. IsChain(Pipeline[command])
    BY PipelineAssumption
  <2>1. Kind \in Seq({"list", "parse", "count", "filter", "clone", "delete"}) /\ Kind # <<>>
    BY <2>0 DEF Kind, IsChain
  <2>2. /\ Capacity \in [Stages -> Nat] /\ Source \in {"blobs", "garbage"}
        /\ NoItem \notin Object /\ InUse \subseteq Object
    BY <2>0, PipelineAssumption DEF Kind, Capacity, Source, Stages, IsChain
  <2>3. \A w \in Worker : Stage[w] \in Stages
    BY <2>0 DEF Kind, Stages, Stage, Worker, IsChain
  <2>4. \A s \in Stages : Kind[s] = "list" <=> s = 1
    BY <2>0 DEF Kind, Stages, IsChain
  <2>5. \A s \in Stages : Kind[s] = "delete" <=> s = Last
    BY <2>0 DEF Kind, Stages, Last, IsChain
  <2> QED BY <2>1, <2>2, <2>3, <2>4, <2>5
<1>2. \A s \in Stages : Of(s) # {}
  BY PipelineAssumption DEF Of, Stages, Kind, Stage, Worker, IsChain
<1>3. Last \in Nat /\ Stages = 1..Last /\ Last > 0
  BY <1>1 DEF Stages, Last
<1>4. Last # 1
  BY <1>1, <1>3
<1> QED BY <1>1, <1>2, <1>3, <1>4

\* gc clones only what it has filtered, and delete_garbage does neither.
LEMMA FilterBeforeClone ==
    ASSUME command \in Command
    PROVE  /\ Source = "blobs" <=> \E s \in Stages : Kind[s] = "clone"
           /\ \A s \in Stages :
                 /\ Kind[s] = "clone" => \E f \in Stages : f < s /\ Kind[f] = "filter"
                 /\ Kind[s] = "filter" => Source = "blobs"
  BY PipelineAssumption DEF Kind, Source, Stages, IsChain

\* The list goroutines share the listing among them.
LEMMA ListingIsShared ==
    ASSUME command \in Command
    PROVE  /\ \A o \in Object : \E w \in Worker : Stage[w] = 1 /\ o \in Share[w]
           /\ \A w \in Worker : Stage[w] = 1 => Share[w] \subseteq Object
<1>1. UNION {Share[w] : w \in Of(1)} = Object
  BY PipelineAssumption DEF Share, Of, Stage, Worker, IsChain
<1> QED BY <1>1 DEF Of

\* What a goroutine does with an item it receives.
LEMMA AfterCases ==
    ASSUME command \in Command, NEW s \in Stages, NEW o
    PROVE  /\ After(s, o) \in {"take", "work", "send"}
           /\ After(s, o) = "take" <=> Kind[s] = "filter" /\ o \in InUse
           /\ After(s, o) = "work" <=> Kind[s] \in {"clone", "delete"}
           /\ After(s, o) = "send" => s # Last
  BY ChainFacts DEF After, Keep

\* The members of a sequence, one taken from its front or put at its back.
LEMMA QueueMembers ==
    ASSUME NEW S, NEW q \in Seq(S)
    PROVE  /\ Range(q) \subseteq S
           /\ q # <<>> => /\ Tail(q) \in Seq(S) /\ Head(q) \in S /\ Head(q) \in Range(q)
                          /\ Range(q) = {Head(q)} \cup Range(Tail(q))
                          /\ Len(Tail(q)) <= Len(q)
           /\ \A x \in S : /\ Append(q, x) \in Seq(S)
                           /\ Range(Append(q, x)) = Range(q) \cup {x}
                           /\ Len(Append(q, x)) = Len(q) + 1
<1>1. Range(q) \subseteq S
  BY DEF Range
<1>2. ASSUME q # <<>>
      PROVE  /\ Tail(q) \in Seq(S) /\ Head(q) \in S /\ Head(q) \in Range(q)
             /\ Range(q) = {Head(q)} \cup Range(Tail(q))
             /\ Len(Tail(q)) <= Len(q)
  <2>1. /\ Len(q) \in Nat /\ Len(q) > 0 /\ Tail(q) \in Seq(S) /\ Head(q) = q[1]
        /\ Len(Tail(q)) = Len(q) - 1
        /\ \A i \in 1..Len(Tail(q)) : Tail(q)[i] = q[i + 1]
    BY <1>2
  <2>2. \A i \in 1..Len(q) : i = 1 \/ (i - 1 \in 1..Len(Tail(q)) /\ Tail(q)[i - 1] = q[i])
    BY <2>1
  <2>3. \A i \in 1..Len(Tail(q)) : i + 1 \in 1..Len(q)
    BY <2>1
  <2>4. 1 \in 1..Len(q) /\ DOMAIN q = 1..Len(q) /\ DOMAIN Tail(q) = 1..Len(Tail(q))
    BY <2>1
  <2>5. Range(q) = {Head(q)} \cup Range(Tail(q))
    <3>1. \A i \in DOMAIN q : q[i] \in {Head(q)} \cup Range(Tail(q))
      BY <2>1, <2>2, <2>4 DEF Range
    <3>2. Head(q) \in Range(q) /\ \A i \in DOMAIN Tail(q) : Tail(q)[i] \in Range(q)
      BY <2>1, <2>3, <2>4 DEF Range
    <3> QED BY <3>1, <3>2 DEF Range
  <2>6. Head(q) \in S /\ Head(q) \in Range(q) /\ Len(Tail(q)) <= Len(q)
    BY <2>1, <2>4, <1>1 DEF Range
  <2> QED BY <2>1, <2>5, <2>6
<1>3. ASSUME NEW x \in S
      PROVE  /\ Append(q, x) \in Seq(S)
             /\ Range(Append(q, x)) = Range(q) \cup {x}
             /\ Len(Append(q, x)) = Len(q) + 1
  <2>1. /\ Append(q, x) \in Seq(S) /\ Len(q) \in Nat /\ Len(Append(q, x)) = Len(q) + 1
        /\ \A i \in 1..Len(q) : Append(q, x)[i] = q[i]
        /\ Append(q, x)[Len(q) + 1] = x
    OBVIOUS
  <2>2. /\ DOMAIN q = 1..Len(q) /\ DOMAIN Append(q, x) = 1..Len(Append(q, x))
        /\ \A i : i \in DOMAIN Append(q, x) <=> i \in DOMAIN q \/ i = Len(q) + 1
    BY <2>1
  <2> QED BY <2>1, <2>2 DEF Range
<1> QED BY <1>1, <1>2, <1>3

------------------------------------------------------------------------------
(* Type correctness                                                        *)

\* Goroutines are at places of their stage's loop; nothing is sent behind the
\* last stage.
PlaceInv ==
    \A w \in Worker :
        /\ pc[w] = "fetch" => Stage[w] = 1
        /\ pc[w] = "work" => Kind[Stage[w]] \in {"clone", "delete"}
        /\ pc[w] = "send" => Stage[w] # Last

TypeInv ==
    /\ TypeOK
    /\ chan \in [Stages -> Seq(Object)]
    /\ unsent \in [Worker -> SUBSET Object]
    /\ PlaceInv

\* The operators that depend on the command stay as they are.
SameCommand ==
    /\ command' = command /\ Kind' = Kind /\ Task' = Task /\ Stage' = Stage
    /\ Share' = Share /\ Capacity' = Capacity /\ Source' = Source
    /\ Stages' = Stages /\ Last' = Last /\ Worker' = Worker

\* The command that was given is not changed.
LEMMA CommandStays == [Next]_vars => SameCommand
<1> SUFFICES ASSUME [Next]_vars PROVE SameCommand
  OBVIOUS
<1>1. command' = command
  BY DEF Next, Step, ListObjects, ListObjectsFails, PassOnListed, ListingDone, Receive,
         ParseFails, LoopEnds, Send, GiveUp, HandOver, CopyObject, CopyObjectFails,
         DeleteObject, DeleteObjectFails, Close, Return, vars
<1> QED BY <1>1
           DEF SameCommand, Kind, Task, Stage, Share, Capacity, Source, Stages, Last,
               Worker

\* A goroutine moves.
LEMMA Becomes ==
    ASSUME TypeInv, SameCommand, NEW w \in Worker, NEW where \in PCs, NEW what \in Object \cup {NoItem},
           Become(w, where, what), where \in {"work", "send"} <=> what # NoItem,
           where # "fetch",
           where = "work" => Kind[Stage[w]] \in {"clone", "delete"},
           where = "send" => Stage[w] # Last
    PROVE  /\ pc' \in [Worker' -> PCs] /\ item' \in [Worker' -> Object \cup {NoItem}]
           /\ \A v \in Worker' : pc'[v] \in {"work", "send"} <=> item'[v] # NoItem
           /\ PlaceInv'
<1>1. pc' = [pc EXCEPT ![w] = where] /\ item' = [item EXCEPT ![w] = what]
  BY DEF Become
<1>2. pc \in [Worker -> PCs] /\ item \in [Worker -> Object \cup {NoItem}]
  BY DEF TypeInv, TypeOK
<1>3. \A v \in Worker : IF v = w THEN pc'[v] = where /\ item'[v] = what
                                 ELSE pc'[v] = pc[v] /\ item'[v] = item[v]
  BY <1>1, <1>2
<1>4. PlaceInv'
  BY <1>3 DEF PlaceInv, TypeInv, SameCommand
<1>5. \A v \in Worker : pc'[v] \in {"work", "send"} <=> item'[v] # NoItem
  BY <1>3 DEF TypeInv, TypeOK
<1> QED BY <1>1, <1>2, <1>4, <1>5 DEF SameCommand

\* A goroutine fails or ends its loop, or has let go of its item.
LEMMA LetsGo ==
    ASSUME TypeInv, SameCommand, NEW w \in Worker, NEW where \in {"take", "done", "failed"},
           Become(w, where, NoItem)
    PROVE  /\ pc' \in [Worker' -> PCs] /\ item' \in [Worker' -> Object \cup {NoItem}]
           /\ \A v \in Worker' : pc'[v] \in {"work", "send"} <=> item'[v] # NoItem
           /\ PlaceInv'
<1>1. where \in PCs /\ where \notin {"work", "send", "fetch"}
  BY DEF PCs
<1> QED BY <1>1, Becomes

\* The initial state has the right types: every goroutine is at the top of its
\* loop and the channels of the chain are empty.
THEOREM InitType == Init => TypeInv
<1> SUFFICES ASSUME Init PROVE TypeInv
  OBVIOUS
<1>1. /\ chan \in [Stages -> Seq(Object)] /\ unsent \in [Worker -> SUBSET Object]
      /\ \A s \in Stages : chan[s] = <<>> /\ Len(chan[s]) = 0
  BY DEF Init
<1>2. PlaceInv
  BY DEF Init, PlaceInv
<1>3. /\ pc \in [Worker -> PCs] /\ item \in [Worker -> Object \cup {NoItem}]
      /\ \A w \in Worker : pc[w] \notin {"work", "send"} /\ item[w] = NoItem
  BY DEF Init, PCs
<1>4. \A s \in Stages : Len(chan[s]) <= Capacity[s]
  BY <1>1, ChainFacts DEF Init
<1> QED BY <1>1, <1>2, <1>3, <1>4 DEF Init, TypeInv, TypeOK

\* A goroutine that receives an item handles it as its stage does.
LEMMA Accepts ==
    ASSUME TypeInv, SameCommand, NEW w \in Worker, NEW o \in Object, Accept(w, o)
    PROVE  /\ pc' \in [Worker' -> PCs] /\ item' \in [Worker' -> Object \cup {NoItem}]
           /\ \A v \in Worker' : pc'[v] \in {"work", "send"} <=> item'[v] # NoItem
           /\ PlaceInv'
<1> DEFINE where == After(Stage[w], o)
           what == IF where = "take" THEN NoItem ELSE o
<1>1. command \in Command /\ Stage[w] \in Stages /\ o # NoItem
  BY ChainFacts DEF TypeInv, TypeOK
<1>2. /\ where \in {"take", "work", "send"}
      /\ where = "work" => Kind[Stage[w]] \in {"clone", "delete"}
      /\ where = "send" => Stage[w] # Last
  BY <1>1, AfterCases
<1>3. /\ where \in PCs /\ where # "fetch" /\ what \in Object \cup {NoItem}
      /\ where \in {"work", "send"} <=> what # NoItem
  BY <1>1, <1>2 DEF PCs
<1>4. Become(w, where, what)
  BY DEF Accept
<1> HIDE DEF where, what
<1> QED BY <1>2, <1>3, <1>4, Becomes

\* Every step keeps the types: no channel exceeds its capacity, a goroutine has
\* an item exactly while it works on it or sends it, and none is sent behind the
\* last stage.
THEOREM NextType == TypeInv /\ [Next]_vars => TypeInv'
<1> SUFFICES ASSUME TypeInv, [Next]_vars PROVE TypeInv'
  OBVIOUS
<1> USE DEF bucket
<1>0. /\ SameCommand /\ command \in Command
      /\ \A s \in Stages : chan[s] \in Seq(Object) /\ Len(chan[s]) <= Capacity[s]
      /\ \A w \in Worker : Stage[w] \in Stages
      /\ Capacity \in [Stages -> Nat] /\ Stages = 1..Last /\ Last \in Nat
  BY CommandStays, ChainFacts DEF TypeInv, TypeOK
\* Steps that move one goroutine and touch nothing that has a type of its own.
<1>a. ASSUME pc' \in [Worker' -> PCs], item' \in [Worker' -> Object \cup {NoItem}],
             \A v \in Worker' : pc'[v] \in {"work", "send"} <=> item'[v] # NoItem,
             PlaceInv', blobs' \subseteq Object, garbage' \subseteq Object,
             unsent' \in [Worker -> SUBSET Object], erring' \subseteq Worker,
             chan' \in [Stages -> Seq(Object)],
             \A s \in Stages : Len(chan'[s]) <= Capacity[s],
             UNCHANGED <<closed, result>>
      PROVE  TypeInv'
  BY <1>0, <1>a DEF TypeInv, TypeOK, SameCommand
<1>b. /\ blobs \subseteq Object /\ garbage \subseteq Object /\ erring \subseteq Worker
      /\ unsent \in [Worker -> SUBSET Object] /\ chan \in [Stages -> Seq(Object)]
      /\ item \in [Worker -> Object \cup {NoItem}] /\ pc \in [Worker -> PCs]
      /\ \A v \in Worker : pc[v] \in {"work", "send"} => item[v] \in Object
  BY DEF TypeInv, TypeOK
\* Taking the first item of a channel.
<1>c. ASSUME NEW s \in Stages, chan[s] # <<>>, chan' = [chan EXCEPT ![s] = Tail(@)]
      PROVE  /\ Head(chan[s]) \in Object /\ chan' \in [Stages -> Seq(Object)]
             /\ \A t \in Stages : Len(chan'[t]) <= Capacity[t]
  <2>1. /\ Tail(chan[s]) \in Seq(Object) /\ Head(chan[s]) \in Object
        /\ Len(Tail(chan[s])) <= Len(chan[s])
    BY <1>0, <1>c, QueueMembers
  <2>2. Len(Tail(chan[s])) \in Nat /\ Len(chan[s]) \in Nat
    BY <1>0, <2>1
  <2> QED BY <1>0, <1>b, <1>c, <2>1, <2>2
<1>1. ASSUME NEW w \in Worker, ListObjects(w) PROVE TypeInv'
  <2>1. Become(w, "take", NoItem)
    BY <1>1 DEF ListObjects
  <2>2. unsent' \in [Worker -> SUBSET Object]
    BY <1>b, <1>1 DEF ListObjects
  <2> QED BY <1>0, <1>1, <1>a, <1>b, <2>1, <2>2, LetsGo DEF ListObjects
<1>2. ASSUME NEW w \in Worker, ListObjectsFails(w) PROVE TypeInv'
  BY <1>0, <1>2, <1>a, <1>b, LetsGo DEF ListObjectsFails, Fail
<1>3. ASSUME NEW w \in Worker, PassOnListed(w) PROVE TypeInv'
  <2>1. PICK o \in unsent[w] :
           unsent' = [unsent EXCEPT ![w] = unsent[w] \ {o}] /\ Become(w, "send", o)
    BY <1>3 DEF PassOnListed
  <2>2. o \in Object /\ o # NoItem /\ unsent' \in [Worker -> SUBSET Object]
    BY <1>0, <1>b, <2>1, ChainFacts
  <2>3. Stage[w] # Last /\ "send" \in PCs
    BY <1>0, <1>3, ChainFacts DEF PassOnListed, PCs
  <2> QED BY <1>0, <1>3, <1>a, <1>b, <2>1, <2>2, <2>3, Becomes DEF PassOnListed
<1>4. ASSUME NEW w \in Worker, ListingDone(w) PROVE TypeInv'
  BY <1>0, <1>4, <1>a, <1>b, LetsGo DEF ListingDone
<1>5. ASSUME NEW w \in Worker, Receive(w) PROVE TypeInv'
  <2>1. Stage[w] - 1 \in Stages
    BY <1>0, <1>5 DEF Receive
  <2> QED BY <1>0, <1>5, <1>a, <1>b, <1>c, <2>1, Accepts DEF Receive
<1>6. ASSUME NEW w \in Worker, ParseFails(w) PROVE TypeInv'
  <2>1. Stage[w] - 1 \in Stages
    <3>1. Stage[w] # 1
      BY <1>0, <1>6, ChainFacts DEF ParseFails
    <3> QED BY <1>0, <3>1
  <2> QED BY <1>0, <1>6, <1>a, <1>b, <1>c, <2>1, LetsGo DEF ParseFails, Fail
<1>7. ASSUME NEW w \in Worker, LoopEnds(w) PROVE TypeInv'
  BY <1>0, <1>7, <1>a, <1>b, LetsGo DEF LoopEnds
<1>8. ASSUME NEW w \in Worker, Send(w) PROVE TypeInv'
  <2> DEFINE s == Stage[w]
  <2>1. /\ s \in Stages /\ item[w] \in Object /\ Len(chan[s]) < Capacity[s]
        /\ chan' = [chan EXCEPT ![s] = Append(chan[s], item[w])]
    BY <1>0, <1>b, <1>8 DEF Send
  <2>2. /\ Append(chan[s], item[w]) \in Seq(Object)
        /\ Len(Append(chan[s], item[w])) = Len(chan[s]) + 1 /\ Len(chan[s]) \in Nat
    BY <1>0, <2>1, QueueMembers
  <2>3. Len(chan[s]) + 1 <= Capacity[s]
    BY <1>0, <2>1, <2>2
  <2>4. chan' \in [Stages -> Seq(Object)] /\ \A t \in Stages : Len(chan'[t]) <= Capacity[t]
    BY <1>0, <1>b, <2>1, <2>2, <2>3
  <2> HIDE DEF s
  <2> QED BY <1>0, <1>8, <1>a, <1>b, <2>4, LetsGo DEF Send
<1>9. ASSUME NEW w \in Worker, GiveUp(w) PROVE TypeInv'
  <2>1. erring' \subseteq Worker
    BY <1>9, <1>b DEF GiveUp
  <2>2. Become(w, "take", NoItem) \/ Become(w, "failed", NoItem)
    BY <1>9 DEF GiveUp, Fail
  <2> QED BY <1>0, <1>9, <1>a, <1>b, <2>1, <2>2, LetsGo DEF GiveUp
<1>10. ASSUME NEW w \in Worker, NEW v \in Worker, HandOver(w, v) PROVE TypeInv'
  <2> DEFINE where == After(Stage[v], item[w])
             what == IF where = "take" THEN NoItem ELSE item[w]
  <2>1. /\ Stage[v] = Stage[w] + 1 /\ w # v /\ item[w] \in Object /\ item[w] # NoItem
    BY <1>0, <1>b, <1>10, ChainFacts DEF HandOver
  <2>2. /\ where \in {"take", "work", "send"}
        /\ where = "work" => Kind[Stage[v]] \in {"clone", "delete"}
        /\ where = "send" => Stage[v] # Last
    BY <1>0, AfterCases
  <2>3. /\ pc' = [pc EXCEPT ![w] = "take", ![v] = where]
        /\ item' = [item EXCEPT ![w] = NoItem, ![v] = what]
    BY <1>10, <2>1 DEF HandOver
  <2>4. /\ where \in PCs /\ where # "fetch" /\ what \in Object \cup {NoItem}
        /\ where \in {"work", "send"} <=> what # NoItem
        /\ "take" \in PCs
    BY <2>1, <2>2 DEF PCs
  <2> HIDE DEF where, what
  <2>5. /\ pc' \in [Worker -> PCs] /\ item' \in [Worker -> Object \cup {NoItem}]
        /\ pc'[v] = where /\ item'[v] = what /\ pc'[w] = "take" /\ item'[w] = NoItem
        /\ \A x \in Worker \ {v, w} : pc'[x] = pc[x] /\ item'[x] = item[x]
    <3>1. pc' \in [Worker -> PCs] /\ item' \in [Worker -> Object \cup {NoItem}]
      BY <1>b, <2>3, <2>4
    <3>2. pc'[v] = where /\ pc'[w] = "take" /\ \A x \in Worker \ {v, w} : pc'[x] = pc[x]
      BY <1>b, <2>1, <2>3
    <3>3. /\ item'[v] = what /\ item'[w] = NoItem
          /\ \A x \in Worker \ {v, w} : item'[x] = item[x]
      BY <1>b, <2>1, <2>3
    <3> QED BY <3>1, <3>2, <3>3
  <2>6. ASSUME NEW x \in Worker PROVE pc'[x] \in {"work", "send"} <=> item'[x] # NoItem
    <3>1. CASE x = v
      BY <2>4, <2>5, <3>1
    <3>2. CASE x = w
      BY <2>5, <3>2
    <3>3. CASE x \notin {v, w}
      BY <2>5, <3>3 DEF TypeInv, TypeOK
    <3> QED BY <3>1, <3>2, <3>3
  <2>7. PlaceInv'
    BY <1>0, <2>2, <2>4, <2>5 DEF PlaceInv, TypeInv, SameCommand
  <2> QED BY <1>0, <1>10, <1>a, <1>b, <2>5, <2>6, <2>7 DEF HandOver, SameCommand
<1>11. ASSUME NEW w \in Worker, CopyObject(w) PROVE TypeInv'
  <2>1. /\ item[w] \in Object /\ item[w] # NoItem /\ Stage[w] # Last /\ "send" \in PCs
    BY <1>0, <1>b, <1>11, ChainFacts DEF CopyObject, PCs
  <2>2. garbage' \subseteq Object /\ erring' \subseteq Worker /\ Become(w, "send", item[w])
    BY <1>b, <1>11, <2>1 DEF CopyObject
  <2> QED BY <1>0, <1>11, <1>a, <1>b, <2>1, <2>2, Becomes DEF CopyObject
<1>12. ASSUME NEW w \in Worker, CopyObjectFails(w) PROVE TypeInv'
  <2>1. garbage' \subseteq Object
    BY <1>b, <1>12 DEF CopyObjectFails
  <2> QED BY <1>0, <1>12, <1>a, <1>b, <2>1, LetsGo DEF CopyObjectFails, Fail
<1>13. ASSUME NEW w \in Worker, DeleteObject(w) \/ DeleteObjectFails(w) PROVE TypeInv'
  <2>1. blobs' \subseteq Object /\ garbage' \subseteq Object
    BY <1>b, <1>13 DEF DeleteObject, DeleteObjectFails, Remove
  <2>2. Become(w, "take", NoItem) \/ Become(w, "failed", NoItem)
    BY <1>13 DEF DeleteObject, DeleteObjectFails, Fail
  <2> QED BY <1>0, <1>13, <1>a, <1>b, <2>1, <2>2, LetsGo
             DEF DeleteObject, DeleteObjectFails
<1>14. ASSUME NEW s \in Stages, Close(s) PROVE TypeInv'
  BY <1>0, <1>14 DEF Close, TypeInv, TypeOK, PlaceInv, SameCommand
<1>15. CASE Return
  BY <1>0, <1>15 DEF Return, TypeInv, TypeOK, PlaceInv, SameCommand
<1>16. CASE UNCHANGED vars
  BY <1>0, <1>16 DEF vars, TypeInv, TypeOK, PlaceInv, SameCommand
<1> QED
  BY <1>1, <1>2, <1>3, <1>4, <1>5, <1>6, <1>7, <1>8, <1>9, <1>10, <1>11, <1>12, <1>13,
     <1>14, <1>15, <1>16
     DEF Next, Step

------------------------------------------------------------------------------
(* What an object has passed                                               *)

\* A stage of kind k is at s or before it.
Passed(s, k) == \E t \in Stages : t <= s /\ Kind[t] = k

\* o may be where things are that have gone through stage s of gc, when there
\* are these copies.
Fit(copies, s, o) ==
    /\ Passed(s, "filter") => o \notin InUse
    /\ Passed(s, "clone") => o \in copies

\* Everything on its way has been filtered and copied by the stages behind it,
\* so nothing is deleted that is in use or has no copy, and nothing in use is
\* copied.
PassedInv ==
    Source = "blobs" =>
        /\ \A s \in Stages : \A o \in Range(chan[s]) : Fit(garbage, s, o)
        /\ \A w \in Worker : /\ pc[w] = "send" => Fit(garbage, Stage[w], item[w])
                             /\ pc[w] = "work" => Fit(garbage, Stage[w] - 1, item[w])
        /\ Object \ blobs \subseteq garbage
        /\ garbage \cap InUse = {}

\* One stage further on.
LEMMA PassedNext ==
    ASSUME command \in Command, NEW s \in Stages, NEW k
    PROVE  Passed(s, k) <=> Passed(s - 1, k) \/ Kind[s] = k
<1>1. Stages \subseteq Int
  BY ChainFacts
<1>2. \A t \in Stages : t <= s <=> t <= s - 1 \/ t = s
  BY <1>1
<1> QED BY <1>1, <1>2 DEF Passed

\* What a goroutine of stage s passes on without work has gone through s.
LEMMA FitSent ==
    ASSUME command \in Command, NEW s \in Stages, NEW o, NEW copies, Fit(copies, s - 1, o), After(s, o) = "send"
    PROVE  Fit(copies, s, o)
  BY AfterCases, PassedNext DEF Fit

\* What has just been listed.
LEMMA FitListed ==
    ASSUME command \in Command, NEW o, NEW copies PROVE Fit(copies, 1, o)
<1>1. Stages \subseteq Int /\ 1 \in Stages /\ \A t \in Stages : t <= 1 => t = 1
  BY ChainFacts
<1>2. Kind[1] = "list"
  BY <1>1, ChainFacts
<1> QED BY <1>1, <1>2 DEF Fit, Passed

\* Copies stay where they are.
LEMMA FitStays ==
    ASSUME garbage \subseteq garbage', NEW s, NEW o, Fit(garbage, s, o)
    PROVE  Fit(garbage', s, o)
  BY DEF Fit

\* A step that puts things only where they fit.
LEMMA PassedKept ==
    ASSUME TypeInv, SameCommand, PassedInv, Source = "blobs", garbage \subseteq garbage',
           garbage' \cap InUse = {}, Object \ blobs' \subseteq garbage',
           \A s \in Stages : \A o \in Range(chan'[s]) : o \in Range(chan[s]) \/ Fit(garbage', s, o),
           \A w \in Worker :
              \/ pc'[w] \notin {"send", "work"}
              \/ pc'[w] = pc[w] /\ item'[w] = item[w]
              \/ pc'[w] = "send" /\ Fit(garbage', Stage[w], item'[w])
              \/ pc'[w] = "work" /\ Fit(garbage', Stage[w] - 1, item'[w])
    PROVE  PassedInv'
<1>1. \A s \in Stages : \A o \in Range(chan'[s]) : Fit(garbage', s, o)
  BY FitStays DEF PassedInv
<1>2. \A w \in Worker : /\ pc'[w] = "send" => Fit(garbage', Stage[w], item'[w])
                        /\ pc'[w] = "work" => Fit(garbage', Stage[w] - 1, item'[w])
  BY FitStays DEF PassedInv
<1>3. \A s, k : Passed(s, k)' <=> Passed(s, k)
  BY DEF Passed, SameCommand
<1>4. \A s, o : Fit(garbage, s, o)' <=> Fit(garbage', s, o)
  BY <1>3 DEF Fit
<1> QED BY <1>1, <1>2, <1>4 DEF PassedInv, SameCommand

\* At first nothing is on its way, and nothing has been moved.
LEMMA InitPassed == Init => PassedInv
<1> SUFFICES ASSUME Init, Source = "blobs" PROVE PassedInv
  BY DEF PassedInv
<1>1. \A s \in Stages : Range(chan[s]) = {}
  BY DEF Init, Range
<1>2. \A w \in Worker : pc[w] \in {"fetch", "take"}
  BY DEF Init
<1> QED BY <1>1, <1>2 DEF Init, PassedInv

\* What is received, copied or passed on has passed the stages before; what is
\* deleted has been copied.
LEMMA NextPassed == TypeInv /\ PassedInv /\ [Next]_vars => PassedInv'
<1> SUFFICES ASSUME TypeInv, PassedInv, [Next]_vars, Source = "blobs" PROVE PassedInv'
  BY CommandStays DEF PassedInv, SameCommand
<1> USE DEF bucket
<1>0. /\ SameCommand /\ command \in Command
      /\ \A s \in Stages : chan[s] \in Seq(Object)
      /\ \A w \in Worker : Stage[w] \in Stages
      /\ item \in [Worker -> Object \cup {NoItem}] /\ pc \in [Worker -> PCs]
      /\ Stages = 1..Last /\ Last \in Nat /\ chan \in [Stages -> Seq(Object)]
  BY CommandStays, ChainFacts DEF TypeInv, TypeOK
<1>a. garbage \cap InUse = {} /\ Object \ blobs \subseteq garbage
  BY DEF PassedInv
\* A goroutine moves, the channels lose an item at most.
<1>b. ASSUME NEW w \in Worker, NEW where, NEW what, Become(w, where, what),
             \/ where \notin {"send", "work"}
             \/ where = "send" /\ Fit(garbage', Stage[w], what)
             \/ where = "work" /\ Fit(garbage', Stage[w] - 1, what),
             \A s \in Stages : Range(chan'[s]) \subseteq Range(chan[s]),
             garbage \subseteq garbage', garbage' \cap InUse = {},
             Object \ blobs' \subseteq garbage'
      PROVE  PassedInv'
  <2>1. /\ pc'[w] = where /\ item'[w] = what
        /\ \A v \in Worker \ {w} : pc'[v] = pc[v] /\ item'[v] = item[v]
    BY <1>0, <1>b DEF Become
  <2> QED BY <1>0, <1>b, <2>1, PassedKept
<1>c. ASSUME NEW s \in Stages, chan[s] # <<>>, chan' = [chan EXCEPT ![s] = Tail(@)]
      PROVE  /\ Head(chan[s]) \in Range(chan[s]) /\ Head(chan[s]) \in Object
             /\ \A t \in Stages : Range(chan'[t]) \subseteq Range(chan[t])
  BY <1>0, <1>c, QueueMembers
<1>1. ASSUME NEW w \in Worker,
             \/ ListObjects(w) \/ ListObjectsFails(w) \/ ListingDone(w) \/ LoopEnds(w)
             \/ GiveUp(w)
      PROVE  PassedInv'
  <2>1. PICK where \in {"take", "done", "failed"} : Become(w, where, NoItem)
    BY <1>1 DEF ListObjects, ListObjectsFails, ListingDone, LoopEnds, GiveUp, Fail
  <2>2. UNCHANGED <<blobs, garbage, chan>>
    BY <1>1 DEF ListObjects, ListObjectsFails, ListingDone, LoopEnds, GiveUp
  <2> QED BY <1>a, <1>b, <2>1, <2>2
<1>2. ASSUME NEW w \in Worker, PassOnListed(w) PROVE PassedInv'
  <2>1. PICK o : Become(w, "send", o)
    BY <1>2 DEF PassOnListed
  <2>2. Stage[w] = 1 /\ UNCHANGED <<blobs, garbage, chan>>
    BY <1>2 DEF PassOnListed
  <2>3. Fit(garbage', Stage[w], o)
    BY <1>0, <2>2, FitListed, FitStays
  <2> QED BY <1>a, <1>b, <2>1, <2>2, <2>3
<1>3. ASSUME NEW w \in Worker, Receive(w) PROVE PassedInv'
  <2> DEFINE s == Stage[w]
             o == Head(chan[s - 1])
             where == After(s, o)
  <2>1. /\ s \in Stages /\ s - 1 \in Stages /\ chan[s - 1] # <<>> /\ Accept(w, o)
        /\ chan' = [chan EXCEPT ![s - 1] = Tail(@)] /\ UNCHANGED <<blobs, garbage>>
    BY <1>0, <1>3 DEF Receive
  <2>2. o \in Range(chan[s - 1]) /\ \A t \in Stages : Range(chan'[t]) \subseteq Range(chan[t])
    BY <1>c, <2>1
  <2>3. Fit(garbage, s - 1, o)
    BY <2>1, <2>2 DEF PassedInv
  <2>4. \/ where = "take"
        \/ where = "send" /\ Fit(garbage', s, o)
        \/ where = "work" /\ Fit(garbage', s - 1, o)
    BY <1>0, <2>1, <2>3, AfterCases, FitSent, FitStays
  <2>5. Become(w, where, IF where = "take" THEN NoItem ELSE o)
    BY <2>1 DEF Accept
  <2> HIDE DEF where, o
  <2> QED BY <1>a, <1>b, <2>1, <2>2, <2>4, <2>5
<1>4. ASSUME NEW w \in Worker, ParseFails(w) PROVE PassedInv'
  <2>1. Stage[w] # 1
    BY <1>0, <1>4, ChainFacts DEF ParseFails
  <2>2. /\ Stage[w] - 1 \in Stages /\ chan[Stage[w] - 1] # <<>>
        /\ chan' = [chan EXCEPT ![Stage[w] - 1] = Tail(@)]
        /\ Become(w, "failed", NoItem) /\ UNCHANGED <<blobs, garbage>>
    BY <1>0, <1>4, <2>1 DEF ParseFails, Fail
  <2> QED BY <1>a, <1>b, <1>c, <2>2
<1>5. ASSUME NEW w \in Worker, Send(w) PROVE PassedInv'
  <2> DEFINE s == Stage[w]
  <2>1. /\ s \in Stages /\ pc[w] = "send" /\ item[w] \in Object
        /\ chan' = [chan EXCEPT ![s] = Append(chan[s], item[w])]
        /\ Become(w, "take", NoItem) /\ UNCHANGED <<blobs, garbage>>
    BY <1>0, <1>5 DEF Send, TypeInv, TypeOK
  <2>2. \A t \in Stages : \A o \in Range(chan'[t]) :
           o \in Range(chan[t]) \/ (t = s /\ o = item[w])
    BY <1>0, <2>1, QueueMembers
  <2>3. Fit(garbage', s, item[w])
    BY <1>0, <2>1, FitStays DEF PassedInv
  <2>4. pc'[w] = "take" /\ \A v \in Worker \ {w} : pc'[v] = pc[v] /\ item'[v] = item[v]
    BY <1>0, <2>1 DEF Become
  <2> HIDE DEF s
  <2> QED BY <1>0, <1>a, <2>1, <2>2, <2>3, <2>4, PassedKept
<1>6. ASSUME NEW w \in Worker, NEW v \in Worker, HandOver(w, v) PROVE PassedInv'
  <2> DEFINE s == Stage[v]
             where == After(s, item[w])
  <2>1. /\ s \in Stages /\ s = Stage[w] + 1 /\ w # v /\ pc[w] = "send"
        /\ UNCHANGED <<blobs, garbage, chan>>
        /\ pc' = [pc EXCEPT ![w] = "take", ![v] = where]
        /\ item' = [item EXCEPT ![w] = NoItem,
                                ![v] = IF where = "take" THEN NoItem ELSE item[w]]
    BY <1>0, <1>6 DEF HandOver
  <2>2. s - 1 = Stage[w] /\ Fit(garbage, s - 1, item[w])
    BY <1>0, <2>1 DEF PassedInv
  <2>3. \/ where = "take"
        \/ where = "send" /\ Fit(garbage', s, item[w])
        \/ where = "work" /\ Fit(garbage', s - 1, item[w])
    BY <1>0, <2>1, <2>2, AfterCases, FitSent, FitStays
  <2> HIDE DEF where
  <2>4. /\ pc'[w] = "take" /\ pc'[v] = where /\ (where # "take" => item'[v] = item[w])
        /\ \A x \in Worker \ {v, w} : pc'[x] = pc[x] /\ item'[x] = item[x]
    BY <1>0, <2>1
  <2> QED BY <1>0, <1>a, <2>1, <2>3, <2>4, PassedKept
<1>7. ASSUME NEW w \in Worker, CopyObject(w) \/ CopyObjectFails(w) PROVE PassedInv'
  <2> DEFINE s == Stage[w]
  <2>1. /\ s \in Stages /\ Kind[s] = "clone" /\ pc[w] = "work" /\ UNCHANGED <<blobs, chan>>
        /\ garbage' \in {garbage, garbage \cup {item[w]}}
        /\ \/ Become(w, "send", item[w]) /\ garbage' = garbage \cup {item[w]}
           \/ Become(w, "failed", NoItem)
    BY <1>0, <1>7 DEF CopyObject, CopyObjectFails, Fail
  <2>2. Fit(garbage, s - 1, item[w])
    BY <2>1 DEF PassedInv
  <2>3. Passed(s - 1, "filter")
    BY <1>0, <2>1, FilterBeforeClone DEF Passed
  <2>4. item[w] \notin InUse
    BY <2>2, <2>3 DEF Fit
  <2>5. item[w] \in garbage' => Fit(garbage', s, item[w])
    BY <1>0, <2>1, <2>4 DEF Fit, SameCommand
  <2> QED BY <1>a, <1>b, <2>1, <2>4, <2>5
<1>8. ASSUME NEW w \in Worker, DeleteObject(w) \/ DeleteObjectFails(w) PROVE PassedInv'
  <2>1. PICK where \in {"take", "failed"} : Become(w, where, NoItem)
    BY <1>8 DEF DeleteObject, DeleteObjectFails, Fail
  <2>2. /\ UNCHANGED <<garbage, chan>> /\ pc[w] = "work" /\ Kind[Stage[w]] = "delete"
        /\ blobs' = blobs \ {item[w]} \/ blobs' = blobs
    BY <1>8 DEF DeleteObject, DeleteObjectFails, Remove
  <2>3. Stage[w] = Last /\ Passed(Last - 1, "clone")
    <3>1. Stage[w] = Last
      BY <1>0, <2>2, ChainFacts
    <3>2. PICK t \in Stages : Kind[t] = "clone"
      BY <1>0, FilterBeforeClone
    <3>3. t # Last
      BY <1>0, <3>2, ChainFacts
    <3> QED BY <1>0, <3>1, <3>2, <3>3 DEF Passed
  <2>4. item[w] \in garbage
    BY <2>2, <2>3 DEF PassedInv, Fit
  <2> QED BY <1>a, <1>b, <2>1, <2>2, <2>4
<1>9. ASSUME UNCHANGED <<blobs, garbage, chan, pc, item>> PROVE PassedInv'
  BY <1>0, <1>a, <1>9, PassedKept
<1>10. CASE (\E s \in Stages : Close(s)) \/ Return \/ UNCHANGED vars
  BY <1>9, <1>10 DEF Close, Return, vars
<1> QED
  BY <1>1, <1>2, <1>3, <1>4, <1>5, <1>6, <1>7, <1>8, <1>10 DEF Next, Step

------------------------------------------------------------------------------
(* How the chain ends                                                      *)

SomeFailed == \E w \in Worker : pc[w] = "failed"

\* A channel is closed behind goroutines that have ended; one that ended well
\* has left nothing behind in front of it; an error is kept by the goroutine
\* that saw it, or another one had failed before; the command returns last.
EndInv ==
    /\ \A s \in closed : Ended(s)
    /\ \A w \in Worker :
          pc[w] = "done" =>
             IF Stage[w] = 1 THEN unsent[w] = {}
             ELSE Stage[w] - 1 \in closed /\ chan[Stage[w] - 1] = <<>>
    /\ erring # {} => SomeFailed
    /\ result # "running" => \A w \in Worker : Over(w)
    /\ result = "ok" => ~SomeFailed

\* The context is done only after some goroutine has failed.
LEMMA CancelledByFailure ==
    ASSUME command \in Command, NEW s, Cancelled(s) PROVE SomeFailed
  BY DEF Cancelled, CommandCancelled, FailureSeen, Failed, SomeFailed, Of

\* A goroutine moves that has not ended, takes from the channel before it or
\* sends to the one behind it.
LEMMA EndKept ==
    ASSUME TypeInv, SameCommand, EndInv, NEW w \in Worker, ~Over(w), NEW where, NEW what,
           Become(w, where, what), UNCHANGED <<closed, result>>,
           erring' # {} => SomeFailed,
           \A v \in Worker \ {w} : unsent'[v] = unsent[v],
           \A s \in Stages \ {Stage[w]} : chan[s] = <<>> => chan'[s] = <<>>,
           where = "done" => IF Stage[w] = 1 THEN unsent'[w] = {}
                             ELSE Stage[w] - 1 \in closed /\ chan'[Stage[w] - 1] = <<>>
    PROVE  EndInv' /\ (SomeFailed => SomeFailed') /\ (where = "failed" => SomeFailed')
<1>0. /\ pc \in [Worker -> PCs] /\ Stages = 1..Last /\ Last \in Nat
      /\ \A v \in Worker : Stage[v] \in Stages
  BY ChainFacts DEF TypeInv, TypeOK
<1>1. pc'[w] = where /\ \A v \in Worker \ {w} : pc'[v] = pc[v]
  BY <1>0 DEF Become
<1>2. /\ SomeFailed => SomeFailed'
      /\ where = "failed" => SomeFailed'
  BY <1>1 DEF SomeFailed, Over, SameCommand
<1>3. \A s \in closed : Ended(s)'
  <2>1. ASSUME NEW s \in closed PROVE Ended(s)'
    <3>1. Ended(s) /\ w \notin Of(s)
      BY DEF EndInv, Ended
    <3>2. Of(s)' = Of(s)
      BY DEF Of, SameCommand
    <3> QED BY <1>1, <3>1, <3>2 DEF Ended, Over, Of
  <2> QED BY <2>1
<1>4. Stage[w] \notin closed
  BY DEF EndInv, Ended, Of
<1>5. ASSUME NEW v \in Worker, pc'[v] = "done"
      PROVE  IF Stage[v] = 1 THEN unsent'[v] = {}
             ELSE Stage[v] - 1 \in closed /\ chan'[Stage[v] - 1] = <<>>
  <2>1. CASE v = w
    BY <1>1, <1>5, <2>1
  <2>2. CASE v # w
    <3>1. IF Stage[v] = 1 THEN unsent[v] = {}
          ELSE Stage[v] - 1 \in closed /\ chan[Stage[v] - 1] = <<>>
      BY <1>1, <1>5, <2>2 DEF EndInv
    <3>2. Stage[v] # 1 => Stage[v] - 1 \in Stages \ {Stage[w]}
      BY <1>0, <1>4, <3>1
    <3> QED BY <2>2, <3>1, <3>2
  <2> QED BY <2>1, <2>2
<1>6. result = "running"
  BY DEF EndInv
<1> QED BY <1>2, <1>3, <1>5, <1>6 DEF EndInv, SameCommand

\* At first nothing has ended.
LEMMA InitEnd == Init => EndInv
  BY DEF Init, EndInv, SomeFailed

\* A goroutine ends well only at the end of its input, which does not come
\* back, and one that fails stays so.
LEMMA NextEnd ==
    TypeInv /\ EndInv /\ [Next]_vars => EndInv' /\ (SomeFailed => SomeFailed')
<1> SUFFICES ASSUME TypeInv, EndInv, [Next]_vars PROVE EndInv' /\ (SomeFailed => SomeFailed')
  OBVIOUS
<1> USE DEF bucket
<1>0. /\ SameCommand /\ command \in Command
      /\ Stages = 1..Last /\ Last \in Nat /\ chan \in [Stages -> Seq(Object)]
      /\ \A w \in Worker : Stage[w] \in Stages
      /\ unsent \in [Worker -> SUBSET Object]
      /\ erring # {} => SomeFailed
      /\ pc \in [Worker -> PCs]
  BY CommandStays, ChainFacts DEF TypeInv, TypeOK, EndInv
<1>a. ASSUME NEW s \in Stages, chan' = [chan EXCEPT ![s] = Tail(@)], chan[s] # <<>>
      PROVE  \A t \in Stages : chan[t] = <<>> => chan'[t] = <<>>
  BY <1>0, <1>a
<1>1. ASSUME NEW w \in Worker, ListObjects(w) PROVE EndInv' /\ (SomeFailed => SomeFailed')
  BY <1>0, <1>1, EndKept DEF ListObjects, Over
<1>2. ASSUME NEW w \in Worker, ListObjectsFails(w)
      PROVE  EndInv' /\ (SomeFailed => SomeFailed')
  BY <1>0, <1>2, EndKept DEF ListObjectsFails, Fail, Over
<1>3. ASSUME NEW w \in Worker, PassOnListed(w) PROVE EndInv' /\ (SomeFailed => SomeFailed')
  BY <1>0, <1>3, EndKept DEF PassOnListed, Over
<1>4. ASSUME NEW w \in Worker, ListingDone(w) PROVE EndInv' /\ (SomeFailed => SomeFailed')
  BY <1>0, <1>4, EndKept DEF ListingDone, Over
<1>5. ASSUME NEW w \in Worker, Receive(w) PROVE EndInv' /\ (SomeFailed => SomeFailed')
  <2>1. Stage[w] - 1 \in Stages
    BY <1>0, <1>5 DEF Receive
  <2>2. After(Stage[w], Head(chan[Stage[w] - 1])) # "done"
    BY <1>0, AfterCases
  <2> QED BY <1>0, <1>5, <1>a, <2>1, <2>2, EndKept DEF Receive, Accept, Over
<1>6. ASSUME NEW w \in Worker, ParseFails(w) PROVE EndInv' /\ (SomeFailed => SomeFailed')
  <2>1. Stage[w] - 1 \in Stages
    <3>1. Stage[w] # 1
      BY <1>0, <1>6, ChainFacts DEF ParseFails
    <3> QED BY <1>0, <3>1
  <2> QED BY <1>0, <1>6, <1>a, <2>1, EndKept DEF ParseFails, Fail, Over
<1>7. ASSUME NEW w \in Worker, LoopEnds(w) PROVE EndInv' /\ (SomeFailed => SomeFailed')
  <2>1. PICK where \in {"done", "failed"} : Become(w, where, NoItem)
    BY <1>7 DEF LoopEnds
  <2>2. /\ Stage[w] # 1 /\ ~Over(w) /\ UNCHANGED <<unsent, erring, chan, closed, result>>
        /\ Stage[w] - 1 \in closed /\ chan[Stage[w] - 1] = <<>>
    BY <1>0, <1>7 DEF LoopEnds, Over
  <2> QED BY <1>0, <2>1, <2>2, EndKept
<1>8. ASSUME NEW w \in Worker, Send(w) PROVE EndInv' /\ (SomeFailed => SomeFailed')
  BY <1>0, <1>8, EndKept DEF Send, Over
<1>9. ASSUME NEW w \in Worker, GiveUp(w) PROVE EndInv' /\ (SomeFailed => SomeFailed')
  <2>1. SomeFailed
    BY <1>0, <1>9, CancelledByFailure DEF GiveUp
  <2> QED BY <1>0, <1>9, <2>1, EndKept DEF GiveUp, Fail, Over
<1>10. ASSUME NEW w \in Worker, NEW v \in Worker, HandOver(w, v)
       PROVE  EndInv' /\ (SomeFailed => SomeFailed')
  <2> DEFINE where == After(Stage[w] + 1, item[w])
  <2>1. /\ w # v /\ pc[w] = "send" /\ pc[v] = "take" /\ Stage[w] + 1 \in Stages
        /\ UNCHANGED <<unsent, erring, chan, closed, result>>
        /\ pc' = [pc EXCEPT ![w] = "take", ![v] = where]
    BY <1>0, <1>10 DEF HandOver
  <2>2. where \in {"take", "work", "send"}
    BY <1>0, <2>1, AfterCases
  <2> HIDE DEF where
  <2>3. \A x \in Worker : /\ pc'[x] = "done" <=> pc[x] = "done"
                          /\ pc'[x] = "failed" <=> pc[x] = "failed"
    BY <1>0, <2>1, <2>2
  <2> QED BY <1>0, <2>1, <2>3 DEF EndInv, SomeFailed, Ended, Over, Of, SameCommand
<1>11. ASSUME NEW w \in Worker, CopyObject(w) \/ CopyObjectFails(w)
       PROVE  EndInv' /\ (SomeFailed => SomeFailed')
  <2>1. erring' # {} => SomeFailed
    BY <1>0, <1>11 DEF CopyObject, CopyObjectFails
  <2> QED BY <1>0, <1>11, <2>1, EndKept DEF CopyObject, CopyObjectFails, Fail, Over
<1>12. ASSUME NEW w \in Worker, DeleteObject(w) \/ DeleteObjectFails(w)
       PROVE  EndInv' /\ (SomeFailed => SomeFailed')
  BY <1>0, <1>12, EndKept DEF DeleteObject, DeleteObjectFails, Fail, Over
<1>13. ASSUME NEW s \in Stages, Close(s) PROVE EndInv' /\ (SomeFailed => SomeFailed')
  <2>1. /\ Ended(s) /\ closed' = closed \cup {s}
        /\ UNCHANGED <<pc, unsent, erring, chan, result>>
    BY <1>0, <1>13 DEF Close, SameTask
  <2> QED BY <1>0, <2>1 DEF EndInv, SomeFailed, Ended, Over, Of, SameCommand
<1>14. CASE Return
  <2>1. /\ \A w \in Worker : w \in Of(Stage[w]) /\ Stage[w] \in Stages
        /\ UNCHANGED <<pc, unsent, erring, chan, closed>>
        /\ \A s \in Stages : Ended(s)
        /\ result' = "ok" => \A s \in Stages : ~Failed(s)
    BY <1>0, <1>14 DEF Return, Of
  <2>2. \A w \in Worker : Over(w)
    BY <2>1 DEF Ended
  <2>3. result' = "ok" => ~SomeFailed
    BY <2>1 DEF Failed, SomeFailed
  <2> QED BY <1>0, <2>1, <2>2, <2>3 DEF EndInv, SomeFailed, Ended, Over, Of, SameCommand
<1>15. CASE UNCHANGED vars
  BY <1>0, <1>15 DEF vars, EndInv, SomeFailed, Ended, Over, Of, SameCommand
<1> QED
  BY <1>1, <1>2, <1>3, <1>4, <1>5, <1>6, <1>7, <1>8, <1>9, <1>10, <1>11, <1>12, <1>13,
     <1>14, <1>15 DEF Next, Step
------------------------------------------------------------------------------
(* Where an object is                                                      *)

\* What the command deletes from.
Target == IF Source = "blobs" THEN blobs ELSE garbage

\* Nothing is left to do about o.
Settled(o) == o \notin Target \/ (Source = "blobs" /\ o \in InUse)

\* Goroutine w is yet to list o, has listed it, or has it in hand.
Has(w, o) ==
    \/ Stage[w] = 1 /\ pc[w] = "fetch" /\ o \in Share[w]
    \/ Stage[w] = 1 /\ pc[w] # "fetch" /\ o \in unsent[w]
    \/ item[w] = o

InChannel(o) == \E s \in Stages \ {Last} : o \in Range(chan[s])

\* Nothing is lost on the way unless some goroutine fails.
FlowInv ==
    SomeFailed \/ \A o \in Object : \/ Settled(o) \/ InChannel(o)
                                    \/ \E w \in Worker : Has(w, o)

\* At first each object is in the share of a list goroutine.
LEMMA InitFlow == Init => FlowInv
<1> SUFFICES ASSUME Init, NEW o \in Object PROVE \E w \in Worker : Has(w, o)
  BY DEF FlowInv
<1>1. PICK w \in Worker : Stage[w] = 1 /\ o \in Share[w]
  BY ListingIsShared DEF Init
<1> QED BY <1>1 DEF Init, Has

\* A step of goroutine w, which lets go of nothing it had, and takes nothing
\* from a channel, that is not settled or elsewhere after it.
LEMMA FlowKept ==
    ASSUME SameCommand, FlowInv, SomeFailed => SomeFailed', NEW w \in Worker,
           \A v \in Worker \ {w} : pc'[v] = pc[v] /\ item'[v] = item[v] /\ unsent'[v] = unsent[v],
           Target' \subseteq Target,
           \A o \in Object : Has(w, o) => SomeFailed' \/ Settled(o)' \/ InChannel(o)' \/ Has(w, o)',
           \A o \in Object : InChannel(o) =>
               SomeFailed' \/ Settled(o)' \/ InChannel(o)' \/ Has(w, o)'
    PROVE  FlowInv'
<1> SUFFICES ASSUME ~SomeFailed', NEW o \in Object
             PROVE  Settled(o)' \/ InChannel(o)' \/ \E v \in Worker' : Has(v, o)'
  BY DEF FlowInv
<1>1. Worker' = Worker
  BY DEF SameCommand
<1>2. CASE Settled(o)
  BY <1>2 DEF Settled, SameCommand
<1>3. CASE InChannel(o)
  BY <1>1, <1>3
<1>4. ASSUME NEW v \in Worker, Has(v, o)
      PROVE  Settled(o)' \/ InChannel(o)' \/ \E x \in Worker' : Has(x, o)'
  <2>1. CASE v = w
    BY <1>1, <1>4, <2>1
  <2>2. CASE v # w
    <3>1. Has(v, o)'
      BY <1>4, <2>2 DEF Has, SameCommand
    <3> QED BY <1>1, <3>1
  <2> QED BY <2>1, <2>2
<1> QED BY <1>2, <1>3, <1>4 DEF FlowInv

\* Each step moves an object one place on, settles it, or is that of a
\* goroutine that fails.
LEMMA NextFlow == TypeInv /\ EndInv /\ FlowInv /\ [Next]_vars => FlowInv'
<1> SUFFICES ASSUME TypeInv, EndInv, FlowInv, [Next]_vars PROVE FlowInv'
  OBVIOUS
<1> USE DEF bucket
<1>0. /\ SameCommand /\ command \in Command /\ (SomeFailed => SomeFailed')
      /\ Stages = 1..Last /\ Last \in Nat /\ chan \in [Stages -> Seq(Object)]
      /\ \A w \in Worker : Stage[w] \in Stages
      /\ unsent \in [Worker -> SUBSET Object]
      /\ item \in [Worker -> Object \cup {NoItem}] /\ pc \in [Worker -> PCs]
      /\ NoItem \notin Object
      /\ \A w \in Worker : pc[w] \in {"work", "send"} <=> item[w] # NoItem
  BY CommandStays, NextEnd, ChainFacts DEF TypeInv, TypeOK
\* One goroutine moves.
<1>a. ASSUME NEW w \in Worker, NEW where, NEW what, Become(w, where, what)
      PROVE  /\ pc'[w] = where /\ item'[w] = what
             /\ \A v \in Worker \ {w} : pc'[v] = pc[v] /\ item'[v] = item[v]
  BY <1>0, <1>a DEF Become
\* A goroutine fails.
<1>b. ASSUME NEW w \in Worker, Fail(w) PROVE FlowInv'
  BY <1>0, <1>a, <1>b DEF Fail, FlowInv, SomeFailed, SameCommand
\* The channels and what is deleted from stay as they are.
<1>c. ASSUME UNCHANGED <<chan, blobs>>, garbage' = garbage \/ Source = "blobs"
      PROVE  Target' = Target /\ \A o : InChannel(o)' <=> InChannel(o)
  BY <1>0, <1>c DEF Target, InChannel, SameCommand
\* The head of the channel before stage s is taken.
<1>d. ASSUME NEW s \in Stages, chan[s] # <<>>, chan' = [chan EXCEPT ![s] = Tail(@)]
      PROVE  /\ Head(chan[s]) \in Object
             /\ \A o : InChannel(o) => InChannel(o)' \/ o = Head(chan[s])
  <2>1. /\ Head(chan[s]) \in Object
        /\ Range(chan[s]) = {Head(chan[s])} \cup Range(Tail(chan[s]))
    BY <1>0, <1>d, QueueMembers
  <2>2. \A t \in Stages : chan'[t] = IF t = s THEN Tail(chan[s]) ELSE chan[t]
    BY <1>0, <1>d
  <2> QED BY <1>0, <2>1, <2>2 DEF InChannel, SameCommand
<1>1. ASSUME NEW w \in Worker, ListObjects(w) PROVE FlowInv'
  <2>1. /\ pc[w] = "fetch" /\ Stage[w] = 1 /\ item[w] = NoItem
        /\ unsent'[w] = Share[w] \cap Target
        /\ \A v \in Worker \ {w} : unsent'[v] = unsent[v]
        /\ Become(w, "take", NoItem) /\ UNCHANGED <<blobs, garbage, chan>>
    BY <1>0, <1>1 DEF ListObjects, Target, TypeInv, PlaceInv
  <2>2. \A o \in Object : Has(w, o) => Settled(o)' \/ Has(w, o)'
    BY <1>0, <1>a, <2>1 DEF Has, Settled, Target, EndInv, SameCommand
  <2> QED BY <1>0, <1>a, <1>c, <2>1, <2>2, FlowKept
<1>2. ASSUME NEW w \in Worker, PassOnListed(w) PROVE FlowInv'
  <2>1. PICK o \in unsent[w] : /\ unsent' = [unsent EXCEPT ![w] = unsent[w] \ {o}]
                               /\ Become(w, "send", o)
    BY <1>2 DEF PassOnListed
  <2>2. /\ pc[w] = "take" /\ item[w] = NoItem /\ UNCHANGED <<blobs, garbage, chan>>
        /\ unsent'[w] = unsent[w] \ {o} /\ \A v \in Worker \ {w} : unsent'[v] = unsent[v]
    BY <1>0, <1>2, <2>1 DEF PassOnListed
  <2>3. \A x \in Object : Has(w, x) => Has(w, x)'
    BY <1>0, <1>a, <2>1, <2>2 DEF Has, SameCommand
  <2> QED BY <1>0, <1>a, <1>c, <2>1, <2>2, <2>3, FlowKept
<1>3. ASSUME NEW w \in Worker, ListingDone(w) \/ LoopEnds(w) PROVE FlowInv'
  <2>1. PICK where \in {"done", "failed"} : Become(w, where, NoItem)
    BY <1>3 DEF ListingDone, LoopEnds
  <2>2. /\ pc[w] = "take" /\ item[w] = NoItem
        /\ UNCHANGED <<blobs, garbage, chan, unsent>>
    BY <1>0, <1>3 DEF ListingDone, LoopEnds
  <2>3. \A x \in Object : Has(w, x) => Has(w, x)'
    BY <1>0, <1>a, <2>1, <2>2 DEF Has, SameCommand
  <2> QED BY <1>0, <1>a, <1>c, <2>1, <2>2, <2>3, FlowKept
<1>4. ASSUME NEW w \in Worker, Receive(w) PROVE FlowInv'
  <2>1. PICK s \in Stages, o \in Object : s = Stage[w] - 1 /\ o = Head(chan[s])
    <3>1. Stage[w] - 1 \in Stages /\ chan[Stage[w] - 1] \in Seq(Object) /\ chan[Stage[w] - 1] # <<>>
      BY <1>0, <1>4 DEF Receive
    <3> QED BY <3>1, QueueMembers
  <2> DEFINE where == After(s + 1, o)
  <2>2. /\ s + 1 = Stage[w] /\ chan[s] # <<>> /\ pc[w] = "take" /\ item[w] = NoItem
        /\ Become(w, where, IF where = "take" THEN NoItem ELSE o)
        /\ chan' = [chan EXCEPT ![s] = Tail(@)] /\ UNCHANGED <<blobs, garbage, unsent>>
    <3>1. s + 1 = Stage[w]
      BY <1>0, <2>1
    <3>2. Accept(w, o) /\ chan' = [chan EXCEPT ![s] = Tail(@)] /\ chan[s] # <<>>
          /\ pc[w] = "take" /\ UNCHANGED <<blobs, garbage, unsent>>
      BY <1>4, <2>1 DEF Receive
    <3> QED BY <1>0, <3>1, <3>2 DEF Accept
  <2>3. Settled(o)' \/ Has(w, o)'
    <3>1. CASE where = "take"
      <4>1. o \in InUse /\ Kind[s + 1] = "filter"
        BY <1>0, <2>2, <3>1, AfterCases
      <4> QED BY <1>0, <2>2, <4>1, FilterBeforeClone DEF Settled, SameCommand
    <3>2. CASE where # "take"
      BY <1>a, <2>2, <3>2 DEF Has
    <3> QED BY <3>1, <3>2
  <2>4. \A x : InChannel(x) => InChannel(x)' \/ x = o
    BY <1>d, <2>1, <2>2
  <2>5. \A x \in Object : Has(w, x) => Has(w, x)'
    <3>1. pc'[w] # "fetch"
      <4>1. s + 1 \in Stages /\ where # "fetch"
        BY <1>0, <2>2, AfterCases
      <4> HIDE DEF where
      <4> QED BY <1>a, <2>2, <4>1
    <3> QED BY <1>0, <2>2, <3>1 DEF Has, SameCommand
  <2>6. Target' = Target
    BY <1>0, <2>2 DEF Target, SameCommand
  <2> HIDE DEF where
  <2> QED BY <1>0, <1>a, <2>2, <2>3, <2>4, <2>5, <2>6, FlowKept
<1>5. ASSUME NEW w \in Worker, Send(w) PROVE FlowInv'
  <2>1. PICK s \in Stages, o \in Object : s = Stage[w] /\ o = item[w]
    BY <1>0, <1>5 DEF Send
  <2>2. /\ s # Last /\ pc[w] = "send" /\ chan' = [chan EXCEPT ![s] = Append(chan[s], o)]
        /\ Become(w, "take", NoItem) /\ UNCHANGED <<blobs, garbage, unsent>>
    BY <1>0, <1>5, <2>1 DEF Send, TypeInv, PlaceInv
  <2>3. /\ Range(Append(chan[s], o)) = Range(chan[s]) \cup {o}
        /\ \A t \in Stages : chan'[t] = IF t = s THEN Append(chan[s], o) ELSE chan[t]
    BY <1>0, <2>2, QueueMembers
  <2>4. InChannel(o)' /\ \A x : InChannel(x) => InChannel(x)'
    BY <1>0, <2>2, <2>3 DEF InChannel, SameCommand
  <2>5. \A x \in Object : Has(w, x) => Has(w, x)' \/ x = o
    BY <1>0, <1>a, <2>1, <2>2 DEF Has, SameCommand
  <2>6. Target' = Target
    BY <1>0, <2>2 DEF Target, SameCommand
  <2> QED BY <1>0, <1>a, <2>2, <2>4, <2>5, <2>6, FlowKept
<1>6. ASSUME NEW w \in Worker, GiveUp(w) PROVE FlowInv'
  <2>1. SomeFailed
    BY <1>0, <1>6, CancelledByFailure DEF GiveUp
  <2> QED BY <1>0, <2>1 DEF FlowInv
<1>7. ASSUME NEW w \in Worker, NEW v \in Worker, HandOver(w, v) PROVE FlowInv'
  <2>1. PICK s \in Stages, i \in Object : s = Stage[v] /\ i = item[w]
    BY <1>0, <1>7 DEF HandOver
  <2> DEFINE where == After(s, i)
  <2>2. /\ w # v /\ pc[w] = "send" /\ pc[v] = "take" /\ item[v] = NoItem
        /\ UNCHANGED <<blobs, garbage, chan, unsent>>
        /\ pc' = [pc EXCEPT ![w] = "take", ![v] = where]
        /\ item' = [item EXCEPT ![w] = NoItem, ![v] = IF where = "take" THEN NoItem ELSE i]
    BY <1>0, <1>7, <2>1 DEF HandOver
  <2>3. where = "take" => Settled(i)'
    <3>1. where = "take" => i \in InUse /\ Kind[s] = "filter"
      BY <1>0, AfterCases
    <3> QED BY <1>0, <3>1, FilterBeforeClone DEF Settled, SameCommand
  <2>4. where # "fetch"
    BY <1>0, AfterCases
  <2> HIDE DEF where
  <2>5. /\ (where # "take" => item'[v] = i) /\ pc'[v] # "fetch" /\ pc'[w] # "fetch"
        /\ \A x \in Worker \ {v, w} : pc'[x] = pc[x] /\ item'[x] = item[x]
    BY <1>0, <2>2, <2>4
  <2>6. ASSUME NEW o \in Object, NEW x \in Worker, Has(x, o)
        PROVE  Settled(o)' \/ \E y \in Worker : Has(y, o)'
    <3>1. CASE o = i
      BY <2>3, <2>5, <3>1 DEF Has
    <3>2. CASE o # i
      <4>1. Has(x, o)'
        BY <1>0, <2>1, <2>2, <2>5, <2>6, <3>2 DEF Has, SameCommand
      <4> QED BY <4>1
    <3> QED BY <3>1, <3>2
  <2> QED BY <1>0, <1>c, <2>2, <2>6 DEF FlowInv, Settled, SameCommand
<1>8. ASSUME NEW w \in Worker, CopyObject(w) PROVE FlowInv'
  <2>1. /\ Become(w, "send", item[w]) /\ UNCHANGED <<blobs, chan, unsent>>
        /\ pc[w] = "work" /\ Source = "blobs"
    BY <1>0, <1>8, FilterBeforeClone DEF CopyObject
  <2>2. \A x \in Object : Has(w, x) => Has(w, x)'
    BY <1>0, <1>a, <2>1 DEF Has, SameCommand
  <2> QED BY <1>0, <1>a, <1>c, <2>1, <2>2, FlowKept
<1>9. ASSUME NEW w \in Worker, DeleteObject(w) PROVE FlowInv'
  <2>1. /\ Become(w, "take", NoItem) /\ UNCHANGED <<chan, unsent>> /\ pc[w] = "work"
        /\ Target' = Target \ {item[w]}
    BY <1>0, <1>9 DEF DeleteObject, Remove, Target, SameCommand
  <2>2. \A x \in Object : Has(w, x) => Has(w, x)' \/ Settled(x)'
    BY <1>0, <1>a, <2>1 DEF Has, Settled, SameCommand
  <2>3. \A x : InChannel(x)' <=> InChannel(x)
    BY <1>0, <2>1 DEF InChannel, SameCommand
  <2> QED BY <1>0, <1>a, <2>1, <2>2, <2>3, FlowKept
<1>10. ASSUME NEW w \in Worker,
              \/ ListObjectsFails(w) \/ ParseFails(w)
              \/ CopyObjectFails(w) \/ DeleteObjectFails(w)
       PROVE  FlowInv'
  BY <1>b, <1>10 DEF ListObjectsFails, ParseFails, CopyObjectFails, DeleteObjectFails
<1>11. CASE (\E s \in Stages : Close(s)) \/ Return \/ UNCHANGED vars
  <2>1. UNCHANGED <<command, blobs, garbage, pc, item, unsent, chan>>
    BY <1>11 DEF Close, Return, vars
  <2> QED BY <1>0, <2>1
          DEF FlowInv, SomeFailed, Settled, Target, Has, InChannel, SameCommand
<1> QED
  BY <1>1, <1>2, <1>3, <1>4, <1>5, <1>6, <1>7, <1>8, <1>9, <1>10, <1>11 DEF Next, Step
------------------------------------------------------------------------------
(* The theorems                                                            *)

IInv == TypeInv /\ PassedInv /\ EndInv /\ FlowInv

\* The inductive invariant: the types, what an object on its way has passed,
\* how goroutines end, and where each object is.
THEOREM Invariance == Spec => []IInv
<1>1. Init => IInv
  BY InitType, InitPassed, InitEnd, InitFlow DEF IInv
<1>2. IInv /\ [Next]_vars => IInv'
  BY NextType, NextPassed, NextEnd, NextFlow DEF IInv
<1> QED BY <1>1, <1>2, PTL DEF Spec

\* gc deletes an object only when its copy is there, and never one its input
\* mentions, for every chain and whichever requests fail (cloneGarbage passes on
\* the names it has copied, after filterToGarbage).
THEOREM GcDeletesOnlyCopiedGarbage == Spec => []OnlyCopiedGarbageDeleted
<1>1. IInv => OnlyCopiedGarbageDeleted
  BY DEF IInv, TypeInv, PassedInv, OnlyCopiedGarbageDeleted
<1> QED BY <1>1, Invariance, PTL

\* A command that returns without an error has lost no object and no error on
\* the way: gc has moved all garbage, delete_garbage has deleted all of it.
THEOREM CommandSuccessMeansAll == Spec => []SuccessMeansAll
<1>1. ASSUME IInv, result = "ok" PROVE SuccessMeansAll
  <2>0. /\ command \in Command /\ Stages = 1..Last /\ Last \in Nat
        /\ \A s \in Stages : Of(s) # {}
        /\ \A w \in Worker : Stage[w] \in Stages
        /\ NoItem \notin Object /\ InUse \subseteq Object /\ Source \in {"blobs", "garbage"}
        /\ blobs \subseteq Object /\ garbage \subseteq Object
    BY <1>1, ChainFacts DEF IInv, TypeInv, TypeOK
  <2>1. ~SomeFailed /\ \A w \in Worker : pc[w] = "done"
    BY <1>1 DEF IInv, EndInv, Over, SomeFailed
  <2>2. ASSUME NEW o \in Object, InChannel(o) PROVE FALSE
    <3>1. PICK s \in Stages \ {Last} : o \in Range(chan[s])
      BY <2>2 DEF InChannel
    <3>2. s + 1 \in Stages /\ s + 1 # 1
      BY <2>0
    <3>3. PICK w \in Worker : Stage[w] = s + 1
      BY <2>0, <3>2 DEF Of
    <3>4. chan[s + 1 - 1] = <<>> /\ s + 1 - 1 = s
      BY <1>1, <2>0, <2>1, <3>2, <3>3 DEF IInv, EndInv
    <3> QED BY <3>1, <3>4 DEF Range
  <2>3. ASSUME NEW o \in Object, NEW w \in Worker, Has(w, o) PROVE FALSE
    <3>1. item[w] = NoItem
      BY <1>1, <2>1 DEF IInv, TypeInv, TypeOK
    <3>2. Stage[w] = 1 => unsent[w] = {}
      BY <1>1, <2>1 DEF IInv, EndInv
    <3> QED BY <2>0, <2>1, <2>3, <3>1, <3>2 DEF Has
  <2>4. \A o \in Object : Settled(o)
    BY <1>1, <2>1, <2>2, <2>3 DEF IInv, FlowInv
  <2>5. CASE Source = "blobs"
    <3>1. Object \ blobs \subseteq garbage /\ garbage \cap InUse = {}
      BY <1>1, <2>5 DEF IInv, PassedInv
    <3>2. \A o \in Object : o \in blobs => o \in InUse
      BY <2>4, <2>5 DEF Settled, Target
    <3> QED BY <2>0, <2>5, <3>1, <3>2 DEF SuccessMeansAll
  <2>6. CASE Source # "blobs"
    BY <2>0, <2>4, <2>6 DEF SuccessMeansAll, Settled, Target
  <2> QED BY <2>5, <2>6
<1>2. IInv => SuccessMeansAll
  BY <1>1 DEF SuccessMeansAll
<1> QED BY <1>2, Invariance, PTL

\* A step that the bucket or the result shows is one Backups' gc takes: it
\* clones an object, deletes one that was cloned, or ends.
LEMMA StepMoves ==
    ASSUME IInv, [Next]_vars, Source = "blobs"
    PROVE  \/ \E o \in Object : Gc!CloneGarbage(o) \/ Gc!DeleteObject(o)
           \/ Gc!EndGC
           \/ UNCHANGED <<blobs, garbage, result>>
<1> USE DEF bucket
<1>0. /\ SameCommand /\ command \in Command
      /\ garbage \cap InUse = {} /\ Object \ blobs \subseteq garbage
      /\ garbage \subseteq Object /\ blobs \subseteq Object
      /\ \A w \in Worker : ~Over(w) => result = "running"
      /\ \A w \in Worker : pc[w] = "work" => item[w] \in Object
  BY CommandStays, ChainFacts DEF IInv, TypeInv, TypeOK, PassedInv, EndInv
\* What is copied and what is deleted are garbage, which has a copy when it is
\* deleted.
<1>a. ASSUME NEW w \in Worker, pc[w] = "work"
      PROVE  /\ Kind[Stage[w]] = "clone" => item[w] \notin InUse
             /\ Kind[Stage[w]] = "delete" => item[w] \in garbage
  <2>1. Fit(garbage, Stage[w] - 1, item[w]) /\ Stage[w] \in Stages
    BY <1>0, <1>a, ChainFacts DEF IInv, PassedInv
  <2>2. Stages = 1..Last /\ Last \in Nat
    BY <1>0, ChainFacts
  <2>3. ASSUME Kind[Stage[w]] = "clone" PROVE Passed(Stage[w] - 1, "filter")
    BY <1>0, <2>1, <2>2, <2>3, FilterBeforeClone DEF Passed
  <2>4. ASSUME Kind[Stage[w]] = "delete" PROVE Passed(Stage[w] - 1, "clone")
    <3>1. Stage[w] = Last
      BY <1>0, <2>1, <2>4, ChainFacts
    <3>2. PICK t \in Stages : Kind[t] = "clone"
      BY <1>0, FilterBeforeClone
    <3>3. t # Last
      BY <1>0, <3>2, ChainFacts
    <3> QED BY <2>2, <3>1, <3>2, <3>3 DEF Passed
  <2> QED BY <2>1, <2>3, <2>4 DEF Fit
<1>1. ASSUME NEW w \in Worker, CopyObject(w) \/ CopyObjectFails(w)
      PROVE  (\E o \in Object : Gc!CloneGarbage(o)) \/ UNCHANGED <<blobs, garbage, result>>
  <2>1. /\ pc[w] = "work" /\ Kind[Stage[w]] = "clone" /\ UNCHANGED <<blobs, result>>
        /\ garbage' \in {garbage, garbage \cup {item[w]}}
    BY <1>1 DEF CopyObject, CopyObjectFails
  <2>2. item[w] \in Object /\ item[w] \notin InUse /\ result = "running"
    BY <1>0, <1>a, <2>1 DEF Over
  <2>3. CASE garbage' = garbage
    BY <2>1, <2>3
  <2>4. CASE garbage' # garbage
    <3>1. garbage' = garbage \cup {item[w]} /\ item[w] \notin garbage
      BY <2>1, <2>4
    <3>2. Gc!CloneGarbage(item[w])
      BY <1>0, <2>1, <2>2, <3>1
      DEF Gc!CloneGarbage, Gc!Moving, NotCopied, Copied
    <3> QED BY <2>2, <3>2
  <2> QED BY <2>3, <2>4
<1>2. ASSUME NEW w \in Worker, DeleteObject(w) \/ DeleteObjectFails(w)
      PROVE  (\E o \in Object : Gc!DeleteObject(o)) \/ UNCHANGED <<blobs, garbage, result>>
  <2>1. /\ pc[w] = "work" /\ Kind[Stage[w]] = "delete" /\ UNCHANGED <<garbage, result>>
        /\ blobs' \in {blobs, blobs \ {item[w]}}
    BY <1>2 DEF DeleteObject, DeleteObjectFails, Remove
  <2>2. item[w] \in Object /\ item[w] \in garbage /\ result = "running"
    BY <1>0, <1>a, <2>1 DEF Over
  <2>3. CASE blobs' = blobs
    BY <2>1, <2>3
  <2>4. CASE blobs' # blobs
    <3>1. blobs' = blobs \ {item[w]} /\ item[w] \in blobs
      BY <2>1, <2>4
    <3>2. Gc!DeleteObject(item[w])
      BY <1>0, <2>1, <2>2, <3>1
      DEF Gc!DeleteObject, Gc!Moving, NotCopied, Copied
    <3> QED BY <2>2, <3>2
  <2> QED BY <2>3, <2>4
<1>3. ASSUME Return PROVE Gc!EndGC
  <2>1. /\ result = "running" /\ result' # "running" /\ UNCHANGED <<blobs, garbage>>
    BY <1>3 DEF Return
  <2>2. [pc |-> "moving", toClone |-> NotCopied, toDelete |-> Copied] # [pc |-> "off"]
    OBVIOUS
  <2> QED BY <2>1, <2>2 DEF Gc!EndGC, Gc!Idle, Gc!verifyVars
<1>4. ASSUME NEW w \in Worker,
             \/ ListObjects(w) \/ ListObjectsFails(w) \/ PassOnListed(w) \/ ListingDone(w)
             \/ Receive(w) \/ ParseFails(w) \/ LoopEnds(w) \/ Send(w) \/ GiveUp(w)
             \/ \E v \in Worker : HandOver(w, v)
      PROVE  UNCHANGED <<blobs, garbage, result>>
  BY <1>4 DEF ListObjects, ListObjectsFails, PassOnListed, ListingDone, Receive,
              ParseFails, LoopEnds, Send, GiveUp, HandOver
<1>5. ASSUME NEW s \in Stages, Close(s) PROVE UNCHANGED <<blobs, garbage, result>>
  BY <1>5 DEF Close
<1> QED BY <1>1, <1>2, <1>3, <1>4, <1>5 DEF Next, Step, vars

\* The pipeline of gc.go implements the gc of Backups, step by step.
THEOREM GcMovesAsInBackups == Spec => MovesAsInBackups
<1>1. IInv /\ [Next]_vars =>
        [ Source = "blobs" =>
            \/ \E o \in Object : Gc!CloneGarbage(o) \/ Gc!DeleteObject(o)
            \/ Gc!EndGC ]_<<blobs, garbage, result>>
  BY StepMoves
<1> QED BY <1>1, Invariance, PTL DEF Spec, MovesAsInBackups
=============================================================================
