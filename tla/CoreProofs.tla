----------------------------- MODULE CoreProofs -----------------------------
(***************************************************************************)
(* Proofs about the two base classes of src/core: PacketQueue for every    *)
(* set of wirings and sizes, and WorkerThread for every number of workers. *)
(***************************************************************************)
EXTENDS PacketQueue, WorkerThread, FiniteSetTheorems, SequenceTheorems, TLAPS

LEMMA RemoveOne ==
    ASSUME NEW S, IsFiniteSet(S), NEW x \in S
    PROVE  Cardinality(S \ {x}) = Cardinality(S) - 1
BY FS_RemoveElement

USE DEF AllProducers, Producers, Readers, In, Moves

\* The packets in the queue are the last ones pushed, without a gap, and newer
\* than what the readers have.
Numbered ==
    /\ \A i \in 1..Len(queue) : queue[i] = pushed - Len(queue) + i
    /\ taken <= pushed - Len(queue)
    /\ \A r \in AllReaders : seen[r] <= taken

\* Every producer that has seen room for its packet has a place reserved.
Room == Len(queue) + Cardinality(In("push")) < largest + Cardinality(Producers)

\* With readers of newest packets the producer never erases the last one, so the
\* packet get_latest has seen is still there when it takes the mutex, or another
\* reader has taken it.
NotDrained ==
    wiring.latest =>
        /\ \A p \in Producers : ppc[p] = "erase" => queue = <<>> \/ Len(queue) >= 2
        /\ \A r \in Readers : rpc[r] = "latest" => queue # <<>> \/ taken > seen[r]

\* A reader that is the only one is not overtaken.
Alone ==
    (\A q, r \in Readers : q = r) =>
        /\ ~broken
        /\ \A r \in Readers : rpc[r] = "latest" => seen[r] = taken

IInv == TypeOK /\ Numbered /\ Room /\ NotDrained /\ Alone

-----------------------------------------------------------------------------
LEMMA OneProducer ==
    ASSUME TypeOK, wiring.latest
    PROVE  \A p, q \in Producers : p = q
<1>1. IsFiniteSet(Producers) /\ Cardinality(Producers) = 1
  BY WiringAssumption DEF TypeOK
<1>. QED
  BY <1>1, FS_Singleton

LEMMA ProducersFinite ==
    ASSUME TypeOK
    PROVE  /\ Cardinality(Producers) \in Nat \ {0}
           /\ \A loc : /\ IsFiniteSet(In(loc))
                       /\ Cardinality(In(loc)) \in Nat
                       /\ Cardinality(In(loc)) <= Cardinality(Producers)
<1>1. IsFiniteSet(Producers) /\ Producers # {}
  BY WiringAssumption DEF TypeOK
<1>2. Cardinality(Producers) \in Nat \ {0}
  BY <1>1, FS_CardinalityType, FS_EmptySet
<1>3. ASSUME NEW loc
      PROVE  /\ IsFiniteSet(In(loc)) /\ Cardinality(In(loc)) \in Nat
             /\ Cardinality(In(loc)) <= Cardinality(Producers)
  <2>1. In(loc) \in SUBSET Producers
    OBVIOUS
  <2>. QED
    BY <1>1, <2>1, FS_Subset, FS_CardinalityType
<1>. QED
  BY <1>2, <1>3

LEMMA ReadersOfWiring == TypeOK => Readers \subseteq AllReaders
BY DEF TypeOK, AllReaders

LEMMA SeenFacts ==
    ASSUME TypeOK, Numbered
    PROVE  /\ taken \in Nat /\ pushed \in Nat /\ Len(queue) \in Nat
           /\ taken <= pushed - Len(queue)
           /\ \A r \in AllReaders : seen[r] \in Nat /\ seen[r] <= taken
<1>1. taken \in 0..pushed /\ pushed \in Nat /\ Len(queue) \in Nat
  BY DEF TypeOK
<1>2. taken \in Nat
  BY <1>1
<1>. QED
  BY <1>1, <1>2 DEF TypeOK, Numbered

\* What the steps that take packets from the queue need to know of it.
LEMMA QueueFacts ==
    ASSUME TypeOK
    PROVE  /\ Len(queue) \in Nat /\ pushed \in Nat
           /\ queue = <<>> <=> Len(queue) = 0
           /\ queue # <<>> =>
                 /\ Tail(queue) \in Seq(1..pushed)
                 /\ Len(Tail(queue)) = Len(queue) - 1
                 /\ \A i \in 1..Len(Tail(queue)) : Tail(queue)[i] = queue[i + 1]
                 /\ Head(queue) = queue[1] /\ Head(queue) \in 1..pushed
                 /\ queue[Len(queue)] \in 1..pushed
<1>1. queue \in Seq(1..pushed) /\ Len(queue) \in Nat /\ pushed \in Nat
  BY DEF TypeOK
<1>2. queue = <<>> <=> Len(queue) = 0
  BY <1>1, EmptySeq
<1>3. ASSUME queue # <<>>
      PROVE  /\ Tail(queue) \in Seq(1..pushed)
             /\ Len(Tail(queue)) = Len(queue) - 1
             /\ \A i \in 1..Len(Tail(queue)) : Tail(queue)[i] = queue[i + 1]
             /\ Head(queue) \in 1..pushed
  BY <1>1, <1>3, HeadTailProperties
<1>4. ASSUME queue # <<>> PROVE queue[Len(queue)] \in 1..pushed
  <2>1. Len(queue) \in 1..Len(queue)
    BY <1>1, <1>2, <1>4
  <2>. QED
    BY <1>1, <2>1, ElementOfSeq
<1>5. Head(queue) = queue[1]
  OBVIOUS
<1>. QED
  BY <1>1, <1>2, <1>3, <1>4, <1>5

LEMMA InitIInv == Init => IInv
<1>. SUFFICES ASSUME Init PROVE IInv
  OBVIOUS
<1>1. TypeOK
  <2>1. queue \in Seq(1..pushed)
    BY DEF Init
  <2>2. maxSize \in Nat \ {0, 1} /\ largest \in Nat /\ maxSize <= largest
    BY SizeAssumption DEF Init
  <2>3. ppc \in [AllProducers -> {"idle", "full?", "erase", "push"}]
    BY DEF Init
  <2>4. pushed \in Nat /\ taken \in 0..pushed
    BY DEF Init
  <2>. QED
    BY <2>1, <2>2, <2>3, <2>4 DEF Init, TypeOK
<1>2. In("push") = {}
  BY DEF Init
<1>3. Room
  <2>1. Cardinality(In("push")) = 0
    BY <1>2, FS_EmptySet
  <2>2. Cardinality(Producers) \in Nat \ {0}
    BY <1>1, ProducersFinite
  <2>3. Len(queue) = 0 /\ largest \in Nat \ {0}
    BY SizeAssumption DEF Init
  <2>. QED
    BY <2>1, <2>2, <2>3 DEF Room
<1>4. Numbered /\ NotDrained /\ Alone
  <2>1. Readers \subseteq AllReaders
    BY <1>1, ReadersOfWiring
  <2>2. Numbered
    BY DEF Init, Numbered
  <2>. QED
    BY <2>1, <2>2 DEF Init, NotDrained, Alone
<1>. QED
  BY <1>1, <1>3, <1>4 DEF IInv

LEMMA TypeStep == TypeOK /\ [Next]_vars => TypeOK'
<1>. SUFFICES ASSUME TypeOK, [Next]_vars PROVE TypeOK'
  OBVIOUS
<1>. USE SizeAssumption DEF TypeOK
<1>1. ASSUME NEW p \in AllProducers, CallPush(p) PROVE TypeOK'
  BY <1>1 DEF CallPush
<1>2. ASSUME NEW p \in AllProducers, TestFull(p) PROVE TypeOK'
  BY <1>2 DEF TestFull
<1>3. ASSUME NEW p \in AllProducers, EraseFirst(p) PROVE TypeOK'
  BY <1>3, QueueFacts DEF EraseFirst
<1>4. ASSUME NEW p \in AllProducers, Push(p) PROVE TypeOK'
  <2>1. pushed' = pushed + 1 /\ pushed' \in Nat /\ taken' \in 0..pushed'
    BY <1>4 DEF Push
  <2>2. queue' \in Seq(1..pushed')
    <3>1. queue \in Seq(1..pushed')
      BY <2>1
    <3>2. pushed' \in 1..pushed'
      BY <2>1
    <3>. QED
      BY <1>4, <3>1, <3>2, AppendProperties DEF Push
  <2>3. ppc' \in [AllProducers -> {"idle", "full?", "erase", "push"}]
    BY <1>4 DEF Push
  <2>4. \A q \in AllProducers \ Producers' : ppc'[q] = "idle"
    BY <1>4 DEF Push
  <2>5. /\ rpc' \in [AllReaders -> {"data?", "block", "wait", "take", "latest"}]
        /\ \A r \in AllReaders : rpc'[r] = "latest" => wiring'.latest
    BY <1>4 DEF Push, NotifyReader
  <2>. QED
    BY <1>4, <2>1, <2>2, <2>3, <2>4, <2>5 DEF Push
<1>5. ASSUME NEW r \in AllReaders,
             HasData(r) \/ Block(r) \/ Timeout(r) \/ WakeUp(r) \/ GetLatestTest(r)
      PROVE  TypeOK'
  <2>1. /\ rpc' \in [AllReaders -> {"data?", "block", "wait", "take", "latest"}]
        /\ \A q \in AllReaders : rpc'[q] = "latest" => wiring.latest
    BY <1>5 DEF HasData, Block, Timeout, WakeUp, GetLatestTest
  <2>2. /\ UNCHANGED <<wiring, queue, maxSize, largest, ppc, pushed, taken, broken>>
        /\ seen' \in [AllReaders -> Nat]
    BY <1>5 DEF HasData, Block, Timeout, WakeUp, GetLatestTest
  <2>. QED
    BY <2>1, <2>2
<1>6. ASSUME NEW r \in AllReaders, GetNext(r) PROVE TypeOK'
  <2>1. queue' \in Seq(1..pushed) /\ taken' \in 0..pushed
    <3>1. CASE queue = <<>>
      BY <1>6, <3>1 DEF GetNext
    <3>2. CASE queue # <<>>
      <4>1. queue' = Tail(queue) /\ taken' = Head(queue)
        BY <1>6, <3>2 DEF GetNext
      <4>2. Tail(queue) \in Seq(1..pushed) /\ Head(queue) \in 1..pushed
        BY <3>2, QueueFacts
      <4>. QED
        BY <4>1, <4>2
    <3>. QED
      BY <3>1, <3>2
  <2>. QED
    BY <1>6, <2>1 DEF GetNext
<1>7. ASSUME NEW r \in AllReaders, GetLatest(r) PROVE TypeOK'
  <2>1. queue' \in Seq(1..pushed) /\ taken' \in 0..pushed /\ broken' \in BOOLEAN
    <3>1. CASE queue = <<>>
      BY <1>7, <3>1 DEF GetLatest
    <3>2. CASE queue # <<>>
      <4>1. queue' = <<>> /\ taken' = queue[Len(queue)] /\ broken' = broken
        BY <1>7, <3>2 DEF GetLatest
      <4>2. queue[Len(queue)] \in 1..pushed
        BY <3>2, QueueFacts
      <4>. QED
        BY <4>1, <4>2
    <3>. QED
      BY <3>1, <3>2
  <2>. QED
    BY <1>7, <2>1 DEF GetLatest
<1>8. CASE SetMaxSize
  <2>1. /\ maxSize' \in Nat \ {0, 1} /\ largest' \in Nat /\ maxSize' <= largest'
        /\ UNCHANGED <<wiring, queue, ppc, rpc, seen, pushed, taken, broken>>
    BY <1>8 DEF SetMaxSize
  <2>. QED
    BY <2>1
<1>9. CASE UNCHANGED vars
  BY <1>9 DEF vars
<1>. QED
  BY <1>1, <1>2, <1>3, <1>4, <1>5, <1>6, <1>7, <1>8, <1>9
  DEF Next, ProducerStep, ReaderStep

LEMMA NumberedStep == TypeOK /\ Numbered /\ [Next]_vars => Numbered'
<1>. SUFFICES ASSUME TypeOK, Numbered, [Next]_vars PROVE Numbered'
  OBVIOUS
<1>. USE DEF TypeOK, Numbered
<1>1. ASSUME queue' = Tail(queue), queue # <<>>, UNCHANGED pushed,
             taken' = taken \/ taken' = Head(queue), seen' = seen
      PROVE  Numbered'
  <2>1. Len(queue') = Len(queue) - 1 /\ Len(queue) \in Nat \ {0}
    BY <1>1, QueueFacts
  <2>2. \A i \in 1..Len(queue') : queue'[i] = queue[i + 1]
    BY <1>1, QueueFacts
  <2>3. Head(queue) = pushed - Len(queue) + 1
    BY <1>1, <2>1, QueueFacts
  <2>4. /\ taken \in Nat /\ taken <= pushed - Len(queue) /\ pushed \in Nat
        /\ \A r \in AllReaders : seen[r] \in Nat /\ seen[r] <= taken
    BY SeenFacts
  <2>5. taken <= taken' /\ taken' \in Nat /\ taken' <= pushed - Len(queue')
    <3>1. taken' = taken \/ taken' = pushed - Len(queue) + 1
      BY <1>1, <2>3
    <3>. QED
      BY <2>1, <2>4, <3>1
  <2>6. \A i \in 1..Len(queue') : queue'[i] = pushed' - Len(queue') + i
    BY <1>1, <2>1, <2>2, <2>4
  <2>7. \A r \in AllReaders' : seen'[r] <= taken'
    BY <1>1, <2>4, <2>5
  <2>. QED
    BY <1>1, <2>5, <2>6, <2>7
<1>2. ASSUME NEW p \in AllProducers, EraseFirst(p) PROVE Numbered'
  <2>1. CASE queue = <<>>
    BY <1>2, <2>1 DEF EraseFirst
  <2>2. CASE queue # <<>>
    BY <1>1, <1>2, <2>2 DEF EraseFirst
  <2>. QED
    BY <2>1, <2>2
<1>3. ASSUME NEW p \in AllProducers, Push(p) PROVE Numbered'
  <2>1. /\ Len(queue') = Len(queue) + 1
        /\ \A i \in 1..Len(queue) : queue'[i] = queue[i]
        /\ queue'[Len(queue) + 1] = pushed + 1
        /\ pushed' = pushed + 1 /\ taken' = taken /\ seen' = seen
        /\ Len(queue) \in Nat
    BY <1>3 DEF Push
  <2>2. ASSUME NEW i \in 1..Len(queue')
        PROVE  queue'[i] = pushed' - Len(queue') + i
    <3>1. i \in 1..Len(queue) \/ i = Len(queue) + 1
      BY <2>1
    <3>2. CASE i \in 1..Len(queue)
      <4>1. queue'[i] = pushed - Len(queue) + i
        BY <2>1, <3>2
      <4>. QED
        BY <2>1, <4>1
    <3>3. CASE i = Len(queue) + 1
      BY <2>1, <3>3
    <3>. QED
      BY <3>1, <3>2, <3>3
  <2>3. /\ taken' <= pushed' - Len(queue')
        /\ \A r \in AllReaders' : seen'[r] <= taken'
    BY <2>1
  <2>. QED
    BY <2>2, <2>3
<1>4. ASSUME NEW r \in AllReaders, GetNext(r) PROVE Numbered'
  <2>1. CASE queue = <<>>
    BY <1>4, <2>1 DEF GetNext
  <2>2. CASE queue # <<>>
    BY <1>1, <1>4, <2>2 DEF GetNext
  <2>. QED
    BY <2>1, <2>2
<1>5. ASSUME NEW r \in AllReaders, GetLatest(r) PROVE Numbered'
  <2>1. CASE queue = <<>>
    BY <1>5, <2>1 DEF GetLatest
  <2>2. CASE queue # <<>>
    <3>1. queue[Len(queue)] = pushed
      BY <2>2
    <3>2. queue' = <<>> /\ Len(queue') = 0 /\ taken' = pushed /\ pushed' = pushed
          /\ seen' = seen
      BY <1>5, <2>2, <3>1 DEF GetLatest
    <3>. QED
      BY <3>2
  <2>. QED
    BY <2>1, <2>2
<1>6. CASE UNCHANGED <<queue, pushed, taken, seen>>
  BY <1>6
<1>7. ASSUME NEW r \in AllReaders, GetLatestTest(r) PROVE Numbered'
  BY <1>7 DEF GetLatestTest
<1>. QED
  BY <1>2, <1>3, <1>4, <1>5, <1>6, <1>7
  DEF Next, ProducerStep, ReaderStep, CallPush, TestFull, HasData, Block, Timeout,
      WakeUp, SetMaxSize, vars

LEMMA RoomStep == TypeOK /\ Room /\ [Next]_vars => Room'
<1>. SUFFICES ASSUME TypeOK, Room, [Next]_vars PROVE Room'
  OBVIOUS
<1>. DEFINE n == Cardinality(Producers)
            k == Cardinality(In("push"))
<1>0. /\ n \in Nat \ {0} /\ k \in Nat /\ k <= n
      /\ IsFiniteSet(In("push"))
      /\ Len(queue) \in Nat /\ largest \in Nat /\ maxSize \in Nat /\ maxSize <= largest
      /\ Len(queue) + k < largest + n
  <2>1. /\ n \in Nat \ {0} /\ k \in Nat /\ k <= n
        /\ IsFiniteSet(In("push"))
    BY ProducersFinite
  <2>. QED
    BY <2>1 DEF TypeOK, Room
<1>1. TypeOK' /\ k' \in Nat /\ k' <= n' /\ Producers' = Producers /\ n' = n
  <2>1. TypeOK'
    BY TypeStep
  <2>2. wiring' = wiring
    BY DEF Next, ProducerStep, ReaderStep, CallPush, TestFull, EraseFirst, Push,
           HasData, Block, Timeout, WakeUp, GetNext, GetLatestTest, GetLatest,
           SetMaxSize, vars
  <2>3. k' \in Nat /\ k' <= n'
    <3>1. IsFiniteSet(Producers') /\ In("push")' \in SUBSET Producers'
      BY <2>1, WiringAssumption DEF TypeOK
    <3>2. IsFiniteSet(In("push")') /\ Cardinality(In("push")') <= Cardinality(Producers')
      BY <3>1, FS_Subset
    <3>3. Cardinality(In("push")') \in Nat
      BY <3>2, FS_CardinalityType
    <3>. QED
      BY <3>2, <3>3
  <2>. QED
    BY <2>1, <2>2, <2>3
\* what most steps do: no producer enters "push", the queue does not grow
<1>2. ASSUME In("push")' = In("push"), Len(queue') <= Len(queue), Len(queue') \in Nat,
             largest' >= largest, largest' \in Nat
      PROVE  Room'
  <2>1. k' = k
    BY <1>2
  <2>. QED
    BY <1>0, <1>1, <1>2, <2>1 DEF Room
<1>3. ASSUME NEW p \in AllProducers, CallPush(p) PROVE Room'
  <2>1. In("push")' = In("push")
    BY <1>3 DEF CallPush, TypeOK
  <2>. QED
    BY <1>0, <1>2, <1>3, <2>1 DEF CallPush
<1>4. ASSUME NEW p \in AllProducers, TestFull(p) PROVE Room'
  <2>1. CASE Len(queue) >= maxSize
    <3>1. In("push")' = In("push")
      BY <1>4, <2>1 DEF TestFull, TypeOK
    <3>. QED
      BY <1>0, <1>2, <1>4, <3>1 DEF TestFull
  <2>2. CASE ~(Len(queue) >= maxSize)
    \* however many producers are now in "push", they are at most all of them
    <3>1. Len(queue') < largest' /\ Len(queue') \in Nat /\ largest' \in Nat
      BY <1>0, <1>4, <2>2 DEF TestFull
    <3>. QED
      BY <1>0, <1>1, <3>1 DEF Room
  <2>. QED
    BY <2>1, <2>2
<1>5. ASSUME NEW p \in AllProducers, EraseFirst(p) PROVE Room'
  <2>1. In("push")' = In("push")
    BY <1>5 DEF EraseFirst, TypeOK
  <2>2. Len(queue') <= Len(queue) /\ Len(queue') \in Nat
    BY <1>0, <1>5 DEF EraseFirst, TypeOK
  <2>. QED
    BY <1>0, <1>2, <1>5, <2>1, <2>2 DEF EraseFirst
<1>6. ASSUME NEW p \in AllProducers, Push(p) PROVE Room'
  <2>1. In("push")' = In("push") \ {p} /\ p \in In("push")
    BY <1>6 DEF Push, TypeOK
  <2>2. k' = k - 1
    <3>1. IsFiniteSet(In("push")) /\ p \in In("push")
      BY <1>0, <2>1
    <3>2. Cardinality(In("push") \ {p}) = Cardinality(In("push")) - 1
      BY <3>1, RemoveOne
    <3>. QED
      BY <2>1, <3>2
  <2>3. Len(queue') = Len(queue) + 1 /\ largest' = largest
    BY <1>6 DEF Push, TypeOK
  <2>. QED
    BY <1>0, <1>1, <2>2, <2>3 DEF Room
<1>7. ASSUME \/ \E r \in AllReaders : \/ HasData(r) \/ Block(r) \/ Timeout(r)
                                      \/ WakeUp(r) \/ GetLatestTest(r)
             \/ SetMaxSize \/ UNCHANGED vars
      PROVE  Room'
  <2>1. In("push")' = In("push") /\ queue' = queue
    BY <1>7 DEF HasData, Block, Timeout, WakeUp, GetLatestTest, SetMaxSize, vars
  <2>2. largest' >= largest /\ largest' \in Nat
    BY <1>0, <1>1, <1>7
    DEF HasData, Block, Timeout, WakeUp, GetLatestTest, SetMaxSize, vars, TypeOK
  <2>. QED
    BY <1>0, <1>2, <2>1, <2>2
<1>8. ASSUME NEW r \in AllReaders, GetNext(r) \/ GetLatest(r)
      PROVE  Room'
  <2>1. In("push")' = In("push") /\ largest' = largest
    BY <1>8 DEF GetNext, GetLatest
  <2>2. Len(queue') <= Len(queue) /\ Len(queue') \in Nat
    BY <1>0, <1>8 DEF GetNext, GetLatest, TypeOK
  <2>. QED
    BY <1>0, <1>2, <2>1, <2>2
<1>. QED
  BY <1>3, <1>4, <1>5, <1>6, <1>7, <1>8 DEF Next, ProducerStep, ReaderStep

LEMMA NotDrainedStep ==
    TypeOK /\ Numbered /\ NotDrained /\ [Next]_vars => NotDrained'
<1>. SUFFICES ASSUME TypeOK, Numbered, NotDrained, [Next]_vars, wiring'.latest
              PROVE  /\ \A p \in Producers' :
                            ppc'[p] = "erase" => queue' = <<>> \/ Len(queue') >= 2
                     /\ \A r \in Readers' :
                            rpc'[r] = "latest" => queue' # <<>> \/ taken' > seen'[r]
  BY DEF NotDrained
<1>0. wiring' = wiring
  BY DEF Next, ProducerStep, ReaderStep, CallPush, TestFull, EraseFirst, Push,
         HasData, Block, Timeout, WakeUp, GetNext, GetLatestTest, GetLatest,
         SetMaxSize, vars
<1>1. /\ \A p, q \in Producers : p = q
      /\ \A p \in Producers : ppc[p] = "erase" => queue = <<>> \/ Len(queue) >= 2
      /\ \A r \in Readers : rpc[r] = "latest" => queue # <<>> \/ taken > seen[r]
      /\ \A p \in AllProducers : ppc[p] # "idle" => p \in Producers
      /\ Readers \subseteq AllReaders
  BY <1>0, OneProducer, ReadersOfWiring DEF NotDrained, TypeOK
<1>. USE DEF TypeOK
<1>2. ASSUME NEW p \in AllProducers, CallPush(p) PROVE NotDrained'
  BY <1>0, <1>1, <1>2 DEF CallPush, NotDrained
<1>3. ASSUME NEW p \in AllProducers, TestFull(p) PROVE NotDrained'
  <2>1. \A q \in Producers : ppc'[q] = "erase" => Len(queue) >= 2
    BY <1>1, <1>3 DEF TestFull
  <2>. QED
    BY <1>0, <1>1, <1>3, <2>1 DEF TestFull, NotDrained
<1>4. ASSUME NEW p \in AllProducers, EraseFirst(p) PROVE NotDrained'
  <2>1. p \in Producers /\ \A q \in Producers : ppc'[q] # "erase"
    BY <1>1, <1>4 DEF EraseFirst
  <2>2. queue # <<>> => queue' # <<>>
    <3>1. queue # <<>> => Len(queue) >= 2 /\ queue' = Tail(queue)
      BY <1>1, <1>4, <2>1 DEF EraseFirst
    <3>2. queue # <<>> => Len(queue') >= 1
      BY <3>1, QueueFacts
    <3>. QED
      BY <3>2
  <2>. QED
    BY <1>0, <1>1, <1>4, <2>1, <2>2 DEF EraseFirst, NotDrained
<1>5. ASSUME NEW p \in AllProducers, Push(p) PROVE NotDrained'
  <2>1. p \in Producers /\ \A q \in Producers : ppc'[q] # "erase"
    <3>1. p \in Producers /\ ppc' = [ppc EXCEPT ![p] = "idle"]
      BY <1>1, <1>5 DEF Push
    <3>2. \A q \in Producers : q = p
      BY <1>1, <3>1
    <3>. QED
      BY <3>1, <3>2
  <2>2. queue' # <<>>
    BY <1>5 DEF Push
  <2>. QED
    BY <1>0, <2>1, <2>2 DEF NotDrained
<1>6. ASSUME NEW r \in AllReaders,
             HasData(r) \/ Block(r) \/ Timeout(r) \/ WakeUp(r) \/ GetLatestTest(r)
      PROVE  NotDrained'
  <2>1. CASE HasData(r) \/ Block(r) \/ Timeout(r) \/ WakeUp(r)
    BY <1>0, <1>1, <2>1 DEF HasData, Block, Timeout, WakeUp, NotDrained
  <2>2. CASE GetLatestTest(r)
    BY <1>0, <1>1, <2>2 DEF GetLatestTest, NotDrained
  <2>. QED
    BY <1>6, <2>1, <2>2
<1>7. CASE SetMaxSize \/ UNCHANGED vars
  BY <1>0, <1>1, <1>7 DEF SetMaxSize, vars, NotDrained
<1>8. ASSUME NEW r \in AllReaders, GetNext(r) PROVE NotDrained'
  BY <1>0, <1>8 DEF GetNext
<1>9. ASSUME NEW r \in AllReaders, GetLatest(r) PROVE NotDrained'
  <2>1. CASE queue = <<>>
    BY <1>0, <1>1, <1>9, <2>1 DEF GetLatest, NotDrained
  <2>2. CASE queue # <<>>
    <3>1. /\ queue' = <<>> /\ taken' = queue[Len(queue)] /\ seen' = seen
          /\ ppc' = ppc
      BY <1>9, <2>2 DEF GetLatest
    <3>2. Len(queue) \in 1..Len(queue)
      BY <2>2, QueueFacts
    <3>3. taken' = pushed /\ taken < pushed
      BY <3>1, <3>2, QueueFacts DEF Numbered
    <3>4. \A q \in AllReaders : taken' > seen'[q]
      <4>1. /\ taken \in Nat /\ pushed \in Nat
            /\ \A q \in AllReaders : seen[q] \in Nat /\ seen[q] <= taken
        BY SeenFacts
      <4>2. ASSUME NEW q \in AllReaders PROVE taken' > seen'[q]
        <5>1. seen[q] \in Nat /\ seen[q] <= taken
          BY <4>1
        <5>. QED
          BY <3>1, <3>3, <4>1, <5>1
      <4>. QED
        BY <4>2
    <3>. QED
      BY <1>0, <1>1, <3>1, <3>4 DEF NotDrained
  <2>. QED
    BY <2>1, <2>2
<1>. QED
  BY <1>2, <1>3, <1>4, <1>5, <1>6, <1>7, <1>8, <1>9
  DEF Next, ProducerStep, ReaderStep, NotDrained

LEMMA AloneStep == TypeOK /\ NotDrained /\ Alone /\ [Next]_vars => Alone'
<1>. SUFFICES ASSUME TypeOK, NotDrained, Alone, [Next]_vars,
                     \A q, r \in Readers' : q = r
              PROVE  ~broken' /\ \A r \in Readers' : rpc'[r] = "latest" => seen'[r] = taken'
  BY DEF Alone
<1>. USE DEF TypeOK
<1>0. wiring' = wiring
  BY DEF Next, ProducerStep, ReaderStep, CallPush, TestFull, EraseFirst, Push,
         HasData, Block, Timeout, WakeUp, GetNext, GetLatestTest, GetLatest,
         SetMaxSize, vars
<1>1. /\ ~broken /\ \A r \in Readers : rpc[r] = "latest" => seen[r] = taken
      /\ \A q, r \in Readers : q = r
      /\ Readers \subseteq AllReaders
  BY <1>0, ReadersOfWiring DEF Alone
<1>2. ASSUME NEW p \in AllProducers, CallPush(p) \/ ProducerStep(p) PROVE Alone'
  BY <1>0, <1>1, <1>2
  DEF CallPush, ProducerStep, TestFull, EraseFirst, Push, NotifyReader, Alone
<1>3. ASSUME NEW r \in AllReaders,
             HasData(r) \/ Block(r) \/ Timeout(r) \/ WakeUp(r) \/ GetLatestTest(r)
      PROVE  Alone'
  BY <1>0, <1>1, <1>3 DEF HasData, Block, Timeout, WakeUp, GetLatestTest, Alone
<1>4. ASSUME NEW r \in AllReaders, GetNext(r) PROVE Alone'
  BY <1>0, <1>1, <1>4 DEF GetNext, Alone
<1>5. ASSUME NEW r \in AllReaders, GetLatest(r) PROVE Alone'
  <2>1. r \in Readers /\ rpc[r] = "latest" /\ rpc' = [rpc EXCEPT ![r] = "data?"]
    BY <1>5 DEF GetLatest
  <2>2. seen[r] = taken /\ seen[r] \in Nat
    BY <1>1, <2>1
  <2>3. queue # <<>>
    BY <1>1, <2>1, <2>2 DEF NotDrained
  <2>4. broken' = broken
    BY <1>5, <2>3 DEF GetLatest
  <2>5. \A q \in Readers : rpc'[q] # "latest"
    BY <1>1, <2>1
  <2>. QED
    BY <1>0, <1>1, <2>4, <2>5 DEF Alone
<1>6. CASE SetMaxSize \/ UNCHANGED vars
  BY <1>0, <1>1, <1>6 DEF SetMaxSize, vars, Alone
<1>. QED
  BY <1>0, <1>2, <1>3, <1>4, <1>5, <1>6 DEF Next, ReaderStep, Alone

-----------------------------------------------------------------------------
\* The inductive invariant: the types, the numbering of the packets, the places
\* the producers have reserved, and what the one producer of a get_latest
\* reader leaves in the queue.
THEOREM Inductive == Spec => []IInv
<1>1. IInv /\ [Next]_vars => IInv'
  BY TypeStep, NumberedStep, RoomStep, NotDrainedStep, AloneStep DEF IInv
<1>. QED
  BY InitIInv, <1>1, PTL DEF Spec

\* Type correctness of every behaviour of the queue.
THEOREM TypeCorrect == Spec => []TypeOK
<1>1. IInv => TypeOK
  BY DEF IInv
<1>. QED
  BY Inductive, <1>1, PTL

\* push_one's unlocked test lets the queue grow past its maximum by fewer
\* packets than it has producers, whatever the maximum and however it changes.
THEOREM Bounded == Spec => []LengthBound
<1>1. IInv => LengthBound
  <2>. SUFFICES ASSUME IInv PROVE LengthBound
    OBVIOUS
  <2>1. TypeOK
    BY DEF IInv
  <2>2. Cardinality(In("push")) \in Nat /\ Cardinality(Producers) \in Nat
    BY <2>1, ProducersFinite
  <2>3. Len(queue) \in Nat /\ largest \in Nat
    BY <2>1 DEF TypeOK
  <2>. QED
    BY <2>2, <2>3 DEF IInv, Room, LengthBound
<1>. QED
  BY Inductive, <1>1, PTL

\* For any number of readers, in every wiring that gives get_latest one producer
\* and for every maximum above one: what get_latest finds empty another reader
\* has emptied since it looked, and a reader that is alone finds what it saw.
THEOREM NeverEmptyPop == Spec => []NoEmptyPop
<1>1. IInv => NoEmptyPop
  <2>1. ASSUME IInv, NEW r \in Readers, rpc[r] = "latest", queue = <<>>
        PROVE  taken > seen[r]
    <3>1. r \in AllReaders
      BY <2>1, ReadersOfWiring DEF IInv
    <3>2. wiring.latest
      BY <2>1, <3>1 DEF IInv, TypeOK
    <3>. QED
      BY <2>1, <3>2 DEF IInv, NotDrained
  <2>. QED
    BY <2>1 DEF IInv, Alone, NoEmptyPop
<1>. QED
  BY Inductive, <1>1, PTL

-----------------------------------------------------------------------------
\* A queue numbered without a gap holds an interval of numbers.
LEMMA NumbersAreAnInterval ==
    ASSUME NEW n \in Nat, NEW q \in Seq(1..n),
           \A i \in 1..Len(q) : q[i] = n - Len(q) + i
    PROVE  {q[i] : i \in DOMAIN q} = (n - Len(q) + 1)..n
<1>1. Len(q) \in Nat /\ DOMAIN q = 1..Len(q)
  BY LenProperties
<1>2. ASSUME NEW i \in DOMAIN q PROVE q[i] \in (n - Len(q) + 1)..n
  BY <1>1
<1>3. ASSUME NEW m \in (n - Len(q) + 1)..n PROVE \E i \in DOMAIN q : q[i] = m
  <2>1. m - (n - Len(q)) \in DOMAIN q
    BY <1>1
  <2>2. q[m - (n - Len(q))] = m
    BY <1>1, <2>1
  <2>. QED
    BY <2>1, <2>2
<1>. QED
  BY <1>2, <1>3

LEMMA FifoStep ==
    TypeOK /\ Numbered /\ [Next]_vars => [Fifo!Next]_(Fifo!fifoVars)
<1>. SUFFICES ASSUME TypeOK, Numbered, [Next]_vars
              PROVE  Fifo!Next \/ UNCHANGED Fifo!fifoVars
  OBVIOUS
<1>. DEFINE W == {queue[i] : i \in DOMAIN queue}
            first == pushed - Len(queue) + 1
<1>1. TypeOK' /\ Numbered'
  BY TypeStep, NumberedStep
<1>2. /\ Len(queue) \in Nat /\ pushed \in Nat /\ taken \in Nat /\ taken < first
      /\ W = first..pushed
  <2>1. /\ pushed \in Nat /\ queue \in Seq(1..pushed)
        /\ \A i \in 1..Len(queue) : queue[i] = pushed - Len(queue) + i
    BY DEF TypeOK, Numbered
  <2>2. W = first..pushed
    BY <2>1, NumbersAreAnInterval
  <2>. QED
    BY <2>1, <2>2 DEF TypeOK, Numbered
<1>3. Len(queue') \in Nat /\ pushed' \in Nat /\ W' = first'..pushed'
  <2>1. /\ pushed' \in Nat /\ queue' \in Seq(1..pushed')
        /\ \A i \in 1..Len(queue') : queue'[i] = pushed' - Len(queue') + i
    BY <1>1 DEF TypeOK, Numbered
  <2>2. W' = first'..pushed'
    BY <2>1, NumbersAreAnInterval
  <2>. QED
    BY <2>1, <2>2
<1>. HIDE DEF W
<1>4. ASSUME NEW p \in AllProducers, Push(p) PROVE Fifo!Next
  <2>1. /\ pushed' = pushed + 1 /\ taken' = taken
        /\ Len(queue') = Len(queue) + 1
    BY <1>4 DEF Push, TypeOK
  <2>2. W' = W \cup {pushed + 1}
    BY <1>2, <1>3, <2>1
  <2>. QED
    BY <2>1, <2>2 DEF Fifo!Next, Fifo!Put, W
<1>5. ASSUME queue # <<>>, queue' = Tail(queue), pushed' = pushed
      PROVE  /\ first \in W /\ \A m \in W : first <= m
             /\ W' = W \ {first} /\ queue[1] = first
  <2>1. Len(queue') = Len(queue) - 1 /\ Len(queue) >= 1
    BY <1>2, <1>5, QueueFacts
  <2>2. queue[1] = first
    BY <1>2, <2>1 DEF Numbered
  <2>. QED
    BY <1>2, <1>3, <1>5, <2>1, <2>2
<1>6. ASSUME NEW p \in AllProducers, EraseFirst(p)
      PROVE  Fifo!Next \/ UNCHANGED Fifo!fifoVars
  <2>1. CASE queue = <<>>
    <3>1. queue' = queue /\ pushed' = pushed /\ taken' = taken
      BY <1>6, <2>1 DEF EraseFirst
    <3>. QED
      BY <3>1 DEF Fifo!fifoVars
  <2>2. CASE queue # <<>>
    <3>1. queue' = Tail(queue) /\ pushed' = pushed /\ taken' = taken
      BY <1>6, <2>2 DEF EraseFirst
    <3>2. /\ first \in W /\ \A m \in W : first <= m
          /\ W' = W \ {first}
      BY <1>5, <2>2, <3>1
    <3>. QED
      BY <3>1, <3>2 DEF Fifo!Next, Fifo!LoseOldest, Fifo!IsOldest, W
  <2>. QED
    BY <2>1, <2>2
<1>7. ASSUME NEW r \in AllReaders, GetNext(r)
      PROVE  Fifo!Next \/ UNCHANGED Fifo!fifoVars
  <2>1. CASE queue = <<>>
    <3>1. queue' = queue /\ pushed' = pushed /\ taken' = taken
      BY <1>7, <2>1 DEF GetNext
    <3>. QED
      BY <3>1 DEF Fifo!fifoVars
  <2>2. CASE queue # <<>>
    <3>1. queue' = Tail(queue) /\ pushed' = pushed /\ taken' = Head(queue)
      BY <1>7, <2>2 DEF GetNext
    <3>2. /\ first \in W /\ \A m \in W : first <= m
          /\ W' = W \ {first} /\ taken' = first
      BY <1>5, <2>2, <3>1, QueueFacts
    <3>3. taken' > taken
      BY <1>2, <3>2
    <3>. QED
      BY <3>1, <3>2, <3>3 DEF Fifo!Next, Fifo!TakeOldest, Fifo!IsOldest, W
  <2>. QED
    BY <2>1, <2>2
<1>8. ASSUME NEW r \in AllReaders, GetLatest(r)
      PROVE  Fifo!Next \/ UNCHANGED Fifo!fifoVars
  <2>1. CASE queue = <<>>
    <3>1. queue' = queue /\ pushed' = pushed /\ taken' = taken
      BY <1>8, <2>1 DEF GetLatest
    <3>. QED
      BY <3>1 DEF Fifo!fifoVars
  <2>2. CASE queue # <<>>
    <3>1. queue' = <<>> /\ pushed' = pushed /\ taken' = queue[Len(queue)]
      BY <1>8, <2>2 DEF GetLatest
    <3>2. Len(queue) >= 1
      BY <1>2, <2>2, QueueFacts
    <3>3. taken' = pushed
      BY <1>2, <3>1, <3>2 DEF Numbered
    <3>4. pushed \in W /\ (\A m \in W : m <= pushed) /\ taken' > taken
      BY <1>2, <3>2, <3>3
    <3>5. W' = {}
      <4>1. Len(queue') = 0
        BY <3>1
      <4>. QED
        BY <1>3, <4>1, <3>1
    <3>. QED
      BY <3>1, <3>3, <3>4, <3>5 DEF Fifo!Next, Fifo!TakeNewest, Fifo!IsNewest, W
  <2>. QED
    BY <2>1, <2>2
<1>9. CASE UNCHANGED <<queue, pushed, taken>>
  BY <1>9 DEF Fifo!fifoVars
<1>. QED
  BY <1>4, <1>6, <1>7, <1>8, <1>9
  DEF Next, ProducerStep, ReaderStep, CallPush, TestFull, HasData, Block, Timeout,
      WakeUp, GetLatestTest, SetMaxSize, vars

\* The queue with its unlocked tests implements the lossy FIFO: packets are
\* delivered in the order of the pushes, none twice, and only the oldest is lost.
THEOREM ImplementsFifo == Spec => FifoSpec
<1>1. Init => Fifo!Init
  <2>. SUFFICES ASSUME Init PROVE Fifo!Init
    OBVIOUS
  <2>1. queue = <<>> /\ DOMAIN queue = {}
    BY DEF Init
  <2>. QED
    BY <2>1 DEF Init, Fifo!Init
<1>2. IInv /\ [Next]_vars => [Fifo!Next]_(Fifo!fifoVars)
  BY FifoStep DEF IInv
<1>. QED
  BY Inductive, <1>1, <1>2, PTL DEF Spec, FifoSpec, Fifo!Spec

-----------------------------------------------------------------------------
(***************************************************************************)
(* The thread of an AbstractThread object                                  *)
(***************************************************************************)
USE DEF Goto, Holding

\* Where the callback has run: a worker is unflushed only from its on_thread_run
\* to the on_thread_pause that follows it.
Flushing ==
    \A w \in Workers :
        pc[w] \in {"unused", "predicate", "gap", "sleep", "relock", "awake", "done"}
            => flushed[w]

\* A second thread is spawned only after a start that found the first pausing.  An
\* owner that starts its thread once finds none when it does; one that has resumed
\* its object, and whose thread does not pause itself, finds the pause condition
\* as it was when start_thread tests it.
SingleStart ==
    /\ OneWorker
    /\ cpc = "spawn" => thread = NoWorker \/ foundPausing
    /\ ~MayOverwrite /\ cpc = "start" /\ thread # NoWorker =>
          ~pause /\ owner.starts = "resumed"

-----------------------------------------------------------------------------
LEMMA ThreadTypeStep == ThreadTypeOK /\ [ThreadNext]_threadVars => ThreadTypeOK'
<1>. SUFFICES ASSUME ThreadTypeOK, [ThreadNext]_threadVars PROVE ThreadTypeOK'
  OBVIOUS
<1>. USE WorkerAssumption DEF ThreadTypeOK, Locations, ControllerLocations
<1>1. ASSUME NEW w \in Workers, CheckLoop(w) \/ EvaluatePredicate(w) \/ OnThreadRun(w)
                                \/ SpuriousWake(w)
      PROVE  ThreadTypeOK'
  BY <1>1 DEF CheckLoop, EvaluatePredicate, OnThreadRun, SpuriousWake
<1>2. ASSUME NEW w \in Workers, Lock(w) PROVE ThreadTypeOK'
  BY <1>2 DEF Lock
<1>3. ASSUME NEW w \in Workers, OnThreadPause(w) PROVE ThreadTypeOK'
  BY <1>3 DEF OnThreadPause
<1>4. ASSUME NEW w \in Workers, Sleep(w) \/ AfterWait(w) PROVE ThreadTypeOK'
  BY <1>4 DEF Sleep, AfterWait
<1>5. CASE Call \/ StartThread \/ Join \/ UNCHANGED threadVars
  BY <1>5 DEF Call, CallPause, CallResume, CallStart, CallExit, StartThread, FoundPausing,
              Join, threadVars
<1>6. CASE Spawn
  BY <1>6 DEF Spawn, Live
<1>7. CASE NotifyThread
  BY <1>7 DEF NotifyThread, NotifyOne
<1>. QED
  BY <1>1, <1>2, <1>3, <1>4, <1>5, <1>6, <1>7 DEF ThreadNext, WorkerStep, ControllerStep

LEMMA FlushingStep == ThreadTypeOK /\ Flushing /\ [ThreadNext]_threadVars => Flushing'
<1>. SUFFICES ASSUME ThreadTypeOK, Flushing, [ThreadNext]_threadVars PROVE Flushing'
  OBVIOUS
<1>. USE DEF ThreadTypeOK, Flushing
<1>1. ASSUME NEW w \in Workers, WorkerStep(w) \/ SpuriousWake(w) PROVE Flushing'
  <2>1. CASE CheckLoop(w)
    BY <2>1 DEF CheckLoop
  <2>2. CASE Lock(w)
    BY <2>2 DEF Lock
  <2>3. CASE OnThreadPause(w)
    BY <2>3 DEF OnThreadPause
  <2>4. CASE EvaluatePredicate(w) \/ Sleep(w) \/ SpuriousWake(w) \/ AfterWait(w)
    BY <2>4 DEF EvaluatePredicate, Sleep, SpuriousWake, AfterWait
  <2>5. CASE OnThreadRun(w)
    BY <2>5 DEF OnThreadRun
  <2>. QED
    BY <1>1, <2>1, <2>2, <2>3, <2>4, <2>5 DEF WorkerStep
<1>2. CASE Call \/ StartThread \/ Join \/ UNCHANGED threadVars
  BY <1>2 DEF Call, CallPause, CallResume, CallStart, CallExit, StartThread, Join,
              threadVars
<1>3. CASE Spawn
  BY <1>3 DEF Spawn
<1>4. CASE NotifyThread
  BY <1>4 DEF NotifyThread, NotifyOne
<1>. QED
  BY <1>1, <1>2, <1>3, <1>4 DEF ThreadNext, ControllerStep

LEMMA SingleStartStep == ThreadTypeOK /\ SingleStart /\ [ThreadNext]_threadVars => SingleStart'
<1>. SUFFICES ASSUME ThreadTypeOK, SingleStart, [ThreadNext]_threadVars PROVE SingleStart'
  OBVIOUS
<1>. USE WorkerAssumption DEF ThreadTypeOK, SingleStart, OneWorker, Live, MayOverwrite
<1>1. ASSUME NEW w \in Workers, WorkerStep(w) \/ SpuriousWake(w) PROVE SingleStart'
  <2>1. /\ UNCHANGED <<owner, thread, cpc, foundPausing>>
        /\ owner.pausesItself \/ UNCHANGED pause
        /\ pc[w] \notin {"unused", "done"}
        /\ \A v \in Workers \ {w} : pc'[v] = pc[v]
    BY <1>1 DEF WorkerStep, CheckLoop, Lock, OnThreadPause, EvaluatePredicate,
                Sleep, AfterWait, OnThreadRun, SpuriousWake
  <2>. QED
    BY <2>1
<1>2. CASE Call
  BY <1>2 DEF Call, CallPause, CallResume, CallStart, CallExit
<1>3. CASE StartThread
  BY <1>3 DEF StartThread, FoundPausing
<1>4. CASE Spawn
  BY <1>4 DEF Spawn
<1>5. CASE NotifyThread
  BY <1>5 DEF NotifyThread, NotifyOne
<1>6. CASE Join
  BY <1>6 DEF Join
<1>7. CASE UNCHANGED threadVars
  BY <1>7 DEF threadVars
<1>. QED
  BY <1>1, <1>2, <1>3, <1>4, <1>5, <1>6, <1>7 DEF ThreadNext, ControllerStep

-----------------------------------------------------------------------------
\* Types, and the agreement of _mutex with the places of the workers.
THEOREM ThreadTypeCorrect == ThreadSpec => []ThreadTypeOK
<1>1. ThreadInit => ThreadTypeOK
  BY WorkerAssumption DEF ThreadInit, ThreadTypeOK, Locations, ControllerLocations
<1>. QED
  BY <1>1, ThreadTypeStep, PTL DEF ThreadSpec

\* on_thread_pause has always run before a worker sleeps or ends, even when a
\* second worker has leaked: what it flushes or closes is not left open.
THEOREM PauseCallback == ThreadSpec => []PauseCallbackRuns
<1>1. ThreadInit => Flushing
  BY DEF ThreadInit, Flushing
<1>2. Flushing => PauseCallbackRuns
  BY DEF Flushing, PauseCallbackRuns
<1>. QED
  BY <1>1, <1>2, FlushingStep, ThreadTypeCorrect, PTL DEF ThreadSpec

\* No object of any owner has two threads before a start that found the first
\* pausing, and an owner outside of MayOverwrite never makes such a start: one that
\* starts once has one thread even if that pauses itself.
THEOREM OneThread == ThreadSpec => []OneWorker
<1>1. ThreadInit => SingleStart
  BY DEF ThreadInit, SingleStart, OneWorker, Live
<1>2. SingleStart => OneWorker
  BY DEF SingleStart
<1>. QED
  BY <1>1, <1>2, SingleStartStep, ThreadTypeCorrect, PTL DEF ThreadSpec

=============================================================================
