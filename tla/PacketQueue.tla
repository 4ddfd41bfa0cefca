---------------------------- MODULE PacketQueue -----------------------------
(***************************************************************************)
(* AbstractQueue (src/src/core/abstractqueue.h), the queue between every   *)
(* two stages of the library, with the threads that use one.               *)
(*                                                                         *)
(* push_one, wait_..._push and get_latest read the queue before they take  *)
(* its mutex, so each is several steps; a step between two of them belongs *)
(* to another thread.  A packet is represented by its number in the order  *)
(* of the pushes.                                                          *)
(***************************************************************************)
EXTENDS Integers, Sequences, FiniteSets

CONSTANTS
    Wirings,    \* how the queues of the library are used, see below
    Sizes,      \* arguments of set_max_size (0 is ignored by the code)
    DefaultMax, \* _max_size after construction (10 in the code)
    MaxPush     \* bound on the packets pushed in a behaviour

(***************************************************************************)
(* A wiring names the threads that push into the queue and those that read *)
(* it, and says how these read: with get_latest or with get_next, and after*)
(* a wait with a timeout (wait_for_resource_push) or without one           *)
(* (wait_resource_push).                                                   *)
(***************************************************************************)
ASSUME WiringAssumption ==
    /\ \A w \in Wirings : /\ IsFiniteSet(w.producers) /\ w.producers # {}
                          /\ w.readers # {}
                          /\ w.latest \in BOOLEAN
                          /\ w.timed \in BOOLEAN
    /\ \A w \in Wirings : w.latest => Cardinality(w.producers) = 1

ASSUME SizeAssumption ==
    /\ DefaultMax \in Nat \ {0, 1}
    /\ Sizes \subseteq Nat /\ 1 \notin Sizes
    /\ MaxPush \in Nat

VARIABLES
    wiring,     \* chosen once
    queue,      \* _queue
    maxSize,    \* _max_size
    largest,    \* the largest value _max_size has had
    ppc,        \* ppc[p]: where producer p is in push_one
    rpc,        \* rpc[r]: where reader r is
    seen,       \* seen[r]: taken at the test that r's get_latest made last
    pushed,     \* packets pushed so far
    taken,      \* number of the packet a reader got last, 0 before the first
    broken      \* front() or pop() of an empty std::queue: anything may happen next

vars == <<wiring, queue, maxSize, largest, ppc, rpc, seen, pushed, taken, broken>>

AllProducers == UNION {w.producers : w \in Wirings}
AllReaders == UNION {w.readers : w \in Wirings}
Producers == wiring.producers
Readers == wiring.readers
In(loc) == {p \in Producers : ppc[p] = loc}

TypeOK ==
    /\ wiring \in Wirings
    /\ queue \in Seq(1..pushed)
    /\ maxSize \in Nat \ {0, 1} /\ largest \in Nat /\ maxSize <= largest
    /\ ppc \in [AllProducers -> {"idle", "full?", "erase", "push"}]
    /\ \A p \in AllProducers \ Producers : ppc[p] = "idle"
    /\ rpc \in [AllReaders -> {"data?", "block", "wait", "take", "latest"}]
    /\ \A r \in AllReaders : rpc[r] = "latest" => wiring.latest
    /\ seen \in [AllReaders -> Nat]
    /\ pushed \in Nat
    /\ taken \in 0..pushed
    /\ broken \in BOOLEAN

Init ==
    /\ wiring \in Wirings
    /\ queue = <<>>
    /\ maxSize = DefaultMax /\ largest = DefaultMax
    /\ ppc = [p \in AllProducers |-> "idle"]
    /\ rpc = [r \in AllReaders |-> "data?"]
    /\ seen = [r \in AllReaders |-> 0]
    /\ pushed = 0 /\ taken = 0
    /\ broken = FALSE

(***************************************************************************)
(* push_one                                                                *)
(***************************************************************************)
CallPush(p) ==
    /\ p \in Producers /\ ppc[p] = "idle"
    /\ pushed + Cardinality(Producers \ In("idle")) < MaxPush
    /\ ppc' = [ppc EXCEPT ![p] = "full?"]
    /\ UNCHANGED <<wiring, queue, maxSize, largest, rpc, seen, pushed, taken, broken>>

\* mutant: the test is off by one
TestFull_OffByOne(p) ==
    /\ ppc[p] = "full?"
    /\ ppc' = [ppc EXCEPT ![p] = IF Len(queue) > maxSize THEN "erase" ELSE "push"]
    /\ UNCHANGED <<wiring, queue, maxSize, largest, rpc, seen, pushed, taken, broken>>

\* the loop's test reads size() without the mutex
TestFull(p) ==
    /\ ppc[p] = "full?"
    /\ ppc' = [ppc EXCEPT ![p] = IF Len(queue) >= maxSize THEN "erase" ELSE "push"]
    /\ UNCHANGED <<wiring, queue, maxSize, largest, rpc, seen, pushed, taken, broken>>

\* mutants: the wrong end of the queue is erased; all of it is erased
EraseFirst_Newest(p) ==
    /\ ppc[p] = "erase"
    /\ ppc' = [ppc EXCEPT ![p] = "full?"]
    /\ queue' = IF queue = <<>> THEN queue ELSE SubSeq(queue, 1, Len(queue) - 1)
    /\ UNCHANGED <<wiring, maxSize, largest, rpc, seen, pushed, taken, broken>>

EraseFirst_All(p) ==
    /\ ppc[p] = "erase"
    /\ ppc' = [ppc EXCEPT ![p] = "full?"]
    /\ queue' = <<>>
    /\ UNCHANGED <<wiring, maxSize, largest, rpc, seen, pushed, taken, broken>>

EraseFirst(p) ==
    /\ ppc[p] = "erase"
    /\ ppc' = [ppc EXCEPT ![p] = "full?"]
    /\ queue' = IF queue = <<>> THEN queue ELSE Tail(queue)
    /\ UNCHANGED <<wiring, maxSize, largest, rpc, seen, pushed, taken, broken>>

\* notify_one wakes one of the readers that wait, if there is one
NotifyReader ==
    LET Waiting == {r \in Readers : rpc[r] = "wait"}
    IN  \/ Waiting = {} /\ rpc' = rpc
        \/ \E r \in Waiting : rpc' = [rpc EXCEPT ![r] = "take"]

\* under the mutex: append and notify
Push(p) ==
    /\ ppc[p] = "push"
    /\ ppc' = [ppc EXCEPT ![p] = "idle"]
    /\ pushed' = pushed + 1
    /\ queue' = Append(queue, pushed')
    /\ NotifyReader
    /\ UNCHANGED <<wiring, maxSize, largest, seen, taken, broken>>

(***************************************************************************)
(* A reader: wait, then read                                               *)
(***************************************************************************)
Moves(r, from, to) ==
    /\ r \in Readers /\ rpc[r] = from
    /\ rpc' = [rpc EXCEPT ![r] = to]

\* has_data() is called without the mutex.  After a read of an empty queue the
\* model says no more of the readers.
HasData(r) ==
    /\ ~broken
    /\ Moves(r, "data?", IF queue # <<>> THEN "take" ELSE "block")
    /\ UNCHANGED <<wiring, queue, maxSize, largest, ppc, seen, pushed, taken, broken>>

Block(r) ==
    /\ Moves(r, "block", "wait")
    /\ UNCHANGED <<wiring, queue, maxSize, largest, ppc, seen, pushed, taken, broken>>

\* mutant: the wait is resumed after a timeout without a new look at the queue
Timeout_WaitsAgain(r) ==
    /\ wiring.timed /\ Moves(r, "wait", "block")
    /\ UNCHANGED <<wiring, queue, maxSize, largest, ppc, seen, pushed, taken, broken>>

\* a reader of newest packets reads only after a wait that did not time out
Timeout(r) ==
    /\ wiring.timed
    /\ \/ Moves(r, "wait", "data?")
       \/ ~wiring.latest /\ Moves(r, "wait", "take")
    /\ UNCHANGED <<wiring, queue, maxSize, largest, ppc, seen, pushed, taken, broken>>

\* exit_wait_resource() of another thread, or a spurious wake-up
WakeUp(r) ==
    /\ Moves(r, "wait", "take")
    /\ UNCHANGED <<wiring, queue, maxSize, largest, ppc, seen, pushed, taken, broken>>

GetNext(r) ==
    /\ ~wiring.latest /\ Moves(r, "take", "data?")
    /\ IF queue = <<>>
       THEN UNCHANGED <<queue, taken>>
       ELSE queue' = Tail(queue) /\ taken' = Head(queue)
    /\ UNCHANGED <<wiring, maxSize, largest, ppc, seen, pushed, broken>>

\* get_latest() tests for an empty queue without the mutex ...
GetLatestTest(r) ==
    /\ wiring.latest /\ Moves(r, "take", IF queue = <<>> THEN "data?" ELSE "latest")
    /\ seen' = [seen EXCEPT ![r] = taken]
    /\ UNCHANGED <<wiring, queue, maxSize, largest, ppc, pushed, taken, broken>>

\* ... and takes the last packet under it, whatever happened in between
GetLatest(r) ==
    /\ Moves(r, "latest", "data?")
    /\ IF queue = <<>>
       THEN broken' = TRUE /\ UNCHANGED <<queue, taken>>
       ELSE queue' = <<>> /\ taken' = queue[Len(queue)] /\ UNCHANGED broken
    /\ UNCHANGED <<wiring, maxSize, largest, ppc, seen, pushed>>

SetMaxSize ==
    /\ \E n \in Sizes \ {0} :
          /\ maxSize' = n
          /\ largest' = IF n > largest THEN n ELSE largest
    /\ UNCHANGED <<wiring, queue, ppc, rpc, seen, pushed, taken, broken>>

-----------------------------------------------------------------------------
ProducerStep(p) == TestFull(p) \/ EraseFirst(p) \/ Push(p)

ReaderStep(r) ==
    HasData(r) \/ Block(r) \/ Timeout(r) \/ GetNext(r) \/ GetLatestTest(r) \/ GetLatest(r)

Next ==
    \/ \E p \in AllProducers : CallPush(p) \/ ProducerStep(p)
    \/ \E r \in AllReaders : ReaderStep(r) \/ WakeUp(r)
    \/ SetMaxSize

Spec == Init /\ [][Next]_vars

\* The readers' threads are scheduled and their timed waits end; a producer that
\* is inside push_one goes on, but none has to call it.
FairSpec == Spec /\ \A r \in AllReaders : WF_vars(ReaderStep(r))

-----------------------------------------------------------------------------
(* Properties *)

\* The queue overshoots the largest maximum it was given by less than one
\* packet per producer: every producer may have seen room for one more before
\* any of them pushed.
LengthBound == Len(queue) < largest + Cardinality(Producers)

\* get_latest tests before it locks.  What it may find empty when it has the
\* lock was emptied by another reader since its test, and never by the producer,
\* whose erase_first does not take the last packet.  A queue with one reader is
\* therefore never read empty; one with two readers may be.
NoEmptyPop ==
    /\ \A r \in Readers : rpc[r] = "latest" /\ queue = <<>> => taken > seen[r]
    /\ broken => \E q, r \in Readers : q # r

\* The queue is a lossy FIFO: no packet is delivered twice or out of order, and
\* only the oldest one is ever dropped to make room.
Fifo == INSTANCE LossyFifo
            WITH waiting <- {queue[i] : i \in DOMAIN queue}, put <- pushed

FifoSpec == Fifo!Spec

\* With a timed wait no packet stays in the queue for ever, although the
\* notification of its push may be lost between has_data() and the wait.  Where
\* two readers use get_latest, as long as none has read an empty queue.
NothingStays ==
    \A n \in 1..MaxPush :
        (wiring.timed /\ \E i \in DOMAIN queue : queue[i] = n)
            ~> (broken \/ \A i \in DOMAIN queue : queue[i] # n)

=============================================================================
