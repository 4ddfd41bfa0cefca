------------------------ MODULE DeviceCaptureProofs -------------------------
(***************************************************************************)
(* What holds of DeviceCapture for any devices and any number of threads.  *)
(***************************************************************************)
EXTENDS DeviceCapture, FiniteSetTheorems, TLAPS

OpRecs == [op : Ops, on : Owners, arg : BOOLEAN]

\* Operations of the application that stop device d, or may start a device
Stops(x, d) == x.on = d /\ ~x.arg /\ x.op \in {"set", "start", "stop"}
Starts(x) == x.op \in {"set", "start"} /\ x.arg

\* Operations that see to the factory's thread
Serves(x) == x.on = "factory" /\ x.op \in {"serve", "notify", "thread"}

\* Devices first, then the factory, then the destructors; a thread is started as
\* soon as it is called for.
Ordered ==
    /\ \A i \in DOMAIN todo :
          /\ todo[i].op = "thread" => i = 1
          /\ todo[i].op \in {"set", "start", "stop", "reopen"} => todo[i].on \in Devices
          /\ todo[i].op \in {"serve", "notify"} => todo[i].on = "factory"
          /\ todo[i].op = "stop" => ~todo[i].arg
    /\ \A i, j \in DOMAIN todo :
          i < j /\ (Serves(todo[i]) \/ todo[i].op = "exit") => todo[j].op = "exit"

\* What runs against the settings is still to be stopped, and what is still to be
\* started agrees with them.
Switched ==
    /\ \A i \in DOMAIN todo : Starts(todo[i]) => on /\ open[todo[i].on]
    /\ \A d \in Devices : running[d] =>
          (on /\ open[d]) \/ \E i \in DOMAIN todo : Stops(todo[i], d)

\* Objects whose start_thread is called only when they are not to pause
Guarded(o) == o \in Devices \/ kind = "audio"

\* While devices open, such an object has no thread but the one it points to, and
\* a thread that is about to read has a device.
Alone ==
    failed \/
        /\ ~nullRead
        /\ \A o \in Owners : Guarded(o) =>
              \A i \in Slots(o) : loc[o][i] \notin {"none", "done"} => i = latest[o]
        /\ \A d \in Devices : \A i \in Slots(d) : loc[d][i] = "read" => ctx[d]
        /\ \A i \in DOMAIN todo :
              todo[i].op = "thread" /\ Guarded(todo[i].on) => ~Pause(todo[i].on)

\* After the destructor's call the devices that run are still to be stopped, and
\* threads are told to end only when none does.
Ending ==
    /\ \A i \in DOMAIN todo : todo[i].op = "exit" => destroyed
    /\ \A o \in Owners : exiting[o] => destroyed /\ \A d \in Devices : ~running[d]
    /\ destroyed =>
          /\ \A i \in DOMAIN todo : ~Starts(todo[i])
          /\ \A d \in Devices : running[d] => \E i \in DOMAIN todo : Stops(todo[i], d)

\* A device that runs, or will, has a factory with a thread, or one to come.
Served ==
    /\ latest["factory"] # 0 => loc["factory"][latest["factory"]] # "none"
    /\ (\E i \in DOMAIN todo : Starts(todo[i])) => \E i \in DOMAIN todo : Serves(todo[i])
    /\ kind = "video" /\ (\E d \in Devices : running[d]) =>
          Live("factory") # {} \/ \E i \in DOMAIN todo : Serves(todo[i])

IInv == TypeOK /\ Ordered /\ Switched /\ Alone /\ Ending /\ Served

-----------------------------------------------------------------------------
\* Min of a set of natural numbers is one of its elements.
UpTo(S, k) == {y \in S : y <= k}

LEMMA MinIn ==
    ASSUME NEW S, S \subseteq Nat, S # {}
    PROVE  Min(S) \in S
<1> DEFINE F == {UpTo(S, k) : k \in S}
<1>1. F \subseteq FiniteSubsetsOf(Nat)
  <2> SUFFICES ASSUME NEW k \in S
               PROVE  UpTo(S, k) \in FiniteSubsetsOf(Nat)
      OBVIOUS
  <2>1. k \in Nat /\ UpTo(S, k) \subseteq Nat
      BY DEF UpTo
  <2>2. \A y \in UpTo(S, k) : y \in 0..k
      BY <2>1 DEF UpTo
  <2>3. IsFiniteSet(0..k)
      BY <2>1, FS_Interval
  <2>4. IsFiniteSet(UpTo(S, k))
      BY <2>2, <2>3, FS_Subset
  <2> QED
      BY <2>1, <2>4 DEF FiniteSubsetsOf
<1>2. PICK T \in F : \A U \in F : <<U, T>> \notin StrictSubsetOrdering(Nat)
  <2>1. F # {}
      OBVIOUS
  <2> HIDE DEF F
  <2> QED
      BY <1>1, <2>1, FS_StrictSubsetOrderingWellFounded, WFMin
<1>3. PICK k \in S : T = UpTo(S, k)
    OBVIOUS
<1>4. \A y \in S : k <= y
  <2> SUFFICES ASSUME NEW y \in S, ~(k <= y)
               PROVE  FALSE
      OBVIOUS
  <2>1. y \in Nat /\ k \in Nat
      OBVIOUS
  <2>2. (\A z \in UpTo(S, y) : z \in UpTo(S, k)) /\ k \in UpTo(S, k) /\ k \notin UpTo(S, y)
      BY <2>1 DEF UpTo
  <2>3. UpTo(S, y) \subseteq Nat /\ UpTo(S, k) \subseteq Nat
      BY DEF UpTo
  <2>4. UpTo(S, y) \in F
      OBVIOUS
  <2> HIDE DEF F
  <2> QED
      BY <1>2, <1>3, <2>2, <2>3, <2>4 DEF StrictSubsetOrdering
<1> QED
    BY <1>4 DEF Min

\* What is left of a list after its first element.
LEMMA TailOf ==
    ASSUME NEW S, NEW s \in Seq(S), s # <<>>
    PROVE  /\ Tail(s) \in Seq(S)
           /\ \A i \in DOMAIN Tail(s) : i + 1 \in DOMAIN s /\ Tail(s)[i] = s[i + 1]
           /\ \A i \in DOMAIN s : i # 1 => i - 1 \in DOMAIN Tail(s) /\ Tail(s)[i - 1] = s[i]
  OBVIOUS

\* To put an element before the rest of a list is to replace the first one.
LEMMA PushTail ==
    ASSUME NEW S, NEW s \in Seq(S), s # <<>>, NEW x \in S
    PROVE  <<x>> \o Tail(s) = [s EXCEPT ![1] = x] /\ [s EXCEPT ![1] = x] \in Seq(S)
<1> DEFINE a == <<x>> \o Tail(s)
           b == [s EXCEPT ![1] = x]
<1>1. a \in Seq(S) /\ b \in Seq(S) /\ Len(a) = Len(s) /\ Len(b) = Len(s)
    OBVIOUS
<1>2. \A i \in 1..Len(s) : a[i] = b[i]
    OBVIOUS
<1> QED
    BY <1>1, <1>2

\* The numbers of an object's threads.
LEMMA SlotsFacts ==
    ASSUME NEW o \in Owners
    PROVE  Slots(o) \subseteq Nat \ {0} /\ Free(o) \subseteq Slots(o)
BY DeviceAssumption DEF Slots, Free

LEMMA OpFacts ==
    ASSUME NEW op \in Ops, NEW o \in Owners, NEW b \in BOOLEAN
    PROVE  Op(op, o, b) \in OpRecs
BY DEF OpRecs, Op

\* A list with one operation for each device is a list of operations.
LEMMA EachIsList ==
    ASSUME NEW T \in SUBSET OpRecs, NEW s \in [1..Cardinality(Devices) -> T]
    PROVE  s \in Seq(OpRecs)
BY FS_CardinalityType, DeviceAssumption

\* Two lists with two operations in between.
LEMMA ThreeParts ==
    ASSUME NEW S, NEW s \in Seq(S), NEW x \in S, NEW y \in S, NEW t \in Seq(S)
    PROVE  LET l == s \o <<x, y>> \o t
               n == Len(s)
           IN  /\ l \in Seq(S) /\ n \in Nat
               /\ \A i \in DOMAIN s : i <= n /\ i \in DOMAIN l /\ l[i] = s[i]
               /\ n + 1 \in DOMAIN l /\ l[n + 1] = x
               /\ n + 2 \in DOMAIN l /\ l[n + 2] = y
               /\ \A i \in DOMAIN l : \/ i \in DOMAIN s /\ i <= n /\ l[i] = s[i]
                                      \/ i = n + 1 \/ i = n + 2
                                      \/ i > n + 2 /\ i - n - 2 \in DOMAIN t /\ l[i] = t[i - n - 2]
<1> DEFINE l == s \o <<x, y>> \o t
           n == Len(s)
<1>1. s \o <<x, y>> \in Seq(S) /\ Len(s \o <<x, y>>) = n + 2 /\ n \in Nat /\ Len(t) \in Nat
  OBVIOUS
<1>2. l \in Seq(S) /\ Len(l) = n + 2 + Len(t)
  BY <1>1
<1>3. \A i \in 1..(n + 2) : l[i] = (s \o <<x, y>>)[i]
  BY <1>1
<1>4. /\ \A i \in 1..n : (s \o <<x, y>>)[i] = s[i]
      /\ (s \o <<x, y>>)[n + 1] = x /\ (s \o <<x, y>>)[n + 2] = y
  OBVIOUS
<1>5. \A i \in (n + 3)..(n + 2 + Len(t)) : l[i] = t[i - n - 2]
  BY <1>1
<1>6. DOMAIN l = 1..(n + 2 + Len(t)) /\ DOMAIN s = 1..n /\ DOMAIN t = 1..Len(t)
  BY <1>2
<1> HIDE DEF l, n
<1> QED
  BY <1>1, <1>2, <1>3, <1>4, <1>5, <1>6 DEF l, n

LEMMA TypeInit ==
    Init => TypeOK
<1> SUFFICES ASSUME Init PROVE TypeOK
  OBVIOUS
<1>1. kind \in {"video", "audio"} /\ on \in BOOLEAN /\ asked \in {"none", "start", "stop"}
  BY DEF Init
<1>2. \A f \in {open, running, ctx} : f \in [Devices -> BOOLEAN]
  BY DEF Init
<1>3. /\ DOMAIN loc = Owners /\ DOMAIN latest = Owners /\ exiting \in [Owners -> BOOLEAN]
      /\ \A o \in Owners :
            /\ loc[o] = [i \in Slots(o) |-> "none"] /\ latest[o] = 0
  BY DEF Init
<1>4. todo \in Seq([op : Ops, on : Owners, arg : BOOLEAN])
  BY DEF Init
<1>5. destroyed \in BOOLEAN /\ failed \in BOOLEAN /\ nullRead \in BOOLEAN
  BY DEF Init
<1> QED
  BY <1>1, <1>2, <1>3, <1>4, <1>5 DEF TypeOK

\* The lists that calls make
LEMMA CallLists ==
    ASSUME TypeOK, SetEnable \/ StartStop \/ ChangeDevice \/ Destroy
    PROVE  todo' \in Seq(OpRecs)
<1>1. CASE SetEnable
  BY <1>1 DEF SetEnable, TypeOK, OpRecs, Op, Ops, Owners
<1>2. CASE StartStop
  <2>a. PICK b \in BOOLEAN :
           /\ on' = b
           /\ \E sets \in Each("set", LAMBDA d : b /\ open[d]) :
                 todo' = Append(sets, Op("serve", "factory", FALSE))
    BY <1>2 DEF StartStop
  <2>1. PICK sets \in Each("set", LAMBDA d : b /\ open[d]) :
           todo' = Append(sets, Op("serve", "factory", FALSE))
    BY <2>a
  <2>2. {Op("set", d, b /\ open[d]) : d \in Devices} \in SUBSET OpRecs
    BY DEF TypeOK, OpRecs, Op, Ops, Owners
  <2>3. sets \in [1..Cardinality(Devices) -> {Op("set", d, b /\ open[d]) : d \in Devices}]
    BY <2>1 DEF Each
  <2>4. sets \in Seq(OpRecs)
    BY <2>2, <2>3, EachIsList
  <2> QED
    BY <2>1, <2>4 DEF OpRecs, Op, Ops, Owners
<1>3. CASE ChangeDevice
  BY <1>3 DEF ChangeDevice, OpRecs, Op, Ops, Owners
<1>4. CASE Destroy
  <2>1. PICK sets \in Each("set", LAMBDA d : FALSE), ends \in Each("exit", LAMBDA d : FALSE) :
          todo' = sets \o <<Op("serve", "factory", FALSE), Op("exit", "factory", FALSE)>> \o ends
    BY <1>4 DEF Destroy
  <2>a. {Op("set", d, FALSE) : d \in Devices} \in SUBSET OpRecs
    BY OpFacts DEF Ops, Owners
  <2>2. {Op("exit", d, FALSE) : d \in Devices} \in SUBSET OpRecs
    BY OpFacts DEF Ops, Owners
  <2>3. /\ sets \in [1..Cardinality(Devices) -> {Op("set", d, FALSE) : d \in Devices}]
        /\ ends \in [1..Cardinality(Devices) -> {Op("exit", d, FALSE) : d \in Devices}]
    BY <2>1 DEF Each
  <2>4. sets \in Seq(OpRecs) /\ ends \in Seq(OpRecs)
    BY <2>a, <2>2, <2>3, EachIsList
  <2>5. Op("serve", "factory", FALSE) \in OpRecs /\ Op("exit", "factory", FALSE) \in OpRecs
    BY DEF OpRecs, Op, Ops, Owners
  <2> QED
    BY <2>1, <2>4, <2>5, ThreeParts
<1> QED
  BY <1>1, <1>2, <1>3, <1>4

\* The parts of the type invariant
Flags == /\ kind \in {"video", "audio"} /\ asked \in {"none", "start", "stop"}
         /\ on \in BOOLEAN /\ destroyed \in BOOLEAN
         /\ failed \in BOOLEAN /\ nullRead \in BOOLEAN

OfDevices == /\ open \in [Devices -> BOOLEAN] /\ running \in [Devices -> BOOLEAN]
             /\ ctx \in [Devices -> BOOLEAN]

Places == {"none", "head", "parked", "run", "read", "done"}

OfThreads ==
    /\ DOMAIN loc = Owners /\ DOMAIN latest = Owners /\ exiting \in [Owners -> BOOLEAN]
    /\ \A o \in Owners :
          /\ loc[o] \in [Slots(o) -> Places]
          /\ latest[o] \in Slots(o) \cup {0}
          /\ ~exiting[o] => \A i \in Slots(o) : loc[o][i] # "done"

LEMMA TypeParts ==
    /\ TypeOK <=> Flags /\ OfDevices /\ OfThreads /\ todo \in Seq(OpRecs)
    /\ TypeOK' <=> Flags' /\ OfDevices' /\ OfThreads' /\ todo' \in Seq(OpRecs)
BY DEF TypeOK, Flags, OfDevices, OfThreads, Places, OpRecs

\* The operation that comes next
LEMMA NextOp ==
    ASSUME TypeOK, todo # <<>>
    PROVE  /\ todo \in Seq(OpRecs) /\ todo[1] \in OpRecs /\ Device \in Owners
           /\ todo[1].op \in Ops /\ todo[1].arg \in BOOLEAN
           /\ 1 \in DOMAIN todo
<1>1. todo \in Seq(OpRecs)
  BY TypeParts
<1>2. 1 \in DOMAIN todo /\ todo[1] \in OpRecs
  BY <1>1
<1> QED
  BY <1>1, <1>2 DEF OpRecs, Device

\* A thread moves, and ends only if it was told to.
LEMMA ThreadMoves ==
    ASSUME OfThreads, NEW o \in Owners, NEW i, NEW v \in Places, v = "done" => exiting[o],
           loc' = [loc EXCEPT ![o][i] = v], UNCHANGED <<latest, exiting>>
    PROVE  OfThreads'
<1>1. DOMAIN loc' = Owners
  BY DEF OfThreads
<1>2. \A p \in Owners : loc'[p] = IF p = o THEN [loc[o] EXCEPT ![i] = v] ELSE loc[p]
  BY DEF OfThreads
<1>3. \A p \in Owners : loc'[p] \in [Slots(p) -> Places]
  BY <1>2 DEF OfThreads
<1>4. \A p \in Owners : ~exiting[p] => \A j \in Slots(p) : loc'[p][j] # "done"
  BY <1>2 DEF OfThreads
<1> QED
  BY <1>1, <1>3, <1>4 DEF OfThreads

\* A thread is started.
LEMMA ThreadStarts ==
    ASSUME OfThreads, NEW o \in Owners, NEW i \in Slots(o),
           loc' = [loc EXCEPT ![o][i] = "head"], latest' = [latest EXCEPT ![o] = i],
           UNCHANGED exiting
    PROVE  OfThreads'
<1>1. DOMAIN loc' = Owners /\ DOMAIN latest' = Owners
  BY DEF OfThreads
<1>2. \A p \in Owners : loc'[p] = IF p = o THEN [loc[o] EXCEPT ![i] = "head"] ELSE loc[p]
  BY DEF OfThreads
<1>3. \A p \in Owners : latest'[p] = IF p = o THEN i ELSE latest[p]
  BY DEF OfThreads
<1>5. \A p \in Owners : loc'[p] \in [Slots(p) -> Places] /\ latest'[p] \in Slots(p) \cup {0}
  BY <1>2, <1>3 DEF OfThreads, Places
<1>4. \A p \in Owners : ~exiting[p] => \A j \in Slots(p) : loc'[p][j] # "done"
  BY <1>2 DEF OfThreads
<1> QED
  BY <1>1, <1>5, <1>4 DEF OfThreads

\* The list after an operation: a call to a thread takes the operation's place, or
\* nothing does.
Onward == todo' = Tail(todo) \/ \E o \in Owners : todo' = [todo EXCEPT ![1] = Op("thread", o, FALSE)]

LEMMA Lists ==
    ASSUME TypeOK, todo # <<>>
    PROVE  /\ <<>> \o Tail(todo) = Tail(todo)
           /\ \A o \in Owners : <<Op("thread", o, FALSE)>> \o Tail(todo)
                                = [todo EXCEPT ![1] = Op("thread", o, FALSE)]
           /\ Onward => todo' \in Seq(OpRecs)
<1>1. \A o \in Owners : Op("thread", o, FALSE) \in OpRecs
  BY OpFacts DEF Ops
<1>2. todo \in Seq(OpRecs) /\ Tail(todo) \in Seq(OpRecs)
  BY NextOp
<1>3. \A o \in Owners : <<Op("thread", o, FALSE)>> \o Tail(todo)
                                = [todo EXCEPT ![1] = Op("thread", o, FALSE)]
  BY <1>1, <1>2, PushTail
<1>4. \A o \in Owners : [todo EXCEPT ![1] = Op("thread", o, FALSE)] \in Seq(OpRecs)
  BY <1>1, <1>2, PushTail
<1>5. <<>> \o Tail(todo) = Tail(todo)
  BY <1>2
<1>6. Onward => todo' \in Seq(OpRecs)
  BY <1>2, <1>4 DEF Onward
<1> QED
  BY <1>3, <1>5, <1>6

LEMMA OpenDeviceType ==
    ASSUME OfDevices, failed \in BOOLEAN, NEW d, OpenDevice(d)
    PROVE  ctx' \in [Devices -> BOOLEAN] /\ failed' \in BOOLEAN
BY DEF OpenDevice, OfDevices

LEMMA OperationType ==
    ASSUME TypeOK, Start \/ Stop \/ Set \/ Serve \/ Notify \/ StartThread \/ ExitThread \/ Reopen
    PROVE  TypeOK'
<1> USE TypeParts
<1>0. /\ todo # <<>> /\ Device \in Owners /\ todo[1].arg \in BOOLEAN /\ "factory" \in Owners
      /\ todo \in Seq(OpRecs)
  BY NextOp DEF Start, Stop, Set, Serve, Notify, StartThread, ExitThread, Reopen, IsNext, Owners
<1>1. CASE Start \/ Stop \/ Set
  <2>1. running' \in [Devices -> BOOLEAN] /\ Onward
    BY <1>0, <1>1, Lists DEF Start, Stop, Set, StartCapture, Onward, OfDevices
  <2>2. UNCHANGED <<kind, on, asked, open, ctx, loc, latest, exiting, destroyed, failed, nullRead>>
    BY <1>1 DEF Start, Stop, Set
  <2> QED
    BY <1>0, <2>1, <2>2, Lists DEF Flags, OfDevices, OfThreads
<1>2. CASE Serve \/ Notify
  <2>1. Onward
    BY <1>0, <1>2, Lists DEF Serve, Notify, ServeOps, NotifyOps, Onward
  <2>2. UNCHANGED <<kind, on, asked, open, running, ctx, loc, latest, exiting, destroyed, failed, nullRead>>
    BY <1>2 DEF Serve, Notify
  <2> QED
    BY <1>0, <2>1, <2>2, Lists DEF Flags, OfDevices, OfThreads
<1>3. CASE StartThread
  <2>1. /\ UNCHANGED <<kind, on, asked, open, running, ctx, exiting, destroyed, failed, nullRead>>
        /\ todo' = Tail(todo)
    BY <1>3 DEF StartThread
  <2>2. CASE UNCHANGED <<loc, latest>>
    BY <1>0, <2>1, <2>2, Lists DEF Flags, OfDevices, OfThreads, Onward
  <2>3. CASE ~UNCHANGED <<loc, latest>>
    <3> DEFINE i == Min(Free(Device))
    <3>1. /\ Free(Device) # {}
          /\ loc' = [loc EXCEPT ![Device][i] = "head"]
          /\ latest' = [latest EXCEPT ![Device] = i]
      BY <1>3, <2>3 DEF StartThread
    <3>2. i \in Slots(Device)
      BY <1>0, <3>1, MinIn, SlotsFacts
    <3> HIDE DEF i
    <3>7. OfThreads'
      BY <1>0, <2>1, <3>1, <3>2, ThreadStarts
    <3> QED
      BY <1>0, <2>1, <3>7, Lists DEF Flags, OfDevices, Onward
  <2> QED
    BY <2>2, <2>3
<1>4. CASE ExitThread
  <2>1. /\ UNCHANGED <<kind, on, asked, open, running, ctx, loc, destroyed, failed, nullRead>>
        /\ todo' = todo \/ todo' = Tail(todo)
    BY <1>4 DEF ExitThread
  <2>2. \/ exiting' = [exiting EXCEPT ![Device] = TRUE] /\ UNCHANGED latest
        \/ latest' = [latest EXCEPT ![Device] = 0] /\ UNCHANGED exiting
    BY <1>4 DEF ExitThread
  <2>3. OfThreads'
    BY <2>1, <2>2 DEF OfThreads
  <2> QED
    BY <1>0, <2>1, <2>3, Lists DEF Flags, OfDevices, Onward
<1>5. CASE Reopen
  <2>1. /\ OpenDevice(Device)
        /\ todo' = Tail(todo)
        /\ UNCHANGED <<kind, on, asked, open, running, loc, latest, exiting, destroyed, nullRead>>
    BY <1>5 DEF Reopen
  <2>2. ctx' \in [Devices -> BOOLEAN] /\ failed' \in BOOLEAN
    BY <2>1, OpenDeviceType DEF Flags
  <2> QED
    BY <1>0, <2>1, <2>2, Lists DEF Flags, OfDevices, OfThreads, Onward
<1> QED
  BY <1>1, <1>2, <1>3, <1>4, <1>5

LEMMA CallType ==
    ASSUME TypeOK, SetEnable \/ StartStop \/ ChangeDevice \/ Destroy
    PROVE  TypeOK'
<1>1. todo' \in Seq(OpRecs)
  BY CallLists
<1>2. UNCHANGED <<kind, running, ctx, loc, latest, exiting, failed, nullRead>>
  BY DEF SetEnable, StartStop, ChangeDevice, Destroy
<1>3. /\ on' \in BOOLEAN /\ destroyed' \in BOOLEAN /\ open' \in [Devices -> BOOLEAN]
      /\ asked' \in {"none", "start", "stop"}
  BY TypeParts DEF Flags, OfDevices, SetEnable, StartStop, ChangeDevice, Destroy
<1> QED
  BY <1>1, <1>2, <1>3, TypeParts DEF Flags, OfDevices, OfThreads

LEMMA ThreadType ==
    ASSUME TypeOK, ThreadStep
    PROVE  TypeOK'
<1> USE TypeParts
<1>1. ASSUME NEW o \in Owners, NEW i \in Slots(o), LoopHead(o, i) \/ Wake(o, i)
      PROVE  TypeOK'
  <2>1. UNCHANGED <<kind, on, asked, open, running, latest, exiting, todo, destroyed, failed, nullRead>>
    BY <1>1 DEF LoopHead, Wake
  <2>2. ctx' \in [Devices -> BOOLEAN]
    BY <1>1 DEF LoopHead, Wake, OfDevices
  <2>3. \E v \in Places : (v = "done" => exiting[o]) /\ loc' = [loc EXCEPT ![o][i] = v]
    BY <1>1 DEF LoopHead, Wake, Move, Places
  <2>4. OfThreads'
    BY <2>1, <2>3, ThreadMoves
  <2> QED
    BY <2>1, <2>2, <2>4 DEF Flags, OfDevices
<1>2. ASSUME NEW d \in Devices, NEW i \in Slots(d), TestContext(d, i)
      PROVE  TypeOK'
  <2>1. UNCHANGED <<kind, on, asked, open, latest, exiting, todo, destroyed, nullRead>>
    BY <1>2 DEF TestContext
  <2>2. ctx' \in [Devices -> BOOLEAN] /\ failed' \in BOOLEAN /\ running' \in [Devices -> BOOLEAN]
    BY <1>2, OpenDeviceType DEF TestContext, OfDevices, Flags
  <2>3. \E v \in Places : v # "done" /\ loc' = [loc EXCEPT ![d][i] = v]
    BY <1>2 DEF TestContext, Move, Places
  <2>4. OfThreads'
    BY <2>1, <2>3, ThreadMoves DEF Owners
  <2> QED
    BY <2>1, <2>2, <2>4 DEF Flags, OfDevices
<1>3. ASSUME NEW d \in Devices, NEW i \in Slots(d), ReadFrame(d, i)
      PROVE  TypeOK'
  <2>1. UNCHANGED <<kind, on, asked, open, running, ctx, latest, exiting, todo, destroyed, failed>>
    BY <1>3 DEF ReadFrame
  <2>2. nullRead' \in BOOLEAN
    BY <1>3, Zenon DEF ReadFrame, Flags
  <2>3. loc' = [loc EXCEPT ![d][i] = "head"]
    BY <1>3 DEF ReadFrame, Move
  <2>4. OfThreads'
    BY <2>1, <2>3, ThreadMoves DEF Owners, Places
  <2> QED
    BY <2>1, <2>2, <2>4 DEF Flags, OfDevices
<1>4. ASSUME NEW i \in Slots("factory"), Process(i)
      PROVE  TypeOK'
  <2>1. /\ UNCHANGED <<kind, on, asked, open, running, ctx, latest, exiting, todo, destroyed, failed, nullRead>>
        /\ loc' = [loc EXCEPT !["factory"][i] = "head"]
    BY <1>4 DEF Process, Move
  <2>2. OfThreads'
    BY <2>1, ThreadMoves DEF Owners, Places
  <2> QED
    BY <2>1, <2>2 DEF Flags, OfDevices
<1> QED
  BY <1>1, <1>2, <1>3, <1>4 DEF ThreadStep

LEMMA TypeStep ==
    TypeOK /\ [Next]_vars => TypeOK'
<1> SUFFICES ASSUME TypeOK, [Next]_vars PROVE TypeOK'
  OBVIOUS
<1>1. CASE UNCHANGED vars
  BY <1>1 DEF TypeOK, vars, Slots
<1>2. CASE AppStep
  BY <1>2, CallType, OperationType DEF AppStep
<1>3. CASE ThreadStep
  BY <1>3, ThreadType
<1> QED
  BY <1>1, <1>2, <1>3 DEF Next

-----------------------------------------------------------------------------
(* What steps do to the list *)

\* The first operation is done with.
LEMMA Shrinks ==
    ASSUME TypeOK, todo # <<>>, todo' = Tail(todo)
    PROVE  /\ \A i \in DOMAIN todo' : i \in Nat \ {0} /\ i + 1 \in DOMAIN todo /\ todo'[i] = todo[i + 1]
           /\ \A i \in DOMAIN todo : i # 1 => i - 1 \in DOMAIN todo' /\ todo'[i - 1] = todo[i]
<1>1. todo \in Seq(OpRecs)
  BY NextOp
<1> QED
  BY <1>1

\* The first operation has become another one.
LEMMA Becomes ==
    ASSUME TypeOK, todo # <<>>, NEW x, todo' = [todo EXCEPT ![1] = x]
    PROVE  /\ DOMAIN todo' = DOMAIN todo /\ 1 \in DOMAIN todo /\ todo'[1] = x
           /\ \A i \in DOMAIN todo : i # 1 => todo'[i] = todo[i]
<1>1. todo \in Seq(OpRecs)
  BY NextOp
<1> QED
  BY <1>1

\* Steps of the threads
LEMMA ThreadKeeps ==
    ASSUME TypeOK, ThreadStep
    PROVE  /\ UNCHANGED <<kind, on, asked, open, todo, destroyed, latest, exiting>>
           /\ \A d \in Devices : running'[d] => running[d]
           /\ failed' \in BOOLEAN
           /\ failed => failed'
           /\ failed' \/ running' = running
<1>1. ASSUME NEW o \in Owners, NEW i \in Slots(o), LoopHead(o, i) \/ Wake(o, i)
      PROVE  UNCHANGED <<kind, on, asked, open, todo, destroyed, latest, exiting, running, failed>>
  BY <1>1 DEF LoopHead, Wake
<1>2. ASSUME NEW d \in Devices, NEW i \in Slots(d), TestContext(d, i)
      PROVE  /\ UNCHANGED <<kind, on, asked, open, todo, destroyed, latest, exiting>>
             /\ \A e \in Devices : running'[e] => running[e]
             /\ failed => failed'
             /\ failed' \/ running' = running
  BY <1>2 DEF TestContext, OpenDevice, TypeOK
<1>3. ASSUME NEW d \in Devices, NEW i \in Slots(d), ReadFrame(d, i)
      PROVE  UNCHANGED <<kind, on, asked, open, todo, destroyed, latest, exiting, running, failed>>
  BY <1>3 DEF ReadFrame
<1>4. ASSUME NEW i \in Slots("factory"), Process(i)
      PROVE  UNCHANGED <<kind, on, asked, open, todo, destroyed, latest, exiting, running, failed>>
  BY <1>4 DEF Process
<1>5. failed' \in BOOLEAN
  BY ThreadType, TypeParts DEF Flags
<1> QED
  BY <1>1, <1>2, <1>3, <1>4, <1>5 DEF ThreadStep

Operation == Start \/ Stop \/ Set \/ Serve \/ Notify \/ StartThread \/ ExitThread \/ Reopen

\* Steps of the application in a call: the operation asks for a thread, the thread
\* it is to end is told, or the operation is done with.
Asks(o) ==
    /\ todo' = [todo EXCEPT ![1] = Op("thread", o, FALSE)]
    /\ \/ Starts(todo[1]) /\ o = Device /\ running' = [running EXCEPT ![o] = TRUE]
       \/ /\ todo[1].op \in {"serve", "notify"} /\ o = "factory" /\ UNCHANGED running
          /\ kind = "video" \/ ~Pause(o)
    /\ UNCHANGED <<ctx, loc, latest, exiting, failed, nullRead>>

Tells ==
    /\ todo[1].op = "exit" /\ exiting' = [exiting EXCEPT ![Device] = TRUE]
    /\ UNCHANGED <<running, ctx, loc, latest, failed, nullRead, todo>>

IsDone ==
    /\ todo' = Tail(todo)
    /\ \/ UNCHANGED running
       \/ Stops(todo[1], Device) /\ running' = [running EXCEPT ![Device] = FALSE]
    /\ Stops(todo[1], Device) => ~running'[Device] \/ Device \notin Devices
    /\ UNCHANGED exiting

LEMMA Operations ==
    ASSUME TypeOK, Ordered, Operation
    PROVE  /\ todo # <<>> /\ Device \in Owners
           /\ UNCHANGED <<kind, on, asked, open, destroyed>>
           /\ (\E o \in Owners : Asks(o)) \/ Tells \/ IsDone
<1>0. /\ todo # <<>> /\ Device \in Owners /\ todo[1].arg \in BOOLEAN /\ 1 \in DOMAIN todo
      /\ "factory" \in Owners
  BY NextOp DEF Operation, Start, Stop, Set, Serve, Notify, StartThread, ExitThread, Reopen, IsNext,
               Owners
<1>1. UNCHANGED <<kind, on, asked, open, destroyed>>
  BY DEF Operation, Start, Stop, Set, Serve, Notify, StartThread, ExitThread, Reopen
<1> SUFFICES (\E o \in Owners : Asks(o)) \/ Tells \/ IsDone
  BY <1>0, <1>1
<1>2. CASE Start \/ Stop \/ Set
  <2>1. Device \in Devices /\ todo[1].op \in {"set", "start", "stop"}
    BY <1>0, <1>2 DEF Ordered, Start, Stop, Set, IsNext, Device
  <2>2. CASE Stop
    <3>1. /\ todo' = Tail(todo) /\ running' = [running EXCEPT ![Device] = FALSE]
          /\ UNCHANGED exiting
      BY <2>2 DEF Stop
    <3>2. ~todo[1].arg => Stops(todo[1], Device)
      BY <2>1 DEF Stops, Device
    <3>3. running'[Device] = FALSE
      BY <2>1, <3>1 DEF TypeOK
    <3>4. ~todo[1].arg
      BY <1>0, <2>2 DEF Ordered, Stop, IsNext
    <3> QED
      BY <3>1, <3>2, <3>3, <3>4 DEF IsDone
  <2>3. CASE Set /\ todo[1].arg = running[Device]
    <3>1. todo' = Tail(todo) /\ UNCHANGED <<running, exiting>>
      BY <2>3 DEF Set
    <3>2. Stops(todo[1], Device) => ~running'[Device]
      BY <2>3, <3>1 DEF Stops
    <3> QED
      BY <3>1, <3>2 DEF IsDone
  <2>4. CASE ~Stop /\ ~(Set /\ todo[1].arg = running[Device])
    <3>1. StartCapture(Device, todo[1].arg) /\ todo[1].op \in {"set", "start"}
      BY <1>2, <2>4 DEF Start, Set, IsNext
    <3>2. UNCHANGED <<ctx, loc, latest, exiting, failed, nullRead>>
      BY <1>2, <2>4 DEF Start, Set
    <3>3. CASE ~todo[1].arg
      <4>1. todo' = Tail(todo) /\ running' = [running EXCEPT ![Device] = FALSE]
        BY <3>1, <3>3 DEF StartCapture
      <4>2. Stops(todo[1], Device) /\ running'[Device] = FALSE
        BY <2>1, <3>3, <4>1 DEF Stops, Device, TypeOK
      <4> QED
        BY <3>2, <4>1, <4>2 DEF IsDone
    <3>4. CASE todo[1].arg /\ running[Device]
      BY <3>1, <3>2, <3>4 DEF StartCapture, IsDone, Stops
    <3>5. CASE todo[1].arg /\ ~running[Device]
      <4>1. /\ running' = [running EXCEPT ![Device] = TRUE]
            /\ todo' = <<Op("thread", Device, FALSE)>> \o Tail(todo)
        BY <3>1, <3>5 DEF StartCapture
      <4>2. Starts(todo[1])
        BY <3>1, <3>5 DEF Starts
      <4>3. Asks(Device)
        BY <1>0, <3>2, <4>1, <4>2, Lists DEF Asks
      <4> QED
        BY <1>0, <4>3
    <3> QED
      BY <3>3, <3>4, <3>5
  <2> QED
    BY <1>0, <1>1, <2>2, <2>3, <2>4
<1>3. CASE Serve \/ Notify
  <2>1. /\ todo[1].op \in {"serve", "notify"}
        /\ UNCHANGED <<running, ctx, loc, latest, exiting, failed, nullRead>>
    BY <1>3 DEF Serve, Notify, IsNext
  <2>2. CASE todo' = <<>> \o Tail(todo)
    BY <1>0, <2>1, <2>2, Lists DEF IsDone, Stops
  <2>3. CASE /\ todo' = <<Op("thread", "factory", FALSE)>> \o Tail(todo)
             /\ kind = "video" \/ ~Pause("factory")
    <3>1. Asks("factory")
      BY <1>0, <2>1, <2>3, Lists DEF Asks
    <3> QED
      BY <1>0, <1>1, <3>1
  <2> QED
    BY <1>0, <1>1, <1>3, <2>2, <2>3 DEF Serve, Notify, ServeOps, NotifyOps
<1>4. CASE StartThread \/ Reopen
  BY <1>0, <1>1, <1>4 DEF StartThread, Reopen, IsNext, IsDone, Stops
<1>5. CASE ExitThread
  <2>1. CASE ~exiting[Device] /\ latest[Device] # 0
    BY <1>0, <1>1, <1>5, <2>1 DEF ExitThread, IsNext, Tells
  <2>2. CASE ~(~exiting[Device] /\ latest[Device] # 0)
    BY <1>0, <1>1, <1>5, <2>2 DEF ExitThread, IsNext, IsDone, Stops
  <2> QED
    BY <2>1, <2>2
<1> QED
  BY <1>2, <1>3, <1>4, <1>5 DEF Operation

Serve1 == Op("serve", "factory", FALSE)
Exit1 == Op("exit", "factory", FALSE)

\* The list of start_video_capture and stop_video_capture
LEMMA StartStopList ==
    ASSUME TypeOK, StartStop
    PROVE  \E b \in BOOLEAN, n \in Nat :
              /\ on' = b
              /\ \A i \in DOMAIN todo' :
                    \/ i \in 1..n /\ \E d \in Devices : todo'[i] = Op("set", d, b /\ open[d])
                    \/ i = n + 1 /\ todo'[i] = Serve1
              /\ n + 1 \in DOMAIN todo'
              /\ \A d \in Devices : \E i \in DOMAIN todo' : todo'[i] = Op("set", d, b /\ open[d])
<1>1. PICK b \in BOOLEAN :
         /\ on' = b
         /\ \E sets \in Each("set", LAMBDA d : b /\ open[d]) :
               todo' = Append(sets, Op("serve", "factory", FALSE))
  BY DEF StartStop
<1>2. PICK sets \in Each("set", LAMBDA d : b /\ open[d]) : todo' = Append(sets, Serve1)
  BY <1>1 DEF Serve1
<1> DEFINE n == Cardinality(Devices)
           T == {Op("set", d, b /\ open[d]) : d \in Devices}
<1>3. sets \in [1..n -> T] /\ {sets[i].on : i \in DOMAIN sets} = Devices
  BY <1>2 DEF Each
<1>4. n \in Nat
  BY FS_CardinalityType, DeviceAssumption
<1>5. T \in SUBSET OpRecs
  BY DEF TypeOK, OpRecs, Op, Ops, Owners
<1>6. sets \in Seq(OpRecs) /\ Serve1 \in OpRecs
  BY <1>3, <1>5, EachIsList, OpFacts DEF Serve1, Ops, Owners
<1>7. \A d \in Devices : \E i \in DOMAIN sets : sets[i] = Op("set", d, b /\ open[d])
  <2> SUFFICES ASSUME NEW d \in Devices
               PROVE  \E i \in DOMAIN sets : sets[i] = Op("set", d, b /\ open[d])
    OBVIOUS
  <2>1. PICK i \in DOMAIN sets : sets[i].on = d
    BY <1>3
  <2>2. PICK e \in Devices : sets[i] = Op("set", e, b /\ open[e])
    BY <1>3, <2>1
  <2>3. e = d
    BY <2>1, <2>2 DEF Op
  <2> QED
    BY <2>2, <2>3
<1>8. DOMAIN sets = 1..n /\ Len(sets) = n
  BY <1>3, <1>4, <1>6
<1>9. \A i \in 1..n : \E d \in Devices : sets[i] = Op("set", d, b /\ open[d])
  BY <1>3
<1> HIDE DEF n, T
<1>10. /\ DOMAIN todo' = 1..(n + 1) /\ todo'[n + 1] = Serve1
       /\ \A i \in 1..n : todo'[i] = sets[i] /\ i \in DOMAIN todo'
  BY <1>2, <1>4, <1>6, <1>8
<1>11. \A i \in DOMAIN todo' :
         \/ i \in 1..n /\ \E d \in Devices : todo'[i] = Op("set", d, b /\ open[d])
         \/ i = n + 1 /\ todo'[i] = Serve1
  BY <1>4, <1>9, <1>10
<1>12. n + 1 \in DOMAIN todo'
  BY <1>4, <1>10
<1>13. \A d \in Devices : \E i \in DOMAIN todo' : todo'[i] = Op("set", d, b /\ open[d])
  BY <1>7, <1>8, <1>10
<1> WITNESS b \in BOOLEAN, n \in Nat
<1> QED
  BY <1>1, <1>11, <1>12, <1>13

\* The list of the destructor
LEMMA DestroyList ==
    ASSUME TypeOK, Destroy
    PROVE  \E n \in Nat :
              /\ \A i \in DOMAIN todo' :
                    \/ i \in 1..n /\ \E d \in Devices : todo'[i] = Op("set", d, FALSE)
                    \/ i = n + 1 /\ todo'[i] = Serve1
                    \/ i \in Nat /\ i > n + 1 /\ \E o \in Owners : todo'[i] = Op("exit", o, FALSE)
              /\ \A d \in Devices : \E i \in DOMAIN todo' : todo'[i] = Op("set", d, FALSE)
<1>1. PICK sets \in Each("set", LAMBDA d : FALSE), ends \in Each("exit", LAMBDA d : FALSE) :
        todo' = sets \o <<Serve1, Exit1>> \o ends
  BY DEF Destroy, Serve1, Exit1
<1> DEFINE m == Cardinality(Devices)
           T == {Op("set", d, FALSE) : d \in Devices}
           U == {Op("exit", d, FALSE) : d \in Devices}
<1>2. /\ sets \in [1..m -> T] /\ {sets[i].on : i \in DOMAIN sets} = Devices
      /\ ends \in [1..m -> U]
  BY <1>1 DEF Each
<1>3. T \in SUBSET OpRecs
  BY OpFacts DEF Ops, Owners
<1>4. U \in SUBSET OpRecs
  BY OpFacts DEF Ops, Owners
<1>5. sets \in Seq(OpRecs) /\ ends \in Seq(OpRecs)
  BY <1>2, <1>3, <1>4, EachIsList
<1>6. Serve1 \in OpRecs /\ Exit1 \in OpRecs
  BY OpFacts DEF Serve1, Exit1, Ops, Owners
<1>7. \A d \in Devices : \E i \in DOMAIN sets : sets[i] = Op("set", d, FALSE)
  <2> SUFFICES ASSUME NEW d \in Devices
               PROVE  \E i \in DOMAIN sets : sets[i] = Op("set", d, FALSE)
    OBVIOUS
  <2>1. PICK i \in DOMAIN sets : sets[i].on = d
    BY <1>2
  <2>2. PICK e \in Devices : sets[i] = Op("set", e, FALSE)
    BY <1>2, <2>1
  <2>3. e = d
    BY <2>1, <2>2 DEF Op
  <2> QED
    BY <2>2, <2>3
<1>8. \A i \in DOMAIN sets : \E d \in Devices : sets[i] = Op("set", d, FALSE)
  BY <1>2
<1>9. \A i \in DOMAIN ends : \E d \in Owners : ends[i] = Op("exit", d, FALSE)
  BY <1>2 DEF Owners
<1>10. Exit1 = Op("exit", "factory", FALSE) /\ "factory" \in Owners
  BY DEF Exit1, Owners
<1> DEFINE n == Len(sets)
<1> HIDE DEF m, T, U
<1>11. n \in Nat /\ DOMAIN sets = 1..n
  BY <1>5
<1> HIDE DEF n
<1>12. /\ todo' \in Seq(OpRecs)
       /\ \A i \in DOMAIN sets : i <= n /\ i \in DOMAIN todo' /\ todo'[i] = sets[i]
       /\ todo'[n + 1] = Serve1 /\ todo'[n + 2] = Exit1
       /\ \A i \in DOMAIN todo' : \/ i \in DOMAIN sets /\ i <= n /\ todo'[i] = sets[i]
                                  \/ i = n + 1 \/ i = n + 2
                                  \/ i > n + 2 /\ i - n - 2 \in DOMAIN ends /\ todo'[i] = ends[i - n - 2]
  <2> DEFINE l == sets \o <<Serve1, Exit1>> \o ends
  <2>1. /\ l \in Seq(OpRecs)
        /\ \A i \in DOMAIN sets : i <= n /\ i \in DOMAIN l /\ l[i] = sets[i]
        /\ l[n + 1] = Serve1 /\ l[n + 2] = Exit1
        /\ \A i \in DOMAIN l : \/ i \in DOMAIN sets /\ i <= n /\ l[i] = sets[i]
                               \/ i = n + 1 \/ i = n + 2
                               \/ i > n + 2 /\ i - n - 2 \in DOMAIN ends /\ l[i] = ends[i - n - 2]
    BY <1>5, <1>6, ThreeParts DEF n
  <2>2. todo' = l
    BY <1>1
  <2> HIDE DEF l
  <2> QED
    BY <2>1, <2>2, Zenon
<1>13. \A i \in DOMAIN todo' : i \in Nat
  BY <1>12
<1>14. \A i \in DOMAIN todo' :
         \/ i \in 1..n /\ \E d \in Devices : todo'[i] = Op("set", d, FALSE)
         \/ i = n + 1 /\ todo'[i] = Serve1
         \/ i \in Nat /\ i > n + 1 /\ \E o \in Owners : todo'[i] = Op("exit", o, FALSE)
  <2> SUFFICES ASSUME NEW i \in DOMAIN todo'
               PROVE  \/ i \in 1..n /\ \E d \in Devices : todo'[i] = Op("set", d, FALSE)
                      \/ i = n + 1 /\ todo'[i] = Serve1
                      \/ i \in Nat /\ i > n + 1 /\ \E o \in Owners : todo'[i] = Op("exit", o, FALSE)
    OBVIOUS
  <2>1. CASE i \in DOMAIN sets /\ todo'[i] = sets[i]
    BY <1>8, <1>11, <2>1
  <2>2. CASE i = n + 1
    BY <1>12, <2>2
  <2>3. CASE i = n + 2
    <3>1. todo'[i] = Op("exit", "factory", FALSE)
      BY <1>10, <1>12, <2>3
    <3>2. i \in Nat /\ i > n + 1
      BY <1>11, <2>3
    <3> QED
      BY <1>10, <3>1, <3>2
  <2>4. CASE i > n + 2 /\ i - n - 2 \in DOMAIN ends /\ todo'[i] = ends[i - n - 2]
    <3>1. PICK o \in Owners : todo'[i] = Op("exit", o, FALSE)
      BY <1>9, <2>4
    <3>2. i \in Nat /\ i > n + 1
      BY <1>11, <1>13, <2>4
    <3> QED
      BY <3>1, <3>2
  <2> QED
    BY <1>12, <2>1, <2>2, <2>3, <2>4
<1>15. \A d \in Devices : \E i \in DOMAIN todo' : todo'[i] = Op("set", d, FALSE)
  BY <1>7, <1>12
<1> QED
  BY <1>11, <1>14, <1>15

-----------------------------------------------------------------------------
(* The invariants are kept *)

\* The short lists
Notify1 == Op("notify", "factory", FALSE)

Enables(d, b) ==
    /\ open' = [open EXCEPT ![d] = b] /\ DOMAIN todo' = {1, 2}
    /\ b => todo'[1] = Op("start", d, on)
    /\ ~b => todo'[1] = Op("stop", d, FALSE)
    /\ todo'[2] = Notify1
    /\ UNCHANGED <<kind, on, asked, running, ctx, loc, latest, exiting, destroyed, failed, nullRead>>

LEMMA SetEnableList ==
    ASSUME SetEnable
    PROVE  todo = <<>> /\ ~destroyed /\ \E d \in Devices, b \in BOOLEAN : Enables(d, b)
<1>1. PICK d \in Devices, b \in BOOLEAN :
         /\ open' = [open EXCEPT ![d] = b]
         /\ todo' = <<IF b THEN Op("start", d, on) ELSE Op("stop", d, FALSE), Notify1>>
  BY DEF SetEnable, Notify1
<1>2. DOMAIN todo' = {1, 2} /\ todo'[2] = Notify1
      /\ todo'[1] = IF b THEN Op("start", d, on) ELSE Op("stop", d, FALSE)
  BY <1>1
<1>3. Enables(d, b)
  BY <1>1, <1>2 DEF Enables, SetEnable
<1> QED
  BY <1>3 DEF SetEnable, Call

LEMMA ChangeDeviceList ==
    ASSUME ChangeDevice
    PROVE  /\ todo = <<>> /\ DOMAIN todo' = {1}
           /\ UNCHANGED <<kind, on, asked, open, running, ctx, loc, latest, exiting, destroyed, failed,
                          nullRead>>
           /\ \E d \in Devices : todo'[1] = Op("reopen", d, FALSE)
<1>1. PICK d \in Devices : todo' = <<Op("reopen", d, FALSE)>>
  BY DEF ChangeDevice
<1>2. DOMAIN todo' = {1} /\ todo'[1] = Op("reopen", d, FALSE)
  BY <1>1
<1> QED
  BY <1>2 DEF ChangeDevice, Call

LEMMA OrderedStep ==
    ASSUME TypeOK, Ordered, Next
    PROVE  Ordered'
<1> USE DEF Op
<1>1. CASE SetEnable
  <2>1. PICK d \in Devices, b \in BOOLEAN : Enables(d, b)
    BY <1>1, SetEnableList
  <2>2. /\ DOMAIN todo' = {1, 2} /\ todo'[1].op \in {"start", "stop"} /\ todo'[1].on \in Devices
        /\ todo'[1].op = "stop" => ~todo'[1].arg
        /\ todo'[2].op = "notify" /\ todo'[2].on = "factory"
    BY <2>1 DEF Enables, Notify1
  <2> QED
    BY <2>2 DEF Ordered, Serves
<1>2. CASE ChangeDevice
  <2>1. DOMAIN todo' = {1} /\ todo'[1].op = "reopen" /\ todo'[1].on \in Devices
    BY <1>2, ChangeDeviceList
  <2> QED
    BY <2>1 DEF Ordered, Serves
<1>3. CASE StartStop
  BY <1>3, StartStopList, DeviceAssumption DEF Ordered, Serves, Serve1
<1>4. CASE Destroy
  BY <1>4, DestroyList, DeviceAssumption DEF Ordered, Serves, Serve1
<1>5. CASE Operation
  <2>1. ASSUME NEW o \in Owners, Asks(o)
        PROVE  Ordered'
    <3>1. /\ DOMAIN todo' = DOMAIN todo /\ todo'[1].op = "thread" /\ todo'[1].on = o
          /\ 1 \in DOMAIN todo
          /\ \A i \in DOMAIN todo : i # 1 => todo'[i] = todo[i]
      BY <1>5, <2>1, Operations, Becomes DEF Asks
    <3>2. Serves(todo'[1]) => Serves(todo[1])
      <4>1. CASE Starts(todo[1]) /\ o = Device
        BY <3>1, <4>1, DeviceAssumption DEF Ordered, Starts, Serves, Device
      <4>2. CASE todo[1].op \in {"serve", "notify"}
        BY <3>1, <4>2 DEF Ordered, Serves
      <4> QED
        BY <2>1, <4>1, <4>2 DEF Asks
    <3>3. todo \in Seq(OpRecs)
      BY TypeParts
    <3>4. \A i \in DOMAIN todo' :
             /\ todo'[i].op = "thread" => i = 1
             /\ todo'[i].op \in {"set", "start", "stop", "reopen"} => todo'[i].on \in Devices
             /\ todo'[i].op \in {"serve", "notify"} => todo'[i].on = "factory"
             /\ todo'[i].op = "stop" => ~todo'[i].arg
      BY <3>1 DEF Ordered
    <3>5. \A i, j \in DOMAIN todo' :
             i < j /\ (Serves(todo'[i]) \/ todo'[i].op = "exit") => todo'[j].op = "exit"
      BY <3>1, <3>2, <3>3 DEF Ordered
    <3> QED
      BY <3>4, <3>5 DEF Ordered, Serves
  <2>2. CASE Tells
    BY <2>2 DEF Tells, Ordered, Serves
  <2>3. CASE IsDone
    BY <1>5, <2>3, Operations, Shrinks DEF Ordered, IsDone, Serves
  <2> QED
    BY <1>5, <2>1, <2>2, <2>3, Operations
<1>6. CASE ThreadStep
  BY <1>6, ThreadKeeps DEF Ordered, Serves
<1> QED
  BY <1>1, <1>2, <1>3, <1>4, <1>5, <1>6 DEF Next, AppStep, Operation

LEMMA SwitchedStep ==
    ASSUME TypeOK, Ordered, Switched, Next
    PROVE  Switched'
<1> USE DEF Op
<1>1. CASE SetEnable
  <2>1. PICK d \in Devices, b \in BOOLEAN : Enables(d, b)
    BY <1>1, SetEnableList
  <2>2. CASE b
    <3>1. /\ DOMAIN todo' = {1, 2} /\ todo'[1].op = "start" /\ todo'[1].on = d
          /\ todo'[1].arg = on /\ ~Starts(todo'[2]) /\ UNCHANGED <<on, running>>
          /\ open'[d] = TRUE /\ \A e \in Devices : e # d => open'[e] = open[e]
      BY <2>1, <2>2 DEF Enables, Notify1, Starts, TypeOK
    <3>2. \A e \in Devices : running[e] => on /\ open[e]
      BY <1>1, SetEnableList DEF Switched
    <3> QED
      BY <3>1, <3>2 DEF Switched, Starts
  <2>3. CASE ~b
    <3>1. /\ DOMAIN todo' = {1, 2} /\ todo'[1].op = "stop" /\ todo'[1].on = d
          /\ todo'[1].arg = FALSE /\ ~Starts(todo'[2]) /\ UNCHANGED <<on, running>>
          /\ \A e \in Devices : e # d => open'[e] = open[e]
      BY <2>1, <2>3 DEF Enables, Notify1, Starts, TypeOK
    <3>2. \A e \in Devices : running[e] => on /\ open[e]
      BY <1>1, SetEnableList DEF Switched
    <3> QED
      BY <3>1, <3>2 DEF Switched, Starts, Stops
  <2> QED
    BY <2>2, <2>3
<1>2. CASE ChangeDevice
  BY <1>2, ChangeDeviceList DEF Switched, Starts, Stops
<1>3. CASE StartStop
  <2>1. PICK b \in BOOLEAN, n \in Nat :
              /\ on' = b
              /\ \A i \in DOMAIN todo' :
                    \/ i \in 1..n /\ \E d \in Devices : todo'[i] = Op("set", d, b /\ open[d])
                    \/ i = n + 1 /\ todo'[i] = Serve1
              /\ n + 1 \in DOMAIN todo'
              /\ \A d \in Devices : \E i \in DOMAIN todo' : todo'[i] = Op("set", d, b /\ open[d])
    BY <1>3, StartStopList
  <2>2. UNCHANGED <<open, running>>
    BY <1>3 DEF StartStop
  <2>3. ASSUME NEW i \in DOMAIN todo', Starts(todo'[i])
        PROVE  b /\ open[todo'[i].on]
    <3>1. PICK d \in Devices : todo'[i] = Op("set", d, b /\ open[d])
      BY <2>1, <2>3 DEF Starts, Serve1
    <3>2. todo'[i].on = d /\ todo'[i].arg = (b /\ open[d])
      BY <3>1
    <3> QED
      BY <2>3, <3>2 DEF Starts
  <2>4. ASSUME NEW d \in Devices, ~(b /\ open[d])
        PROVE  \E i \in DOMAIN todo' : Stops(todo'[i], d)
    <3>1. PICK i \in DOMAIN todo' : todo'[i] = Op("set", d, b /\ open[d])
      BY <2>1
    <3>2. todo'[i].on = d /\ todo'[i].arg = (b /\ open[d]) /\ todo'[i].op = "set"
      BY <3>1
    <3>3. Stops(todo'[i], d)
      BY <2>4, <3>2 DEF Stops
    <3> QED
      BY <3>3
  <2> QED
    BY <2>1, <2>2, <2>3, <2>4 DEF Switched, Starts, Stops
<1>4. CASE Destroy
  <2>1. /\ \A i \in DOMAIN todo' : ~Starts(todo'[i])
        /\ \A d \in Devices : \E i \in DOMAIN todo' : Stops(todo'[i], d)
    BY <1>4, DestroyList DEF Starts, Stops, Serve1
  <2> QED
    BY <2>1 DEF Switched, Starts, Stops
<1>5. CASE Operation
  <2>0. UNCHANGED <<on, open>> /\ 1 \in DOMAIN todo
    BY <1>5, Operations, NextOp
  <2>1. ASSUME NEW o \in Owners, Asks(o)
        PROVE  Switched'
    <3>1. /\ DOMAIN todo' = DOMAIN todo /\ todo'[1].op = "thread"
          /\ \A i \in DOMAIN todo : i # 1 => todo'[i] = todo[i]
      BY <1>5, <2>1, Operations, Becomes DEF Asks
    <3>2. \A d \in Devices : running'[d] => running[d] \/ (on /\ open[d])
      <4> SUFFICES ASSUME NEW d \in Devices, running'[d], ~running[d]
                   PROVE  on /\ open[d]
        OBVIOUS
      <4>1. Starts(todo[1]) /\ d = todo[1].on
        BY <2>1 DEF Asks, TypeOK, Device
      <4> QED
        BY <2>0, <4>1 DEF Switched
    <3>3. \A d \in Devices : ~Stops(todo[1], d)
      BY <2>1 DEF Asks, Stops, Starts
    <3> QED
      BY <2>0, <3>1, <3>2, <3>3 DEF Switched, Starts, Stops
  <2>2. CASE Tells
    BY <2>0, <2>2 DEF Tells, Switched, Starts, Stops
  <2>3. CASE IsDone
    <3>1. \A i \in DOMAIN todo' : Starts(todo'[i]) => on /\ open[todo'[i].on]
      BY <1>5, <2>3, Operations, Shrinks DEF Switched, IsDone, Starts
    <3>2. \A d \in Devices : running'[d] => running[d]
      BY <2>3 DEF IsDone, TypeOK
    <3>3. \A d \in Devices : Stops(todo[1], d) => ~running'[d]
      BY <2>3 DEF IsDone, Stops, Device
    <3>4. \A i \in DOMAIN todo : i # 1 => \E j \in DOMAIN todo' : todo'[j] = todo[i]
      BY <1>5, <2>3, Operations, Shrinks DEF IsDone
    <3> QED
      BY <2>0, <3>1, <3>2, <3>3, <3>4 DEF Switched, Starts, Stops
  <2> QED
    BY <1>5, <2>1, <2>2, <2>3, Operations
<1>6. CASE ThreadStep
  BY <1>6, ThreadKeeps DEF Switched, Starts, Stops
<1> QED
  BY <1>1, <1>2, <1>3, <1>4, <1>5, <1>6 DEF Next, AppStep, Operation

LEMMA EndingStep ==
    ASSUME TypeOK, Ordered, Ending, Next
    PROVE  Ending'
<1> USE DEF Op
<1>0. TypeOK' /\ destroyed \in BOOLEAN
  BY TypeStep, TypeParts DEF Flags
<1>1. CASE SetEnable
  <2>1. PICK d \in Devices, b \in BOOLEAN : Enables(d, b)
    BY <1>1, SetEnableList
  <2>2. ~destroyed' /\ UNCHANGED exiting /\ \A i \in DOMAIN todo' : todo'[i].op # "exit"
    BY <1>1, <2>1, SetEnableList DEF Enables, Notify1
  <2>3. \A o \in Owners : ~exiting'[o]
    BY <1>1, <2>2, SetEnableList DEF Ending
  <2> QED
    BY <2>2, <2>3 DEF Ending
<1>2. CASE ChangeDevice
  <2>1. ~destroyed' /\ UNCHANGED <<exiting, destroyed>> /\ \A i \in DOMAIN todo' : todo'[i].op # "exit"
    BY <1>2, ChangeDeviceList DEF ChangeDevice, Call
  <2> QED
    BY <2>1 DEF Ending
<1>3. CASE StartStop
  <2>1. \A i \in DOMAIN todo' : todo'[i].op # "exit"
    BY <1>3, StartStopList DEF Serve1
  <2>2. ~destroyed' /\ UNCHANGED <<exiting, destroyed>>
    BY <1>3 DEF StartStop, Call
  <2> QED
    BY <2>1, <2>2 DEF Ending
<1>4. CASE Destroy
  <2>1. /\ \A i \in DOMAIN todo' : ~Starts(todo'[i])
        /\ \A d \in Devices : \E i \in DOMAIN todo' : Stops(todo'[i], d)
    BY <1>4, DestroyList DEF Starts, Stops, Serve1
  <2>2. destroyed' /\ ~destroyed /\ UNCHANGED exiting
    BY <1>4 DEF Destroy
  <2> QED
    BY <2>1, <2>2 DEF Ending
<1>5. CASE Operation
  <2>0. UNCHANGED destroyed /\ 1 \in DOMAIN todo /\ todo # <<>>
    BY <1>5, Operations, NextOp
  <2>1. ASSUME NEW o \in Owners, Asks(o)
        PROVE  Ending'
    <3>1. /\ DOMAIN todo' = DOMAIN todo /\ todo'[1].op = "thread"
          /\ \A i \in DOMAIN todo : i # 1 => todo'[i] = todo[i]
      BY <2>0, <2>1, Becomes DEF Asks
    <3>2. CASE destroyed
      <4>1. UNCHANGED <<running, exiting>> /\ \A d \in Devices : ~Stops(todo[1], d)
        BY <2>0, <2>1, <3>2 DEF Asks, Ending, Stops
      <4> QED
        BY <2>0, <3>1, <3>2, <4>1 DEF Ending, Starts, Stops
    <3>3. CASE ~destroyed
      BY <2>0, <2>1, <3>1, <3>3 DEF Asks, Ending
    <3> QED
      BY <3>2, <3>3
  <2>2. CASE Tells
    <3>1. destroyed /\ \A i \in DOMAIN todo : todo[i].op = "exit"
      <4>1. todo \in Seq(OpRecs)
        BY TypeParts
      <4>2. \A i \in DOMAIN todo : i = 1 \/ 1 < i
        BY <4>1
      <4> QED
        BY <2>0, <2>2, <4>2 DEF Tells, Ordered, Ending
    <3>2. \A d \in Devices : ~running[d]
      BY <3>1 DEF Ending, Stops
    <3> QED
      BY <2>0, <2>2, <3>1, <3>2 DEF Tells, Ending, Starts, Stops
  <2>3. CASE IsDone
    <3>1. \A i \in DOMAIN todo' : \E j \in DOMAIN todo : todo'[i] = todo[j]
      BY <2>0, <2>3, Shrinks DEF IsDone
    <3>2. \A d \in Devices : running'[d] => running[d]
      BY <2>3 DEF IsDone, TypeOK
    <3>3. \A d \in Devices : Stops(todo[1], d) => ~running'[d]
      BY <2>3 DEF IsDone, Stops, Device
    <3>4. \A i \in DOMAIN todo : i # 1 => \E j \in DOMAIN todo' : todo'[j] = todo[i]
      BY <2>0, <2>3, Shrinks DEF IsDone
    <3>5. UNCHANGED exiting
      BY <2>3 DEF IsDone
    <3> QED
      BY <2>0, <3>1, <3>2, <3>3, <3>4, <3>5 DEF Ending, Starts, Stops
  <2> QED
    BY <1>5, <2>1, <2>2, <2>3, Operations
<1>6. CASE ThreadStep
  BY <1>6, ThreadKeeps DEF Ending, Starts, Stops
<1> QED
  BY <1>1, <1>2, <1>3, <1>4, <1>5, <1>6 DEF Next, AppStep, Operation

\* What operations and threads do to the threads' places
Moves(o, i, v) == loc' = [loc EXCEPT ![o][i] = v]

LEMMA OperationPlaces ==
    ASSUME TypeOK, Operation
    PROVE  \/ UNCHANGED <<loc, latest>>
           \/ /\ IsNext("exit") /\ UNCHANGED loc /\ latest' = [latest EXCEPT ![Device] = 0]
              /\ latest[Device] # 0 => loc[Device][latest[Device]] = "done"
           \/ /\ IsNext("thread") /\ ~Reuses(Device)
              /\ \E i \in Slots(Device) : Moves(Device, i, "head")
                                        /\ latest' = [latest EXCEPT ![Device] = i]
<1>1. CASE StartThread
  <2>1. CASE Reuses(Device)
    BY <1>1, <2>1 DEF StartThread
  <2>2. CASE ~Reuses(Device)
    <3>1. Device \in Owners /\ IsNext("thread") /\ Free(Device) # {}
      BY <1>1, <2>2, NextOp DEF StartThread, IsNext
    <3>2. Min(Free(Device)) \in Slots(Device)
      BY <3>1, MinIn, SlotsFacts
    <3> QED
      BY <1>1, <2>2, <3>1, <3>2 DEF StartThread, Moves
  <2> QED
    BY <2>1, <2>2
<1>2. CASE ExitThread
  BY <1>2 DEF ExitThread
<1>3. CASE Start \/ Stop \/ Set \/ Serve \/ Notify \/ Reopen
  BY <1>3 DEF Start, Stop, Set, Serve, Notify, Reopen
<1> QED
  BY <1>1, <1>2, <1>3 DEF Operation

\* A thread that neither ends nor is unstarted keeps the factory alive.
LEMMA LiveKept ==
    ASSUME OfThreads, NEW o \in Owners, NEW i \in Slots(o), NEW v, Moves(o, i, v),
           v \notin {"none", "done"}
    PROVE  /\ Live("factory") # {} => Live("factory")' # {}
           /\ o = "factory" => Live("factory")' # {}
<1>1. \A p \in Owners : loc'[p] = IF p = o THEN [loc[o] EXCEPT ![i] = v] ELSE loc[p]
  BY DEF OfThreads, Moves
<1>2. "factory" \in Owners /\ loc["factory"] \in [Slots("factory") -> Places]
  BY DEF OfThreads, Owners
<1>3. CASE o = "factory"
  <2>1. loc'["factory"][i] = v
    BY <1>1, <1>2, <1>3
  <2>2. i \in Live("factory")'
    BY <1>3, <2>1 DEF Live, Slots
  <2> QED
    BY <2>2
<1>4. CASE o # "factory"
  <2>1. loc'["factory"] = loc["factory"]
    BY <1>1, <1>2, <1>4
  <2> QED
    BY <1>4, <2>1 DEF Live, Slots
<1> QED
  BY <1>3, <1>4

\* Who sees to the factory's thread has done so when it is done with.
LEMMA FactoryServed ==
    ASSUME TypeOK, Ordered, Ending, Served, Operation, IsDone,
           Serves(todo[1]), kind = "video", NEW d \in Devices, running'[d]
    PROVE  Live("factory")' # {}
<1> USE DEF Op
<1>0. /\ Device = "factory" /\ running[d] /\ ~Pause("factory") /\ todo # <<>>
      /\ "factory" \in Owners /\ 1 \in DOMAIN todo
  BY Operations, NextOp DEF Serves, Device, IsDone, Pause, TypeOK, Owners
<1>1. Tail(todo) # <<Op("thread", "factory", FALSE)>> \o Tail(todo)
  <2>1. todo \in Seq(OpRecs)
    BY <1>0, NextOp
  <2> QED
    BY <1>0, <2>1
<1>2. StartThread
  <2>1. ~Serve
    BY <1>0, <1>1 DEF Serve, ServeOps, IsDone
  <2>2. ~Notify
    BY <1>0, <1>1 DEF Notify, NotifyOps, IsDone
  <2> QED
    BY <2>1, <2>2 DEF Operation, Start, Stop, Set, ExitThread, Reopen, IsNext, Serves
<1>3. CASE Reuses("factory")
  <2>1. ~exiting["factory"]
    BY <1>0 DEF Ending
  <2>2. /\ latest["factory"] \in Slots("factory")
        /\ loc["factory"][latest["factory"]] \notin {"none", "done"}
    BY <1>0, <1>3, <2>1 DEF Reuses, Served, TypeOK
  <2>3. UNCHANGED loc
    BY <1>0, <1>2, <1>3 DEF StartThread
  <2> QED
    BY <2>2, <2>3 DEF Live, Slots
<1>4. CASE ~Reuses("factory")
  <2>1. PICK i \in Slots("factory") : Moves("factory", i, "head")
    <3>1. Free("factory") # {} /\ Moves("factory", Min(Free("factory")), "head")
      BY <1>0, <1>2, <1>4 DEF StartThread, Moves
    <3> QED
      BY <1>0, <3>1, MinIn, SlotsFacts
  <2> QED
    BY <1>0, <2>1, LiveKept, TypeParts
<1> QED
  BY <1>3, <1>4

\* The parts of Served
Begun == latest["factory"] # 0 => loc["factory"][latest["factory"]] # "none"
ToServe == (\E i \in DOMAIN todo : Starts(todo[i])) => \E i \in DOMAIN todo : Serves(todo[i])
Kept == kind = "video" /\ (\E d \in Devices : running[d]) =>
          Live("factory") # {} \/ \E i \in DOMAIN todo : Serves(todo[i])

LEMMA ServedParts ==
    /\ Served <=> Begun /\ ToServe /\ Kept
    /\ Served' <=> Begun' /\ ToServe' /\ Kept'
BY DEF Served, Begun, ToServe, Kept, Slots, Live

LEMMA ServedOperation ==
    ASSUME TypeOK, Ordered, Ending, Served, Operation
    PROVE  Served'
<1> USE DEF Op
<1>0. /\ Device \in Owners /\ 1 \in DOMAIN todo /\ todo # <<>> /\ UNCHANGED kind
      /\ OfThreads /\ "factory" \in Owners
  BY Operations, NextOp, TypeParts DEF Owners
<1>1. Begun'
  <2>1. CASE UNCHANGED <<loc, latest>>
    BY <2>1, ServedParts DEF Begun
  <2>2. CASE UNCHANGED loc /\ latest' = [latest EXCEPT ![Device] = 0]
    BY <1>0, <2>2, ServedParts DEF Begun, OfThreads
  <2>3. ASSUME NEW i \in Slots(Device), Moves(Device, i, "head"),
               latest' = [latest EXCEPT ![Device] = i]
        PROVE  Begun'
    <3>1. CASE Device = "factory"
      <4>1. loc'["factory"][i] = "head" /\ latest'["factory"] = i
        BY <1>0, <2>3, <3>1 DEF OfThreads, Moves
      <4> QED
        BY <4>1 DEF Begun
    <3>2. CASE Device # "factory"
      <4>1. loc'["factory"] = loc["factory"] /\ latest'["factory"] = latest["factory"]
        BY <1>0, <2>3, <3>2 DEF OfThreads, Moves
      <4> QED
        BY <4>1, ServedParts DEF Begun
    <3> QED
      BY <3>1, <3>2
  <2> QED
    BY <2>1, <2>2, <2>3, OperationPlaces
<1>2. Live("factory") # {} => Live("factory")' # {}
  <2>1. CASE UNCHANGED loc
    BY <2>1 DEF Live, Slots
  <2>2. ASSUME NEW i \in Slots(Device), Moves(Device, i, "head")
        PROVE  Live("factory") # {} => Live("factory")' # {}
    BY <1>0, <2>2, LiveKept
  <2> QED
    BY <2>1, <2>2, OperationPlaces
<1>3. CASE \E o \in Owners : Asks(o)
  <2>1. PICK o \in Owners : Asks(o)
    BY <1>3
  <2>2. /\ DOMAIN todo' = DOMAIN todo /\ todo'[1] = Op("thread", o, FALSE)
        /\ \A i \in DOMAIN todo : i # 1 => todo'[i] = todo[i]
    BY <1>0, <2>1, Becomes DEF Asks
  <2>3. \E i \in DOMAIN todo' : Serves(todo'[i])
    <3>1. CASE Starts(todo[1])
      <4>1. PICK i \in DOMAIN todo : Serves(todo[i])
        BY <1>0, <3>1, ServedParts DEF ToServe
      <4>2. i # 1
        BY <3>1, <4>1 DEF Starts, Serves
      <4> QED
        BY <2>2, <4>1, <4>2
    <3>2. CASE o = "factory"
      BY <1>0, <2>2, <3>2 DEF Serves
    <3> QED
      BY <2>1, <3>1, <3>2 DEF Asks
  <2>4. ToServe' /\ Kept'
    BY <2>3 DEF ToServe, Kept
  <2> QED
    BY <1>1, <2>4, ServedParts
<1>4. CASE Tells
  <2>1. UNCHANGED <<todo, running>>
    BY <1>4 DEF Tells
  <2>2. ToServe'
    BY <2>1, ServedParts DEF ToServe, Serves, Starts
  <2>3. Kept'
    BY <1>0, <1>2, <2>1, ServedParts DEF Kept, Serves
  <2> QED
    BY <1>1, <2>2, <2>3, ServedParts
<1>5. CASE IsDone
  <2>1. \A i \in DOMAIN todo' : i \in Nat \ {0} /\ i + 1 \in DOMAIN todo /\ todo'[i] = todo[i + 1]
    BY <1>0, <1>5, Shrinks DEF IsDone
  <2>2. \A i \in DOMAIN todo : i # 1 => \E j \in DOMAIN todo' : todo'[j] = todo[i]
    BY <1>0, <1>5, Shrinks DEF IsDone
  <2>3. ToServe'
    <3> SUFFICES ASSUME NEW i \in DOMAIN todo', Starts(todo'[i])
                 PROVE  \E j \in DOMAIN todo' : Serves(todo'[j])
      BY DEF ToServe
    <3>1. i + 1 \in DOMAIN todo /\ Starts(todo[i + 1]) /\ 1 < i + 1
      BY <2>1
    <3>2. PICK j \in DOMAIN todo : Serves(todo[j])
      BY <3>1, ServedParts DEF ToServe
    <3>3. j # 1
      BY <3>1, <3>2 DEF Ordered, Starts
    <3> QED
      BY <2>2, <3>2, <3>3
  <2>4. Kept'
    <3> SUFFICES ASSUME kind = "video", NEW d \in Devices, running'[d]
                 PROVE  Live("factory")' # {} \/ \E j \in DOMAIN todo' : Serves(todo'[j])
      BY <1>0 DEF Kept
    <3>1. running[d]
      BY <1>5 DEF IsDone, TypeOK
    <3>2. CASE Live("factory") # {}
      BY <1>2, <3>2
    <3>3. CASE Live("factory") = {}
      <4>1. PICK j \in DOMAIN todo : Serves(todo[j])
        BY <3>1, <3>3, ServedParts DEF Kept
      <4>2. CASE j = 1
        BY <1>5, <4>1, <4>2, FactoryServed
      <4>3. CASE j # 1
        BY <2>2, <4>1, <4>3
      <4> QED
        BY <4>2, <4>3
    <3> QED
      BY <3>2, <3>3
  <2> QED
    BY <1>1, <2>3, <2>4, ServedParts
<1> QED
  BY <1>3, <1>4, <1>5, Operations

LEMMA ServedThread ==
    ASSUME TypeOK, Ending, Served, ThreadStep
    PROVE  Served'
<1>0. /\ UNCHANGED <<kind, todo, latest>> /\ \A d \in Devices : running'[d] => running[d]
      /\ OfThreads /\ "factory" \in Owners
  BY ThreadKeeps, TypeParts DEF Owners
<1>1. ToServe'
  BY <1>0, ServedParts DEF ToServe, Starts, Serves
<1>2. ASSUME NEW o \in Owners, NEW i \in Slots(o), NEW v, Moves(o, i, v), v # "none",
             v = "done" => exiting[o]
      PROVE  Begun' /\ Kept'
  <2>1. \A p \in Owners : loc'[p] = IF p = o THEN [loc[o] EXCEPT ![i] = v] ELSE loc[p]
    BY <1>0, <1>2 DEF OfThreads, Moves
  <2>2. Begun'
    <3> DEFINE k == latest["factory"]
    <3>1. loc["factory"] \in [Slots("factory") -> Places] /\ Begun /\ latest' = latest
      BY <1>0, ServedParts DEF OfThreads
    <3>2. CASE o = "factory"
      <4>1. loc'["factory"] = [loc["factory"] EXCEPT ![i] = v]
        BY <1>0, <2>1, <3>2
      <4>2. loc'["factory"][k] = v \/ loc'["factory"][k] = loc["factory"][k]
        BY <1>2, <3>1, <3>2, <4>1
      <4> QED
        BY <1>2, <3>1, <4>2 DEF Begun
    <3>3. CASE o # "factory"
      BY <1>0, <2>1, <3>1, <3>3 DEF Begun
    <3> QED
      BY <3>2, <3>3
  <2>3. CASE v = "done"
    <3>1. \A d \in Devices : ~running'[d]
      BY <1>0, <1>2, <2>3 DEF Ending
    <3> QED
      BY <2>2, <3>1 DEF Kept
  <2>4. CASE v # "done"
    <3>1. Live("factory") # {} => Live("factory")' # {}
      BY <1>0, <1>2, <2>4, LiveKept
    <3> QED
      BY <1>0, <2>2, <3>1, ServedParts DEF Kept, Serves
  <2> QED
    BY <2>3, <2>4
<1>3. \E o \in Owners : \E i \in Slots(o), v \in Places :
         Moves(o, i, v) /\ v # "none" /\ (v = "done" => exiting[o])
  <2>1. ASSUME NEW o \in Owners, NEW i \in Slots(o), LoopHead(o, i) \/ Wake(o, i)
        PROVE  \E v \in Places : Moves(o, i, v) /\ v # "none" /\ (v = "done" => exiting[o])
    BY <2>1 DEF LoopHead, Wake, Move, Moves, Places
  <2>2. ASSUME NEW d \in Devices, NEW i \in Slots(d), TestContext(d, i) \/ ReadFrame(d, i)
        PROVE  \E v \in Places : Moves(d, i, v) /\ v # "none" /\ (v = "done" => exiting[d])
    BY <2>2 DEF TestContext, ReadFrame, Move, Moves, Places
  <2>3. ASSUME NEW i \in Slots("factory"), Process(i)
        PROVE  \E v \in Places : Moves("factory", i, v) /\ v # "none"
                                 /\ (v = "done" => exiting["factory"])
    BY <2>3 DEF Process, Move, Moves, Places
  <2> QED
    BY <2>1, <2>2, <2>3 DEF ThreadStep, Owners
<1> QED
  BY <1>1, <1>2, <1>3, ServedParts

LEMMA ServedStep ==
    ASSUME TypeOK, Ordered, Ending, Served, Next
    PROVE  Served'
<1> USE DEF Op
<1>1. CASE SetEnable
  <2>1. PICK d \in Devices, b \in BOOLEAN : Enables(d, b)
    BY <1>1, SetEnableList
  <2>2. UNCHANGED <<loc, latest>> /\ 2 \in DOMAIN todo' /\ Serves(todo'[2])
    BY <2>1 DEF Enables, Notify1, Serves
  <2> QED
    BY <2>2 DEF Served, Live, Slots
<1>2. CASE ChangeDevice
  <2>1. /\ todo = <<>> /\ UNCHANGED <<kind, loc, latest, running>>
        /\ \A i \in DOMAIN todo' : ~Starts(todo'[i])
    BY <1>2, ChangeDeviceList DEF Starts
  <2> QED
    BY <2>1 DEF Served, Live, Slots
<1>3. CASE StartStop
  <2>1. UNCHANGED <<loc, latest>> /\ \E i \in DOMAIN todo' : Serves(todo'[i])
    BY <1>3, StartStopList DEF StartStop, Serve1, Serves
  <2> QED
    BY <2>1 DEF Served, Live, Slots
<1>4. CASE Destroy
  <2>1. \A i \in DOMAIN todo' : ~Starts(todo'[i])
    BY <1>4, DestroyList DEF Starts, Serve1
  <2>2. todo = <<>> /\ UNCHANGED <<kind, loc, latest, running>>
    BY <1>4 DEF Destroy
  <2> QED
    BY <2>1, <2>2 DEF Served, Live, Slots
<1>5. CASE Operation
  BY <1>5, ServedOperation
<1>6. CASE ThreadStep
  BY <1>6, ServedThread
<1> QED
  BY <1>1, <1>2, <1>3, <1>4, <1>5, <1>6 DEF Next, AppStep, Operation

LEMMA AloneCall ==
    ASSUME TypeOK, Alone, SetEnable \/ StartStop \/ ChangeDevice \/ Destroy
    PROVE  Alone'
<1> USE DEF Op
<1>1. UNCHANGED <<kind, running, ctx, loc, latest, exiting, failed, nullRead>>
  BY DEF SetEnable, StartStop, ChangeDevice, Destroy
<1>2. \A i \in DOMAIN todo' : todo'[i].op # "thread"
  <2>1. CASE SetEnable
    <3>1. PICK d \in Devices, b \in BOOLEAN : Enables(d, b)
      BY <2>1, SetEnableList
    <3> QED
      BY <3>1 DEF Enables, Notify1
  <2>2. CASE ChangeDevice
    BY <2>2, ChangeDeviceList
  <2>3. CASE StartStop
    BY <2>3, StartStopList DEF Serve1
  <2>4. CASE Destroy
    BY <2>4, DestroyList DEF Serve1
  <2> QED
    BY <2>1, <2>2, <2>3, <2>4
<1> QED
  BY <1>1, <1>2 DEF Alone, Guarded, Slots, Owners

\* The parts of Alone
OneEach == \A o \in Owners : Guarded(o) =>
              \A i \in Slots(o) : loc[o][i] \notin {"none", "done"} => i = latest[o]
Backed == \A d \in Devices : \A i \in Slots(d) : loc[d][i] = "read" => ctx[d]
Wanted == \A i \in DOMAIN todo : todo[i].op = "thread" /\ Guarded(todo[i].on) => ~Pause(todo[i].on)

LEMMA AloneParts ==
    /\ Alone <=> failed \/ (~nullRead /\ OneEach /\ Backed /\ Wanted)
    /\ Alone' <=> failed' \/ (~nullRead' /\ OneEach' /\ Backed' /\ Wanted')
BY DEF Alone, OneEach, Backed, Wanted, Guarded, Slots, Owners, Pause

\* A thread is started where there was none, or one was waited for.
LEMMA PlacesAlone ==
    ASSUME TypeOK, Ordered, Alone, ~failed, Operation, UNCHANGED ctx
    PROVE  OneEach' /\ Backed'
<1>0. /\ Device \in Owners /\ 1 \in DOMAIN todo /\ todo # <<>> /\ UNCHANGED kind
      /\ OfThreads /\ OneEach /\ Backed /\ Wanted
  BY Operations, NextOp, TypeParts, AloneParts
<1>1. CASE UNCHANGED <<loc, latest>>
  BY <1>0, <1>1 DEF OneEach, Backed, Guarded, Slots, Owners
<1>2. CASE /\ IsNext("exit") /\ UNCHANGED loc /\ latest' = [latest EXCEPT ![Device] = 0]
           /\ latest[Device] # 0 => loc[Device][latest[Device]] = "done"
  <2>1. \A p \in Owners : latest'[p] = IF p = Device THEN 0 ELSE latest[p]
    BY <1>0, <1>2 DEF OfThreads
  <2>2. OneEach'
    <3> SUFFICES ASSUME NEW p \in Owners, Guarded(p), NEW j \in Slots(p),
                        loc[p][j] \notin {"none", "done"}
                 PROVE  j = latest'[p]
      BY <1>0, <1>2 DEF OneEach, Guarded, Slots, Owners
    <3>1. j = latest[p] /\ j # 0
      BY <1>0, SlotsFacts DEF OneEach
    <3> QED
      BY <1>2, <2>1, <3>1
  <2> QED
    BY <1>0, <1>2, <2>2 DEF Backed, Slots
<1>3. ASSUME IsNext("thread"), ~Reuses(Device), NEW i \in Slots(Device),
             Moves(Device, i, "head"), latest' = [latest EXCEPT ![Device] = i]
      PROVE  OneEach' /\ Backed'
  <2>1. \A p \in Owners : /\ latest'[p] = IF p = Device THEN i ELSE latest[p]
    BY <1>0, <1>3 DEF OfThreads
  <2>2. \A p \in Owners : loc'[p] = IF p = Device THEN [loc[p] EXCEPT ![i] = "head"] ELSE loc[p]
    BY <1>0, <1>3 DEF OfThreads, Moves
  <2>3. Guarded(Device) => latest[Device] = 0
    BY <1>0, <1>3 DEF Reuses, Wanted, IsNext, Device
  <2>4. \A p \in Owners : loc[p] \in [Slots(p) -> Places]
    BY <1>0 DEF OfThreads
  <2>5. \A p \in Owners : \A j \in Slots(p) :
           loc'[p][j] = IF p = Device /\ j = i THEN "head" ELSE loc[p][j]
    BY <1>0, <2>2, <2>4
  <2>6. OneEach'
    <3> SUFFICES ASSUME NEW p \in Owners, Guarded(p), NEW j \in Slots(p),
                        loc'[p][j] \notin {"none", "done"}
                 PROVE  j = latest'[p]
      BY <1>0 DEF OneEach, Guarded, Slots, Owners
    <3>1. CASE p = Device /\ j = i
      BY <2>1, <3>1
    <3>2. CASE ~(p = Device /\ j = i)
      <4>1. j = latest[p] /\ j # 0
        BY <1>0, <2>5, <3>2, SlotsFacts DEF OneEach
      <4> QED
        BY <2>1, <2>3, <4>1
    <3> QED
      BY <3>1, <3>2
  <2>7. Backed'
    BY <1>0, <2>5 DEF Backed, Slots, Owners
  <2> QED
    BY <2>6, <2>7
<1> QED
  BY <1>1, <1>2, <1>3, OperationPlaces

LEMMA AloneOperation ==
    ASSUME TypeOK, Ordered, Alone, Operation
    PROVE  Alone'
<1> USE DEF Op
<1>0. /\ Device \in Owners /\ 1 \in DOMAIN todo /\ todo # <<>> /\ UNCHANGED kind
      /\ failed \in BOOLEAN /\ running \in [Devices -> BOOLEAN]
  BY Operations, NextOp, TypeParts DEF Flags, OfDevices
<1>1. failed => failed'
  BY <1>0 DEF Operation, Start, Stop, Set, Serve, Notify, StartThread, ExitThread, Reopen, OpenDevice
<1> SUFFICES ASSUME ~failed, ~failed'
             PROVE  ~nullRead' /\ OneEach' /\ Backed' /\ Wanted'
  BY <1>1, AloneParts
<1>2. ~nullRead /\ OneEach /\ Backed /\ Wanted
  BY AloneParts
<1>3. ~nullRead'
  BY <1>2 DEF Operation, Start, Stop, Set, Serve, Notify, StartThread, ExitThread, Reopen
<1>4. OneEach' /\ Backed'
  <2>1. CASE ~Reopen
    <3>1. UNCHANGED ctx
      BY <2>1 DEF Operation, Start, Stop, Set, Serve, Notify, StartThread, ExitThread
    <3> QED
      BY <3>1, PlacesAlone
  <2>2. CASE Reopen
    <3>1. UNCHANGED <<loc, latest>> /\ ctx' = [ctx EXCEPT ![Device] = TRUE]
      BY <2>2 DEF Reopen, OpenDevice
    <3> QED
      BY <1>0, <1>2, <3>1 DEF OneEach, Backed, Guarded, Slots, Owners, TypeOK
  <2> QED
    BY <2>1, <2>2
<1>5. Wanted'
  <2>1. ASSUME NEW o \in Owners, Asks(o)
        PROVE  Wanted'
    <3>1. /\ DOMAIN todo' = DOMAIN todo /\ todo'[1] = Op("thread", o, FALSE)
          /\ \A i \in DOMAIN todo : i # 1 => todo'[i] = todo[i]
      BY <1>0, <2>1, Becomes DEF Asks
    <3>2. \A i \in DOMAIN todo' : todo'[i].op = "thread" => i = 1
      BY <3>1 DEF Ordered
    <3>3. CASE Starts(todo[1]) /\ o = Device /\ running' = [running EXCEPT ![o] = TRUE]
      <4>1. o \in Devices /\ o # "factory"
        BY <1>0, <3>3, DeviceAssumption DEF Ordered, Starts, Device
      <4>2. ~Pause(o)'
        BY <1>0, <3>3, <4>1 DEF Pause
      <4>3. \A i \in DOMAIN todo' : todo'[i].op = "thread" => todo'[i].on = o
        BY <3>1, <3>2
      <4> QED
        BY <4>1, <4>2, <4>3 DEF Wanted, Guarded, Pause
    <3>4. CASE o = "factory" /\ UNCHANGED running /\ (kind = "video" \/ ~Pause(o))
      <4>1. Guarded(o) => ~Pause(o)'
        BY <3>4, DeviceAssumption DEF Guarded, Pause
      <4>2. \A i \in DOMAIN todo' : todo'[i].op = "thread" => todo'[i].on = o
        BY <3>1, <3>2
      <4> QED
        BY <1>0, <3>4, <4>1, <4>2 DEF Wanted, Guarded, Pause
    <3> QED
      BY <2>1, <3>3, <3>4 DEF Asks
  <2>2. CASE Tells
    BY <1>0, <1>2, <2>2 DEF Tells, Wanted, Guarded, Pause
  <2>3. CASE IsDone
    <3>1. \A i \in DOMAIN todo' : i \in Nat \ {0} /\ i + 1 \in DOMAIN todo /\ todo'[i] = todo[i + 1]
      BY <1>0, <2>3, Shrinks DEF IsDone
    <3>2. \A i \in DOMAIN todo' : todo'[i].op # "thread"
      BY <3>1 DEF Ordered
    <3> QED
      BY <3>2 DEF Wanted
  <2> QED
    BY <2>1, <2>2, <2>3, Operations
<1> QED
  BY <1>3, <1>4, <1>5

\* A thread that lives moves on; it is about to read only with a device, and closes
\* the device only where no thread reads.
LEMMA MovesAlone ==
    ASSUME TypeOK, OneEach, Backed, UNCHANGED <<kind, latest>>,
           NEW o \in Owners, NEW i \in Slots(o), NEW v, Moves(o, i, v),
           loc[o][i] \notin {"none", "done"},
           ctx' \in [Devices -> BOOLEAN],
           \A d \in Devices \ {o} : ctx'[d] = ctx[d],
           o \in Devices => ctx'[o] \/ (v # "read" /\ loc[o][i] # "read")
    PROVE  OneEach' /\ Backed'
<1>0. OfThreads
  BY TypeParts
<1>1. \A p \in Owners : loc'[p] = IF p = o THEN [loc[p] EXCEPT ![i] = v] ELSE loc[p]
  BY <1>0 DEF OfThreads, Moves
<1>2. \A p \in Owners : loc[p] \in [Slots(p) -> Places]
  BY <1>0 DEF OfThreads
<1>3. \A p \in Owners : \A j \in Slots(p) :
         loc'[p][j] = IF p = o /\ j = i THEN v ELSE loc[p][j]
  BY <1>1, <1>2
<1>4. OneEach'
  <2> SUFFICES ASSUME NEW p \in Owners, Guarded(p), NEW j \in Slots(p),
                      loc'[p][j] \notin {"none", "done"}
               PROVE  j = latest[p]
    BY DEF OneEach, Guarded, Slots, Owners
  <2> QED
    BY <1>3 DEF OneEach
<1>5. Backed'
  <2> SUFFICES ASSUME NEW d \in Devices, NEW j \in Slots(d), loc'[d][j] = "read"
               PROVE  ctx'[d]
    BY DEF Backed, Slots
  <2>1. d \in Owners /\ Guarded(d)
    BY DEF Owners, Guarded
  <2>2. CASE d # o
    BY <1>3, <2>1, <2>2 DEF Backed
  <2>3. CASE d = o /\ j = i
    BY <1>3, <2>1, <2>3
  <2>4. CASE d = o /\ j # i
    <3>1. loc[d][j] = "read"
      BY <1>3, <2>1, <2>4
    <3>2. j = latest[d] /\ i = latest[d]
      BY <2>1, <2>4, <3>1 DEF OneEach
    <3> QED
      BY <2>4, <3>2
  <2> QED
    BY <2>2, <2>3, <2>4
<1> QED
  BY <1>4, <1>5

LEMMA AloneThread ==
    ASSUME TypeOK, Alone, ThreadStep
    PROVE  Alone'
<1>0. /\ UNCHANGED <<kind, todo, latest>> /\ (failed' \/ running' = running)
      /\ (failed => failed') /\ failed \in BOOLEAN /\ failed' \in BOOLEAN
      /\ ctx \in [Devices -> BOOLEAN] /\ ctx' \in [Devices -> BOOLEAN]
  BY ThreadKeeps, ThreadType, TypeParts DEF Flags, OfDevices
<1> SUFFICES ASSUME ~failed, ~failed'
             PROVE  ~nullRead' /\ OneEach' /\ Backed' /\ Wanted'
  BY <1>0, AloneParts
<1>1. ~nullRead /\ OneEach /\ Backed /\ Wanted
  BY AloneParts
<1>2. Wanted'
  BY <1>0, <1>1 DEF Wanted, Guarded, Pause
<1>3. ASSUME NEW o \in Owners, NEW i \in Slots(o), LoopHead(o, i) \/ Wake(o, i)
      PROVE  ~nullRead' /\ OneEach' /\ Backed'
  <2>1. /\ UNCHANGED nullRead
        /\ \A d \in Devices \ {o} : ctx'[d] = ctx[d]
    BY <1>0, <1>3 DEF LoopHead, Wake
  <2>2. loc[o][i] \in {"head", "parked"}
        /\ \E v \in {"head", "parked", "run", "done"} : Moves(o, i, v)
    BY <1>3 DEF LoopHead, Wake, Move, Moves
  <2> QED
    BY <1>0, <1>1, <2>1, <2>2, MovesAlone
<1>4. ASSUME NEW d \in Devices, NEW i \in Slots(d), TestContext(d, i)
      PROVE  ~nullRead' /\ OneEach' /\ Backed'
  <2>1. UNCHANGED nullRead /\ d \in Owners
    BY <1>4 DEF TestContext, Owners
  <2>2. ctx'[d] /\ Moves(d, i, "read") /\ loc[d][i] = "run"
        /\ \A e \in Devices \ {d} : ctx'[e] = ctx[e]
    BY <1>0, <1>4 DEF TestContext, OpenDevice, Move, Moves
  <2> QED
    BY <1>0, <1>1, <2>1, <2>2, MovesAlone
<1>5. ASSUME NEW d \in Devices, NEW i \in Slots(d), ReadFrame(d, i)
      PROVE  ~nullRead' /\ OneEach' /\ Backed'
  <2>1. d \in Owners /\ UNCHANGED ctx /\ loc[d][i] = "read" /\ Moves(d, i, "head")
    BY <1>5 DEF ReadFrame, Owners, Move, Moves
  <2>2. ctx[d]
    BY <1>1, <2>1 DEF Backed
  <2>3. ~nullRead'
    BY <1>1, <1>5, <2>2 DEF ReadFrame
  <2> QED
    BY <1>0, <1>1, <2>1, <2>2, <2>3, MovesAlone
<1>6. ASSUME NEW i \in Slots("factory"), Process(i)
      PROVE  ~nullRead' /\ OneEach' /\ Backed'
  <2>1. /\ "factory" \in Owners /\ UNCHANGED <<ctx, nullRead>> /\ loc["factory"][i] = "run"
        /\ Moves("factory", i, "head") /\ "factory" \notin Devices
    BY <1>6, DeviceAssumption DEF Process, Owners, Move, Moves
  <2> QED
    BY <1>0, <1>1, <2>1, MovesAlone
<1> QED
  BY <1>2, <1>3, <1>4, <1>5, <1>6 DEF ThreadStep

-----------------------------------------------------------------------------
(* The theorems *)

LEMMA Starting ==
    Init => IInv
<1> SUFFICES ASSUME Init PROVE IInv
  OBVIOUS
<1>1. TypeOK
  BY TypeInit
<1>2. DOMAIN todo = {}
  BY DEF Init
<1>3. Ordered
  BY <1>2 DEF Ordered
<1>4. \A d \in Devices : ~running[d]
  BY DEF Init
<1>5. Switched
  BY <1>2, <1>4 DEF Switched
<1>6. \A o \in Owners : /\ \A i \in Slots(o) : loc[o][i] = "none"
                        /\ latest[o] = 0 /\ ~exiting[o]
  BY DEF Init
<1>7. ~nullRead /\ ~destroyed
  BY DEF Init
<1>8. Alone
  BY <1>2, <1>6, <1>7 DEF Alone, Owners
<1>9. Ending
  BY <1>2, <1>6, <1>7 DEF Ending
<1>10. Served
  BY <1>2, <1>4, <1>6 DEF Served, Owners
<1> QED
  BY <1>1, <1>3, <1>5, <1>8, <1>9, <1>10 DEF IInv

LEMMA Stuttering ==
    IInv /\ UNCHANGED vars => IInv'
BY DEF IInv, vars, TypeOK, Ordered, Switched, Alone, Ending, Served, Slots, Live, Pause, Guarded,
       Owners, Serves, Starts, Stops

THEOREM Inductive ==
    Spec => []IInv
<1>1. IInv /\ [Next]_vars => IInv'
  <2> SUFFICES ASSUME IInv, [Next]_vars PROVE IInv'
    OBVIOUS
  <2>1. CASE Next
    <3>1. TypeOK /\ Ordered /\ Switched /\ Alone /\ Ending /\ Served
      BY DEF IInv
    <3>2. Alone'
      BY <2>1, <3>1, AloneCall, AloneOperation, AloneThread DEF Next, AppStep, Operation
    <3>3. TypeOK'
      BY <2>1, <3>1, TypeStep
    <3> QED
      BY <2>1, <3>1, <3>2, <3>3, OrderedStep, SwitchedStep, EndingStep, ServedStep DEF IInv
  <2>2. CASE UNCHANGED vars
    BY <2>2, Stuttering
  <2> QED
    BY <2>1, <2>2
<1> QED
  BY Starting, <1>1, PTL DEF Spec

\* The type invariant, for any devices and any number of threads: a thread that was
\* not told to end never ends (abstractthread.cpp:33-49).
THEOREM TypeCorrect ==
    Spec => []TypeOK
<1>1. IInv => TypeOK
  BY DEF IInv
<1> QED
  BY Inductive, <1>1, PTL

\* A medium is on because start was the last call, or because the flag of video
\* began so and neither was called yet
AskedInv == on => asked = "start" \/ (asked = "none" /\ kind = "video")

LEMMA AskedStep ==
    AskedInv /\ [Next]_vars => AskedInv'
<1> SUFFICES ASSUME AskedInv, [Next]_vars PROVE AskedInv'
  OBVIOUS
<1>1. CASE UNCHANGED <<kind, on, asked>>
  BY <1>1 DEF AskedInv
<1>2. CASE StartStop
  BY <1>2 DEF StartStop, AskedInv
<1>3. StartStop \/ UNCHANGED <<kind, on, asked>>
  <2>1. CASE UNCHANGED vars
    BY <2>1 DEF vars
  <2>2. CASE SetEnable \/ ChangeDevice \/ Destroy
    BY <2>2 DEF SetEnable, ChangeDevice, Destroy
  <2>3. CASE Operation
    BY <2>3 DEF Operation, Start, Stop, Set, Serve, Notify, StartThread, ExitThread, Reopen
  <2>4. CASE ThreadStep
    BY <2>4 DEF ThreadStep, LoopHead, Wake, TestContext, ReadFrame, Process
  <2> QED
    BY <2>1, <2>2, <2>3, <2>4 DEF Next, AppStep, Operation
<1> QED
  BY <1>1, <1>2, <1>3

\* Between calls what runs is enabled, of a medium for which start was called last
\* (devicemanager.cpp:98), except for video before the first such call.
THEOREM Global ==
    Spec => []GlobalSwitch
<1>1. Init => AskedInv
  BY DEF Init, AskedInv
<1>2. AskedInv /\ [Next]_vars => AskedInv'
  BY AskedStep
<1>3. IInv /\ AskedInv => GlobalSwitch
  BY DEF IInv, Switched, GlobalSwitch, AskedInv
<1> QED
  BY Inductive, <1>1, <1>2, <1>3, PTL DEF Spec

\* A set of which every element is the same has at most one.
LEMMA AtMostOne ==
    ASSUME NEW S, NEW x, S \subseteq {x}
    PROVE  Cardinality(S) <= 1
<1>1. IsFiniteSet({x}) /\ Cardinality({x}) = 1
  BY FS_Singleton
<1>2. Cardinality(S) <= Cardinality({x})
  BY <1>1, FS_Subset
<1> QED
  BY <1>1, <1>2

\* While every device that is opened opens, a capture's device is read by one thread,
\* and never while it is closed.
THEOREM Safe ==
    Spec => []CaptureIsSafe
<1>1. IInv => CaptureIsSafe
  <2> SUFFICES ASSUME IInv, ~failed, NEW d \in Devices
               PROVE  ~nullRead /\ Cardinality(Live(d)) <= 1
    BY DEF CaptureIsSafe, IInv, Alone
  <2>1. Live(d) \subseteq {latest[d]}
    BY DEF IInv, Alone, Guarded, Live, Owners
  <2> QED
    BY <2>1, AtMostOne DEF IInv, Alone
<1> QED
  BY Inductive, <1>1, PTL

\* The audio factory reads with one thread.
THEOREM OneReader ==
    Spec => []AudioHasOneReader
<1>1. IInv => AudioHasOneReader
  <2> SUFFICES ASSUME IInv, kind = "audio", ~failed
               PROVE  Cardinality(Live("factory")) <= 1
    BY DEF AudioHasOneReader
  <2>1. Live("factory") \subseteq {latest["factory"]}
    BY DEF IInv, Alone, Guarded, Live, Owners
  <2> QED
    BY <2>1, AtMostOne
<1> QED
  BY Inductive, <1>1, PTL

\* A video device that runs has a factory with a thread.
THEOREM Processed ==
    Spec => []VideoIsProcessed
<1>1. IInv => VideoIsProcessed
  BY DEF IInv, Served, VideoIsProcessed
<1> QED
  BY Inductive, <1>1, PTL
=============================================================================
