---------------------------- MODULE WorkerThread ----------------------------
(***************************************************************************)
(* The life of the thread of an AbstractThread object                      *)
(* (src/src/core/abstractthread.{h,cpp}), the base class of every          *)
(* asynchronous component of the library.                                  *)
(*                                                                         *)
(* A worker executes ThreadCallBackFunction; a controller, the thread that *)
(* owns the object, calls start_thread, exit_thread, notify_thread and     *)
(* changes what get_thread_pause_condition returns.  Neither the exit flag *)
(* nor the pause condition is written under the mutex the worker waits     *)
(* with, so the worker's evaluation of the wait predicate and its going to *)
(* sleep are two steps: a notification between them reaches nobody.        *)
(*                                                                         *)
(* An owner calls start_thread "once" (in a constructor, or after          *)
(* exit_thread), when it has "resumed" the object (it has made the pause   *)
(* condition false) or "always"; its on_thread_run may pause itself.       *)
(***************************************************************************)
EXTENDS FiniteSets

CONSTANTS
    Workers,    \* identities of the std::thread objects (bound: threads alive at once)
    NoWorker,   \* _thread == nullptr
    Owners      \* how the subclasses use their thread, see below

ASSUME WorkerAssumption ==
    /\ Workers # {} /\ IsFiniteSet(Workers)
    /\ NoWorker \notin Workers
    /\ \A o \in Owners : /\ o.starts \in {"once", "resumed", "always"}
                         /\ o.pausesItself \in BOOLEAN

VARIABLES
    owner,      \* chosen once
    exitFlag,   \* _thread_exit_flag
    pause,      \* what get_thread_pause_condition() returns
    thread,     \* _thread
    mutex,      \* the worker that holds _mutex, or NoWorker
    pc,         \* pc[w]: where worker w is in ThreadCallBackFunction
    flushed,    \* flushed[w]: on_thread_pause has run since the last on_thread_run
    cpc,        \* where the controller is
    foundPausing \* history: a start_thread found its thread and was to pause

threadVars == <<owner, exitFlag, pause, thread, mutex, pc, flushed, cpc, foundPausing>>

(***************************************************************************)
(* "unused": never created; "check": the test at the head of the loop;     *)
(* "lock": acquiring _mutex; "pausing": inside on_thread_pause;            *)
(* "predicate": evaluating the wait predicate; "gap": the predicate was    *)
(* false and the worker has not gone to sleep yet; "sleep": waiting on the *)
(* condition variable; "relock": woken, acquiring _mutex again;            *)
(* "awake": the wait has returned; "run": inside on_thread_run.            *)
(***************************************************************************)
Locations == {"unused", "check", "lock", "pausing", "predicate", "gap",
              "sleep", "relock", "awake", "run", "done"}

Holding == {"pausing", "predicate", "gap", "awake"}   \* locations with _mutex held

ControllerLocations ==
    {"idle", "start", "spawn", "notify", "exitNotify", "join"}

ThreadTypeOK ==
    /\ owner \in Owners
    /\ exitFlag \in BOOLEAN
    /\ pause \in BOOLEAN
    /\ thread \in Workers \cup {NoWorker}
    /\ mutex \in Workers \cup {NoWorker}
    /\ pc \in [Workers -> Locations]
    /\ flushed \in [Workers -> BOOLEAN]
    /\ cpc \in ControllerLocations
    /\ foundPausing \in BOOLEAN
    /\ \A w \in Workers : mutex = w <=> pc[w] \in Holding

Live == {w \in Workers : pc[w] \notin {"unused", "done"}}

ThreadInit ==
    /\ owner \in Owners
    /\ exitFlag = TRUE
    /\ pause \in BOOLEAN
    /\ thread = NoWorker
    /\ mutex = NoWorker
    /\ pc = [w \in Workers |-> "unused"]
    /\ flushed = [w \in Workers |-> TRUE]
    /\ cpc = "idle"
    /\ foundPausing = FALSE

Goto(w, from, to) ==
    /\ pc[w] = from
    /\ pc' = [pc EXCEPT ![w] = to]

(***************************************************************************)
(* The worker.                                                             *)
(***************************************************************************)
ShouldPause == pause \/ exitFlag

\* mutants: the predicate of line 42 without one of its two halves
WaitPredicate_IgnoresExit == ~pause
WaitPredicate_IgnoresResume == exitFlag

WaitPredicate == ~pause \/ exitFlag

\* mutant: ending at the head of the loop, before on_thread_pause
CheckLoop_EndsAtOnce(w) ==
    /\ Goto(w, "check", IF exitFlag THEN "done" ELSE IF pause THEN "lock" ELSE "run")
    /\ UNCHANGED <<owner, foundPausing, exitFlag, pause, thread, mutex, flushed, cpc>>

CheckLoop(w) ==
    /\ Goto(w, "check", IF ShouldPause THEN "lock" ELSE "run")
    /\ UNCHANGED <<owner, foundPausing, exitFlag, pause, thread, mutex, flushed, cpc>>

Lock(w) ==
    /\ mutex = NoWorker
    /\ \/ Goto(w, "lock", "pausing")
       \/ Goto(w, "relock", "predicate")
    /\ mutex' = w
    /\ UNCHANGED <<owner, foundPausing, exitFlag, pause, thread, flushed, cpc>>

\* on_thread_pause() and the test of the exit flag that follows it
OnThreadPause(w) ==
    /\ Goto(w, "pausing", IF exitFlag THEN "done" ELSE "predicate")
    /\ mutex' = IF exitFlag THEN NoWorker ELSE w
    /\ flushed' = [flushed EXCEPT ![w] = TRUE]
    /\ UNCHANGED <<owner, foundPausing, exitFlag, pause, thread, cpc>>

EvaluatePredicate(w) ==
    /\ Goto(w, "predicate", IF WaitPredicate THEN "awake" ELSE "gap")
    /\ UNCHANGED <<owner, foundPausing, exitFlag, pause, thread, mutex, flushed, cpc>>

\* condition_variable::wait releases the mutex and sleeps in one step
Sleep(w) ==
    /\ Goto(w, "gap", "sleep")
    /\ mutex' = NoWorker
    /\ UNCHANGED <<owner, foundPausing, exitFlag, pause, thread, flushed, cpc>>

\* the standard lets a wait return without a notification
SpuriousWake(w) ==
    /\ Goto(w, "sleep", "relock")
    /\ UNCHANGED <<owner, foundPausing, exitFlag, pause, thread, mutex, flushed, cpc>>

AfterWait(w) ==
    /\ Goto(w, "awake", IF exitFlag THEN "done" ELSE "run")
    /\ mutex' = NoWorker
    /\ UNCHANGED <<owner, foundPausing, exitFlag, pause, thread, flushed, cpc>>

\* on_thread_run(); a subclass may end it by making itself pause (Timer::stop
\* from the callback, Encoder::set_encoder_type(None) after a failure)
OnThreadRun(w) ==
    /\ Goto(w, "run", "check")
    /\ flushed' = [flushed EXCEPT ![w] = FALSE]
    /\ pause' \in {pause} \cup (IF owner.pausesItself THEN {TRUE} ELSE {})
    /\ UNCHANGED <<owner, foundPausing, exitFlag, thread, mutex, cpc>>

(***************************************************************************)
(* The controller.                                                         *)
(***************************************************************************)
\* a setter that makes the pause condition true; nobody is notified
CallPause ==
    /\ cpc = "idle"
    /\ pause' = TRUE
    /\ UNCHANGED <<owner, foundPausing, exitFlag, thread, mutex, pc, flushed, cpc>>

\* a setter that makes the pause condition false and then notifies
CallResume ==
    /\ cpc = "idle"
    /\ pause' = FALSE
    /\ cpc' = "notify"
    /\ UNCHANGED <<owner, foundPausing, exitFlag, thread, mutex, pc, flushed>>

CallStart ==
    /\ cpc = "idle"
    /\ \/ thread = NoWorker
       \/ owner.starts = "resumed" /\ ~pause
       \/ owner.starts = "always"
    /\ cpc' = "start"
    /\ UNCHANGED <<owner, foundPausing, exitFlag, pause, thread, mutex, pc, flushed>>

FoundPausing == foundPausing \/ (thread # NoWorker /\ pause)

\* mutant: an existing thread is not looked for
StartThread_AlwaysSpawns ==
    /\ cpc = "start"
    /\ cpc' = "spawn"
    /\ exitFlag' = FALSE
    /\ foundPausing' = FoundPausing
    /\ UNCHANGED <<owner, pause, thread, mutex, pc, flushed>>

StartThread ==
    /\ cpc = "start"
    /\ IF thread # NoWorker /\ ~pause
       THEN cpc' = "notify" /\ UNCHANGED exitFlag
       ELSE cpc' = "spawn" /\ exitFlag' = FALSE
    /\ foundPausing' = FoundPausing
    /\ UNCHANGED <<owner, pause, thread, mutex, pc, flushed>>

\* _thread = new std::thread(...): the old value is overwritten
Spawn ==
    /\ cpc = "spawn"
    /\ \E w \in Workers \ (Live \cup {thread}) :
          /\ pc' = [pc EXCEPT ![w] = "check"]
          /\ flushed' = [flushed EXCEPT ![w] = TRUE]
          /\ thread' = w
    /\ cpc' = "idle"
    /\ UNCHANGED <<owner, foundPausing, exitFlag, pause, mutex>>

\* notify_one: wakes one sleeping worker, if there is one
NotifyOne ==
    LET Sleeping == {w \in Workers : pc[w] = "sleep"}
    IN  \/ Sleeping = {} /\ UNCHANGED pc
        \/ \E w \in Sleeping : Goto(w, "sleep", "relock")

NotifyThread ==
    /\ cpc \in {"notify", "exitNotify"}
    /\ NotifyOne
    /\ cpc' = IF cpc = "notify" THEN "idle" ELSE "join"
    /\ UNCHANGED <<owner, foundPausing, exitFlag, pause, thread, mutex, flushed>>

\* exit_thread(): nothing to do when the flag is set already
CallExit ==
    /\ cpc = "idle"
    /\ ~exitFlag
    /\ exitFlag' = TRUE
    /\ cpc' = "exitNotify"
    /\ UNCHANGED <<owner, foundPausing, pause, thread, mutex, pc, flushed>>

Join ==
    /\ cpc = "join"
    /\ thread # NoWorker => pc[thread] = "done"
    /\ thread' = NoWorker
    /\ cpc' = "idle"
    /\ UNCHANGED <<owner, foundPausing, exitFlag, pause, mutex, pc, flushed>>

-----------------------------------------------------------------------------
WorkerStep(w) ==
    \/ CheckLoop(w) \/ Lock(w) \/ OnThreadPause(w) \/ EvaluatePredicate(w)
    \/ Sleep(w) \/ AfterWait(w) \/ OnThreadRun(w)

Call == CallPause \/ CallResume \/ CallStart \/ CallExit

ControllerStep == StartThread \/ Spawn \/ NotifyThread \/ Join

ThreadNext ==
    \/ \E w \in Workers : WorkerStep(w) \/ SpuriousWake(w)
    \/ Call
    \/ ControllerStep

ThreadSpec == ThreadInit /\ [][ThreadNext]_threadVars

\* The scheduler runs every thread that can run; the owner is free to call
\* nothing, and no wake-up without a notification is promised.
Fairness == /\ \A w \in Workers : WF_threadVars(WorkerStep(w))
            /\ WF_threadVars(ControllerStep)

FairThreadSpec == ThreadSpec /\ Fairness

-----------------------------------------------------------------------------
(* Properties *)

\* Owners that may call start_thread while their thread is to pause: those that
\* always start, and those whose thread pauses itself after they resumed it.
MayOverwrite ==
    \/ owner.starts = "always"
    \/ owner.starts = "resumed" /\ owner.pausesItself

\* on_thread_run of every subclass is written for one caller.  Whoever the owner
\* is, at most one worker runs ThreadCallBackFunction, and it is the one _thread
\* points to, until a start_thread finds its thread and the pause condition true
\* (abstractthread.cpp:79); and only the owners above ever make such a call (the
\* encoders and the captures, and the video factory).
OneWorker ==
    /\ foundPausing \/ \A w \in Live : w = thread
    /\ foundPausing => MayOverwrite

\* "on_thread_pause is certain to be called when the thread pauses or exits"
\* (abstractthread.h:100): a worker that sleeps or has ended has called it
\* since its last on_thread_run.
PauseCallbackRuns ==
    \A w \in Workers : pc[w] \in {"gap", "sleep", "done"} => flushed[w]

\* exit_thread returns, unless the worker had already found the wait predicate
\* false when the flag was set: everywhere else it sees the flag and ends.
ExitReturnsUnlessInGap ==
    (/\ cpc = "join"
     /\ thread # NoWorker => pc[thread] \notin {"gap", "sleep"}) ~> cpc = "idle"

\* A component whose owner keeps resuming it (every setter notifies) is not
\* stuck: one lost notification is repaired by the next.
RepeatedResumeRuns ==
    ([]<>(cpc = "notify") /\ <>[](thread # NoWorker /\ ~pause /\ ~exitFlag))
        => []<>(\E w \in Workers : pc[w] = "run")

=============================================================================
