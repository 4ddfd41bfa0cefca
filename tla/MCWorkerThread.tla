--------------------------- MODULE MCWorkerThread ---------------------------
(* The owners of the library's threads, for TLC.                            *)
EXTENDS WorkerThread

AllOwners == {
    \* decoders and network threads start in their constructor, the player after
    \* exit_thread; they pause when their own work leaves them nothing to do
    [starts |-> "once", pausesItself |-> TRUE],
    \* the audio factory, and captures whose device does not fail
    [starts |-> "resumed", pausesItself |-> FALSE],
    \* encoders, and captures whose device may fail
    [starts |-> "resumed", pausesItself |-> TRUE],
    \* the video factory
    [starts |-> "always", pausesItself |-> FALSE] }
=============================================================================
