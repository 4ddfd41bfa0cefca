--------------------------- MODULE MCPacketQueue ----------------------------
(* The wirings of the queues of the library, for TLC.                      *)
EXTENDS PacketQueue

CONSTANTS p1, p2, r1, r2

\* RTPRecvThread: the poll threads of two sessions push, get_next after a timed
\* wait; encoder to RTPSendThread: the same with one producer.
ReceiveQueue ==
    [producers |-> {p1, p2}, readers |-> {r1}, latest |-> FALSE, timed |-> TRUE]

\* camera or desktop capture to the thread of the video factory, and to the two
\* threads that the factory has after an unguarded start
CaptureQueue ==
    [producers |-> {p1}, readers |-> {r1}, latest |-> TRUE, timed |-> TRUE]
SharedCaptureQueue == [CaptureQueue EXCEPT !.readers = {r1, r2}]

\* video factory to the player, DXGI and WASAPI to their captures
PlayerQueue ==
    [producers |-> {p1}, readers |-> {r1}, latest |-> FALSE, timed |-> FALSE]

AllWirings == {ReceiveQueue, CaptureQueue, SharedCaptureQueue, PlayerQueue}
=============================================================================
