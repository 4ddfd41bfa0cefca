---------------------------- MODULE RoomSession -----------------------------
(***************************************************************************)
(* Joining and leaving rooms: LiveEngine (src/src/liveengine.cpp), its     *)
(* RTPSendThread (src/src/rtp_network/rtpsendthread.cpp) and the video and *)
(* audio RTPSession (rtpsession.cpp).                                      *)
(*                                                                         *)
(* The application's thread calls the engine; the send thread takes        *)
(* encoded packets from the encoders' queues; each session's poll thread   *)
(* gives RTPUserManager the users it hears of.  What the first two do      *)
(* under RTPSendThread::_mutex is one step; set_active, which              *)
(* set_room_name calls before it takes the mutex, writes _active in a step *)
(* and clears the list of users in another, and insert tests _active and   *)
(* adds the user in two.  The sessions of jrtplib are external: creating   *)
(* one gives it a new SSRC and clears the default payload type, a packet   *)
(* cannot be sent without that type, and an SDES item of more than 255     *)
(* bytes is refused and leaves the item as it was.                         *)
(***************************************************************************)
EXTENDS Integers, Sequences

CONSTANTS
    Rooms,          \* room names
    Names,          \* names the application may take
    Others,         \* users of the rooms
    Formats,        \* payload types of the encoders
    TooLong,        \* the names and rooms that do not fit into an SDES item
    NoRoom, NoName, NoFormat,
    FirstLatest,    \* what latest_*_pt may hold before it is assigned
    MaxQueue,       \* bound on the packets waiting in an encoder's queue
    MaxSsrc         \* bound on the sessions created

ASSUME RoomAssumption ==
    /\ NoRoom \notin Rooms /\ NoName \notin Names /\ NoFormat \notin Formats
    /\ TooLong \subseteq Names \cup Rooms
    /\ FirstLatest \subseteq Formats \cup {NoFormat}
    /\ MaxQueue \in Nat /\ MaxSsrc \in Nat

Media == {"video", "audio"}

VARIABLES
    session,    \* session[m]: the jrtplib session
    room,       \* room[m]: _room_name
    name,       \* name[m]: _local_name
    push,       \* push[m]: _push_flag
    latest,     \* latest[m]: latest_video_pt, latest_audio_pt with its sample rate
    localSsrc,  \* localSsrc[m]: _local_video_ssrc, _local_audio_ssrc
    queue,      \* queue[m]: formats of the packets the encoder has pushed
    last,       \* last[m]: the last packet given to the session, and whether it took it
    created,    \* sessions created so far, the source of new SSRCs
    active,     \* RTPUserManager::_active
    users,      \* users in RTPUserManager's list: their room, and who brought them
    poll,       \* poll[m]: room of the user whom the poll thread of session m is in
                \* insert with, past the test of _active
    todo,       \* set_room_name calls the application's thread has still to make
    stage,      \* how far it is with the first of them
    asked       \* the name and the push flag the application gave last

vars == <<session, room, name, push, latest, localSsrc, queue, last, created,
          active, users, poll, todo, stage, asked>>

Closed == [open |-> FALSE, ssrc |-> 0, pt |-> NoFormat, sdes |-> NoName, note |-> NoName]
Nothing == [ok |-> TRUE, pt |-> NoFormat, format |-> NoFormat]

Sessions ==
    [open : BOOLEAN, ssrc : Nat, pt : Formats \cup {NoFormat}, sdes : Names \cup {NoName},
     note : ((Rooms \cup {NoRoom}) \X BOOLEAN) \cup {NoName}]

Users == [room : Rooms, name : Others, via : Media]

TypeOK ==
    /\ session \in [Media -> Sessions]
    /\ room \in [Media -> Rooms \cup {NoRoom}]
    /\ name \in [Media -> Names \cup {NoName}]
    /\ push \in [Media -> BOOLEAN]
    /\ latest \in [Media -> Formats \cup {NoFormat}]
    /\ localSsrc \in [Media -> Nat]
    /\ queue \in [Media -> Seq(Formats)]
    /\ last \in [Media -> [ok : BOOLEAN, pt : Formats \cup {NoFormat},
                           format : Formats \cup {NoFormat}]]
    /\ created \in Nat
    /\ active \in BOOLEAN /\ stage \in {"start", "clear", "lock"}
    /\ users \subseteq Users /\ poll \in [Media -> Rooms \cup {NoRoom}]
    /\ todo \in Seq(Rooms \cup {NoRoom})
    /\ asked \in [name : Names \cup {NoName}, push : BOOLEAN]
    /\ \A m \in Media : session[m].open <=> session[m].ssrc # 0

Init ==
    /\ session = [m \in Media |-> Closed]
    /\ room = [m \in Media |-> NoRoom]
    /\ name = [m \in Media |-> NoName]
    /\ push = [m \in Media |-> FALSE]
    /\ latest \in [Media -> FirstLatest]
    /\ localSsrc = [m \in Media |-> 0]
    /\ queue = [m \in Media |-> <<>>]
    /\ last = [m \in Media |-> Nothing]
    /\ created = 0
    /\ active \in BOOLEAN /\ users = {} /\ poll = [m \in Media |-> NoRoom]
    /\ todo = <<>> /\ stage = "start"
    /\ asked = [name |-> NoName, push |-> FALSE]

(***************************************************************************)
(* The application's thread                                                *)
(***************************************************************************)
Idle == todo = <<>>

\* RTPSession::set_local_name, the NAME item of an open session
Named(s, n) == IF s.open /\ n \notin TooLong THEN [s EXCEPT !.sdes = n] ELSE s

\* LiveEngine::set_local_name; that an item was refused is its result and no more
SetLocalName ==
    /\ Idle
    /\ \E n \in Names :
          /\ name' = [m \in Media |-> n]
          /\ session' = [m \in Media |-> Named(session[m], n)]
          /\ asked' = [asked EXCEPT !.name = n]
    /\ UNCHANGED <<room, push, latest, localSsrc, queue, last, created, active,
                   users, poll, todo, stage>>

\* the NOTE item of an open session: room and push flag (RTPSessionPrivataData)
Noted(s, r, p) == IF s.open /\ r \notin TooLong THEN [s EXCEPT !.note = <<r, p>>] ELSE s

\* LiveEngine::enabled_push, without the mutex
SetPushFlag ==
    /\ Idle
    /\ \E f \in BOOLEAN :
          /\ push' = [m \in Media |-> f]
          /\ session' = [m \in Media |-> IF push[m] = f THEN session[m]
                                         ELSE Noted(session[m], room[m], f)]
          /\ asked' = [asked EXCEPT !.push = f]
    /\ UNCHANGED <<room, name, latest, localSsrc, queue, last, created, active,
                   users, poll, todo, stage>>

\* a room that was joined before is left first
JoinCalls(r) == IF room["video"] = NoRoom THEN <<r>> ELSE <<NoRoom, r>>

\* LiveEngine::join_room: nothing is done without a name
JoinRoom ==
    /\ Idle /\ name["video"] # NoName
    /\ \E r \in Rooms : todo' = JoinCalls(r)
    /\ UNCHANGED <<session, room, name, push, latest, localSsrc, queue, last, created,
                   active, users, poll, stage, asked>>

ExitRoom ==
    /\ Idle
    /\ todo' = <<NoRoom>>
    /\ UNCHANGED <<session, room, name, push, latest, localSsrc, queue, last, created,
                   active, users, poll, stage, asked>>

\* set_room_name: RTPUserManager::set_active writes the flag,
SetActive ==
    /\ ~Idle /\ stage = "start"
    /\ active' = (todo[1] # NoRoom)
    /\ stage' = IF active' THEN "lock" ELSE "clear"
    /\ UNCHANGED <<session, room, name, push, latest, localSsrc, queue, last, created,
                   users, poll, todo, asked>>

\* mutant: set_active only writes the flag
ClearAll_Nobody ==
    /\ stage = "clear"
    /\ stage' = "lock"
    /\ UNCHANGED <<session, room, name, push, latest, localSsrc, queue, last, created,
                   active, users, poll, todo, asked>>

\* and forgets the users when a room is left
ClearAll ==
    /\ stage = "clear"
    /\ users' = {} /\ stage' = "lock"
    /\ UNCHANGED <<session, room, name, push, latest, localSsrc, queue, last, created,
                   active, poll, todo, asked>>

\* mutant: the local SSRC is kept
ForgetSsrc_Keeps(ssrcs, isVideo) == ssrcs

\* exit_session destroys the session and clears the local SSRC of a medium
ForgetSsrc(ssrcs, isVideo) ==
    [ssrcs EXCEPT ![IF isVideo THEN "video" ELSE "audio"] = 0]

\* set_room_name under the mutex, leaving: is_video is true in both calls, and the
\* sessions end with their poll threads
LeaveRoom ==
    /\ ~Idle /\ stage = "lock" /\ todo[1] = NoRoom
    /\ \A m \in Media : poll[m] = NoRoom
    /\ session' = [m \in Media |-> Closed]
    /\ localSsrc' = ForgetSsrc(ForgetSsrc(localSsrc, TRUE), TRUE)
    /\ room' = [m \in Media |-> NoRoom]
    /\ todo' = Tail(todo) /\ stage' = "start"
    /\ UNCHANGED <<name, push, latest, queue, last, created, active, users, poll, asked>>

\* mutant: the new session is not told the name
Opened_NoName(m, ssrc) ==
    [open |-> TRUE, ssrc |-> ssrc, pt |-> NoFormat, sdes |-> NoName, note |-> NoName]

\* RTPSession::create, which does not look at what set_local_name returns
Opened(m, ssrc) ==
    Named([open |-> TRUE, ssrc |-> ssrc, pt |-> NoFormat, sdes |-> NoName, note |-> NoName],
          name[m])

\* set_room_name under the mutex, joining: each session is created, or its port
\* cannot be had; the room name is set in any case
EnterRoom ==
    /\ ~Idle /\ stage = "lock" /\ todo[1] # NoRoom
    /\ created + 2 <= MaxSsrc
    /\ \E opens \in SUBSET Media :
          LET ssrc == [m \in Media |-> created + (IF m = "video" THEN 1 ELSE 2)]
          IN  /\ session' = [m \in Media |->
                    IF m \in opens THEN Noted(Opened(m, ssrc[m]), todo[1], push[m])
                    ELSE Closed]
              /\ localSsrc' = [m \in Media |-> IF m \in opens THEN ssrc[m] ELSE localSsrc[m]]
    /\ created' = created + 2
    /\ room' = [m \in Media |-> todo[1]]
    /\ todo' = Tail(todo) /\ stage' = "start"
    /\ UNCHANGED <<name, push, latest, queue, last, active, users, poll, asked>>

(***************************************************************************)
(* The encoders, the send thread and the poll threads                      *)
(***************************************************************************)
\* an encoder's thread pushes a packet, whatever the room and the push flag are
Encode ==
    /\ \E m \in Media, f \in Formats :
          /\ Len(queue[m]) < MaxQueue
          /\ queue' = [queue EXCEPT ![m] = Append(@, f)]
    /\ UNCHANGED <<session, room, name, push, latest, localSsrc, last, created, active,
                   users, poll, todo, stage, asked>>

\* mutant: the payload type is set once
CheckFormat_FirstOnly(m, f) == IF session[m].pt # NoFormat THEN session[m].pt ELSE f

\* check_format: the session's default payload type after it
CheckFormat(m, f) == IF latest[m] = f THEN session[m].pt ELSE f

CanSend(m) == session[m].open /\ room[m] # NoRoom

\* on_thread_run: one packet of each queue that has one; send_video_packet and
\* send_audio_packet drop it outside a room
OnThreadRun ==
    LET Ready == {m \in Media : queue[m] # <<>>}
        Sends == {m \in Ready : CanSend(m)}
        pt(m) == CheckFormat(m, Head(queue[m]))
    IN  /\ Ready # {}
        /\ queue' = [m \in Media |-> IF m \in Ready THEN Tail(queue[m]) ELSE queue[m]]
        /\ session' = [m \in Media |-> IF m \in Sends THEN [session[m] EXCEPT !.pt = pt(m)]
                                       ELSE session[m]]
        /\ latest' = [m \in Media |-> IF m \in Sends THEN Head(queue[m]) ELSE latest[m]]
        /\ last' = [m \in Media |->
                       IF m \in Sends
                       THEN [ok |-> pt(m) # NoFormat, pt |-> pt(m), format |-> Head(queue[m])]
                       ELSE last[m]]
        /\ UNCHANGED <<room, name, push, localSsrc, created, active, users, poll,
                       todo, stage, asked>>

\* a poll thread has an SDES packet of a user of its session's room: insert tests
\* _active,
HearOf(m) ==
    /\ active /\ CanSend(m) /\ poll[m] = NoRoom
    /\ poll' = [poll EXCEPT ![m] = room[m]]
    /\ UNCHANGED <<session, room, name, push, latest, localSsrc, queue, last, created,
                   active, users, todo, stage, asked>>

\* takes the manager's mutex and adds the user
LearnUser(m) ==
    /\ poll[m] # NoRoom
    /\ \E n \in Others : users' = users \cup {[room |-> poll[m], name |-> n, via |-> m]}
    /\ poll' = [poll EXCEPT ![m] = NoRoom]
    /\ UNCHANGED <<session, room, name, push, latest, localSsrc, queue, last, created,
                   active, todo, stage, asked>>

-----------------------------------------------------------------------------
ApiStep == \/ SetLocalName \/ SetPushFlag \/ JoinRoom \/ ExitRoom
           \/ SetActive \/ ClearAll \/ LeaveRoom \/ EnterRoom

PollStep == \E m \in Media : HearOf(m) \/ LearnUser(m)

Next == ApiStep \/ Encode \/ OnThreadRun \/ PollStep

Spec == Init /\ [][Next]_vars

-----------------------------------------------------------------------------
(* Properties *)

\* A packet that is sent carries its own payload type, through changes of the
\* encoder's format, of the room, and of the session under the format that was
\* remembered.
PayloadTypeMatches == \A m \in Media : last[m].ok => last[m].pt = last[m].format

\* Whatever the order of the calls, an open session announces the name, the room
\* and the push flag that the application set last, unless they do not fit into an
\* SDES item; in particular a name that was set before there were sessions.
SessionsTellTheTruth ==
    Idle => \A m \in Media : session[m].open =>
                /\ session[m].sdes = asked.name \/ asked.name \in TooLong
                /\ session[m].note = <<room[m], asked.push>> \/ room[m] \in TooLong

\* the users in the list who are not of the present room
Strays == {u \in users : u.room # room["video"]}

\* The users of a room that was left are forgotten but for those that insert, past
\* its test of _active, was adding when the list was cleared: of each session's
\* poll thread one at most, who stays in the list through the next room and goes
\* when that is left.
UsersOfThisRoom == Idle => \A u, v \in Strays : u.via = v.via => u = v

\* "One's own audio and video id, 0 if the session is not started"
\* (rtpusermanager.h:92): both are right while the session is open, also when the
\* other's port could not be had.  Without a session only the video id is 0; the
\* audio id stays that of the last session.
OwnIdsKnown ==
    Idle => /\ \A m \in Media : session[m].open => localSsrc[m] = session[m].ssrc
            /\ ~session["video"].open => localSsrc["video"] = 0

\* "If one changes from a room to another, nothing goes wrong here either"
\* (rtpsendthread.cpp:466): no packet given to an open session is refused.
NoPacketRefused == \A m \in Media : last[m].ok

=============================================================================
