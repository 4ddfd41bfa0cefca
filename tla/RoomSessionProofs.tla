------------------------- MODULE RoomSessionProofs --------------------------
(***************************************************************************)
(* Proofs about RoomSession, for all sets of rooms, names and formats.     *)
(***************************************************************************)
EXTENDS RoomSession, TLAPS

\* The calls that are pending are those of one join or one exit; a join is made
\* outside of every room.
Calls ==
    {<<>>, <<NoRoom>>} \cup {<<r>> : r \in Rooms} \cup {<<NoRoom, r>> : r \in Rooms}

CallsInv ==
    /\ todo \in Calls
    /\ stage # "start" => todo # <<>>
    /\ stage = "clear" => todo[1] = NoRoom
    /\ stage # "start" /\ todo[1] = NoRoom => ~active
    /\ \A r \in Rooms : todo = <<r>> => room["video"] = NoRoom

\* Both sessions are in the same room, and closed outside of a room.
RoomInv ==
    /\ room["audio"] = room["video"]
    /\ room["video"] = NoRoom => \A m \in Media : ~session[m].open

\* A poll thread brings a user of its session's room.  Once the list was cleared
\* each can add the one user it has in hand, and has none when it did; before that
\* these are the users of an earlier room.
UsersInv ==
    /\ \A m \in Media : poll[m] # NoRoom => poll[m] = room["video"]
    /\ \A u, v \in Strays : u.via = v.via => u = v
    /\ stage = "lock" /\ todo[1] = NoRoom =>
          /\ \A u, v \in users : u.via = v.via => u = v
          /\ \A u \in users : poll[u.via] = NoRoom

\* The payload type of a session is the remembered one, or it has none.
FormatInv ==
    /\ \A m \in Media : session[m].pt \in {NoFormat, latest[m]}
    /\ PayloadTypeMatches

SdesInv ==
    /\ \A m \in Media : name[m] = asked.name /\ push[m] = asked.push
    /\ \A m \in Media : session[m].open =>
           /\ session[m].sdes = asked.name \/ asked.name \in TooLong
           /\ session[m].note = <<room[m], asked.push>> \/ room[m] \in TooLong

SsrcInv ==
    /\ \A m \in Media : session[m].open => localSsrc[m] = session[m].ssrc
    /\ ~session["video"].open => localSsrc["video"] = 0

IInv == TypeOK /\ CallsInv /\ RoomInv /\ UsersInv /\ FormatInv /\ SdesInv /\ SsrcInv

-----------------------------------------------------------------------------
(* Initial states *)

LEMMA InitInv == Init => IInv
<1>0. ASSUME Init PROVE TypeOK
  <2>1. Closed \in Sessions
    BY DEF Closed, Sessions
  <2>2. Closed.open = FALSE /\ Closed.ssrc = 0
    BY DEF Closed
  <2>3. latest \in [Media -> Formats \cup {NoFormat}]
    BY <1>0, RoomAssumption DEF Init
  <2>4. /\ session \in [Media -> Sessions]
        /\ \A m \in Media : session[m].open <=> session[m].ssrc # 0
    BY <1>0, <2>1, <2>2 DEF Init
  <2>5. queue \in [Media -> Seq(Formats)] /\ todo \in Seq(Rooms \cup {NoRoom})
    BY <1>0 DEF Init
  <2>6. last \in [Media -> [ok : BOOLEAN, pt : Formats \cup {NoFormat},
                           format : Formats \cup {NoFormat}]]
    BY <1>0 DEF Init, Nothing
  <2>7. asked \in [name : Names \cup {NoName}, push : BOOLEAN]
    BY <1>0 DEF Init
  <2>. QED
    BY <1>0, <2>3, <2>4, <2>5, <2>6, <2>7 DEF Init, TypeOK, Users
<1>1. ASSUME Init PROVE RoomInv /\ UsersInv /\ FormatInv /\ SdesInv /\ SsrcInv
  <2>1. ASSUME NEW m \in Media
        PROVE  /\ session[m] = Closed /\ last[m] = Nothing
               /\ room[m] = NoRoom /\ name[m] = NoName /\ push[m] = FALSE
               /\ localSsrc[m] = 0
    BY <1>1 DEF Init
  <2>2. /\ Closed.open = FALSE /\ Closed.ssrc = 0 /\ Closed.pt = NoFormat
        /\ Nothing.pt = NoFormat /\ Nothing.format = NoFormat
    BY DEF Closed, Nothing
  <2>3. RoomInv
    BY <1>1, <2>1, <2>2 DEF Init, RoomInv, Media
  <2>4. FormatInv
    BY <2>1, <2>2 DEF FormatInv, PayloadTypeMatches
  <2>5. SdesInv
    BY <1>1, <2>1, <2>2 DEF Init, SdesInv
  <2>6. SsrcInv
    BY <2>1, <2>2 DEF SsrcInv, Media
  <2>7. UsersInv
    BY <1>1 DEF Init, UsersInv, Strays
  <2>. QED
    BY <2>3, <2>4, <2>5, <2>6, <2>7
<1>2. Init => CallsInv
  BY DEF Init, CallsInv, Calls
<1>. QED
  BY <1>0, <1>1, <1>2 DEF IInv

(* One lemma per action *)

LEMMA SetLocalNameInv == IInv /\ SetLocalName => IInv'
<1>. SUFFICES ASSUME IInv, SetLocalName PROVE IInv'
  OBVIOUS
<1>. USE DEF IInv
<1>1. PICK n \in Names :
        /\ name' = [m \in Media |-> n]
        /\ session' = [m \in Media |-> Named(session[m], n)]
        /\ asked' = [asked EXCEPT !.name = n]
  BY DEF SetLocalName
<1>2. UNCHANGED <<room, push, latest, localSsrc, queue, last, created, active,
                  users, poll, todo, stage>>
  BY DEF SetLocalName
<1>3. \A m \in Media : /\ session'[m].open = session[m].open
                       /\ session'[m].ssrc = session[m].ssrc
                       /\ session'[m].pt = session[m].pt
                       /\ session'[m].note = session[m].note
                       /\ session'[m] \in Sessions
                       /\ session'[m].open => session'[m].sdes = n \/ n \in TooLong
  <2>. TAKE m \in Media
  <2>1. session[m] \in Sessions
    BY DEF TypeOK
  <2>2. CASE session[m].open /\ n \notin TooLong
    <3>1. session'[m] = [session[m] EXCEPT !.sdes = n]
      BY <1>1, <2>2 DEF Named
    <3>. QED
      BY <2>1, <2>2, <3>1 DEF Sessions
  <2>3. CASE ~(session[m].open /\ n \notin TooLong)
    <3>1. session'[m] = session[m]
      BY <1>1, <2>3 DEF Named
    <3>. QED
      BY <2>1, <2>3, <3>1
  <2>. QED
    BY <2>2, <2>3
<1>4. TypeOK'
  <2>1. session' \in [Media -> Sessions]
    BY <1>1, <1>3
  <2>2. name' \in [Media -> Names \cup {NoName}]
    BY <1>1
  <2>3. asked' \in [name : Names \cup {NoName}, push : BOOLEAN]
    BY <1>1 DEF TypeOK
  <2>4. \A m \in Media : session'[m].open <=> session'[m].ssrc # 0
    BY <1>3 DEF TypeOK
  <2>. QED
    BY <1>2, <2>1, <2>2, <2>3, <2>4 DEF TypeOK
<1>5. RoomInv' /\ FormatInv' /\ SdesInv' /\ SsrcInv'
  BY <1>1, <1>2, <1>3 DEF TypeOK, RoomInv, FormatInv, SdesInv, SsrcInv, PayloadTypeMatches, Media
<1>6. CallsInv' /\ UsersInv'
  BY <1>2 DEF CallsInv, UsersInv, Strays
<1>. QED
  BY <1>4, <1>5, <1>6

LEMMA SetPushFlagInv == IInv /\ SetPushFlag => IInv'
<1>. SUFFICES ASSUME IInv, SetPushFlag PROVE IInv'
  OBVIOUS
<1>. USE DEF IInv
<1>1. PICK f \in BOOLEAN :
        /\ push' = [m \in Media |-> f]
        /\ session' = [m \in Media |-> IF push[m] = f THEN session[m]
                                       ELSE Noted(session[m], room[m], f)]
        /\ asked' = [asked EXCEPT !.push = f]
  BY DEF SetPushFlag
<1>2. UNCHANGED <<room, name, latest, localSsrc, queue, last, created, active,
                  users, poll, todo, stage>>
  BY DEF SetPushFlag
<1>3. ASSUME NEW m \in Media
      PROVE  /\ session'[m].open = session[m].open
             /\ session'[m].ssrc = session[m].ssrc
             /\ session'[m].pt = session[m].pt
             /\ session'[m].sdes = session[m].sdes
             /\ session'[m] \in Sessions
             /\ session'[m].open => session'[m].note = <<room[m], f>> \/ room[m] \in TooLong
  <2>1. session[m] \in Sessions /\ room[m] \in Rooms \cup {NoRoom}
    BY DEF TypeOK
  <2>2. <<room[m], f>> \in (Rooms \cup {NoRoom}) \X BOOLEAN
    BY <2>1
  <2>3. CASE push[m] = f
    BY <1>1, <2>1, <2>3 DEF SdesInv
  <2>4. CASE push[m] # f
    BY <1>1, <2>1, <2>2, <2>4 DEF Sessions, Noted
  <2>. QED
    BY <2>3, <2>4
<1>4. TypeOK'
  <2>1. session' \in [Media -> Sessions]
    BY <1>1, <1>3
  <2>2. push' \in [Media -> BOOLEAN] /\ asked' \in [name : Names \cup {NoName}, push : BOOLEAN]
    BY <1>1 DEF TypeOK
  <2>3. \A m \in Media : session'[m].open <=> session'[m].ssrc # 0
    BY <1>3 DEF TypeOK
  <2>. QED
    BY <1>2, <2>1, <2>2, <2>3 DEF TypeOK
<1>5. RoomInv' /\ FormatInv' /\ SdesInv' /\ SsrcInv'
  BY <1>1, <1>2, <1>3 DEF TypeOK, RoomInv, FormatInv, SdesInv, SsrcInv, PayloadTypeMatches, Media
<1>6. CallsInv' /\ UsersInv'
  BY <1>2 DEF CallsInv, UsersInv, Strays
<1>. QED
  BY <1>4, <1>5, <1>6

LEMMA JoinRoomInv == IInv /\ JoinRoom => IInv'
<1>. SUFFICES ASSUME IInv, JoinRoom PROVE IInv'
  OBVIOUS
<1>. USE DEF IInv
<1>1. PICK r \in Rooms : todo' = JoinCalls(r)
  BY DEF JoinRoom
<1>2. todo = <<>> /\ stage = "start"
  BY DEF JoinRoom, Idle, CallsInv
<1>3. UNCHANGED <<session, room, name, push, latest, localSsrc, queue, last, created,
                  active, users, poll, stage, asked>>
  BY DEF JoinRoom
<1>4. todo' \in Calls /\ todo' \in Seq(Rooms \cup {NoRoom})
  <2>1. todo' = <<r>> \/ todo' = <<NoRoom, r>>
    BY <1>1 DEF JoinCalls
  <2>2. <<r>> \in Calls /\ <<NoRoom, r>> \in Calls
    BY DEF Calls
  <2>3. <<r>> \in Seq(Rooms \cup {NoRoom}) /\ <<NoRoom, r>> \in Seq(Rooms \cup {NoRoom})
    OBVIOUS
  <2>. QED
    BY <2>1, <2>2, <2>3
<1>5. \A q \in Rooms : todo' = <<q>> => room["video"] = NoRoom
  BY <1>1, RoomAssumption DEF JoinCalls
<1>6. CallsInv'
  BY <1>2, <1>3, <1>4, <1>5 DEF CallsInv
<1>7. UsersInv'
  BY <1>2, <1>3 DEF UsersInv, Strays
<1>8. TypeOK' /\ RoomInv' /\ FormatInv' /\ SdesInv' /\ SsrcInv'
  BY <1>3, <1>4 DEF TypeOK, RoomInv, FormatInv, SdesInv, SsrcInv, PayloadTypeMatches
<1>. QED
  BY <1>6, <1>7, <1>8

LEMMA ExitRoomInv == IInv /\ ExitRoom => IInv'
<1>. SUFFICES ASSUME IInv, ExitRoom PROVE IInv'
  OBVIOUS
<1>. USE DEF IInv
<1>1. todo' = <<NoRoom>> /\ todo = <<>> /\ stage = "start"
  BY DEF ExitRoom, Idle, CallsInv
<1>2. UNCHANGED <<session, room, name, push, latest, localSsrc, queue, last, created,
                  active, users, poll, stage, asked>>
  BY DEF ExitRoom
<1>3. CallsInv' /\ UsersInv'
  BY <1>1, <1>2, RoomAssumption DEF CallsInv, Calls, UsersInv, Strays
<1>4. todo' \in Seq(Rooms \cup {NoRoom})
  BY <1>1
<1>5. TypeOK' /\ RoomInv' /\ FormatInv' /\ SdesInv' /\ SsrcInv'
  BY <1>2, <1>4 DEF TypeOK, RoomInv, FormatInv, SdesInv, SsrcInv, PayloadTypeMatches
<1>. QED
  BY <1>3, <1>5

LEMMA SetActiveInv == IInv /\ SetActive => IInv'
<1>. SUFFICES ASSUME IInv, SetActive PROVE IInv'
  OBVIOUS
<1>. USE DEF IInv
<1>1. /\ todo # <<>> /\ stage = "start"
      /\ active' = (todo[1] # NoRoom)
      /\ stage' = IF active' THEN "lock" ELSE "clear"
  BY DEF SetActive, Idle
<1>2. UNCHANGED <<session, room, name, push, latest, localSsrc, queue, last, created,
                  users, poll, todo, asked>>
  BY DEF SetActive
<1>3. CallsInv'
  BY <1>1, <1>2 DEF CallsInv
<1>4. TypeOK' /\ RoomInv'
  BY <1>1, <1>2 DEF TypeOK, RoomInv
<1>5. FormatInv' /\ SdesInv' /\ SsrcInv'
  BY <1>2 DEF FormatInv, SdesInv, SsrcInv, PayloadTypeMatches
<1>6. UsersInv'
  BY <1>1, <1>2 DEF UsersInv, Strays
<1>. QED
  BY <1>3, <1>4, <1>5, <1>6

\* Nobody is left in the list, and a thread that is about to add a user can add one.
LEMMA ClearAllInv == IInv /\ ClearAll => IInv'
<1>. SUFFICES ASSUME IInv, ClearAll PROVE IInv'
  OBVIOUS
<1>. USE DEF IInv
<1>1. stage = "clear" /\ stage' = "lock" /\ users' = {}
  BY DEF ClearAll
<1>2. UNCHANGED <<session, room, name, push, latest, localSsrc, queue, last, created,
                  active, poll, todo, asked>>
  BY DEF ClearAll
<1>3. TypeOK' /\ CallsInv' /\ RoomInv'
  BY <1>1, <1>2 DEF TypeOK, CallsInv, RoomInv
<1>4. UsersInv'
  BY <1>1, <1>2 DEF UsersInv, Strays
<1>5. FormatInv' /\ SdesInv' /\ SsrcInv'
  BY <1>2 DEF FormatInv, SdesInv, SsrcInv, PayloadTypeMatches
<1>. QED
  BY <1>3, <1>4, <1>5

\* What is left of a join or an exit after its first call.
LEMMA TailOfCalls ==
    ASSUME todo \in Calls, todo # <<>>
    PROVE  /\ todo[1] # NoRoom => Tail(todo) = <<>> /\ \E r \in Rooms : todo = <<r>> /\ todo[1] = r
           /\ Tail(todo) \in Calls /\ Tail(todo) \in Seq(Rooms \cup {NoRoom})
<1>1. CASE todo = <<NoRoom>>
  BY <1>1 DEF Calls
<1>2. ASSUME NEW r \in Rooms, todo = <<r>>
      PROVE  /\ todo[1] = r /\ Tail(todo) = <<>>
             /\ Tail(todo) \in Calls /\ Tail(todo) \in Seq(Rooms \cup {NoRoom})
  BY <1>2 DEF Calls
<1>3. ASSUME NEW r \in Rooms, todo = <<NoRoom, r>>
      PROVE  /\ todo[1] = NoRoom
             /\ Tail(todo) \in Calls /\ Tail(todo) \in Seq(Rooms \cup {NoRoom})
  <2>1. todo[1] = NoRoom /\ Tail(todo) = <<r>>
    BY <1>3
  <2>2. <<r>> \in Calls /\ <<r>> \in Seq(Rooms \cup {NoRoom})
    BY DEF Calls
  <2>. QED
    BY <2>1, <2>2
<1>. QED
  BY <1>1, <1>2, <1>3 DEF Calls

LEMMA LeaveRoomInv == IInv /\ LeaveRoom => IInv'
<1>. SUFFICES ASSUME IInv, LeaveRoom PROVE IInv'
  OBVIOUS
<1>. USE DEF IInv
<1>1. /\ todo # <<>> /\ stage = "lock" /\ todo[1] = NoRoom
      /\ \A m \in Media : poll[m] = NoRoom
      /\ session' = [m \in Media |-> Closed]
      /\ localSsrc' = [localSsrc EXCEPT !["video"] = 0]
      /\ room' = [m \in Media |-> NoRoom]
      /\ todo' = Tail(todo) /\ stage' = "start"
  BY DEF LeaveRoom, Idle, ForgetSsrc, TypeOK, Media
<1>2. UNCHANGED <<name, push, latest, queue, last, created, active, users, poll, asked>>
  BY DEF LeaveRoom
<1>3. UsersInv'
  <2>1. Strays' \subseteq users
    BY <1>2 DEF Strays
  <2>2. \A u, v \in users : u.via = v.via => u = v
    BY <1>1 DEF UsersInv
  <2>. QED
    BY <1>1, <1>2, <2>1, <2>2 DEF UsersInv
<1>4. todo' \in Calls /\ todo' \in Seq(Rooms \cup {NoRoom})
  BY <1>1, TailOfCalls DEF CallsInv
<1>5. CallsInv'
  BY <1>1, <1>2, <1>4 DEF CallsInv, Media
<1>6. TypeOK'
  BY <1>1, <1>2, <1>4 DEF TypeOK, Sessions, Closed, Media
<1>7. RoomInv' /\ FormatInv' /\ SdesInv' /\ SsrcInv'
  BY <1>1, <1>2 DEF TypeOK, RoomInv, FormatInv, SdesInv, SsrcInv, PayloadTypeMatches,
       Closed, Media
<1>. QED
  BY <1>3, <1>5, <1>6, <1>7

LEMMA EnterRoomInv == IInv /\ EnterRoom => IInv'
<1>. SUFFICES ASSUME IInv, EnterRoom PROVE IInv'
  OBVIOUS
<1>. USE DEF IInv
<1>1. PICK r \in Rooms : todo = <<r>> /\ todo[1] = r /\ Tail(todo) = <<>>
  BY TailOfCalls DEF EnterRoom, Idle, CallsInv
<1>. DEFINE ssrc == [m \in Media |-> created + (IF m = "video" THEN 1 ELSE 2)]
<1>2. PICK opens \in SUBSET Media :
        /\ session' = [m \in Media |->
              IF m \in opens THEN Noted(Opened(m, ssrc[m]), r, push[m]) ELSE Closed]
        /\ localSsrc' = [m \in Media |-> IF m \in opens THEN ssrc[m] ELSE localSsrc[m]]
  BY <1>1 DEF EnterRoom
<1>3. /\ created' = created + 2
      /\ room' = [m \in Media |-> r]
      /\ todo' = <<>> /\ stage' = "start"
      /\ UNCHANGED <<name, push, latest, queue, last, active, users, poll, asked>>
  BY <1>1 DEF EnterRoom
<1>4. room["video"] = NoRoom /\ \A m \in Media : ~session[m].open
  BY <1>1, RoomAssumption DEF CallsInv, RoomInv, TypeOK
<1>5. localSsrc["video"] = 0
  BY <1>4 DEF RoomInv, SsrcInv, TypeOK, Media
<1>6. ASSUME NEW m \in Media
      PROVE  /\ session'[m] \in Sessions
             /\ session'[m].pt = NoFormat
             /\ session'[m].open <=> m \in opens
             /\ m \in opens => /\ session'[m].ssrc = ssrc[m]
                               /\ session'[m].sdes = name[m] \/ name[m] \in TooLong
                               /\ session'[m].note = <<r, push[m]>> \/ r \in TooLong
             /\ m \notin opens => session'[m].ssrc = 0
  <2>1. /\ ssrc[m] \in Nat /\ ssrc[m] # 0
        /\ <<r, push[m]>> \in (Rooms \cup {NoRoom}) \X BOOLEAN
        /\ name[m] \in Names \cup {NoName}
    BY DEF TypeOK, Media
  <2>2. CASE m \in opens
    <3>1. /\ Opened(m, ssrc[m]) \in Sessions /\ Opened(m, ssrc[m]).open = TRUE
          /\ Opened(m, ssrc[m]).ssrc = ssrc[m] /\ Opened(m, ssrc[m]).pt = NoFormat
          /\ Opened(m, ssrc[m]).sdes = name[m] \/ name[m] \in TooLong
      BY <2>1 DEF Opened, Named, Sessions
    <3>2. session'[m] = Noted(Opened(m, ssrc[m]), r, push[m])
      BY <1>2, <2>2
    <3>. QED
      BY <2>1, <2>2, <3>1, <3>2 DEF Noted, Sessions
  <2>3. CASE m \notin opens
    BY <1>2, <2>3 DEF Closed, Sessions
  <2>. QED
    BY <2>2, <2>3
<1>7. \A m \in Media : ssrc[m] \in Nat /\ ssrc[m] # 0
  BY DEF TypeOK, Media
<1>8. TypeOK'
  <2>1. \A m \in Media : session'[m].open <=> session'[m].ssrc # 0
    BY <1>6, <1>7
  <2>2. session' \in [Media -> Sessions] /\ localSsrc' \in [Media -> Nat]
    BY <1>2, <1>6, <1>7 DEF TypeOK
  <2>3. room' \in [Media -> Rooms \cup {NoRoom}] /\ stage' \in {"start", "clear", "lock"}
    BY <1>3
  <2>5. created' \in Nat
    BY <1>3 DEF TypeOK
  <2>4. todo' \in Seq(Rooms \cup {NoRoom})
    BY <1>3
  <2>. QED
    BY <1>3, <2>1, <2>2, <2>3, <2>4, <2>5 DEF TypeOK
<1>9. CallsInv'
  BY <1>3 DEF CallsInv, Calls
<1>10. RoomInv'
  BY <1>3, <1>4, RoomAssumption DEF RoomInv, Media
<1>11. FormatInv' /\ SdesInv'
  BY <1>3, <1>6 DEF FormatInv, SdesInv, PayloadTypeMatches
<1>12. SsrcInv'
  BY <1>2, <1>5, <1>6 DEF SsrcInv, Media
<1>13. UsersInv'
  <2>1. Strays = users
    BY <1>4, RoomAssumption DEF Strays, TypeOK, Users
  <2>2. \A m \in Media : poll[m] = NoRoom
    BY <1>4 DEF UsersInv
  <2>3. Strays' \subseteq users
    BY <1>3 DEF Strays
  <2>4. \A u, v \in users : u.via = v.via => u = v
    BY <2>1 DEF UsersInv
  <2>. QED
    BY <1>3, <2>2, <2>3, <2>4 DEF UsersInv
<1>. QED
  BY <1>8, <1>9, <1>10, <1>11, <1>12, <1>13

LEMMA EncodeInv == IInv /\ Encode => IInv'
<1>. SUFFICES ASSUME IInv, Encode PROVE IInv'
  OBVIOUS
<1>. USE DEF IInv
<1>1. UNCHANGED <<session, room, name, push, latest, localSsrc, last, created, active,
                  users, poll, todo, stage, asked>>
  BY DEF Encode
<1>2. queue' \in [Media -> Seq(Formats)]
  BY DEF Encode, TypeOK
<1>. QED
  BY <1>1, <1>2 DEF TypeOK, CallsInv, RoomInv, UsersInv, Strays, FormatInv, SdesInv, SsrcInv, PayloadTypeMatches

LEMMA OnThreadRunInv == IInv /\ OnThreadRun => IInv'
<1>. SUFFICES ASSUME IInv, OnThreadRun PROVE IInv'
  OBVIOUS
<1>. USE DEF IInv
<1>. DEFINE Ready == {m \in Media : queue[m] # <<>>}
            Sends == {m \in Ready : CanSend(m)}
            pt(m) == CheckFormat(m, Head(queue[m]))
<1>1. /\ queue' = [m \in Media |-> IF m \in Ready THEN Tail(queue[m]) ELSE queue[m]]
      /\ session' = [m \in Media |-> IF m \in Sends THEN [session[m] EXCEPT !.pt = pt(m)]
                                     ELSE session[m]]
      /\ latest' = [m \in Media |-> IF m \in Sends THEN Head(queue[m]) ELSE latest[m]]
      /\ last' = [m \in Media |->
                     IF m \in Sends
                     THEN [ok |-> pt(m) # NoFormat, pt |-> pt(m), format |-> Head(queue[m])]
                     ELSE last[m]]
  BY DEF OnThreadRun
<1>2. UNCHANGED <<room, name, push, localSsrc, created, active, users, poll, todo,
                  stage, asked>>
  BY DEF OnThreadRun
<1>3. ASSUME NEW m \in Sends
      PROVE  /\ Head(queue[m]) \in Formats
             /\ pt(m) \in {NoFormat, Head(queue[m])}
    BY DEF TypeOK, FormatInv, CheckFormat
<1>4. ASSUME NEW m \in Media
      PROVE  /\ session'[m].open = session[m].open
             /\ session'[m].ssrc = session[m].ssrc
             /\ session'[m].sdes = session[m].sdes
             /\ session'[m].note = session[m].note
             /\ session'[m] \in Sessions
             /\ session'[m].pt \in {NoFormat, latest'[m]}
  <2>0. session[m] \in Sessions
    BY DEF TypeOK
  <2>1. CASE m \in Sends
    <3>1. session'[m] = [session[m] EXCEPT !.pt = pt(m)] /\ latest'[m] = Head(queue[m])
      BY <1>1, <2>1
    <3>2. pt(m) \in Formats \cup {NoFormat} /\ pt(m) \in {NoFormat, Head(queue[m])}
      BY <1>3, <2>1
    <3>. HIDE DEF pt
    <3>. QED
      BY <2>0, <3>1, <3>2 DEF Sessions
  <2>2. CASE m \notin Sends
    BY <1>1, <2>0, <2>2 DEF FormatInv
  <2>. QED
    BY <2>1, <2>2
<1>5. ASSUME NEW m \in Media
      PROVE  /\ last'[m] \in [ok : BOOLEAN, pt : Formats \cup {NoFormat},
                              format : Formats \cup {NoFormat}]
             /\ last'[m].ok => last'[m].pt = last'[m].format
             /\ latest'[m] \in Formats \cup {NoFormat}
             /\ queue'[m] \in Seq(Formats)
  <2>1. queue'[m] \in Seq(Formats)
    BY <1>1 DEF TypeOK
  <2>2. CASE m \in Sends
    <3>1. /\ last'[m] = [ok |-> pt(m) # NoFormat, pt |-> pt(m), format |-> Head(queue[m])]
          /\ latest'[m] = Head(queue[m])
      BY <1>1, <2>2
    <3>2. Head(queue[m]) \in Formats /\ pt(m) \in {NoFormat, Head(queue[m])}
      BY <1>3, <2>2
    <3>. HIDE DEF pt
    <3>3. last'[m] \in [ok : BOOLEAN, pt : Formats \cup {NoFormat},
                       format : Formats \cup {NoFormat}]
      BY <3>1, <3>2
    <3>4. last'[m].ok => last'[m].pt = last'[m].format
      <4>1. CASE pt(m) = NoFormat
        <5>1. (pt(m) # NoFormat) = FALSE
          BY <4>1
        <5>2. last'[m] = [ok |-> FALSE, pt |-> pt(m), format |-> Head(queue[m])]
          BY <3>1, <5>1, Zenon
        <5>. QED
          BY <5>2
      <4>2. CASE pt(m) # NoFormat
        BY <3>1, <3>2, <4>2
      <4>. QED
        BY <4>1, <4>2
    <3>5. latest'[m] \in Formats \cup {NoFormat}
      BY <3>1, <3>2
    <3>. QED
      BY <2>1, <3>3, <3>4, <3>5
  <2>3. CASE m \notin Sends
    BY <1>1, <2>1, <2>3 DEF TypeOK, FormatInv, PayloadTypeMatches
  <2>. QED
    BY <2>2, <2>3
<1>6. TypeOK'
  BY <1>1, <1>2, <1>4, <1>5 DEF TypeOK
<1>7. FormatInv'
  BY <1>4, <1>5 DEF FormatInv, PayloadTypeMatches
<1>8. RoomInv' /\ UsersInv' /\ SdesInv' /\ SsrcInv' /\ CallsInv'
  BY <1>2, <1>4 DEF RoomInv, UsersInv, Strays, SdesInv, SsrcInv, CallsInv, Media
<1>. QED
  BY <1>6, <1>7, <1>8

LEMMA HearOfInv == ASSUME IInv, NEW m \in Media, HearOf(m) PROVE IInv'
<1>. USE DEF IInv
<1>1. /\ active /\ CanSend(m) /\ poll[m] = NoRoom
      /\ poll' = [poll EXCEPT ![m] = room[m]]
      /\ UNCHANGED <<session, room, name, push, latest, localSsrc, queue, last, created,
                     active, users, todo, stage, asked>>
  BY DEF HearOf
<1>2. room[m] = room["video"]
  BY DEF RoomInv, Media
<1>3. TypeOK' /\ CallsInv' /\ RoomInv'
  BY <1>1 DEF TypeOK, CallsInv, RoomInv
<1>4. UsersInv'
  BY <1>1, <1>2 DEF UsersInv, Strays, CallsInv, TypeOK
<1>5. FormatInv' /\ SdesInv' /\ SsrcInv'
  BY <1>1 DEF FormatInv, SdesInv, SsrcInv, PayloadTypeMatches
<1>. QED
  BY <1>3, <1>4, <1>5

LEMMA LearnUserInv == ASSUME IInv, NEW m \in Media, LearnUser(m) PROVE IInv'
<1>. USE DEF IInv
<1>1. /\ poll[m] # NoRoom /\ poll' = [poll EXCEPT ![m] = NoRoom]
      /\ UNCHANGED <<session, room, name, push, latest, localSsrc, queue, last, created,
                     active, todo, stage, asked>>
  BY DEF LearnUser
<1>2. PICK n \in Others : users' = users \cup {[room |-> poll[m], name |-> n, via |-> m]}
  BY DEF LearnUser
<1>. DEFINE w == [room |-> poll[m], name |-> n, via |-> m]
<1>3. w \in Users /\ w.room = room["video"] /\ w.via = m
  BY <1>1 DEF TypeOK, Users, UsersInv
<1>. HIDE DEF w
<1>4. poll'[m] = NoRoom /\ \A k \in Media \ {m} : poll'[k] = poll[k]
  BY <1>1 DEF TypeOK
<1>5. TypeOK' /\ CallsInv' /\ RoomInv'
  BY <1>1, <1>2, <1>3 DEF TypeOK, CallsInv, RoomInv, w
<1>6. UsersInv'
  <2>1. Strays' = Strays
    BY <1>1, <1>2, <1>3 DEF Strays, w
  <2>2. users' = users \cup {w}
    BY <1>2 DEF w
  <2>3. \A u \in users : u.via \in Media
    BY DEF TypeOK, Users
  <2>4. ASSUME stage = "lock", todo[1] = NoRoom
        PROVE  /\ \A u, v \in users' : u.via = v.via => u = v
               /\ \A u \in users' : poll'[u.via] = NoRoom
    <3>1. \A u \in users : poll[u.via] = NoRoom /\ u.via # m
      BY <1>1, <2>4 DEF UsersInv
    <3>2. \A u, v \in users : u.via = v.via => u = v
      BY <2>4 DEF UsersInv
    <3>. QED
      BY <1>3, <1>4, <2>2, <2>3, <3>1, <3>2
  <2>. QED
    BY <1>1, <1>4, <2>1, <2>4 DEF UsersInv
<1>7. FormatInv' /\ SdesInv' /\ SsrcInv'
  BY <1>1 DEF FormatInv, SdesInv, SsrcInv, PayloadTypeMatches
<1>. QED
  BY <1>5, <1>6, <1>7

LEMMA StutterInv == IInv /\ UNCHANGED vars => IInv'
  BY DEF IInv, TypeOK, CallsInv, RoomInv, UsersInv, Strays, FormatInv, SdesInv, SsrcInv,
         PayloadTypeMatches, vars

-----------------------------------------------------------------------------
(* Theorems *)

\* Every reachable state satisfies the inductive invariant: at most one join or
\* exit is under way, and name, room, flag and payload type of every session
\* agree with what the engine remembers of them.
THEOREM Inductive == Spec => []IInv
<1>1. IInv /\ [Next]_vars => IInv'
  BY SetLocalNameInv, SetPushFlagInv, JoinRoomInv, ExitRoomInv, SetActiveInv, ClearAllInv,
     LeaveRoomInv, EnterRoomInv, EncodeInv, OnThreadRunInv, HearOfInv, LearnUserInv,
     StutterInv DEF Next, ApiStep, PollStep
<1>. QED
  BY InitInv, <1>1, PTL DEF Spec

\* All variables of the join and leave protocol keep their types.
THEOREM TypeCorrect == Spec => []TypeOK
<1>1. IInv => TypeOK
  BY DEF IInv
<1>. QED
  BY Inductive, <1>1, PTL

\* Every packet that a session accepts carries its own payload type, for any
\* set of formats and any number of rooms joined.
THEOREM TypesMatch == Spec => []PayloadTypeMatches
<1>1. IInv => PayloadTypeMatches
  BY DEF IInv, FormatInv
<1>. QED
  BY Inductive, <1>1, PTL

\* Between two calls of the application an open session announces what it gave.
THEOREM Announcements == Spec => []SessionsTellTheTruth
<1>1. IInv => SessionsTellTheTruth
  BY DEF IInv, SdesInv, SessionsTellTheTruth
<1>. QED
  BY Inductive, <1>1, PTL

\* Whatever the poll threads were doing when a room was left, of its users each
\* leaves one at most in the list of the next.
THEOREM UsersForgotten == Spec => []UsersOfThisRoom
<1>1. IInv => UsersOfThisRoom
  BY DEF IInv, UsersInv, UsersOfThisRoom
<1>. QED
  BY Inductive, <1>1, PTL

\* The local SSRCs are those of the open sessions, and the video SSRC is 0 when
\* there is none.
THEOREM OwnIds == Spec => []OwnIdsKnown
<1>1. IInv => OwnIdsKnown
  BY DEF IInv, SsrcInv, OwnIdsKnown
<1>. QED
  BY Inductive, <1>1, PTL

=============================================================================
