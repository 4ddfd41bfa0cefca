---------------------------- MODULE UserManager -----------------------------
(***************************************************************************)
(* RTPUserManager (src/src/rtp_network/rtpusermanager.{h,cpp}): the list   *)
(* of the users in the room, kept from the RTCP packets that the poll      *)
(* threads of the video and the audio session deliver, while the           *)
(* application joins and leaves rooms and sets decoder types.              *)
(*                                                                         *)
(* insert and remove test _active and the size of the list before they     *)
(* take the mutex.  Under it insert finds or adds the user, reads _type,   *)
(* which the application's thread writes without the mutex, and sets what  *)
(* it read.  The network is any sequence of SDES and BYE packets of the    *)
(* sources that exist.                                                     *)
(***************************************************************************)
EXTENDS Integers, Sequences, FiniteSetsExt

CONSTANTS
    Announces,  \* what SDES packets say: [via: poll thread, ssrc, name]
    HwdTypes,   \* decoder types
    DefaultType \* the initial _type, and that of a new decoder (Auto in the code)

NoSsrc == 0     \* an empty slot

ASSUME AnnounceAssumption ==
    /\ \A m \in Announces : m.ssrc \in Nat \ {NoSsrc}
    /\ \A m, n \in Announces : m.ssrc = n.ssrc => m.via = n.via
    /\ DefaultType \in HwdTypes

VARIABLES
    active,     \* _active
    list,       \* _user_list
    type,       \* _type
    poll,       \* poll[t]: the call poll thread t is in
    api,        \* where the application's thread is
    sessions,   \* the RTP sessions, and with them the poll threads, exist
    told,       \* calls of on_new_user_join less those of on_user_exit, by name
    named,      \* users whose decoder type was set by name
    alive,      \* sources whose last packet that was processed was an SDES
    dangling    \* an iterator of an erased element was used: anything may happen

userVars == <<active, list, type, poll, api, sessions, told, named, alive, dangling>>

Threads == {m.via : m \in Announces}
Names == {m.name : m \in Announces}
Ssrcs == {m.ssrc : m \in Announces}
Users == [name : Names, ssrc : Ssrcs \cup {NoSsrc}, another : Ssrcs \cup {NoSsrc},
          hwd : HwdTypes]

NameSet(l) == {l[i].name : i \in DOMAIN l}
Idle == [at |-> "idle"]
Calls == [at : {"insert", "read", "remove"}, msg : Announces]
         \cup [at : {"set"}, msg : Announces, hwd : HwdTypes]

UsersTypeOK ==
    /\ active \in BOOLEAN /\ sessions \in BOOLEAN /\ dangling \in BOOLEAN
    /\ list \in Seq(Users)
    /\ type \in HwdTypes
    /\ poll \in [Threads -> {Idle} \cup Calls]
    /\ \A t \in Threads : poll[t] # Idle => sessions
    /\ api \in {"idle", "create", "clear", "destroy", "iterate"}
    /\ told \in [Names -> Int] /\ named \subseteq Names /\ alive \subseteq Ssrcs

\* _active has no initial value
UsersInit ==
    /\ active \in BOOLEAN
    /\ list = <<>> /\ type = DefaultType
    /\ poll = [t \in Threads |-> Idle]
    /\ api = "idle" /\ sessions = FALSE
    /\ told = [n \in Names |-> 0] /\ named = {} /\ alive = {}
    /\ dangling = FALSE

(***************************************************************************)
(* The poll threads: deal_with_rtcp                                        *)
(***************************************************************************)
\* deal_with_sdes, and the first lines of insert
DealWithSdes(t) ==
    /\ sessions /\ poll[t] = Idle /\ active
    /\ \E m \in Announces : m.via = t /\ poll' = [poll EXCEPT ![t] = [at |-> "insert", msg |-> m]]
    /\ UNCHANGED <<active, list, type, api, sessions, told, named, alive, dangling>>

\* a BYE packet, and the first lines of remove
DealWithBye(t) ==
    /\ sessions /\ poll[t] = Idle /\ active
    /\ \E m \in Announces :
          /\ m.via = t
          /\ IF list = <<>>
             THEN alive' = alive \ {m.ssrc} /\ UNCHANGED poll
             ELSE poll' = [poll EXCEPT ![t] = [at |-> "remove", msg |-> m]] /\ UNCHANGED alive
    /\ UNCHANGED <<active, list, type, api, sessions, told, named, dangling>>

\* mutant: insert takes no lock
Unlocked_Always == TRUE

\* nobody is between the lock and the unlock of insert
Unlocked == \A t \in Threads : poll[t].at \notin {"read", "set"}

\* find(name)
FindByName(name) ==
    IF name \in NameSet(list) THEN list
    ELSE Append(list, [name |-> name, ssrc |-> NoSsrc, another |-> NoSsrc,
                       hwd |-> DefaultType])

\* insert takes the mutex and has the user, who is in the list from here on,
Find(t) ==
    /\ poll[t].at = "insert" /\ Unlocked
    /\ list' = FindByName(poll[t].msg.name)
    /\ poll' = [poll EXCEPT ![t].at = "read"]
    /\ UNCHANGED <<active, type, api, sessions, told, named, alive, dangling>>

\* reads _type,
ReadType(t) ==
    /\ poll[t].at = "read"
    /\ poll' = [poll EXCEPT ![t] = [at |-> "set", msg |-> poll[t].msg, hwd |-> type]]
    /\ UNCHANGED <<active, list, type, api, sessions, told, named, alive, dangling>>

\* mutant: the application is told of each source
Announced_EachSource(u, new) == new

\* line 270: the source is new and it is the user's only one
Announced(u, new) == new /\ (u.ssrc = NoSsrc \/ u.another = NoSsrc)

\* mutant: a source that the user has already is not recognised
AddSource_Again(u, ssrc) ==
    IF u.ssrc = NoSsrc THEN [u EXCEPT !.ssrc = ssrc]
    ELSE IF u.another = NoSsrc THEN [u EXCEPT !.another = ssrc]
    ELSE u

\* the slot that takes a new source, or neither
AddSource(u, ssrc) ==
    IF ssrc \in {u.ssrc, u.another} THEN u
    ELSE IF u.ssrc = NoSsrc THEN [u EXCEPT !.ssrc = ssrc]
    ELSE IF u.another = NoSsrc THEN [u EXCEPT !.another = ssrc]
    ELSE u

\* and gives the user the type it read and the source
Insert(t) ==
    /\ poll[t].at = "set"
    /\ LET m == poll[t].msg
           mine == {i \in DOMAIN list : list[i].name = m.name}
           with == [i \in mine |-> AddSource(list[i], m.ssrc)]
       IN  /\ list' = [i \in DOMAIN list |->
                          IF i \in mine THEN [with[i] EXCEPT !.hwd = poll[t].hwd] ELSE list[i]]
           /\ told' = IF \E i \in mine : Announced(with[i], with[i] # list[i])
                      THEN [told EXCEPT ![m.name] = @ + 1] ELSE told
           /\ named' = named \ {m.name}
           /\ alive' = alive \cup {m.ssrc}
    /\ poll' = [poll EXCEPT ![t] = Idle]
    /\ UNCHANGED <<active, type, api, sessions, dangling>>

Empty(u) == u.ssrc = NoSsrc /\ u.another = NoSsrc

\* mutant: only the first slot is cleared
DropSource_FirstSlot(u, ssrc) == [u EXCEPT !.ssrc = IF @ = ssrc THEN NoSsrc ELSE @]

DropSource(u, ssrc) ==
    [u EXCEPT !.ssrc = IF @ = ssrc THEN NoSsrc ELSE @,
              !.another = IF @ = ssrc THEN NoSsrc ELSE @]

\* find(ssrc) goes through the list up to the first user it leaves without a source
Reached(ssrc) ==
    {i \in DOMAIN list : \A j \in 1..(i - 1) :
        Empty(list[j]) \/ ~Empty(DropSource(list[j], ssrc))}

Searched(ssrc) ==
    [i \in DOMAIN list |->
        IF i \in Reached(ssrc) THEN DropSource(list[i], ssrc) ELSE list[i]]

\* that user, and any it has met that had no source before, are erased
Kept(ssrc) == {i \in DOMAIN list : i \in Reached(ssrc) => ~Empty(Searched(ssrc)[i])}

\* the elements of K in increasing order
InOrder(K) ==
    CHOOSE f \in [1..Cardinality(K) -> K] : \A m, n \in DOMAIN f : m < n => f[m] < f[n]

\* remove, under the mutex
Remove(t) ==
    /\ poll[t].at = "remove" /\ Unlocked
    /\ LET ssrc == poll[t].msg.ssrc
           kept == Kept(ssrc)
           gone == {list[i].name : i \in DOMAIN list \ kept}
       IN  /\ list' = [n \in 1..Cardinality(kept) |-> Searched(ssrc)[InOrder(kept)[n]]]
           /\ told' = [n \in Names |-> IF n \in gone THEN told[n] - 1 ELSE told[n]]
           /\ named' = named \ gone
           /\ alive' = alive \ {ssrc}
           /\ dangling' = (dangling \/ (api = "iterate" /\ gone # {}))
    /\ poll' = [poll EXCEPT ![t] = Idle]
    /\ UNCHANGED <<active, type, api, sessions>>

(***************************************************************************)
(* The application's thread                                                *)
(***************************************************************************)
Api(from, to) == api = from /\ api' = to

\* RTPSendThread::set_room_name with a name: set_active(true), then the
\* sessions are created
SetActive ==
    /\ Api("idle", "create") /\ ~sessions
    /\ active' = TRUE
    /\ UNCHANGED <<list, type, poll, sessions, told, named, alive, dangling>>

CreateSessions ==
    /\ Api("create", "idle")
    /\ sessions' = TRUE
    /\ UNCHANGED <<active, list, type, poll, told, named, alive, dangling>>

\* with an empty name: the flag, clear_all (which calls nobody back: it is the
\* application itself that leaves), and the end of the sessions, which waits
\* for the poll threads
SetInactive ==
    /\ Api("idle", "clear") /\ sessions
    /\ active' = FALSE
    /\ UNCHANGED <<list, type, poll, sessions, told, named, alive, dangling>>

ClearAll ==
    /\ Api("clear", "destroy") /\ Unlocked
    /\ list' = <<>> /\ told' = [n \in Names |-> 0] /\ named' = {} /\ alive' = {}
    /\ UNCHANGED <<active, type, poll, sessions, dangling>>

\* mutant: the poll threads are not waited for
DestroySessions_NoWait ==
    /\ Api("destroy", "idle")
    /\ sessions' = FALSE
    /\ UNCHANGED <<active, list, type, poll, told, named, alive, dangling>>

DestroySessions ==
    /\ Api("destroy", "idle")
    /\ \A t \in Threads : poll[t] = Idle
    /\ sessions' = FALSE
    /\ UNCHANGED <<active, list, type, poll, told, named, alive, dangling>>

\* set_decoder_hwd_type(type): the list is gone through without the mutex
SetType ==
    /\ Api("idle", "iterate")
    /\ type' \in HwdTypes
    /\ UNCHANGED <<active, list, poll, sessions, told, named, alive, dangling>>

SetTypeOfAll ==
    /\ Api("iterate", "idle") /\ ~dangling
    /\ list' = [i \in DOMAIN list |-> [list[i] EXCEPT !.hwd = type]]
    /\ named' = {}
    /\ UNCHANGED <<active, type, poll, sessions, told, alive, dangling>>

\* set_decoder_hwd_type(name, type)
SetTypeOf ==
    /\ Api("idle", "idle") /\ Unlocked
    /\ \E i \in DOMAIN list, h \in HwdTypes :
          /\ list' = [list EXCEPT ![i].hwd = h]
          /\ named' = named \cup {list[i].name}
    /\ UNCHANGED <<active, type, poll, sessions, told, alive, dangling>>

-----------------------------------------------------------------------------
PollStep(t) == \/ DealWithSdes(t) \/ Find(t) \/ ReadType(t) \/ Insert(t)
               \/ DealWithBye(t) \/ Remove(t)

ApiStep == \/ SetActive \/ CreateSessions
           \/ SetInactive \/ ClearAll \/ DestroySessions
           \/ SetType \/ SetTypeOfAll \/ SetTypeOf

UsersNext == (\E t \in Threads : PollStep(t)) \/ ApiStep

UsersSpec == UsersInit /\ [][UsersNext]_userVars

-----------------------------------------------------------------------------
(* Properties *)

\* the users whom insert is about to give a type and a source
Inserting == {poll[t].msg.name : t \in {v \in Threads : poll[v].at \in {"read", "set"}}}

\* Every user in the list has its name alone and, but while insert holds the mutex,
\* a source, so the erasing of users without one (rtpusermanager.cpp:321-334) never
\* happens.
UsersHaveSources ==
    /\ \A i \in DOMAIN list : \/ ~Empty(list[i]) /\ list[i].ssrc # list[i].another
                              \/ Empty(list[i]) /\ list[i].name \in Inserting
    /\ \A i, j \in DOMAIN list : list[i].name = list[j].name => i = j

\* on_new_user_join and on_user_exit are called once for each stay of a user, on
\* its first source and on its last: the application's count of the calls is the
\* list, in whatever order two poll threads process their packets and however the
\* user's sources change in between.
ApplicationKnowsUsers ==
    \A n \in Names :
        told[n] = IF \E i \in DOMAIN list : list[i].name = n /\ ~Empty(list[i]) THEN 1 ELSE 0

\* A source that said BYE is gone from the list, if each source has one name:
\* one scan for it, which stops at the first user it empties, is enough.
ByeRemovesSource ==
    (\A m, n \in Announces : m.ssrc = n.ssrc => m = n) =>
        \A i \in DOMAIN list : {list[i].ssrc, list[i].another} \subseteq alive \cup {NoSsrc}

\* the users whose decoder has another type than the one set for all
Missed == {list[i].name : i \in {j \in DOMAIN list : list[j].hwd # type}} \ (named \cup Inserting)

\* "Change the type of all users; users that join later get it too"
\* (rtpusermanager.h:110).  The setter and insert do not exclude each other, and
\* insert may have read _type before the setter wrote it and set what it read when
\* the setter has gone through the list.  But insert holds the mutex from the one
\* to the other, so a call of the setter misses one user at most, whose next SDES
\* packet makes up for it.
TypeReachesAll == api # "iterate" => \A m, n \in Missed : m = n

=============================================================================
