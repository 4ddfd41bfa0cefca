--------------------------- MODULE ReceiverProofs ----------------------------
(***************************************************************************)
(* Proofs about what a receiver makes of the room: UserManager, for any    *)
(* announcements of any sources, and FecTransport, for any frames over any *)
(* of its networks.                                                        *)
(***************************************************************************)
EXTENDS UserManager, FecTransport, FiniteSetTheorems, TLAPS

-----------------------------------------------------------------------------
(***************************************************************************)
(* UserManager                                                             *)
(***************************************************************************)
\* A user's sources are its own: what it was given is what an SDES packet said.
OwnSources ==
    \A i \in DOMAIN list : \A s \in {list[i].ssrc, list[i].another} :
        s = NoSsrc \/ \E m \in Announces : m.ssrc = s /\ m.name = list[i].name

\* insert excludes itself, and has its user in the list from find(name) on.
OneInserts ==
    /\ \A t, v \in Threads : poll[t].at \in {"read", "set"} /\ poll[v].at \in {"read", "set"} => t = v
    /\ \A t \in Threads : poll[t].at \in {"read", "set"} =>
          \E i \in DOMAIN list : list[i].name = poll[t].msg.name

\* insert about to set a type that is no longer _type will miss its user, and the
\* setter that changed _type has missed nobody yet.
StaleType ==
    api # "iterate" =>
        \A t \in Threads : poll[t].at = "set" => poll[t].hwd = type \/ Missed = {}

UsersInv ==
    /\ UsersTypeOK /\ UsersHaveSources /\ OwnSources /\ OneInserts
    /\ ApplicationKnowsUsers /\ ByeRemovesSource /\ TypeReachesAll /\ StaleType

-----------------------------------------------------------------------------
\* The positions that are left when at most one is taken away have one order,
\* which goes through each of them once.
LEMMA InOrderEnumerates ==
    ASSUME NEW n \in Nat, NEW K, K = 1..n \/ \E k \in 1..n : K = (1..n) \ {k}
    PROVE  /\ Cardinality(K) \in Nat
           /\ InOrder(K) \in [1..Cardinality(K) -> K]
           /\ \A a, b \in 1..Cardinality(K) : InOrder(K)[a] = InOrder(K)[b] => a = b
           /\ \A k \in K : \E a \in 1..Cardinality(K) : InOrder(K)[a] = k
<1> DEFINE c == Cardinality(K)
           Ordering(f) == \A a, b \in DOMAIN f : a < b => f[a] < f[b]
<1>1. IsFiniteSet(1..n) /\ Cardinality(1..n) = n
  BY FS_Interval
<1>2. IsFiniteSet(K) /\ c \in Nat
  BY <1>1, FS_RemoveElement, FS_CardinalityType
<1>3. \E f \in [1..c -> K] : Ordering(f)
  <2>1. CASE K = 1..n
    <3>1. [a \in 1..c |-> a] \in [1..c -> K] /\ Ordering([a \in 1..c |-> a])
      BY <1>1, <2>1
    <3> QED BY <3>1
  <2>2. ASSUME NEW k \in 1..n, K = (1..n) \ {k}
        PROVE  \E f \in [1..c -> K] : Ordering(f)
    <3>1. c = n - 1
      BY <1>1, <2>2, FS_RemoveElement
    <3> DEFINE f == [a \in 1..c |-> IF a < k THEN a ELSE a + 1]
    <3>2. f \in [1..c -> K] /\ Ordering(f)
      BY <2>2, <3>1
    <3> QED BY <3>2
  <2> QED BY <2>1, <2>2
<1> DEFINE g == InOrder(K)
<1>4. g \in [1..c -> K] /\ Ordering(g)
  BY <1>3 DEF InOrder
<1>5. \A a, b \in 1..c : g[a] = g[b] => a = b
  <2> SUFFICES ASSUME NEW a \in 1..c, NEW b \in 1..c, g[a] = g[b], a # b
               PROVE  FALSE
    OBVIOUS
  <2>1. a < b \/ b < a
    BY <1>2
  <2>2. g[a] \in Nat /\ g[b] \in Nat
    BY <1>4
  <2> HIDE DEF g
  <2> QED BY <1>4, <2>1, <2>2
<1>6. \A k \in K : \E a \in 1..c : g[a] = k
  <2> HIDE DEF g
  <2>1. g \in Injection(1..c, K)
    BY <1>4, <1>5 DEF Injection, IsInjective
  <2>2. Cardinality(1..c) = c
    BY <1>2, FS_Interval
  <2>3. g \in Surjection(1..c, K)
    BY <1>2, <2>1, <2>2, FS_Injection
  <2> QED BY <2>3 DEF Surjection
<1> QED BY <1>2, <1>4, <1>5, <1>6

\* While insert is not under way every user has a source.
LEMMA NoneEmpty ==
    ASSUME UsersHaveSources, Unlocked
    PROVE  /\ Inserting = {}
           /\ \A i \in DOMAIN list : ~Empty(list[i]) /\ list[i].ssrc # list[i].another
<1>1. Inserting = {}
  BY DEF Unlocked, Inserting
<1> QED BY <1>1 DEF UsersHaveSources

\* find(ssrc) erases one user at most, the first that it leaves without a source.
LEMMA KeepsAllButOne ==
    ASSUME UsersTypeOK, UsersHaveSources, Unlocked, NEW ssrc
    PROVE  /\ Len(list) \in Nat
           /\ \/ Kept(ssrc) = 1..Len(list)
              \/ \E k \in 1..Len(list) : Kept(ssrc) = (1..Len(list)) \ {k}
<1>1. Len(list) \in Nat /\ DOMAIN list = 1..Len(list)
  BY DEF UsersTypeOK
<1>2. ASSUME NEW k \in DOMAIN list \ Kept(ssrc)
      PROVE  k \in Reached(ssrc) /\ Empty(DropSource(list[k], ssrc)) /\ ~Empty(list[k])
  BY <1>2, NoneEmpty DEF Kept, Searched
<1>3. \A j, k \in DOMAIN list \ Kept(ssrc) : ~(j < k)
  <2> SUFFICES ASSUME NEW j \in DOMAIN list \ Kept(ssrc),
                      NEW k \in DOMAIN list \ Kept(ssrc), j < k
               PROVE  FALSE
    OBVIOUS
  <2>1. j \in 1..(k - 1)
    BY <1>1
  <2> QED BY <1>2, <2>1 DEF Reached
<1>4. \A j, k \in DOMAIN list \ Kept(ssrc) : j = k
  BY <1>1, <1>3
<1>5. Kept(ssrc) \subseteq DOMAIN list
  BY DEF Kept
<1>6. CASE DOMAIN list \ Kept(ssrc) = {}
  BY <1>1, <1>5, <1>6
<1>7. ASSUME NEW k \in DOMAIN list \ Kept(ssrc)
      PROVE  Kept(ssrc) = (1..Len(list)) \ {k}
  BY <1>1, <1>4, <1>5, <1>7
<1> QED BY <1>1, <1>6, <1>7

\* What the list is after a search: the users that are kept, each at one place,
\* as the search left them.
After(ssrc) == [n \in 1..Cardinality(Kept(ssrc)) |-> Searched(ssrc)[InOrder(Kept(ssrc))[n]]]

LEMMA SearchedUser ==
    ASSUME UsersTypeOK, UsersHaveSources, Unlocked, NEW ssrc, NEW i \in Kept(ssrc)
    PROVE  LET u == Searched(ssrc)[i]
           IN  /\ i \in DOMAIN list /\ u \in Users
               /\ u.name = list[i].name /\ u.hwd = list[i].hwd
               /\ u.ssrc \in {list[i].ssrc, NoSsrc} /\ u.another \in {list[i].another, NoSsrc}
               /\ ~Empty(u) /\ u.ssrc # u.another
<1>1. i \in DOMAIN list /\ list[i] \in Users
  BY DEF Kept, UsersTypeOK
<1>2. ~Empty(list[i]) /\ list[i].ssrc # list[i].another
  BY <1>1, NoneEmpty
<1>3. CASE i \in Reached(ssrc)
  <2>1. Searched(ssrc)[i] = DropSource(list[i], ssrc) /\ ~Empty(Searched(ssrc)[i])
    BY <1>1, <1>3 DEF Searched, Kept
  <2> QED BY <1>1, <1>2, <2>1 DEF DropSource, Users, Empty
<1>4. CASE i \notin Reached(ssrc)
  <2>1. Searched(ssrc)[i] = list[i]
    BY <1>1, <1>4 DEF Searched
  <2> QED BY <1>1, <1>2, <2>1 DEF Users
<1> QED BY <1>3, <1>4

LEMMA AfterSearch ==
    ASSUME UsersTypeOK, UsersHaveSources, Unlocked, NEW ssrc
    PROVE  /\ After(ssrc) \in Seq(Users)
           /\ \A a \in DOMAIN After(ssrc) : \E i \in Kept(ssrc) :
                 After(ssrc)[a] = Searched(ssrc)[i]
           /\ \A a, b \in DOMAIN After(ssrc) :
                 After(ssrc)[a].name = After(ssrc)[b].name => a = b
           /\ NameSet(After(ssrc)) = {list[i].name : i \in Kept(ssrc)}
<1> DEFINE K == Kept(ssrc)
           c == Cardinality(K)
           g == InOrder(K)
           L == After(ssrc)
<1>1. /\ c \in Nat /\ g \in [1..c -> K]
      /\ \A a, b \in 1..c : g[a] = g[b] => a = b
      /\ \A k \in K : \E a \in 1..c : g[a] = k
  BY KeepsAllButOne, InOrderEnumerates
<1>2. DOMAIN L = 1..c /\ \A a \in 1..c : L[a] = Searched(ssrc)[g[a]] /\ g[a] \in K
  BY <1>1 DEF After
<1>3. \A a \in 1..c : /\ L[a] \in Users /\ L[a].name = list[g[a]].name
                      /\ g[a] \in DOMAIN list
  BY <1>2, SearchedUser
<1> HIDE DEF c, g, K
<1>4. L \in Seq(Users)
  <2>1. L \in [1..c -> Users]
    BY <1>1, <1>2, <1>3 DEF After, c
  <2> HIDE DEF L
  <2> QED BY <1>1, <2>1
<1> HIDE DEF L
<1>5. \A a, b \in DOMAIN L : L[a].name = L[b].name => a = b
  BY <1>1, <1>2, <1>3 DEF UsersHaveSources
<1>6. NameSet(L) = {list[i].name : i \in K}
  BY <1>1, <1>2, <1>3 DEF NameSet
<1> QED BY <1>2, <1>4, <1>5, <1>6 DEF L, K

\* A search for a source takes away no user but the one it leaves without any,
\* and leaves no other with that source, if each source has one name.
LEMMA RemoveInv ==
    ASSUME UsersInv, NEW t \in Threads, Remove(t)
    PROVE  UsersInv'
<1> DEFINE ssrc == poll[t].msg.ssrc
           K == Kept(ssrc)
           gone == {list[i].name : i \in DOMAIN list \ K}
<1>0. UsersTypeOK /\ UsersHaveSources /\ Unlocked
  BY DEF UsersInv, Remove
<1>1. poll[t].at = "remove" /\ poll[t] # Idle /\ poll[t].msg \in Announces /\ ssrc \in Ssrcs
  BY <1>0 DEF UsersTypeOK, Remove, Idle, Calls, Ssrcs
<1>2. /\ list' = After(ssrc) /\ told' = [n \in Names |-> IF n \in gone THEN told[n] - 1 ELSE told[n]] /\ named' = named \ gone
      /\ alive' = alive \ {ssrc} /\ dangling' = (dangling \/ (api = "iterate" /\ gone # {}))
      /\ poll' = [poll EXCEPT ![t] = Idle]
      /\ UNCHANGED <<active, type, api, sessions>>
  BY DEF Remove, After
<1>3. /\ list' \in Seq(Users)
      /\ \A a \in DOMAIN list' : \E i \in K : list'[a] = Searched(ssrc)[i]
      /\ \A a, b \in DOMAIN list' : list'[a].name = list'[b].name => a = b
      /\ NameSet(list') = {list[i].name : i \in K}
  BY <1>0, <1>2, AfterSearch
<1> HIDE DEF ssrc, K, gone
<1>4. ASSUME NEW a \in DOMAIN list'
      PROVE  \E i \in K : /\ i \in DOMAIN list /\ list'[a] = Searched(ssrc)[i]
                          /\ list'[a].name = list[i].name /\ list'[a].hwd = list[i].hwd
                          /\ list'[a].ssrc \in {list[i].ssrc, NoSsrc}
                          /\ list'[a].another \in {list[i].another, NoSsrc}
                          /\ ~Empty(list'[a]) /\ list'[a].ssrc # list'[a].another
  BY <1>0, <1>3, <1>4, SearchedUser DEF K
<1>5. UsersTypeOK'
  <2>1. poll' \in [Threads -> {Idle} \cup Calls] /\ (\A v \in Threads : poll'[v] # Idle => sessions)
    BY <1>0, <1>2 DEF UsersTypeOK
  <2>2. dangling' \in BOOLEAN
    BY <1>0, <1>2 DEF UsersTypeOK
  <2>3. told' \in [Names -> Int]
    BY <1>0, <1>2 DEF UsersTypeOK
  <2> QED BY <1>0, <1>2, <1>3, <2>1, <2>2, <2>3 DEF UsersTypeOK
<1>6. /\ UsersHaveSources'
      /\ \A v \in Threads : poll'[v].at \notin {"read", "set"}
  <2>1. \A v \in Threads : poll'[v].at \notin {"read", "set"}
    BY <1>0, <1>2 DEF UsersTypeOK, Unlocked, Idle
  <2> QED BY <1>3, <1>4, <2>1 DEF UsersHaveSources
<1>7. OwnSources'
  BY <1>4 DEF UsersInv, OwnSources
<1>8. ApplicationKnowsUsers'
  <2> SUFFICES ASSUME NEW n \in Names
               PROVE  told'[n] = IF \E a \in DOMAIN list' : list'[a].name = n THEN 1 ELSE 0
    BY <1>4 DEF ApplicationKnowsUsers
  <2>1. told[n] = IF \E i \in DOMAIN list : list[i].name = n THEN 1 ELSE 0
    BY <1>0, NoneEmpty DEF UsersInv, ApplicationKnowsUsers
  <2>2. (\E a \in DOMAIN list' : list'[a].name = n) <=> \E i \in K : list[i].name = n
    <3>1. NameSet(list') = {list'[a].name : a \in DOMAIN list'}
      BY DEF NameSet
    <3> QED BY <1>3, <3>1
  <2>3. K \subseteq DOMAIN list
    BY DEF K, Kept
  <2>4. n \in gone <=> \E i \in DOMAIN list \ K : list[i].name = n
    BY DEF gone
  <2>5. told'[n] = IF n \in gone THEN told[n] - 1 ELSE told[n]
    BY <1>2
  <2>6. \A i, j \in DOMAIN list : list[i].name = list[j].name => i = j
    BY <1>0 DEF UsersHaveSources
  <2> QED BY <2>1, <2>2, <2>3, <2>4, <2>5, <2>6
<1>9. ByeRemovesSource'
  <2> SUFFICES ASSUME \A m, n \in Announces : m.ssrc = n.ssrc => m = n,
                      NEW a \in DOMAIN list',
                      NEW s \in {list'[a].ssrc, list'[a].another}, s # NoSsrc
               PROVE  s \in alive \ {ssrc}
    BY <1>2 DEF ByeRemovesSource
  <2>1. PICK i \in K : /\ i \in DOMAIN list /\ list'[a] = Searched(ssrc)[i]
                       /\ s \in {list[i].ssrc, list[i].another}
    BY <1>4
  <2>2. s \in alive
    BY <2>1 DEF UsersInv, ByeRemovesSource
  <2>3. ASSUME s = ssrc PROVE FALSE
    <3>1. CASE i \in Reached(ssrc)
      <4>1. list'[a] = DropSource(list[i], ssrc)
        BY <2>1, <3>1 DEF Searched
      <4>2. list[i] \in Users
        BY <1>0, <2>1 DEF UsersTypeOK
      <4> QED BY <2>3, <4>1, <4>2 DEF DropSource, Users
    <3>2. CASE i \notin Reached(ssrc)
      <4>1. PICK j \in 1..(i - 1) : ~Empty(list[j]) /\ Empty(DropSource(list[j], ssrc))
        BY <2>1, <3>2 DEF Reached
      <4>2. j \in DOMAIN list /\ j # i /\ list[j] \in Users
        BY <1>0, <2>1, <4>1 DEF UsersTypeOK
      <4>3. ssrc \in {list[j].ssrc, list[j].another}
        BY <4>1, <4>2 DEF Empty, DropSource, Users
      <4>4. PICK m \in Announces : m.ssrc = ssrc /\ m.name = list[j].name
        BY <2>3, <4>2, <4>3 DEF UsersInv, OwnSources
      <4>5. PICK n \in Announces : n.ssrc = ssrc /\ n.name = list[i].name
        BY <2>1, <2>3 DEF UsersInv, OwnSources
      <4> QED BY <1>0, <2>1, <4>2, <4>4, <4>5 DEF UsersHaveSources
    <3> QED BY <3>1, <3>2
  <2> QED BY <2>2, <2>3
<1>10. Missed' \subseteq Missed
  <2> SUFFICES ASSUME NEW a \in DOMAIN list', list'[a].hwd # type,
                      list'[a].name \notin named \ gone
               PROVE  list'[a].name \in Missed
    BY <1>2 DEF Missed
  <2>1. PICK i \in K : /\ i \in DOMAIN list
                       /\ list'[a].name = list[i].name /\ list'[a].hwd = list[i].hwd
    BY <1>4
  <2>2. list[i].name \notin gone
    BY <1>0, <2>1 DEF UsersHaveSources, gone
  <2> QED BY <1>0, <2>1, <2>2, NoneEmpty DEF Missed
<1>11. TypeReachesAll'
  BY <1>2, <1>10 DEF UsersInv, TypeReachesAll
<1>12. OneInserts' /\ StaleType'
  BY <1>6 DEF OneInserts, StaleType
<1> QED BY <1>5, <1>6, <1>7, <1>8, <1>9, <1>11, <1>12 DEF UsersInv

\* find(name) returns the user of that name, who is new or was in the list.
LEMMA FindInv ==
    ASSUME UsersInv, NEW t \in Threads, Find(t)
    PROVE  UsersInv'
<1> DEFINE name == poll[t].msg.name
<1>0. UsersTypeOK /\ UsersHaveSources /\ Unlocked
  BY DEF UsersInv, Find
<1>1. /\ poll[t].at = "insert" /\ poll[t] # Idle /\ poll[t] \in Calls
      /\ name \in Names /\ poll[t].msg \in Announces
  BY <1>0 DEF UsersTypeOK, Find, Idle, Calls, Names
<1>2. /\ list' = FindByName(name) /\ poll' = [poll EXCEPT ![t].at = "read"]
      /\ UNCHANGED <<active, type, api, sessions, told, named, alive, dangling>>
  BY DEF Find
<1>3. /\ poll'[t].at = "read" /\ poll'[t].msg = poll[t].msg /\ poll'[t] \in Calls /\ poll'[t] # Idle
      /\ \A v \in Threads \ {t} : poll'[v] = poll[v]
      /\ poll' \in [Threads -> {Idle} \cup Calls]
      /\ \A v \in Threads : poll'[v] # Idle => sessions
  <2>1. poll[t] \in [at : {"insert", "read", "remove"}, msg : Announces]
    BY <1>1 DEF Calls
  <2>2. [poll[t] EXCEPT !.at = "read"] \in [at : {"insert", "read", "remove"}, msg : Announces]
    BY <2>1
  <2>3. poll'[t] = [poll[t] EXCEPT !.at = "read"]
    BY <1>0, <1>2 DEF UsersTypeOK
  <2>4. poll'[t].at = "read" /\ poll'[t].msg = poll[t].msg /\ poll'[t] \in Calls /\ poll'[t] # Idle
    BY <2>1, <2>2, <2>3 DEF Calls, Idle
  <2> QED BY <1>0, <1>1, <1>2, <2>4 DEF UsersTypeOK
<1> HIDE DEF name
<1>4. /\ list' \in Seq(Users) /\ DOMAIN list \subseteq DOMAIN list'
      /\ \A i \in DOMAIN list : list'[i] = list[i]
      /\ \A i \in DOMAIN list' \ DOMAIN list :
            /\ list'[i].name = name /\ Empty(list'[i]) /\ \A j \in DOMAIN list : list[j].name # name
      /\ \A i, j \in DOMAIN list' \ DOMAIN list : i = j
      /\ \E i \in DOMAIN list' : list'[i].name = name
  <2>0. list \in Seq(Users) /\ Len(list) \in Nat /\ DOMAIN list = 1..Len(list)
    BY <1>0 DEF UsersTypeOK
  <2>1. CASE name \in NameSet(list)
    BY <1>2, <2>0, <2>1 DEF FindByName, NameSet
  <2>2. CASE name \notin NameSet(list)
    <3> DEFINE u == [name |-> name, ssrc |-> NoSsrc, another |-> NoSsrc, hwd |-> DefaultType]
    <3>1. u \in Users /\ Empty(u) /\ u.name = name
      BY <1>1, AnnounceAssumption DEF Users, Empty, name
    <3>2. list' = Append(list, u)
      BY <1>2, <2>2 DEF FindByName
    <3> HIDE DEF u
    <3>3. /\ list' \in Seq(Users) /\ DOMAIN list' = 1..(Len(list) + 1)
          /\ \A i \in DOMAIN list : list'[i] = list[i]
          /\ list'[Len(list) + 1] = u
      BY <2>0, <3>1, <3>2
    <3>4. DOMAIN list \subseteq DOMAIN list' /\ DOMAIN list' \ DOMAIN list = {Len(list) + 1}
      BY <2>0, <3>3
    <3>5. \A j \in DOMAIN list : list[j].name # name
      BY <2>2 DEF NameSet
    <3> QED BY <3>1, <3>3, <3>4, <3>5
  <2> QED BY <2>1, <2>2
<1>5. name \in Inserting' /\ Inserting = {}
  BY <1>0, <1>3, NoneEmpty DEF Inserting, name
<1>6. UsersTypeOK'
  BY <1>0, <1>2, <1>3, <1>4 DEF UsersTypeOK
<1>7. UsersHaveSources'
  <2>1. \A i \in DOMAIN list : ~Empty(list[i]) /\ list[i].ssrc # list[i].another
    BY <1>0, NoneEmpty
  <2>2. \A i \in DOMAIN list' : \/ ~Empty(list'[i]) /\ list'[i].ssrc # list'[i].another
                                \/ Empty(list'[i]) /\ list'[i].name \in Inserting'
    BY <1>4, <1>5, <2>1
  <2>3. \A i, j \in DOMAIN list' : list'[i].name = list'[j].name => i = j
    BY <1>0, <1>4 DEF UsersHaveSources
  <2> QED BY <2>2, <2>3 DEF UsersHaveSources
<1>8. OwnSources'
  BY <1>4 DEF UsersInv, OwnSources, Empty
<1>9. OneInserts'
  <2>1. \A v \in Threads : poll'[v].at \in {"read", "set"} => v = t
    BY <1>0, <1>3 DEF Unlocked
  <2> QED BY <1>3, <1>4, <2>1 DEF OneInserts, name
<1>10. ApplicationKnowsUsers'
  <2>1. \A n \in Names : (\E i \in DOMAIN list' : list'[i].name = n /\ ~Empty(list'[i]))
                         <=> \E i \in DOMAIN list : list[i].name = n /\ ~Empty(list[i])
    BY <1>4
  <2> QED BY <1>2, <2>1 DEF UsersInv, ApplicationKnowsUsers
<1>11. ByeRemovesSource'
  BY <1>2, <1>4 DEF UsersInv, ByeRemovesSource, Empty
<1>12. Missed' \subseteq Missed
  BY <1>2, <1>4, <1>5 DEF Missed
<1>13. TypeReachesAll'
  BY <1>2, <1>12 DEF UsersInv, TypeReachesAll
<1>14. StaleType'
  <2>1. \A v \in Threads : poll'[v].at # "set"
    BY <1>0, <1>3 DEF Unlocked
  <2> QED BY <2>1 DEF StaleType
<1> QED BY <1>6, <1>7, <1>8, <1>9, <1>10, <1>11, <1>13, <1>14 DEF UsersInv

\* insert has the type of now when it reads it.
LEMMA ReadInv ==
    ASSUME UsersInv, NEW t \in Threads, ReadType(t)
    PROVE  UsersInv'
<1>0. UsersTypeOK /\ OneInserts
  BY DEF UsersInv
<1>1. poll[t].at = "read" /\ poll[t] # Idle /\ poll[t].msg \in Announces
  BY <1>0 DEF UsersTypeOK, ReadType, Idle, Calls
<1>2. /\ poll' = [poll EXCEPT ![t] = [at |-> "set", msg |-> poll[t].msg, hwd |-> type]]
      /\ UNCHANGED <<active, list, type, api, sessions, told, named, alive, dangling>>
  BY DEF ReadType
<1>3. /\ poll'[t] = [at |-> "set", msg |-> poll[t].msg, hwd |-> type]
      /\ \A v \in Threads \ {t} : poll'[v] = poll[v]
  BY <1>0, <1>2 DEF UsersTypeOK
<1>4. \A v \in Threads : /\ poll'[v].at \in {"read", "set"} <=> poll[v].at \in {"read", "set"}
                         /\ poll'[v].at \in {"read", "set"} => poll'[v].msg = poll[v].msg
  BY <1>1, <1>3
<1>5. Inserting' = Inserting
  BY <1>4 DEF Inserting
<1>6. UsersTypeOK'
  <2>1. poll'[t] \in Calls
    BY <1>0, <1>1, <1>3 DEF UsersTypeOK, Calls
  <2>2. poll' \in [Threads -> {Idle} \cup Calls] /\ (\A v \in Threads : poll'[v] # Idle => sessions)
    BY <1>0, <1>1, <1>2, <1>3, <2>1 DEF UsersTypeOK
  <2> QED BY <1>0, <1>2, <2>2 DEF UsersTypeOK
<1>7. OneInserts'
  BY <1>0, <1>2, <1>4 DEF OneInserts
<1>8. StaleType'
  <2>1. \A v \in Threads : poll'[v].at = "set" => v = t
    BY <1>0, <1>1, <1>3, <1>4 DEF OneInserts
  <2> QED BY <1>2, <1>3, <2>1 DEF StaleType
<1>9. UsersHaveSources' /\ OwnSources' /\ ApplicationKnowsUsers' /\ ByeRemovesSource'
  BY <1>2, <1>5 DEF UsersInv, UsersHaveSources, OwnSources, ApplicationKnowsUsers, ByeRemovesSource
<1>10. TypeReachesAll'
  BY <1>2, <1>5 DEF UsersInv, TypeReachesAll, Missed
<1> QED BY <1>6, <1>7, <1>8, <1>9, <1>10 DEF UsersInv

LEMMA AddedSource ==
    ASSUME NEW u \in Users, NEW s \in Ssrcs, Empty(u) \/ u.ssrc # u.another
    PROVE  LET v == AddSource(u, s)
           IN  /\ v \in Users /\ v.name = u.name /\ v.hwd = u.hwd
               /\ v.ssrc \in {u.ssrc, s} /\ v.another \in {u.another, s}
               /\ ~Empty(v) /\ v.ssrc # v.another
               /\ Announced(v, v # u) <=> Empty(u)
<1>1. s # NoSsrc
  BY AnnounceAssumption DEF Ssrcs
<1>2. u.ssrc \in Ssrcs \cup {NoSsrc} /\ u.another \in Ssrcs \cup {NoSsrc}
  BY DEF Users
<1>3. CASE s \in {u.ssrc, u.another}
  BY <1>1, <1>2, <1>3 DEF AddSource, Empty, Announced
<1>4. CASE s \notin {u.ssrc, u.another}
  BY <1>1, <1>2, <1>4 DEF AddSource, Empty, Announced, Users
<1> QED BY <1>3, <1>4

\* insert gives the user its source and the type it has read, and the application
\* hears of a user who had none.
LEMMA InsertInv ==
    ASSUME UsersInv, NEW t \in Threads, Insert(t)
    PROVE  UsersInv'
<1> DEFINE m == poll[t].msg
           h == poll[t].hwd
           mine == {j \in DOMAIN list : list[j].name = m.name}
<1>0. UsersTypeOK /\ UsersHaveSources /\ OneInserts
  BY DEF UsersInv
<1>1. /\ poll[t].at = "set" /\ m \in Announces /\ m.name \in Names /\ m.ssrc \in Ssrcs
      /\ h \in HwdTypes
  BY <1>0 DEF UsersTypeOK, Insert, Idle, Calls, Ssrcs, Names
<1>2. /\ list' = [j \in DOMAIN list |->
                     IF j \in mine THEN [AddSource(list[j], m.ssrc) EXCEPT !.hwd = h] ELSE list[j]]
      /\ told' = IF \E j \in mine : Announced(AddSource(list[j], m.ssrc),
                                             AddSource(list[j], m.ssrc) # list[j])
                 THEN [told EXCEPT ![m.name] = @ + 1] ELSE told
      /\ named' = named \ {m.name} /\ alive' = alive \cup {m.ssrc}
      /\ poll' = [poll EXCEPT ![t] = Idle]
      /\ UNCHANGED <<active, type, api, sessions, dangling>>
  BY DEF Insert
<1>3. PICK i \in DOMAIN list : list[i].name = m.name
  BY <1>0, <1>1 DEF OneInserts
<1>4. mine = {i}
  BY <1>0, <1>3 DEF UsersHaveSources
<1> DEFINE u == AddSource(list[i], m.ssrc)
           w == [u EXCEPT !.hwd = h]
<1>5. list[i] \in Users /\ (Empty(list[i]) \/ list[i].ssrc # list[i].another)
  BY <1>0 DEF UsersTypeOK, UsersHaveSources
<1>6. /\ u \in Users /\ u.name = m.name
      /\ u.ssrc \in {list[i].ssrc, m.ssrc} /\ u.another \in {list[i].another, m.ssrc}
      /\ ~Empty(u) /\ u.ssrc # u.another
      /\ Announced(u, u # list[i]) <=> Empty(list[i])
  BY <1>1, <1>3, <1>5, AddedSource
<1>7. /\ list' = [list EXCEPT ![i] = w]
      /\ told' = IF Announced(u, u # list[i]) THEN [told EXCEPT ![m.name] = @ + 1] ELSE told
  <2> HIDE DEF mine, m, h
  <2> QED BY <1>2, <1>4
<1> HIDE DEF u, m, h, mine
<1>8. /\ w \in Users /\ w.name = m.name /\ w.ssrc = u.ssrc /\ w.another = u.another
      /\ w.hwd = h /\ ~Empty(w)
  BY <1>1, <1>6 DEF Users, Empty
<1> HIDE DEF w
<1>9. /\ list' \in Seq(Users) /\ DOMAIN list' = DOMAIN list /\ list'[i] = w
      /\ \A j \in DOMAIN list \ {i} : list'[j] = list[j] /\ list[j].name # m.name
  BY <1>0, <1>3, <1>7, <1>8 DEF UsersTypeOK, UsersHaveSources
<1>10. /\ \A v \in Threads : poll'[v].at \notin {"read", "set"}
       /\ Inserting = {m.name} /\ Inserting' = {}
  <2>1. \A v \in Threads : poll[v].at \in {"read", "set"} => v = t
    BY <1>0, <1>1 DEF OneInserts
  <2>2. \A v \in Threads : poll'[v].at \notin {"read", "set"}
    BY <1>0, <1>2, <2>1 DEF UsersTypeOK, Idle
  <2>3. Inserting = {m.name}
    BY <1>1, <2>1 DEF Inserting, m
  <2> QED BY <2>2, <2>3 DEF Inserting
<1>11. \A j \in DOMAIN list \ {i} : ~Empty(list[j]) /\ list[j].ssrc # list[j].another
  BY <1>0, <1>9, <1>10 DEF UsersHaveSources
<1>12. UsersTypeOK'
  <2>1. poll' \in [Threads -> {Idle} \cup Calls] /\ (\A v \in Threads : poll'[v] # Idle => sessions)
    BY <1>0, <1>2 DEF UsersTypeOK
  <2>2. told' \in [Names -> Int]
    BY <1>0, <1>1, <1>7 DEF UsersTypeOK
  <2> QED BY <1>0, <1>1, <1>2, <1>9, <2>1, <2>2 DEF UsersTypeOK
<1>13. UsersHaveSources'
  BY <1>0, <1>6, <1>8, <1>9, <1>11 DEF UsersHaveSources
<1>14. OwnSources'
  <2>1. \A j \in DOMAIN list' \ {i} : \A s \in {list'[j].ssrc, list'[j].another} :
            s = NoSsrc \/ \E n \in Announces : n.ssrc = s /\ n.name = list'[j].name
    BY <1>9 DEF UsersInv, OwnSources
  <2>2. \A s \in {w.ssrc, w.another} :
            s = NoSsrc \/ \E n \in Announces : n.ssrc = s /\ n.name = m.name
    BY <1>1, <1>3, <1>6, <1>8 DEF UsersInv, OwnSources
  <2> QED BY <1>8, <1>9, <2>1, <2>2 DEF OwnSources
<1>15. ApplicationKnowsUsers'
  <2> SUFFICES ASSUME NEW n \in Names
               PROVE  told'[n] = IF \E j \in DOMAIN list' : list'[j].name = n THEN 1 ELSE 0
    BY <1>8, <1>9, <1>11 DEF ApplicationKnowsUsers
  <2>1. told[n] = IF \E j \in DOMAIN list : list[j].name = n /\ ~Empty(list[j]) THEN 1 ELSE 0
    BY DEF UsersInv, ApplicationKnowsUsers
  <2>2. CASE n = m.name
    <3>1. told[n] = IF Empty(list[i]) THEN 0 ELSE 1
      BY <1>3, <1>9, <2>1, <2>2
    <3>2. told'[n] = IF Empty(list[i]) THEN told[n] + 1 ELSE told[n]
      BY <1>0, <1>6, <1>7, <2>2 DEF UsersTypeOK
    <3> QED BY <1>3, <1>8, <1>9, <2>2, <3>1, <3>2
  <2>3. CASE n # m.name
    <3>1. told'[n] = told[n]
      BY <1>0, <1>1, <1>7, <2>3 DEF UsersTypeOK
    <3>2. (\E j \in DOMAIN list' : list'[j].name = n)
          <=> \E j \in DOMAIN list : list[j].name = n /\ ~Empty(list[j])
      BY <1>3, <1>8, <1>9, <1>11, <2>3
    <3> QED BY <2>1, <3>1, <3>2
  <2> QED BY <2>2, <2>3
<1>16. ByeRemovesSource'
  <2> SUFFICES ASSUME \A o, n \in Announces : o.ssrc = n.ssrc => o = n,
                      NEW j \in DOMAIN list'
               PROVE  {list'[j].ssrc, list'[j].another} \subseteq alive' \cup {NoSsrc}
    BY DEF ByeRemovesSource
  <2>1. {list[j].ssrc, list[j].another} \subseteq alive \cup {NoSsrc}
    BY <1>9 DEF UsersInv, ByeRemovesSource
  <2>2. {list'[j].ssrc, list'[j].another} \subseteq {list[j].ssrc, list[j].another, m.ssrc}
    BY <1>6, <1>8, <1>9
  <2> QED BY <1>2, <2>1, <2>2
<1>17. ASSUME NEW n \in Missed' PROVE n \in Missed \/ (n = m.name /\ h # type)
  <2>1. PICK j \in DOMAIN list' : list'[j].name = n /\ list'[j].hwd # type /\ n \notin named'
    BY <1>2, <1>17 DEF Missed
  <2>2. CASE j = i
    BY <1>8, <1>9, <2>1, <2>2
  <2>3. CASE j # i
    <3>1. j \in DOMAIN list /\ list[j].name = n /\ list[j].hwd # type /\ n # m.name
      BY <1>9, <2>1, <2>3
    <3>2. n \notin named /\ n \notin Inserting
      BY <1>2, <1>10, <2>1, <3>1
    <3> QED BY <3>1, <3>2 DEF Missed
  <2> QED BY <2>2, <2>3
<1>18. TypeReachesAll'
  <2> SUFFICES ASSUME api # "iterate" PROVE \A n, o \in Missed' : n = o
    BY <1>2 DEF TypeReachesAll
  <2>1. h = type \/ Missed = {}
    BY <1>1 DEF UsersInv, StaleType, h
  <2>2. \A n, o \in Missed : n = o
    BY DEF UsersInv, TypeReachesAll
  <2> QED BY <1>17, <2>1, <2>2
<1>19. OneInserts' /\ StaleType'
  BY <1>10 DEF OneInserts, StaleType
<1> QED BY <1>12, <1>13, <1>14, <1>15, <1>16, <1>18, <1>19 DEF UsersInv

\* The setters of decoder types change nobody's name or sources.
LEMMA SetterInv ==
    ASSUME UsersInv, SetTypeOfAll \/ SetTypeOf
    PROVE  UsersInv'
<1>0. /\ UsersTypeOK /\ list \in Seq(Users) /\ Len(list) \in Nat /\ DOMAIN list = 1..Len(list)
      /\ \A j \in DOMAIN list : list[j] \in Users
  BY DEF UsersInv, UsersTypeOK
<1>1. ASSUME NEW h \in [DOMAIN list -> HwdTypes],
             list' = [j \in DOMAIN list |-> [list[j] EXCEPT !.hwd = h[j]]],
             UNCHANGED <<active, type, poll, sessions, told, alive, dangling>>
      PROVE  /\ list' \in Seq(Users) /\ DOMAIN list' = DOMAIN list
             /\ \A j \in DOMAIN list : list'[j].hwd = h[j]
             /\ \A j \in DOMAIN list : list'[j].name = list[j].name
             /\ Inserting' = Inserting /\ UsersHaveSources' /\ OwnSources' /\ OneInserts'
             /\ ApplicationKnowsUsers' /\ ByeRemovesSource'
  <2>1. \A j \in DOMAIN list : /\ list'[j] \in Users /\ list'[j].hwd = h[j]
                               /\ list'[j].name = list[j].name /\ list'[j].ssrc = list[j].ssrc
                               /\ list'[j].another = list[j].another
    BY <1>0, <1>1 DEF Users
  <2>2. list' \in [1..Len(list) -> Users]
    BY <1>0, <1>1, <2>1
  <2>3. list' \in Seq(Users) /\ DOMAIN list' = DOMAIN list
    BY <1>0, <2>2
  <2>4. Inserting' = Inserting
    BY <1>1 DEF Inserting
  <2>5. UsersHaveSources'
    BY <2>1, <2>3, <2>4 DEF UsersInv, UsersHaveSources, Empty
  <2>6. OwnSources'
    BY <2>1, <2>3 DEF UsersInv, OwnSources
  <2>7. ByeRemovesSource'
    BY <1>1, <2>1, <2>3 DEF UsersInv, ByeRemovesSource
  <2>8. OneInserts'
    BY <1>1, <2>1, <2>3 DEF UsersInv, OneInserts
  <2>9. ApplicationKnowsUsers'
    <3>1. \A n \in Names : (\E i \in DOMAIN list' : list'[i].name = n /\ ~Empty(list'[i]))
                           <=> \E i \in DOMAIN list : list[i].name = n /\ ~Empty(list[i])
      BY <2>1, <2>3 DEF Empty
    <3> QED BY <1>1, <3>1 DEF UsersInv, ApplicationKnowsUsers
  <2> QED BY <2>1, <2>3, <2>4, <2>5, <2>6, <2>7, <2>8, <2>9
<1>2. CASE SetTypeOfAll
  <2> DEFINE h == [j \in DOMAIN list |-> type]
  <2>1. h \in [DOMAIN list -> HwdTypes]
    BY <1>0 DEF UsersTypeOK
  <2>2. /\ list' = [j \in DOMAIN list |-> [list[j] EXCEPT !.hwd = h[j]]]
        /\ named' = {} /\ api' = "idle"
        /\ UNCHANGED <<active, type, poll, sessions, told, alive, dangling>>
    BY <1>2 DEF SetTypeOfAll, Api
  <2>3. \A j \in DOMAIN list : h[j] = type
    OBVIOUS
  <2> HIDE DEF h
  <2>4. /\ list' \in Seq(Users) /\ DOMAIN list' = DOMAIN list
        /\ \A j \in DOMAIN list : list'[j].hwd = type
        /\ \A j \in DOMAIN list : list'[j].name = list[j].name
        /\ Inserting' = Inserting /\ UsersHaveSources' /\ OwnSources' /\ OneInserts'
        /\ ApplicationKnowsUsers' /\ ByeRemovesSource'
    BY <1>1, <2>1, <2>2, <2>3
  <2>5. UsersTypeOK'
    BY <1>0, <2>2, <2>4 DEF UsersTypeOK
  <2>6. Missed' = {}
    BY <2>2, <2>4 DEF Missed
  <2>7. TypeReachesAll' /\ StaleType'
    BY <2>6 DEF TypeReachesAll, StaleType
  <2> QED BY <2>4, <2>5, <2>7 DEF UsersInv
<1>3. CASE SetTypeOf
  <2>1. PICK i \in DOMAIN list, x \in HwdTypes :
           list' = [list EXCEPT ![i].hwd = x] /\ named' = named \cup {list[i].name}
    BY <1>3 DEF SetTypeOf
  <2> DEFINE h == [j \in DOMAIN list |-> IF j = i THEN x ELSE list[j].hwd]
  <2>2. h \in [DOMAIN list -> HwdTypes]
    BY <1>0 DEF Users
  <2>3. list' = [j \in DOMAIN list |-> [list[j] EXCEPT !.hwd = h[j]]]
    BY <1>0, <2>1 DEF Users
  <2>4. \A j \in DOMAIN list : j # i => h[j] = list[j].hwd
    OBVIOUS
  <2>5. api' = "idle" /\ api = "idle"
        /\ UNCHANGED <<active, type, poll, sessions, told, alive, dangling>>
    BY <1>3 DEF SetTypeOf, Api
  <2> HIDE DEF h
  <2>7. /\ list' \in Seq(Users) /\ DOMAIN list' = DOMAIN list
        /\ \A j \in DOMAIN list : list'[j].hwd = h[j]
        /\ \A j \in DOMAIN list : list'[j].name = list[j].name
        /\ Inserting' = Inserting /\ UsersHaveSources' /\ OwnSources' /\ OneInserts'
        /\ ApplicationKnowsUsers' /\ ByeRemovesSource'
    BY <1>1, <2>2, <2>3, <2>5
  <2>8. UsersTypeOK'
    BY <1>0, <2>1, <2>5, <2>7 DEF UsersTypeOK, Users, Names
  <2>9. Missed' \subseteq Missed
    BY <2>1, <2>4, <2>5, <2>7 DEF Missed
  <2>10. TypeReachesAll'
    BY <2>5, <2>9 DEF UsersInv, TypeReachesAll
  <2>11. StaleType'
    BY <1>3, <2>5 DEF SetTypeOf, Unlocked, StaleType
  <2> QED BY <2>7, <2>8, <2>10, <2>11 DEF UsersInv
<1> QED BY <1>2, <1>3

\* The other steps leave the list alone, or empty it when the room is left.
LEMMA OtherInv ==
    ASSUME UsersInv,
           \/ \E t \in Threads : DealWithSdes(t) \/ DealWithBye(t)
           \/ SetActive \/ CreateSessions \/ SetInactive \/ ClearAll \/ DestroySessions
           \/ SetType
           \/ UNCHANGED userVars
    PROVE  UsersInv'
<1> USE DEF Api
<1>0. UsersTypeOK
  BY DEF UsersInv
<1>1. ASSUME UNCHANGED <<list, told, named>>, UsersTypeOK', ByeRemovesSource',
             \A v \in Threads : \/ poll'[v] = poll[v]
                                \/ /\ poll'[v].at \notin {"read", "set"}
                                   /\ poll[v].at \notin {"read", "set"},
             api' # "iterate" => type' = type /\ api # "iterate"
      PROVE  UsersInv'
  <2>1. \A v \in Threads :
           /\ poll'[v].at \in {"read", "set"} <=> poll[v].at \in {"read", "set"}
           /\ poll'[v].at \in {"read", "set"} => poll'[v] = poll[v]
    BY <1>1
  <2>2. Inserting' = Inserting
    BY <2>1 DEF Inserting
  <2>3. OneInserts'
    BY <1>1, <2>1 DEF UsersInv, OneInserts
  <2>4. api' # "iterate" => Missed' = Missed
    BY <1>1, <2>2 DEF Missed
  <2>5. TypeReachesAll'
    BY <1>1, <2>4 DEF UsersInv, TypeReachesAll
  <2>6. StaleType'
    BY <1>1, <2>1, <2>4 DEF UsersInv, StaleType
  <2>7. UsersHaveSources' /\ OwnSources' /\ ApplicationKnowsUsers'
    BY <1>1, <2>2 DEF UsersInv, UsersHaveSources, OwnSources, ApplicationKnowsUsers
  <2> QED BY <1>1, <2>3, <2>5, <2>6, <2>7 DEF UsersInv
<1>2. ASSUME NEW t \in Threads, DealWithSdes(t) PROVE UsersInv'
  <2>1. PICK m \in Announces : poll' = [poll EXCEPT ![t] = [at |-> "insert", msg |-> m]]
    BY <1>2 DEF DealWithSdes
  <2>2. poll' \in [Threads -> {Idle} \cup Calls]
    BY <1>0, <2>1 DEF UsersTypeOK, Calls
  <2>3. UsersTypeOK'
    BY <1>0, <1>2, <2>2 DEF UsersTypeOK, DealWithSdes
  <2>4. ByeRemovesSource'
    BY <1>2 DEF UsersInv, ByeRemovesSource, DealWithSdes
  <2>5. \A v \in Threads \ {t} : poll'[v] = poll[v]
    BY <1>0, <2>1 DEF UsersTypeOK
  <2>6. poll'[t].at \notin {"read", "set"} /\ poll[t].at \notin {"read", "set"}
    BY <1>0, <1>2, <2>1 DEF UsersTypeOK, DealWithSdes, Idle
  <2> QED BY <1>1, <1>2, <2>3, <2>4, <2>5, <2>6 DEF DealWithSdes
<1>3. ASSUME NEW t \in Threads, DealWithBye(t) PROVE UsersInv'
  <2>1. PICK m \in Announces :
           IF list = <<>>
           THEN alive' = alive \ {m.ssrc} /\ UNCHANGED poll
           ELSE poll' = [poll EXCEPT ![t] = [at |-> "remove", msg |-> m]] /\ UNCHANGED alive
    BY <1>3 DEF DealWithBye
  <2>2. poll' \in [Threads -> {Idle} \cup Calls] /\ alive' \subseteq Ssrcs
    BY <1>0, <2>1 DEF UsersTypeOK, Calls
  <2>3. UsersTypeOK'
    BY <1>0, <1>3, <2>2 DEF UsersTypeOK, DealWithBye
  <2>4. ByeRemovesSource'
    <3>1. CASE list = <<>>
      <4>1. list' = list /\ DOMAIN list = {}
        BY <1>3, <3>1 DEF DealWithBye
      <4> QED BY <4>1 DEF ByeRemovesSource
    <3>2. CASE list # <<>>
      BY <1>3, <2>1, <3>2 DEF UsersInv, ByeRemovesSource, DealWithBye
    <3> QED BY <3>1, <3>2
  <2>5. \A v \in Threads : \/ poll'[v] = poll[v]
                           \/ /\ poll'[v].at \notin {"read", "set"}
                              /\ poll[v].at \notin {"read", "set"}
    BY <1>0, <1>3, <2>1 DEF UsersTypeOK, DealWithBye, Idle
  <2> QED BY <1>1, <1>3, <2>3, <2>4, <2>5 DEF DealWithBye
<1>4. CASE SetActive \/ CreateSessions \/ SetInactive \/ DestroySessions
  <2>1. UsersTypeOK'
    BY <1>0, <1>4 DEF UsersTypeOK, SetActive, CreateSessions, SetInactive, DestroySessions
  <2>2. ByeRemovesSource'
    BY <1>4 DEF UsersInv, ByeRemovesSource, SetActive, CreateSessions, SetInactive, DestroySessions
  <2> QED BY <1>1, <1>4, <2>1, <2>2 DEF SetActive, CreateSessions, SetInactive, DestroySessions
<1>5. CASE ClearAll
  <2>1. /\ list' = <<>> /\ told' = [n \in Names |-> 0] /\ named' = {} /\ alive' = {}
        /\ api' = "destroy" /\ Unlocked
        /\ UNCHANGED <<active, type, poll, sessions, dangling>>
    BY <1>5 DEF ClearAll
  <2>2. UsersTypeOK'
    BY <1>0, <2>1 DEF UsersTypeOK
  <2>3. DOMAIN list' = {}
    BY <2>1
  <2>4. Missed' = {}
    BY <2>3 DEF Missed
  <2>5. OneInserts' /\ TypeReachesAll' /\ StaleType'
    BY <2>1, <2>4 DEF OneInserts, TypeReachesAll, StaleType, Unlocked
  <2>6. UsersHaveSources' /\ OwnSources' /\ ApplicationKnowsUsers' /\ ByeRemovesSource'
    BY <2>1, <2>3 DEF UsersHaveSources, OwnSources, ApplicationKnowsUsers, ByeRemovesSource
  <2> QED BY <2>2, <2>5, <2>6 DEF UsersInv
<1>6. CASE SetType
  <2>1. UsersTypeOK'
    BY <1>0, <1>6 DEF UsersTypeOK, SetType
  <2>2. ByeRemovesSource'
    BY <1>6 DEF UsersInv, ByeRemovesSource, SetType
  <2> QED BY <1>1, <1>6, <2>1, <2>2 DEF SetType
<1>7. CASE UNCHANGED userVars
  <2>1. UsersTypeOK' /\ ByeRemovesSource'
    BY <1>0, <1>7 DEF UsersInv, UsersTypeOK, ByeRemovesSource, userVars
  <2> QED BY <1>1, <1>7, <2>1 DEF userVars
<1> QED BY <1>2, <1>3, <1>4, <1>5, <1>6, <1>7

-----------------------------------------------------------------------------
THEOREM UsersInvariant == UsersSpec => []UsersInv
<1>1. UsersInit => UsersInv
  <2> SUFFICES ASSUME UsersInit PROVE UsersInv
    OBVIOUS
  <2>1. <<>> \in Seq(Users) /\ DOMAIN list = {} /\ \A t \in Threads : poll[t].at = "idle"
    BY DEF UsersInit, Idle
  <2>2. UsersTypeOK
    <3>1. poll \in [Threads -> {Idle} \cup Calls] /\ \A t \in Threads : poll[t] = Idle
      BY DEF UsersInit
    <3>2. told \in [Names -> Int]
      BY DEF UsersInit
    <3>3. type \in HwdTypes
      BY AnnounceAssumption DEF UsersInit
    <3> QED BY <2>1, <3>1, <3>2, <3>3 DEF UsersInit, UsersTypeOK
  <2>3. OneInserts /\ TypeReachesAll /\ StaleType
    BY <2>1 DEF OneInserts, TypeReachesAll, StaleType, Missed
  <2>4. UsersHaveSources /\ OwnSources /\ ApplicationKnowsUsers /\ ByeRemovesSource
    BY <2>1 DEF UsersInit, UsersHaveSources, OwnSources, ApplicationKnowsUsers, ByeRemovesSource
  <2> QED BY <2>2, <2>3, <2>4 DEF UsersInv
<1>2. UsersInv /\ [UsersNext]_userVars => UsersInv'
  BY FindInv, ReadInv, RemoveInv, InsertInv, SetterInv, OtherInv DEF UsersNext, PollStep, ApiStep
<1> QED BY <1>1, <1>2, PTL DEF UsersSpec

\* The types, with the poll threads idle when there is no session.
THEOREM UsersTypeCorrect == UsersSpec => []UsersTypeOK
<1>1. UsersInv => UsersTypeOK
  BY DEF UsersInv
<1> QED BY <1>1, UsersInvariant, PTL

\* The list has each name once and no user without a source, in whatever order
\* the packets of two sessions are processed.
THEOREM HaveSources == UsersSpec => []UsersHaveSources
<1>1. UsersInv => UsersHaveSources
  BY DEF UsersInv
<1> QED BY <1>1, UsersInvariant, PTL

\* on_new_user_join has been called once more than on_user_exit for each user in
\* the list, and as often for any other.
THEOREM ApplicationKnows == UsersSpec => []ApplicationKnowsUsers
<1>1. UsersInv => ApplicationKnowsUsers
  BY DEF UsersInv
<1> QED BY <1>1, UsersInvariant, PTL

\* One search, which ends at the first user that it empties, removes a source
\* that says BYE wherever it is.
THEOREM ByeRemoves == UsersSpec => []ByeRemovesSource
<1>1. UsersInv => ByeRemovesSource
  BY DEF UsersInv
<1> QED BY <1>1, UsersInvariant, PTL

\* A decoder type that is set for all reaches the users of now and of later but
\* for one at most, though the setter and insert do not exclude each other and
\* insert reads _type in one step and sets what it read in another.
THEOREM TypeReaches == UsersSpec => []TypeReachesAll
<1>1. UsersInv => TypeReachesAll
  BY DEF UsersInv
<1> QED BY <1>1, UsersInvariant, PTL

-----------------------------------------------------------------------------
(***************************************************************************)
(* FecTransport                                                            *)
(***************************************************************************)
Frames == [size : FrameSizes, mode : {"single", "fec", "raw"},
           base : Timestamps, count : Nat \ {0}]

\* What send_packet has chosen for each frame.
FrameSent ==
    /\ Len(sent) <= MaxFrames
    /\ \A f \in Numbers : /\ sent[f].mode \in Modes(sent[f].size)
                          /\ \E key \in BOOLEAN :
                                sent[f].count = PacketCount(sent[f].size, key, sent[f].mode)

\* The timestamps since frame f was sent.  Later frames are nearer, and with few
\* packets none is a whole cycle away, so no two frames of video have one
\* timestamp; those of audio have the same.
Dist(f) == (clock - sent[f].base) % TsMod

Spaced ==
    IF link.tsinc = 0
    THEN \A f \in Numbers : sent[f].base = clock
    ELSE /\ \A f \in Numbers :
               /\ Dist(f) >= 1
               /\ MaxFrames * Dist(f) <= (Len(sent) - f + 1) * (TsMod - 1)
         /\ \A f, g \in Numbers : f < g => Dist(f) > Dist(g)

\* An entry of fec_map is one frame's if the medium is video: its blocks are that
\* frame's, under its base timestamp.  For audio it is one position's, of whatever
\* frame came first, and one block is never enough.
FecEntry(ts) ==
    IF link.tsinc = 1
    THEN \E f \in Numbers :
            /\ sent[f].mode = "fec" /\ ts = sent[f].base /\ fec[ts].size = sent[f].size
            /\ \A b \in fec[ts].got : b[1] = f
            /\ IsFiniteSet(fec[ts].got)
    ELSE /\ SrcNb(fec[ts].size) >= 2
         /\ \E n \in Numbers, pos \in Timestamps :
               fec[ts].got = {<<n, pos>>} /\ ts = (clock - pos) % TsMod

FecEntries == \A ts \in DOMAIN fec : FecEntry(ts)

\* fec_map's frames and nofec_map's do not mix.
RawUncoded == \A ts \in DOMAIN raw : \A b \in raw[ts].slots : sent[b[1]].mode # "fec"

\* An entry of nofec_map, when nothing is duplicated: the packets it counts are the
\* blocks it holds, which come no more.
RawVideo(ts) ==
    \E f \in Numbers :
        /\ sent[f].mode = "raw" /\ ts = sent[f].base
        /\ raw[ts].n = SrcNb(sent[f].size)
        /\ raw[ts].last = Symbol - FillSize(sent[f].size)
        /\ raw[ts].slots \subseteq {f} \X Packets(f)
        /\ raw[ts].count = Cardinality(raw[ts].slots)
        /\ \A p \in net : <<p.frame, p.pos>> \notin raw[ts].slots

RawEntries ==
    link.tsinc = 1 /\ link.copies = 1 => \A ts \in DOMAIN raw : RawVideo(ts)

\* the blocks of a video frame that wait in fec_map
Held(f) == IF sent[f].base \in DOMAIN fec THEN fec[sent[f].base].got ELSE {}

\* the places of a frame in the decoder's queue
Delivered(f) == {i \in DOMAIN out : \E b \in out[i].blocks : b[1] = f}

\* The packets that came pay for the frame's deliveries and for what waits.
Paid ==
    \A f \in Numbers : sent[f].mode = "fec" =>
        IF link.tsinc = 1
        THEN Cardinality(Delivered(f)) * SrcNb(sent[f].size) + Cardinality(Held(f)) <= arrived[f]
        ELSE Delivered(f) = {}

InOrderNet == link.tsinc = 1 /\ ~link.reorder /\ link.copies = 1

Undelivered(f) == f \notin failed /\ Delivered(f) = {}

\* In an ordered network the packets in flight are later than those that came.  A
\* frame that is not delivered holds all its packets that came, too few for the
\* code, or has lost the rest.
Enough ==
    InOrderNet =>
        /\ \A p \in net, f \in Numbers : arrived[f] > 0 => f <= p.frame
        /\ \A f \in Numbers : \A b \in Held(f), p \in net : b # <<p.frame, p.pos>>
        /\ \A f \in Numbers : sent[f].mode = "fec" /\ Undelivered(f) =>
              /\ arrived[f] < SrcNb(sent[f].size) + Overhead
              /\ \/ arrived[f] = Cardinality(Held(f))
                 \/ \A p \in net : p.frame > f

FrameInv ==
    /\ TypeOK /\ FrameSent /\ Spaced
    /\ FecEntries /\ RawUncoded /\ RawEntries
    /\ WholeFrames /\ Paid /\ Enough

-----------------------------------------------------------------------------
\* A number that is at most one cycle out of range.
LEMMA WrapOnce ==
    ASSUME NEW m \in Nat \ {0}, NEW a \in Int
    PROVE  /\ a % m \in 0..(m - 1)
           /\ a \in 0..(m - 1) => a % m = a
           /\ a \in m..(2 * m - 1) => a % m = a - m
           /\ a \in (0 - m)..(0 - 1) => a % m = a + m
OBVIOUS

\* A frame has a symbol, and one below the symbol's size has no other.
LEMMA SrcNbPositive ==
    ASSUME NEW size \in FrameSizes
    PROVE  /\ SrcNb(size) \in Nat \ {0} /\ size \in Nat \ {0} /\ Symbol \in Nat \ {0}
           /\ size < Symbol => SrcNb(size) = 1
BY SizeAssumption DEF SrcNb

\* send_packet sends a packet at least; the code is for frames of two symbols.
LEMMA CountPositive ==
    ASSUME NEW size \in FrameSizes, NEW key \in BOOLEAN, NEW mode \in Modes(size)
    PROVE  /\ PacketCount(size, key, mode) \in Nat \ {0}
           /\ mode \in {"single", "fec", "raw"}
           /\ mode = "fec" => SrcNb(size) >= 2
           /\ mode = "raw" => PacketCount(size, key, mode) = SrcNb(size)
           /\ mode = "single" => SrcNb(size) = 1 /\ PacketCount(size, key, mode) = 1
<1>1. /\ mode \in {"single", "fec", "raw"}
      /\ mode = "fec" => SrcNb(size) >= 2
      /\ mode = "single" => size < Symbol
  BY SrcNbPositive DEF Modes
<1>2. CASE mode = "fec"
  <2>1. /\ size \in Nat \ {0} /\ Symbol \in Nat \ {0} /\ Extra \in Nat
        /\ (size + Symbol - 1) \div Symbol >= 2
    BY <1>1, <1>2, SrcNbPositive, SizeAssumption DEF SrcNb
  <2>2. ASSUME NEW rate \in {83, 90}
        PROVE  (size * 100) \div (Symbol * rate) \in Nat \ {0}
    <3>1. size >= Symbol
      BY <2>1
    <3>2. CASE rate = 83
      BY <2>1, <3>1, <3>2
    <3>3. CASE rate = 90
      BY <2>1, <3>1, <3>3
    <3> QED BY <3>2, <3>3
  <2>3. (IF key THEN 83 ELSE 90) \in {83, 90}
    OBVIOUS
  <2>4. TotalNb(size, key) \in Nat \ {0}
    BY <2>1, <2>2, <2>3 DEF TotalNb
  <2> QED BY <1>1, <1>2, <2>4 DEF PacketCount
<1>3. CASE mode # "fec"
  BY <1>1, <1>3, SrcNbPositive DEF PacketCount
<1> QED BY <1>2, <1>3

\* What TypeOK says of the sender, for the steps that need no more of it.
LEMMA SentTypes ==
    ASSUME TypeOK
    PROVE  /\ Len(sent) \in Nat /\ Numbers = 1..Len(sent)
           /\ \A g \in Numbers : /\ sent[g] \in Frames /\ sent[g].base \in Timestamps
                                 /\ sent[g].size \in FrameSizes /\ sent[g].count \in Nat \ {0}
           /\ clock \in Timestamps /\ TsMod \in Nat \ {0}
           /\ link.tsinc \in {0, 1} /\ link.reorder \in BOOLEAN /\ link.copies \in Nat \ {0}
<1>1. sent \in Seq(Frames)
  BY DEF TypeOK, Frames
<1>2. Len(sent) \in Nat /\ Numbers = 1..Len(sent) /\ \A g \in Numbers : sent[g] \in Frames
  BY <1>1 DEF Numbers
<1>3. clock \in Timestamps /\ link \in Links
  BY DEF TypeOK
<1>4. TsMod \in Nat \ {0}
  BY SizeAssumption
<1> QED BY <1>2, <1>3, <1>4, LinkAssumption DEF Frames

\* What sending a frame adds.
Sends(f, size, mode, n) ==
    /\ Len(sent) \in Nat /\ Len(sent) < MaxFrames /\ Numbers = 1..Len(sent)
    /\ f = Len(sent) + 1
    /\ sent' \in Seq(Frames) /\ Len(sent') = f /\ Numbers' = Numbers \cup {f}
    /\ \A g \in Numbers : sent'[g] = sent[g] /\ arrived'[g] = arrived[g]
    /\ sent'[f] = [size |-> size, mode |-> mode, base |-> clock, count |-> n]
    /\ arrived' \in [Numbers' -> Nat] /\ arrived'[f] = 0
    /\ net' = net \cup [frame : {f}, pos : 0..(n - 1), copy : 1..link.copies]
    /\ clock' = (clock + n * link.tsinc) % TsMod
    /\ UNCHANGED <<link, fec, raw, out, failed, broken>>

\* SendPacket with its choices named.
LEMMA SendFacts ==
    ASSUME TypeOK, SendPacket
    PROVE  \E f, n \in Nat \ {0}, size \in FrameSizes, key \in BOOLEAN,
              mode \in {"single", "fec", "raw"} :
                 /\ mode \in Modes(size) /\ n = PacketCount(size, key, mode)
                 /\ Sends(f, size, mode, n)
<1>1. PICK size \in FrameSizes, key \in BOOLEAN : \E mode \in Modes(size) :
          LET n == PacketCount(size, key, mode)
              f == Len(sent) + 1
          IN  /\ sent' = Append(sent, [size |-> size, mode |-> mode,
                                       base |-> clock, count |-> n])
              /\ net' = net \cup [frame : {f}, pos : 0..(n - 1), copy : 1..link.copies]
              /\ clock' = (clock + n * link.tsinc) % TsMod
  BY DEF SendPacket
<1>2. PICK mode \in Modes(size) :
          LET n == PacketCount(size, key, mode)
              f == Len(sent) + 1
          IN  /\ sent' = Append(sent, [size |-> size, mode |-> mode,
                                       base |-> clock, count |-> n])
              /\ net' = net \cup [frame : {f}, pos : 0..(n - 1), copy : 1..link.copies]
              /\ clock' = (clock + n * link.tsinc) % TsMod
  BY <1>1
<1> DEFINE n == PacketCount(size, key, mode)
           f == Len(sent) + 1
           s == [size |-> size, mode |-> mode, base |-> clock, count |-> n]
<1>3. n \in Nat \ {0} /\ mode \in {"single", "fec", "raw"}
  BY CountPositive
<1> HIDE DEF n
<1>4. sent \in Seq(Frames) /\ Len(sent) \in Nat /\ Numbers = 1..Len(sent)
  BY DEF TypeOK, Numbers, Frames
<1>5. s \in Frames
  BY <1>3 DEF TypeOK, Frames
<1> HIDE DEF s
<1>6. /\ sent' \in Seq(Frames) /\ Len(sent') = f /\ DOMAIN sent' = DOMAIN sent \cup {f}
      /\ sent'[f] = s /\ \A g \in DOMAIN sent : sent'[g] = sent[g]
  BY <1>2, <1>4, <1>5 DEF s, n, Numbers
<1>7. /\ arrived' \in [Numbers' -> Nat] /\ arrived'[f] = 0
      /\ \A g \in Numbers : arrived'[g] = arrived[g]
  <2>1. arrived \in [1..Len(sent) -> Nat]
    BY <1>4 DEF TypeOK
  <2>2. arrived \in Seq(Nat) /\ Len(arrived) = Len(sent)
    BY <1>4, <2>1
  <2>3. arrived' = Append(arrived, 0)
    BY DEF SendPacket
  <2>4. arrived' \in Seq(Nat) /\ Len(arrived') = f /\ arrived'[f] = 0
        /\ \A g \in 1..Len(sent) : arrived'[g] = arrived[g]
    BY <1>4, <2>2, <2>3
  <2>5. Numbers' = 1..f
    BY <1>4, <1>6 DEF Numbers
  <2> QED BY <1>4, <2>4, <2>5
<1>8. Len(sent) < MaxFrames /\ UNCHANGED <<link, fec, raw, out, failed, broken>>
  BY DEF SendPacket
<1>10. Sends(f, size, mode, n)
  BY <1>2, <1>3, <1>4, <1>6, <1>7, <1>8 DEF n, s, Numbers, Sends
<1>9. f \in Nat \ {0}
  BY <1>4
<1> QED BY <1>3, <1>9, <1>10 DEF n

\* The sender's step keeps the types.
LEMMA SendType ==
    ASSUME TypeOK, FrameSent, SendPacket
    PROVE  TypeOK' /\ FrameSent'
<1>1. PICK f, n \in Nat \ {0}, size \in FrameSizes, key \in BOOLEAN,
           mode \in {"single", "fec", "raw"} :
              /\ mode \in Modes(size) /\ n = PacketCount(size, key, mode)
              /\ Sends(f, size, mode, n)
  BY SendFacts
<1>3. Sends(f, size, mode, n)
  BY <1>1
<1>4. n = PacketCount(size, key, mode) /\ mode \in Modes(size)
  BY <1>1
<1>5. FrameSent'
  <2>1. \A g \in Numbers : sent'[g].mode \in Modes(sent'[g].size)
                /\ \E k \in BOOLEAN : sent'[g].count = PacketCount(sent'[g].size, k, sent'[g].mode)
    BY <1>3 DEF FrameSent, Sends
  <2>2. sent'[f].mode \in Modes(sent'[f].size)
        /\ sent'[f].count = PacketCount(sent'[f].size, key, sent'[f].mode)
    BY <1>3, <1>4 DEF Sends
  <2>3. Numbers' = Numbers \cup {f} /\ Len(sent') <= MaxFrames
    BY <1>3, SizeAssumption DEF Sends
  <2> QED BY <2>1, <2>2, <2>3 DEF FrameSent
<1>6. clock' \in Timestamps
  <2>1. link.tsinc \in {0, 1} /\ TsMod \in Nat \ {0} /\ clock \in Int
    BY LinkAssumption, SizeAssumption DEF TypeOK, Timestamps
  <2>2. clock + n * link.tsinc \in Int
    BY <1>4, <2>1
  <2>3. clock' = (clock + n * link.tsinc) % TsMod
    BY <1>3 DEF Sends
  <2> QED BY <2>1, <2>2, <2>3, WrapOnce DEF Timestamps
<1>7. net' \subseteq [frame : Numbers', pos : Nat, copy : 1..link'.copies]
      /\ \A p \in net' : p.pos \in Packets(p.frame)'
  <2>1. f \in Numbers' /\ sent'[f].count = n /\ Numbers \subseteq Numbers' /\ link' = link
    BY <1>3 DEF Sends
  <2>2. \A g \in Numbers : Packets(g)' = Packets(g)
    BY <1>3 DEF Sends, Packets
  <2>3. Packets(f)' = 0..(n - 1)
    BY <2>1 DEF Packets
  <2>4. ASSUME NEW p \in net' \ net
        PROVE  p \in [frame : {f}, pos : 0..(n - 1), copy : 1..link.copies]
    BY <1>3, <2>4 DEF Sends
  <2>5. ASSUME NEW p \in net
        PROVE  p \in [frame : Numbers', pos : Nat, copy : 1..link'.copies]
               /\ p.pos \in Packets(p.frame)'
    BY <2>1, <2>2, <2>5 DEF TypeOK
  <2>6. 0..(n - 1) \subseteq Nat
    OBVIOUS
  <2>7. ASSUME NEW p \in net' \ net
        PROVE  p \in [frame : Numbers', pos : Nat, copy : 1..link'.copies]
               /\ p.pos \in Packets(p.frame)'
    BY <2>1, <2>3, <2>4, <2>6, <2>7
  <2> QED BY <2>5, <2>7
<1>8. Blocks \subseteq Blocks'
  BY <1>3 DEF Sends, Blocks
<1>9. /\ fec' \in [DOMAIN fec' -> [size : FrameSizes, got : SUBSET Blocks']]
      /\ raw' \in [DOMAIN raw' -> [count : Nat, slots : SUBSET Blocks', n : Nat, last : Int]]
      /\ out' \in Seq(Outputs')
  <2>1. fec' = fec /\ raw' = raw /\ out' = out
    BY <1>3 DEF Sends
  <2>2. fec \in [DOMAIN fec -> [size : FrameSizes, got : SUBSET Blocks']]
    <3>1. [size : FrameSizes, got : SUBSET Blocks] \subseteq [size : FrameSizes, got : SUBSET Blocks']
      BY <1>8
    <3> QED BY <3>1 DEF TypeOK
  <2>3. raw \in [DOMAIN raw -> [count : Nat, slots : SUBSET Blocks', n : Nat, last : Int]]
    <3>1. [count : Nat, slots : SUBSET Blocks, n : Nat, last : Int]
            \subseteq [count : Nat, slots : SUBSET Blocks', n : Nat, last : Int]
      BY <1>8
    <3> QED BY <3>1 DEF TypeOK
  <2>4. out \in Seq(Outputs')
    <3>1. Outputs \subseteq Outputs'
      BY <1>8 DEF Outputs
    <3>2. out \in Seq(Outputs) /\ Len(out) \in Nat
      BY DEF TypeOK
    <3>3. out \in [1..Len(out) -> Outputs]
      BY <3>2
    <3>4. out \in [1..Len(out) -> Outputs']
      BY <3>1, <3>3
    <3> QED BY <3>2, <3>4
  <2> QED BY <2>1, <2>2, <2>3, <2>4
<1>10. TypeOK'
  BY <1>3, <1>6, <1>7, <1>9 DEF TypeOK, Sends, Frames
<1> QED BY <1>5, <1>10

-----------------------------------------------------------------------------
\* The clock goes on by n and does not reach b again.
LEMMA Farther ==
    ASSUME NEW m \in Nat \ {0}, NEW c \in 0..(m - 1), NEW b \in 0..(m - 1), NEW n \in Nat,
           ((c - b) % m) + n <= m - 1
    PROVE  (((c + n) % m) - b) % m = ((c - b) % m) + n
<1>1. c + n \in 0..(2 * m - 1) /\ c - b \in (0 - m)..(m - 1)
  OBVIOUS
<1>2. (c + n) % m = IF c + n < m THEN c + n ELSE c + n - m
  BY <1>1
<1>3. (c - b) % m = IF c - b < 0 THEN c - b + m ELSE c - b
  BY <1>1
<1>4. CASE c - b >= 0 /\ c + n < m
  BY <1>2, <1>3, <1>4
<1>5. CASE c - b >= 0 /\ c + n >= m
  <2>1. ((c + n) % m) - b = c - b + n - m /\ c - b + n - m \in (0 - m)..(0 - 1)
    BY <1>2, <1>3, <1>5
  <2> QED BY <1>3, <1>5, <2>1
<1>6. CASE c - b < 0
  <2>1. ((c + n) % m) - b = c - b + n /\ c - b + n \in (0 - m)..(0 - 1)
    BY <1>2, <1>3, <1>6
  <2> QED BY <1>3, <1>6, <2>1
<1> QED BY <1>4, <1>5, <1>6

\* What a bound on every frame is for all of them.
LEMMA WithinCycle ==
    ASSUME NEW max \in Nat, NEW k \in Nat, k + 1 <= max, NEW m \in Nat \ {0},
           NEW d \in Nat, NEW n \in Nat, max * d <= k * (m - 1), max * n < m
    PROVE  /\ max * (d + n) <= (k + 1) * (m - 1)
           /\ d + n <= m - 1
<1>1. max * (d + n) = max * d + max * n /\ (k + 1) * (m - 1) = k * (m - 1) + (m - 1)
  OBVIOUS
<1>2. max * (d + n) <= (k + 1) * (m - 1)
  BY <1>1
<1>3. (k + 1) * (m - 1) <= max * (m - 1)
  OBVIOUS
<1>4. max * (d + n) <= max * (m - 1)
  BY <1>2, <1>3
<1> QED BY <1>2, <1>4

\* A frame is sent after the others.
LEMMA SpacedSend ==
    ASSUME FewPackets, TypeOK, FrameSent, Spaced, SendPacket
    PROVE  Spaced'
<1>1. PICK f, n \in Nat \ {0}, size \in FrameSizes, key \in BOOLEAN,
           mode \in {"single", "fec", "raw"} :
              /\ mode \in Modes(size) /\ n = PacketCount(size, key, mode)
              /\ Sends(f, size, mode, n)
  BY SendFacts
<1>2. /\ Len(sent) \in Nat /\ Len(sent) < MaxFrames /\ MaxFrames \in Nat
      /\ f = Len(sent) + 1 /\ Len(sent') = f /\ Numbers = 1..Len(sent)
      /\ Numbers' = Numbers \cup {f} /\ link' = link
      /\ \A g \in Numbers : sent'[g].base = sent[g].base
      /\ sent'[f].base = clock
      /\ clock' = (clock + n * link.tsinc) % TsMod
  BY <1>1, SizeAssumption DEF Sends
<1>3. /\ TsMod \in Nat \ {0} /\ clock \in 0..(TsMod - 1) /\ link.tsinc \in {0, 1}
      /\ \A g \in Numbers : sent[g].base \in 0..(TsMod - 1)
  BY SentTypes DEF Timestamps
<1>4. CASE link.tsinc = 0
  <2>1. clock' = clock
    <3>1. n * 0 = 0 /\ (clock + 0) % TsMod = clock
      BY <1>3
    <3> QED BY <1>2, <1>4, <3>1
  <2> QED BY <1>2, <1>4, <2>1 DEF Spaced
<1>5. CASE link.tsinc = 1
  <2>1. clock' = (clock + n) % TsMod
    BY <1>2, <1>5
  <2>2. MaxFrames * n < TsMod
    BY <1>1 DEF FewPackets
  <2>3. ASSUME NEW g \in Numbers
        PROVE  /\ Dist(g)' = Dist(g) + n
               /\ MaxFrames * (Dist(g) + n) <= (Len(sent') - g + 1) * (TsMod - 1)
    <3> DEFINE k == Len(sent) - g + 1
               d == Dist(g)
    <3>1. k \in Nat /\ k + 1 <= MaxFrames /\ k + 1 = Len(sent') - g + 1
      BY <1>2
    <3>2. d \in Nat /\ MaxFrames * d <= k * (TsMod - 1)
      BY <1>3, <1>5 DEF Spaced, Dist
    <3> HIDE DEF k, d
    <3>3. MaxFrames * (d + n) <= (k + 1) * (TsMod - 1) /\ d + n <= TsMod - 1
      BY <1>2, <1>3, <2>2, <3>1, <3>2, WithinCycle
    <3>4. Dist(g)' = (((clock + n) % TsMod) - sent[g].base) % TsMod
      BY <1>2, <2>1 DEF Dist
    <3>5. d = (clock - sent[g].base) % TsMod
      BY DEF d, Dist
    <3>6. Dist(g)' = d + n
      BY <1>3, <3>3, <3>4, <3>5, Farther
    <3> QED BY <3>1, <3>3, <3>6 DEF d
  <2>4. Dist(f)' = n /\ MaxFrames * n <= (Len(sent') - f + 1) * (TsMod - 1)
    <3>1. Dist(f)' = (((clock + n) % TsMod) - clock) % TsMod
      BY <1>2, <2>1 DEF Dist
    <3>2. n <= TsMod - 1
      <4>1. n <= MaxFrames * n
        BY <1>2
      <4>2. MaxFrames * n \in Int /\ TsMod \in Int
        BY <1>2, <1>3
      <4> QED BY <2>2, <4>1, <4>2
    <3>3. (clock - clock) % TsMod = 0
      BY <1>3
    <3>4. Dist(f)' = n
      BY <1>3, <3>1, <3>2, <3>3, Farther
    <3>5. (Len(sent') - f + 1) * (TsMod - 1) = TsMod - 1
      BY <1>2, <1>3
    <3> QED BY <1>2, <1>3, <2>2, <3>4, <3>5
  <2>5. \A g \in Numbers : Dist(g) \in Nat /\ Dist(g) >= 1
    BY <1>3, <1>5 DEF Spaced, Dist
  <2>6. \A g, h \in Numbers : g < h => Dist(g)' > Dist(h)'
    BY <1>3, <1>5, <2>3, <2>5 DEF Spaced
  <2>7. \A g \in Numbers : g < f /\ Dist(g)' > Dist(f)'
    BY <1>2, <2>3, <2>4, <2>5
  <2>8. \A g, h \in Numbers' : g < h => Dist(g)' > Dist(h)'
    BY <1>2, <2>6, <2>7
  <2>9. \A g \in Numbers' : /\ Dist(g)' >= 1
                            /\ MaxFrames * Dist(g)' <= (Len(sent') - g + 1) * (TsMod - 1)
    BY <1>2, <2>3, <2>4, <2>5
  <2>10. link'.tsinc = 1
    BY <1>2, <1>5
  <2> QED BY <2>8, <2>9, <2>10 DEF Spaced
<1> QED BY <1>3, <1>4, <1>5

\* No two frames of video have the same timestamp.
LEMMA OwnTimestamp ==
    ASSUME TypeOK, Spaced, link.tsinc = 1, NEW f \in Numbers, NEW g \in Numbers,
           sent[f].base = sent[g].base
    PROVE  f = g
<1>1. f \in Nat /\ g \in Nat
  BY SentTypes
<1>2. Dist(f) = Dist(g) /\ Dist(f) \in Int
  BY SentTypes DEF Dist, Timestamps
<1>3. ~(f < g) /\ ~(g < f)
  BY <1>2 DEF Spaced
<1> QED BY <1>1, <1>3

-----------------------------------------------------------------------------
\* What a packet of an encoded frame does to fec_map: it ends at the frame that is
\* delivered, or it has one block more, or none.
Entry == [size : FrameSizes, got : SUBSET Blocks]

Codec(ts, f) == IF ts \in DOMAIN fec THEN fec[ts] ELSE [size |-> sent[f].size, got |-> {}]

Gathered(ts, f, pos) ==
    IF pos \in Ids(Codec(ts, f).got) THEN Codec(ts, f).got
    ELSE Codec(ts, f).got \cup {<<f, pos>>}

FecFrame(ts, f, codec, got) ==
    [mode |-> "fec", pts |-> ts, size |-> sent[f].size, blocks |-> got, copied |-> codec.size]

Delivers(ts, f, codec, got) ==
    /\ Cardinality(got) - SrcNb(codec.size) >= 0
    /\ Pushed(f, FecFrame(ts, f, codec, got))
    /\ DOMAIN fec' = {k \in DOMAIN fec : k > ts}
    /\ \A k \in DOMAIN fec' : fec'[k] = fec[k]

Holds(ts, codec, got) ==
    /\ Cardinality(got) - SrcNb(codec.size) < Overhead
    /\ out' = out /\ failed' = failed
    /\ DOMAIN fec' = DOMAIN fec \cup {ts}
    /\ fec'[ts] = [size |-> codec.size, got |-> got]
    /\ \A k \in DOMAIN fec \ {ts} : fec'[k] = fec[k]

Fails(ts, f) ==
    /\ out' = out /\ failed' = failed \cup {f}
    /\ DOMAIN fec' = DOMAIN fec \ {ts}
    /\ \A k \in DOMAIN fec' : fec'[k] = fec[k]

\* The same of nofec_map.
RawEntry == [count : Nat, slots : SUBSET Blocks, n : Nat, last : Int]

RawOld(ts, f) ==
    IF ts \in DOMAIN raw THEN raw[ts]
    ELSE [count |-> 0, slots |-> {}, n |-> SrcNb(sent[f].size),
          last |-> Symbol - FillSize(sent[f].size)]

RawNew(ts, f, pos) ==
    [RawOld(ts, f) EXCEPT !.count = @ + 1,
                          !.slots = {b \in @ : b[2] # pos} \cup {<<f, pos>>}]

RawFrame(ts, f, new) ==
    [mode |-> "raw", pts |-> ts, size |-> sent[f].size, blocks |-> new.slots,
     copied |-> (new.n - 1) * Symbol + new.last]

RawDelivers(ts, f, new) ==
    /\ new.count = SrcNb(sent[f].size) /\ new.last >= 0 /\ new.n - 1 >= 0
    /\ Pushed(f, RawFrame(ts, f, new))
    /\ DOMAIN raw' = {k \in DOMAIN raw : k > ts}
    /\ \A k \in DOMAIN raw' : raw'[k] = raw[k]

RawHolds(ts, new) ==
    /\ out' = out /\ failed' = failed
    /\ DOMAIN raw' = DOMAIN raw \cup {ts}
    /\ raw'[ts] = new
    /\ \A k \in DOMAIN raw \ {ts} : raw'[k] = raw[k]

RawBreaks == out' = out /\ failed' = failed /\ raw' = raw

-----------------------------------------------------------------------------
\* begin() of a map is its first key.
LEMMA MinOf ==
    ASSUME NEW S \in SUBSET Int, NEW x \in S, \A y \in S : x <= y
    PROVE  Min(S) = x
<1>1. \A z \in S : (\A y \in S : z <= y) => z = x
  OBVIOUS
<1> QED BY <1>1 DEF Min

\* get_correct_timestamp returns a timestamp.
LEMMA BaseInRange ==
    ASSUME TypeOK, NEW f \in Numbers, NEW pos \in Nat
    PROVE  BaseTs(Timestamp(f, pos), pos) \in Timestamps
<1>1. sent[f].base \in Int /\ link.tsinc \in {0, 1} /\ TsMod \in Nat \ {0}
  BY SentTypes DEF Timestamps
<1>2. sent[f].base + pos * link.tsinc \in Int
  BY <1>1
<1>3. Timestamp(f, pos) \in Int
  BY <1>1, <1>2 DEF Timestamp
<1>4. Timestamp(f, pos) - pos \in Int
  BY <1>3
<1>5. \A a \in Int : a % TsMod \in 0..(TsMod - 1)
  BY <1>1
<1> QED BY <1>4, <1>5 DEF BaseTs, Timestamps

\* PopFec ends in one of those three ways.
LEMMA FecResult ==
    ASSUME TypeOK, NEW f \in Numbers, NEW pos \in Nat, PopFec(f, pos)
    PROVE  LET ts == BaseTs(Timestamp(f, pos), pos)
               codec == Codec(ts, f)
               got == Gathered(ts, f, pos)
           IN  /\ ts \in Timestamps /\ codec \in Entry /\ got \in SUBSET Blocks
               /\ DOMAIN fec' \subseteq Timestamps /\ fec' \in [DOMAIN fec' -> Entry]
               /\ Delivers(ts, f, codec, got) \/ Holds(ts, codec, got) \/ Fails(ts, f)
               /\ UNCHANGED <<raw, broken>>
<1> DEFINE ts == BaseTs(Timestamp(f, pos), pos)
           codec == Codec(ts, f)
           got == Gathered(ts, f, pos)
           held == With(fec, ts, [codec EXCEPT !.got = got])
           deliver == /\ Cardinality(got) - SrcNb(codec.size) >= 0
                      /\ PushFec(EraseBefore(held, ts), f)
           hold == /\ Cardinality(got) - SrcNb(codec.size) < Overhead
                   /\ fec' = held /\ UNCHANGED <<out, failed>>
           fail == /\ fec' = Without(fec, {ts})
                   /\ failed' = failed \cup {f} /\ UNCHANGED out
<1>1. (deliver \/ hold \/ fail) /\ UNCHANGED <<raw, broken>>
  BY DEF PopFec, Codec, Gathered
<1>2. ts \in Timestamps
  BY BaseInRange
<1> HIDE DEF ts
<1>3. codec \in Entry
  BY SentTypes DEF Codec, TypeOK, Entry
<1>4. got \in SUBSET Blocks
  BY <1>3 DEF Gathered, Entry, Blocks
<1> HIDE DEF codec, got
<1>5. [codec EXCEPT !.got = got] = [size |-> codec.size, got |-> got]
      /\ [size |-> codec.size, got |-> got] \in Entry
  BY <1>3, <1>4 DEF Entry
<1>6. /\ DOMAIN held = DOMAIN fec \cup {ts} /\ held[ts] = [size |-> codec.size, got |-> got]
      /\ \A k \in DOMAIN fec \ {ts} : held[k] = fec[k]
      /\ held \in [DOMAIN held -> Entry]
  BY <1>5 DEF With, TypeOK, Entry
<1>7. DOMAIN held \subseteq Timestamps
  BY <1>2, <1>6 DEF TypeOK
<1> HIDE DEF held
<1>8. CASE deliver
  <2> DEFINE m == EraseBefore(held, ts)
  <2>1. /\ DOMAIN m = {k \in DOMAIN held : k >= ts}
        /\ \A k \in DOMAIN m : m[k] = held[k]
    BY <1>2, <1>7 DEF EraseBefore, Without, Timestamps
  <2>2. ts \in DOMAIN m /\ DOMAIN m \in SUBSET Int /\ \A k \in DOMAIN m : ts <= k
    BY <1>2, <1>6, <1>7, <2>1 DEF Timestamps
  <2> HIDE DEF m
  <2>3. Min(DOMAIN m) = ts
    BY <2>2, MinOf
  <2>4. /\ Pushed(f, [mode |-> "fec", pts |-> ts, size |-> sent[f].size,
                        blocks |-> m[ts].got, copied |-> m[ts].size])
        /\ fec' = Without(m, {ts})
    BY <1>8, <2>3 DEF PushFec, m
  <2>5. m[ts].got = got /\ m[ts].size = codec.size
    BY <1>6, <2>1, <2>2
  <2>6. /\ DOMAIN fec' = {k \in DOMAIN fec : k > ts}
        /\ \A k \in DOMAIN fec' : fec'[k] = fec[k]
    <3>1. DOMAIN fec' = DOMAIN m \ {ts} /\ \A k \in DOMAIN fec' : fec'[k] = m[k]
      BY <2>4 DEF Without
    <3>2. \A k \in Timestamps : k >= ts /\ k # ts <=> k > ts
      BY <1>2 DEF Timestamps
    <3> QED BY <1>6, <1>7, <2>1, <3>1, <3>2
  <2>7. fec' \in [DOMAIN fec' -> Entry]
    <3>1. fec' = [k \in DOMAIN m \ {ts} |-> m[k]]
      BY <2>4 DEF Without
    <3>2. \A k \in DOMAIN fec' : fec'[k] \in Entry
      BY <2>6 DEF TypeOK, Entry
    <3> QED BY <3>1, <3>2
  <2>8. DOMAIN fec' \subseteq Timestamps
    BY <2>6 DEF TypeOK
  <2>9. Pushed(f, FecFrame(ts, f, codec, got))
    BY <2>4, <2>5 DEF FecFrame
  <2> QED BY <1>1, <1>2, <1>3, <1>4, <1>8, <2>6, <2>7, <2>8, <2>9
          DEF Delivers, ts, codec, got
<1>9. CASE hold
  BY <1>1, <1>2, <1>3, <1>4, <1>6, <1>7, <1>9 DEF Holds, ts, codec, got
<1>10. CASE fail
  <2>1. /\ DOMAIN fec' = DOMAIN fec \ {ts}
        /\ \A k \in DOMAIN fec' : fec'[k] = fec[k]
        /\ fec' \in [DOMAIN fec' -> Entry] /\ DOMAIN fec' \subseteq Timestamps
    BY <1>10 DEF Without, TypeOK, Entry
  <2> QED BY <1>1, <1>2, <1>3, <1>4, <1>10, <2>1 DEF Fails, ts, codec, got
<1> QED BY <1>1, <1>8, <1>9, <1>10

\* PopRaw ends in one of those three ways.
LEMMA RawResult ==
    ASSUME TypeOK, NEW f \in Numbers, NEW pos \in Nat, PopRaw(f, pos)
    PROVE  LET ts == BaseTs(Timestamp(f, pos), pos)
               new == RawNew(ts, f, pos)
           IN  /\ ts \in Timestamps /\ new \in RawEntry
               /\ DOMAIN raw' \subseteq Timestamps /\ raw' \in [DOMAIN raw' -> RawEntry]
               /\ RawDelivers(ts, f, new) \/ RawHolds(ts, new) \/ RawBreaks
               /\ fec' = fec /\ broken' \in BOOLEAN
<1> DEFINE ts == BaseTs(Timestamp(f, pos), pos)
           n == SrcNb(sent[f].size)
           old == RawOld(ts, f)
           new == RawNew(ts, f, pos)
           deliver == /\ pos < old.n /\ new.count = n /\ new.last >= 0
                      /\ Pushed(f, RawFrame(ts, f, new))
                      /\ raw' = Without(EraseBefore(raw, ts), {ts})
                      /\ UNCHANGED broken
           break == broken' = TRUE /\ UNCHANGED <<raw, out, failed>>
           hold == /\ raw' = With(raw, ts, new)
                   /\ broken' = (pos >= old.n)
                   /\ UNCHANGED <<out, failed>>
<1>1. (deliver \/ break \/ hold) /\ fec' = fec
  BY DEF PopRaw, RawOld, RawNew, RawFrame, Collected
<1>2. ts \in Timestamps
  BY BaseInRange
<1> HIDE DEF ts
<1>3. old \in RawEntry
  <2>1. sent[f].size \in FrameSizes
    BY SentTypes
  <2>2. n \in Nat /\ Symbol - FillSize(sent[f].size) \in Int
    BY <2>1, SrcNbPositive DEF FillSize
  <2> HIDE DEF n
  <2> QED BY <2>2 DEF RawOld, TypeOK, RawEntry, n
<1>4. new \in RawEntry
  <2> DEFINE slots == {b \in old.slots : b[2] # pos} \cup {<<f, pos>>}
  <2>1. slots \in SUBSET Blocks
    BY <1>3 DEF RawEntry, Blocks
  <2>2. new = [old EXCEPT !.count = old.count + 1, !.slots = slots]
    BY DEF RawNew
  <2> HIDE DEF old, new, slots
  <2>3. old.count + 1 \in Nat
    BY <1>3 DEF RawEntry
  <2>4. new = [count |-> old.count + 1, slots |-> slots, n |-> old.n, last |-> old.last]
    BY <1>3, <2>2 DEF RawEntry
  <2> QED BY <1>3, <2>1, <2>3, <2>4 DEF RawEntry
<1>7. new.n = old.n
  <2> HIDE DEF old
  <2> QED BY <1>3 DEF RawNew, RawEntry, old
<1> HIDE DEF old, new, n
<1>5. CASE deliver
  <2>1. raw' = Without(EraseBefore(raw, ts), {ts})
    BY <1>5
  <2>2. DOMAIN raw \subseteq Timestamps
    BY DEF TypeOK
  <2>3. \A k \in Timestamps : ~(k < ts) /\ k # ts <=> k > ts
    BY <1>2 DEF Timestamps
  <2>4. /\ DOMAIN raw' = {k \in DOMAIN raw : k > ts}
        /\ \A k \in DOMAIN raw' : raw'[k] = raw[k]
        /\ raw' = [k \in DOMAIN raw' |-> raw'[k]]
    BY <2>1, <2>2, <2>3 DEF EraseBefore, Without
  <2>5. \A k \in DOMAIN raw' : raw'[k] \in RawEntry
    BY <2>4 DEF TypeOK, RawEntry
  <2>6. raw' \in [DOMAIN raw' -> RawEntry] /\ DOMAIN raw' \subseteq Timestamps
    BY <2>2, <2>4, <2>5
  <2>7. broken' \in BOOLEAN
    BY <1>5 DEF TypeOK
  <2>8. new.n - 1 >= 0
    BY <1>3, <1>5, <1>7 DEF RawEntry
  <2> QED BY <1>1, <1>2, <1>4, <1>5, <2>4, <2>6, <2>7, <2>8 DEF RawDelivers, ts, new, n
<1>6. CASE hold
  <2>1. raw' = With(raw, ts, new) /\ out' = out /\ failed' = failed
    BY <1>6
  <2>2. /\ DOMAIN raw' = DOMAIN raw \cup {ts} /\ raw'[ts] = new
        /\ \A k \in DOMAIN raw \ {ts} : raw'[k] = raw[k]
        /\ raw' \in [DOMAIN raw' -> RawEntry]
    BY <1>4, <2>1 DEF With, TypeOK, RawEntry
  <2>3. broken' \in BOOLEAN
    <3>1. broken' = (pos >= old.n)
      BY <1>6
    <3>2. (pos >= old.n) \in BOOLEAN
      OBVIOUS
    <3> QED BY <3>1, <3>2, Zenon
  <2>4. DOMAIN raw' \subseteq Timestamps
    BY <1>2, <2>2 DEF TypeOK
  <2> QED BY <1>1, <1>2, <1>4, <2>1, <2>2, <2>3, <2>4 DEF RawHolds, ts, new
<1>8. CASE break
  BY <1>1, <1>2, <1>4, <1>8 DEF RawBreaks, TypeOK, RawEntry, ts, new
<1> QED BY <1>1, <1>5, <1>6, <1>8

-----------------------------------------------------------------------------
\* What every packet changes.
Arrives(f, pos) ==
    /\ f \in Numbers /\ pos \in Nat /\ pos \in Packets(f)
    /\ DealWithPacket(f, pos)
    /\ arrived' \in [Numbers -> Nat] /\ arrived'[f] = arrived[f] + 1
    /\ \A g \in Numbers \ {f} : arrived'[g] = arrived[g]
    /\ net' \subseteq net /\ \E p \in net : p.frame = f /\ p.pos = pos
    /\ link.copies = 1 => \A q \in net' : <<q.frame, q.pos>> # <<f, pos>>
    /\ ~link.reorder => \A q \in net' : q.frame >= f
    /\ UNCHANGED <<link, clock, sent>>

\* Receive with its packet named.
LEMMA ReceiveFacts ==
    ASSUME TypeOK, Receive
    PROVE  \E f \in Numbers, pos \in Nat : Arrives(f, pos)
<1>1. PICK p \in net : /\ DealWithPacket(p.frame, p.pos)
                       /\ arrived' = [arrived EXCEPT ![p.frame] = @ + 1]
                       /\ net' = {q \in net : q # p /\ (link.reorder \/ ~Earlier(q, p))}
  BY DEF Receive
<1>2. \A q \in net : q \in [frame : Numbers, pos : Nat, copy : 1..link.copies]
                     /\ q.pos \in Packets(q.frame)
  BY DEF TypeOK
<1>3. p.frame \in Numbers /\ p.pos \in Nat /\ p.pos \in Packets(p.frame)
  BY <1>2
<1>4. /\ arrived' \in [Numbers -> Nat] /\ arrived'[p.frame] = arrived[p.frame] + 1
      /\ \A g \in Numbers \ {p.frame} : arrived'[g] = arrived[g]
  BY <1>1, <1>3 DEF TypeOK
<1>5. net' \subseteq net /\ UNCHANGED <<link, clock, sent>>
  BY <1>1 DEF Receive
<1>6. ASSUME link.copies = 1, NEW q \in net', <<q.frame, q.pos>> = <<p.frame, p.pos>>
      PROVE  FALSE
  <2>1. q.copy = 1 /\ p.copy = 1
    BY <1>2, <1>5, <1>6
  <2>2. q = [frame |-> q.frame, pos |-> q.pos, copy |-> q.copy]
        /\ p = [frame |-> p.frame, pos |-> p.pos, copy |-> p.copy]
    BY <1>2, <1>5
  <2>3. q = p
    BY <1>6, <2>1, <2>2
  <2> QED BY <1>1, <2>3
<1>7. ASSUME ~link.reorder, NEW q \in net'
      PROVE  q.frame >= p.frame
  <2>1. q.frame \in Numbers /\ q.frame \in Int /\ p.frame \in Int
    BY <1>2, <1>3, <1>5, SentTypes
  <2>2. ~Earlier(q, p)
    BY <1>1, <1>7
  <2> QED BY <2>1, <2>2 DEF Earlier
<1>8. Arrives(p.frame, p.pos)
  BY <1>1, <1>3, <1>4, <1>5, <1>6, <1>7 DEF Arrives
<1> QED BY <1>3, <1>8

\* Entries before the frame's are erased, and perhaps its own.
Shrinks(m, n) == DOMAIN n \subseteq DOMAIN m /\ \A k \in DOMAIN n : n[k] = m[k]

Single(f, pos) == [mode |-> "single", pts |-> BaseTs(Timestamp(f, pos), pos),
                   size |-> sent[f].size, blocks |-> {<<f, pos>>},
                   copied |-> sent[f].size]

\* PopSingle delivers and erases.
LEMMA SingleResult ==
    ASSUME TypeOK, NEW f \in Numbers, NEW pos \in Nat, PopSingle(f, pos)
    PROVE  /\ BaseTs(Timestamp(f, pos), pos) \in Timestamps
           /\ Shrinks(raw, raw') /\ raw' \in [DOMAIN raw' -> RawEntry]
           /\ Pushed(f, Single(f, pos))
           /\ UNCHANGED <<fec, broken>>
<1>1. BaseTs(Timestamp(f, pos), pos) \in Timestamps
  BY BaseInRange
<1>2. Shrinks(raw, raw') /\ raw' \in [DOMAIN raw' -> RawEntry]
  BY DEF PopSingle, EraseBefore, Without, TypeOK, Shrinks, RawEntry
<1> QED BY <1>1, <1>2 DEF PopSingle, Single

\* The four things a packet may do.
LEMMA Outcome ==
    ASSUME TypeOK, FrameSent, NEW f \in Numbers, NEW pos \in Nat, DealWithPacket(f, pos)
    PROVE  \/ sent[f].mode # "fec" /\ UNCHANGED <<fec, raw, out, failed, broken>>
           \/ sent[f].mode = "fec" /\ SrcNb(sent[f].size) >= 2 /\ PopFec(f, pos)
           \/ sent[f].mode # "fec" /\ SrcNb(sent[f].size) = 1 /\ sent[f].count = 1
              /\ PopSingle(f, pos)
           \/ sent[f].mode = "raw" /\ SrcNb(sent[f].size) > 1
              /\ sent[f].count = SrcNb(sent[f].size) /\ PopRaw(f, pos)
<1>1. /\ sent[f].size \in FrameSizes /\ sent[f].mode \in Modes(sent[f].size)
      /\ \E key \in BOOLEAN : sent[f].count = PacketCount(sent[f].size, key, sent[f].mode)
  BY SentTypes DEF FrameSent
<1>2. /\ sent[f].mode \in {"single", "fec", "raw"}
      /\ sent[f].mode = "fec" => SrcNb(sent[f].size) >= 2
      /\ sent[f].mode = "raw" => sent[f].count = SrcNb(sent[f].size)
      /\ sent[f].mode = "single" => SrcNb(sent[f].size) = 1 /\ sent[f].count = 1
  BY <1>1, CountPositive
<1>3. PayloadLength(f, pos) = 0 => sent[f].mode # "fec"
  BY SizeAssumption DEF PayloadLength
<1> QED BY <1>2, <1>3 DEF DealWithPacket

\* The decoder's queue, after one frame more.
LEMMA AppendOutput ==
    ASSUME TypeOK, NEW x \in Outputs, out' = Append(out, x)
    PROVE  /\ out' \in Seq(Outputs) /\ Len(out) \in Nat
           /\ DOMAIN out = 1..Len(out) /\ DOMAIN out' = DOMAIN out \cup {Len(out) + 1}
           /\ Len(out) + 1 \notin DOMAIN out
           /\ out'[Len(out) + 1] = x /\ \A i \in DOMAIN out : out'[i] = out[i]
<1>1. out \in Seq(Outputs)
  BY DEF TypeOK
<1> HIDE DEF Outputs
<1> QED BY <1>1

\* The kinds of frame in it.
LEMMA OutputTypes ==
    ASSUME NEW ts \in Timestamps, NEW size \in FrameSizes, NEW b \in SUBSET Blocks, NEW c \in Nat
    PROVE  /\ [mode |-> "fec", pts |-> ts, size |-> size, blocks |-> b, copied |-> c] \in Outputs
           /\ [mode |-> "single", pts |-> ts, size |-> size, blocks |-> b, copied |-> c] \in Outputs
           /\ [mode |-> "raw", pts |-> ts, size |-> size, blocks |-> b, copied |-> c] \in Outputs
BY DEF Outputs

\* What PopSingle,
LEMMA SingleType ==
    ASSUME TypeOK, NEW f \in Numbers, NEW pos \in Nat,
           BaseTs(Timestamp(f, pos), pos) \in Timestamps
    PROVE  Single(f, pos) \in Outputs
<1>1. {<<f, pos>>} \in SUBSET Blocks
  BY DEF Blocks
<1>2. sent[f].size \in FrameSizes /\ sent[f].size \in Nat
  BY SentTypes, SizeAssumption
<1> QED BY <1>1, <1>2, OutputTypes DEF Single

\* PopFec
LEMMA FecFrameType ==
    ASSUME TypeOK, NEW f \in Numbers, NEW ts \in Timestamps, NEW codec \in Entry,
           NEW got \in SUBSET Blocks
    PROVE  FecFrame(ts, f, codec, got) \in Outputs
<1>1. codec.size \in Nat /\ sent[f].size \in FrameSizes
  BY SentTypes, SizeAssumption DEF Entry
<1> QED BY <1>1, OutputTypes DEF FecFrame

\* and PopRaw put there.
LEMMA RawFrameType ==
    ASSUME TypeOK, NEW f \in Numbers, NEW ts \in Timestamps, NEW new \in RawEntry,
           new.last >= 0, new.n - 1 >= 0
    PROVE  RawFrame(ts, f, new) \in Outputs
<1>1. new.n - 1 \in Nat /\ new.last \in Nat /\ Symbol \in Nat
      /\ new.slots \in SUBSET Blocks /\ sent[f].size \in FrameSizes
  BY SentTypes, SizeAssumption DEF RawEntry
<1> DEFINE m == new.n - 1
           c == m * Symbol + new.last
<1>2. m * Symbol \in Nat
  BY <1>1
<1>3. c \in Nat
  BY <1>1, <1>2
<1> HIDE DEF c
<1>4. [mode |-> "raw", pts |-> ts, size |-> sent[f].size, blocks |-> new.slots,
       copied |-> c] \in Outputs
  BY <1>1, <1>3, OutputTypes
<1> QED BY <1>4 DEF RawFrame, c, m

\* The frame is put there, or a packet without one.
LEMMA PushedOutput ==
    ASSUME TypeOK, NEW f \in Numbers, NEW x \in Outputs, Pushed(f, x)
    PROVE  /\ \E y \in Outputs : /\ out' = Append(out, y)
                                  /\ \/ y = x /\ failed' = failed
                                     \/ y = Lost /\ failed' = failed \cup {f}
           /\ out' \in Seq(Outputs) /\ failed' \in SUBSET Numbers
<1>1. Lost \in Outputs
  BY DEF Lost, Outputs
<1>2. failed \in SUBSET Numbers
  BY DEF TypeOK
<1>3. \E y \in Outputs : /\ out' = Append(out, y)
                          /\ \/ y = x /\ failed' = failed
                             \/ y = Lost /\ failed' = failed \cup {f}
  BY <1>1 DEF Pushed
<1>4. out' \in Seq(Outputs)
  BY <1>3, AppendOutput
<1> QED BY <1>2, <1>3, <1>4

\* The receiver's step keeps the types.
LEMMA ReceiveType ==
    ASSUME TypeOK, FrameSent, Receive
    PROVE  TypeOK' /\ FrameSent'
<1>2. PICK f \in Numbers, pos \in Nat : Arrives(f, pos)
  BY ReceiveFacts
<1>3. UNCHANGED <<link, clock, sent>> /\ Numbers' = Numbers /\ Blocks' = Blocks
      /\ Outputs' = Outputs /\ net' \subseteq net /\ \A g : Packets(g)' = Packets(g)
  BY <1>2 DEF Arrives, Numbers, Packets, Blocks, Outputs
<1>4. FrameSent'
  BY <1>3 DEF FrameSent
<1>5. DealWithPacket(f, pos) /\ sent[f].size \in FrameSizes
  BY <1>2, SentTypes DEF Arrives
<1>6. /\ out' \in Seq(Outputs) /\ failed' \in SUBSET Numbers /\ broken' \in BOOLEAN
      /\ DOMAIN fec' \subseteq Timestamps /\ fec' \in [DOMAIN fec' -> Entry]
      /\ DOMAIN raw' \subseteq Timestamps /\ raw' \in [DOMAIN raw' -> RawEntry]
  <2>0. /\ out \in Seq(Outputs) /\ failed \in SUBSET Numbers /\ broken \in BOOLEAN
        /\ DOMAIN fec \subseteq Timestamps /\ fec \in [DOMAIN fec -> Entry]
        /\ DOMAIN raw \subseteq Timestamps /\ raw \in [DOMAIN raw -> RawEntry]
    BY DEF TypeOK, Entry, RawEntry
  <2>1. CASE UNCHANGED <<fec, raw, out, failed, broken>>
    BY <2>0, <2>1
  <2>2. CASE PopFec(f, pos)
    <3> DEFINE ts == BaseTs(Timestamp(f, pos), pos)
               codec == Codec(ts, f)
               got == Gathered(ts, f, pos)
    <3>1. /\ ts \in Timestamps /\ codec \in Entry /\ got \in SUBSET Blocks
          /\ DOMAIN fec' \subseteq Timestamps /\ fec' \in [DOMAIN fec' -> Entry]
          /\ Delivers(ts, f, codec, got) \/ Holds(ts, codec, got) \/ Fails(ts, f)
          /\ UNCHANGED <<raw, broken>>
      BY <2>2, FecResult
    <3> HIDE DEF ts, codec, got
    <3>2. CASE Holds(ts, codec, got) \/ Fails(ts, f)
      BY <2>0, <3>1, <3>2 DEF Holds, Fails
    <3>3. CASE Delivers(ts, f, codec, got)
      <4> DEFINE x == FecFrame(ts, f, codec, got)
      <4>1. x \in Outputs
        BY <3>1, FecFrameType
      <4> HIDE DEF x
      <4>2. Pushed(f, x)
        BY <3>3 DEF Delivers, x
      <4> QED BY <2>0, <3>1, <4>1, <4>2, PushedOutput
    <3> QED BY <3>1, <3>2, <3>3
  <2>3. CASE PopSingle(f, pos)
    <3>1. /\ BaseTs(Timestamp(f, pos), pos) \in Timestamps
          /\ Shrinks(raw, raw') /\ raw' \in [DOMAIN raw' -> RawEntry]
          /\ Pushed(f, Single(f, pos))
          /\ UNCHANGED <<fec, broken>>
      BY <2>3, SingleResult
    <3>2. Single(f, pos) \in Outputs
      BY <3>1, SingleType
    <3> QED BY <2>0, <3>1, <3>2, PushedOutput DEF Shrinks
  <2>4. CASE PopRaw(f, pos)
    <3> DEFINE ts == BaseTs(Timestamp(f, pos), pos)
               new == RawNew(ts, f, pos)
    <3>1. /\ ts \in Timestamps /\ new \in RawEntry
          /\ DOMAIN raw' \subseteq Timestamps /\ raw' \in [DOMAIN raw' -> RawEntry]
          /\ RawDelivers(ts, f, new) \/ RawHolds(ts, new) \/ RawBreaks
          /\ fec' = fec /\ broken' \in BOOLEAN
      BY <2>4, RawResult
    <3> HIDE DEF ts, new
    <3>2. CASE RawHolds(ts, new) \/ RawBreaks
      BY <2>0, <3>1, <3>2 DEF RawHolds, RawBreaks
    <3>3. CASE RawDelivers(ts, f, new)
      <4> DEFINE x == RawFrame(ts, f, new)
      <4>1. x \in Outputs
        BY <3>1, <3>3, RawFrameType DEF RawDelivers
      <4> HIDE DEF x
      <4>2. Pushed(f, x)
        BY <3>3 DEF RawDelivers, x
      <4> QED BY <2>0, <3>1, <4>1, <4>2, PushedOutput
    <3> QED BY <3>1, <3>2, <3>3
  <2> QED BY <1>5, <2>1, <2>2, <2>3, <2>4, Outcome
<1>7. arrived' \in [Numbers -> Nat]
  BY <1>2 DEF Arrives
<1>8. net' \subseteq [frame : Numbers', pos : Nat, copy : 1..link'.copies]
      /\ \A q \in net' : q.pos \in Packets(q.frame)'
  BY <1>3 DEF TypeOK
<1> HIDE DEF Numbers
<1>9. /\ fec' \in [DOMAIN fec' -> [size : FrameSizes, got : SUBSET Blocks']]
      /\ raw' \in [DOMAIN raw' -> [count : Nat, slots : SUBSET Blocks', n : Nat, last : Int]]
      /\ out' \in Seq(Outputs') /\ arrived' \in [Numbers' -> Nat]
      /\ failed' \subseteq Numbers'
  BY <1>3, <1>6, <1>7 DEF Entry, RawEntry
<1>10. /\ link' \in Links /\ clock' \in Timestamps
       /\ sent' \in Seq([size : FrameSizes, mode : {"single", "fec", "raw"},
                         base : Timestamps, count : Nat \ {0}])
  BY <1>3 DEF TypeOK
<1> QED BY <1>4, <1>6, <1>8, <1>9, <1>10 DEF TypeOK

\* The types hold at the start.
LEMMA FecInit ==
    ASSUME Init
    PROVE  TypeOK /\ FrameSent
<1>1. link \in Links /\ clock \in Timestamps
  BY SizeAssumption DEF Init, Timestamps
<1>2. sent = <<>> /\ Len(sent) = 0 /\ Numbers = {} /\ net = {} /\ arrived = <<>> /\ out = <<>>
      /\ fec = <<>> /\ raw = <<>> /\ failed = {} /\ broken = FALSE /\ DOMAIN fec = {} /\ DOMAIN raw = {}
  BY DEF Init, Numbers
<1>3. fec \in [DOMAIN fec -> Entry] /\ raw \in [DOMAIN raw -> RawEntry]
      /\ arrived \in [Numbers -> Nat]
  BY <1>2
<1>4. sent \in Seq(Frames) /\ out \in Seq(Outputs)
  BY <1>2
<1>5. FrameSent
  BY <1>2, SizeAssumption DEF FrameSent
<1> QED BY <1>1, <1>2, <1>3, <1>4, <1>5 DEF TypeOK, Frames, Entry, RawEntry

\* The type invariant, with what send_packet has chosen, is inductive.
LEMMA FecInductive == Spec => [](TypeOK /\ FrameSent)
<1>1. Init => TypeOK /\ FrameSent
  BY FecInit
<1>2. TypeOK /\ FrameSent /\ [Next]_vars => (TypeOK /\ FrameSent)'
  <2>1. ASSUME TypeOK, FrameSent, UNCHANGED vars
        PROVE  TypeOK' /\ FrameSent'
    BY <2>1 DEF TypeOK, FrameSent, vars, Numbers, Packets, Timestamps, Blocks, Outputs
  <2> QED BY <2>1, SendType, ReceiveType DEF Next
<1> QED BY <1>1, <1>2, PTL DEF Spec

\* The state of the sender, the network and the receiver has its types whatever
\* the network does with the packets (send_packet, deal_with_packet).
THEOREM TypeCorrect == Spec => []TypeOK
BY FecInductive, PTL

-----------------------------------------------------------------------------
\* No frame has as many packets as there are timestamps.
LEMMA FewCounts ==
    ASSUME FewPackets, TypeOK, FrameSent, NEW f \in Numbers
    PROVE  sent[f].count < TsMod
<1>1. PICK key \in BOOLEAN : sent[f].count = PacketCount(sent[f].size, key, sent[f].mode)
  BY DEF FrameSent
<1>2. MaxFrames * sent[f].count < TsMod
  BY <1>1, SentTypes DEF FewPackets, FrameSent
<1>3. sent[f].count \in Nat \ {0} /\ MaxFrames \in Nat \ {0} /\ TsMod \in Nat
  BY SentTypes, SizeAssumption DEF FrameSent
<1>4. MaxFrames * sent[f].count >= sent[f].count
  BY <1>3
<1>5. MaxFrames * sent[f].count \in Nat
  BY <1>3
<1> QED BY <1>2, <1>3, <1>4, <1>5

\* The base timestamp that get_correct_timestamp finds.
LEMMA VideoBase ==
    ASSUME FewPackets, TypeOK, FrameSent, link.tsinc = 1,
           NEW f \in Numbers, NEW pos \in Packets(f)
    PROVE  BaseTs(Timestamp(f, pos), pos) = sent[f].base
<1>1. sent[f].count < TsMod /\ sent[f].count \in Nat \ {0}
  BY FewCounts, SentTypes
<1>2. pos \in Nat /\ pos < TsMod
  BY <1>1, SizeAssumption DEF Packets
<1>3. TsMod \in Nat \ {0} /\ sent[f].base \in 0..(TsMod - 1)
  BY SentTypes DEF Timestamps
<1> DEFINE b == sent[f].base
<1>4. BaseTs(Timestamp(f, pos), pos) = (((b + pos) % TsMod) - pos) % TsMod
  BY <1>2, <1>3 DEF BaseTs, Timestamp
<1> HIDE DEF b
<1>5. b \in 0..(TsMod - 1)
  BY <1>3 DEF b
<1>6. CASE b + pos < TsMod
  BY <1>2, <1>3, <1>4, <1>5, <1>6 DEF b
<1>7. CASE b + pos >= TsMod
  <2>1. (b + pos) % TsMod = b + pos - TsMod
    BY <1>2, <1>3, <1>5, <1>7
  <2>2. (b - TsMod) % TsMod = b
    BY <1>3, <1>5
  <2> QED BY <1>2, <1>3, <1>4, <1>5, <2>1, <2>2 DEF b
<1> QED BY <1>2, <1>3, <1>5, <1>6, <1>7

\* For audio it finds another for each position but the first.
LEMMA AudioBase ==
    ASSUME FewPackets, TypeOK, FrameSent, Spaced, link.tsinc = 0,
           NEW f \in Numbers, NEW pos \in Packets(f)
    PROVE  /\ pos \in Timestamps
           /\ BaseTs(Timestamp(f, pos), pos) = (clock - pos) % TsMod
           /\ pos = 0 => BaseTs(Timestamp(f, pos), pos) = sent[f].base
<1>1. sent[f].count < TsMod /\ sent[f].count \in Nat \ {0}
  BY FewCounts, SentTypes
<1>2. pos \in Nat /\ pos < TsMod
  BY <1>1, SizeAssumption DEF Packets
<1>3. TsMod \in Nat \ {0} /\ sent[f].base \in 0..(TsMod - 1) /\ sent[f].base = clock
  BY SentTypes DEF Timestamps, Spaced
<1>4. Timestamp(f, pos) = clock
  BY <1>2, <1>3 DEF Timestamp
<1> QED BY <1>2, <1>3, <1>4 DEF BaseTs, Timestamps

\* Different positions have different ones.
LEMMA SamePosition ==
    ASSUME NEW m \in Nat \ {0}, NEW c \in 0..(m - 1), NEW p \in 0..(m - 1), NEW q \in 0..(m - 1),
           (c - p) % m = (c - q) % m
    PROVE  p = q
<1>1. (c - p) % m = IF c - p < 0 THEN c - p + m ELSE c - p
  OBVIOUS
<1>2. (c - q) % m = IF c - q < 0 THEN c - q + m ELSE c - q
  OBVIOUS
<1> QED BY <1>1, <1>2

-----------------------------------------------------------------------------
\* The entry of a frame's timestamp, before and after its block.
LEMMA VideoGathers ==
    ASSUME FewPackets, TypeOK, FrameSent, Spaced, FecEntries, link.tsinc = 1,
           NEW f \in Numbers, NEW pos \in Packets(f), sent[f].mode = "fec"
    PROVE  LET ts == BaseTs(Timestamp(f, pos), pos)
               got == Gathered(ts, f, pos)
           IN  /\ ts = sent[f].base
               /\ Codec(ts, f).size = sent[f].size /\ Codec(ts, f).got = Held(f)
               /\ \A b \in Held(f) : b \in Blocks /\ b[1] = f
               /\ IsFiniteSet(Held(f))
               /\ got = Held(f) \cup {<<f, pos>>}
               /\ IsFiniteSet(got) /\ Cardinality(Held(f)) \in Nat
               /\ Cardinality(got) = IF <<f, pos>> \in Held(f) THEN Cardinality(Held(f))
                                     ELSE Cardinality(Held(f)) + 1
<1> DEFINE ts == BaseTs(Timestamp(f, pos), pos)
           got == Gathered(ts, f, pos)
<1>1. ts = sent[f].base
  BY VideoBase
<1>2. Codec(ts, f).got = Held(f)
  BY <1>1 DEF Codec, Held
<1>3. /\ Codec(ts, f).size = sent[f].size
      /\ \A b \in Held(f) : b[1] = f
      /\ IsFiniteSet(Held(f))
  <2>1. CASE ts \in DOMAIN fec
    <3>1. PICK g \in Numbers :
              /\ ts = sent[g].base /\ fec[ts].size = sent[g].size
              /\ \A b \in fec[ts].got : b[1] = g
              /\ IsFiniteSet(fec[ts].got)
      BY <2>1 DEF FecEntries, FecEntry
    <3>2. g = f
      BY <1>1, <3>1, OwnTimestamp
    <3> QED BY <1>1, <2>1, <3>1, <3>2 DEF Codec, Held
  <2>2. CASE ts \notin DOMAIN fec
    BY <1>1, <2>2, FS_EmptySet DEF Codec, Held
  <2> QED BY <2>1, <2>2
<1>4. \A b \in Held(f) : b \in Blocks /\ b = <<b[1], b[2]>>
  <2>1. Held(f) \subseteq Blocks
    BY DEF Held, TypeOK
  <2> QED BY <2>1 DEF Blocks
<1>5. pos \in Ids(Held(f)) <=> <<f, pos>> \in Held(f)
  BY <1>3, <1>4 DEF Ids
<1>6. got = Held(f) \cup {<<f, pos>>}
  <2>1. got = IF pos \in Ids(Held(f)) THEN Held(f) ELSE Held(f) \cup {<<f, pos>>}
    BY <1>2 DEF Gathered
  <2> HIDE DEF got
  <2> QED BY <1>5, <2>1
<1> HIDE DEF got
<1>7. IsFiniteSet(got) /\ Cardinality(Held(f)) \in Nat
      /\ Cardinality(got) = IF <<f, pos>> \in Held(f) THEN Cardinality(Held(f))
                            ELSE Cardinality(Held(f)) + 1
  BY <1>3, <1>6, FS_AddElement, FS_CardinalityType
<1> QED BY <1>1, <1>2, <1>3, <1>4, <1>6, <1>7 DEF got

\* A frame of audio has one packet for each timestamp, so never enough for the code.
LEMMA AudioGathers ==
    ASSUME FewPackets, TypeOK, FrameSent, Spaced, FecEntries, link.tsinc = 0,
           NEW f \in Numbers, NEW pos \in Packets(f), SrcNb(sent[f].size) >= 2
    PROVE  LET ts == BaseTs(Timestamp(f, pos), pos)
               got == Gathered(ts, f, pos)
           IN  /\ SrcNb(Codec(ts, f).size) >= 2
               /\ \E n \in Numbers : got = {<<n, pos>>}
               /\ pos \in Timestamps /\ ts = (clock - pos) % TsMod
               /\ ~Delivers(ts, f, Codec(ts, f), got)
<1> DEFINE ts == BaseTs(Timestamp(f, pos), pos)
           got == Gathered(ts, f, pos)
<1>1. pos \in Timestamps /\ ts = (clock - pos) % TsMod
  BY AudioBase
<1> HIDE DEF ts
<1>2. SrcNb(Codec(ts, f).size) >= 2 /\ \E n \in Numbers : got = {<<n, pos>>}
  <2>1. CASE ts \in DOMAIN fec
    <3>1. PICK n \in Numbers, q \in Timestamps :
              fec[ts].got = {<<n, q>>} /\ ts = (clock - q) % TsMod
      BY <2>1 DEF FecEntries, FecEntry
    <3>2. q = pos
      BY <1>1, <3>1, SamePosition, SentTypes DEF Timestamps
    <3>3. pos \in Ids({<<n, pos>>})
      BY DEF Ids
    <3>4. Codec(ts, f) = fec[ts]
      BY <2>1 DEF Codec
    <3>5. SrcNb(fec[ts].size) >= 2
      BY <2>1 DEF FecEntries, FecEntry
    <3>6. got = {<<n, pos>>}
      BY <3>1, <3>2, <3>3, <3>4 DEF Gathered
    <3> QED BY <3>4, <3>5, <3>6
  <2>2. CASE ts \notin DOMAIN fec
    BY <2>2 DEF Codec, Gathered, Ids
  <2> QED BY <2>1, <2>2
<1>3. PICK n \in Numbers : got = {<<n, pos>>}
  BY <1>2
<1>4. Cardinality(got) = 1
  BY <1>3, FS_Singleton
<1>5. Codec(ts, f).size \in FrameSizes
  BY SentTypes DEF Codec, TypeOK
<1>6. SrcNb(Codec(ts, f).size) \in Nat
  BY <1>5, SrcNbPositive
<1> HIDE DEF got
<1>7. ~Delivers(ts, f, Codec(ts, f), got)
  BY <1>2, <1>4, <1>6 DEF Delivers
<1> QED BY <1>1, <1>2, <1>7 DEF ts, got

-----------------------------------------------------------------------------
\* What TypeOK says of the decoder's queue.
LEMMA OutBlocks ==
    ASSUME TypeOK
    PROVE  \A i \in DOMAIN out : /\ out[i] \in Outputs /\ out[i].blocks \in SUBSET Blocks
<1>1. out \in Seq(Outputs)
  BY DEF TypeOK
<1>2. \A i \in DOMAIN out : out[i] \in Outputs
  <2> HIDE DEF Outputs
  <2> QED BY <1>1
<1>3. \A x \in Outputs : x.blocks \in SUBSET Blocks
  BY DEF Outputs
<1> QED BY <1>2, <1>3

\* What TypeOK says of the blocks that wait.
LEMMA HeldType ==
    ASSUME TypeOK, NEW f \in Numbers
    PROVE  Held(f) \in SUBSET Blocks
BY DEF Held, TypeOK

\* Sending a frame keeps the invariant: the new frame has its own timestamp, no
\* entry and no packet that came.
LEMMA FrameSend ==
    ASSUME FewPackets, FrameInv, SendPacket
    PROVE  FrameInv'
<1> USE DEF FrameInv
<1>1. PICK f, n \in Nat \ {0}, size \in FrameSizes, key \in BOOLEAN,
           mode \in {"single", "fec", "raw"} :
              /\ mode \in Modes(size) /\ n = PacketCount(size, key, mode)
              /\ Sends(f, size, mode, n)
  BY SendFacts
<1>2. /\ Len(sent) \in Nat /\ f = Len(sent) + 1 /\ Numbers = 1..Len(sent)
      /\ Numbers' = Numbers \cup {f} /\ link' = link
      /\ \A g \in Numbers : sent'[g] = sent[g] /\ arrived'[g] = arrived[g]
      /\ sent'[f].base = clock /\ sent'[f].size = size /\ arrived'[f] = 0
      /\ net' = net \cup [frame : {f}, pos : 0..(n - 1), copy : 1..link.copies]
      /\ clock' = (clock + n * link.tsinc) % TsMod
      /\ UNCHANGED <<fec, raw, out, failed>>
  BY <1>1 DEF Sends
<1>3. f \notin Numbers /\ \A g \in Numbers : g < f
  BY <1>2
<1>4. TypeOK' /\ FrameSent'
  BY SendType
<1>5. Spaced'
  BY SpacedSend
<1>6. /\ TsMod \in Nat \ {0} /\ clock \in 0..(TsMod - 1) /\ link.tsinc \in {0, 1}
      /\ SrcNb(size) \in Nat \ {0} /\ Overhead \in Nat
      /\ Cardinality({}) = 0
  BY SentTypes, SrcNbPositive, SizeAssumption, FS_EmptySet DEF Timestamps
<1>7. link.tsinc = 0 => clock' = clock
  <2>1. n * 0 = 0 /\ (clock + 0) % TsMod = clock
    BY <1>6
  <2> QED BY <1>2, <2>1
<1>8. FecEntries'
  <2> SUFFICES ASSUME NEW ts \in DOMAIN fec
               PROVE  FecEntry(ts)'
    BY <1>2 DEF FecEntries
  <2>1. CASE link.tsinc = 1
    <3>1. PICK g \in Numbers :
              /\ sent[g].mode = "fec" /\ ts = sent[g].base /\ fec[ts].size = sent[g].size
              /\ \A b \in fec[ts].got : b[1] = g
              /\ IsFiniteSet(fec[ts].got)
      BY <2>1 DEF FecEntries, FecEntry
    <3> QED BY <1>2, <2>1, <3>1 DEF FecEntry
  <2>2. CASE link.tsinc = 0
    <3>1. /\ SrcNb(fec[ts].size) >= 2
          /\ \E g \in Numbers, pos \in Timestamps :
                fec[ts].got = {<<g, pos>>} /\ ts = (clock - pos) % TsMod
      BY <2>2 DEF FecEntries, FecEntry
    <3> QED BY <1>2, <1>7, <2>2, <3>1 DEF FecEntry, SrcNb, Timestamps
  <2> QED BY <1>6, <2>1, <2>2
<1>9. RawUncoded'
  <2>1. \A ts \in DOMAIN raw : \A b \in raw[ts].slots : b[1] \in Numbers
    BY DEF TypeOK, Blocks
  <2> QED BY <1>2, <2>1 DEF RawUncoded
<1>10. RawEntries'
  <2> SUFFICES ASSUME link.tsinc = 1, link.copies = 1, NEW ts \in DOMAIN raw
               PROVE  RawVideo(ts)'
    BY <1>2 DEF RawEntries
  <2>1. PICK g \in Numbers :
            /\ sent[g].mode = "raw" /\ ts = sent[g].base
            /\ raw[ts].n = SrcNb(sent[g].size)
            /\ raw[ts].last = Symbol - FillSize(sent[g].size)
            /\ raw[ts].slots \subseteq {g} \X Packets(g)
            /\ raw[ts].count = Cardinality(raw[ts].slots)
            /\ \A p \in net : <<p.frame, p.pos>> \notin raw[ts].slots
    BY DEF RawEntries, RawVideo
  <2>2. Packets(g)' = Packets(g)
    BY <1>2 DEF Packets
  <2>3. \A p \in net' : p \in net \/ p.frame = f
    BY <1>2
  <2>4. \A p \in net' : <<p.frame, p.pos>> \notin raw[ts].slots
    BY <1>3, <2>1, <2>3
  <2> QED BY <1>2, <2>1, <2>2, <2>4 DEF RawVideo, FillSize, SrcNb
<1>11. WholeFrames'
  <2> SUFFICES ASSUME NEW i \in DOMAIN out
               PROVE  Whole(out[i])'
    BY <1>2 DEF WholeFrames
  <2>1. Whole(out[i])
    BY DEF WholeFrames
  <2>2. ASSUME out[i].mode \in {"fec", "single"}
        PROVE  \E g \in Numbers' :
                  /\ out[i].pts = sent'[g].base
                  /\ out[i].size = sent'[g].size
                  /\ out[i].copied = sent'[g].size
                  /\ \A b \in out[i].blocks : b[1] = g
                  /\ Cardinality(out[i].blocks) >= SrcNb(sent'[g].size)
    BY <1>2, <2>1, <2>2 DEF Whole
  <2> QED BY <1>2, <2>1, <2>2 DEF Whole, Ids, SrcNb, FillSize
<1>12. Held(f)' = {} \/ link.tsinc = 0
  <2>1. ASSUME link.tsinc = 1, clock \in DOMAIN fec
        PROVE  FALSE
    <3>1. PICK g \in Numbers : clock = sent[g].base
      BY <2>1 DEF FecEntries, FecEntry
    <3>2. Dist(g) = (clock - clock) % TsMod /\ (clock - clock) % TsMod = 0
      BY <1>6, <3>1 DEF Dist
    <3>3. Dist(g) >= 1
      BY <2>1 DEF Spaced
    <3> QED BY <3>2, <3>3
  <2> QED BY <1>2, <1>6, <2>1 DEF Held
<1>13. \A g \in Numbers : Held(g)' = Held(g) /\ Delivered(g)' = Delivered(g)
  BY <1>2 DEF Held, Delivered
<1>14. Delivered(f)' = {}
  <2>1. \A i \in DOMAIN out : \A b \in out[i].blocks : b[1] \in Numbers
    BY OutBlocks DEF Blocks
  <2> QED BY <1>2, <1>3, <2>1 DEF Delivered
<1>15. Paid'
  <2>1. \A g \in Numbers : sent'[g].mode = "fec" =>
          IF link'.tsinc = 1
          THEN Cardinality(Delivered(g)') * SrcNb(sent'[g].size) + Cardinality(Held(g)') <= arrived'[g]
          ELSE Delivered(g)' = {}
    BY <1>2, <1>13 DEF Paid
  <2>2. IF link'.tsinc = 1
        THEN Cardinality(Delivered(f)') * SrcNb(sent'[f].size) + Cardinality(Held(f)') <= arrived'[f]
        ELSE Delivered(f)' = {}
    <3>1. 0 * SrcNb(size) + 0 = 0
      BY <1>6
    <3>2. SrcNb(sent'[f].size) = SrcNb(size) /\ arrived'[f] = 0 /\ link' = link
      BY <1>2
    <3>3. Cardinality(Delivered(f)') = 0
      BY <1>6, <1>14
    <3>4. link.tsinc = 1 => Cardinality(Held(f)') = 0
      BY <1>6, <1>12
    <3> QED BY <1>6, <1>14, <3>1, <3>2, <3>3, <3>4
  <2> QED BY <1>2, <2>1, <2>2 DEF Paid, SrcNb
<1>16. Enough'
  <2> SUFFICES ASSUME InOrderNet
               PROVE  /\ \A p \in net', g \in Numbers' : arrived'[g] > 0 => g <= p.frame
                      /\ \A g \in Numbers' : \A b \in Held(g)', p \in net' : b # <<p.frame, p.pos>>
                      /\ \A g \in Numbers' : sent'[g].mode = "fec" /\ Undelivered(g)' =>
                            /\ arrived'[g] < SrcNb(sent'[g].size) + Overhead
                            /\ \/ arrived'[g] = Cardinality(Held(g)')
                               \/ \A p \in net' : p.frame > g
    BY <1>2 DEF Enough, InOrderNet, SrcNb
  <2>0. link.tsinc = 1 /\ Held(f)' = {}
    BY <1>12 DEF InOrderNet
  <2>1. \A p \in net' : p \in net \/ p.frame = f
    BY <1>2
  <2>2. \A p \in net', g \in Numbers' : arrived'[g] > 0 => g <= p.frame
    BY <1>2, <1>3, <2>1 DEF Enough
  <2>3. \A g \in Numbers' : \A b \in Held(g)', p \in net' : b # <<p.frame, p.pos>>
    <3>1. \A g \in Numbers : \A b \in Held(g) : b[1] \in Numbers
      BY HeldType DEF Blocks
    <3>2. \A g \in Numbers : \A b \in Held(g), p \in net : b # <<p.frame, p.pos>>
      BY DEF Enough
    <3> QED BY <1>2, <1>3, <1>13, <2>0, <2>1, <3>1, <3>2
  <2>4. \A g \in Numbers : Undelivered(g)' => Undelivered(g)
    BY <1>2, <1>13 DEF Undelivered
  <2>5. ASSUME NEW g \in Numbers, sent'[g].mode = "fec", Undelivered(g)'
        PROVE  /\ arrived'[g] < SrcNb(sent'[g].size) + Overhead
               /\ \/ arrived'[g] = Cardinality(Held(g)')
                  \/ \A p \in net' : p.frame > g
    <3>1. /\ arrived[g] < SrcNb(sent[g].size) + Overhead
          /\ \/ arrived[g] = Cardinality(Held(g))
             \/ \A p \in net : p.frame > g
      BY <1>2, <2>4, <2>5 DEF Enough
    <3> QED BY <1>2, <1>3, <1>13, <2>1, <3>1
  <2>6. arrived'[f] < SrcNb(sent'[f].size) + Overhead /\ arrived'[f] = Cardinality(Held(f)')
    <3>1. SrcNb(sent'[f].size) = SrcNb(size) /\ arrived'[f] = 0
      BY <1>2
    <3>2. Cardinality(Held(f)') = 0
      BY <1>6, <2>0
    <3>3. 0 < SrcNb(size) + Overhead
      BY <1>6
    <3> QED BY <3>1, <3>2, <3>3
  <2> QED BY <1>2, <2>2, <2>3, <2>5, <2>6
<1> QED BY <1>4, <1>5, <1>8, <1>9, <1>10, <1>11, <1>15, <1>16

-----------------------------------------------------------------------------
\* An entry that a packet does not touch.
LEMMA EntryKept ==
    ASSUME TypeOK, NEW k \in DOMAIN fec, FecEntry(k), fec'[k] = fec[k],
           UNCHANGED <<link, clock, sent>>
    PROVE  FecEntry(k)'
<1>1. Numbers' = Numbers
  BY DEF Numbers
<1>2. CASE link.tsinc = 1
  <2>1. PICK g \in Numbers :
            /\ sent[g].mode = "fec" /\ k = sent[g].base /\ fec[k].size = sent[g].size
            /\ \A b \in fec[k].got : b[1] = g
            /\ IsFiniteSet(fec[k].got)
    BY <1>2 DEF FecEntry
  <2> QED BY <1>1, <1>2, <2>1 DEF FecEntry
<1>3. CASE link.tsinc = 0
  <2>1. /\ SrcNb(fec[k].size) >= 2
        /\ \E g \in Numbers, q \in Timestamps :
              fec[k].got = {<<g, q>>} /\ k = (clock - q) % TsMod
    BY <1>3 DEF FecEntry
  <2> QED BY <1>1, <1>3, <2>1 DEF FecEntry, SrcNb, Timestamps
<1> QED BY <1>2, <1>3, SentTypes

\* A packet joins the entry of its own frame.
LEMMA FecEntriesReceive ==
    ASSUME FewPackets, FrameInv, NEW f \in Numbers, NEW pos \in Packets(f), Arrives(f, pos)
    PROVE  FecEntries'
<1> USE DEF FrameInv
<1>1. /\ pos \in Nat /\ DealWithPacket(f, pos)
      /\ UNCHANGED <<link, clock, sent>> /\ Numbers' = Numbers
  BY DEF Arrives, Numbers
<1>2. ASSUME NEW k \in DOMAIN fec, fec'[k] = fec[k]
      PROVE  FecEntry(k)'
  BY <1>1, <1>2, EntryKept DEF FecEntries
<1>3. CASE UNCHANGED fec
  BY <1>2, <1>3 DEF FecEntries
<1>4. CASE sent[f].mode = "fec" /\ SrcNb(sent[f].size) >= 2 /\ PopFec(f, pos)
  <2>0. PICK ts \in Timestamps : ts = BaseTs(Timestamp(f, pos), pos)
    BY <1>1, <1>4, FecResult
  <2> DEFINE codec == Codec(ts, f)
             got == Gathered(ts, f, pos)
  <2>1. Delivers(ts, f, codec, got) \/ Holds(ts, codec, got) \/ Fails(ts, f)
    BY <1>1, <1>4, <2>0, FecResult
  <2>2. CASE Delivers(ts, f, codec, got) \/ Fails(ts, f)
    BY <1>2, <2>2 DEF Delivers, Fails, FecEntries
  <2>3. CASE Holds(ts, codec, got)
    <3>1. DOMAIN fec' = DOMAIN fec \cup {ts} /\ fec'[ts] = [size |-> codec.size, got |-> got]
          /\ \A k \in DOMAIN fec \ {ts} : fec'[k] = fec[k]
      BY <2>3 DEF Holds
    <3>2. CASE link.tsinc = 1
      <4>0. /\ ts = sent[f].base /\ codec.size = sent[f].size
            /\ \A b \in Held(f) : b[1] = f
            /\ got = Held(f) \cup {<<f, pos>>} /\ IsFiniteSet(got)
        BY <1>4, <2>0, <3>2, VideoGathers
      <4> HIDE DEF codec, got
      <4>1. \A b \in got : b[1] = f
        BY <4>0
      <4>2. FecEntry(ts)'
        BY <1>1, <1>4, <3>1, <3>2, <4>0, <4>1 DEF FecEntry
      <4> QED BY <1>2, <3>1, <4>2 DEF FecEntries
    <3>3. CASE link.tsinc = 0
      <4>1. /\ SrcNb(codec.size) >= 2
            /\ \E n \in Numbers : got = {<<n, pos>>}
            /\ pos \in Timestamps /\ ts = (clock - pos) % TsMod
        BY <1>4, <2>0, <3>3, AudioGathers
      <4> HIDE DEF codec, got
      <4>2. fec'[ts].size = codec.size /\ fec'[ts].got = got
        BY <3>1
      <4>3. SrcNb(fec'[ts].size) >= 2 /\ \E n \in Numbers', q \in Timestamps :
                fec'[ts].got = {<<n, q>>} /\ ts = (clock' - q) % TsMod
        BY <1>1, <4>1, <4>2
      <4>4. FecEntry(ts)'
        BY <1>1, <3>3, <4>3 DEF FecEntry, SrcNb, Timestamps
      <4> QED BY <1>2, <3>1, <4>4 DEF FecEntries
    <3> QED BY <3>2, <3>3, SentTypes
  <2> QED BY <2>1, <2>2, <2>3
<1> QED BY <1>1, <1>3, <1>4, Outcome, SingleResult, RawResult

\* The packets collected without the code.
LEMMA Collects ==
    ASSUME FewPackets, FrameInv, link.tsinc = 1, link.copies = 1,
           NEW f \in Numbers, NEW pos \in Packets(f), Arrives(f, pos), sent[f].mode = "raw"
    PROVE  LET new == RawNew(sent[f].base, f, pos)
           IN  /\ new.n = SrcNb(sent[f].size)
               /\ new.last = Symbol - FillSize(sent[f].size)
               /\ new.slots \subseteq {f} \X Packets(f)
               /\ new.count = Cardinality(new.slots)
               /\ \A q \in net' : <<q.frame, q.pos>> \notin new.slots
<1> USE DEF FrameInv
<1> DEFINE ts == sent[f].base
           old == RawOld(ts, f)
           new == RawNew(ts, f, pos)
<1>1. /\ old.n = SrcNb(sent[f].size) /\ old.last = Symbol - FillSize(sent[f].size)
      /\ old.slots \subseteq {f} \X Packets(f)
      /\ old.count = Cardinality(old.slots)
      /\ \A p \in net : <<p.frame, p.pos>> \notin old.slots
  <2>1. CASE ts \in DOMAIN raw
    <3>1. PICK g \in Numbers :
            /\ ts = sent[g].base
            /\ raw[ts].n = SrcNb(sent[g].size)
            /\ raw[ts].last = Symbol - FillSize(sent[g].size)
            /\ raw[ts].slots \subseteq {g} \X Packets(g)
            /\ raw[ts].count = Cardinality(raw[ts].slots)
            /\ \A p \in net : <<p.frame, p.pos>> \notin raw[ts].slots
      BY <2>1 DEF RawEntries, RawVideo
    <3>2. g = f
      BY <3>1, OwnTimestamp
    <3>3. old = raw[ts]
      BY <2>1 DEF RawOld
    <3> HIDE DEF old, ts
    <3> QED BY <3>1, <3>2, <3>3
  <2>2. CASE ts \notin DOMAIN raw
    <3>1. old = [count |-> 0, slots |-> {}, n |-> SrcNb(sent[f].size),
                 last |-> Symbol - FillSize(sent[f].size)]
      BY <2>2 DEF RawOld
    <3> HIDE DEF old
    <3> QED BY <3>1, FS_EmptySet
  <2> QED BY <2>1, <2>2
<1> DEFINE slots == {b \in old.slots : b[2] # pos} \cup {<<f, pos>>}
<1>2. old \in RawEntry
  <2>1. SrcNb(sent[f].size) \in Nat /\ Symbol - FillSize(sent[f].size) \in Int
    BY SentTypes, SrcNbPositive DEF FillSize
  <2> QED BY <2>1 DEF RawOld, TypeOK, RawEntry
<1>3. new = [count |-> old.count + 1, slots |-> slots, n |-> old.n, last |-> old.last]
  <2>1. new = [old EXCEPT !.count = old.count + 1, !.slots = slots]
    BY DEF RawNew
  <2> HIDE DEF old, new, slots
  <2> QED BY <1>2, <2>1 DEF RawEntry
<1>4. PICK p \in net : p.frame = f /\ p.pos = pos
  BY DEF Arrives
<1>5. <<f, pos>> \notin old.slots
  BY <1>1, <1>4
<1>6. slots = old.slots \cup {<<f, pos>>}
  <2> HIDE DEF old
  <2>1. \A b \in old.slots : b[2] # pos
    BY <1>1, <1>5
  <2> QED BY <2>1
<1>7. IsFiniteSet(old.slots)
  <2>1. IsFiniteSet(Packets(f))
    <3>1. 0 \in Int /\ sent[f].count - 1 \in Int
      BY SentTypes
    <3> QED BY <3>1, FS_Interval DEF Packets
  <2>2. IsFiniteSet({f})
    BY FS_Singleton
  <2>3. IsFiniteSet({f} \X Packets(f))
    BY <2>1, <2>2, FS_Product
  <2> QED BY <1>1, <2>3, FS_Subset
<1>8. Cardinality(slots) = Cardinality(old.slots) + 1
  BY <1>5, <1>6, <1>7, FS_AddElement
<1>9. \A q \in net' : <<q.frame, q.pos>> # <<f, pos>> /\ q \in net
  BY DEF Arrives
<1> HIDE DEF old, slots, new
<1> QED BY <1>1, <1>3, <1>6, <1>8, <1>9 DEF new

\* A packet without the code joins others without it.
LEMMA UncodedSlots ==
    ASSUME TypeOK, RawUncoded, NEW f \in Numbers, NEW pos, NEW ts, sent[f].mode # "fec"
    PROVE  \A b \in RawNew(ts, f, pos).slots : sent[b[1]].mode # "fec"
<1> DEFINE old == RawOld(ts, f)
           slots == {b \in old.slots : b[2] # pos} \cup {<<f, pos>>}
<1>1. old.slots = (IF ts \in DOMAIN raw THEN raw[ts].slots ELSE {})
  BY DEF RawOld
<1>2. \A b \in old.slots : sent[b[1]].mode # "fec"
  BY <1>1 DEF RawUncoded
<1>3. old \in RawEntry
  <2>1. SrcNb(sent[f].size) \in Nat /\ Symbol - FillSize(sent[f].size) \in Int
    BY SentTypes, SrcNbPositive DEF FillSize
  <2> QED BY <2>1 DEF RawOld, TypeOK, RawEntry
<1>4. RawNew(ts, f, pos) = [old EXCEPT !.count = old.count + 1, !.slots = slots]
  BY DEF RawNew
<1> HIDE DEF old, slots
<1>5. RawNew(ts, f, pos).slots = slots
  BY <1>3, <1>4 DEF RawEntry
<1> QED BY <1>2, <1>5 DEF slots

\* A packet keeps what is said of nofec_map.
LEMMA RawReceive ==
    ASSUME FewPackets, FrameInv, NEW f \in Numbers, NEW pos \in Packets(f), Arrives(f, pos)
    PROVE  RawUncoded' /\ RawEntries'
<1> USE DEF FrameInv
<1>1. pos \in Nat /\ DealWithPacket(f, pos) /\ UNCHANGED <<link, clock, sent>> /\ net' \subseteq net
      /\ Numbers' = Numbers /\ \A g : Packets(g)' = Packets(g)
  BY DEF Arrives, Packets, Numbers
<1> DEFINE Good(e, ts) == \E g \in Numbers :
            /\ sent[g].mode = "raw" /\ ts = sent[g].base
            /\ e.n = SrcNb(sent[g].size)
            /\ e.last = Symbol - FillSize(sent[g].size)
            /\ e.slots \subseteq {g} \X Packets(g)
            /\ e.count = Cardinality(e.slots)
            /\ \A p \in net' : <<p.frame, p.pos>> \notin e.slots
           Video == link.tsinc = 1 /\ link.copies = 1
<1>2. ASSUME NEW k \in DOMAIN raw
      PROVE  /\ \A b \in raw[k].slots : sent[b[1]].mode # "fec"
             /\ Video => Good(raw[k], k)
  BY <1>1 DEF RawUncoded, RawEntries, RawVideo
<1>3. SUFFICES ASSUME NEW k \in DOMAIN raw'
               PROVE  /\ \A b \in raw'[k].slots : sent[b[1]].mode # "fec"
                      /\ Video => Good(raw'[k], k)
  <2>1. (\A k \in DOMAIN raw' : \A b \in raw'[k].slots : sent[b[1]].mode # "fec") => RawUncoded'
    BY <1>1 DEF RawUncoded
  <2>2. (Video => \A k \in DOMAIN raw' : Good(raw'[k], k)) => RawEntries'
    <3> SUFFICES ASSUME Video, NEW k \in DOMAIN raw', Good(raw'[k], k)
                 PROVE  RawVideo(k)'
      BY <1>1 DEF RawEntries
    <3> QED BY <1>1 DEF RawVideo, FillSize, SrcNb
  <2> QED BY <2>1, <2>2
<1> HIDE DEF Good
<1>4. CASE Shrinks(raw, raw')
  BY <1>2, <1>4 DEF Shrinks
<1>5. CASE sent[f].mode = "raw" /\ PopRaw(f, pos)
  <2> DEFINE ts == BaseTs(Timestamp(f, pos), pos)
             new == RawNew(ts, f, pos)
  <2>1. RawDelivers(ts, f, new) \/ RawHolds(ts, new) \/ RawBreaks
    BY <1>1, <1>5, RawResult
  <2>2. CASE RawDelivers(ts, f, new) \/ RawBreaks
    BY <1>4, <2>2 DEF RawDelivers, RawBreaks, Shrinks
  <2>3. CASE RawHolds(ts, new)
    <3>1. k \in DOMAIN raw \/ k = ts
      BY <2>3 DEF RawHolds
    <3>2. k # ts => raw'[k] = raw[k]
      BY <2>3, <3>1 DEF RawHolds
    <3>3. raw'[ts] = new
      BY <2>3 DEF RawHolds
    <3>4. \A b \in new.slots : sent[b[1]].mode # "fec"
      BY <1>5, UncodedSlots
    <3>5. Video => Good(new, ts)
      <4> SUFFICES ASSUME Video
                   PROVE  Good(new, ts)
        OBVIOUS
      <4>1. ts = sent[f].base
        BY VideoBase
      <4>2. /\ new.n = SrcNb(sent[f].size)
            /\ new.last = Symbol - FillSize(sent[f].size)
            /\ new.slots \subseteq {f} \X Packets(f)
            /\ new.count = Cardinality(new.slots)
            /\ \A q \in net' : <<q.frame, q.pos>> \notin new.slots
        BY <1>5, <4>1, Collects
      <4> HIDE DEF new, ts
      <4> QED BY <1>5, <4>1, <4>2 DEF Good
    <3> HIDE DEF new, ts
    <3> QED BY <1>2, <3>1, <3>2, <3>3, <3>4, <3>5
  <2> QED BY <2>1, <2>2, <2>3
<1>6. raw' = raw => Shrinks(raw, raw')
  BY DEF Shrinks
<1> QED BY <1>1, <1>4, <1>5, <1>6, Outcome, SingleResult, FecResult

-----------------------------------------------------------------------------
\* The bytes that get_data copies of a frame collected without the code, when it
\* does not break: all blocks but the last.
LEMMA RawCopied ==
    ASSUME NEW size \in FrameSizes, SrcNb(size) > 1, Symbol - FillSize(size) >= 0
    PROVE  (SrcNb(size) - 1) * Symbol + (Symbol - FillSize(size)) = FillSize(size)
<1>1. size \in Nat /\ Symbol \in Nat \ {0} /\ size % Symbol \in 0..(Symbol - 1)
  BY SizeAssumption
<1>2. size <= 2 * Symbol - 1
  BY <1>1 DEF FillSize
<1>3. size >= Symbol + 1
  <2>1. ASSUME size <= Symbol
        PROVE  FALSE
    <3> DEFINE a == size + Symbol - 1
    <3>1. a \in Nat /\ a < 2 * Symbol
      BY <1>1, <2>1
    <3>2. SrcNb(size) = a \div Symbol
      BY DEF SrcNb
    <3> HIDE DEF a
    <3>3. a \div Symbol \in {0, 1}
      BY <1>1, <3>1
    <3> QED BY <3>2, <3>3
  <2> QED BY <1>1, <2>1
<1>4. size % Symbol = size - Symbol
  <2>1. (size - Symbol) \in 0..(Symbol - 1)
    BY <1>1, <1>2, <1>3
  <2> QED BY <1>1, <2>1
<1>5. FillSize(size) = Symbol
  BY <1>1, <1>4 DEF FillSize
<1>6. SrcNb(size) = 2
  <2>1. size + Symbol - 1 \in (2 * Symbol)..(3 * Symbol - 1)
    BY <1>1, <1>2, <1>3
  <2> DEFINE a == size + Symbol - 1
  <2>2. a \in Int /\ 2 * Symbol <= a /\ a < 3 * Symbol
    BY <1>1, <2>1
  <2> HIDE DEF a
  <2>3. a \div Symbol = 2
    BY <1>1, <2>2
  <2> QED BY <2>3 DEF SrcNb, a
<1> QED BY <1>1, <1>5, <1>6

\* A frame that a packet completes is whole.
LEMMA WholeReceive ==
    ASSUME FewPackets, FrameInv, NEW f \in Numbers, NEW pos \in Packets(f), Arrives(f, pos)
    PROVE  WholeFrames'
<1> USE DEF FrameInv
<1>1. /\ pos \in Nat /\ DealWithPacket(f, pos)
      /\ UNCHANGED <<link, clock, sent>> /\ Numbers' = Numbers
  BY DEF Arrives, Numbers
<1>2. (\A i \in DOMAIN out' : Whole(out'[i])) => WholeFrames'
  BY <1>1 DEF WholeFrames, Whole, SrcNb, Ids, FillSize
<1>3. CASE UNCHANGED out
  BY <1>2, <1>3 DEF WholeFrames
<1>4. ASSUME NEW x \in Outputs, Whole(x), Pushed(f, x)
      PROVE  WholeFrames'
  <2>0. PICK y \in Outputs : out' = Append(out, y) /\ (y = x \/ y = Lost)
    BY <1>4, PushedOutput
  <2>2. Whole(y)
    <3>1. Whole(Lost)
      BY DEF Whole, Lost
    <3> QED BY <1>4, <2>0, <3>1
  <2>1. /\ DOMAIN out' = DOMAIN out \cup {Len(out) + 1}
        /\ out'[Len(out) + 1] = y /\ \A i \in DOMAIN out : out'[i] = out[i]
    BY <2>0, AppendOutput
  <2> QED BY <1>2, <2>1, <2>2 DEF WholeFrames
<1>5. sent[f].size \in FrameSizes /\ sent[f].count \in Nat \ {0} /\ link.tsinc \in {0, 1}
      /\ SrcNb(sent[f].size) \in Nat \ {0} /\ Packets(f) = 0..(sent[f].count - 1)
  BY SentTypes, SrcNbPositive DEF Packets
<1>6. CASE sent[f].mode = "fec" /\ SrcNb(sent[f].size) >= 2 /\ PopFec(f, pos)
  <2> DEFINE ts == BaseTs(Timestamp(f, pos), pos)
             codec == Codec(ts, f)
             got == Gathered(ts, f, pos)
             x == FecFrame(ts, f, codec, got)
  <2>1. /\ ts \in Timestamps /\ got \in SUBSET Blocks /\ codec \in Entry
        /\ Delivers(ts, f, codec, got) \/ Holds(ts, codec, got) \/ Fails(ts, f)
    BY <1>1, <1>6, FecResult
  <2>2. CASE Delivers(ts, f, codec, got)
    <3>1. link.tsinc = 1
      BY <1>5, <1>6, <2>2, AudioGathers
    <3>2. /\ ts = sent[f].base /\ codec.size = sent[f].size
          /\ \A b \in Held(f) : b[1] = f
          /\ got = Held(f) \cup {<<f, pos>>}
          /\ IsFiniteSet(got)
      BY <1>6, <3>1, VideoGathers
    <3>3. Cardinality(got) - SrcNb(codec.size) >= 0 /\ Pushed(f, x)
      BY <2>2 DEF Delivers
    <3> HIDE DEF codec, got
    <3>4. Cardinality(got) \in Nat
      BY <3>2, FS_CardinalityType
    <3>5. /\ \A b \in got : b[1] = f
          /\ Cardinality(got) >= SrcNb(sent[f].size)
      BY <1>5, <3>2, <3>3, <3>4
    <3>6. x \in Outputs
      BY <2>1, FecFrameType
    <3>7. Whole(x)
      BY <3>2, <3>5 DEF Whole, FecFrame
    <3> HIDE DEF x
    <3> QED BY <1>4, <3>3, <3>6, <3>7
  <2>3. CASE Holds(ts, codec, got) \/ Fails(ts, f)
    BY <1>3, <2>3 DEF Holds, Fails
  <2> QED BY <2>1, <2>2, <2>3
<1>7. CASE /\ sent[f].mode # "fec" /\ SrcNb(sent[f].size) = 1 /\ sent[f].count = 1
           /\ PopSingle(f, pos)
  <2> DEFINE x == Single(f, pos)
  <2>1. Pushed(f, x) /\ BaseTs(Timestamp(f, pos), pos) \in Timestamps
    BY <1>1, <1>7, SingleResult
  <2>2. pos = 0
    BY <1>5, <1>7
  <2>3. BaseTs(Timestamp(f, pos), pos) = sent[f].base
    BY <1>5, <2>2, VideoBase, AudioBase
  <2>4. x = [mode |-> "single", pts |-> sent[f].base, size |-> sent[f].size,
             blocks |-> {<<f, pos>>}, copied |-> sent[f].size]
    BY <2>3 DEF Single
  <2>5. x \in Outputs
    BY <1>1, <2>1, SingleType
  <2>6. Cardinality({<<f, pos>>}) = 1
    BY FS_Singleton
  <2>7. Whole(x)
    BY <1>5, <1>7, <2>4, <2>6 DEF Whole
  <2> HIDE DEF x
  <2> QED BY <1>4, <2>1, <2>5, <2>7
<1>8. CASE /\ sent[f].mode = "raw" /\ SrcNb(sent[f].size) > 1
           /\ sent[f].count = SrcNb(sent[f].size) /\ PopRaw(f, pos)
  <2> DEFINE ts == BaseTs(Timestamp(f, pos), pos)
             new == RawNew(ts, f, pos)
             x == RawFrame(ts, f, new)
  <2>1. /\ ts \in Timestamps /\ new \in RawEntry
        /\ RawDelivers(ts, f, new) \/ RawHolds(ts, new) \/ RawBreaks
    BY <1>1, <1>8, RawResult
  <2>2. CASE RawDelivers(ts, f, new)
    <3>1. /\ new.count = SrcNb(sent[f].size) /\ new.last >= 0 /\ new.n - 1 >= 0
          /\ Pushed(f, x)
      BY <2>2 DEF RawDelivers
    <3>2. ASSUME link.tsinc = 1, link.copies = 1
          PROVE  /\ Ids(new.slots) = 0..(SrcNb(sent[f].size) - 1)
                 /\ (new.n - 1) * Symbol + new.last = FillSize(sent[f].size)
      <4>1. ts = sent[f].base
        BY <3>2, VideoBase
      <4>2. /\ new.slots \subseteq {f} \X Packets(f) /\ new.count = Cardinality(new.slots)
            /\ new.n = SrcNb(sent[f].size) /\ new.last = Symbol - FillSize(sent[f].size)
        BY <1>8, <3>2, <4>1, Collects
      <4> HIDE DEF new
      <4>3. /\ IsFiniteSet(Packets(f)) /\ Cardinality(Packets(f)) = sent[f].count
            /\ IsFiniteSet({f}) /\ Cardinality({f}) = 1
        <5> DEFINE last == sent[f].count - 1
        <5>1. 0 \in Int /\ last \in Int /\ ~(0 > last) /\ last - 0 + 1 = sent[f].count
          BY <1>5
        <5> HIDE DEF last
        <5>2. IsFiniteSet(0..last) /\ Cardinality(0..last) = sent[f].count
          BY <5>1, FS_Interval
        <5> QED BY <1>5, <5>2, FS_Singleton DEF last
      <4>4. /\ IsFiniteSet({f} \X Packets(f))
            /\ Cardinality({f} \X Packets(f)) = sent[f].count
        <5>1. IsFiniteSet({f} \X Packets(f))
              /\ Cardinality({f} \X Packets(f)) = Cardinality({f}) * Cardinality(Packets(f))
          BY <4>3, FS_Product
        <5>2. 1 * sent[f].count = sent[f].count
          BY <1>5
        <5> QED BY <4>3, <5>1, <5>2
      <4>5. new.slots = {f} \X Packets(f)
        BY <1>8, <3>1, <4>2, <4>4, FS_Subset
      <4>6. Ids(new.slots) = Packets(f)
        <5>1. \A q \in Packets(f) : <<f, q>> \in new.slots
          BY <4>5
        <5>2. \A b \in new.slots : b[2] \in Packets(f)
          BY <4>5
        <5>3. ASSUME NEW q \in Packets(f)
              PROVE  q \in Ids(new.slots)
          <6>1. <<f, q>> \in new.slots /\ <<f, q>>[2] = q
            BY <5>1
          <6>2. \E b \in new.slots : q = b[2]
            BY <6>1, Zenon
          <6> QED BY <6>2 DEF Ids
        <5> QED BY <5>2, <5>3 DEF Ids
      <4>7. (new.n - 1) * Symbol + new.last = FillSize(sent[f].size)
        BY <1>5, <1>8, <3>1, <4>2, RawCopied
      <4> QED BY <1>5, <1>8, <4>6, <4>7
    <3>3. x \in Outputs
      BY <2>1, <3>1, RawFrameType
    <3> HIDE DEF new
    <3>4. Whole(x)
      BY <3>2 DEF Whole, RawFrame
    <3> HIDE DEF x
    <3> QED BY <1>4, <3>1, <3>3, <3>4
  <2>3. CASE RawHolds(ts, new) \/ RawBreaks
    BY <1>3, <2>3 DEF RawHolds, RawBreaks
  <2> QED BY <2>1, <2>2, <2>3
<1> QED BY <1>1, <1>3, <1>6, <1>7, <1>8, Outcome

-----------------------------------------------------------------------------
\* What a packet without the code does to the encoded frames: nothing.
LEMMA UncodedStep ==
    ASSUME FrameInv, NEW f \in Numbers, NEW pos \in Packets(f), Arrives(f, pos),
           sent[f].mode # "fec"
    PROVE  /\ fec' = fec /\ failed \subseteq failed'
           /\ \/ out' = out
              \/ \E x \in Outputs : /\ out' = Append(out, x)
                                    /\ \A b \in x.blocks : sent[b[1]].mode # "fec"
<1> USE DEF FrameInv
<1>1. pos \in Nat /\ DealWithPacket(f, pos) /\ sent' = sent /\ sent[f].size \in FrameSizes
  BY SentTypes DEF Arrives
<1>4. ASSUME NEW x \in Outputs, Pushed(f, x), \A b \in x.blocks : sent[b[1]].mode # "fec"
      PROVE  /\ failed \subseteq failed'
             /\ \E y \in Outputs : /\ out' = Append(out, y)
                                   /\ \A b \in y.blocks : sent[b[1]].mode # "fec"
  BY <1>4, PushedOutput DEF Lost
<1>2. CASE PopSingle(f, pos)
  <2>1. Pushed(f, Single(f, pos)) /\ BaseTs(Timestamp(f, pos), pos) \in Timestamps
        /\ fec' = fec
    BY <1>1, <1>2, SingleResult
  <2>2. Single(f, pos) \in Outputs
    BY <1>1, <2>1, SingleType
  <2>3. \A b \in Single(f, pos).blocks : sent[b[1]].mode # "fec"
    BY DEF Single
  <2> QED BY <1>4, <2>1, <2>2, <2>3
<1>3. CASE PopRaw(f, pos)
  <2> DEFINE ts == BaseTs(Timestamp(f, pos), pos)
             new == RawNew(ts, f, pos)
             x == RawFrame(ts, f, new)
  <2>1. /\ ts \in Timestamps /\ new \in RawEntry
        /\ RawDelivers(ts, f, new) \/ RawHolds(ts, new) \/ RawBreaks
        /\ fec' = fec
    BY <1>1, <1>3, RawResult
  <2>2. CASE RawDelivers(ts, f, new)
    <3>1. Pushed(f, x) /\ new.last >= 0 /\ new.n - 1 >= 0
      BY <2>2 DEF RawDelivers
    <3>2. x \in Outputs
      BY <2>1, <3>1, RawFrameType
    <3>3. \A b \in new.slots : sent[b[1]].mode # "fec"
      BY UncodedSlots
    <3>4. x.blocks = new.slots
      BY DEF RawFrame
    <3> HIDE DEF x
    <3> QED BY <1>4, <2>1, <3>1, <3>2, <3>3, <3>4
  <2> QED BY <2>1, <2>2 DEF RawHolds, RawBreaks
<1> QED BY <1>1, <1>2, <1>3, Outcome

\* A packet of an encoded video frame.
LEMMA CodedStep ==
    ASSUME FewPackets, FrameInv, NEW f \in Numbers, NEW pos \in Packets(f), Arrives(f, pos),
           sent[f].mode = "fec", link.tsinc = 1
    PROVE  LET got == Held(f) \cup {<<f, pos>>}
           IN  /\ \A b \in got : b \in Blocks /\ b[1] = f
               /\ Cardinality(Held(f)) \in Nat /\ IsFiniteSet(Held(f))
               /\ Cardinality(got) = IF <<f, pos>> \in Held(f) THEN Cardinality(Held(f))
                                     ELSE Cardinality(Held(f)) + 1
               /\ failed \subseteq failed'
               /\ \/ /\ Cardinality(got) >= SrcNb(sent[f].size) /\ Held(f)' = {}
                     /\ \E x \in Outputs : /\ out' = Append(out, x)
                                           /\ x.blocks = got \/ (x.blocks = {} /\ f \in failed')
                  \/ /\ Cardinality(got) < SrcNb(sent[f].size) + Overhead
                     /\ out' = out /\ Held(f)' = got
                  \/ out' = out /\ Held(f)' = {} /\ f \in failed'
               /\ \A g \in Numbers \ {f} : Held(g)' = Held(g) \/ Held(g)' = {}
<1> USE DEF FrameInv
<1>1. /\ pos \in Nat /\ DealWithPacket(f, pos) /\ sent' = sent
      /\ sent[f].size \in FrameSizes /\ sent[f].base \in Timestamps
      /\ SrcNb(sent[f].size) \in Nat /\ Overhead \in Nat
  BY SentTypes, SrcNbPositive, SizeAssumption DEF Arrives
<1>2. PopFec(f, pos)
  BY <1>1, Outcome
<1> DEFINE ts == BaseTs(Timestamp(f, pos), pos)
           codec == Codec(ts, f)
           g1 == Gathered(ts, f, pos)
           got == Held(f) \cup {<<f, pos>>}
           x == FecFrame(ts, f, codec, g1)
<1>3. /\ ts = sent[f].base /\ codec.size = sent[f].size
      /\ \A b \in Held(f) : b \in Blocks /\ b[1] = f
      /\ IsFiniteSet(Held(f))
      /\ g1 = got /\ Cardinality(Held(f)) \in Nat
      /\ Cardinality(g1) = IF <<f, pos>> \in Held(f) THEN Cardinality(Held(f))
                           ELSE Cardinality(Held(f)) + 1
  BY VideoGathers
<1>4. /\ Delivers(ts, f, codec, g1) \/ Holds(ts, codec, g1) \/ Fails(ts, f)
      /\ codec \in Entry /\ g1 \in SUBSET Blocks
  BY <1>1, <1>2, FecResult
<1> HIDE DEF ts, codec, g1
<1>5. \A b \in got : b \in Blocks /\ b[1] = f
  BY <1>1, <1>3 DEF Blocks
<1>6. x \in Outputs
  BY <1>1, <1>3, <1>4, FecFrameType
<1>7. ASSUME NEW g \in Numbers \ {f}
      PROVE  sent[g].base # ts
  BY <1>3, OwnTimestamp
<1>8. ASSUME NEW g \in Numbers \ {f},
             \A k \in DOMAIN fec' \ {ts} : k \in DOMAIN fec /\ fec'[k] = fec[k]
      PROVE  Held(g)' = Held(g) \/ Held(g)' = {}
  BY <1>1, <1>7, <1>8 DEF Held
<1>9. CASE Delivers(ts, f, codec, g1)
  <2>1. /\ Cardinality(g1) - SrcNb(codec.size) >= 0
        /\ Pushed(f, x)
        /\ DOMAIN fec' = {k \in DOMAIN fec : k > ts}
        /\ \A k \in DOMAIN fec' : fec'[k] = fec[k]
    BY <1>9 DEF Delivers
  <2>2. Cardinality(got) >= SrcNb(sent[f].size)
    BY <1>1, <1>3, <2>1
  <2>3. Held(f)' = {}
    <3>1. ~(ts > ts)
      BY <1>1, <1>3 DEF Timestamps
    <3> QED BY <1>1, <1>3, <2>1, <3>1 DEF Held
  <2>4. \A g \in Numbers \ {f} : Held(g)' = Held(g) \/ Held(g)' = {}
    BY <1>8, <2>1
  <2>5. x.blocks = got
    BY <1>3 DEF FecFrame
  <2> HIDE DEF x, got
  <2>6. /\ failed \subseteq failed'
        /\ \E y \in Outputs : /\ out' = Append(out, y)
                              /\ y.blocks = got \/ (y.blocks = {} /\ f \in failed')
    <3>1. PICK y \in Outputs : /\ out' = Append(out, y)
                               /\ \/ y = x /\ failed' = failed
                                  \/ y = Lost /\ failed' = failed \cup {f}
      BY <1>6, <2>1, PushedOutput
    <3>2. Lost.blocks = {}
      BY DEF Lost
    <3>3. y.blocks = got \/ (y.blocks = {} /\ f \in failed')
      BY <2>5, <3>1, <3>2
    <3> QED BY <3>1, <3>3
  <2> QED BY <1>3, <1>5, <2>2, <2>3, <2>4, <2>6 DEF got
<1>10. CASE Holds(ts, codec, g1)
  <2>1. /\ Cardinality(g1) - SrcNb(codec.size) < Overhead /\ out' = out /\ failed' = failed
        /\ DOMAIN fec' = DOMAIN fec \cup {ts}
        /\ fec'[ts] = [size |-> codec.size, got |-> g1]
        /\ \A k \in DOMAIN fec \ {ts} : fec'[k] = fec[k]
    BY <1>10 DEF Holds
  <2>2. Cardinality(got) < SrcNb(sent[f].size) + Overhead
    BY <1>1, <1>3, <2>1
  <2>3. Held(f)' = got
    BY <1>1, <1>3, <2>1 DEF Held
  <2>4. \A g \in Numbers \ {f} : Held(g)' = Held(g) \/ Held(g)' = {}
    BY <1>8, <2>1
  <2> QED BY <1>3, <1>5, <2>1, <2>2, <2>3, <2>4
<1>11. CASE Fails(ts, f)
  <2>1. /\ out' = out /\ failed' = failed \cup {f}
        /\ DOMAIN fec' = DOMAIN fec \ {ts}
        /\ \A k \in DOMAIN fec' : fec'[k] = fec[k]
    BY <1>11 DEF Fails
  <2>2. Held(f)' = {}
    BY <1>1, <1>3, <2>1 DEF Held
  <2>3. \A g \in Numbers \ {f} : Held(g)' = Held(g) \/ Held(g)' = {}
    BY <1>8, <2>1
  <2> QED BY <1>3, <1>5, <2>1, <2>2, <2>3
<1> QED BY <1>4, <1>9, <1>10, <1>11

-----------------------------------------------------------------------------
\* A frame more in the queue is delivered to one frame of the sender.
LEMMA DeliveredAppend ==
    ASSUME TypeOK, NEW x \in Outputs, out' = Append(out, x), NEW g
    PROVE  /\ IsFiniteSet(Delivered(g)) /\ Len(out) + 1 \notin Delivered(g)
           /\ Delivered(g)' = IF \E b \in x.blocks : b[1] = g
                              THEN Delivered(g) \cup {Len(out) + 1} ELSE Delivered(g)
           /\ failed \subseteq failed' /\ Undelivered(g)' =>
                 Undelivered(g) /\ ~\E b \in x.blocks : b[1] = g
<1>1. /\ Len(out) \in Nat /\ DOMAIN out = 1..Len(out)
      /\ DOMAIN out' = DOMAIN out \cup {Len(out) + 1} /\ Len(out) + 1 \notin DOMAIN out
      /\ out'[Len(out) + 1] = x /\ \A i \in DOMAIN out : out'[i] = out[i]
  BY AppendOutput
<1>2. IsFiniteSet(DOMAIN out)
  BY <1>1, FS_Interval
<1>3. IsFiniteSet(Delivered(g)) /\ Len(out) + 1 \notin Delivered(g)
  BY <1>1, <1>2, FS_Subset DEF Delivered
<1>4. Delivered(g)' = IF \E b \in x.blocks : b[1] = g
                      THEN Delivered(g) \cup {Len(out) + 1} ELSE Delivered(g)
  BY <1>1 DEF Delivered
<1>5. failed \subseteq failed' /\ Undelivered(g)' =>
         Undelivered(g) /\ ~\E b \in x.blocks : b[1] = g
  BY <1>4 DEF Undelivered
<1> QED BY <1>3, <1>4, <1>5

\* The places in the queue can be counted, and
LEMMA DeliveredFinite ==
    ASSUME TypeOK, NEW g
    PROVE  IsFiniteSet(Delivered(g)) /\ Cardinality(Delivered(g)) \in Nat
<1>1. out \in Seq(Outputs)
  BY DEF TypeOK
<1>2. Len(out) \in Nat /\ DOMAIN out = 1..Len(out)
  BY <1>1
<1>3. IsFiniteSet(DOMAIN out)
  BY <1>2, FS_Interval
<1> QED BY <1>3, FS_Subset, FS_CardinalityType DEF Delivered

\* so can the blocks that wait.
LEMMA FewerBlocks ==
    ASSUME FrameInv, link.tsinc = 1, NEW g \in Numbers
    PROVE  IsFiniteSet(Held(g)) /\ Cardinality(Held(g)) \in Nat
<1>1. IsFiniteSet(Held(g))
  BY FS_EmptySet DEF Held, FrameInv, FecEntries, FecEntry
<1> QED BY <1>1, FS_CardinalityType

\* A delivery takes N blocks from those that wait.
LEMMA PaidReceive ==
    ASSUME FewPackets, FrameInv, NEW f \in Numbers, NEW pos \in Packets(f), Arrives(f, pos)
    PROVE  Paid'
<1> USE DEF FrameInv
<1>1. /\ pos \in Nat /\ DealWithPacket(f, pos)
      /\ UNCHANGED <<link, clock, sent>> /\ Numbers' = Numbers
      /\ arrived'[f] = arrived[f] + 1 /\ \A g \in Numbers \ {f} : arrived'[g] = arrived[g]
  BY DEF Arrives, Numbers
<1>2. SUFFICES ASSUME NEW g \in Numbers, sent[g].mode = "fec"
               PROVE  IF link.tsinc = 1
                      THEN Cardinality(Delivered(g)') * SrcNb(sent[g].size)
                              + Cardinality(Held(g)') <= arrived'[g]
                      ELSE Delivered(g)' = {}
  BY <1>1 DEF Paid, SrcNb
<1>3. /\ link.tsinc \in {0, 1} /\ SrcNb(sent[g].size) \in Nat
      /\ arrived[g] \in Nat /\ arrived'[g] \in Nat
      /\ arrived'[g] = IF g = f THEN arrived[g] + 1 ELSE arrived[g]
  BY <1>1, SentTypes, SrcNbPositive DEF Arrives, TypeOK
<1>4. link.tsinc = 1 => /\ IsFiniteSet(Held(g)) /\ Cardinality(Held(g)) \in Nat
                        /\ Cardinality(Delivered(g)) * SrcNb(sent[g].size)
                               + Cardinality(Held(g)) <= arrived[g]
  BY <1>2, FewerBlocks DEF Paid
<1>5. out' = out => Delivered(g)' = Delivered(g)
  BY DEF Delivered
<1>6. CASE sent[f].mode # "fec"
  <2>1. Held(g)' = Held(g) /\ g # f
    BY <1>1, <1>2, <1>6, UncodedStep DEF Held
  <2>2. Delivered(g)' = Delivered(g)
    <3>1. ASSUME NEW x \in Outputs, out' = Append(out, x),
                 \A b \in x.blocks : sent[b[1]].mode # "fec"
          PROVE  Delivered(g)' = Delivered(g)
      BY <1>2, <3>1, DeliveredAppend
    <3> QED BY <1>5, <1>6, <3>1, UncodedStep
  <2> QED BY <1>2, <1>3, <1>4, <2>1, <2>2 DEF Paid
<1>7. CASE sent[f].mode = "fec" /\ link.tsinc = 0
  <2>1. SrcNb(sent[f].size) >= 2 /\ PopFec(f, pos)
    BY <1>1, <1>7, Outcome
  <2>2. out' = out
    BY <1>1, <1>7, <2>1, FecResult, AudioGathers DEF Holds, Fails
  <2> QED BY <1>2, <1>5, <1>7, <2>2 DEF Paid
<1>8. CASE sent[f].mode = "fec" /\ link.tsinc = 1
  <2> DEFINE got == Held(f) \cup {<<f, pos>>}
             N == SrcNb(sent[g].size)
             d == Cardinality(Delivered(g))
             h == Cardinality(Held(g))
  <2>0. /\ \/ /\ Cardinality(got) >= SrcNb(sent[f].size) /\ Held(f)' = {}
              /\ \E x \in Outputs : /\ out' = Append(out, x)
                                    /\ x.blocks = got \/ (x.blocks = {} /\ f \in failed')
           \/ /\ Cardinality(got) < SrcNb(sent[f].size) + Overhead
              /\ out' = out /\ Held(f)' = got
           \/ out' = out /\ Held(f)' = {} /\ f \in failed'
        /\ \A b \in got : b \in Blocks /\ b[1] = f
        /\ Cardinality(Held(f)) \in Nat
        /\ Cardinality(got) = IF <<f, pos>> \in Held(f) THEN Cardinality(Held(f))
                              ELSE Cardinality(Held(f)) + 1
        /\ \A k \in Numbers \ {f} : Held(k)' = Held(k) \/ Held(k)' = {}
    BY <1>8, CodedStep
  <2> HIDE DEF got
  <2>1. /\ \A b \in got : b \in Blocks /\ b[1] = f
        /\ Cardinality(Held(f)) \in Nat
        /\ Cardinality(got) = IF <<f, pos>> \in Held(f) THEN Cardinality(Held(f))
                              ELSE Cardinality(Held(f)) + 1
        /\ \/ /\ Cardinality(got) >= SrcNb(sent[f].size) /\ Held(f)' = {}
              /\ \E x \in Outputs : out' = Append(out, x) /\ x.blocks \in {got, {}}
           \/ out' = out /\ Held(f)' = got
           \/ out' = out /\ Held(f)' = {}
        /\ \A k \in Numbers \ {f} : Held(k)' = Held(k) \/ Held(k)' = {}
    BY <2>0
  <2>3. Cardinality({}) = 0
    BY FS_EmptySet
  <2>4. d \in Nat
    BY DeliveredFinite
  <2>5. N \in Nat /\ h \in Nat /\ d * N + h <= arrived[g]
    BY <1>3, <1>4, <1>8
  <2>6. CASE g = f
    <3>1. CASE out' = out /\ Held(f)' \in {got, {}}
      <4>1. Cardinality(Held(g)') <= h + 1 /\ Cardinality(Held(g)') \in Nat
            /\ Cardinality(Delivered(g)') = d
        <5>1. Cardinality(Held(g)') <= h + 1 /\ Cardinality(Held(g)') \in Nat
          <6>1. h = Cardinality(Held(f)) /\ Held(g)' = Held(f)'
            BY <2>6
          <6>2. Cardinality(Held(f)') \in {Cardinality(got), 0}
            BY <2>3, <3>1
          <6>3. Cardinality(Held(g)') = Cardinality(Held(f)')
            BY <6>1
          <6>4. Cardinality(got) <= Cardinality(Held(f)) + 1 /\ Cardinality(got) \in Nat
                /\ Cardinality(Held(f)) \in Nat
            BY <2>1
          <6> HIDE DEF h
          <6> QED BY <6>1, <6>2, <6>3, <6>4
        <5>2. Delivered(g)' = Delivered(g)
          BY <1>5, <3>1
        <5> QED BY <5>1, <5>2
      <4>2. arrived'[g] = arrived[g] + 1
        BY <1>3, <2>6
      <4>3. d * N \in Nat
        BY <2>4, <2>5
      <4> HIDE DEF d, N, h
      <4>4. d * N + Cardinality(Held(g)') <= arrived'[g]
        BY <1>3, <2>5, <4>1, <4>2, <4>3
      <4> QED BY <1>8, <4>1, <4>4 DEF N
    <3>2. CASE /\ Cardinality(got) >= SrcNb(sent[f].size) /\ Held(f)' = {}
               /\ \E x \in Outputs : out' = Append(out, x) /\ x.blocks \in {got, {}}
      <4>1. Delivered(g)' \subseteq Delivered(g) \cup {Len(out) + 1}
            /\ Len(out) + 1 \notin Delivered(g) /\ IsFiniteSet(Delivered(g))
        BY <3>2, DeliveredAppend
      <4>2. Cardinality(Delivered(g)') <= d + 1 /\ Cardinality(Delivered(g)') \in Nat
        <5>1. IsFiniteSet(Delivered(g) \cup {Len(out) + 1})
              /\ Cardinality(Delivered(g) \cup {Len(out) + 1}) = d + 1
          BY <4>1, FS_AddElement
        <5>2. /\ IsFiniteSet(Delivered(g)')
              /\ Cardinality(Delivered(g)') <= Cardinality(Delivered(g) \cup {Len(out) + 1})
          BY <4>1, <5>1, FS_Subset
        <5> QED BY <5>1, <5>2, FS_CardinalityType
      <4>3. N <= h + 1 /\ arrived'[g] = arrived[g] + 1 /\ Cardinality(Held(g)') = 0
        BY <1>3, <2>1, <2>3, <2>6, <3>2
      <4> HIDE DEF d, N, h
      <4>4. (d + 1) * N = d * N + N /\ d * N \in Nat
        BY <2>4, <2>5
      <4>5. (d + 1) * N + 0 <= arrived'[g]
        BY <1>3, <2>5, <4>3, <4>4
      <4>6. Cardinality(Delivered(g)') * N <= (d + 1) * N /\ Cardinality(Delivered(g)') * N \in Nat
        BY <2>4, <2>5, <4>2
      <4>7. (d + 1) * N \in Nat /\ arrived'[g] \in Nat
        BY <1>3, <2>4, <2>5
      <4> QED BY <1>8, <4>3, <4>5, <4>6, <4>7 DEF N
    <3> QED BY <2>1, <3>1, <3>2
  <2>7. CASE g # f
    <3>1. Delivered(g)' = Delivered(g)
      <4>1. ASSUME NEW x \in Outputs, out' = Append(out, x), x.blocks \in {got, {}}
            PROVE  Delivered(g)' = Delivered(g)
        <5>1. ~\E b \in x.blocks : b[1] = g
          BY <2>1, <2>7, <4>1
        <5> QED BY <4>1, <5>1, DeliveredAppend
      <4> QED BY <1>5, <2>1, <4>1
    <3>2. Cardinality(Held(g)') <= h /\ Cardinality(Held(g)') \in Nat
      <4>1. Held(g)' = Held(g) \/ Held(g)' = {}
        BY <2>1, <2>7
      <4>2. Cardinality(Held(g)') = h \/ Cardinality(Held(g)') = 0
        BY <2>3, <4>1
      <4> HIDE DEF h
      <4> QED BY <2>5, <4>2
    <3>3. d * N \in Nat /\ arrived'[g] = arrived[g]
      BY <1>3, <2>4, <2>5, <2>7
    <3> HIDE DEF d, N, h
    <3>4. d * N + Cardinality(Held(g)') <= arrived'[g]
      BY <1>3, <2>5, <3>2, <3>3
    <3> QED BY <1>8, <3>1, <3>4 DEF d, N
  <2> QED BY <2>6, <2>7
<1> QED BY <1>3, <1>6, <1>7, <1>8

-----------------------------------------------------------------------------
\* In an ordered network each frame's packets come before those of the next.
LEMMA EnoughReceive ==
    ASSUME FewPackets, FrameInv, NEW f \in Numbers, NEW pos \in Packets(f), Arrives(f, pos)
    PROVE  Enough'
<1> USE DEF FrameInv
<1>1. /\ pos \in Nat /\ DealWithPacket(f, pos)
      /\ UNCHANGED <<link, clock, sent>> /\ Numbers' = Numbers
      /\ net' \subseteq net
      /\ arrived'[f] = arrived[f] + 1 /\ \A g \in Numbers \ {f} : arrived'[g] = arrived[g]
  BY DEF Arrives, Numbers
<1>2. SUFFICES ASSUME InOrderNet
               PROVE  /\ \A q \in net', g \in Numbers : arrived'[g] > 0 => g <= q.frame
                      /\ \A g \in Numbers : \A b \in Held(g)', q \in net' : b # <<q.frame, q.pos>>
                      /\ \A g \in Numbers : sent[g].mode = "fec" /\ Undelivered(g)' =>
                            /\ arrived'[g] < SrcNb(sent[g].size) + Overhead
                            /\ \/ arrived'[g] = Cardinality(Held(g)')
                               \/ \A q \in net' : q.frame > g
  BY <1>1 DEF Enough, InOrderNet, SrcNb
<1>3. /\ link.tsinc = 1 /\ \A q \in net' : q.frame >= f /\ <<q.frame, q.pos>> # <<f, pos>>
  BY <1>2 DEF InOrderNet, Arrives
<1>4. PICK p \in net : p.frame = f /\ p.pos = pos
  BY DEF Arrives
<1>5. /\ \A q \in net, g \in Numbers : arrived[g] > 0 => g <= q.frame
      /\ \A g \in Numbers : \A b \in Held(g), q \in net : b # <<q.frame, q.pos>>
      /\ \A g \in Numbers : sent[g].mode = "fec" /\ Undelivered(g) =>
            /\ arrived[g] < SrcNb(sent[g].size) + Overhead
            /\ \/ arrived[g] = Cardinality(Held(g))
               \/ \A q \in net : q.frame > g
  BY <1>2 DEF Enough
<1>6. /\ f \in Nat /\ \A g \in Numbers : g \in Nat /\ arrived[g] \in Nat
      /\ \A q \in net : q.frame \in Nat
  <2>1. \A g \in Numbers : g \in Nat /\ arrived[g] \in Nat
    <3>1. Numbers = 1..Len(sent) /\ Len(sent) \in Nat
      BY SentTypes
    <3>2. arrived \in [Numbers -> Nat]
      BY DEF TypeOK
    <3> QED BY <3>1, <3>2
  <2>2. \A q \in net : q.frame \in Numbers
    BY DEF TypeOK
  <2> QED BY <2>1, <2>2
<1>7. \A q \in net', g \in Numbers : arrived'[g] > 0 => g <= q.frame
  BY <1>1, <1>3, <1>5, <1>6
<1> DEFINE got == Held(f) \cup {<<f, pos>>}
<1>13. sent[f].mode = "fec" =>
          /\ Cardinality(got) = IF <<f, pos>> \in Held(f) THEN Cardinality(Held(f))
                                ELSE Cardinality(Held(f)) + 1
          /\ failed \subseteq failed'
          /\ \/ /\ Held(f)' = {}
                /\ \E x \in Outputs : /\ out' = Append(out, x)
                                      /\ x.blocks = got \/ f \in failed'
             \/ /\ Cardinality(got) < SrcNb(sent[f].size) + Overhead
                /\ out' = out /\ Held(f)' = got
             \/ out' = out /\ Held(f)' = {} /\ f \in failed'
          /\ \A b \in got : b[1] = f
          /\ \A g \in Numbers \ {f} : Held(g)' = Held(g) \/ Held(g)' = {}
  BY <1>3, CodedStep
<1> HIDE DEF got
<1>14. failed \subseteq failed'
  BY <1>13, UncodedStep
<1>8. \A g \in Numbers \ {f} : Held(g)' = Held(g) \/ Held(g)' = {}
  <2>1. CASE sent[f].mode = "fec"
    BY <1>13, <2>1
  <2>2. CASE sent[f].mode # "fec"
    BY <1>1, <2>2, UncodedStep DEF Held
  <2> QED BY <2>1, <2>2
<1>9. \A b \in Held(f)' : b \in got
  <2>1. CASE sent[f].mode = "fec"
    BY <1>13, <2>1
  <2>2. CASE sent[f].mode # "fec"
    <3>1. Held(f)' = Held(f)
      BY <1>1, <2>2, UncodedStep DEF Held
    <3> QED BY <3>1 DEF got
  <2> QED BY <2>1, <2>2
<1>10. ASSUME NEW g \in Numbers, NEW b \in Held(g)', NEW q \in net'
       PROVE  b # <<q.frame, q.pos>>
  <2>1. CASE g = f
    <3>1. b \in Held(f) \/ b = <<f, pos>>
      BY <1>9, <1>10, <2>1 DEF got
    <3> QED BY <1>1, <1>3, <1>5, <1>10, <3>1
  <2>2. CASE g # f
    BY <1>1, <1>5, <1>8, <1>10, <2>2
  <2> QED BY <2>1, <2>2
<1>11. \A g \in Numbers : Undelivered(g)' => Undelivered(g)
  <2>1. out' = out => \A g \in Numbers : Undelivered(g)' => Undelivered(g)
    BY <1>14 DEF Undelivered, Delivered
  <2>2. \A y \in Outputs : out' = Append(out, y) =>
            \A g \in Numbers : Undelivered(g)' => Undelivered(g)
    BY <1>14, DeliveredAppend
  <2>3. out' = out \/ \E y \in Outputs : out' = Append(out, y)
    BY <1>13, UncodedStep
  <2> QED BY <2>1, <2>2, <2>3
<1>12. ASSUME NEW g \in Numbers, sent[g].mode = "fec", Undelivered(g)'
       PROVE  /\ arrived'[g] < SrcNb(sent[g].size) + Overhead
              /\ \/ arrived'[g] = Cardinality(Held(g)')
                 \/ \A q \in net' : q.frame > g
  <2>1. /\ arrived[g] < SrcNb(sent[g].size) + Overhead
        /\ \/ arrived[g] = Cardinality(Held(g))
           \/ \A q \in net : q.frame > g
    BY <1>5, <1>11, <1>12
  <2>2. CASE g # f
    <3>1. arrived'[g] = arrived[g]
      BY <1>1, <2>2
    <3>2. CASE g < f
      BY <1>1, <1>3, <1>6, <2>1, <3>1, <3>2
    <3>3. CASE g > f
      <4>1. arrived[g] = 0
        BY <1>4, <1>5, <1>6, <3>3
      <4>2. ~\A q \in net : q.frame > g
        BY <1>4, <1>6, <3>3
      <4>3. Cardinality(Held(g)) = 0
        BY <2>1, <4>1, <4>2
      <4>4. Held(g) = {} /\ Cardinality({}) = 0
        BY <1>3, <4>3, FewerBlocks, FS_EmptySet
      <4>5. Held(g)' = {}
        BY <1>8, <2>2, <4>4
      <4> QED BY <2>1, <3>1, <4>1, <4>4, <4>5
    <3> QED BY <1>6, <2>2, <3>2, <3>3
  <2>3. CASE g = f
    <3>1. arrived[f] = Cardinality(Held(f)) /\ arrived'[f] = arrived[f] + 1
      BY <1>1, <1>4, <1>6, <2>1, <2>3
    <3>2. /\ Cardinality(got) = IF <<f, pos>> \in Held(f) THEN Cardinality(Held(f))
                                ELSE Cardinality(Held(f)) + 1
          /\ \/ \E x \in Outputs : out' = Append(out, x) /\ x.blocks = got
             \/ /\ Cardinality(got) < SrcNb(sent[f].size) + Overhead
                /\ Held(f)' = got
      <4>1. f \notin failed'
        BY <1>12, <2>3 DEF Undelivered
      <4> QED BY <1>12, <1>13, <2>3, <4>1
    <3>3. ~\E x \in Outputs : out' = Append(out, x) /\ x.blocks = got
      <4>1. <<f, pos>> \in got /\ <<f, pos>>[1] = f
        BY DEF got
      <4> QED BY <1>12, <1>14, <2>3, <4>1, DeliveredAppend
    <3>4. <<f, pos>> \notin Held(f)
      BY <1>4, <1>5
    <3> QED BY <2>3, <3>1, <3>2, <3>3, <3>4
  <2> QED BY <2>2, <2>3
<1> QED BY <1>7, <1>10, <1>12

\* A packet's arrival keeps the invariant.
LEMMA FrameReceive ==
    ASSUME FewPackets, FrameInv, Receive
    PROVE  FrameInv'
<1>1. TypeOK /\ FrameSent /\ Spaced
  BY DEF FrameInv
<1>2. PICK f \in Numbers, pos \in Nat : Arrives(f, pos)
  BY <1>1, ReceiveFacts
<1>3. pos \in Packets(f) /\ UNCHANGED <<link, clock, sent>>
  BY <1>2 DEF Arrives
<1>4. TypeOK' /\ FrameSent'
  BY <1>1, ReceiveType
<1>5. Spaced'
  BY <1>1, <1>3 DEF Spaced, Dist, Numbers
<1> QED BY <1>2, <1>3, <1>4, <1>5, FecEntriesReceive, RawReceive, WholeReceive,
           PaidReceive, EnoughReceive DEF FrameInv

\* The invariant of the frames, when the timestamps are enough.
LEMMA FrameInductive ==
    ASSUME FewPackets
    PROVE  Spec => []FrameInv
<1>1. Init => FrameInv
  <2> SUFFICES ASSUME Init
               PROVE  FrameInv
    OBVIOUS
  <2>1. sent = <<>> /\ Numbers = {} /\ net = {} /\ fec = <<>> /\ DOMAIN fec = {}
        /\ raw = <<>> /\ DOMAIN raw = {} /\ out = <<>> /\ DOMAIN out = {}
    BY DEF Init, Numbers
  <2>2. TypeOK /\ FrameSent
    BY FecInit
  <2>3. Spaced
    BY <2>1 DEF Spaced
  <2>4. FecEntries /\ RawUncoded /\ RawEntries /\ WholeFrames /\ Paid /\ Enough
    BY <2>1 DEF FecEntries, RawUncoded, RawEntries, WholeFrames, Paid, Enough
  <2> QED BY <2>2, <2>3, <2>4 DEF FrameInv
<1>2. FrameInv /\ [Next]_vars => FrameInv'
  <2>1. ASSUME FrameInv, UNCHANGED vars
        PROVE  FrameInv'
    <3> USE DEF FrameInv
    <3>1. TypeOK' /\ FrameSent'
      BY <2>1 DEF TypeOK, FrameSent, vars, Numbers, Packets, Timestamps, Blocks, Outputs
    <3>2. Spaced'
      BY <2>1 DEF Spaced, Dist, Numbers, vars
    <3>3. Numbers' = Numbers /\ UNCHANGED <<link, clock, sent, net, fec, raw, arrived, out, failed>>
      BY <2>1 DEF Numbers, vars
    <3>4. FecEntries'
      <4>1. ASSUME NEW k \in DOMAIN fec
            PROVE  FecEntry(k)'
        BY <2>1, <3>3, EntryKept DEF FecEntries
      <4> QED BY <3>3, <4>1 DEF FecEntries
    <3>5. RawUncoded' /\ RawEntries'
      <4>1. ASSUME NEW k \in DOMAIN raw, RawVideo(k)
            PROVE  RawVideo(k)'
        BY <3>3, <4>1 DEF RawVideo, Packets, SrcNb, FillSize
      <4> QED BY <2>1, <3>3, <4>1 DEF RawUncoded, RawEntries
    <3>6. WholeFrames'
      <4>1. (\A i \in DOMAIN out' : Whole(out'[i])) => WholeFrames'
        BY <3>3 DEF WholeFrames, Whole, Ids, SrcNb, FillSize
      <4> QED BY <2>1, <3>3, <4>1 DEF WholeFrames
    <3>7. /\ \A g : /\ Held(g)' = Held(g) /\ Delivered(g)' = Delivered(g)
                    /\ Undelivered(g)' = Undelivered(g)
          /\ InOrderNet' = InOrderNet
      BY <3>3 DEF Held, Delivered, Undelivered, InOrderNet
    <3>8. Paid'
      BY <2>1, <3>3, <3>7 DEF Paid, SrcNb
    <3>9. Enough'
      BY <2>1, <3>3, <3>7 DEF Enough, SrcNb
    <3> QED BY <3>1, <3>2, <3>4, <3>5, <3>6, <3>8, <3>9
  <2> QED BY <2>1, FrameSend, FrameReceive DEF Next
<1> QED BY <1>1, <1>2, PTL DEF Spec

\* Whatever the network loses, reorders or duplicates, what push_fec and pop hand
\* to the decoder is a frame of the sender and not parts of several.
THEOREM WholeFramesHold ==
    ASSUME FewPackets
    PROVE  Spec => []WholeFrames
<1>1. FrameInv => WholeFrames
  BY DEF FrameInv
<1> QED BY <1>1, FrameInductive, PTL

\* A frame that push_fec delivers again costs again N packets.
THEOREM DeliveriesPaid ==
    ASSUME FewPackets
    PROVE  Spec => []DeliveriesArePaid
<1>1. FrameInv => DeliveriesArePaid
  <2> SUFFICES ASSUME FrameInv, NEW f \in Numbers, sent[f].mode = "fec"
               PROVE  Cardinality(Delivered(f)) * SrcNb(sent[f].size) <= arrived[f]
    BY DEF DeliveriesArePaid, Delivered
  <2> USE DEF FrameInv
  <2>1. SrcNb(sent[f].size) \in Nat /\ arrived[f] \in Nat /\ link.tsinc \in {0, 1}
    BY SentTypes, SrcNbPositive DEF TypeOK
  <2>2. CASE link.tsinc = 1
    <3>1. Cardinality(Delivered(f)) * SrcNb(sent[f].size) + Cardinality(Held(f)) <= arrived[f]
          /\ Cardinality(Held(f)) \in Nat
      BY <2>2, FewerBlocks DEF Paid
    <3>2. Cardinality(Delivered(f)) \in Nat
      BY DeliveredFinite
    <3>3. Cardinality(Delivered(f)) * SrcNb(sent[f].size) \in Nat
      BY <2>1, <3>2
    <3> QED BY <2>1, <3>1, <3>3
  <2>3. CASE link.tsinc = 0
    <3>1. Cardinality(Delivered(f)) = 0
      <4>1. Delivered(f) = {}
        BY <2>3 DEF Paid
      <4> QED BY <4>1, FS_EmptySet
    <3>2. 0 * SrcNb(sent[f].size) = 0
      BY <2>1
    <3> QED BY <2>1, <3>1, <3>2
  <2> QED BY <2>1, <2>2, <2>3
<1> QED BY <1>1, FrameInductive, PTL

\* What erase_fec_map and erase_nofec_map take away was not needed any more.
THEOREM EnoughDelivered ==
    ASSUME FewPackets
    PROVE  Spec => []EnoughIsDelivered
<1>1. FrameInv => EnoughIsDelivered
  <2> SUFFICES ASSUME FrameInv, InOrderNet, NEW f \in Numbers, sent[f].mode = "fec",
                      f \notin failed, arrived[f] >= SrcNb(sent[f].size) + Overhead
               PROVE  ~Undelivered(f)
    BY DEF EnoughIsDelivered, InOrderNet, Undelivered, Delivered
  <2>1. SrcNb(sent[f].size) \in Nat /\ arrived[f] \in Nat /\ Overhead \in Nat
    BY SentTypes, SrcNbPositive, SizeAssumption DEF TypeOK, FrameInv
  <2>2. Undelivered(f) => arrived[f] < SrcNb(sent[f].size) + Overhead
    BY DEF FrameInv, Enough
  <2> QED BY <2>1, <2>2
<1> QED BY <1>1, FrameInductive, PTL
=============================================================================
