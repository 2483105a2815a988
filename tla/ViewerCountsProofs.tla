-------------------------- MODULE ViewerCountsProofs --------------------------
(***************************************************************************)
(* Proofs about ViewerCounts: the viewers of a stream are counted once per *)
(* connected socket, users are notified where they are connected, and when *)
(* the timers rest they leave the present count, for any sockets, users,   *)
(* streams and number of messages.                                         *)
(***************************************************************************)
EXTENDS ViewerCounts, FiniteSetTheorems, TLAPS

\* A count that waits is the present one, and a timer or a write in progress
\* will deal with it; when none waits the last write left the present count.
TimersAgree ==
  \A t \in Streams :
    /\ latest[t] # NoCount =>
         /\ latest[t] = ViewerCount(viewers, t)
         /\ armed[t] \/ orphans[t] > 0 \/ writing[t] # NoWrites
    /\ latest[t] = NoCount =>
         \/ t \in doubted
         \/ writing[t] = NoWrites /\ stored[t] = ViewerCount(viewers, t)

IInv == TypeOK /\ CountsAreExact /\ NotifiedSocketIsOpen /\ TimersAgree

----------------------------------------------------------------------------
(***************************************************************************)
(* Counts.                                                                 *)
(***************************************************************************)
Viewers == [Streams -> [Users -> Nat]]

LEMMA CountType ==
  ASSUME NEW v, NEW t
  PROVE  ViewerCount(v, t) \in Counts
<1> DEFINE S == {u \in Users : v[t][u] > 0}
<1>1. IsFiniteSet(S) /\ Cardinality(S) <= Cardinality(Users)
  <2>1. S \in SUBSET Users
    OBVIOUS
  <2> QED BY <2>1, FS_Subset, FiniteAssumption
<1>2. Cardinality(S) \in Nat /\ Cardinality(Users) \in Nat
  BY <1>1, FS_CardinalityType, FiniteAssumption
<1> HIDE DEF S
<1>3. Cardinality(S) \in Counts
  BY <1>1, <1>2 DEF Counts
<1> QED BY <1>3 DEF ViewerCount, S

LEMMA CountsType == Counts \subseteq Nat /\ NoCount \notin Counts /\ 0 \in Counts
<1>1. Cardinality(Users) \in Nat
  BY FS_CardinalityType, FiniteAssumption
<1> QED BY <1>1, NothingAssumption DEF Counts

LEMMA PlusType ==
  ASSUME NEW v \in Viewers, NEW t \in Streams, NEW u \in Users
  PROVE  /\ Plus(v, t, u) \in Viewers
         /\ Plus(v, t, u)[t][u] = v[t][u] + 1
         /\ \A w \in Users \ {u} : Plus(v, t, u)[t][w] = v[t][w]
         /\ \A x \in Streams \ {t} : Plus(v, t, u)[x] = v[x]
BY DEF Plus, Viewers

LEMMA MinusType ==
  ASSUME NEW v \in Viewers, NEW t \in Streams, NEW u \in Users
  PROVE  /\ Minus(v, t, u) \in Viewers
         /\ v[t][u] > 0 => Minus(v, t, u)[t][u] = v[t][u] - 1
         /\ \A x \in Streams, w \in Users \ {u} : Minus(v, t, u)[x][w] = v[x][w]
         /\ \A x \in Streams \ {t} : Minus(v, t, u)[x] = v[x]
<1>1. v[t][u] \in Nat /\ v[t] \in [Users -> Nat]
  BY DEF Viewers
<1> DEFINE n == IF v[t][u] > 0 THEN v[t][u] - 1 ELSE 0
<1>2. n \in Nat /\ (v[t][u] > 0 => n = v[t][u] - 1)
  BY <1>1
<1>3. Minus(v, t, u) = [v EXCEPT ![t][u] = n]
  BY DEF Minus
<1> HIDE DEF n
<1>4. \A x \in Streams \ {t} : Minus(v, t, u)[x] = v[x]
  BY <1>3 DEF Viewers
<1>5. Minus(v, t, u)[t] = [v[t] EXCEPT ![u] = n]
  BY <1>3 DEF Viewers
<1>6. \A x \in Streams, w \in Users \ {u} : Minus(v, t, u)[x][w] = v[x][w]
  BY <1>1, <1>4, <1>5
<1> QED BY <1>1, <1>2, <1>3, <1>4, <1>5, <1>6 DEF Viewers

\* Other users are counted as before.
LEMMA MinusOthers ==
  ASSUME NEW v \in Viewers, NEW t \in Streams, NEW u \in Users,
         NEW x \in Streams, NEW w \in Users, w # u
  PROVE  Minus(v, t, u)[x][w] = v[x][w]
<1>1. \A y \in Streams, z \in Users \ {u} : Minus(v, t, u)[y][z] = v[y][z]
  BY MinusType
<1> QED BY <1>1

----------------------------------------------------------------------------
(***************************************************************************)
(* What broadcasts do to the timers.                                       *)
(***************************************************************************)
LEMMA BroadcastTimers ==
  ASSUME TypeOK, TimersAgree, NEW ts, Broadcast(ts), viewers' \in Viewers,
         \A t \in Streams \ ts : viewers'[t] = viewers[t]
  PROVE  /\ TimersAgree'
         /\ latest' \in [Streams -> Counts \cup {NoCount}]
         /\ armed' \in [Streams -> BOOLEAN]
         /\ UNCHANGED <<orphans, writing, stored, doubted>>
<1>1. \A t \in Streams : ViewerCount(viewers', t) \in Counts
  BY CountType
<1>2. /\ latest' = [t \in Streams |->
                      IF t \in ts THEN ViewerCount(viewers', t) ELSE latest[t]]
      /\ armed' = [t \in Streams |-> armed[t] \/ t \in ts]
      /\ UNCHANGED <<orphans, writing, stored, doubted>>
  BY DEF Broadcast
<1>3. latest' \in [Streams -> Counts \cup {NoCount}]
  BY <1>1, <1>2 DEF TypeOK
<1>4. armed' \in [Streams -> BOOLEAN]
  <2>1. \A t \in Streams : (armed[t] \/ t \in ts) \in BOOLEAN
    OBVIOUS
  <2> QED BY <1>2, <2>1
<1>5. TimersAgree'
  <2> SUFFICES ASSUME NEW t \in Streams
               PROVE  /\ latest'[t] # NoCount =>
                           /\ latest'[t] = ViewerCount(viewers', t)
                           /\ armed'[t] \/ orphans'[t] > 0 \/ writing'[t] # NoWrites
                      /\ latest'[t] = NoCount =>
                           \/ t \in doubted'
                           \/ /\ writing'[t] = NoWrites
                              /\ stored'[t] = ViewerCount(viewers', t)
    BY DEF TimersAgree, NoWrites
  <2>1. CASE t \in ts
    <3>1. latest'[t] = ViewerCount(viewers', t) /\ armed'[t]
      BY <1>2, <2>1
    <3>2. latest'[t] # NoCount
      BY <1>1, <3>1, CountsType
    <3> QED BY <3>1, <3>2
  <2>2. CASE t \notin ts
    <3>1. ViewerCount(viewers', t) = ViewerCount(viewers, t)
      BY <2>2 DEF ViewerCount
    <3>2. latest'[t] = latest[t] /\ (armed'[t] <=> armed[t])
      BY <1>2, <2>2
    <3> QED BY <1>2, <3>1, <3>2 DEF TimersAgree
  <2> QED BY <2>1, <2>2
<1> QED BY <1>2, <1>3, <1>4, <1>5

\* Messages that leave the counts alone leave the timers alone.
LEMMA TimersUntouched ==
  ASSUME TimersAgree, UNCHANGED <<viewers, timerVars>>
  PROVE  TimersAgree'
BY DEF TimersAgree, timerVars

----------------------------------------------------------------------------
(***************************************************************************)
(* What a socket does to the sockets that count.                           *)
(***************************************************************************)
LEMMA WatchingFinite ==
  ASSUME NEW t, NEW u
  PROVE  /\ IsFiniteSet(Watching(t, u)) /\ Cardinality(Watching(t, u)) \in Nat
         /\ \A s \in Watching(t, u) : Cardinality(Watching(t, u)) > 0
<1>1. Watching(t, u) \in SUBSET Sockets
  BY DEF Watching, SocketsOf
<1>2. IsFiniteSet(Watching(t, u))
  BY <1>1, FS_Subset, FiniteAssumption
<1>3. Cardinality(Watching(t, u)) \in Nat
  BY <1>2, FS_CardinalityType
<1>4. \A s \in Watching(t, u) : Cardinality(Watching(t, u)) # 0
  BY <1>2, FS_EmptySet
<1> QED BY <1>2, <1>3, <1>4

Exact == \A t \in Streams, u \in Users : viewers[t][u] = Cardinality(Watching(t, u))

\* A socket that watched a stream stops to.
LEMMA StopsWatching ==
  ASSUME NEW s \in Sockets, NEW t \in Streams, meta[s] = t, s \in open, Exact,
         viewers \in Viewers, NEW u \in Users, UserOf[s] = u
  PROVE  /\ Minus(viewers, t, u) \in Viewers
         /\ Minus(viewers, t, u)[t][u] = Cardinality(Watching(t, u) \ {s})
<1>1. s \in Watching(t, u)
  BY DEF Watching, SocketsOf
<1>2. viewers[t][u] = Cardinality(Watching(t, u)) /\ viewers[t][u] > 0
  BY <1>1, WatchingFinite DEF Exact
<1>3. Cardinality(Watching(t, u) \ {s}) = Cardinality(Watching(t, u)) - 1
  BY <1>1, FS_RemoveElement, WatchingFinite
<1> QED BY <1>2, <1>3, MinusType

\* The streams a step does not concern are counted as before.
LEMMA SameWatching ==
  ASSUME Exact, NEW t \in Streams, NEW u \in Users, Watching(t, u)' = Watching(t, u),
         viewers'[t][u] = viewers[t][u]
  PROVE  viewers'[t][u] = Cardinality(Watching(t, u)')
BY DEF Exact

----------------------------------------------------------------------------
(***************************************************************************)
(* The steps.                                                              *)
(***************************************************************************)
LEMMA SendInvariant ==
  ASSUME IInv, NEW s \in Sockets, NEW room \in Rooms, Send(s, room)
  PROVE  IInv'
<1>1. UNCHANGED <<open, meta, viewers, socketOf, timerVars, harm>>
  BY DEF Send
<1>2. joining' \in [Sockets -> [Rooms -> Nat]]
  BY DEF Send, IInv, TypeOK
<1>3. TypeOK'
  BY <1>1, <1>2 DEF IInv, TypeOK, timerVars
<1>4. CountsAreExact' /\ NotifiedSocketIsOpen'
  BY <1>1 DEF IInv, CountsAreExact, NotifiedSocketIsOpen, Watching
<1>5. TimersAgree'
  BY <1>1, TimersUntouched DEF IInv
<1> QED BY <1>3, <1>4, <1>5 DEF IInv

LEMMA GuardedType ==
  ASSUME TypeOK, NEW s \in Sockets, NEW room \in Rooms, Guarded(s, room)
  PROVE  joining' \in [Sockets -> [Rooms -> Nat]]
<1>1. joining[s][room] \in Nat /\ joining[s][room] > 0
  BY DEF Guarded, TypeOK
<1>2. joining[s][room] - 1 \in Nat
  BY <1>1
<1> QED BY <1>2 DEF Guarded, TypeOK

LEMMA BlockedInvariant ==
  ASSUME IInv, NEW s \in Sockets, Blocked(s)
  PROVE  IInv'
<1>1. UNCHANGED <<open, meta, viewers, socketOf, timerVars, events, harm>>
  BY DEF Blocked
<1>2. joining' \in [Sockets -> [Rooms -> Nat]]
  BY GuardedType DEF Blocked, IInv
<1>3. TypeOK'
  BY <1>1, <1>2 DEF IInv, TypeOK, timerVars
<1>4. CountsAreExact' /\ NotifiedSocketIsOpen'
  BY <1>1 DEF IInv, CountsAreExact, NotifiedSocketIsOpen, Watching
<1>5. TimersAgree'
  BY <1>1, TimersUntouched DEF IInv
<1> QED BY <1>3, <1>4, <1>5 DEF IInv

LEMMA RejoinInvariant ==
  ASSUME IInv, NEW s \in Sockets, NEW t \in Streams, Rejoin(s, t)
  PROVE  IInv'
<1>1. UNCHANGED <<viewers, open, meta, socketOf, events, harm>> /\ Broadcast({t})
  BY DEF Rejoin
<1>2. joining' \in [Sockets -> [Rooms -> Nat]]
  BY GuardedType DEF Rejoin, IInv, Rooms
<1>3. /\ TimersAgree' /\ latest' \in [Streams -> Counts \cup {NoCount}]
      /\ armed' \in [Streams -> BOOLEAN]
      /\ UNCHANGED <<orphans, writing, stored, doubted>>
  BY <1>1, BroadcastTimers DEF IInv, TypeOK, Viewers
<1>4. TypeOK'
  BY <1>1, <1>2, <1>3 DEF IInv, TypeOK
<1>5. CountsAreExact'
  BY <1>1 DEF IInv, CountsAreExact, Watching
<1>6. NotifiedSocketIsOpen'
  BY <1>1 DEF IInv, NotifiedSocketIsOpen
<1> QED BY <1>3, <1>4, <1>5, <1>6 DEF IInv

\* A socket leaves the stream it was on, if any, and counts on another.
LEMMA JoinInvariant ==
  ASSUME IInv, NEW s \in Sockets, NEW t \in Streams, Join(s, t)
  PROVE  IInv'
<1>0. PICK u \in Users : UserOf[s] = u
  BY OwnersAssumption
<1> DEFINE left == IF meta[s] = NoStream THEN viewers ELSE Minus(viewers, meta[s], u)
<1>1. /\ viewers' = Plus(left, t, u) /\ meta' = [meta EXCEPT ![s] = t]
      /\ Broadcast({t, meta[s]} \cap Streams)
      /\ harm' = harm \cup Late(s, "late join") /\ meta[s] # t
      /\ UNCHANGED <<open, socketOf, events>>
  BY <1>0 DEF Join
<1>2. /\ meta \in [Sockets -> Streams \cup {NoStream}]
      /\ viewers \in Viewers
  BY DEF IInv, TypeOK, Viewers
<1>3. /\ left \in Viewers /\ \A x \in Streams \ {meta[s]} : left[x] = viewers[x]
      /\ meta[s] = NoStream => left = viewers
      /\ meta[s] # NoStream => meta[s] \in Streams /\ left = Minus(viewers, meta[s], u)
      /\ \A x \in Streams, w \in Users \ {u} : left[x][w] = viewers[x][w]
  <2>1. CASE meta[s] = NoStream
    <3>1. left = viewers
      BY <2>1
    <3> QED BY <1>2, <2>1, <3>1
  <2>2. CASE meta[s] # NoStream
    <3>1. left = Minus(viewers, meta[s], u) /\ meta[s] \in Streams
      BY <1>2, <2>2
    <3> HIDE DEF left
    <3> QED BY <1>2, <2>2, <3>1, MinusType
  <2> QED BY <2>1, <2>2
<1> HIDE DEF left
<1>4. /\ viewers' \in Viewers /\ viewers'[t][u] = left[t][u] + 1
      /\ \A w \in Users \ {u} : viewers'[t][w] = left[t][w]
      /\ \A x \in Streams \ {t} : viewers'[x] = left[x]
  BY <1>1, <1>3, PlusType
<1>5. \A x \in Streams \ ({t, meta[s]} \cap Streams) : viewers'[x] = viewers[x]
  BY <1>3, <1>4
<1>6. /\ TimersAgree' /\ latest' \in [Streams -> Counts \cup {NoCount}]
      /\ armed' \in [Streams -> BOOLEAN]
      /\ UNCHANGED <<orphans, writing, stored, doubted>>
  BY <1>1, <1>4, <1>5, BroadcastTimers DEF IInv
<1>7. TypeOK'
  <2>1. joining' \in [Sockets -> [Rooms -> Nat]]
    BY GuardedType DEF Join, IInv, Rooms
  <2>2. meta' \in [Sockets -> Streams \cup {NoStream}]
    BY <1>1, <1>2
  <2>3. harm' \subseteq Harms
    BY <1>1 DEF IInv, TypeOK, Late, Harms
  <2> QED BY <1>1, <1>4, <1>6, <2>1, <2>2, <2>3 DEF IInv, TypeOK, Viewers
<1>8. CountsAreExact'
  <2> SUFFICES ASSUME harm' \cap {"stray leave", "late join"} = {},
                      NEW x \in Streams, NEW w \in Users
               PROVE  viewers'[x][w] = Cardinality(Watching(x, w)')
    BY DEF CountsAreExact
  <2>1. s \in open /\ Exact
    BY <1>1 DEF IInv, CountsAreExact, Exact, Late
  <2>2. viewers[x][w] = Cardinality(Watching(x, w))
    BY <2>1 DEF Exact
  <2>3. CASE w # u
    <3>1. Watching(x, w)' = Watching(x, w)
      BY <1>0, <1>1, <1>2, <2>3 DEF Watching, SocketsOf
    <3>2. left[x][w] = viewers[x][w]
      BY <1>3, <2>3
    <3> QED BY <1>4, <2>2, <2>3, <3>1, <3>2
  <2>4. CASE w = u /\ x = t
    <3>1. Watching(t, u)' = Watching(t, u) \cup {s} /\ s \notin Watching(t, u)
      BY <1>0, <1>1, <1>2, <2>1 DEF Watching, SocketsOf
    <3>2. Cardinality(Watching(t, u)') = Cardinality(Watching(t, u)) + 1
      BY <3>1, FS_AddElement, WatchingFinite
    <3> QED BY <1>1, <1>3, <1>4, <2>2, <2>4, <3>2
  <2>5. CASE w = u /\ x = meta[s]
    <3>1. Watching(x, u)' = Watching(x, u) \ {s}
      BY <1>0, <1>1, <1>2, <2>5 DEF Watching, SocketsOf
    <3>2. left[x][u] = Cardinality(Watching(x, u) \ {s})
      <4>1. meta[s] # NoStream
        BY <2>5, NothingAssumption
      <4>2. Minus(viewers, x, u)[x][u] = Cardinality(Watching(x, u) \ {s})
        <5>1. meta[s] = x /\ UserOf[s] = u
          BY <1>0, <2>5
        <5> QED BY <1>2, <2>1, <5>1, StopsWatching
      <4> QED BY <1>3, <2>5, <4>1, <4>2
    <3> QED BY <1>1, <1>4, <2>5, <3>1, <3>2
  <2>6. CASE w = u /\ x \notin {t, meta[s]}
    <3>1. Watching(x, u)' = Watching(x, u)
      BY <1>0, <1>1, <1>2, <2>6 DEF Watching, SocketsOf
    <3> QED BY <1>5, <2>2, <2>6, <3>1
  <2> QED BY <2>3, <2>4, <2>5, <2>6
<1>9. NotifiedSocketIsOpen'
  BY <1>1 DEF IInv, NotifiedSocketIsOpen
<1> QED BY <1>6, <1>7, <1>8, <1>9 DEF IInv

LEMMA LeaveInvariant ==
  ASSUME IInv, NEW s \in Sockets, NEW t \in Streams, Leave(s, t)
  PROVE  IInv'
<1>0. PICK u \in Users : UserOf[s] = u
  BY OwnersAssumption
<1>1. /\ s \in open /\ viewers' = Minus(viewers, t, u)
      /\ meta' = [meta EXCEPT ![s] = IF @ = t THEN NoStream ELSE @]
      /\ Broadcast({t})
      /\ harm' = IF meta[s] = t THEN harm ELSE harm \cup {"stray leave"}
      /\ UNCHANGED <<open, joining, socketOf>>
  BY <1>0 DEF Leave
<1>2. /\ meta \in [Sockets -> Streams \cup {NoStream}]
      /\ viewers \in Viewers
  BY DEF IInv, TypeOK, Viewers
<1>3. viewers' \in Viewers /\ \A x \in Streams \ {t} : viewers'[x] = viewers[x]
  BY <1>1, <1>2, MinusType
<1>4. /\ TimersAgree' /\ latest' \in [Streams -> Counts \cup {NoCount}]
      /\ armed' \in [Streams -> BOOLEAN]
      /\ UNCHANGED <<orphans, writing, stored, doubted>>
  BY <1>1, <1>3, BroadcastTimers DEF IInv
<1>5. TypeOK'
  <2>1. meta' \in [Sockets -> Streams \cup {NoStream}]
    BY <1>1, <1>2
  <2>2. harm' \subseteq Harms
    BY <1>1 DEF IInv, TypeOK, Harms
  <2> QED BY <1>1, <1>3, <1>4, <2>1, <2>2 DEF IInv, TypeOK, Viewers
<1>6. CountsAreExact'
  <2> SUFFICES ASSUME harm' \cap {"stray leave", "late join"} = {},
                      NEW x \in Streams, NEW w \in Users
               PROVE  viewers'[x][w] = Cardinality(Watching(x, w)')
    BY DEF CountsAreExact
  <2>1. meta[s] = t /\ Exact
    BY <1>1 DEF IInv, CountsAreExact, Exact
  <2>2. meta' = [meta EXCEPT ![s] = NoStream] /\ t # NoStream
    BY <1>1, <2>1, NothingAssumption
  <2>3. CASE w = u /\ x = t
    <3>1. Watching(t, u)' = Watching(t, u) \ {s}
      BY <1>0, <1>1, <1>2, <2>2, <2>3 DEF Watching, SocketsOf
    <3>2. Minus(viewers, t, u)[t][u] = Cardinality(Watching(t, u) \ {s})
      BY <1>0, <1>1, <1>2, <2>1, StopsWatching
    <3> QED BY <1>1, <2>3, <3>1, <3>2
  <2>4. CASE w # u
    <3>1. Watching(x, w)' = Watching(x, w)
      BY <1>0, <1>1, <1>2, <2>2, <2>4 DEF Watching, SocketsOf
    <3>2. viewers'[x][w] = viewers[x][w]
      <4>1. viewers \in Viewers
        BY <1>2
      <4>2. Minus(viewers, t, u)[x][w] = viewers[x][w]
        BY ONLY <2>4, <4>1, t \in Streams, u \in Users, x \in Streams, w \in Users,
                MinusOthers
      <4> QED BY <1>1, <4>2
    <3> QED BY <2>1, <3>1, <3>2, SameWatching
  <2>5. CASE x # t
    <3>1. Watching(x, w)' = Watching(x, w)
      <4>1. x # NoStream
        BY NothingAssumption
      <4> QED BY <1>0, <1>1, <1>2, <2>1, <2>2, <2>5, <4>1 DEF Watching, SocketsOf
    <3>2. viewers'[x][w] = viewers[x][w]
      BY <1>3, <2>5
    <3> QED BY <2>1, <3>1, <3>2, SameWatching
  <2> QED BY <2>3, <2>4, <2>5
<1>7. NotifiedSocketIsOpen'
  BY <1>1 DEF IInv, NotifiedSocketIsOpen
<1> QED BY <1>4, <1>5, <1>6, <1>7 DEF IInv

LEMMA JoinLobbyInvariant ==
  ASSUME IInv, NEW s \in Sockets, JoinLobby(s)
  PROVE  IInv'
<1>1. /\ socketOf' = [socketOf EXCEPT ![UserOf[s]] = s]
      /\ harm' = harm \cup Late(s, "late lobby")
      /\ UNCHANGED <<open, meta, viewers, timerVars, events>>
  BY DEF JoinLobby
<1>2. UserOf[s] \in Users /\ socketOf \in [Users -> Sockets \cup {NoSocket}]
  BY OwnersAssumption DEF IInv, TypeOK
<1>3. TypeOK'
  <2>1. joining' \in [Sockets -> [Rooms -> Nat]]
    BY GuardedType DEF JoinLobby, IInv, Rooms
  <2>2. harm' \subseteq Harms
    BY <1>1 DEF IInv, TypeOK, Late, Harms
  <2> QED BY <1>1, <1>2, <2>1, <2>2 DEF IInv, TypeOK, timerVars
<1>4. CountsAreExact'
  BY <1>1 DEF IInv, CountsAreExact, Watching
<1>5. NotifiedSocketIsOpen'
  BY <1>1, <1>2 DEF IInv, NotifiedSocketIsOpen, Late, SocketsOf
<1>6. TimersAgree'
  BY <1>1, TimersUntouched DEF IInv
<1> QED BY <1>3, <1>4, <1>5, <1>6 DEF IInv

LEMMA DisconnectInvariant ==
  ASSUME IInv, NEW s \in Sockets, Disconnect(s)
  PROVE  IInv'
<1>0. PICK u \in Users : UserOf[s] = u
  BY OwnersAssumption
<1>1. /\ s \in open /\ open' = open \ {s}
      /\ socketOf' = [socketOf EXCEPT ![u] = NoSocket]
      /\ UNCHANGED <<joining, meta, harm>>
  BY <1>0 DEF Disconnect
<1>2. /\ meta \in [Sockets -> Streams \cup {NoStream}]
      /\ viewers \in Viewers /\ socketOf \in [Users -> Sockets \cup {NoSocket}]
  BY DEF IInv, TypeOK, Viewers
<1>3. NotifiedSocketIsOpen'
  <2> SUFFICES ASSUME "late lobby" \notin harm', NEW w \in Users,
                      socketOf'[w] # NoSocket
               PROVE  socketOf'[w] \in open' \cap SocketsOf(w)
    BY DEF NotifiedSocketIsOpen, SocketsOf
  <2>1. w # u /\ socketOf'[w] = socketOf[w]
    BY <1>1, <1>2
  <2>2. socketOf[w] \in open \cap SocketsOf(w)
    BY <1>1, <2>1 DEF IInv, NotifiedSocketIsOpen
  <2>3. socketOf[w] # s
    BY <1>0, <2>1, <2>2 DEF SocketsOf
  <2>4. socketOf[w] \in open' /\ socketOf[w] \in SocketsOf(w)
    BY <1>1, <2>2, <2>3
  <2> QED BY <2>1, <2>4
<1>4. \A x \in Streams, w \in Users :
        Watching(x, w)' = IF x = meta[s] /\ w = u THEN Watching(x, w) \ {s}
                          ELSE Watching(x, w)
  <2> SUFFICES ASSUME NEW x \in Streams, NEW w \in Users
               PROVE  Watching(x, w)' = IF x = meta[s] /\ w = u
                                        THEN Watching(x, w) \ {s} ELSE Watching(x, w)
    OBVIOUS
  <2>1. Watching(x, w)' = Watching(x, w) \ {s}
    BY <1>1 DEF Watching, SocketsOf
  <2>2. s \in Watching(x, w) => x = meta[s] /\ w = u
    BY <1>0 DEF Watching, SocketsOf
  <2> QED BY <2>1, <2>2
<1>5. CASE meta[s] = NoStream
  <2>1. UNCHANGED <<viewers, timerVars>>
    BY <1>5 DEF Disconnect
  <2>2. TypeOK'
    BY <1>1, <1>2, <2>1 DEF IInv, TypeOK, timerVars
  <2>3. CountsAreExact'
    <3>1. \A x \in Streams, w \in Users : Watching(x, w)' = Watching(x, w)
      BY <1>4, <1>5, NothingAssumption
    <3> QED BY <1>1, <2>1, <3>1 DEF IInv, CountsAreExact
  <2>4. TimersAgree'
    BY <2>1, TimersUntouched DEF IInv
  <2> QED BY <1>3, <2>2, <2>3, <2>4 DEF IInv
<1>6. CASE meta[s] # NoStream
  <2> DEFINE t == meta[s]
  <2>1. t \in Streams /\ viewers' = Minus(viewers, t, u) /\ Broadcast({t})
    BY <1>0, <1>2, <1>6 DEF Disconnect
  <2> HIDE DEF t
  <2>2. viewers' \in Viewers /\ \A x \in Streams \ {t} : viewers'[x] = viewers[x]
    BY <1>2, <2>1, MinusType
  <2>3. /\ TimersAgree' /\ latest' \in [Streams -> Counts \cup {NoCount}]
        /\ armed' \in [Streams -> BOOLEAN]
        /\ UNCHANGED <<orphans, writing, stored, doubted>>
    BY <2>1, <2>2, BroadcastTimers DEF IInv
  <2>4. TypeOK'
    BY <1>1, <1>2, <2>2, <2>3 DEF IInv, TypeOK, Viewers
  <2>5. CountsAreExact'
    <3> SUFFICES ASSUME harm' \cap {"stray leave", "late join"} = {},
                        NEW x \in Streams, NEW w \in Users
                 PROVE  viewers'[x][w] = Cardinality(Watching(x, w)')
      BY DEF CountsAreExact
    <3>1. Exact
      BY <1>1 DEF IInv, CountsAreExact, Exact
    <3>2. CASE x = t /\ w = u
      <4>1. Minus(viewers, t, u)[t][u] = Cardinality(Watching(t, u) \ {s})
        <5>1. meta[s] = t
          BY DEF t
        <5> QED BY <1>0, <1>1, <1>2, <2>1, <3>1, <5>1, StopsWatching
      <4>2. Watching(x, w)' = Watching(t, u) \ {s}
        BY <1>4, <3>2 DEF t
      <4> QED BY <2>1, <3>2, <4>1, <4>2
    <3>3. CASE x # t
      BY <1>4, <2>2, <3>1, <3>3, SameWatching DEF t
    <3>4. CASE w # u
      <4>1. viewers'[x][w] = viewers[x][w]
        <5>1. viewers \in Viewers /\ t \in Streams
          BY <1>2, <2>1
        <5>2. Minus(viewers, t, u)[x][w] = viewers[x][w]
          BY ONLY <3>4, <5>1, u \in Users, x \in Streams, w \in Users, MinusOthers
        <5> QED BY <2>1, <5>2
      <4> QED BY <1>4, <3>1, <3>4, <4>1, SameWatching
    <3> QED BY <3>2, <3>3, <3>4
  <2> QED BY <1>3, <2>3, <2>4, <2>5 DEF IInv
<1> QED BY <1>5, <1>6

----------------------------------------------------------------------------
(***************************************************************************)
(* The timers.                                                             *)
(***************************************************************************)
\* The steps of the timers leave the sockets and the counts alone.
LEMMA SocketsUntouched ==
  ASSUME IInv, UNCHANGED <<sockVars, harm>>
  PROVE  /\ CountsAreExact' /\ NotifiedSocketIsOpen'
         /\ \A t \in Streams : ViewerCount(viewers', t) = ViewerCount(viewers, t)
BY DEF IInv, CountsAreExact, NotifiedSocketIsOpen, Watching, sockVars

LEMMA FireInvariant ==
  ASSUME IInv, NEW t \in Streams, Fire(t)
  PROVE  IInv'
<1>1. /\ latest[t] # NoCount
      /\ writing' = [writing EXCEPT ![t][latest[t]] = @ + 1]
      /\ UNCHANGED <<sockVars, latest, stored, doubted, events, harm>>
  BY DEF Fire
<1>2. /\ latest \in [Streams -> Counts \cup {NoCount}]
      /\ writing \in [Streams -> [Counts -> Nat]]
      /\ armed \in [Streams -> BOOLEAN] /\ orphans \in [Streams -> Nat]
  BY DEF IInv, TypeOK
<1>3. PICK n \in Counts : latest[t] = n
  BY <1>1, <1>2
<1>4. armed' \in [Streams -> BOOLEAN] /\ orphans' \in [Streams -> Nat]
      /\ \A x \in Streams \ {t} : orphans'[x] = orphans[x] /\ (armed'[x] <=> armed[x])
  <2>1. CASE TimerOfMap(t)
    BY <1>2, <2>1 DEF TimerOfMap
  <2>2. CASE Orphan(t)
    <3>1. orphans[t] - 1 \in Nat
      BY <1>2, <2>2 DEF Orphan
    <3> QED BY <1>2, <2>2, <3>1 DEF Orphan
  <2> QED BY <2>1, <2>2 DEF Fire
<1>5. /\ writing' \in [Streams -> [Counts -> Nat]]
      /\ \A x \in Streams \ {t} : writing'[x] = writing[x]
      /\ writing'[t] # NoWrites
  <2>1. writing' = [writing EXCEPT ![t][n] = writing[t][n] + 1]
    BY <1>1, <1>3
  <2>2. writing[t][n] \in Nat /\ writing[t][n] + 1 \in Nat /\ writing[t][n] + 1 # 0
    BY <1>2
  <2>3. writing'[t] = [writing[t] EXCEPT ![n] = writing[t][n] + 1]
    BY <1>2, <2>1
  <2>4. writing'[t][n] # 0
    BY <1>2, <2>2, <2>3
  <2>5. NoWrites[n] = 0
    BY DEF NoWrites
  <2>6. writing'[t] # NoWrites
    BY <2>4, <2>5
  <2>7. writing' \in [Streams -> [Counts -> Nat]]
    BY <1>2, <2>1, <2>2
  <2> QED BY <1>2, <2>1, <2>6, <2>7
<1>6. TypeOK'
  BY <1>1, <1>4, <1>5 DEF IInv, TypeOK, sockVars
<1>7. TimersAgree'
  <2> SUFFICES ASSUME NEW x \in Streams
               PROVE  /\ latest'[x] # NoCount =>
                           /\ latest'[x] = ViewerCount(viewers', x)
                           /\ armed'[x] \/ orphans'[x] > 0 \/ writing'[x] # NoWrites
                      /\ latest'[x] = NoCount =>
                           \/ x \in doubted'
                           \/ /\ writing'[x] = NoWrites
                              /\ stored'[x] = ViewerCount(viewers', x)
    BY DEF TimersAgree, NoWrites
  <2>1. ViewerCount(viewers', x) = ViewerCount(viewers, x)
    BY <1>1, SocketsUntouched
  <2>2. CASE x = t
    BY <1>1, <1>5, <2>1, <2>2 DEF IInv, TimersAgree
  <2>3. CASE x # t
    BY <1>1, <1>4, <1>5, <2>1, <2>3 DEF IInv, TimersAgree
  <2> QED BY <2>2, <2>3
<1> QED BY <1>1, <1>6, <1>7, SocketsUntouched DEF IInv

\* A timer that is deleted while it runs becomes an orphan.
LEMMA DeletedTimer ==
  ASSUME TypeOK, NEW t \in Streams, NEW gone \in Nat, DeleteTimer(t, gone),
         gone <= orphans[t]
  PROVE  /\ armed' \in [Streams -> BOOLEAN] /\ orphans' \in [Streams -> Nat]
         /\ \A x \in Streams \ {t} :
              orphans'[x] = orphans[x] /\ (armed'[x] <=> armed[x])
<1>1. orphans[t] \in Nat
  BY DEF TypeOK
<1> DEFINE k == orphans[t] - gone + IF armed[t] THEN 1 ELSE 0
<1>2. k \in Nat
  BY <1>1
<1>3. orphans' = [orphans EXCEPT ![t] = k] /\ armed' = [armed EXCEPT ![t] = FALSE]
  BY DEF DeleteTimer
<1> HIDE DEF k
<1> QED BY <1>2, <1>3 DEF TypeOK

LEMMA FireForNothingInvariant ==
  ASSUME IInv, NEW t \in Streams, FireForNothing(t)
  PROVE  IInv'
<1>1. /\ latest[t] = NoCount
      /\ UNCHANGED <<sockVars, latest, writing, stored, doubted, events, harm>>
  BY DEF FireForNothing
<1>2. armed' \in [Streams -> BOOLEAN] /\ orphans' \in [Streams -> Nat]
      /\ \A x \in Streams \ {t} : orphans'[x] = orphans[x] /\ (armed'[x] <=> armed[x])
  <2>1. CASE TimerOfMap(t)
    BY <2>1 DEF TimerOfMap, IInv, TypeOK
  <2>2. CASE orphans[t] > 0 /\ DeleteTimer(t, 1)
    <3>1. 1 <= orphans[t]
      BY <2>2 DEF IInv, TypeOK
    <3> QED BY <2>2, <3>1, DeletedTimer DEF IInv
  <2> QED BY <2>1, <2>2 DEF FireForNothing
<1>3. TypeOK'
  BY <1>1, <1>2 DEF IInv, TypeOK, sockVars
<1>4. TimersAgree'
  <2> SUFFICES ASSUME NEW x \in Streams
               PROVE  /\ latest'[x] # NoCount =>
                           /\ latest'[x] = ViewerCount(viewers', x)
                           /\ armed'[x] \/ orphans'[x] > 0 \/ writing'[x] # NoWrites
                      /\ latest'[x] = NoCount =>
                           \/ x \in doubted'
                           \/ /\ writing'[x] = NoWrites
                              /\ stored'[x] = ViewerCount(viewers', x)
    BY DEF TimersAgree, NoWrites
  <2>1. ViewerCount(viewers', x) = ViewerCount(viewers, x)
    BY <1>1, SocketsUntouched
  <2>2. CASE x = t
    BY <1>1, <2>1, <2>2 DEF IInv, TimersAgree
  <2>3. CASE x # t
    BY <1>1, <1>2, <2>1, <2>3 DEF IInv, TimersAgree
  <2> QED BY <2>2, <2>3
<1> QED BY <1>1, <1>3, <1>4, SocketsUntouched DEF IInv

\* The last write of the count that waits leaves the present count; any other
\* leaves the stream in doubt.
LEMMA WrittenInvariant ==
  ASSUME IInv, NEW t \in Streams, Written(t)
  PROVE  IInv'
<1>1. PICK n \in Counts :
        /\ writing[t][n] > 0
        /\ \/ /\ stored' = [stored EXCEPT ![t] = n]
              /\ doubted' = IF Undisputed(t, n) THEN doubted \ {t} ELSE doubted \cup {t}
           \/ doubted' = doubted \cup {t} /\ UNCHANGED stored
        /\ writing' = [writing EXCEPT ![t][n] = @ - 1]
        /\ Forget(t)
        /\ UNCHANGED <<sockVars, events, harm>>
  BY DEF Written
<1>2. /\ writing \in [Streams -> [Counts -> Nat]]
      /\ latest \in [Streams -> Counts \cup {NoCount}]
      /\ stored \in [Streams -> Counts] /\ doubted \subseteq Streams
      /\ orphans[t] \in Nat
  BY DEF IInv, TypeOK
<1>3. /\ armed' \in [Streams -> BOOLEAN] /\ orphans' \in [Streams -> Nat]
      /\ \A x \in Streams \ {t} :
           orphans'[x] = orphans[x] /\ (armed'[x] <=> armed[x])
  <2>1. DeleteTimer(t, 0) /\ 0 <= orphans[t] /\ 0 \in Nat
    BY <1>1, <1>2 DEF Forget
  <2> QED BY <2>1, DeletedTimer DEF IInv
<1>4. /\ latest' \in [Streams -> Counts \cup {NoCount}] /\ latest'[t] = NoCount
      /\ \A x \in Streams \ {t} : latest'[x] = latest[x]
  BY <1>1, <1>2 DEF Forget
<1>5. /\ writing' \in [Streams -> [Counts -> Nat]]
      /\ writing'[t] = [writing[t] EXCEPT ![n] = writing[t][n] - 1]
      /\ \A x \in Streams \ {t} : writing'[x] = writing[x]
  <2>1. writing[t][n] \in Nat /\ writing[t][n] - 1 \in Nat
    BY <1>1, <1>2
  <2>2. writing' = [writing EXCEPT ![t][n] = writing[t][n] - 1]
    BY <1>1
  <2> QED BY <1>2, <2>1, <2>2
<1>6. /\ stored' \in [Streams -> Counts] /\ doubted' \subseteq Streams
      /\ \A x \in Streams \ {t} : stored'[x] = stored[x] /\ (x \in doubted' <=> x \in doubted)
  BY <1>1, <1>2
<1>7. TypeOK'
  BY <1>1, <1>3, <1>4, <1>5, <1>6 DEF IInv, TypeOK, sockVars
<1>8. t \in doubted' \/ (writing'[t] = NoWrites /\ stored'[t] = ViewerCount(viewers, t))
  <2> SUFFICES ASSUME t \notin doubted'
               PROVE  writing'[t] = NoWrites /\ stored'[t] = ViewerCount(viewers, t)
    OBVIOUS
  <2>1. Undisputed(t, n) /\ stored' = [stored EXCEPT ![t] = n]
    BY <1>1
  <2>2. latest[t] = n /\ writing[t] = [NoWrites EXCEPT ![n] = 1]
    BY <2>1 DEF Undisputed
  <2>3. stored'[t] = n
    BY <1>2, <2>1
  <2>4. n = ViewerCount(viewers, t)
    BY <2>2, CountsType DEF IInv, TimersAgree
  <2>5. writing'[t] = NoWrites
    <3>1. writing[t][n] = 1
      BY <2>2 DEF NoWrites
    <3>2. writing'[t] = [[NoWrites EXCEPT ![n] = 1] EXCEPT ![n] = 0]
      BY <1>5, <2>2, <3>1
    <3> QED BY <3>2 DEF NoWrites
  <2> QED BY <2>3, <2>4, <2>5
<1>9. TimersAgree'
  <2> SUFFICES ASSUME NEW x \in Streams
               PROVE  /\ latest'[x] # NoCount =>
                           /\ latest'[x] = ViewerCount(viewers', x)
                           /\ armed'[x] \/ orphans'[x] > 0 \/ writing'[x] # NoWrites
                      /\ latest'[x] = NoCount =>
                           \/ x \in doubted'
                           \/ /\ writing'[x] = NoWrites
                              /\ stored'[x] = ViewerCount(viewers', x)
    BY DEF TimersAgree, NoWrites
  <2>1. ViewerCount(viewers', x) = ViewerCount(viewers, x)
    BY <1>1, SocketsUntouched
  <2>2. CASE x = t
    BY <1>4, <1>8, <2>1, <2>2
  <2>3. CASE x # t
    BY <1>3, <1>4, <1>5, <1>6, <2>1, <2>3 DEF IInv, TimersAgree
  <2> QED BY <2>2, <2>3
<1> QED BY <1>1, <1>7, <1>9, SocketsUntouched DEF IInv

----------------------------------------------------------------------------
(***************************************************************************)
(* The invariant.                                                          *)
(***************************************************************************)
LEMMA InitInvariant == Init => IInv
<1> SUFFICES ASSUME Init PROVE IInv
  OBVIOUS
<1>1. TypeOK
  BY CountsType DEF Init, TypeOK, NoWrites, Harms
<1>2. CountsAreExact
  <2>1. \A t \in Streams, u \in Users : Watching(t, u) = {}
    BY NothingAssumption DEF Init, Watching, SocketsOf
  <2>2. \A t \in Streams, u \in Users : viewers[t][u] = 0
    BY DEF Init
  <2> QED BY <2>1, <2>2, FS_EmptySet DEF CountsAreExact
<1>3. NotifiedSocketIsOpen
  BY DEF Init, NotifiedSocketIsOpen
<1>4. TimersAgree
  <2>1. \A t \in Streams : {u \in Users : viewers[t][u] > 0} = {}
    BY DEF Init
  <2>2. \A t \in Streams : ViewerCount(viewers, t) = 0
    BY <2>1, FS_EmptySet DEF ViewerCount
  <2> QED BY <2>2 DEF Init, TimersAgree
<1> QED BY <1>1, <1>2, <1>3, <1>4 DEF IInv

LEMMA NextInvariant == IInv /\ [Next]_vars => IInv'
<1> SUFFICES ASSUME IInv, [Next]_vars PROVE IInv'
  OBVIOUS
<1>1. ASSUME NEW s \in Sockets, SocketStep(s) PROVE IInv'
  <2>1. CASE Disconnect(s)
    BY <2>1, DisconnectInvariant
  <2>2. CASE JoinLobby(s)
    BY <2>2, JoinLobbyInvariant
  <2>3. CASE Blocked(s)
    BY <2>3, BlockedInvariant
  <2>4. ASSUME NEW room \in Rooms, Send(s, room) PROVE IInv'
    BY <2>4, SendInvariant
  <2>5. ASSUME NEW t \in Streams, Rejoin(s, t) \/ Join(s, t) \/ Leave(s, t) PROVE IInv'
    BY <2>5, RejoinInvariant, JoinInvariant, LeaveInvariant
  <2> QED BY <1>1, <2>1, <2>2, <2>3, <2>4, <2>5 DEF SocketStep
<1>2. ASSUME NEW t \in Streams, TimerStep(t) PROVE IInv'
  BY <1>2, FireInvariant, FireForNothingInvariant, WrittenInvariant DEF TimerStep
<1>3. CASE UNCHANGED vars
  <2>1. UNCHANGED <<sockVars, timerVars, harm>>
    BY <1>3 DEF vars
  <2>2. TypeOK'
    BY <2>1 DEF IInv, TypeOK, sockVars, timerVars
  <2>3. TimersAgree'
    BY <2>1, TimersUntouched DEF IInv, sockVars
  <2> QED BY <2>1, <2>2, <2>3, SocketsUntouched DEF IInv
<1> QED BY <1>1, <1>2, <1>3 DEF Next

LEMMA Invariant == Spec => []IInv
BY InitInvariant, NextInvariant, PTL DEF Spec

\* Sockets, counts, timers and writes are of their types, and no counter of
\* viewers, timers or writes is ever negative, however messages, awaited
\* guards, disconnections and timers interleave.
THEOREM ViewerCountsTypeCorrect == Spec => []TypeOK
<1>1. IInv => TypeOK
  BY DEF IInv
<1> QED BY <1>1, Invariant, PTL

\* A user counts on a stream once per connected socket on it, as long as no
\* socket left a stream it is not on or joined after its disconnection.
THEOREM ViewersCountedExactly == Spec => []CountsAreExact
<1>1. IInv => CountsAreExact
  BY DEF IInv
<1> QED BY <1>1, Invariant, PTL

\* A user is notified on a socket of his that is connected, or nowhere, as long
\* as no guard of joinStreamBet ended after the disconnection.
THEOREM NotifiedWhereConnected == Spec => []NotifiedSocketIsOpen
<1>1. IInv => NotifiedSocketIsOpen
  BY DEF IInv
<1> QED BY <1>1, Invariant, PTL

\* What CountsComeToRest says of a stream at rest, in every state.
SettledIsWritten ==
  \A t \in Streams :
    Settled(t) => /\ latest[t] = NoCount
                  /\ t \in doubted \/ stored[t] = ViewerCount(viewers, t)

\* When no timer runs and no write is awaited for a stream, no count of it is
\* left waiting and the column viewerCount is the present count, unless the
\* last write was refused or overtaken: a timer that deletes another one, or a
\* write that forgets a newer count, never leaves a count behind unnoticed.
THEOREM SettledCountsAreWritten == Spec => []SettledIsWritten
<1>1. IInv => SettledIsWritten
  <2> SUFFICES ASSUME IInv, NEW t \in Streams, Settled(t)
               PROVE  /\ latest[t] = NoCount
                      /\ t \in doubted \/ stored[t] = ViewerCount(viewers, t)
    BY DEF SettledIsWritten
  <2>1. ~armed[t] /\ ~(orphans[t] > 0) /\ writing[t] = NoWrites
    BY DEF Settled
  <2>2. latest[t] = NoCount
    BY <2>1 DEF IInv, TimersAgree
  <2> QED BY <2>2 DEF IInv, TimersAgree
<1> QED BY <1>1, Invariant, PTL
=============================================================================
