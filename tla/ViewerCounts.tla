---------------------------- MODULE ViewerCounts ----------------------------
(***************************************************************************)
(* The sockets of betting.gateway.ts and the viewers they are counted as,  *)
(* and the debounced write of the count by stream.service.ts.              *)
(*                                                                         *)
(* joinStream and joinStreamBet pass a guard that awaits a look-up of the  *)
(* address, so that their handlers run some time after the message, and    *)
(* perhaps after the disconnection of the socket.  The other handlers run  *)
(* at once.  A handler changes the maps, broadcasts the count and arms the *)
(* timer of the write in one step: nothing is awaited in between.          *)
(***************************************************************************)
EXTENDS Integers, FiniteSets

CONSTANTS
  Sockets,
  Users,
  Streams,
  UserOf,      \* the user of each socket
  NoStream, NoSocket, NoCount,
  MaxEvents    \* how many messages and disconnections: bounds the run

ASSUME OwnersAssumption == UserOf \in [Sockets -> Users]
ASSUME FiniteAssumption == IsFiniteSet(Sockets) /\ IsFiniteSet(Users)
ASSUME NothingAssumption == NoStream \notin Streams /\ NoCount \notin Nat

VARIABLES
  open,      \* the sockets that are connected
  joining,   \* of each socket and room, the messages whose guard is awaited
  meta,      \* client.data.meta: the stream the socket last joined
  viewers,   \* how many sockets count for a user on a stream
  socketOf,  \* userSocketMap: where a user is notified
  latest,    \* latestCounts: the count to be written
  armed,     \* whether updateTimers holds a timer that has not fired
  orphans,   \* how many timers run that updateTimers does not hold
  writing,   \* of each count, the writes of it that are awaited
  stored,    \* the column viewerCount
  doubted,   \* the streams whose last write was refused or overtaken
  events,
  harm       \* what happened that may leave the counts wrong

sockVars == <<open, joining, meta, viewers, socketOf>>
timerVars == <<latest, armed, orphans, writing, stored, doubted>>
vars == <<sockVars, timerVars, events, harm>>

SocketsOf(u) == {s \in Sockets : UserOf[s] = u}
Counts == 0 .. Cardinality(Users)
Lobby == "streambet"  \* the room of joinStreamBet
Rooms == Streams \cup {Lobby}
NoWrites == [n \in Counts |-> 0]
Harms == {"stray leave", "late join", "late lobby"}

TypeOK ==
  /\ open \subseteq Sockets
  /\ joining \in [Sockets -> [Rooms -> Nat]]
  /\ meta \in [Sockets -> Streams \cup {NoStream}]
  /\ viewers \in [Streams -> [Users -> Nat]]
  /\ socketOf \in [Users -> Sockets \cup {NoSocket}]
  /\ latest \in [Streams -> Counts \cup {NoCount}]
  /\ armed \in [Streams -> BOOLEAN]
  /\ orphans \in [Streams -> Nat]
  /\ writing \in [Streams -> [Counts -> Nat]]
  /\ stored \in [Streams -> Counts]
  /\ doubted \subseteq Streams
  /\ harm \subseteq Harms

Init ==
  /\ open = Sockets
  /\ joining = [s \in Sockets |-> [r \in Rooms |-> 0]]
  /\ meta = [s \in Sockets |-> NoStream]
  /\ viewers = [t \in Streams |-> [u \in Users |-> 0]]
  /\ socketOf = [u \in Users |-> NoSocket]
  /\ latest = [t \in Streams |-> NoCount]
  /\ armed = [t \in Streams |-> FALSE]
  /\ orphans = [t \in Streams |-> 0]
  /\ writing = [t \in Streams |-> NoWrites]
  /\ stored = [t \in Streams |-> 0]
  /\ doubted = {}
  /\ events = 0 /\ harm = {}

----------------------------------------------------------------------------
(***************************************************************************)
(* The viewers of a stream: users, not sockets.                            *)
(***************************************************************************)
Plus(v, t, u) == [v EXCEPT ![t][u] = @ + 1]

\* Mutation of Minus: the count is not looked at.
MinusOne(v, t, u) == [v EXCEPT ![t][u] = @ - 1]

\* removeViewer: of a user who is not counted nothing is taken away.
Minus(v, t, u) == [v EXCEPT ![t][u] = IF @ > 0 THEN @ - 1 ELSE 0]

ViewerCount(v, t) == Cardinality({u \in Users : v[t][u] > 0})

\* Mutation of Broadcast: a count that waits is not replaced.
BroadcastFirst(ts) ==
  /\ latest' = [t \in Streams |-> IF t \in ts /\ latest[t] = NoCount
                                   THEN ViewerCount(viewers', t) ELSE latest[t]]
  /\ armed' = [t \in Streams |-> armed[t] \/ t \in ts]
  /\ UNCHANGED <<orphans, writing, stored, doubted>>

\* broadcastCount and updateViewerCount of some streams: the count is kept
\* as the latest and the timer starts anew.
Broadcast(ts) ==
  /\ latest' = [t \in Streams |->
                  IF t \in ts THEN ViewerCount(viewers', t) ELSE latest[t]]
  /\ armed' = [t \in Streams |-> armed[t] \/ t \in ts]
  /\ UNCHANGED <<orphans, writing, stored, doubted>>

Event == events < MaxEvents /\ events' = events + 1

----------------------------------------------------------------------------
(***************************************************************************)
(* Messages and disconnections.                                            *)
(***************************************************************************)
Send(s, room) ==
  /\ Event
  /\ s \in open
  /\ joining' = [joining EXCEPT ![s][room] = @ + 1]
  /\ UNCHANGED <<open, meta, viewers, socketOf, timerVars, harm>>

\* The guard ends with one message of the socket, in any order, and lets it
\* pass.
Guarded(s, room) ==
  /\ joining[s][room] > 0
  /\ joining' = [joining EXCEPT ![s][room] = @ - 1]

\* The guard refuses the region or the proxy.
Blocked(s) ==
  /\ \E room \in Rooms : Guarded(s, room)
  /\ UNCHANGED <<open, meta, viewers, socketOf, timerVars, events, harm>>

Late(s, what) == IF s \in open THEN {} ELSE {what}

\* Mutation of Rejoin: a socket that is on the stream counts once more.
RejoinCounting(s, t) ==
  /\ Guarded(s, t)
  /\ meta[s] = t
  /\ viewers' = Plus(viewers, t, UserOf[s])
  /\ Broadcast({t})
  /\ UNCHANGED <<open, meta, socketOf, events, harm>>

\* handleJoinStream: a socket that is on the stream changes nothing ...
Rejoin(s, t) ==
  /\ Guarded(s, t)
  /\ meta[s] = t
  /\ UNCHANGED viewers
  /\ Broadcast({t})
  /\ UNCHANGED <<open, meta, socketOf, events, harm>>

\* ... and one that is on another stream leaves it.
Join(s, t) ==
  /\ Guarded(s, t)
  /\ meta[s] # t
  /\ LET left == IF meta[s] = NoStream THEN viewers
                 ELSE Minus(viewers, meta[s], UserOf[s])
     IN viewers' = Plus(left, t, UserOf[s])
  /\ meta' = [meta EXCEPT ![s] = t]
  /\ Broadcast({t, meta[s]} \cap Streams)
  /\ harm' = harm \cup Late(s, "late join")
  /\ UNCHANGED <<open, socketOf, events>>

\* handleLeaveStream takes the user off the stream of the message, whatever
\* the socket has joined.
Leave(s, t) ==
  /\ Event
  /\ s \in open
  /\ viewers' = Minus(viewers, t, UserOf[s])
  /\ meta' = [meta EXCEPT ![s] = IF @ = t THEN NoStream ELSE @]
  /\ Broadcast({t})
  /\ harm' = IF meta[s] = t THEN harm ELSE harm \cup {"stray leave"}
  /\ UNCHANGED <<open, joining, socketOf>>

\* handleJoinStreamBet: the last socket of a user is notified.
JoinLobby(s) ==
  /\ Guarded(s, Lobby)
  /\ socketOf' = [socketOf EXCEPT ![UserOf[s]] = s]
  /\ harm' = harm \cup Late(s, "late lobby")
  /\ UNCHANGED <<open, meta, viewers, timerVars, events>>

\* Mutation of Disconnect: the user stays where he is notified.
DisconnectQuietly(s) ==
  /\ Event
  /\ s \in open
  /\ open' = open \ {s}
  /\ \/ meta[s] = NoStream /\ UNCHANGED <<viewers, timerVars>>
     \/ /\ meta[s] # NoStream
        /\ viewers' = Minus(viewers, meta[s], UserOf[s])
        /\ Broadcast({meta[s]})
  /\ UNCHANGED <<joining, meta, socketOf, harm>>

\* handleDisconnect: the user is notified no more, on no socket.
Disconnect(s) ==
  /\ Event
  /\ s \in open
  /\ open' = open \ {s}
  /\ socketOf' = [socketOf EXCEPT ![UserOf[s]] = NoSocket]
  /\ \/ meta[s] = NoStream /\ UNCHANGED <<viewers, timerVars>>
     \/ /\ meta[s] # NoStream
        /\ viewers' = Minus(viewers, meta[s], UserOf[s])
        /\ Broadcast({meta[s]})
  /\ UNCHANGED <<joining, meta, harm>>

----------------------------------------------------------------------------
(***************************************************************************)
(* The timers.  A timer that fires writes the latest count, and when that  *)
(* is done forgets the latest count and the timer of the map, which may be *)
(* ones that came during the write.                                        *)
(***************************************************************************)
TimerOfMap(t) ==
  armed[t] /\ armed' = [armed EXCEPT ![t] = FALSE] /\ UNCHANGED orphans

Orphan(t) ==
  orphans[t] > 0 /\ orphans' = [orphans EXCEPT ![t] = @ - 1] /\ UNCHANGED armed

\* updateTimers.delete, with gone orphans less: the timer of the map runs on.
DeleteTimer(t, gone) ==
  /\ armed' = [armed EXCEPT ![t] = FALSE]
  /\ orphans' = [orphans EXCEPT ![t] = @ - gone + IF armed[t] THEN 1 ELSE 0]

Fire(t) ==
  /\ latest[t] # NoCount
  /\ TimerOfMap(t) \/ Orphan(t)
  /\ writing' = [writing EXCEPT ![t][latest[t]] = @ + 1]
  /\ UNCHANGED <<sockVars, latest, stored, doubted, events, harm>>

FireForNothing(t) ==
  /\ latest[t] = NoCount
  /\ TimerOfMap(t) \/ (orphans[t] > 0 /\ DeleteTimer(t, 1))
  /\ UNCHANGED <<sockVars, latest, writing, stored, doubted, events, harm>>

Forget(t) == DeleteTimer(t, 0) /\ latest' = [latest EXCEPT ![t] = NoCount]

\* The last count that was broadcast is the one that is written.
Undisputed(t, n) == latest[t] = n /\ writing[t] = [NoWrites EXCEPT ![n] = 1]

\* The write is done, or refused and logged.
Written(t) == \E n \in Counts :
  /\ writing[t][n] > 0
  /\ \/ /\ stored' = [stored EXCEPT ![t] = n]
        /\ doubted' = IF Undisputed(t, n) THEN doubted \ {t} ELSE doubted \cup {t}
     \/ doubted' = doubted \cup {t} /\ UNCHANGED stored
  /\ writing' = [writing EXCEPT ![t][n] = @ - 1]
  /\ Forget(t)
  /\ UNCHANGED <<sockVars, events, harm>>

----------------------------------------------------------------------------
TimerStep(t) == Fire(t) \/ FireForNothing(t) \/ Written(t)

SocketStep(s) ==
  \/ Disconnect(s) \/ JoinLobby(s) \/ Blocked(s)
  \/ \E room \in Rooms : Send(s, room)
  \/ \E t \in Streams : Rejoin(s, t) \/ Join(s, t) \/ Leave(s, t)

Next == (\E s \in Sockets : SocketStep(s)) \/ (\E t \in Streams : TimerStep(t))

Spec == Init /\ [][Next]_vars

\* Timers fire, and the database answers.  Clients owe nothing.
LiveSpec == Spec /\ \A t \in Streams : WF_vars(TimerStep(t))

----------------------------------------------------------------------------
(***************************************************************************)
(* Properties.                                                             *)
(***************************************************************************)
\* The sockets that should count: those on the stream and connected.
Watching(t, u) == {s \in SocketsOf(u) : meta[s] = t /\ s \in open}

\* A user counts on a stream once per connected socket on it, however joins,
\* switches, leaves and disconnections of several sockets interleave, unless
\* a socket left a stream it is not on or joined after its disconnection.
CountsAreExact ==
  harm \cap {"stray leave", "late join"} = {}
    => \A t \in Streams, u \in Users : viewers[t][u] = Cardinality(Watching(t, u))

Settled(t) == ~armed[t] /\ orphans[t] = 0 /\ writing[t] = NoWrites

\* A user is notified on a socket of his that is connected, or nowhere.
NotifiedSocketIsOpen ==
  "late lobby" \notin harm
    => \A u \in Users : socketOf[u] # NoSocket
         => socketOf[u] \in open \cap SocketsOf(u)

\* When the clients come to rest so do the timers: none re-arms another for
\* ever, no count is left waiting without a timer, and the database has the
\* present count of each stream, unless its last write was refused or
\* overtaken by another.
CountsComeToRest ==
  <>[](\A t \in Streams :
         /\ Settled(t) /\ latest[t] = NoCount
         /\ t \in doubted \/ stored[t] = ViewerCount(viewers, t))
=============================================================================
