----------------------------- MODULE RoundEvents -----------------------------
(***************************************************************************)
(* What the sockets on a stream are shown of a round, and what the users   *)
(* are told of their bets (betting.gateway.ts, and the calls of it from    *)
(* betting.service.ts).                                                    *)
(*                                                                         *)
(* A handler commits, then reads what it shows in further statements and   *)
(* emits it: handlers overlap, and an await may be rejected.  Whether a    *)
(* user wants the messages is read before each of them.  Of a figure only  *)
(* whether it is the present one is kept: a commit makes those that it     *)
(* changes old, on the clients and in the handlers that have read them.    *)
(*                                                                         *)
(* The same commits come over HTTP (betting.controller.ts).  There nothing *)
(* is shown after them, but for the forecasts after an edit.               *)
(*                                                                         *)
(* How requests overlap before they commit is for BettingRequests and      *)
(* RoundAdmin to say: here a handler of a user begins with its commit, and *)
(* the transactions of an administrator exclude other commits.  There is   *)
(* one round, bet on in one currency.                                      *)
(***************************************************************************)
EXTENDS Naturals, FiniteSets

CONSTANTS
  Users,
  Options,
  Handlers,     \* requests in progress
  NoUser,
  NoOption,
  MaxRequests,  \* how many requests: bounds the run
  MaxFaults     \* how many awaits are rejected: bounds the run

VARIABLES
  round,     \* the status of the round
  bet,       \* the last bet of each user, and its option while it is active
  silent,    \* which figures the last bet, of anyone or of a user, left unshown
  shown,     \* which of the figures on the clients are the present ones
  told,      \* the messages each user got of a bet
  missed,    \* the users a failure kept from being told
  handler,   \* what each request does
  requests,
  faults,
  harm       \* what happened that may leave something else shown or told

commits == <<round, bet, silent>>
clients == <<shown, told, missed>>
vars == <<commits, clients, handler, requests, faults, harm>>

Over(status) == [status |-> status, option |-> NoOption]
Statuses == {"none", "active", "cancelled", "won", "lost", "refunded"}
News == {"locked", "won", "lost", "refunded", "cancelled"}
Harms == {"overtaken", "unannounced", "rolled back"}

\* A request: its next step, its user or the option declared to win, whether
\* what it has read is still so, and the users it has still to send something.
Idle == [at |-> "idle", kind |-> "none", user |-> NoUser, option |-> NoOption,
         fresh |-> TRUE, pending |-> {}]

\* Mutation of After: the user gets an answer, the room no totals.
AfterUnseen ==
  [readEdited |-> "sendEdited", sendEdited |-> "readWallet",
   readWallet |-> "confirm", confirm |-> "readForecasts",
   readTotals |-> "update", update |-> "readForecasts",
   readForecasts |-> "sendForecasts", sendForecasts |-> "idle"]

\* The steps of a user's handler, in order: an edit starts at the first, one
\* over HTTP at the last read.
After == [readEdited |-> "sendEdited", sendEdited |-> "readWallet",
          readWallet |-> "confirm", confirm |-> "readTotals",
          readTotals |-> "update", update |-> "readForecasts",
          readForecasts |-> "sendForecasts", sendForecasts |-> "idle"]

Steps == {"idle", "refunding", "announce", "list", "telling", "losers"}
           \cup DOMAIN After
Kinds == {"none", "open", "lock", "declare", "cancelRound"}

TypeOK ==
  /\ round \in {"created", "open", "locked", "closed", "cancelled"}
  /\ bet \in [Users -> [status : Statuses, option : Options \cup {NoOption}]]
  /\ silent \in [totals : BOOLEAN, forecast : BOOLEAN, wallet : SUBSET Users]
  /\ shown \in [round : BOOLEAN, totals : BOOLEAN,
                wallet : SUBSET Users, forecast : SUBSET Users]
  /\ told \in [Users -> SUBSET News]
  /\ missed \subseteq Users
  /\ handler \in [Handlers -> [at : Steps, kind : Kinds,
                               user : Users \cup {NoUser},
                               option : Options \cup {NoOption},
                               fresh : BOOLEAN, pending : SUBSET Users]]
  /\ harm \subseteq Harms

Init ==
  /\ round = "created"
  /\ bet = [u \in Users |-> Over("none")]
  /\ silent = [totals |-> FALSE, forecast |-> FALSE, wallet |-> {}]
  /\ shown = [round |-> TRUE, totals |-> TRUE, wallet |-> Users, forecast |-> Users]
  /\ told = [u \in Users |-> {}]
  /\ missed = {}
  /\ handler = [h \in Handlers |-> Idle]
  /\ requests = 0 /\ faults = 0 /\ harm = {}

----------------------------------------------------------------------------
With(status) == {u \in Users : bet[u].status = status}
At(h, step) == handler[h].at = step
InTransaction == \E h \in Handlers : At(h, "refunding")

Begins(h) ==
  /\ At(h, "idle") /\ ~InTransaction
  /\ requests < MaxRequests /\ requests' = requests + 1

Sets(h, next) == handler' = [handler EXCEPT ![h] = next]
Ends(h) == Sets(h, Idle)

\* A request commits and goes on; what some others have read is old now.
SetsAndAges(h, next, others) ==
  handler' = [i \in Handlers |->
    IF i = h THEN next ELSE [handler[i] EXCEPT !.fresh = @ /\ i \notin others]]

\* Something old is emitted over the present figure, which was read later.
Crossed(h, present) ==
  harm' = IF present /\ ~handler[h].fresh THEN harm \cup {"overtaken"} ELSE harm

----------------------------------------------------------------------------
(***************************************************************************)
(* handlePlaceBet, handleEditBet and handleCancelBet.                      *)
(***************************************************************************)
\* Another handler of the user has an old wallet, and whoever has read totals
\* or forecasts has them old.
ReadersOf(u) ==
  {i \in Handlers :
     \/ handler[i].at \in {"sendEdited", "update", "sendForecasts"}
     \/ At(i, "confirm") /\ handler[i].user = u}

\* Where a handler goes on that answers the user's socket.
Answering == {"readEdited", "readWallet"}

\* What no step will show: over a socket, nothing.
Unshown(u, step) ==
  IF step \in Answering
    THEN [totals |-> FALSE, forecast |-> FALSE, wallet |-> silent.wallet \ {u}]
    ELSE [totals |-> TRUE, forecast |-> step = "idle", wallet |-> silent.wallet \cup {u}]

BetCommits(h, u, row, step) ==
  /\ Begins(h) /\ round = "open"
  /\ bet' = [bet EXCEPT ![u] = row]
  /\ shown' = [shown EXCEPT !.totals = FALSE, !.wallet = @ \ {u}, !.forecast = {}]
  /\ silent' = Unshown(u, step)
  /\ SetsAndAges(h, [Idle EXCEPT !.at = step,
                                !.user = IF step \in Answering THEN u ELSE NoUser],
                 ReadersOf(u))
  /\ UNCHANGED <<round, told, missed, faults, harm>>

\* Over a socket, or over HTTP, where the request ends with the commit.
Place(h, u, o) ==
  /\ bet[u].status # "active"
  /\ \E step \in {"readWallet", "idle"} :
       BetCommits(h, u, [status |-> "active", option |-> o], step)

\* editBet itself shows the forecasts, before it returns to the handler of
\* the socket or to that of the HTTP request.
Edit(h, u, o) ==
  /\ bet[u].status = "active"
  /\ \E step \in {"readEdited", "readForecasts"} :
       BetCommits(h, u, [status |-> "active", option |-> o], step)

Cancel(h, u) ==
  /\ bet[u].status = "active"
  /\ \E step \in {"readWallet", "idle"} : BetCommits(h, u, Over("cancelled"), step)

\* The wallet, the totals of the round, or the forecasts of its active bets.
Read(h) ==
  /\ handler[h].at \in {"readEdited", "readWallet", "readTotals", "readForecasts"}
  /\ Sets(h, [handler[h] EXCEPT
       !.at = After[@], !.fresh = TRUE,
       !.pending = IF handler[h].at \in {"readEdited", "readForecasts"}
                     THEN With("active") ELSE {}])
  /\ UNCHANGED <<commits, clients, requests, faults, harm>>

\* betPlaced, betEdited or betCancelled, to the sockets of the user.
Confirm(h) ==
  LET u == handler[h].user
  IN /\ At(h, "confirm")
     /\ shown' = [shown EXCEPT !.wallet = IF handler[h].fresh THEN @ \cup {u}
                                                                ELSE @ \ {u}]
     /\ Crossed(h, u \in shown.wallet)
     /\ Sets(h, [handler[h] EXCEPT !.at = After[@], !.fresh = TRUE, !.user = NoUser])
     /\ UNCHANGED <<commits, told, missed, requests, faults>>

\* bettingUpdate, to the room.
Update(h) ==
  /\ At(h, "update")
  /\ shown' = [shown EXCEPT !.totals = handler[h].fresh]
  /\ Crossed(h, shown.totals)
  /\ Sets(h, [handler[h] EXCEPT !.at = After[@], !.fresh = TRUE])
  /\ UNCHANGED <<commits, told, missed, requests, faults>>

\* sendPersonalizedPotentialAmounts, to those whose bet was active when read.
SendForecasts(h) ==
  LET to == handler[h].pending
  IN /\ handler[h].at \in {"sendEdited", "sendForecasts"}
     /\ shown' = [shown EXCEPT !.forecast = IF handler[h].fresh THEN @ \cup to
                                                                  ELSE @ \ to]
     /\ Crossed(h, to \cap shown.forecast # {})
     /\ IF At(h, "sendEdited")
          THEN Sets(h, [handler[h] EXCEPT !.at = After[@], !.fresh = TRUE, !.pending = {}])
          ELSE Ends(h)
     /\ UNCHANGED <<commits, told, missed, requests, faults>>

\* Of the forecasts a failure is logged; otherwise the client is sent an
\* error, though the bet was committed, and nothing more is shown.
HandlerFails(h) ==
  /\ handler[h].at \in DOMAIN After
  /\ faults < MaxFaults /\ faults' = faults + 1
  /\ IF handler[h].at \in {"readEdited", "sendEdited"}
       THEN /\ Sets(h, [handler[h] EXCEPT !.at = "readWallet", !.fresh = TRUE, !.pending = {}])
            /\ UNCHANGED harm
       ELSE Ends(h) /\ harm' = harm \cup {"unannounced"}
  /\ UNCHANGED <<commits, clients, requests>>

----------------------------------------------------------------------------
(***************************************************************************)
(* updateRoundStatus: the new status is saved, the room told, then each    *)
(* user: of a round that opens, whoever is in the lobby, and of one that   *)
(* is locked, whoever has an active bet.                                   *)
(***************************************************************************)
Announcing == {i \in Handlers : At(i, "announce")}

StatusCommits(h, kind, status) ==
  /\ Begins(h)
  /\ round' = status
  /\ shown' = [shown EXCEPT !.round = FALSE]
  /\ SetsAndAges(h, [Idle EXCEPT !.at = "announce", !.kind = kind], Announcing)
  /\ UNCHANGED <<bet, silent, told, missed, faults, harm>>

Open(h) == round = "created" /\ StatusCommits(h, "open", "open")

Lock(h) ==
  /\ round = "open" /\ Cardinality(With("active")) > 1
  /\ StatusCommits(h, "lock", "locked")

\* betOpened, bettingLocked, winnerDeclared or betCancelledByAdmin.
Announce(h) ==
  LET kind == handler[h].kind
  IN /\ At(h, "announce")
     /\ shown' = [shown EXCEPT !.round = handler[h].fresh]
     /\ Crossed(h, shown.round)
     /\ CASE kind = "open" ->
               Sets(h, [handler[h] EXCEPT !.at = "telling", !.fresh = TRUE, !.pending = Users])
          [] kind = "lock" -> Sets(h, [handler[h] EXCEPT !.at = "list", !.fresh = TRUE])
          [] kind = "declare" ->
               Sets(h, [handler[h] EXCEPT !.at = "telling", !.fresh = TRUE,
                                        !.pending = With("won")])
          [] kind = "cancelRound" -> Ends(h)
     /\ UNCHANGED <<commits, told, missed, requests, faults>>

\* The stream of a round that was opened is read first: when that fails the
\* round is open and nobody knows.
OpenFails(h) ==
  /\ At(h, "announce") /\ handler[h].kind = "open"
  /\ faults < MaxFaults /\ faults' = faults + 1
  /\ harm' = harm \cup {"unannounced"}
  /\ Ends(h)
  /\ UNCHANGED <<commits, clients, requests>>

List(h) ==
  /\ At(h, "list")
  /\ Sets(h, [handler[h] EXCEPT !.at = "telling", !.pending = With("active")])
  /\ UNCHANGED <<commits, clients, requests, faults, harm>>

----------------------------------------------------------------------------
(***************************************************************************)
(* declareWinner and cancelRoundAndRefund.  Whoever is refunded is told in *)
(* the transaction, before it commits.                                     *)
(***************************************************************************)
Backers(o) == {u \in With("active") : bet[u].option = o}

\* Without winners, or without losers, all stakes are refunded.
Void(o) == Backers(o) = {} \/ Backers(o) = With("active")

Declare(h, o) ==
  /\ round = "locked" /\ Begins(h)
  /\ Sets(h, [Idle EXCEPT !.at = "refunding", !.kind = "declare", !.option = o,
                          !.pending = IF Void(o) THEN With("active") ELSE {}])
  /\ UNCHANGED <<commits, clients, faults, harm>>

CancelRound(h) ==
  /\ Begins(h)
  /\ Sets(h, [Idle EXCEPT !.at = "refunding", !.kind = "cancelRound",
                          !.pending = With("active")])
  /\ UNCHANGED <<commits, clients, faults, harm>>

\* Mutation of Result: a bet that is refunded is left to be processed.
ResultPending(h, u) == IF Void(handler[h].option) THEN "pending" ELSE "won"

\* What the transaction makes of an active bet.
Result(h, u) ==
  LET o == handler[h].option
  IN IF handler[h].kind = "cancelRound" THEN "cancelled"
       ELSE IF Void(o) THEN "refunded"
       ELSE IF u \in Backers(o) THEN "won" ELSE "lost"

\* The totals change where bets are cancelled, and are not shown then.
Settle(h) ==
  LET counted == handler[h].kind = "declare" \/ With("active") = {}
      readers == {i \in Handlers : At(i, "update")}
  IN
  /\ At(h, "refunding") /\ handler[h].pending = {}
  /\ bet' = [u \in Users |-> IF bet[u].status = "active"
               THEN Over(Result(h, u)) ELSE bet[u]]
  /\ round' = IF handler[h].kind = "declare" THEN "closed" ELSE "cancelled"
  /\ shown' = [shown EXCEPT !.round = FALSE, !.totals = @ /\ counted]
  /\ SetsAndAges(h, [handler[h] EXCEPT !.at = "announce", !.option = NoOption],
                 Announcing \cup IF counted THEN {} ELSE readers)
  /\ UNCHANGED <<silent, told, missed, requests, faults, harm>>

\* A failure undoes all but the messages, which the refunds wait for.
RollBack(h) ==
  /\ At(h, "refunding")
  /\ faults < MaxFaults /\ faults' = faults + 1
  /\ harm' = harm \cup {"rolled back"}
  /\ Ends(h)
  /\ UNCHANGED <<commits, clients, requests>>

----------------------------------------------------------------------------
(***************************************************************************)
(* The messages to single users: emitOpenBetRound, emitLockBetRound and    *)
(* the emitBotMessage functions.                                           *)
(***************************************************************************)
\* Mutation of Message: who did not win is told of a loss, refunded or not.
MessageLost(h, u) == IF At(h, "refunding") THEN "lost" ELSE "won"

Message(h, u) ==
  IF At(h, "refunding") THEN Result(h, u)
    ELSE IF At(h, "losers") THEN "lost"
    ELSE IF handler[h].kind = "lock" THEN "locked" ELSE "won"

\* The message to the lobby is about no bet and is not kept.
Tell(h, u) ==
  /\ handler[h].at \in {"refunding", "telling", "losers"}
  /\ u \in handler[h].pending
  /\ told' = IF handler[h].kind = "open" THEN told
               ELSE [told EXCEPT ![u] = @ \cup {Message(h, u)}]
  /\ Sets(h, [handler[h] EXCEPT !.pending = @ \ {u}])
  /\ UNCHANGED <<commits, shown, missed, requests, faults, harm>>

\* Mutation of Told: the losers are not told.
ToldWinners(h) ==
  /\ handler[h].at \in {"telling", "losers"} /\ handler[h].pending = {}
  /\ Ends(h)
  /\ UNCHANGED <<commits, clients, requests, faults, harm>>

\* The losers are told when all winners have been.
Told(h) ==
  /\ handler[h].at \in {"telling", "losers"} /\ handler[h].pending = {}
  /\ IF At(h, "telling") /\ handler[h].kind = "declare"
       THEN Sets(h, [handler[h] EXCEPT !.at = "losers", !.pending = With("lost")])
       ELSE Ends(h)
  /\ UNCHANGED <<commits, clients, requests, faults, harm>>

\* Those whom a handler has still to tell.
Untold(h) ==
  handler[h].pending \cup
    CASE handler[h].kind = "lock" /\ handler[h].at \in {"announce", "list"} ->
           With("active")
      [] handler[h].kind = "declare" /\ At(h, "announce") -> With("won") \cup With("lost")
      [] handler[h].kind = "declare" /\ At(h, "telling") -> With("lost")
      [] OTHER -> {}

\* One message that fails ends the loop: the request of the administrator
\* fails, though what it asked for was committed.
TellingFails(h) ==
  /\ \/ At(h, "list")
     \/ At(h, "telling") /\ handler[h].pending # {} /\ handler[h].kind # "open"
  /\ faults < MaxFaults /\ faults' = faults + 1
  /\ missed' = missed \cup Untold(h)
  /\ Ends(h)
  /\ UNCHANGED <<commits, shown, told, requests, harm>>

\* The losers, and the lobby, are told by promises that nothing awaits: a
\* failure ends the process, with every request in progress.
Unhandled(h) ==
  /\ handler[h].pending # {}
  /\ \/ At(h, "losers")
     \/ At(h, "telling") /\ handler[h].kind = "open"
  /\ faults < MaxFaults /\ faults' = faults + 1
  /\ missed' = missed \cup UNION {Untold(i) : i \in Handlers}
  /\ harm' = harm \cup {"unannounced", "rolled back"}
  /\ handler' = [i \in Handlers |-> Idle]
  /\ UNCHANGED <<commits, shown, told, requests>>

----------------------------------------------------------------------------
Continue(h) ==
  \/ Read(h) \/ Confirm(h) \/ Update(h) \/ SendForecasts(h)
  \/ Announce(h) \/ List(h) \/ Settle(h) \/ Told(h)
  \/ \E u \in Users : Tell(h, u)

Fault(h) ==
  HandlerFails(h) \/ OpenFails(h) \/ RollBack(h) \/ TellingFails(h) \/ Unhandled(h)

Request(h) ==
  \/ \E u \in Users : Cancel(h, u) \/ \E o \in Options : Place(h, u, o) \/ Edit(h, u, o)
  \/ Open(h) \/ Lock(h) \/ CancelRound(h) \/ \E o \in Options : Declare(h, o)

Next == \E h \in Handlers : Request(h) \/ Continue(h) \/ Fault(h)

Spec == Init /\ [][Next]_vars

----------------------------------------------------------------------------
(***************************************************************************)
(* Properties.                                                             *)
(***************************************************************************)
AtRest == \A h \in Handlers : At(h, "idle")

\* When no request is in progress the room has been shown the present status
\* of the round and, unless it was cancelled, its totals, every user the
\* wallet after his last request, and every bettor what the present pools
\* promise, unless an await failed or a figure that was read earlier was
\* emitted later.  What a bet over HTTP changed is left out until somebody,
\* or for the wallet the user, bets over a socket: it shows no totals and no
\* wallet, and forecasts only after an edit.
RoomIsUpToDate ==
  AtRest /\ harm \cap {"overtaken", "unannounced"} = {} =>
    /\ shown.round
    /\ shown.totals \/ round = "cancelled" \/ silent.totals
    /\ Users \ silent.wallet \subseteq shown.wallet
    /\ With("active") \subseteq shown.forecast \/ silent.forecast

Refunding(u) == \E h \in Handlers :
  At(h, "refunding") /\ u \notin handler[h].pending /\ bet[u].status = "active"

\* Who is told that a bet was won, lost, refunded or cancelled finds it so,
\* or its transaction is still open, or it was rolled back after the message;
\* and nobody's stake is refunded without a message.
NewsIsTrue ==
  \A u \in Users :
    /\ \A status \in {"won", "lost"} : status \in told[u] => bet[u].status = status
    /\ "rolled back" \notin harm => \A status \in {"refunded", "cancelled"} :
         status \in told[u] => bet[u].status = status \/ Refunding(u)
    /\ bet[u].status = "refunded" => "refunded" \in told[u]

\* When no request is in progress whoever won or lost has been told so,
\* unless a failure of the message to another, or of his own, came before.
BettorsAreTold ==
  AtRest => \A u \in Users : \A status \in {"won", "lost"} :
    bet[u].status = status => status \in told[u] \/ u \in missed
=============================================================================
