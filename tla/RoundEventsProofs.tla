--------------------------- MODULE RoundEventsProofs ---------------------------
(***************************************************************************)
(* Proofs about RoundEvents: the room is shown the present figures when no *)
(* request is in progress, what users are told of their bets is so, and    *)
(* whoever won or lost is told, for any users and any number of requests   *)
(* and failures.                                                           *)
(***************************************************************************)
EXTENDS RoundEvents, TLAPS

\* The steps before a user has his answer.
UserSteps == {"readEdited", "sendEdited", "readWallet", "confirm"}

\* Which steps belong to which request.
Stages ==
  \A h \in Handlers :
    /\ handler[h].at \in UserSteps => handler[h].user \in Users
    /\ At(h, "refunding") =>
         handler[h].kind \in {"declare", "cancelRound"} /\ handler[h].fresh
    /\ At(h, "announce") => handler[h].kind \in {"open", "lock", "declare", "cancelRound"}
    /\ At(h, "list") => handler[h].kind = "lock"
    /\ At(h, "telling") => handler[h].kind \in {"open", "lock", "declare"}
    /\ At(h, "losers") => handler[h].kind = "declare"

\* One transaction at a time; a round is declared while it is locked, and
\* then somebody is refunded only if all are.
OneTransaction ==
  \A h \in Handlers : At(h, "refunding") =>
    /\ \A i \in Handlers : At(i, "refunding") => i = h
    /\ handler[h].kind = "declare" =>
         round = "locked" /\ (handler[h].pending = {} \/ Void(handler[h].option))

\* Whom a handler has still to tell of his bet has that bet.
PendingHaveIt ==
  \A h \in Handlers :
    /\ At(h, "refunding") => handler[h].pending \subseteq With("active")
    /\ At(h, "telling") /\ handler[h].kind = "declare" =>
         handler[h].pending \subseteq With("won")
    /\ At(h, "losers") => handler[h].pending \subseteq With("lost")

\* A refund is told before it is committed.
RefundedAreTold ==
  /\ \A h \in Handlers :
       At(h, "refunding") /\ handler[h].kind = "declare" /\ Void(handler[h].option) =>
         \A u \in With("active") : u \in handler[h].pending \/ "refunded" \in told[u]
  /\ \A u \in Users : bet[u].status = "refunded" => "refunded" \in told[u]

\* No bet is placed again after it was settled.
SettledIsOver ==
  \A u \in Users : bet[u].status \in {"won", "lost", "refunded"} =>
    round \in {"closed", "cancelled"}

\* What a user was told has happened, and the round is over, or will happen
\* when the transaction commits.
NewsHolds ==
  \A u \in Users :
    /\ \A status \in {"won", "lost"} : status \in told[u] => bet[u].status = status
    /\ "rolled back" \notin harm => \A status \in {"refunded", "cancelled"} :
         status \in told[u] =>
           \/ bet[u].status = status /\ round \in {"closed", "cancelled"}
           \/ \E h \in Handlers :
                /\ At(h, "refunding") /\ u \notin handler[h].pending
                /\ bet[u].status = "active" /\ Result(h, u) = status

\* Whoever won or lost and was not told is still to be told by a handler.
BettorsWillBeTold ==
  \A u \in Users : \A status \in {"won", "lost"} : bet[u].status = status =>
    \/ status \in told[u] \/ u \in missed
    \/ \E h \in Handlers :
         /\ handler[h].kind = "declare" /\ handler[h].at \in {"announce", "telling", "losers"}
         /\ u \in Untold(h)

Quiet == harm \cap {"overtaken", "unannounced"} = {}

\* A figure that is old on the clients is still to be shown by a handler that
\* has not read it, or has read the present one.
BeforeTotals == {"readEdited", "sendEdited", "readWallet", "confirm", "readTotals"}

RoundWillBeShown ==
  Quiet => shown.round \/ \E h \in Handlers : At(h, "announce") /\ handler[h].fresh

TotalsWillBeShown ==
  Quiet =>
    \/ shown.totals \/ round = "cancelled" \/ silent.totals
    \/ \E h \in Handlers :
         handler[h].at \in BeforeTotals \/ (At(h, "update") /\ handler[h].fresh)

WalletsWillBeShown ==
  Quiet => \A u \in Users \ (shown.wallet \cup silent.wallet) : \E h \in Handlers :
    /\ handler[h].user = u
    /\ \/ handler[h].at \in {"readEdited", "sendEdited", "readWallet"}
       \/ At(h, "confirm") /\ handler[h].fresh

ForecastsWillBeShown ==
  Quiet /\ ~silent.forecast => \A u \in With("active") \ shown.forecast :
    \E h \in Handlers :
      \/ handler[h].at \in BeforeTotals \cup {"update", "readForecasts"}
      \/ At(h, "sendForecasts") /\ handler[h].fresh /\ u \in handler[h].pending

ToldInv ==
  /\ Stages /\ OneTransaction /\ PendingHaveIt /\ RefundedAreTold /\ SettledIsOver
  /\ NewsHolds /\ BettorsWillBeTold

ShownInv ==
  /\ RoundWillBeShown /\ TotalsWillBeShown
  /\ WalletsWillBeShown /\ ForecastsWillBeShown

IInv == TypeOK /\ ToldInv /\ ShownInv

----------------------------------------------------------------------------
Work == [at : Steps, kind : Kinds, user : Users \cup {NoUser},
         option : Options \cup {NoOption}, fresh : BOOLEAN, pending : SUBSET Users]

\* What a step of a handler leaves of the others: some of them have old figures.
Frame(h, q, others) ==
  /\ handler' \in [Handlers -> Work] /\ handler'[h] = q
  /\ \A i \in Handlers \ {h} :
       /\ handler'[i].at = handler[i].at /\ handler'[i].kind = handler[i].kind
       /\ handler'[i].user = handler[i].user /\ handler'[i].option = handler[i].option
       /\ handler'[i].pending = handler[i].pending
       /\ handler'[i].fresh <=> handler[i].fresh /\ i \notin others

LEMMA HandlerType ==
  ASSUME TypeOK
  PROVE  handler \in [Handlers -> Work]
BY DEF TypeOK, Work

LEMMA IdleType == Idle \in Work /\ Idle.at = "idle" /\ Idle.fresh
BY DEF Idle, Work, Steps, Kinds

LEMMA SetsFrame ==
  ASSUME TypeOK, NEW h \in Handlers, NEW q \in Work, Sets(h, q)
  PROVE  Frame(h, q, {})
<1>1. handler \in [Handlers -> Work]
  BY HandlerType
<1>2. \A i \in Handlers : handler[i].fresh \in BOOLEAN
  BY <1>1 DEF Work
<1> QED BY <1>1, <1>2 DEF Sets, Frame

LEMMA AgesFrame ==
  ASSUME TypeOK, NEW h \in Handlers, NEW q \in Work, NEW S, SetsAndAges(h, q, S)
  PROVE  Frame(h, q, S)
<1>1. handler \in [Handlers -> Work]
  BY HandlerType
<1>2. ASSUME NEW i \in Handlers, NEW b \in BOOLEAN
      PROVE  [handler[i] EXCEPT !.fresh = b] \in Work
  <2>1. handler[i] \in Work
    BY <1>1
  <2> QED BY <2>1 DEF Work
<1>3. ASSUME NEW i \in Handlers \ {h}
      PROVE  /\ handler'[i] \in Work
             /\ handler'[i].at = handler[i].at /\ handler'[i].kind = handler[i].kind
             /\ handler'[i].user = handler[i].user
             /\ handler'[i].option = handler[i].option
             /\ handler'[i].pending = handler[i].pending
             /\ handler'[i].fresh <=> handler[i].fresh /\ i \notin S
  <2>1. handler[i] \in Work
    BY <1>1
  <2>2. handler'[i] = [handler[i] EXCEPT !.fresh = @ /\ i \notin S]
    BY DEF SetsAndAges
  <2>3. (handler[i].fresh /\ i \notin S) \in BOOLEAN
    OBVIOUS
  <2> QED BY <1>2, <2>1, <2>2, <2>3 DEF Work
<1>4. handler' = [i \in Handlers |-> IF i = h THEN q
                    ELSE [handler[i] EXCEPT !.fresh = @ /\ i \notin S]]
  BY DEF SetsAndAges
<1>5. handler'[h] = q
  BY <1>4
<1>6. handler' \in [Handlers -> Work]
  BY <1>3, <1>4, <1>5
<1> QED BY <1>3, <1>5, <1>6 DEF Frame

----------------------------------------------------------------------------
(***************************************************************************)
(* What users are told: steps that show figures leave it alone.            *)
(***************************************************************************)
LEMMA ShowingTellsNobody ==
  ASSUME TypeOK, ToldInv, NEW h \in Handlers, NEW q \in Work, NEW S, Frame(h, q, S),
         UNCHANGED <<commits, told, missed>>, harm \subseteq harm',
         \A i \in S : ~At(i, "refunding"),
         handler[h].at \in DOMAIN After \cup {"idle"}, q.at \in DOMAIN After \cup {"idle"},
         q.at \in UserSteps => q.user \in Users
  PROVE  ToldInv'
<1>1. /\ DOMAIN After \cup {"idle"} = {"idle", "readEdited", "sendEdited", "readWallet",
            "confirm", "readTotals", "update", "readForecasts", "sendForecasts"}
  BY DEF After
<1>2. /\ bet' = bet /\ round' = round
      /\ \A status : With(status)' = With(status)
      /\ \A o : Backers(o)' = Backers(o) /\ Void(o)' = Void(o)
  BY DEF commits, With, Backers, Void
<1>3. \A i \in Handlers \ {h} :
        /\ Untold(i)' = Untold(i) /\ At(i, "refunding")' = At(i, "refunding")
        /\ \A u : Result(i, u)' = Result(i, u)
  BY <1>2 DEF Frame, Untold, At, Result
<1>4. ~At(h, "refunding") /\ ~At(h, "refunding")'
  BY <1>1 DEF At, Frame
<1>5. Stages'
  <2>1. \A i \in Handlers \ {h} :
          At(i, "refunding") /\ handler[i].fresh => handler'[i].fresh
    BY DEF Frame
  <2> QED BY <1>1, <1>4, <2>1 DEF ToldInv, Stages, At, Frame
<1>6. OneTransaction' /\ PendingHaveIt'
  BY <1>1, <1>2 DEF ToldInv, OneTransaction, PendingHaveIt, At, Frame
<1>7. RefundedAreTold' /\ SettledIsOver'
  BY <1>2, <1>4 DEF ToldInv, RefundedAreTold, SettledIsOver, At, Frame
<1>8. NewsHolds'
  <2>1. ASSUME NEW u \in Users, NEW status \in {"won", "lost"}, status \in told'[u]
        PROVE  bet'[u].status = status
    BY <1>2, <2>1 DEF ToldInv, NewsHolds
  <2>2. ASSUME "rolled back" \notin harm', NEW u \in Users,
               NEW status \in {"refunded", "cancelled"}, status \in told'[u]
        PROVE  \/ bet'[u].status = status /\ round' \in {"closed", "cancelled"}
               \/ \E i \in Handlers :
                    /\ At(i, "refunding")' /\ u \notin handler'[i].pending
                    /\ bet'[u].status = "active" /\ Result(i, u)' = status
    <3>1. \/ bet[u].status = status /\ round \in {"closed", "cancelled"}
          \/ \E i \in Handlers :
               /\ At(i, "refunding") /\ u \notin handler[i].pending
               /\ bet[u].status = "active" /\ Result(i, u) = status
      BY <2>2 DEF ToldInv, NewsHolds
    <3> QED BY <1>2, <1>3, <1>4, <3>1 DEF Frame
  <2> QED BY <2>1, <2>2 DEF NewsHolds
<1>9. BettorsWillBeTold'
  BY <1>1, <1>2, <1>3 DEF ToldInv, BettorsWillBeTold, Frame
<1> QED BY <1>5, <1>6, <1>7, <1>8, <1>9 DEF ToldInv

\* The steps that show figures, and what they leave in the handler.
Shows(h, q) ==
  /\ Sets(h, q) /\ UNCHANGED <<commits, told, missed>> /\ harm \subseteq harm'
  /\ handler[h].at \in DOMAIN After /\ q.at \in DOMAIN After \cup {"idle"}
  /\ q.at \in UserSteps => handler[h].at \in UserSteps /\ q.user = handler[h].user

LEMMA StepNames ==
  /\ DOMAIN After = {"readEdited", "sendEdited", "readWallet", "confirm",
                     "readTotals", "update", "readForecasts", "sendForecasts"}
  /\ After["readEdited"] = "sendEdited" /\ After["sendEdited"] = "readWallet"
  /\ After["readWallet"] = "confirm" /\ After["confirm"] = "readTotals"
  /\ After["readTotals"] = "update" /\ After["update"] = "readForecasts"
  /\ After["readForecasts"] = "sendForecasts" /\ After["sendForecasts"] = "idle"
  /\ Steps = {"idle", "refunding", "announce", "list", "telling", "losers"}
               \cup DOMAIN After
BY DEF After, Steps

LEMMA ReadShows ==
  ASSUME TypeOK, NEW h \in Handlers, Read(h)
  PROVE  \E q \in Work :
           /\ Shows(h, q) /\ q.fresh /\ q.user = handler[h].user
           /\ q.at = After[handler[h].at] /\ UNCHANGED <<shown, harm>>
           /\ handler[h].at \in {"readEdited", "readWallet", "readTotals", "readForecasts"}
           /\ At(h, "readForecasts") => q.pending = With("active")
<1> DEFINE to == IF handler[h].at \in {"readEdited", "readForecasts"}
                   THEN With("active") ELSE {}
           q == [handler[h] EXCEPT !.at = After[handler[h].at], !.fresh = TRUE,
                                   !.pending = to]
<1>1. handler[h].at \in {"readEdited", "readWallet", "readTotals", "readForecasts"}
  BY DEF Read
<1>2. /\ handler[h].at \in DOMAIN After /\ After[handler[h].at] \in DOMAIN After
      /\ DOMAIN After \subseteq Steps
  BY <1>1, StepNames
<1>3. to \in SUBSET Users
  BY DEF With
<1>4. /\ q \in Work /\ q.fresh /\ q.user = handler[h].user
      /\ q.at = After[handler[h].at] /\ q.pending = to
  <2>1. handler[h] \in Work
    BY HandlerType
  <2> QED BY <1>2, <1>3, <2>1 DEF Work
<1>5. Sets(h, q) /\ UNCHANGED <<commits, shown, told, missed, harm>>
  BY DEF Read, clients, commits, Sets
<1>6. At(h, "readForecasts") => to = With("active")
  BY DEF At
<1> HIDE DEF q, to
<1> QED BY <1>1, <1>2, <1>4, <1>5, <1>6, StepNames DEF Shows, UserSteps

LEMMA ConfirmShows ==
  ASSUME TypeOK, NEW h \in Handlers, Confirm(h)
  PROVE  \E q \in Work : Shows(h, q) /\ q.at = "readTotals"
<1> DEFINE q == [handler[h] EXCEPT !.at = After[@], !.fresh = TRUE, !.user = NoUser]
<1>1. At(h, "confirm") /\ Sets(h, q) /\ UNCHANGED <<commits, told, missed>>
  BY DEF Confirm
<1>2. harm \subseteq harm'
  BY DEF Confirm, Crossed
<1>3. handler[h] \in Work
  BY HandlerType
<1>4. q \in Work /\ q.at = "readTotals"
  BY <1>1, <1>3, StepNames DEF At, Work
<1> HIDE DEF q
<1> QED BY <1>1, <1>2, <1>4, StepNames DEF Shows, UserSteps, At

LEMMA UpdateShows ==
  ASSUME TypeOK, NEW h \in Handlers, Update(h)
  PROVE  \E q \in Work : Shows(h, q) /\ q.at = "readForecasts" /\ q.user = handler[h].user
<1> DEFINE q == [handler[h] EXCEPT !.at = After[@], !.fresh = TRUE]
<1>1. At(h, "update") /\ Sets(h, q) /\ UNCHANGED <<commits, told, missed>>
  BY DEF Update
<1>2. harm \subseteq harm'
  BY DEF Update, Crossed
<1>3. handler[h] \in Work
  BY HandlerType
<1>4. q \in Work /\ q.at = "readForecasts" /\ q.user = handler[h].user
  BY <1>1, <1>3, StepNames DEF At, Work
<1> HIDE DEF q
<1> QED BY <1>1, <1>2, <1>4, StepNames DEF Shows, UserSteps, At

LEMMA SendForecastsShows ==
  ASSUME TypeOK, NEW h \in Handlers, SendForecasts(h)
  PROVE  \E q \in Work :
           /\ Shows(h, q)
           /\ \/ At(h, "sendEdited") /\ q.at = "readWallet" /\ q.user = handler[h].user
              \/ At(h, "sendForecasts") /\ q = Idle
<1>1. /\ UNCHANGED <<commits, told, missed>> /\ harm \subseteq harm'
      /\ handler[h].at \in {"sendEdited", "sendForecasts"}
  BY DEF SendForecasts, Crossed
<1>2. CASE At(h, "sendEdited")
  <2> DEFINE q == [handler[h] EXCEPT !.at = After[@], !.fresh = TRUE, !.pending = {}]
  <2>1. handler[h] \in Work
    BY HandlerType
  <2>2. q \in Work /\ q.at = "readWallet" /\ q.user = handler[h].user
    BY <1>2, <2>1, StepNames DEF At, Work
  <2>3. Sets(h, q)
    BY <1>2 DEF SendForecasts
  <2> HIDE DEF q
  <2> QED BY <1>1, <1>2, <2>2, <2>3, StepNames DEF Shows, UserSteps, At
<1>3. CASE ~At(h, "sendEdited")
  <2>1. Ends(h) /\ At(h, "sendForecasts")
    BY <1>1, <1>3 DEF SendForecasts, At
  <2> QED BY <1>1, <2>1, IdleType, StepNames DEF Shows, UserSteps, At, Ends
<1> QED BY <1>2, <1>3

LEMMA HandlerFailsShows ==
  ASSUME TypeOK, NEW h \in Handlers, HandlerFails(h)
  PROVE  \E q \in Work :
           /\ Shows(h, q) /\ UNCHANGED shown
           /\ \/ /\ handler[h].at \in {"readEdited", "sendEdited"} /\ UNCHANGED harm
                 /\ q.at = "readWallet" /\ q.user = handler[h].user
              \/ "unannounced" \in harm'
<1>1. handler[h].at \in DOMAIN After /\ UNCHANGED <<commits, shown, told, missed>>
  BY DEF HandlerFails, clients, commits
<1>2. CASE handler[h].at \in {"readEdited", "sendEdited"}
  <2> DEFINE q == [handler[h] EXCEPT !.at = "readWallet", !.fresh = TRUE, !.pending = {}]
  <2>1. handler[h] \in Work
    BY HandlerType
  <2>2. q \in Work /\ q.at = "readWallet" /\ q.user = handler[h].user
    BY <1>2, <2>1, StepNames DEF Work
  <2>3. Sets(h, q) /\ UNCHANGED harm
    BY <1>2 DEF HandlerFails
  <2> HIDE DEF q
  <2> QED BY <1>1, <1>2, <2>2, <2>3, StepNames DEF Shows, UserSteps
<1>3. CASE handler[h].at \notin {"readEdited", "sendEdited"}
  <2>1. Ends(h) /\ harm' = harm \cup {"unannounced"}
    BY <1>3 DEF HandlerFails
  <2> QED BY <1>1, <2>1, IdleType DEF Shows, UserSteps, Ends
<1> QED BY <1>2, <1>3

LEMMA ShowingInvariant ==
  ASSUME TypeOK, ToldInv, NEW h \in Handlers,
         Read(h) \/ Confirm(h) \/ Update(h) \/ SendForecasts(h) \/ HandlerFails(h)
  PROVE  TypeOK' /\ ToldInv'
<1>1. PICK q \in Work : Shows(h, q)
  BY ReadShows, ConfirmShows, UpdateShows, SendForecastsShows, HandlerFailsShows
<1>2. Frame(h, q, {})
  BY <1>1, SetsFrame DEF Shows
<1>3. ToldInv'
  BY <1>1, <1>2, ShowingTellsNobody DEF Shows, ToldInv, Stages
<1>4. handler' \in [Handlers -> Work] /\ UNCHANGED <<round, bet, silent, told, missed>>
  BY <1>1, <1>2 DEF Frame, Shows, commits
<1>5. shown' \in [round : BOOLEAN, totals : BOOLEAN,
                  wallet : SUBSET Users, forecast : SUBSET Users]
  <2>1. handler[h] \in Work
    BY HandlerType
  <2>2. CASE Confirm(h)
    <3>1. handler[h].user \in Users
      BY <2>2 DEF Confirm, At, ToldInv, Stages, UserSteps
    <3> QED BY <2>2, <3>1 DEF Confirm, TypeOK
  <2>3. CASE Update(h) \/ SendForecasts(h)
    BY <2>1, <2>3 DEF Update, SendForecasts, TypeOK, Work
  <2>4. CASE Read(h) \/ HandlerFails(h)
    BY <2>4 DEF Read, HandlerFails, clients, TypeOK
  <2> QED BY <2>2, <2>3, <2>4
<1>6. harm' \subseteq Harms
  BY DEF TypeOK, Read, Confirm, Update, SendForecasts, HandlerFails, Crossed, Harms
<1> QED BY <1>3, <1>4, <1>5, <1>6 DEF TypeOK, Work

----------------------------------------------------------------------------
(***************************************************************************)
(* The requests.                                                           *)
(***************************************************************************)
\* A bet is placed, edited or cancelled in an open round, where nothing was
\* settled and no transaction refunds.
LEMMA BetCommitsTells ==
  ASSUME TypeOK, ToldInv, NEW h \in Handlers, NEW u \in Users,
         NEW status \in {"active", "cancelled"}, NEW o \in Options \cup {NoOption},
         NEW step \in {"readEdited", "readWallet", "readForecasts", "idle"},
         BetCommits(h, u, [status |-> status, option |-> o], step)
  PROVE  TypeOK' /\ ToldInv'
<1> DEFINE q == [Idle EXCEPT !.at = step,
                             !.user = IF step \in Answering THEN u ELSE NoUser]
<1>1. /\ At(h, "idle") /\ ~InTransaction /\ round = "open"
      /\ UNCHANGED <<round, told, missed, harm>>
      /\ bet' = [bet EXCEPT ![u] = [status |-> status, option |-> o]]
      /\ SetsAndAges(h, q, ReadersOf(u))
  BY DEF BetCommits, Begins
<1>2. q \in Work /\ q.at = step /\ (step \in Answering => q.user = u)
  BY StepNames DEF Idle, Work, Kinds
<1> HIDE DEF q
<1>3. Frame(h, q, ReadersOf(u))
  BY <1>1, <1>2, AgesFrame
<1>4. /\ bet' \in [Users -> [status : Statuses, option : Options \cup {NoOption}]]
      /\ bet'[u].status = status
      /\ \A v \in Users \ {u} : bet'[v] = bet[v]
  BY <1>1 DEF TypeOK, Statuses
<1>5. TypeOK'
  <2>1. shown' \in [round : BOOLEAN, totals : BOOLEAN,
                    wallet : SUBSET Users, forecast : SUBSET Users]
    BY DEF BetCommits, TypeOK
  <2>2. silent' \in [totals : BOOLEAN, forecast : BOOLEAN, wallet : SUBSET Users]
    BY DEF BetCommits, Unshown, TypeOK
  <2> QED BY <1>1, <1>3, <1>4, <2>1, <2>2 DEF TypeOK, Frame, Work
<1>6. \A i \in Handlers : ~At(i, "refunding") /\ ~At(i, "refunding")'
  BY <1>1, <1>2, <1>3 DEF InTransaction, At, Frame
<1>7. \A v \in Users : bet[v].status \notin {"won", "lost", "refunded"}
  BY <1>1 DEF ToldInv, SettledIsOver
<1>8. \A v \in Users : bet'[v].status \notin {"won", "lost", "refunded"}
  BY <1>4, <1>7
<1>9. Stages'
  BY <1>2, <1>3, <1>6 DEF ToldInv, Stages, At, Frame, UserSteps, Answering
<1>10. OneTransaction' /\ RefundedAreTold' /\ SettledIsOver' /\ BettorsWillBeTold'
  BY <1>6, <1>8 DEF OneTransaction, RefundedAreTold, SettledIsOver, BettorsWillBeTold
<1>11. PendingHaveIt'
  <2>1. With("won")' = With("won") /\ With("lost")' = With("lost")
    BY <1>7, <1>8 DEF With
  <2> QED BY <1>2, <1>3, <1>6, <2>1 DEF ToldInv, PendingHaveIt, At, Frame
<1>12. NewsHolds'
  <2>1. \A v \in Users : told[v] \cap {"won", "lost"} = {}
    BY <1>7 DEF ToldInv, NewsHolds
  <2>2. "rolled back" \notin harm =>
          \A v \in Users : told[v] \cap {"refunded", "cancelled"} = {}
    BY <1>1, <1>6 DEF ToldInv, NewsHolds
  <2> QED BY <1>1, <2>1, <2>2 DEF NewsHolds
<1> QED BY <1>5, <1>9, <1>10, <1>11, <1>12 DEF ToldInv

\* A round is opened, or locked.
LEMMA StatusCommitsTells ==
  ASSUME TypeOK, ToldInv, NEW h \in Handlers, Open(h) \/ Lock(h)
  PROVE  TypeOK' /\ ToldInv'
<1>1. PICK kind \in {"open", "lock"}, status \in {"open", "locked"} :
        StatusCommits(h, kind, status)
  BY DEF Open, Lock
<1> DEFINE q == [Idle EXCEPT !.at = "announce", !.kind = kind]
<1>2. /\ At(h, "idle") /\ ~InTransaction /\ round \in {"created", "open"}
      /\ UNCHANGED <<bet, silent, told, missed, harm>> /\ round' = status
      /\ SetsAndAges(h, q, Announcing)
  BY <1>1 DEF StatusCommits, Begins, Open, Lock
<1>3. q \in Work /\ q.at = "announce" /\ q.kind = kind
  BY StepNames DEF Idle, Work, Kinds
<1> HIDE DEF q
<1>4. Frame(h, q, Announcing)
  BY <1>2, <1>3, AgesFrame
<1>5. TypeOK'
  <2>1. shown' \in [round : BOOLEAN, totals : BOOLEAN,
                    wallet : SUBSET Users, forecast : SUBSET Users]
    BY <1>1 DEF StatusCommits, TypeOK
  <2> QED BY <1>2, <1>4, <2>1 DEF TypeOK, Frame, Work
<1>6. \A i \in Handlers : ~At(i, "refunding") /\ ~At(i, "refunding")'
  BY <1>2, <1>3, <1>4 DEF InTransaction, At, Frame
<1>7. \A v \in Users : bet[v].status \notin {"won", "lost", "refunded"}
  BY <1>2 DEF ToldInv, SettledIsOver
<1>8. Stages'
  BY <1>3, <1>4, <1>6 DEF ToldInv, Stages, At, Frame, UserSteps
<1>9. OneTransaction' /\ RefundedAreTold' /\ SettledIsOver' /\ BettorsWillBeTold'
  BY <1>2, <1>6, <1>7 DEF OneTransaction, RefundedAreTold, SettledIsOver, BettorsWillBeTold
<1>10. PendingHaveIt'
  BY <1>2, <1>3, <1>4, <1>6 DEF ToldInv, PendingHaveIt, At, Frame, With
<1>11. NewsHolds'
  <2>1. \A v \in Users : told[v] \cap {"won", "lost"} = {}
    BY <1>7 DEF ToldInv, NewsHolds
  <2>2. "rolled back" \notin harm =>
          \A v \in Users : told[v] \cap {"refunded", "cancelled"} = {}
    BY <1>2, <1>6 DEF ToldInv, NewsHolds
  <2> QED BY <1>2, <2>1, <2>2 DEF NewsHolds
<1> QED BY <1>5, <1>8, <1>9, <1>10, <1>11 DEF ToldInv

\* Where no row changes, what the other handlers will do is as before.
LEMMA OthersGoOn ==
  ASSUME UNCHANGED commits, NEW h \in Handlers, NEW q \in Work, NEW S, Frame(h, q, S)
  PROVE  /\ bet' = bet /\ round' = round
         /\ \A status : With(status)' = With(status)
         /\ \A o : Backers(o)' = Backers(o) /\ Void(o)' = Void(o)
         /\ \A i \in Handlers \ {h} :
              /\ Untold(i)' = Untold(i)
              /\ \A step : At(i, step)' = At(i, step)
              /\ \A u : Result(i, u)' = Result(i, u)
<1>1. /\ bet' = bet /\ round' = round
      /\ \A status : With(status)' = With(status)
      /\ \A o : Backers(o)' = Backers(o) /\ Void(o)' = Void(o)
  BY DEF commits, With, Backers, Void
<1> QED BY <1>1 DEF Frame, Untold, At, Result

LEMMA TransactionSets ==
  ASSUME TypeOK, NEW h \in Handlers, CancelRound(h) \/ \E o \in Options : Declare(h, o)
  PROVE  \E q \in Work :
        /\ Sets(h, q) /\ q.at = "refunding" /\ q.fresh
        /\ q.kind \in {"declare", "cancelRound"}
        /\ q.pending \subseteq With("active")
        /\ q.kind = "declare" =>
             /\ round = "locked"
             /\ q.pending = IF Void(q.option) THEN With("active") ELSE {}
<1>1. With("active") \subseteq Users
  BY DEF With
<1>2. ASSUME CancelRound(h)
      PROVE  \E q \in Work :
               /\ Sets(h, q) /\ q.at = "refunding" /\ q.fresh
               /\ q.kind = "cancelRound" /\ q.pending = With("active")
  <2> DEFINE q == [Idle EXCEPT !.at = "refunding", !.kind = "cancelRound",
                               !.pending = With("active")]
  <2>1. /\ q \in Work /\ q.at = "refunding" /\ q.fresh
        /\ q.kind = "cancelRound" /\ q.pending = With("active")
    BY <1>1, StepNames DEF Idle, Work, Kinds
  <2>2. Sets(h, q)
    BY <1>2 DEF CancelRound
  <2> HIDE DEF q
  <2> QED BY <2>1, <2>2
<1>3. ASSUME NEW o \in Options, Declare(h, o)
      PROVE  \E q \in Work :
               /\ Sets(h, q) /\ q.at = "refunding" /\ q.fresh
               /\ q.kind = "declare" /\ round = "locked"
               /\ q.pending = IF Void(q.option) THEN With("active") ELSE {}
  <2> DEFINE q == [Idle EXCEPT !.at = "refunding", !.kind = "declare", !.option = o,
                               !.pending = IF Void(o) THEN With("active") ELSE {}]
  <2>1. /\ q \in Work /\ q.at = "refunding" /\ q.fresh
        /\ q.kind = "declare" /\ q.option = o
        /\ q.pending = IF Void(o) THEN With("active") ELSE {}
    BY <1>1, StepNames DEF Idle, Work, Kinds
  <2>2. Sets(h, q) /\ round = "locked"
    BY <1>3 DEF Declare
  <2> HIDE DEF q
  <2> QED BY <2>1, <2>2
<1> QED BY <1>2, <1>3

\* A transaction begins, whose refunds are to be told first.
LEMMA TransactionTells ==
  ASSUME TypeOK, ToldInv, NEW h \in Handlers,
         CancelRound(h) \/ \E o \in Options : Declare(h, o)
  PROVE  TypeOK' /\ ToldInv'
<1>1. PICK q \in Work :
        /\ Sets(h, q) /\ q.at = "refunding" /\ q.fresh
        /\ q.kind \in {"declare", "cancelRound"}
        /\ q.pending \subseteq With("active")
        /\ q.kind = "declare" =>
             /\ round = "locked"
             /\ q.pending = IF Void(q.option) THEN With("active") ELSE {}
  BY TransactionSets
<1>2. /\ At(h, "idle") /\ ~InTransaction /\ UNCHANGED commits
      /\ UNCHANGED <<shown, told, missed, harm>>
  BY DEF CancelRound, Declare, Begins, clients
<1>3. Frame(h, q, {})
  BY <1>1, SetsFrame
<1>4. TypeOK'
  BY <1>2, <1>3 DEF TypeOK, Frame, Work, commits
<1>5. /\ \A i \in Handlers : ~At(i, "refunding")
      /\ \A i \in Handlers \ {h} : ~At(i, "refunding")'
  BY <1>2, <1>3 DEF InTransaction, At, Frame
<1>6. /\ \A status : With(status)' = With(status)
      /\ \A o : Void(o)' = Void(o)
      /\ \A i \in Handlers \ {h} : Untold(i)' = Untold(i)
      /\ bet' = bet /\ round' = round
  BY <1>2, <1>3, OthersGoOn
<1>7. handler'[h] = q
  BY <1>3 DEF Frame
<1>8. Stages'
  BY <1>1, <1>3, <1>5 DEF ToldInv, Stages, At, Frame, UserSteps
<1>9. OneTransaction'
  BY <1>1, <1>5, <1>6, <1>7 DEF OneTransaction
<1>10. PendingHaveIt'
  BY <1>1, <1>3, <1>6 DEF ToldInv, PendingHaveIt, At, Frame
<1>11. RefundedAreTold'
  BY <1>1, <1>2, <1>5, <1>6, <1>7 DEF ToldInv, RefundedAreTold
<1>12. SettledIsOver'
  BY <1>6 DEF ToldInv, SettledIsOver
<1>13. NewsHolds'
  BY <1>2, <1>5, <1>6 DEF ToldInv, NewsHolds
<1>14. BettorsWillBeTold'
  BY <1>1, <1>2, <1>3, <1>6 DEF ToldInv, BettorsWillBeTold, Frame, At
<1> QED BY <1>4, <1>8, <1>9, <1>10, <1>11, <1>12, <1>13, <1>14 DEF ToldInv

----------------------------------------------------------------------------
(***************************************************************************)
(* The messages.                                                           *)
(***************************************************************************)
\* What a user was told.
LEMMA NewsParts ==
  ASSUME NewsHolds, NEW u \in Users
  PROVE  /\ \A status \in {"won", "lost"} : status \in told[u] => bet[u].status = status
         /\ "rolled back" \notin harm => \A status \in {"refunded", "cancelled"} :
              status \in told[u] =>
                \/ bet[u].status = status /\ round \in {"closed", "cancelled"}
                \/ \E h \in Handlers :
                     /\ At(h, "refunding") /\ u \notin handler[h].pending
                     /\ bet[u].status = "active" /\ Result(h, u) = status
BY DEF NewsHolds

\* A handler takes another step of telling users what was committed.
LEMMA TellingMoves ==
  ASSUME TypeOK, ToldInv, NEW h \in Handlers, NEW q \in Work, Frame(h, q, {}),
         UNCHANGED commits, missed \subseteq missed', harm \subseteq harm',
         handler[h].at \in {"announce", "list", "telling", "losers"},
         q.at \in {"idle", "list", "telling", "losers"},
         q.at = "list" => q.kind = "lock",
         q.at = "telling" => q.kind \in {"open", "lock", "declare"},
         q.at = "losers" => q.kind = "declare" /\ q.pending \subseteq With("lost"),
         q.at = "telling" /\ q.kind = "declare" => q.pending \subseteq With("won"),
         \A u \in Users : told[u] \subseteq told'[u],
         \A u \in Users : \A status \in told'[u] :
           \/ status \in told[u] \/ status = "locked"
           \/ status \in {"won", "lost"} /\ bet[u].status = status,
         handler[h].kind = "declare" =>
           \A u \in Untold(h) : bet[u].status \in {"won", "lost"} =>
             \/ bet[u].status \in told'[u] \/ u \in missed'
             \/ /\ q.kind = "declare" /\ q.at \in {"telling", "losers"}
                /\ u \in Untold(h)'
  PROVE  ToldInv'
<1>0. NewsHolds
  BY DEF ToldInv
<1>1. /\ bet' = bet /\ round' = round
      /\ \A status : With(status)' = With(status)
      /\ \A o : Backers(o)' = Backers(o) /\ Void(o)' = Void(o)
      /\ \A i \in Handlers \ {h} :
           /\ Untold(i)' = Untold(i)
           /\ \A step : At(i, step)' = At(i, step)
           /\ \A u : Result(i, u)' = Result(i, u)
  BY OthersGoOn
<1>2. ~At(h, "refunding") /\ handler'[h] = q /\ ~At(h, "refunding")'
  BY DEF At, Frame
<1>3. Stages'
  BY <1>2 DEF ToldInv, Stages, At, Frame, UserSteps
<1>4. OneTransaction'
  BY <1>1, <1>2 DEF ToldInv, OneTransaction, Frame
<1>5. PendingHaveIt'
  BY <1>1, <1>2 DEF ToldInv, PendingHaveIt, At, Frame
<1>6. RefundedAreTold'
  BY <1>1, <1>2 DEF ToldInv, RefundedAreTold, Frame, With
<1>7. SettledIsOver'
  BY <1>1 DEF ToldInv, SettledIsOver
<1>8. NewsHolds'
  <2>1. ASSUME NEW u \in Users, NEW status \in {"won", "lost"}, status \in told'[u]
        PROVE  bet'[u].status = status
    <3>1. status \in told[u] \/ bet[u].status = status
      BY <2>1
    <3>2. \A s \in {"won", "lost"} : s \in told[u] => bet[u].status = s
      BY <1>0, NewsParts
    <3> QED BY <1>1, <3>1, <3>2
  <2>2. ASSUME "rolled back" \notin harm', NEW u \in Users,
               NEW status \in {"refunded", "cancelled"}, status \in told'[u]
        PROVE  \/ bet'[u].status = status /\ round' \in {"closed", "cancelled"}
               \/ \E i \in Handlers :
                    /\ At(i, "refunding")' /\ u \notin handler'[i].pending
                    /\ bet'[u].status = "active" /\ Result(i, u)' = status
    <3>1. status \in told[u] /\ "rolled back" \notin harm
      BY <2>2
    <3>2. \A s \in {"refunded", "cancelled"} : s \in told[u] =>
            \/ bet[u].status = s /\ round \in {"closed", "cancelled"}
            \/ \E i \in Handlers :
                 /\ At(i, "refunding") /\ u \notin handler[i].pending
                 /\ bet[u].status = "active" /\ Result(i, u) = s
      BY <1>0, <3>1, NewsParts
    <3>3. \/ bet[u].status = status /\ round \in {"closed", "cancelled"}
          \/ \E i \in Handlers :
               /\ At(i, "refunding") /\ u \notin handler[i].pending
               /\ bet[u].status = "active" /\ Result(i, u) = status
      BY <3>1, <3>2
    <3> QED BY <1>1, <1>2, <3>3 DEF Frame
  <2> QED BY <2>1, <2>2 DEF NewsHolds
<1>9. BettorsWillBeTold'
  <2> SUFFICES ASSUME NEW u \in Users, NEW status \in {"won", "lost"},
                      bet'[u].status = status
               PROVE  \/ status \in told'[u] \/ u \in missed'
                      \/ \E i \in Handlers :
                           /\ handler'[i].kind = "declare"
                           /\ handler'[i].at \in {"announce", "telling", "losers"}
                           /\ u \in Untold(i)'
    BY DEF BettorsWillBeTold
  <2>1. \/ status \in told[u] \/ u \in missed
        \/ \E i \in Handlers :
             /\ handler[i].kind = "declare"
             /\ handler[i].at \in {"announce", "telling", "losers"} /\ u \in Untold(i)
    BY <1>1 DEF ToldInv, BettorsWillBeTold
  <2>2. ASSUME NEW i \in Handlers \ {h}, handler[i].kind = "declare",
               handler[i].at \in {"announce", "telling", "losers"}, u \in Untold(i)
        PROVE  /\ handler'[i].kind = "declare" /\ u \in Untold(i)'
               /\ handler'[i].at \in {"announce", "telling", "losers"}
    BY <1>1, <2>2 DEF Frame
  <2>3. ASSUME handler[h].kind = "declare", u \in Untold(h)
        PROVE  \/ status \in told'[u] \/ u \in missed'
               \/ /\ handler'[h].kind = "declare" /\ u \in Untold(h)'
                  /\ handler'[h].at \in {"announce", "telling", "losers"}
    BY <1>1, <1>2, <2>3
  <2> QED BY <2>1, <2>2, <2>3
<1> QED BY <1>3, <1>4, <1>5, <1>6, <1>7, <1>8, <1>9 DEF ToldInv

\* What a handler does when it has told the room.
LEMMA AnnounceSets ==
  ASSUME TypeOK, ToldInv, NEW h \in Handlers, Announce(h)
  PROVE  \E q \in Work :
        /\ Sets(h, q)
        /\ \/ handler[h].kind = "open" /\ q.at = "telling" /\ q.kind = "open"
           \/ handler[h].kind = "lock" /\ q.at = "list" /\ q.kind = "lock"
           \/ /\ handler[h].kind = "declare" /\ q.at = "telling" /\ q.kind = "declare"
              /\ q.pending = With("won")
           \/ handler[h].kind = "cancelRound" /\ q = Idle
<1>9. handler[h].kind \in {"open", "lock", "declare", "cancelRound"} /\ handler[h] \in Work
  BY HandlerType DEF Announce, ToldInv, Stages
<1>1. CASE handler[h].kind = "open"
  <2> DEFINE q == [handler[h] EXCEPT !.at = "telling", !.fresh = TRUE, !.pending = Users]
  <2>1. q \in Work /\ q.at = "telling" /\ q.kind = "open"
    BY <1>9, <1>1, StepNames DEF Work
  <2>2. Sets(h, q)
    BY <1>1 DEF Announce
  <2> HIDE DEF q
  <2> QED BY <1>1, <2>1, <2>2
<1>2. CASE handler[h].kind = "lock"
  <2> DEFINE q == [handler[h] EXCEPT !.at = "list", !.fresh = TRUE]
  <2>1. q \in Work /\ q.at = "list" /\ q.kind = "lock"
    BY <1>9, <1>2, StepNames DEF Work
  <2>2. Sets(h, q)
    BY <1>2 DEF Announce
  <2> HIDE DEF q
  <2> QED BY <1>2, <2>1, <2>2
<1>3. CASE handler[h].kind = "declare"
  <2> DEFINE q == [handler[h] EXCEPT !.at = "telling", !.fresh = TRUE,
                                     !.pending = With("won")]
  <2>1. With("won") \subseteq Users
    BY DEF With
  <2>2. /\ q \in Work /\ q.at = "telling" /\ q.kind = "declare"
        /\ q.pending = With("won")
    BY <1>9, <1>3, <2>1, StepNames DEF Work
  <2>3. Sets(h, q)
    BY <1>3 DEF Announce
  <2> HIDE DEF q
  <2> QED BY <1>3, <2>2, <2>3
<1>4. CASE handler[h].kind = "cancelRound"
  BY <1>4, IdleType DEF Announce, Ends
<1> QED BY <1>9, <1>1, <1>2, <1>3, <1>4

LEMMA AnnounceTells ==
  ASSUME TypeOK, ToldInv, NEW h \in Handlers, Announce(h)
  PROVE  TypeOK' /\ ToldInv'
<1>1. /\ At(h, "announce") /\ UNCHANGED <<commits, told, missed>>
      /\ harm \subseteq harm' /\ harm' \subseteq Harms
  BY DEF Announce, Crossed, TypeOK, Harms
<1>2. handler[h].kind \in {"open", "lock", "declare", "cancelRound"} /\ handler[h] \in Work
  BY <1>1, HandlerType DEF ToldInv, Stages
<1>3. PICK q \in Work :
        /\ Sets(h, q)
        /\ \/ handler[h].kind = "open" /\ q.at = "telling" /\ q.kind = "open"
           \/ handler[h].kind = "lock" /\ q.at = "list" /\ q.kind = "lock"
           \/ /\ handler[h].kind = "declare" /\ q.at = "telling" /\ q.kind = "declare"
              /\ q.pending = With("won")
           \/ handler[h].kind = "cancelRound" /\ q = Idle
  BY AnnounceSets
<1>4. Frame(h, q, {})
  BY <1>3, SetsFrame
<1>5. TypeOK'
  <2>1. shown' \in [round : BOOLEAN, totals : BOOLEAN,
                    wallet : SUBSET Users, forecast : SUBSET Users]
    BY <1>2 DEF Announce, TypeOK, Work
  <2> QED BY <1>1, <1>4, <2>1 DEF TypeOK, Frame, Work, commits
<1>6. handler[h].kind = "declare" =>
        \A u \in Untold(h) : bet[u].status \in {"won", "lost"} =>
          q.kind = "declare" /\ q.at = "telling" /\ u \in Untold(h)'
  <2> SUFFICES ASSUME handler[h].kind = "declare", NEW u \in Untold(h),
                      bet[u].status \in {"won", "lost"}
               PROVE  q.kind = "declare" /\ q.at = "telling" /\ u \in Untold(h)'
    OBVIOUS
  <2>1. u \in Users
    BY <1>2 DEF Untold, Work, With
  <2>2. handler'[h] = q /\ q.kind = "declare" /\ q.at = "telling" /\ q.pending = With("won")
    BY <1>3, <1>4 DEF Frame
  <2>3. u \in With("won") \/ u \in With("lost")
    BY <2>1 DEF With
  <2>4. With("lost")' = With("lost")
    BY <1>1 DEF With, commits
  <2> QED BY <2>2, <2>3, <2>4 DEF Untold, At
<1>7. ToldInv'
  BY <1>1, <1>3, <1>4, <1>6, IdleType, TellingMoves DEF At
<1> QED BY <1>5, <1>7

LEMMA ListTells ==
  ASSUME TypeOK, ToldInv, NEW h \in Handlers, List(h)
  PROVE  TypeOK' /\ ToldInv'
<1> DEFINE q == [handler[h] EXCEPT !.at = "telling", !.pending = With("active")]
<1>1. At(h, "list") /\ handler[h].kind = "lock" /\ handler[h] \in Work
  BY HandlerType DEF List, ToldInv, Stages
<1>2. With("active") \subseteq Users
  BY DEF With
<1>3. q \in Work /\ q.at = "telling" /\ q.kind = "lock"
  BY <1>1, <1>2, StepNames DEF Work
<1>4. Sets(h, q) /\ UNCHANGED <<commits, shown, told, missed, harm>>
  BY DEF List, clients, commits, Sets
<1> HIDE DEF q
<1>5. Frame(h, q, {})
  BY <1>3, <1>4, SetsFrame
<1>6. TypeOK'
  BY <1>4, <1>5 DEF TypeOK, Frame, Work, commits
<1>7. ToldInv'
  BY <1>1, <1>3, <1>4, <1>5, TellingMoves DEF At
<1> QED BY <1>6, <1>7

LEMMA ToldSets ==
  ASSUME TypeOK, NEW h \in Handlers, Told(h)
  PROVE  \E q \in Work :
        /\ Sets(h, q)
        /\ \/ /\ At(h, "telling") /\ handler[h].kind = "declare"
              /\ q.at = "losers" /\ q.kind = "declare" /\ q.pending = With("lost")
           \/ /\ At(h, "telling") => handler[h].kind # "declare"
              /\ q = Idle
<1>9. handler[h] \in Work
  BY HandlerType
<1>1. CASE At(h, "telling") /\ handler[h].kind = "declare"
  <2> DEFINE q == [handler[h] EXCEPT !.at = "losers", !.pending = With("lost")]
  <2>1. With("lost") \subseteq Users
    BY DEF With
  <2>2. q \in Work /\ q.at = "losers" /\ q.kind = "declare" /\ q.pending = With("lost")
    BY <1>9, <1>1, <2>1, StepNames DEF Work
  <2>3. Sets(h, q)
    BY <1>1 DEF Told
  <2> HIDE DEF q
  <2> QED BY <1>1, <2>2, <2>3
<1>2. CASE ~(At(h, "telling") /\ handler[h].kind = "declare")
  BY <1>2, IdleType DEF Told, Ends
<1> QED BY <1>1, <1>2

\* All to be told in a step have been, or one message failed.
LEMMA ToldTells ==
  ASSUME TypeOK, ToldInv, NEW h \in Handlers, Told(h)
  PROVE  TypeOK' /\ ToldInv'
<1>1. /\ handler[h].at \in {"telling", "losers"} /\ handler[h].pending = {}
      /\ UNCHANGED <<commits, shown, told, missed, harm>> /\ handler[h] \in Work
  BY HandlerType DEF Told, clients
<1>2. PICK q \in Work :
        /\ Sets(h, q)
        /\ \/ /\ At(h, "telling") /\ handler[h].kind = "declare"
              /\ q.at = "losers" /\ q.kind = "declare" /\ q.pending = With("lost")
           \/ /\ At(h, "telling") => handler[h].kind # "declare"
              /\ q = Idle
  BY ToldSets
<1>3. Frame(h, q, {})
  BY <1>2, SetsFrame
<1>4. TypeOK'
  BY <1>1, <1>3 DEF TypeOK, Frame, Work, commits
<1>5. handler[h].kind = "declare" =>
        \A u \in Untold(h) :
          q.kind = "declare" /\ q.at = "losers" /\ u \in Untold(h)'
  <2> SUFFICES ASSUME handler[h].kind = "declare", NEW u \in Untold(h)
               PROVE  q.kind = "declare" /\ q.at = "losers" /\ u \in Untold(h)'
    OBVIOUS
  <2>1. At(h, "telling") /\ u \in With("lost")
    BY <1>1 DEF Untold, At
  <2>2. handler'[h] = q /\ q.kind = "declare" /\ q.at = "losers" /\ q.pending = With("lost")
    BY <1>2, <1>3, <2>1 DEF Frame
  <2> QED BY <2>1, <2>2 DEF Untold
<1>6. q.at \in {"idle", "losers"}
  BY <1>2, IdleType
<1>7. q.at = "losers" => q.kind = "declare" /\ q.pending \subseteq With("lost")
  BY <1>2, IdleType
<1>8. ToldInv'
  BY <1>1, <1>3, <1>5, <1>6, <1>7, TellingMoves
<1> QED BY <1>4, <1>8

LEMMA UntoldUsers ==
  ASSUME TypeOK, NEW h \in Handlers
  PROVE  Untold(h) \subseteq Users
<1>1. handler[h] \in Work
  BY HandlerType
<1> QED BY <1>1 DEF Untold, Work, With

LEMMA TellingFailsTells ==
  ASSUME TypeOK, ToldInv, NEW h \in Handlers, TellingFails(h)
  PROVE  TypeOK' /\ ToldInv'
<1>1. /\ handler[h].at \in {"list", "telling"} /\ Ends(h)
      /\ UNCHANGED <<commits, shown, told, harm>> /\ missed' = missed \cup Untold(h)
  BY DEF TellingFails, At
<1>2. Frame(h, Idle, {})
  BY <1>1, IdleType, SetsFrame DEF Ends
<1>3. TypeOK'
  BY <1>1, <1>2, UntoldUsers DEF TypeOK, Frame, Work, commits
<1>4. ToldInv'
  BY <1>1, <1>2, IdleType, TellingMoves
<1> QED BY <1>3, <1>4

\* One user is told, of what was committed or of what is about to be.
LEMMA TellTells ==
  ASSUME TypeOK, ToldInv, NEW h \in Handlers, NEW u \in Users, Tell(h, u)
  PROVE  TypeOK' /\ ToldInv'
<1> DEFINE q == [handler[h] EXCEPT !.pending = @ \ {u}]
<1>1. /\ handler[h].at \in {"refunding", "telling", "losers"} /\ u \in handler[h].pending
      /\ UNCHANGED <<commits, shown, missed, harm>> /\ handler[h] \in Work
      /\ Sets(h, q)
  BY HandlerType DEF Tell
<1>2. /\ q \in Work /\ q.at = handler[h].at /\ q.kind = handler[h].kind
      /\ q.pending = handler[h].pending \ {u} /\ q.option = handler[h].option
      /\ q.fresh = handler[h].fresh /\ q.user = handler[h].user
  BY <1>1 DEF Work
<1> HIDE DEF q
<1>3. Frame(h, q, {})
  BY <1>1, <1>2, SetsFrame
<1>4. /\ At(h, "refunding") => handler[h].kind \in {"declare", "cancelRound"}
      /\ At(h, "telling") => handler[h].kind \in {"open", "lock", "declare"}
      /\ At(h, "losers") => handler[h].kind = "declare"
  BY DEF ToldInv, Stages
<1>5. handler[h].kind # "open" =>
        /\ told' = [told EXCEPT ![u] = @ \cup {Message(h, u)}]
        /\ At(h, "refunding") => Message(h, u) = Result(h, u)
        /\ At(h, "losers") => Message(h, u) = "lost"
        /\ At(h, "telling") /\ handler[h].kind = "lock" => Message(h, u) = "locked"
        /\ At(h, "telling") /\ handler[h].kind = "declare" => Message(h, u) = "won"
  <2>1. handler[h].kind # "open" => told' = [told EXCEPT ![u] = @ \cup {Message(h, u)}]
    BY DEF Tell
  <2> QED BY <2>1 DEF Message, At
<1>6. At(h, "refunding") =>
        /\ bet[u].status = "active" /\ Result(h, u) \in {"refunded", "cancelled"}
        /\ handler[h].kind = "declare" =>
             Void(handler[h].option) /\ Result(h, u) = "refunded"
  <2> SUFFICES ASSUME At(h, "refunding")
               PROVE  /\ bet[u].status = "active"
                      /\ Result(h, u) \in {"refunded", "cancelled"}
                      /\ handler[h].kind = "declare" =>
                           Void(handler[h].option) /\ Result(h, u) = "refunded"
    OBVIOUS
  <2>1. u \in With("active")
    BY <1>1 DEF ToldInv, PendingHaveIt
  <2>2. handler[h].kind = "declare" => Void(handler[h].option)
    BY <1>1 DEF ToldInv, OneTransaction
  <2> QED BY <1>4, <2>1, <2>2 DEF Result, With
<1>7. told \in [Users -> SUBSET News]
  BY DEF TypeOK
<1>8. told' \in [Users -> SUBSET News]
  <2>1. CASE handler[h].kind = "open"
    BY <1>7, <2>1 DEF Tell
  <2>2. CASE handler[h].kind # "open"
    <3>1. Message(h, u) \in News
      BY <1>1, <1>4, <1>5, <1>6, <2>2 DEF News, At
    <3> QED BY <1>5, <1>7, <2>2, <3>1
  <2> QED BY <2>1, <2>2
<1>9. TypeOK'
  BY <1>1, <1>3, <1>8 DEF TypeOK, Frame, Work, commits
<1>10. \A v \in Users :
         /\ told[v] \subseteq told'[v]
         /\ told'[v] \subseteq told[v] \cup
              (IF v = u /\ handler[h].kind # "open" THEN {Message(h, u)} ELSE {})
  <2>1. CASE handler[h].kind = "open"
    BY <2>1 DEF Tell
  <2>2. CASE handler[h].kind # "open"
    BY <1>5, <1>7, <2>2
  <2> QED BY <2>1, <2>2
<1>11. ToldInv'
  <2>1. CASE handler[h].at \in {"telling", "losers"}
    <3>1. /\ q.at = "telling" /\ q.kind = "declare" => q.pending \subseteq With("won")
          /\ q.at = "losers" => q.pending \subseteq With("lost")
          /\ At(h, "telling") /\ handler[h].kind = "declare" => bet[u].status = "won"
          /\ At(h, "losers") => bet[u].status = "lost"
      BY <1>1, <1>2 DEF ToldInv, PendingHaveIt, At, With
    <3>2. \A v \in Users : \A status \in told'[v] :
            \/ status \in told[v] \/ status = "locked"
            \/ status \in {"won", "lost"} /\ bet[v].status = status
      <4> SUFFICES ASSUME NEW v \in Users, NEW status \in told'[v], status \notin told[v]
                   PROVE  \/ status = "locked"
                          \/ status \in {"won", "lost"} /\ bet[v].status = status
        OBVIOUS
      <4>1. v = u /\ handler[h].kind # "open" /\ status = Message(h, u)
        BY <1>10
      <4> QED BY <1>4, <1>5, <2>1, <3>1, <4>1 DEF At
    <3>3. handler[h].kind = "declare" =>
            \A v \in Untold(h) : bet[v].status \in {"won", "lost"} =>
              \/ bet[v].status \in told'[v] \/ v \in missed'
              \/ /\ q.kind = "declare" /\ q.at \in {"telling", "losers"}
                 /\ v \in Untold(h)'
      <4> SUFFICES ASSUME handler[h].kind = "declare", NEW v \in Untold(h),
                          bet[v].status \in {"won", "lost"}, v \notin Untold(h)'
                   PROVE  bet[v].status \in told'[v]
        BY <1>2, <2>1
      <4>1. handler'[h] = q /\ bet' = bet
        BY <1>1, <1>3 DEF Frame, commits
      <4>2. v = u
        BY <1>2, <2>1, <4>1 DEF Untold, At, With
      <4>3. Message(h, u) = bet[u].status
        BY <1>5, <2>1, <3>1 DEF At
      <4> QED BY <1>5, <1>7, <4>2, <4>3
    <3> QED BY <1>1, <1>2, <1>3, <1>4, <1>10, <2>1, <3>1, <3>2, <3>3, TellingMoves DEF At
  <2>2. CASE At(h, "refunding")
    <3>1. /\ bet' = bet /\ round' = round /\ missed' = missed /\ harm' = harm
          /\ \A status : With(status)' = With(status)
          /\ \A o : Backers(o)' = Backers(o) /\ Void(o)' = Void(o)
          /\ \A i \in Handlers \ {h} :
               /\ Untold(i)' = Untold(i)
               /\ \A step : At(i, step)' = At(i, step)
               /\ \A v : Result(i, v)' = Result(i, v)
      BY <1>1, <1>2, <1>3, OthersGoOn
    <3>2. handler'[h] = q
      BY <1>3 DEF Frame
    <3>3. \A i \in Handlers :
            /\ \A step : At(i, step)' = At(i, step)
            /\ handler'[i].at = handler[i].at /\ handler'[i].kind = handler[i].kind
            /\ handler'[i].user = handler[i].user /\ handler'[i].option = handler[i].option
            /\ (handler[i].fresh => handler'[i].fresh)
            /\ handler'[i].pending \subseteq handler[i].pending
            /\ \A v : v \in handler[i].pending /\ v \notin handler'[i].pending => i = h /\ v = u
      BY <1>2, <1>3, <3>2 DEF Frame, At
    <3>4. \A i \in Handlers : \A v : Result(i, v)' = Result(i, v)
      BY <3>1, <3>3 DEF Result
    <3>5. Stages'
      BY <3>3 DEF ToldInv, Stages
    <3>6. OneTransaction'
      BY <3>1, <3>3 DEF ToldInv, OneTransaction
    <3>7. PendingHaveIt'
      BY <3>1, <3>3 DEF ToldInv, PendingHaveIt
    <3>8. RefundedAreTold'
      <4>1. handler[h].kind = "declare" => "refunded" \in told'[u]
        BY <1>4, <1>5, <1>6, <1>7, <2>2
      <4>2. ASSUME NEW i \in Handlers, At(i, "refunding")', handler'[i].kind = "declare",
                   Void(handler[i].option)', NEW v \in With("active")'
            PROVE  v \in handler'[i].pending \/ "refunded" \in told'[v]
        <5>1. At(i, "refunding") /\ handler[i].kind = "declare" /\ Void(handler[i].option)
              /\ v \in With("active")
          BY <3>1, <3>3, <4>2
        <5>3. v \in Users
          BY <5>1 DEF With
        <5>2. v \in handler[i].pending \/ "refunded" \in told[v]
          BY <5>1 DEF ToldInv, RefundedAreTold
        <5> QED BY <1>10, <3>3, <4>1, <5>1, <5>2, <5>3
      <4>3. \A v \in Users : bet'[v].status = "refunded" => "refunded" \in told'[v]
        BY <1>10, <3>1 DEF ToldInv, RefundedAreTold
      <4> QED BY <4>2, <4>3 DEF RefundedAreTold
    <3>9. SettledIsOver'
      BY <3>1 DEF ToldInv, SettledIsOver
    <3>10. NewsHolds'
      <4>1. ASSUME NEW v \in Users, NEW status \in {"won", "lost"}, status \in told'[v]
            PROVE  bet'[v].status = status
        <5>1. status \in told[v]
          BY <1>4, <1>5, <1>6, <1>10, <2>2, <4>1
        <5> QED BY <3>1, <5>1 DEF ToldInv, NewsHolds
      <4>2. ASSUME "rolled back" \notin harm', NEW v \in Users,
                   NEW status \in {"refunded", "cancelled"}, status \in told'[v]
            PROVE  \/ bet'[v].status = status /\ round' \in {"closed", "cancelled"}
                   \/ \E i \in Handlers :
                        /\ At(i, "refunding")' /\ v \notin handler'[i].pending
                        /\ bet'[v].status = "active" /\ Result(i, v)' = status
        <5>1. CASE status \in told[v]
          <6>1. "rolled back" \notin harm
            BY <3>1, <4>2
          <6>2. \/ bet[v].status = status /\ round \in {"closed", "cancelled"}
                \/ \E i \in Handlers :
                     /\ At(i, "refunding") /\ v \notin handler[i].pending
                     /\ bet[v].status = "active" /\ Result(i, v) = status
            BY <5>1, <6>1 DEF ToldInv, NewsHolds
          <6> QED BY <3>1, <3>3, <3>4, <6>2 DEF At
        <5>2. CASE status \notin told[v]
          <6>1. v = u /\ status = Result(h, u)
            BY <1>4, <1>5, <1>10, <2>2, <4>2, <5>2
          <6>2. At(h, "refunding")' /\ u \notin handler'[h].pending
            BY <1>2, <2>2, <3>2, <3>3
          <6> QED BY <1>6, <2>2, <3>1, <3>4, <6>1, <6>2
        <5> QED BY <5>1, <5>2
      <4> QED BY <4>1, <4>2 DEF NewsHolds
    <3>11. BettorsWillBeTold'
      <4> SUFFICES ASSUME NEW v \in Users, NEW status \in {"won", "lost"},
                          bet'[v].status = status
                   PROVE  \/ status \in told'[v] \/ v \in missed'
                          \/ \E i \in Handlers :
                               /\ handler'[i].kind = "declare"
                               /\ handler'[i].at \in {"announce", "telling", "losers"}
                               /\ v \in Untold(i)'
        BY DEF BettorsWillBeTold
      <4>1. \/ status \in told[v] \/ v \in missed
            \/ \E i \in Handlers \ {h} :
                 /\ handler[i].kind = "declare"
                 /\ handler[i].at \in {"announce", "telling", "losers"} /\ v \in Untold(i)
        BY <2>2, <3>1 DEF ToldInv, BettorsWillBeTold, At
      <4> QED BY <1>10, <3>1, <3>3, <4>1
    <3> QED BY <3>5, <3>6, <3>7, <3>8, <3>9, <3>10, <3>11 DEF ToldInv
  <2> QED BY <1>1, <2>1, <2>2 DEF At
<1> QED BY <1>9, <1>11

\* A transaction is undone, after messages of its refunds.
LEMMA RollBackTells ==
  ASSUME TypeOK, ToldInv, NEW h \in Handlers, RollBack(h)
  PROVE  TypeOK' /\ ToldInv'
<1>1. /\ At(h, "refunding") /\ Ends(h) /\ UNCHANGED <<commits, shown, told, missed>>
      /\ harm' = harm \cup {"rolled back"}
  BY DEF RollBack, clients
<1>2. Frame(h, Idle, {})
  BY <1>1, IdleType, SetsFrame DEF Ends
<1>3. TypeOK'
  BY <1>1, <1>2 DEF TypeOK, Frame, Work, commits, Harms
<1>4. /\ bet' = bet /\ round' = round
      /\ \A status : With(status)' = With(status)
      /\ \A i \in Handlers \ {h} : Untold(i)' = Untold(i)
  BY <1>1, <1>2, IdleType, OthersGoOn
<1>5. handler'[h].at = "idle" /\ \A i \in Handlers : ~At(i, "refunding")'
  BY <1>1, <1>2, IdleType DEF ToldInv, OneTransaction, At, Frame
<1>6. Stages'
  BY <1>2, <1>5 DEF ToldInv, Stages, At, Frame, UserSteps
<1>7. OneTransaction' /\ RefundedAreTold' /\ SettledIsOver'
  BY <1>1, <1>4, <1>5 DEF ToldInv, OneTransaction, RefundedAreTold, SettledIsOver
<1>8. PendingHaveIt'
  BY <1>2, <1>4, <1>5 DEF ToldInv, PendingHaveIt, At, Frame
<1>9. NewsHolds'
  BY <1>1, <1>4 DEF ToldInv, NewsHolds
<1>10. BettorsWillBeTold'
  BY <1>1, <1>2, <1>4 DEF ToldInv, BettorsWillBeTold, At, Frame
<1> QED BY <1>3, <1>6, <1>7, <1>8, <1>9, <1>10 DEF ToldInv

\* The process ends: whoever was still to be told is missed.
LEMMA UnhandledTells ==
  ASSUME TypeOK, ToldInv, NEW h \in Handlers, Unhandled(h)
  PROVE  TypeOK' /\ ToldInv'
<1>1. /\ UNCHANGED <<commits, shown, told>>
      /\ missed' = missed \cup UNION {Untold(i) : i \in Handlers}
      /\ harm' = harm \cup {"unannounced", "rolled back"}
      /\ handler' = [i \in Handlers |-> Idle]
  BY DEF Unhandled
<1>2. \A i \in Handlers : Untold(i) \subseteq Users
  BY UntoldUsers
<1>3. missed' \subseteq Users
  <2>1. UNION {Untold(i) : i \in Handlers} \subseteq Users
    BY <1>2
  <2> QED BY <1>1, <2>1 DEF TypeOK
<1>4. handler' \in [Handlers -> Work]
  BY <1>1, IdleType
<1>5. TypeOK'
  BY <1>1, <1>3, <1>4 DEF TypeOK, Work, commits, Harms
<1>6. \A i \in Handlers : handler'[i].at = "idle"
  BY <1>1, IdleType
<1>7. Stages' /\ OneTransaction' /\ PendingHaveIt'
  BY <1>6 DEF Stages, OneTransaction, PendingHaveIt, At, UserSteps
<1>8. RefundedAreTold' /\ SettledIsOver'
  BY <1>1, <1>6 DEF ToldInv, RefundedAreTold, SettledIsOver, At, commits
<1>9. NewsHolds'
  BY <1>1 DEF ToldInv, NewsHolds, commits
<1>10. BettorsWillBeTold'
  <2> SUFFICES ASSUME NEW u \in Users, NEW status \in {"won", "lost"},
                      bet'[u].status = status
               PROVE  status \in told'[u] \/ u \in missed'
    BY DEF BettorsWillBeTold
  <2>1. status \in told[u] \/ u \in missed \/ \E i \in Handlers : u \in Untold(i)
    BY <1>1 DEF ToldInv, BettorsWillBeTold, commits
  <2> QED BY <1>1, <2>1
<1> QED BY <1>5, <1>7, <1>8, <1>9, <1>10 DEF ToldInv

\* The transaction commits: every active bet has its result.
LEMMA SettleTells ==
  ASSUME TypeOK, ToldInv, NEW h \in Handlers, Settle(h)
  PROVE  TypeOK' /\ ToldInv'
<1> DEFINE counted == handler[h].kind = "declare" \/ With("active") = {}
           q == [handler[h] EXCEPT !.at = "announce", !.option = NoOption]
           S == Announcing \cup IF counted THEN {} ELSE {i \in Handlers : At(i, "update")}
<1>1. /\ At(h, "refunding") /\ handler[h].pending = {} /\ handler[h] \in Work
      /\ bet' = [u \in Users |-> IF bet[u].status = "active"
                   THEN Over(Result(h, u)) ELSE bet[u]]
      /\ round' = IF handler[h].kind = "declare" THEN "closed" ELSE "cancelled"
      /\ UNCHANGED <<silent, told, missed, harm>>
      /\ SetsAndAges(h, q, S)
  BY HandlerType DEF Settle
<1>2. handler[h].kind \in {"declare", "cancelRound"}
  BY <1>1 DEF ToldInv, Stages
<1>3. q \in Work /\ q.at = "announce" /\ q.kind = handler[h].kind /\ q.pending = {}
  BY <1>1, StepNames DEF Work
<1> HIDE DEF q, S, counted
<1>4. Frame(h, q, S)
  BY <1>1, <1>3, AgesFrame
<1>5. \A u \in Users :
        /\ Result(h, u) \in {"won", "lost", "refunded", "cancelled"}
        /\ handler[h].kind = "cancelRound" => Result(h, u) = "cancelled"
  BY <1>2 DEF Result
<1>6. \A u \in Users :
        /\ bet[u].status = "active" => bet'[u].status = Result(h, u)
        /\ bet[u].status # "active" => bet'[u] = bet[u]
  BY <1>1 DEF Over
<1>7. TypeOK'
  <2>1. shown' \in [round : BOOLEAN, totals : BOOLEAN,
                    wallet : SUBSET Users, forecast : SUBSET Users]
    <3>1. shown' = [shown EXCEPT !.round = FALSE,
                      !.totals = @ /\ (handler[h].kind = "declare" \/ With("active") = {})]
      BY DEF Settle
    <3>2. (shown.totals /\ (handler[h].kind = "declare" \/ With("active") = {})) \in BOOLEAN
      OBVIOUS
    <3> QED BY <3>1, <3>2 DEF TypeOK
  <2>2. bet' \in [Users -> [status : Statuses, option : Options \cup {NoOption}]]
    <3>1. \A u \in Users : Over(Result(h, u))
            \in [status : Statuses, option : Options \cup {NoOption}]
      BY <1>5 DEF Over, Statuses
    <3> QED BY <1>1, <3>1 DEF TypeOK
  <2> QED BY <1>1, <1>2, <1>4, <2>1, <2>2 DEF TypeOK, Frame, Work
<1>8. /\ round' \in {"closed", "cancelled"}
      /\ \A i \in Handlers : ~At(i, "refunding")'
  BY <1>1, <1>3, <1>4 DEF ToldInv, OneTransaction, At, Frame
<1>9. Stages'
  BY <1>2, <1>3, <1>4, <1>8 DEF ToldInv, Stages, At, Frame, UserSteps
<1>10. OneTransaction' /\ SettledIsOver'
  BY <1>8 DEF OneTransaction, SettledIsOver
<1>11. /\ With("won") \subseteq With("won")' /\ With("lost") \subseteq With("lost")'
  BY <1>6 DEF With
<1>12. PendingHaveIt'
  BY <1>3, <1>4, <1>8, <1>11 DEF ToldInv, PendingHaveIt, At, Frame
<1>13. RefundedAreTold'
  <2> SUFFICES ASSUME NEW u \in Users, bet'[u].status = "refunded"
               PROVE  "refunded" \in told'[u]
    BY <1>8 DEF RefundedAreTold
  <2>1. CASE bet[u].status = "active"
    <3>1. Result(h, u) = "refunded"
      BY <1>6, <2>1
    <3>2. handler[h].kind = "declare" /\ Void(handler[h].option)
      BY <1>2, <3>1 DEF Result
    <3>3. u \in With("active")
      BY <2>1 DEF With
    <3>4. u \in handler[h].pending \/ "refunded" \in told[u]
      BY <1>1, <3>2, <3>3 DEF ToldInv, RefundedAreTold
    <3> QED BY <1>1, <3>4
  <2>2. CASE bet[u].status # "active"
    BY <1>1, <1>6, <2>2 DEF ToldInv, RefundedAreTold
  <2> QED BY <2>1, <2>2
<1>14. NewsHolds'
  <2>0. NewsHolds
    BY DEF ToldInv
  <2>1. ASSUME NEW u \in Users, NEW status \in {"won", "lost"}, status \in told'[u]
        PROVE  bet'[u].status = status
    <3>1. \A s \in {"won", "lost"} : s \in told[u] => bet[u].status = s
      BY <2>0, NewsParts
    <3> QED BY <1>1, <1>6, <2>1, <3>1
  <2>2. ASSUME "rolled back" \notin harm', NEW u \in Users,
               NEW status \in {"refunded", "cancelled"}, status \in told'[u]
        PROVE  bet'[u].status = status /\ round' \in {"closed", "cancelled"}
    <3>1. \A s \in {"refunded", "cancelled"} : s \in told[u] =>
            \/ bet[u].status = s /\ round \in {"closed", "cancelled"}
            \/ \E i \in Handlers :
                 /\ At(i, "refunding") /\ u \notin handler[i].pending
                 /\ bet[u].status = "active" /\ Result(i, u) = s
      BY <1>1, <2>0, <2>2, NewsParts
    <3>2. \/ bet[u].status = status
          \/ bet[u].status = "active" /\ Result(h, u) = status
      BY <1>1, <2>2, <3>1 DEF ToldInv, OneTransaction
    <3> QED BY <1>6, <1>8, <3>2
  <2> QED BY <2>1, <2>2 DEF NewsHolds
<1>15. BettorsWillBeTold'
  <2> SUFFICES ASSUME NEW u \in Users, NEW status \in {"won", "lost"},
                      bet'[u].status = status
               PROVE  \/ status \in told'[u] \/ u \in missed'
                      \/ \E i \in Handlers :
                           /\ handler'[i].kind = "declare"
                           /\ handler'[i].at \in {"announce", "telling", "losers"}
                           /\ u \in Untold(i)'
    BY DEF BettorsWillBeTold
  <2>1. CASE bet[u].status = "active"
    <3>1. handler[h].kind = "declare"
      BY <1>2, <1>5, <1>6, <2>1
    <3>2. u \in With("won")' \/ u \in With("lost")'
      BY DEF With
    <3>3. handler'[h].kind = "declare" /\ handler'[h].at = "announce"
      BY <1>3, <1>4, <3>1 DEF Frame
    <3>4. u \in Untold(h)'
      BY <3>2, <3>3 DEF Untold, At
    <3> QED BY <3>3, <3>4
  <2>2. CASE bet[u].status # "active"
    <3>1. \/ status \in told[u] \/ u \in missed
          \/ \E i \in Handlers \ {h} :
               /\ handler[i].kind = "declare"
               /\ handler[i].at \in {"announce", "telling", "losers"} /\ u \in Untold(i)
      BY <1>1, <1>6, <2>2 DEF ToldInv, BettorsWillBeTold, At
    <3>2. ASSUME NEW i \in Handlers \ {h}, handler[i].kind = "declare",
                 handler[i].at \in {"announce", "telling", "losers"}, u \in Untold(i)
          PROVE  /\ handler'[i].kind = "declare" /\ u \in Untold(i)'
                 /\ handler'[i].at \in {"announce", "telling", "losers"}
      <4>1. /\ handler'[i].kind = "declare" /\ handler'[i].at = handler[i].at
            /\ handler'[i].pending = handler[i].pending
        BY <1>4, <3>2 DEF Frame
      <4>2. u \in Untold(i)'
        BY <1>11, <3>2, <4>1 DEF Untold, At
      <4> QED BY <3>2, <4>1, <4>2
    <3> QED BY <1>1, <3>1, <3>2
  <2> QED BY <2>1, <2>2
<1> QED BY <1>7, <1>9, <1>10, <1>12, <1>13, <1>14, <1>15 DEF ToldInv

\* The round is open, and no message of it is about a bet.
LEMMA OpenFailsTells ==
  ASSUME TypeOK, ToldInv, NEW h \in Handlers, OpenFails(h)
  PROVE  TypeOK' /\ ToldInv'
<1>1. /\ At(h, "announce") /\ handler[h].kind = "open" /\ Ends(h)
      /\ UNCHANGED <<commits, shown, told, missed>>
      /\ harm' = harm \cup {"unannounced"}
  BY DEF OpenFails, clients
<1>2. Frame(h, Idle, {})
  BY <1>1, IdleType, SetsFrame DEF Ends
<1>3. TypeOK'
  BY <1>1, <1>2 DEF TypeOK, Frame, Work, commits, Harms
<1>4. ToldInv'
  BY <1>1, <1>2, IdleType, TellingMoves DEF At
<1> QED BY <1>3, <1>4

LEMMA ContinueTells ==
  ASSUME TypeOK, ToldInv, NEW h \in Handlers, Continue(h) \/ Fault(h)
  PROVE  TypeOK' /\ ToldInv'
<1>1. CASE \/ Read(h) \/ Confirm(h) \/ Update(h) \/ SendForecasts(h) \/ HandlerFails(h)
  BY <1>1, ShowingInvariant
<1>2. CASE Announce(h) \/ List(h) \/ Told(h) \/ TellingFails(h)
  BY <1>2, AnnounceTells, ListTells, ToldTells, TellingFailsTells
<1>3. CASE Settle(h) \/ RollBack(h) \/ Unhandled(h) \/ OpenFails(h)
  BY <1>3, SettleTells, RollBackTells, UnhandledTells, OpenFailsTells
<1>4. CASE \E u \in Users : Tell(h, u)
  BY <1>4, TellTells
<1> QED BY <1>1, <1>2, <1>3, <1>4 DEF Continue, Fault

LEMMA RequestTells ==
  ASSUME TypeOK, ToldInv, NEW h \in Handlers, Request(h)
  PROVE  TypeOK' /\ ToldInv'
<1>1. ASSUME NEW u \in Users, NEW o \in Options, Place(h, u, o) \/ Edit(h, u, o)
      PROVE  TypeOK' /\ ToldInv'
  BY <1>1, BetCommitsTells DEF Place, Edit
<1>2. ASSUME NEW u \in Users, Cancel(h, u)
      PROVE  TypeOK' /\ ToldInv'
  BY <1>2, BetCommitsTells DEF Cancel, Over
<1>3. CASE Open(h) \/ Lock(h)
  BY <1>3, StatusCommitsTells
<1>4. CASE CancelRound(h) \/ \E o \in Options : Declare(h, o)
  BY <1>4, TransactionTells
<1> QED BY <1>1, <1>2, <1>3, <1>4 DEF Request

----------------------------------------------------------------------------
(***************************************************************************)
(* What the clients are shown.                                             *)
(***************************************************************************)
\* Steps that show nothing, and commit nothing.
LEMMA NothingShown ==
  ASSUME TypeOK, ShownInv, NEW h \in Handlers, NEW q \in Work, Frame(h, q, {}),
         UNCHANGED <<commits, shown>>, Quiet' => Quiet,
         handler[h].at \in {"idle", "refunding", "list", "telling", "losers"}
  PROVE  ShownInv'
<1>1. /\ bet' = bet /\ round' = round /\ shown' = shown /\ silent' = silent
      /\ With("active")' = With("active")
  BY DEF commits, With
<1>2. \A i \in Handlers : handler[i].at \notin
        {"idle", "refunding", "list", "telling", "losers"} =>
          /\ handler'[i].at = handler[i].at /\ handler'[i].user = handler[i].user
          /\ handler'[i].pending = handler[i].pending
          /\ handler[i].fresh => handler'[i].fresh
  BY DEF Frame
<1>3. RoundWillBeShown'
  BY <1>1, <1>2 DEF ShownInv, RoundWillBeShown, At
<1>4. TotalsWillBeShown'
  BY <1>1, <1>2 DEF ShownInv, TotalsWillBeShown, BeforeTotals, At
<1>5. WalletsWillBeShown'
  BY <1>1, <1>2 DEF ShownInv, WalletsWillBeShown, At
<1>6. ForecastsWillBeShown'
  <2> SUFFICES ASSUME Quiet', ~silent.forecast, NEW u \in With("active") \ shown.forecast
               PROVE  \E i \in Handlers :
                        \/ handler'[i].at \in BeforeTotals \cup {"update", "readForecasts"}
                        \/ /\ handler'[i].at = "sendForecasts" /\ handler'[i].fresh
                           /\ u \in handler'[i].pending
    BY <1>1 DEF ForecastsWillBeShown, At
  <2>1. PICK i \in Handlers :
          \/ handler[i].at \in BeforeTotals \cup {"update", "readForecasts"}
          \/ At(i, "sendForecasts") /\ handler[i].fresh /\ u \in handler[i].pending
    BY DEF ShownInv, ForecastsWillBeShown
  <2> QED BY <1>2, <2>1 DEF BeforeTotals, At
<1> QED BY <1>3, <1>4, <1>5, <1>6 DEF ShownInv

\* A handler of a user goes on: the wallet is read, or the totals, or the
\* forecasts; or it fails, and what it did is not announced.
LEMMA ReadKeepsShown ==
  ASSUME TypeOK, ShownInv, NEW h \in Handlers, Read(h) \/ HandlerFails(h)
  PROVE  ShownInv'
<1>1. CASE "unannounced" \in harm'
  BY <1>1 DEF ShownInv, RoundWillBeShown, TotalsWillBeShown, WalletsWillBeShown,
              ForecastsWillBeShown, Quiet
<1>2. CASE "unannounced" \notin harm'
  <2>1. PICK q \in Work :
          /\ Shows(h, q) /\ UNCHANGED <<shown, harm>> /\ q.user = handler[h].user
          /\ \/ At(h, "readEdited") /\ q.at = "sendEdited"
             \/ handler[h].at \in {"readEdited", "sendEdited"} /\ q.at = "readWallet"
             \/ At(h, "readWallet") /\ q.at = "confirm" /\ q.fresh
             \/ At(h, "readTotals") /\ q.at = "update" /\ q.fresh
             \/ /\ At(h, "readForecasts") /\ q.at = "sendForecasts" /\ q.fresh
                /\ q.pending = With("active")
    <3>1. CASE Read(h)
      BY <3>1, ReadShows, StepNames DEF At
    <3>2. CASE HandlerFails(h)
      BY <1>2, <3>2, HandlerFailsShows
    <3> QED BY <3>1, <3>2
  <2>2. Frame(h, q, {}) /\ handler'[h] = q
    BY <2>1, SetsFrame DEF Shows, Frame
  <2>3. /\ bet' = bet /\ round' = round /\ shown' = shown /\ silent' = silent
        /\ With("active")' = With("active") /\ Quiet' = Quiet
    BY <2>1 DEF Shows, commits, With, Quiet
  <2>4. \A i \in Handlers \ {h} :
          /\ handler'[i].at = handler[i].at /\ handler'[i].user = handler[i].user
          /\ handler'[i].pending = handler[i].pending
          /\ handler[i].fresh => handler'[i].fresh
    BY <2>2 DEF Frame
  <2>5. RoundWillBeShown'
    BY <2>1, <2>2, <2>3, <2>4 DEF ShownInv, RoundWillBeShown, At
  <2>6. TotalsWillBeShown'
    BY <2>1, <2>2, <2>3, <2>4 DEF ShownInv, TotalsWillBeShown, BeforeTotals, At
  <2>7. WalletsWillBeShown'
    BY <2>1, <2>2, <2>3, <2>4 DEF ShownInv, WalletsWillBeShown, At
  <2>8. ForecastsWillBeShown'
    <3> SUFFICES ASSUME Quiet', ~silent.forecast, NEW u \in With("active") \ shown.forecast
                 PROVE  \E i \in Handlers :
                          \/ handler'[i].at \in BeforeTotals \cup {"update", "readForecasts"}
                          \/ /\ handler'[i].at = "sendForecasts" /\ handler'[i].fresh
                             /\ u \in handler'[i].pending
      BY <2>3 DEF ForecastsWillBeShown, At
    <3>1. PICK i \in Handlers :
            \/ handler[i].at \in BeforeTotals \cup {"update", "readForecasts"}
            \/ At(i, "sendForecasts") /\ handler[i].fresh /\ u \in handler[i].pending
      BY <2>3 DEF ShownInv, ForecastsWillBeShown
    <3>2. CASE i = h
      BY <2>1, <2>2, <3>1, <3>2 DEF BeforeTotals, At
    <3>3. CASE i # h
      BY <2>4, <3>1, <3>3 DEF BeforeTotals, At
    <3> QED BY <3>2, <3>3
  <2> QED BY <2>5, <2>6, <2>7, <2>8 DEF ShownInv
<1> QED BY <1>1, <1>2

\* What the parts of the invariant read of the other handlers.
LEMMA OthersKeep ==
  ASSUME NEW h \in Handlers, NEW q \in Work, NEW S, Frame(h, q, S)
  PROVE  /\ handler'[h] = q
         /\ \A i \in Handlers \ {h} :
              /\ handler'[i].at = handler[i].at /\ handler'[i].user = handler[i].user
              /\ handler'[i].pending = handler[i].pending
              /\ handler[i].fresh /\ i \notin S => handler'[i].fresh
BY DEF Frame

LEMMA QuietBefore ==
  ASSUME harm \subseteq harm', Quiet'
  PROVE  Quiet
BY DEF Quiet

\* A figure that is emitted is the present one, or another handler has still
\* to emit it: an old one is not emitted over the present one.
LEMMA ConfirmKeepsShown ==
  ASSUME TypeOK, ToldInv, ShownInv, NEW h \in Handlers, Confirm(h)
  PROVE  ShownInv'
<1> DEFINE u == handler[h].user
<1>1. PICK q \in Work : Shows(h, q) /\ q.at = "readTotals"
  BY ConfirmShows
<1>2. At(h, "confirm") /\ u \in Users
  BY DEF Confirm, ToldInv, Stages, UserSteps, At
<1>3. /\ handler'[h] = q
      /\ \A i \in Handlers \ {h} :
           /\ handler'[i].at = handler[i].at /\ handler'[i].user = handler[i].user
           /\ handler'[i].pending = handler[i].pending
           /\ handler[i].fresh => handler'[i].fresh
  BY <1>1, SetsFrame, OthersKeep DEF Shows
<1>4. /\ bet' = bet /\ round' = round /\ silent' = silent
      /\ With("active")' = With("active")
      /\ Quiet' => Quiet
  BY <1>1, QuietBefore DEF Shows, commits, With
<1>5. /\ shown'.round = shown.round /\ shown'.totals = shown.totals
      /\ shown'.forecast = shown.forecast
      /\ handler[h].fresh => shown'.wallet = shown.wallet \cup {u}
      /\ ~handler[h].fresh => shown'.wallet = shown.wallet \ {u}
  BY DEF Confirm, TypeOK
<1>6. Quiet' /\ ~handler[h].fresh => u \notin shown.wallet
  BY DEF Confirm, Crossed, Quiet
<1>7. RoundWillBeShown'
  BY <1>1, <1>2, <1>3, <1>4, <1>5 DEF ShownInv, RoundWillBeShown, At
<1>8. TotalsWillBeShown'
  BY <1>1, <1>3 DEF TotalsWillBeShown, BeforeTotals
<1>9. WalletsWillBeShown'
  <2> SUFFICES ASSUME Quiet', NEW v \in Users \ (shown'.wallet \cup silent'.wallet)
               PROVE  \E i \in Handlers :
                        /\ handler'[i].user = v
                        /\ \/ handler'[i].at \in {"readEdited", "sendEdited", "readWallet"}
                           \/ handler'[i].at = "confirm" /\ handler'[i].fresh
    BY DEF WalletsWillBeShown, At
  <2>1. v \notin shown.wallet
    BY <1>5, <1>6
  <2>2. PICK i \in Handlers :
          /\ handler[i].user = v
          /\ \/ handler[i].at \in {"readEdited", "sendEdited", "readWallet"}
             \/ At(i, "confirm") /\ handler[i].fresh
    BY <1>4, <2>1 DEF ShownInv, WalletsWillBeShown
  <2>3. i # h
    BY <1>2, <1>5, <2>2 DEF At
  <2> QED BY <1>3, <2>2, <2>3 DEF At
<1>10. ForecastsWillBeShown'
  BY <1>1, <1>3 DEF ForecastsWillBeShown, BeforeTotals
<1> QED BY <1>7, <1>8, <1>9, <1>10 DEF ShownInv

LEMMA UpdateKeepsShown ==
  ASSUME TypeOK, ShownInv, NEW h \in Handlers, Update(h)
  PROVE  ShownInv'
<1>1. PICK q \in Work :
        Shows(h, q) /\ q.at = "readForecasts" /\ q.user = handler[h].user
  BY UpdateShows
<1>2. At(h, "update")
  BY DEF Update
<1>3. /\ handler'[h] = q
      /\ \A i \in Handlers \ {h} :
           /\ handler'[i].at = handler[i].at /\ handler'[i].user = handler[i].user
           /\ handler'[i].pending = handler[i].pending
           /\ handler[i].fresh => handler'[i].fresh
  BY <1>1, SetsFrame, OthersKeep DEF Shows
<1>4. /\ bet' = bet /\ round' = round /\ silent' = silent
      /\ With("active")' = With("active")
      /\ Quiet' => Quiet
  BY <1>1, QuietBefore DEF Shows, commits, With
<1>5. /\ shown'.round = shown.round /\ shown'.wallet = shown.wallet
      /\ shown'.forecast = shown.forecast /\ shown'.totals = handler[h].fresh
  BY DEF Update, TypeOK
<1>6. Quiet' /\ ~handler[h].fresh => ~shown.totals
  BY DEF Update, Crossed, Quiet
<1>7. RoundWillBeShown'
  BY <1>1, <1>2, <1>3, <1>4, <1>5 DEF ShownInv, RoundWillBeShown, At
<1>8. TotalsWillBeShown'
  BY <1>2, <1>3, <1>4, <1>5, <1>6 DEF ShownInv, TotalsWillBeShown, BeforeTotals, At
<1>9. WalletsWillBeShown'
  BY <1>2, <1>3, <1>4, <1>5 DEF ShownInv, WalletsWillBeShown, At
<1>10. ForecastsWillBeShown'
  BY <1>1, <1>3 DEF ForecastsWillBeShown
<1> QED BY <1>7, <1>8, <1>9, <1>10 DEF ShownInv

LEMMA SendForecastsKeepsShown ==
  ASSUME TypeOK, ShownInv, NEW h \in Handlers, SendForecasts(h)
  PROVE  ShownInv'
<1> DEFINE to == handler[h].pending
<1>1. PICK q \in Work :
        /\ Shows(h, q)
        /\ \/ At(h, "sendEdited") /\ q.at = "readWallet" /\ q.user = handler[h].user
           \/ At(h, "sendForecasts") /\ q = Idle
  BY SendForecastsShows
<1>2. /\ handler'[h] = q
      /\ \A i \in Handlers \ {h} :
           /\ handler'[i].at = handler[i].at /\ handler'[i].user = handler[i].user
           /\ handler'[i].pending = handler[i].pending
           /\ handler[i].fresh => handler'[i].fresh
  BY <1>1, SetsFrame, OthersKeep DEF Shows
<1>3. /\ bet' = bet /\ round' = round /\ silent' = silent
      /\ With("active")' = With("active")
      /\ Quiet' => Quiet
  BY <1>1, QuietBefore DEF Shows, commits, With
<1>4. /\ shown'.round = shown.round /\ shown'.wallet = shown.wallet
      /\ shown'.totals = shown.totals
      /\ handler[h].fresh => shown'.forecast = shown.forecast \cup to
      /\ ~handler[h].fresh => shown'.forecast = shown.forecast \ to
  BY DEF SendForecasts, TypeOK
<1>5. Quiet' /\ ~handler[h].fresh => to \cap shown.forecast = {}
  BY DEF SendForecasts, Crossed, Quiet
<1>6. RoundWillBeShown'
  BY <1>1, <1>2, <1>3, <1>4 DEF ShownInv, RoundWillBeShown, At
<1>7. TotalsWillBeShown'
  BY <1>1, <1>2, <1>3, <1>4 DEF ShownInv, TotalsWillBeShown, BeforeTotals, At
<1>8. WalletsWillBeShown'
  BY <1>1, <1>2, <1>3, <1>4 DEF ShownInv, WalletsWillBeShown, At
<1>9. ForecastsWillBeShown'
  <2>1. CASE At(h, "sendEdited")
    BY <1>1, <1>2, <2>1 DEF ForecastsWillBeShown, BeforeTotals, At
  <2>2. CASE At(h, "sendForecasts")
    <3> SUFFICES ASSUME Quiet', ~silent.forecast, NEW u \in With("active") \ shown'.forecast
                 PROVE  \E i \in Handlers :
                          \/ handler'[i].at \in BeforeTotals \cup {"update", "readForecasts"}
                          \/ /\ handler'[i].at = "sendForecasts" /\ handler'[i].fresh
                             /\ u \in handler'[i].pending
      BY <1>3 DEF ForecastsWillBeShown, At
    <3>1. u \notin shown.forecast /\ (handler[h].fresh => u \notin to)
      BY <1>4, <1>5
    <3>2. PICK i \in Handlers :
            \/ handler[i].at \in BeforeTotals \cup {"update", "readForecasts"}
            \/ At(i, "sendForecasts") /\ handler[i].fresh /\ u \in handler[i].pending
      BY <1>3, <3>1 DEF ShownInv, ForecastsWillBeShown
    <3>3. i # h
      BY <2>2, <3>1, <3>2 DEF BeforeTotals, At
    <3> QED BY <1>2, <3>2, <3>3 DEF At
  <2> QED BY <1>1, <2>1, <2>2
<1> QED BY <1>6, <1>7, <1>8, <1>9 DEF ShownInv

LEMMA AnnounceKeepsShown ==
  ASSUME TypeOK, ShownInv, NEW h \in Handlers, NEW q \in Work, Sets(h, q), Announce(h)
  PROVE  ShownInv'
<1>1. At(h, "announce") /\ UNCHANGED commits /\ harm \subseteq harm'
  BY DEF Announce, Crossed
<1>2. /\ handler'[h] = q
      /\ \A i \in Handlers \ {h} :
           /\ handler'[i].at = handler[i].at /\ handler'[i].user = handler[i].user
           /\ handler'[i].pending = handler[i].pending
           /\ handler[i].fresh => handler'[i].fresh
  BY SetsFrame, OthersKeep
<1>3. /\ bet' = bet /\ round' = round /\ silent' = silent
      /\ With("active")' = With("active")
      /\ Quiet' => Quiet
  BY <1>1, QuietBefore DEF commits, With
<1>4. /\ shown'.round = handler[h].fresh /\ shown'.wallet = shown.wallet
      /\ shown'.totals = shown.totals /\ shown'.forecast = shown.forecast
  BY DEF Announce, TypeOK
<1>5. Quiet' /\ ~handler[h].fresh => ~shown.round
  BY DEF Announce, Crossed, Quiet
<1>6. RoundWillBeShown'
  BY <1>1, <1>2, <1>3, <1>4, <1>5 DEF ShownInv, RoundWillBeShown, At
<1>7. TotalsWillBeShown'
  BY <1>1, <1>2, <1>3, <1>4 DEF ShownInv, TotalsWillBeShown, BeforeTotals, At
<1>8. WalletsWillBeShown'
  BY <1>1, <1>2, <1>3, <1>4 DEF ShownInv, WalletsWillBeShown, At
<1>9. ForecastsWillBeShown'
  <2> SUFFICES ASSUME Quiet', ~silent.forecast, NEW u \in With("active") \ shown.forecast
               PROVE  \E i \in Handlers :
                        \/ handler'[i].at \in BeforeTotals \cup {"update", "readForecasts"}
                        \/ /\ handler'[i].at = "sendForecasts" /\ handler'[i].fresh
                           /\ u \in handler'[i].pending
    BY <1>3, <1>4 DEF ForecastsWillBeShown, At
  <2>1. PICK i \in Handlers :
          \/ handler[i].at \in BeforeTotals \cup {"update", "readForecasts"}
          \/ At(i, "sendForecasts") /\ handler[i].fresh /\ u \in handler[i].pending
    BY <1>3 DEF ShownInv, ForecastsWillBeShown
  <2>2. i # h
    BY <1>1, <2>1 DEF BeforeTotals, At
  <2> QED BY <1>2, <2>1, <2>2 DEF At
<1> QED BY <1>6, <1>7, <1>8, <1>9 DEF ShownInv

\* What a commit makes old is shown by the handler that committed, or it is
\* silent about it.
LEMMA BetCommitsKeepsShown ==
  ASSUME TypeOK, ToldInv, ShownInv, NEW h \in Handlers, NEW u \in Users, NEW row,
         NEW step \in {"readEdited", "readWallet", "readForecasts", "idle"},
         BetCommits(h, u, row, step)
  PROVE  ShownInv'
<1> DEFINE q == [Idle EXCEPT !.at = step,
                             !.user = IF step \in Answering THEN u ELSE NoUser]
<1>1. /\ At(h, "idle") /\ UNCHANGED <<round, harm>>
      /\ SetsAndAges(h, q, ReadersOf(u))
  BY DEF BetCommits, Begins
<1>2. q \in Work /\ q.at = step /\ (step \in Answering => q.user = u)
  BY StepNames DEF Idle, Work, Kinds
<1> HIDE DEF q
<1>3. /\ handler'[h] = q
      /\ \A i \in Handlers \ {h} :
           /\ handler'[i].at = handler[i].at /\ handler'[i].user = handler[i].user
           /\ handler'[i].pending = handler[i].pending
           /\ handler[i].fresh /\ i \notin ReadersOf(u) => handler'[i].fresh
  BY <1>1, <1>2, AgesFrame, OthersKeep
<1>4. shown'.round = shown.round /\ shown'.wallet = shown.wallet \ {u}
  BY DEF BetCommits, TypeOK
<1>5. /\ step \notin Answering => silent'.totals
      /\ silent'.forecast <=> step = "idle"
      /\ step \notin Answering => u \in silent'.wallet
      /\ silent.wallet \subseteq silent'.wallet \cup {u}
  BY DEF BetCommits, Unshown, Answering, TypeOK
<1>6. RoundWillBeShown'
  BY <1>1, <1>3, <1>4 DEF ShownInv, RoundWillBeShown, ReadersOf, At, Quiet
<1>7. TotalsWillBeShown' /\ ForecastsWillBeShown'
  BY <1>2, <1>3, <1>5 DEF TotalsWillBeShown, ForecastsWillBeShown, BeforeTotals, Answering
<1>8. WalletsWillBeShown'
  <2> SUFFICES ASSUME Quiet', NEW v \in Users \ (shown'.wallet \cup silent'.wallet)
               PROVE  \E i \in Handlers :
                        /\ handler'[i].user = v
                        /\ \/ handler'[i].at \in {"readEdited", "sendEdited", "readWallet"}
                           \/ handler'[i].at = "confirm" /\ handler'[i].fresh
    BY DEF WalletsWillBeShown, At
  <2>1. CASE v = u
    BY <1>2, <1>3, <1>5, <2>1 DEF Answering
  <2>2. CASE v # u
    <3>1. PICK i \in Handlers :
            /\ handler[i].user = v
            /\ \/ handler[i].at \in {"readEdited", "sendEdited", "readWallet"}
               \/ At(i, "confirm") /\ handler[i].fresh
      BY <1>1, <1>4, <1>5, <2>2 DEF ShownInv, WalletsWillBeShown, Quiet
    <3>2. i # h /\ (At(i, "confirm") => i \notin ReadersOf(u))
      BY <1>1, <2>2, <3>1 DEF At, ReadersOf
    <3> QED BY <1>3, <3>1, <3>2 DEF At
  <2> QED BY <2>1, <2>2
<1> QED BY <1>6, <1>7, <1>8 DEF ShownInv

LEMMA StatusCommitsKeepsShown ==
  ASSUME TypeOK, ShownInv, NEW h \in Handlers, Open(h) \/ Lock(h)
  PROVE  ShownInv'
<1>1. PICK kind \in {"open", "lock"}, status \in {"open", "locked"} :
        StatusCommits(h, kind, status)
  BY DEF Open, Lock
<1> DEFINE q == [Idle EXCEPT !.at = "announce", !.kind = kind]
<1>2. /\ At(h, "idle") /\ round # "cancelled" /\ UNCHANGED <<bet, silent, harm>>
      /\ SetsAndAges(h, q, Announcing)
  BY <1>1 DEF StatusCommits, Begins, Open, Lock
<1>3. q \in Work /\ q.at = "announce" /\ q.fresh
  BY StepNames DEF Idle, Work, Kinds
<1> HIDE DEF q
<1>4. /\ handler'[h] = q
      /\ \A i \in Handlers \ {h} :
           /\ handler'[i].at = handler[i].at /\ handler'[i].user = handler[i].user
           /\ handler'[i].pending = handler[i].pending
           /\ handler[i].fresh /\ i \notin Announcing => handler'[i].fresh
  BY <1>2, <1>3, AgesFrame, OthersKeep
<1>5. /\ shown'.totals = shown.totals /\ shown'.wallet = shown.wallet
      /\ shown'.forecast = shown.forecast
  BY <1>1 DEF StatusCommits, TypeOK
<1>6. RoundWillBeShown'
  BY <1>3, <1>4 DEF RoundWillBeShown, At
<1>7. TotalsWillBeShown'
  BY <1>2, <1>4, <1>5 DEF ShownInv, TotalsWillBeShown, BeforeTotals, Announcing, At, Quiet
<1>8. WalletsWillBeShown'
  BY <1>2, <1>4, <1>5 DEF ShownInv, WalletsWillBeShown, Announcing, At, Quiet
<1>9. ForecastsWillBeShown'
  <2> SUFFICES ASSUME Quiet', ~silent.forecast, NEW u \in With("active") \ shown.forecast
               PROVE  \E i \in Handlers :
                        \/ handler'[i].at \in BeforeTotals \cup {"update", "readForecasts"}
                        \/ /\ handler'[i].at = "sendForecasts" /\ handler'[i].fresh
                           /\ u \in handler'[i].pending
    BY <1>2, <1>5 DEF ForecastsWillBeShown, At, With
  <2>1. PICK i \in Handlers :
          \/ handler[i].at \in BeforeTotals \cup {"update", "readForecasts"}
          \/ At(i, "sendForecasts") /\ handler[i].fresh /\ u \in handler[i].pending
    BY <1>2 DEF ShownInv, ForecastsWillBeShown, Quiet
  <2>2. i # h /\ i \notin Announcing
    BY <1>2, <2>1 DEF BeforeTotals, Announcing, At
  <2> QED BY <1>4, <2>1, <2>2 DEF At
<1> QED BY <1>6, <1>7, <1>8, <1>9 DEF ShownInv

LEMMA SettleKeepsShown ==
  ASSUME TypeOK, ToldInv, ShownInv, NEW h \in Handlers, Settle(h)
  PROVE  ShownInv'
<1> DEFINE counted == handler[h].kind = "declare" \/ With("active") = {}
           q == [handler[h] EXCEPT !.at = "announce", !.option = NoOption]
           S == Announcing \cup IF counted THEN {} ELSE {i \in Handlers : At(i, "update")}
<1>1. /\ At(h, "refunding") /\ handler[h] \in Work /\ UNCHANGED <<silent, harm>>
      /\ bet' = [u \in Users |-> IF bet[u].status = "active"
                   THEN Over(Result(h, u)) ELSE bet[u]]
      /\ round' = IF handler[h].kind = "declare" THEN "closed" ELSE "cancelled"
      /\ SetsAndAges(h, q, S)
  BY HandlerType DEF Settle
<1>2. /\ handler[h].kind \in {"declare", "cancelRound"} /\ handler[h].fresh
      /\ handler[h].kind = "declare" => round = "locked"
  BY <1>1 DEF ToldInv, Stages, OneTransaction
<1>3. q \in Work /\ q.at = "announce" /\ (q.fresh <=> handler[h].fresh)
  BY <1>1, StepNames DEF Work
<1> HIDE DEF q
<1>4. /\ handler'[h] = q
      /\ \A i \in Handlers \ {h} :
           /\ handler'[i].at = handler[i].at /\ handler'[i].user = handler[i].user
           /\ handler'[i].pending = handler[i].pending
           /\ handler[i].fresh /\ i \notin S => handler'[i].fresh
  BY <1>1, <1>3, AgesFrame, OthersKeep
<1>5. shown'.wallet = shown.wallet /\ (shown'.totals <=> shown.totals /\ counted)
  <2>1. shown' = [shown EXCEPT !.round = FALSE, !.totals = @ /\ counted]
    BY DEF Settle
  <2> HIDE DEF counted
  <2> QED BY <2>1 DEF TypeOK
<1>6. RoundWillBeShown'
  BY <1>2, <1>3, <1>4 DEF RoundWillBeShown, At
<1>7. TotalsWillBeShown'
  <2>1. CASE handler[h].kind = "cancelRound"
    BY <1>1, <2>1 DEF TotalsWillBeShown
  <2>2. CASE handler[h].kind = "declare"
    <3>1. counted /\ S = Announcing /\ round # "cancelled"
      BY <1>2, <2>2
    <3> QED BY <1>1, <1>4, <1>5, <3>1
            DEF ShownInv, TotalsWillBeShown, BeforeTotals, Announcing, At, Quiet
  <2> QED BY <1>2, <2>1, <2>2
<1>8. WalletsWillBeShown'
  <2>1. \A i \in Handlers : At(i, "confirm") => i \notin S
    BY DEF At, Announcing
  <2> HIDE DEF S
  <2> QED BY <1>1, <1>4, <1>5, <2>1 DEF ShownInv, WalletsWillBeShown, At, Quiet
<1>9. ForecastsWillBeShown'
  <2>1. \A u \in Users : bet'[u].status # "active"
    BY <1>1 DEF Over, Result
  <2> QED BY <2>1 DEF ForecastsWillBeShown, With
<1> QED BY <1>6, <1>7, <1>8, <1>9 DEF ShownInv

\* The steps that show nothing set their own handler only.
LEMMA QuietSteps ==
  ASSUME TypeOK, NEW h \in Handlers,
         \/ List(h) \/ Told(h) \/ TellingFails(h) \/ RollBack(h)
         \/ (\E u \in Users : Tell(h, u))
         \/ CancelRound(h) \/ \E o \in Options : Declare(h, o)
  PROVE  \E q \in Work : Sets(h, q)
<1>1. handler[h] \in Work
  BY HandlerType
<1>2. CASE List(h)
  <2> DEFINE q == [handler[h] EXCEPT !.at = "telling", !.pending = With("active")]
  <2>1. With("active") \subseteq Users
    BY DEF With
  <2>2. q \in Work
    BY <1>1, <2>1, StepNames DEF Work
  <2>3. Sets(h, q)
    BY <1>2 DEF List
  <2> HIDE DEF q
  <2> QED BY <2>2, <2>3
<1>3. ASSUME NEW u \in Users, Tell(h, u) PROVE \E q \in Work : Sets(h, q)
  <2> DEFINE q == [handler[h] EXCEPT !.pending = @ \ {u}]
  <2>1. q \in Work
    BY <1>1 DEF Work
  <2>2. Sets(h, q)
    BY <1>3 DEF Tell
  <2> HIDE DEF q
  <2> QED BY <2>1, <2>2
<1>4. CASE TellingFails(h) \/ RollBack(h)
  BY <1>4, IdleType DEF TellingFails, RollBack, Ends
<1> QED BY <1>2, <1>3, <1>4, ToldSets, TransactionSets

LEMMA StepKeepsShown ==
  ASSUME TypeOK, ToldInv, ShownInv, NEW h \in Handlers,
         Continue(h) \/ Fault(h) \/ Request(h)
  PROVE  ShownInv'
<1>1. CASE Read(h) \/ HandlerFails(h)
  BY <1>1, ReadKeepsShown
<1>2. CASE Confirm(h) \/ Update(h) \/ SendForecasts(h)
  BY <1>2, ConfirmKeepsShown, UpdateKeepsShown, SendForecastsKeepsShown
<1>3. CASE Settle(h)
  BY <1>3, SettleKeepsShown
<1>4. CASE Announce(h)
  BY <1>4, AnnounceSets, AnnounceKeepsShown
<1>5. CASE \/ List(h) \/ Told(h) \/ TellingFails(h) \/ RollBack(h)
           \/ (\E u \in Users : Tell(h, u))
           \/ CancelRound(h) \/ \E o \in Options : Declare(h, o)
  <2>1. PICK q \in Work : Sets(h, q)
    BY <1>5, QuietSteps
  <2>2. /\ UNCHANGED <<commits, shown>>
        /\ handler[h].at \in {"idle", "refunding", "list", "telling", "losers"}
        /\ UNCHANGED harm \/ harm' = harm \cup {"rolled back"}
    BY <1>5 DEF List, Told, TellingFails, RollBack, Tell, CancelRound, Declare,
                Begins, At, commits, clients
  <2>3. Frame(h, q, {})
    BY <2>1, SetsFrame
  <2>4. Quiet' => Quiet
    BY <2>2, QuietBefore
  <2> QED BY <2>2, <2>3, <2>4, NothingShown
<1>6. CASE Unhandled(h) \/ OpenFails(h)
  <2>1. ~Quiet'
    BY <1>6 DEF Unhandled, OpenFails, Quiet
  <2> QED BY <2>1 DEF ShownInv, RoundWillBeShown, TotalsWillBeShown,
                       WalletsWillBeShown, ForecastsWillBeShown
<1>7. CASE \E u \in Users : Cancel(h, u) \/ \E o \in Options : Place(h, u, o) \/ Edit(h, u, o)
  BY <1>7, BetCommitsKeepsShown DEF Cancel, Place, Edit
<1>8. CASE Open(h) \/ Lock(h)
  BY <1>8, StatusCommitsKeepsShown
<1> QED BY <1>1, <1>2, <1>3, <1>4, <1>5, <1>6, <1>7, <1>8 DEF Continue, Fault, Request

----------------------------------------------------------------------------
LEMMA InitInvariant == Init => IInv
<1> SUFFICES ASSUME Init PROVE IInv
  OBVIOUS
<1>1. /\ \A h \in Handlers : handler[h] = Idle
      /\ \A u \in Users : bet[u].status = "none" /\ told[u] = {}
      /\ shown.round /\ shown.totals /\ shown.wallet = Users /\ shown.forecast = Users
  BY DEF Init, Over
<1>2. TypeOK
  <2>1. handler \in [Handlers -> Work]
    BY IdleType DEF Init
  <2> QED BY <2>1 DEF Init, TypeOK, Work, Over, Statuses
<1>3. Stages /\ OneTransaction /\ PendingHaveIt
  BY <1>1, IdleType DEF Stages, OneTransaction, PendingHaveIt, At, UserSteps
<1>4. RefundedAreTold /\ SettledIsOver
  BY <1>1, IdleType DEF RefundedAreTold, SettledIsOver, At
<1>5. NewsHolds /\ BettorsWillBeTold
  BY <1>1 DEF NewsHolds, BettorsWillBeTold
<1>6. ShownInv
  BY <1>1 DEF ShownInv, RoundWillBeShown, TotalsWillBeShown, WalletsWillBeShown,
              ForecastsWillBeShown, With
<1> QED BY <1>2, <1>3, <1>4, <1>5, <1>6 DEF IInv, ToldInv

LEMMA UntouchedInvariant ==
  ASSUME IInv, UNCHANGED vars
  PROVE  IInv'
<1>1. /\ UNCHANGED <<round, bet, silent, shown, told, missed, handler, harm>>
  BY DEF vars, commits, clients
<1>2. /\ \A status : With(status)' = With(status)
      /\ \A o : Backers(o)' = Backers(o) /\ Void(o)' = Void(o)
  BY <1>1 DEF With, Backers, Void
<1>3. \A h \in Handlers :
        /\ Untold(h)' = Untold(h)
        /\ \A step : At(h, step)' = At(h, step)
        /\ \A u : Result(h, u)' = Result(h, u)
  BY <1>1, <1>2 DEF Untold, At, Result
<1>4. TypeOK' /\ Stages' /\ OneTransaction' /\ PendingHaveIt' /\ RefundedAreTold'
      /\ SettledIsOver'
  BY <1>1, <1>2, <1>3 DEF IInv, ToldInv, TypeOK, Stages, OneTransaction, PendingHaveIt,
                          RefundedAreTold, SettledIsOver
<1>5. NewsHolds'
  <2>1. NewsHolds
    BY DEF IInv, ToldInv
  <2>2. \A u \in Users : \A status \in {"won", "lost"} :
          status \in told'[u] => bet'[u].status = status
    BY <1>1, <2>1 DEF NewsHolds
  <2>3. ASSUME "rolled back" \notin harm', NEW u \in Users
        PROVE  \A status \in {"refunded", "cancelled"} : status \in told'[u] =>
                 \/ bet'[u].status = status /\ round' \in {"closed", "cancelled"}
                 \/ \E h \in Handlers :
                      /\ At(h, "refunding")' /\ u \notin handler'[h].pending
                      /\ bet'[u].status = "active" /\ Result(h, u)' = status
    <3>1. \A status \in {"refunded", "cancelled"} : status \in told[u] =>
            \/ bet[u].status = status /\ round \in {"closed", "cancelled"}
            \/ \E h \in Handlers :
                 /\ At(h, "refunding") /\ u \notin handler[h].pending
                 /\ bet[u].status = "active" /\ Result(h, u) = status
      BY <1>1, <2>1, <2>3, NewsParts
    <3> QED BY <1>1, <1>3, <3>1
  <2> QED BY <2>2, <2>3 DEF NewsHolds
<1>6. BettorsWillBeTold'
  BY <1>1, <1>3 DEF IInv, ToldInv, BettorsWillBeTold
<1>7. ShownInv'
  BY <1>1, <1>2, <1>3 DEF IInv, ShownInv, RoundWillBeShown, TotalsWillBeShown,
                          WalletsWillBeShown, ForecastsWillBeShown, Quiet
<1> QED BY <1>4, <1>5, <1>6, <1>7 DEF IInv, ToldInv

LEMMA NextInvariant == IInv /\ [Next]_vars => IInv'
<1> SUFFICES ASSUME IInv, [Next]_vars PROVE IInv'
  OBVIOUS
<1>1. ASSUME NEW h \in Handlers, Request(h) \/ Continue(h) \/ Fault(h) PROVE IInv'
  BY <1>1, RequestTells, ContinueTells, StepKeepsShown DEF IInv
<1>2. ASSUME UNCHANGED vars PROVE IInv'
  BY <1>2, UntouchedInvariant
<1> QED BY <1>1, <1>2 DEF Next

LEMMA Invariant == Spec => []IInv
<1>1. Init => IInv
  BY InitInvariant
<1>2. IInv /\ [Next]_vars => IInv'
  BY NextInvariant
<1> QED BY <1>1, <1>2, PTL DEF Spec

----------------------------------------------------------------------------
(***************************************************************************)
(* What is proved.                                                         *)
(***************************************************************************)
\* Every variable has its type: a handler has a user for as long as it has to
\* answer him, and tells only users there are.
THEOREM EventsTypeCorrect == Spec => []TypeOK
<1>1. IInv => TypeOK
  BY DEF IInv
<1> QED BY <1>1, Invariant, PTL

\* What the gateway tells a user of his bet is so, or its transaction is open,
\* or was rolled back after the message; and no stake is refunded silently
\* (refundAllBets and the emitBotMessage functions).
THEOREM NewsIsTrueAlways == Spec => []NewsIsTrue
<1>1. IInv => NewsIsTrue
  <2> SUFFICES ASSUME IInv, NEW u \in Users
               PROVE  /\ \A status \in {"won", "lost"} :
                           status \in told[u] => bet[u].status = status
                      /\ "rolled back" \notin harm =>
                           \A status \in {"refunded", "cancelled"} :
                             status \in told[u] => bet[u].status = status \/ Refunding(u)
                      /\ bet[u].status = "refunded" => "refunded" \in told[u]
    BY DEF NewsIsTrue
  <2>1. NewsHolds /\ RefundedAreTold
    BY DEF IInv, ToldInv
  <2>2. \A status \in {"won", "lost"} : status \in told[u] => bet[u].status = status
    BY <2>1, NewsParts
  <2>3. ASSUME "rolled back" \notin harm, NEW status \in {"refunded", "cancelled"},
               status \in told[u]
        PROVE  bet[u].status = status \/ Refunding(u)
    <3>1. \A s \in {"refunded", "cancelled"} : s \in told[u] =>
            \/ bet[u].status = s /\ round \in {"closed", "cancelled"}
            \/ \E h \in Handlers :
                 /\ At(h, "refunding") /\ u \notin handler[h].pending
                 /\ bet[u].status = "active" /\ Result(h, u) = s
      BY <2>1, <2>3, NewsParts
    <3> QED BY <2>3, <3>1 DEF Refunding
  <2>4. bet[u].status = "refunded" => "refunded" \in told[u]
    BY <2>1 DEF RefundedAreTold
  <2> QED BY <2>2, <2>3, <2>4
<1> QED BY <1>1, Invariant, PTL

\* When no request is in progress whoever won or lost has been told so, unless
\* a message failed (declareWinner and the promises it does not await).
THEOREM BettorsToldAlways == Spec => []BettorsAreTold
<1>1. IInv => BettorsAreTold
  <2> SUFFICES ASSUME IInv, AtRest, NEW u \in Users, NEW status \in {"won", "lost"},
                      bet[u].status = status
               PROVE  status \in told[u] \/ u \in missed
    BY DEF BettorsAreTold
  <2>1. \/ status \in told[u] \/ u \in missed
        \/ \E h \in Handlers : handler[h].at \in {"announce", "telling", "losers"}
    BY DEF IInv, ToldInv, BettorsWillBeTold
  <2> QED BY <2>1 DEF AtRest, At
<1> QED BY <1>1, Invariant, PTL

\* When no request is in progress the sockets of the room show the present
\* status, totals, wallets and forecasts, unless an await failed, an older
\* figure overtook a newer one, or the last bet came over HTTP, which shows at
\* most forecasts (BettingGateway, BettingController and editBet).
THEOREM RoomUpToDateAlways == Spec => []RoomIsUpToDate
<1>1. IInv => RoomIsUpToDate
  <2> SUFFICES ASSUME IInv, AtRest, Quiet
               PROVE  /\ shown.round
                      /\ shown.totals \/ round = "cancelled" \/ silent.totals
                      /\ Users \ silent.wallet \subseteq shown.wallet
                      /\ With("active") \subseteq shown.forecast \/ silent.forecast
    BY DEF RoomIsUpToDate, Quiet
  <2>1. \A h \in Handlers : handler[h].at = "idle"
    BY DEF AtRest, At
  <2>2. shown.round
    BY <2>1 DEF IInv, ShownInv, RoundWillBeShown, At
  <2>3. shown.totals \/ round = "cancelled" \/ silent.totals
    BY <2>1 DEF IInv, ShownInv, TotalsWillBeShown, BeforeTotals, At
  <2>4. Users \ silent.wallet \subseteq shown.wallet
    BY <2>1 DEF IInv, ShownInv, WalletsWillBeShown, At
  <2>5. With("active") \subseteq shown.forecast \/ silent.forecast
    BY <2>1 DEF IInv, ShownInv, ForecastsWillBeShown, BeforeTotals, At
  <2> QED BY <2>2, <2>3, <2>4, <2>5
<1> QED BY <1>1, Invariant, PTL
=============================================================================
