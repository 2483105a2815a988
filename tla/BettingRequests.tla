-------------------------- MODULE BettingRequests --------------------------
(***************************************************************************)
(* The handlers of betting.service.ts as they interleave: every read that  *)
(* holds no lock is a step, every row lock is a step, and what the         *)
(* transaction wrote becomes visible in the step that commits it.          *)
(*                                                                         *)
(* A request holds, in seen, the rows it has read; it decides on them, and *)
(* save() of TypeORM writes them back: save reads the row once more and    *)
(* updates every column in which it differs.                               *)
(*                                                                         *)
(* The row locks are those of PostgreSQL: an INSERT locks the rows it      *)
(* refers to for KEY SHARE, an UPDATE the row it changes for NO KEY        *)
(* UPDATE, and pessimistic_write is FOR UPDATE.                            *)
(***************************************************************************)
EXTENDS BetBook, Sequences, SequencesExt

CONSTANTS
  MaxRequests,    \* how many requests arrive: bounds the run
  Overlap(_, _),  \* whether a request may start while another is in flight
  MayFail         \* whether a transaction may fail for an outside reason

VARIABLE req  \* the requests, in their order of arrival, and what each knows

allVars == <<vars, req>>

----------------------------------------------------------------------------
(***************************************************************************)
(* Requests.                                                               *)
(***************************************************************************)
Requests == DOMAIN req
InFlight(q) == req[q].pc # "answered"
Reading(q, kind) == q \in Requests /\ req[q].pc = "read" /\ req[q].kind = kind

\* Mutation of Answer: the transaction is not ended.
AnswerKeepingLocks(q) == req' = [req EXCEPT ![q] =
  [pc |-> "answered",
   held |-> IF "held" \in DOMAIN req[q] THEN req[q].held ELSE {}]]

\* A request that was answered keeps nothing of what it had read.
Answer(q) == req' = [req EXCEPT ![q] = [pc |-> "answered"]]

\* A handler that only changes what the request itself knows.
Proceed(q, next) == req' = [req EXCEPT ![q] = next] /\ UNCHANGED vars

Refuse(q) == Answer(q) /\ UNCHANGED vars

\* A request arrives, and its first read lets it continue: next is what it
\* then knows.  One that is refused at once would leave no trace.
Arrive(next) ==
  /\ Len(req) < MaxRequests
  /\ \A p \in Requests : InFlight(p) => Overlap(next, req[p])
  /\ req' = Append(req, next)
  /\ UNCHANGED vars

----------------------------------------------------------------------------
(***************************************************************************)
(* Row locks.  A transaction takes the locks of its plan in order, keeps   *)
(* them to its end, and waits for the one it cannot get.                   *)
(***************************************************************************)
ForUpdate(table, row) == [table |-> table, row |-> row, mode |-> "for update"]
Updating(table, row)  == [table |-> table, row |-> row, mode |-> "update"]
KeyShare(table, row)  == [table |-> table, row |-> row, mode |-> "key share"]

\* Mutation of Conflict: rows are read without FOR UPDATE.
WritersConflict(k, l) ==
  k.table = l.table /\ k.row = l.row /\ k.mode = "update" /\ l.mode = "update"

Conflict(k, l) ==
  /\ k.table = l.table /\ k.row = l.row
  /\ \/ "for update" \in {k.mode, l.mode}
     \/ k.mode = "update" /\ l.mode = "update"

Locking(q) == q \in Requests /\ req[q].pc = "locking"
Holds(q) == IF "held" \in DOMAIN req[q] THEN req[q].held ELSE {}

Blockers(q) ==
  {p \in Requests \ {q} :
     /\ Locking(q) /\ req[q].plan # <<>>
     /\ \E l \in Holds(p) : Conflict(Head(req[q].plan), l)}

\* A transaction that begins with what it has read and a plan of locks.
Begin(r, plan) == [f \in DOMAIN r \cup {"plan", "held", "read"} |->
  CASE f = "pc" -> "locking" [] f = "plan" -> plan
    [] f = "held" -> {} [] f = "read" -> <<>>
    [] OTHER -> r[f]]

\* A wallet or an option as it is now.
Row(k) == IF k[1] = "wallet" THEN wallet[k[2]]
            ELSE [total |-> total[k[2]], count |-> count[k[2]]]

\* The rows a transaction has read once it holds l: SELECT ... FOR UPDATE
\* returns the row at the moment it is locked.
Returned(read, l) ==
  LET rows == IF l.mode = "for update" THEN {<<l.table, l.row>>} ELSE {} IN
  [k \in DOMAIN read \cup rows |-> IF k \in DOMAIN read THEN read[k] ELSE Row(k)]

Acquire(q) ==
  /\ Locking(q) /\ req[q].plan # <<>>
  /\ Blockers(q) = {}
  /\ LET l == Head(req[q].plan) IN
       Proceed(q, [req[q] EXCEPT !.plan = Tail(@), !.held = @ \cup {l},
                                 !.read = Returned(@, l)])

\* The tables as a transaction has read them: the rows that it locked as they
\* were then.
WalletAsRead(q) == LET read == req[q].read IN
  [u \in Users |-> IF <<"wallet", u>> \in DOMAIN read
                     THEN read[<<"wallet", u>>] ELSE wallet[u]]
TotalAsRead(q) == LET read == req[q].read IN
  [o \in Options |-> IF <<"option", o>> \in DOMAIN read
                       THEN read[<<"option", o>>].total ELSE total[o]]
CountAsRead(q) == LET read == req[q].read IN
  [o \in Options |-> IF <<"option", o>> \in DOMAIN read
                       THEN read[<<"option", o>>].count ELSE count[o]]

\* All locks of the plan are held: the transaction writes and commits.
Ready(q, kind) == Locking(q) /\ req[q].kind = kind /\ req[q].plan = <<>>

\* Transactions that wait for each other in a circle.
Deadlocked(q) ==
  LET waiting == {p \in Requests : Blockers(p) # {}} IN
  \E S \in SUBSET waiting : q \in S /\ \A p \in S : Blockers(p) \cap S # {}

\* PostgreSQL breaks the circle by failing one of them.
DeadlockVictim(q) == Deadlocked(q) /\ Refuse(q)

\* A transaction that is open can lose its connection or be refused by the
\* database: it is rolled back.
Fail(q) == MayFail /\ Locking(q) /\ Refuse(q)

----------------------------------------------------------------------------
(***************************************************************************)
(* placeBet                                                                *)
(***************************************************************************)
\* The second conjunct bounds the bets: a row is left for the new one.
PlaceArrives(u, o, c, a) ==
  /\ BettingOn(o)
  /\ Cardinality({p \in Requests : InFlight(p) /\ req[p].kind = "place"})
       < Cardinality({b \in BetIds : bets[b] = NoBet})
  /\ Arrive([pc |-> "read", kind |-> "place", user |-> u, option |-> o,
                currency |-> c, amount |-> a])

\* The user has no active bet in the round.  The transaction then debits the
\* wallet, inserts the bet and locks the option to count it.
PlaceChecks(q) ==
  LET r == req[q] IN
  /\ Reading(q, "place")
  /\ IF \E b \in ActiveIn(RoundOf[r.option]) : bets[b].user = r.user
       THEN Refuse(q)
       ELSE Proceed(q, Begin(r, <<ForUpdate("wallet", r.user),
                                  KeyShare("option", r.option),
                                  ForUpdate("option", r.option)>>))

PlaceCommits(q) ==
  LET r == req[q] IN
  /\ Ready(q, "place")
  /\ \E b \in BetIds :
       Placing(WalletAsRead(q), TotalAsRead(q), CountAsRead(q),
               r.user, r.option, r.currency, r.amount, b)
  /\ Answer(q)

(***************************************************************************)
(* editBet                                                                 *)
(***************************************************************************)
EditArrives(b, o, c, a) ==
  /\ Active(b)
  /\ Arrive([pc |-> "read", kind |-> "edit", user |-> bets[b].user, bet |-> b,
                seen |-> bets[b], option |-> o, currency |-> c, amount |-> a])

\* The new option's round is open.  An edit that moves no money does not
\* lock the wallet.
EditChecks(q) ==
  LET r == req[q]
      wallets == IF r.seen.amount = r.amount /\ r.seen.currency = r.currency
                   THEN <<>> ELSE <<ForUpdate("wallet", r.user)>>
  IN
  /\ Reading(q, "edit")
  /\ IF BettingOn(r.option)
       THEN Proceed(q, Begin(r, wallets \o <<ForUpdate("option", r.seen.option),
                                             ForUpdate("option", r.option),
                                             Updating("bet", r.bet)>>))
       ELSE Refuse(q)

EditCommits(q) ==
  LET r == req[q] IN
  /\ Ready(q, "edit")
  /\ Editing(WalletAsRead(q), TotalAsRead(q), CountAsRead(q),
             r.seen, r.bet, r.option, r.currency, r.amount)
  /\ Answer(q)

(***************************************************************************)
(* cancelBet                                                               *)
(***************************************************************************)
CancelArrives(b) ==
  /\ Active(b)
  /\ Arrive([pc |-> "read", kind |-> "cancel", user |-> bets[b].user,
                bet |-> b, seen |-> bets[b]])

CancelChecks(q) ==
  LET r == req[q] IN
  /\ Reading(q, "cancel")
  /\ IF roundStatus[r.seen.round] = "open"
       THEN Proceed(q, Begin(r, <<ForUpdate("option", r.seen.option),
                                  ForUpdate("wallet", r.user),
                                  Updating("bet", r.bet)>>))
       ELSE Refuse(q)

CancelCommits(q) ==
  LET r == req[q] IN
  /\ Ready(q, "cancel")
  /\ Cancelling(WalletAsRead(q), TotalAsRead(q), CountAsRead(q), r.seen, r.bet)
  /\ Answer(q)

(***************************************************************************)
(* updateRoundStatus                                                       *)
(***************************************************************************)
OpenArrives(r) ==
  /\ roundStatus[r] = "created"
  /\ Arrive([pc |-> "read", kind |-> "open", round |-> r])

LockArrives(r) ==
  /\ roundStatus[r] = "open"
  /\ Arrive([pc |-> "read", kind |-> "lock", round |-> r])

LockCounts(q) ==
  LET r == req[q] IN
  /\ Reading(q, "lock")
  /\ IF Cardinality(ActiveIn(r.round)) > 1
       THEN Proceed(q, [r EXCEPT !.pc = "counted"])
       ELSE Refuse(q)

\* The round is saved with its new status, whatever it has become.
StatusSaved(q) ==
  LET r == req[q] IN
  /\ \/ /\ Reading(q, "open")
        /\ roundStatus' = [roundStatus EXCEPT ![r.round] = "open"]
     \/ /\ q \in Requests /\ r.pc = "counted"
        /\ roundStatus' = [roundStatus EXCEPT ![r.round] = "locked"]
  /\ Answer(q)
  /\ UNCHANGED <<options, pools, bets, wallet, streamEnded>>

(***************************************************************************)
(* declareWinner                                                           *)
(***************************************************************************)
On(o) == {b \in BetIds : bets[b] # NoBet /\ bets[b].option = o}

DeclareArrives(o) ==
  /\ roundStatus[RoundOf[o]] = "locked"
  /\ Arrive([pc |-> "read", kind |-> "declare", option |-> o,
                total |-> total[o], count |-> count[o], carried |-> On(o)])

\* Mutation of Stale: every column is saved, changed or not.
EveryColumn(now, seen) == Currencies

Stale(now, seen) == {c \in Currencies : now[c] # seen[c]}

\* save() of the option compares it, and the bets it was loaded with, to the
\* rows of this moment.  A column that differs will be written back.  A bet
\* that was moved away will be moved back; one that was added would have its
\* option set to NULL, which the database refuses.  Then the option and,
\* one by one, the other options of the round are updated.
DeclareSaves(q) ==
  LET r == req[q]
      o == r.option
      others == {p \in Options \ {o} : RoundOf[p] = RoundOf[o]}
      back == SetToSeq(r.carried \ On(o))
  IN
  /\ Reading(q, "declare")
  /\ IF On(o) \subseteq r.carried
       THEN \E rest \in SetToSeqs(others) :
              Proceed(q, Begin(
                [pc |-> "read", kind |-> "declare", option |-> o,
                 total |-> r.total, count |-> r.count, rebound |-> r.carried \ On(o),
                 staleTotal |-> Stale(total[o], r.total),
                 staleCount |-> Stale(count[o], r.count)],
                <<Updating("option", o)>>
                  \o [i \in DOMAIN back |-> Updating("bet", back[i])]
                  \o [i \in DOMAIN rest |-> Updating("option", rest[i])]))
       ELSE Refuse(q)

\* The rows as the transaction sees them once it updated the option.
Rebound(r) == [b \in BetIds |-> IF b \in r.rebound
                 THEN [bets[b] EXCEPT !.option = r.option] ELSE bets[b]]

WrittenBack(table, o, seen, columns) ==
  [table EXCEPT ![o] = [c \in Currencies |->
                          IF c \in columns THEN seen[c] ELSE @[c]]]

\* It reads the active bets of the round, in some order, and goes through
\* them: a bet that wins is saved before its wallet is credited, one that is
\* refunded after, one that loses moves no money.
DeclareFetches(q) ==
  LET r == req[q]
      rows == Rebound(r)
      fetched == ActiveRows(rows, RoundOf[r.option])
      locks(b) ==
        IF ~ Contested(rows, r.option, rows[b].currency)
          THEN <<ForUpdate("wallet", rows[b].user), Updating("bet", b)>>
        ELSE IF rows[b].option = r.option
          THEN <<Updating("bet", b), ForUpdate("wallet", rows[b].user)>>
        ELSE <<Updating("bet", b)>>
  IN
  /\ Ready(q, "declare") /\ "rows" \notin DOMAIN r
  /\ \E order \in SetToSeqs(fetched) :
       Proceed(q, [f \in DOMAIN r \cup {"rows"} |->
         CASE f = "plan" -> FlattenSeq([i \in DOMAIN order |-> locks(order[i])])
           [] f = "rows" -> [b \in BetIds |-> IF b \in fetched THEN rows[b] ELSE NoBet]
           [] OTHER -> r[f]])

DeclareCommits(q) ==
  LET r == req[q] IN
  /\ Ready(q, "declare") /\ "rows" \in DOMAIN r
  /\ Settling(WalletAsRead(q), r.option, r.rows,
              WrittenBack(total, r.option, r.total, r.staleTotal), Rebound(r))
  /\ count' = WrittenBack(count, r.option, r.count, r.staleCount)
  /\ Answer(q)

----------------------------------------------------------------------------
\* The payouts or the wallets a transaction would leave cannot be kept: it is
\* rolled back.
Unpayable(q) ==
  LET r == req[q] IN
  \/ /\ Ready(q, "place")
     /\ ~ Payable(Credited(WalletAsRead(q), r.user, r.currency, -r.amount))
  \/ /\ Ready(q, "edit")
     /\ ~ Payable(Exchanged(WalletAsRead(q), r.user, r.seen.currency, r.seen.amount,
                            r.currency, r.amount))
  \/ /\ Ready(q, "cancel")
     /\ ~ Payable(Credited(WalletAsRead(q), r.user, r.seen.currency, r.seen.amount))
  \/ /\ Ready(q, "declare") /\ "rows" \in DOMAIN r
     /\ LET table == WrittenBack(total, r.option, r.total, r.staleTotal) IN
          Divisible(r.rows, table, r.option) =>
            \A short \in SUBSET Roundable(r.rows, table, r.option) :
              ~ Payable(WalletsSettled(WalletAsRead(q), r.rows, table, r.option, short))

Handle(q) ==
  \/ PlaceChecks(q) \/ PlaceCommits(q)
  \/ EditChecks(q) \/ EditCommits(q)
  \/ CancelChecks(q) \/ CancelCommits(q)
  \/ LockCounts(q) \/ StatusSaved(q)
  \/ DeclareSaves(q) \/ DeclareFetches(q) \/ DeclareCommits(q)
  \/ Acquire(q) \/ DeadlockVictim(q)
  \/ Unpayable(q) /\ Refuse(q)

Arrival ==
  \/ \E u \in Users, o \in Options, c \in Currencies, a \in Amounts :
       PlaceArrives(u, o, c, a)
  \/ \E b \in BetIds, o \in Options, c \in Currencies, a \in Amounts :
       EditArrives(b, o, c, a)
  \/ \E b \in BetIds : CancelArrives(b)
  \/ \E r \in Rounds : OpenArrives(r) \/ LockArrives(r)
  \/ \E o \in Options : DeclareArrives(o)

RequestsInit == Init /\ req = <<>>

RequestsNext == Arrival \/ \E q \in 1 .. MaxRequests : Handle(q) \/ Fail(q)

RequestsSpec ==
  /\ RequestsInit /\ [][RequestsNext]_allVars
  /\ \A q \in 1 .. MaxRequests : WF_allVars(Handle(q))

----------------------------------------------------------------------------
(***************************************************************************)
(* Properties.                                                             *)
(***************************************************************************)

\* Handlers that may overlap leave the database as if each had run alone:
\* every commit is a step of BetBook.
ImplementsBook == Spec

\* A bet that was settled, refunded or cancelled is never touched again, by
\* whichever request, so it is paid or refunded once.
SettledOnce ==
  [][\A b \in BetIds :
       bets[b].status \notin {"none", "active"} => bets'[b] = bets[b]]_vars

\* When a bet is placed or a winner declared while another handler is between
\* its reads and its commit, the columns of every option still add up to its
\* bets, and no coin is paid twice or lost.
BooksAreKept == PoolsMatchBets /\ MoneyAccounted

\* Every request is answered: waiting transactions do not block each other
\* for ever.
EveryRequestAnswered ==
  \A q \in 1 .. MaxRequests :
    q \in Requests ~> (q \in Requests /\ ~ InFlight(q))

(***************************************************************************)
(* What a message of betting.service.ts says, and handlers that overlap do *)
(* not keep.                                                               *)
(***************************************************************************)

\* 'This bet has already been cancelled and cannot be processed again.'
\* (bettingStatusMessage): a bet is cancelled, and refunded, once.
CancelledOnce ==
  [][\A q \in Requests :
       CancelCommits(q) => bets[req[q].bet].status # "cancelled"]_allVars
=============================================================================
