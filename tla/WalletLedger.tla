---------------------------- MODULE WalletLedger ----------------------------
(***************************************************************************)
(* One user's wallet and its transactions, and all who write them: the     *)
(* registration, the webhooks of purchases, betting, and the admin who     *)
(* sets a balance (wallets.service.ts, payments.service.ts).               *)
(*                                                                         *)
(* updateBalance locks the wallet, reads it, looks for a transaction of    *)
(* the same purchase, and commits balance and transaction together.  The   *)
(* others read and write in statements of their own.  Any request may fail *)
(* at any step, and the process may stop; a purchase that was not answered *)
(* is delivered again, and one that was may be.                            *)
(*                                                                         *)
(* The settlement of a round inserts a transaction for each lost bet too,  *)
(* of minus the stake that was debited when the bet was placed, and leaves *)
(* the balance alone (betting.service.ts, processLosingBets).              *)
(*                                                                         *)
(* The transactions are kept as what the properties ask of them: their sum *)
(* for each currency, what of it records losses, and how many there are    *)
(* for each purchase.                                                      *)
(***************************************************************************)
EXTENDS Integers, FiniteSets

CONSTANTS
  Workers,       \* requests in progress
  Coinflow,      \* purchases reported by Coinflow
  Stripe,        \* purchases reported by Stripe, and automatic reloads
  Identified,    \* the Coinflow purchases whose payload has data.id
  Package,       \* the coins of each purchase
  Moves,         \* what betting debits (below zero) and credits
  AdminAmounts,  \* the balances an admin sets
  InitialGold,   \* the gold of a new wallet
  NoPurchase,
  MaxOthers,     \* how many requests that are not purchases: bounds the run
  MaxFaults      \* failures, stops, early redeliveries: bounds the run

Purchases == Coinflow \cup Stripe
Currencies == {"gold", "sweep"}
NoWorker == "nobody"

ASSUME WorkersAssumption == IsFiniteSet(Workers) /\ NoWorker \notin Workers

ASSUME PurchasesAssumption ==
  /\ Coinflow \cap Stripe = {}
  /\ Identified \subseteq Coinflow
  /\ NoPurchase \notin Purchases
  /\ Package \in [Purchases -> [Currencies -> Nat]]

ASSUME AmountsAssumption ==
  /\ Moves \subseteq Int
  /\ AdminAmounts \subseteq Nat
  /\ InitialGold \in Nat

VARIABLES
  hasWallet,   \* whether the wallet row exists
  registered,  \* whether the registration was begun
  wallet,      \* the two balances
  ledger,      \* the sum of all transactions of each currency
  lost,        \* the stakes that the transactions of lost bets record
  staked,      \* the stakes that were debited and are not recorded as lost
  credits,     \* how many transactions each purchase has, by currency
  holder,      \* the worker whose transaction holds the lock of the wallet
  worker,      \* what each worker does
  acked,       \* the purchases that were answered with success
  others,
  faults,
  harm         \* what happened that may leave the gold unexplained

rows == <<hasWallet, wallet, ledger, lost, staked, credits>>
vars == <<rows, registered, holder, worker, acked, others, faults, harm>>

Idle == [at |-> "idle", kind |-> "none", of |-> NoPurchase,
         c |-> "gold", amount |-> 0, seen |-> 0]
Labels == {"idle", "looks", "locks", "holds", "answers", "writes", "records"}
Kinds == {"none", "coinflow", "stripe", "bet", "admin", "register"}
Requests == [at : Labels, kind : Kinds, of : Purchases \cup {NoPurchase},
             c : Currencies, amount : Int, seen : Nat]

TypeOK ==
  /\ hasWallet \in BOOLEAN /\ registered \in BOOLEAN
  /\ wallet \in [Currencies -> Nat]
  /\ ledger \in [Currencies -> Int]
  /\ lost \in [Currencies -> Nat] /\ staked \in [Currencies -> Nat]
  /\ credits \in [Purchases -> [Currencies -> Nat]]
  /\ holder \in Workers \cup {NoWorker}
  /\ worker \in [Workers -> Requests]
  /\ acked \subseteq Purchases
  /\ harm \subseteq {"overwritten", "unrecorded"}

Init ==
  /\ hasWallet = FALSE /\ registered = FALSE
  /\ wallet = [c \in Currencies |-> 0]
  /\ ledger = [c \in Currencies |-> 0]
  /\ lost = [c \in Currencies |-> 0] /\ staked = [c \in Currencies |-> 0]
  /\ credits = [p \in Purchases |-> [c \in Currencies |-> 0]]
  /\ holder = NoWorker
  /\ worker = [w \in Workers |-> Idle]
  /\ acked = {} /\ others = 0 /\ faults = 0 /\ harm = {}

----------------------------------------------------------------------------
At(w, l) == worker[w].at = l
Becomes(w, r) == worker' = [worker EXCEPT ![w] = r]
Ends(w) == Becomes(w, Idle)
Other == others < MaxOthers /\ others' = others + 1
Fault == faults < MaxFaults /\ faults' = faults + 1

----------------------------------------------------------------------------
(***************************************************************************)
(* A webhook.                                                              *)
(***************************************************************************)
\* Where the handler goes for a currency: to the search, past a currency
\* the package has none of, or to the answer.
Turn(p, r, c) ==
  IF Package[p][c] > 0
    THEN [r EXCEPT !.at = "looks", !.c = c, !.amount = Package[p][c]]
    ELSE IF c = "gold" /\ Package[p]["sweep"] > 0
      THEN [r EXCEPT !.at = "looks", !.c = "sweep",
                     !.amount = Package[p]["sweep"]]
      ELSE [r EXCEPT !.at = "answers"]

\* Mutation of After: the handler answers once it was found or credited.
AfterFirst(p, r) == [r EXCEPT !.at = "answers"]

\* After one currency: gold is followed by sweep coins.
After(p, r) ==
  IF r.kind = "coinflow" /\ r.c = "gold"
    THEN Turn(p, r, "sweep") ELSE [r EXCEPT !.at = "answers"]

Begun(p) ==
  LET r == [Idle EXCEPT !.of = p]
  IN IF p \in Coinflow
       THEN Turn(p, [r EXCEPT !.kind = "coinflow"], "gold")
       ELSE [r EXCEPT !.kind = "stripe", !.at = "locks", !.c = "sweep",
                      !.amount = Package[p]["sweep"]]

\* The provider reports a purchase: until it is answered, and, at the price
\* of a fault, while another report is handled or after the answer.
Deliver(w, p) ==
  /\ At(w, "idle")
  /\ p \notin acked /\ \A v \in Workers : worker[v].of # p
  /\ Becomes(w, Begun(p))
  /\ UNCHANGED <<rows, registered, holder, acked, others, faults, harm>>

DeliverAgain(w, p) ==
  /\ At(w, "idle")
  /\ p \in acked \/ \E v \in Workers : worker[v].of = p
  /\ Fault
  /\ Becomes(w, Begun(p))
  /\ UNCHANGED <<rows, registered, holder, acked, others, harm>>

\* hasTransactionForRelatedEntity: it asks for the type Purchase, which the
\* gold coins have and the bonus sweep coins do not.
HasTransaction(p, c) == p \in Identified /\ c = "gold" /\ credits[p][c] > 0

Look(w) ==
  LET r == worker[w]
  IN /\ At(w, "looks")
     /\ Becomes(w, IF HasTransaction(r.of, r.c) THEN After(r.of, r)
                     ELSE [r EXCEPT !.at = "locks"])
     /\ UNCHANGED <<rows, registered, holder, acked, others, faults, harm>>

\* The purchase is answered with success.
Answer(w) ==
  /\ At(w, "answers")
  /\ acked' = acked \cup {worker[w].of}
  /\ Ends(w)
  /\ UNCHANGED <<rows, registered, holder, others, faults, harm>>

----------------------------------------------------------------------------
(***************************************************************************)
(* updateBalance: the lock with the read, and the commit.                  *)
(***************************************************************************)
Bet(w, c, m) ==
  /\ At(w, "idle") /\ Other
  /\ Becomes(w, [at |-> "locks", kind |-> "bet", of |-> NoPurchase,
                  c |-> c, amount |-> m, seen |-> 0])
  /\ UNCHANGED <<rows, registered, holder, acked, faults, harm>>

\* Mutation of LockWallet: the wallet is read without a lock.
ReadWallet(w) ==
  LET r == worker[w]
  IN /\ At(w, "locks") /\ hasWallet
     /\ Becomes(w, [r EXCEPT !.at = "holds", !.seen = wallet[r.c]])
     /\ UNCHANGED <<rows, registered, holder, acked, others, faults, harm>>

LockWallet(w) ==
  LET r == worker[w]
  IN /\ At(w, "locks") /\ hasWallet
     /\ holder = NoWorker /\ holder' = w
     /\ Becomes(w, [r EXCEPT !.at = "holds", !.seen = wallet[r.c]])
     /\ UNCHANGED <<rows, registered, acked, others, faults, harm>>

\* The wallet is not found: the request fails.
NotFound(w) ==
  /\ At(w, "locks") /\ ~hasWallet
  /\ Ends(w)
  /\ UNCHANGED <<rows, registered, holder, acked, others, faults, harm>>

\* Mutation of Existing: it asks for the type Purchase, as the search does.
ExistingPurchase(r) ==
  r.kind = "coinflow" /\ r.of \in Identified /\ r.c = "gold"
    /\ credits[r.of][r.c] > 0

\* existingCount: transactions of this purchase, currency and type.
Existing(r) ==
  r.kind = "coinflow" /\ r.of \in Identified /\ credits[r.of][r.c] > 0

Insufficient(r) == r.seen + r.amount < 0

\* The stakes that may be lost, with that of a bet that is placed or raised.
StakedBy(r) ==
  IF r.kind = "bet" /\ r.amount < 0
    THEN [staked EXCEPT ![r.c] = @ - r.amount] ELSE staked

\* What the worker does when its balance is updated, or need not be.
Updated(r) == IF r.kind = "bet" THEN Idle ELSE After(r.of, r)

Skip(w) ==
  LET r == worker[w]
  IN /\ At(w, "holds") /\ Existing(r)
     /\ holder' = NoWorker
     /\ Becomes(w, Updated(r))
     /\ UNCHANGED <<rows, registered, acked, others, faults, harm>>

\* Insufficient coins: the transaction is rolled back.
Refuse(w) ==
  LET r == worker[w]
  IN /\ At(w, "holds") /\ ~Existing(r)
     /\ Insufficient(r)
     /\ holder' = NoWorker
     /\ Ends(w)
     /\ UNCHANGED <<rows, registered, acked, others, faults, harm>>

Commit(w) ==
  LET r == worker[w]
  IN /\ At(w, "holds") /\ ~Existing(r)
     /\ ~Insufficient(r)
     /\ wallet' = [wallet EXCEPT ![r.c] = r.seen + r.amount]
     /\ ledger' = [ledger EXCEPT ![r.c] = @ + r.amount]
     /\ credits' = IF r.of = NoPurchase THEN credits
                     ELSE [credits EXCEPT ![r.of][r.c] = @ + 1]
     /\ staked' = StakedBy(r)
     /\ holder' = NoWorker
     /\ Becomes(w, Updated(r))
     /\ UNCHANGED <<hasWallet, lost, registered, acked, others, faults, harm>>

\* createTransactionData: a settlement commits the transaction of a lost bet,
\* which it inserts without the lock of the wallet.  Nothing here says which
\* stake was refunded or won before, so any that was debited may be lost.
Lose(c, a) ==
  /\ hasWallet
  /\ a \in 1..staked[c]
  /\ ledger' = [ledger EXCEPT ![c] = @ - a]
  /\ lost' = [lost EXCEPT ![c] = @ + a]
  /\ staked' = [staked EXCEPT ![c] = @ - a]
  /\ UNCHANGED <<hasWallet, wallet, credits, registered, holder, worker,
                 acked, others, faults, harm>>

----------------------------------------------------------------------------
(***************************************************************************)
(* The registration, and the admin who sets the gold: the row and its      *)
(* transaction are written by two statements.                              *)
(***************************************************************************)
Register(w) ==
  /\ At(w, "idle") /\ ~registered
  /\ registered' = TRUE
  /\ Becomes(w, [at |-> "writes", kind |-> "register", of |-> NoPurchase,
                  c |-> "gold", amount |-> InitialGold, seen |-> 0])
  /\ UNCHANGED <<rows, holder, acked, others, faults, harm>>

\* findByUserId and the check of the amount.
AdminReads(w, a) ==
  /\ At(w, "idle") /\ Other
  /\ hasWallet /\ a > 0
  /\ Becomes(w, [at |-> "writes", kind |-> "admin", of |-> NoPurchase,
                  c |-> "gold", amount |-> a, seen |-> wallet["gold"]])
  /\ UNCHANGED <<rows, registered, holder, acked, faults, harm>>

CreateWallet(w) ==
  LET r == worker[w]
  IN /\ At(w, "writes") /\ r.kind = "register"
     /\ hasWallet' = TRUE
     /\ wallet' = [wallet EXCEPT !["gold"] = r.amount]
     /\ Becomes(w, [r EXCEPT !.at = "records"])
     /\ UNCHANGED <<ledger, lost, staked, credits, registered, holder, acked,
                    others, faults, harm>>

\* The balance is set, whatever it has become since it was read.  The
\* statement waits for the lock of the row.
AdminWrites(w) ==
  LET r == worker[w]
  IN /\ At(w, "writes") /\ r.kind = "admin"
     /\ holder = NoWorker
     /\ wallet' = [wallet EXCEPT !["gold"] = r.amount]
     /\ harm' = IF wallet["gold"] = r.seen THEN harm
                  ELSE harm \cup {"overwritten"}
     /\ Becomes(w, [r EXCEPT !.at = "records"])
     /\ UNCHANGED <<hasWallet, ledger, lost, staked, credits, registered,
                    holder, acked, others, faults>>

\* Mutation of Recorded: the balance is recorded, not the change.
RecordedBalance(r) == r.amount

\* What the transaction of a balance that was set says: the change from the
\* balance that was read (none, for a new wallet).
Recorded(r) == r.amount - r.seen

Record(w) ==
  /\ At(w, "records")
  /\ ledger' = [ledger EXCEPT !["gold"] = @ + Recorded(worker[w])]
  /\ Ends(w)
  /\ UNCHANGED <<hasWallet, wallet, lost, staked, credits, registered, holder,
                 acked, others, faults, harm>>

----------------------------------------------------------------------------
(***************************************************************************)
(* A request fails, or the process stops: what was not committed is rolled *)
(* back, and nothing is answered with success.                             *)
(***************************************************************************)
HarmOf(ws) ==
  IF \E w \in ws : At(w, "records") THEN harm \cup {"unrecorded"} ELSE harm

\* Mutation of Fail: a failure is answered with success.
FailWithSuccess(w) ==
  /\ ~At(w, "idle") /\ Fault
  /\ holder' = IF holder = w THEN NoWorker ELSE holder
  /\ acked' = acked \cup ({worker[w].of} \ {NoPurchase})
  /\ harm' = HarmOf({w})
  /\ Ends(w)
  /\ UNCHANGED <<rows, registered, others>>

Fail(w) ==
  /\ ~At(w, "idle") /\ Fault
  /\ holder' = IF holder = w THEN NoWorker ELSE holder
  /\ harm' = HarmOf({w})
  /\ Ends(w)
  /\ UNCHANGED <<rows, registered, acked, others>>

Stop ==
  /\ \E w \in Workers : ~At(w, "idle")
  /\ Fault
  /\ holder' = NoWorker
  /\ harm' = HarmOf(Workers)
  /\ worker' = [w \in Workers |-> Idle]
  /\ UNCHANGED <<rows, registered, acked, others>>

----------------------------------------------------------------------------
Works(w) ==
  \/ Look(w) \/ Answer(w)
  \/ LockWallet(w) \/ NotFound(w) \/ Skip(w) \/ Refuse(w) \/ Commit(w)
  \/ CreateWallet(w) \/ AdminWrites(w) \/ Record(w)

Next ==
  \/ \E w \in Workers :
       \/ Works(w)
       \/ \E p \in Purchases : Deliver(w, p)
       \/ \E p \in Purchases : DeliverAgain(w, p)
       \/ \E c \in Currencies, m \in Moves : Bet(w, c, m)
       \/ Register(w)
       \/ \E a \in AdminAmounts : AdminReads(w, a)
       \/ Fail(w)
  \/ \E c \in Currencies, m \in Moves : Lose(c, -m)
  \/ Stop

Spec == Init /\ [][Next]_vars

\* A request that runs goes on, and a provider reports a purchase until it is
\* answered.
Fairness ==
  /\ \A w \in Workers : WF_vars(Works(w))
  /\ \A p \in Purchases : WF_vars(\E w \in Workers : Deliver(w, p))

LiveSpec == Spec /\ Fairness

----------------------------------------------------------------------------
(***************************************************************************)
(* Properties.                                                             *)
(***************************************************************************)
\* A purchase with an identifier is credited once for each of its
\* currencies, however often it is reported, at once or after a failure of
\* either step.
CreditedOnce ==
  \A p \in Identified, c \in Currencies : credits[p][c] <= 1

\* A purchase is answered with success only when every currency of its
\* package is credited: an answer ends the redelivery.
AnsweredIsCredited ==
  \A p \in acked, c \in Currencies :
    p \in Coinflow /\ Package[p][c] > 0 => credits[p][c] > 0

\* The transactions in sweep coins, but for those that record lost bets, add
\* up to the balance: no update of the two is lost or half done, whoever runs
\* at once and whatever fails.  The stake of a lost bet is in the transactions
\* twice, when it was placed and when it was lost.
SweepLedgerExplained == wallet["sweep"] = ledger["sweep"] + lost["sweep"]

\* So do those in gold coins, once no balance is being set, unless a balance
\* was set over a change since it was read, or the process stopped before
\* the transaction was written.
GoldLedgerExplained ==
  harm = {} /\ (\A w \in Workers : ~At(w, "records"))
    => wallet["gold"] = ledger["gold"] + lost["gold"]

\* A purchase is credited in the end, in every currency of its package, if
\* the user has a wallet.
PurchaseIsCredited ==
  \A p \in Coinflow, c \in Currencies :
    Package[p][c] > 0 => (hasWallet ~> credits[p][c] > 0)
=============================================================================
