------------------------- MODULE WalletLedgerProofs -------------------------
(***************************************************************************)
(* Proofs about WalletLedger: the types, that the lock of the wallet makes *)
(* the balance that was read the present one, and that a purchase is       *)
(* credited once and answered when it is credited.                         *)
(***************************************************************************)
EXTENDS WalletLedger, SumTheorems

\* What kind of request waits where, and for what.
RequestAgrees(r) ==
  /\ r.kind \in {"coinflow", "stripe"} <=> r.of # NoPurchase
  /\ r.kind = "coinflow" <=> r.of \in Coinflow
  /\ r.at \in {"looks", "answers"} => r.of # NoPurchase
  /\ r.at \in {"locks", "holds"} => r.kind \in {"bet", "coinflow", "stripe"}
  /\ r.at \in {"writes", "records"} => r.kind \in {"admin", "register"}
  /\ r.at = "looks" => r.kind = "coinflow"
  /\ r.at \in {"writes", "records"} => r.amount \in Nat

RequestsAgree == \A w \in Workers : RequestAgrees(worker[w])

\* A worker that has read the balance under the lock holds the lock, and has
\* read what the balance is.
LockAgrees ==
  /\ \A w \in Workers : At(w, "holds") =>
       holder = w /\ hasWallet /\ worker[w].seen = wallet[worker[w].c]
  /\ \A w \in Workers : At(w, "writes") /\ worker[w].kind = "register" =>
       registered /\ ~hasWallet /\ worker[w].seen = 0
  /\ \A w \in Workers : At(w, "writes") /\ worker[w].kind = "admin" => hasWallet
  /\ \A v, w \in Workers :
       At(v, "writes") /\ At(w, "writes")
         /\ worker[v].kind = "register" /\ worker[w].kind = "register" => v = w
  /\ hasWallet => registered
  /\ ~hasWallet => wallet["gold"] = 0

\* A currency of a package that is behind the worker is credited.
IsCredited(cr, p, c) == Package[p][c] > 0 => cr[p][c] > 0

RequestCredited(cr, r) ==
  r.kind = "coinflow" =>
    /\ r.at = "answers" => \A c \in Currencies : IsCredited(cr, r.of, c)
    /\ r.at \in {"looks", "locks", "holds"} /\ r.c = "sweep" =>
         IsCredited(cr, r.of, "gold")

AnsweringIsCredited == \A w \in Workers : RequestCredited(credits, worker[w])

IInv ==
  /\ TypeOK
  /\ RequestsAgree
  /\ LockAgrees
  /\ AnsweringIsCredited
  /\ CreditedOnce
  /\ AnsweredIsCredited
  /\ SweepLedgerExplained

----------------------------------------------------------------------------
(***************************************************************************)
(* The helpers of a webhook.                                               *)
(***************************************************************************)
\* A field of a request is set to a value that a request may have.
LEMMA SetAt ==
  ASSUME NEW r \in Requests, NEW l \in Labels
  PROVE  LET s == [r EXCEPT !.at = l]
         IN /\ s \in Requests /\ s.at = l
            /\ s.of = r.of /\ s.kind = r.kind /\ s.c = r.c
BY DEF Requests

LEMMA SetKind ==
  ASSUME NEW r \in Requests, NEW k \in Kinds
  PROVE  LET s == [r EXCEPT !.kind = k]
         IN /\ s \in Requests /\ s.kind = k
            /\ s.of = r.of /\ s.at = r.at
BY DEF Requests

Set(r, l, c, a) == [r EXCEPT !.at = l, !.c = c, !.amount = a]

LEMMA SetFields ==
  ASSUME NEW r \in Requests, NEW l \in Labels, NEW c \in Currencies, NEW a \in Int
  PROVE  LET s == Set(r, l, c, a)
         IN /\ s \in Requests /\ s.at = l /\ s.c = c /\ s.amount = a
            /\ s.of = r.of /\ s.kind = r.kind /\ s.seen = r.seen
<1> DEFINE s1 == [r EXCEPT !.at = l]
           s2 == [s1 EXCEPT !.c = c]
           s3 == [s2 EXCEPT !.amount = a]
<1>1. /\ s1 \in Requests /\ s1.at = l
      /\ s1.of = r.of /\ s1.kind = r.kind /\ s1.seen = r.seen
  BY DEF Requests
<1>2. Set(r, l, c, a) = s3
  BY DEF Set
<1> HIDE DEF s1
<1>3. /\ s2 \in Requests /\ s2.at = l /\ s2.c = c
      /\ s2.of = r.of /\ s2.kind = r.kind /\ s2.seen = r.seen
  BY <1>1 DEF Requests
<1> HIDE DEF s2
<1>4. /\ s3 \in Requests /\ s3.at = l /\ s3.c = c /\ s3.amount = a
      /\ s3.of = r.of /\ s3.kind = r.kind /\ s3.seen = r.seen
  BY <1>3 DEF Requests
<1> HIDE DEF s3
<1> QED BY <1>2, <1>4

LEMMA IdleAgrees ==
  /\ Idle \in Requests /\ Idle.at = "idle" /\ RequestAgrees(Idle)
  /\ \A cr : RequestCredited(cr, Idle)
<1>1. Idle \in Requests
  BY DEF Idle, Requests, Labels, Kinds, Currencies
<1>2. NoPurchase \notin Coinflow
  BY PurchasesAssumption DEF Purchases
<1> QED BY <1>1, <1>2 DEF Idle, RequestAgrees, RequestCredited

\* A worker that handles a Coinflow purchase and has its next currency ahead.
OnCoinflow(r, p) == r \in Requests /\ p \in Coinflow /\ r.of = p /\ r.kind = "coinflow"

\* The turn to a currency leads to it, past it, or to the answer.
LEMMA TurnAgrees ==
  ASSUME NEW cr, NEW p, NEW r, OnCoinflow(r, p), NEW c \in Currencies,
         c = "sweep" => IsCredited(cr, p, "gold")
  PROVE  /\ Turn(p, r, c) \in Requests
         /\ Turn(p, r, c).at \in {"looks", "answers"}
         /\ RequestAgrees(Turn(p, r, c))
         /\ RequestCredited(cr, Turn(p, r, c))
<1> DEFINE first == [r EXCEPT !.at = "looks", !.c = c, !.amount = Package[p][c]]
           second == [r EXCEPT !.at = "looks", !.c = "sweep",
                               !.amount = Package[p]["sweep"]]
           last == [r EXCEPT !.at = "answers"]
<1>1. /\ p \in Purchases /\ p # NoPurchase
      /\ Package[p]["gold"] \in Nat /\ Package[p]["sweep"] \in Nat
  BY PurchasesAssumption DEF OnCoinflow, Purchases, Currencies
<1>2. c \in {"gold", "sweep"}
  BY DEF Currencies
<1>3. /\ first \in Requests /\ first.at = "looks" /\ first.c = c
      /\ first.of = p /\ first.kind = "coinflow"
  <2>1. "looks" \in Labels /\ Package[p][c] \in Int
    BY <1>1, <1>2 DEF Labels
  <2>2. r \in Requests /\ r.of = p /\ r.kind = "coinflow"
    BY DEF OnCoinflow
  <2>3. first = Set(r, "looks", c, Package[p][c])
    BY DEF Set
  <2> HIDE DEF first
  <2> QED BY <2>1, <2>2, <2>3, SetFields
<1>4. /\ second \in Requests /\ second.at = "looks" /\ second.c = "sweep"
      /\ second.of = p /\ second.kind = "coinflow"
  <2>1. "looks" \in Labels /\ "sweep" \in Currencies /\ Package[p]["sweep"] \in Int
    BY <1>1 DEF Labels, Currencies
  <2>2. r \in Requests /\ r.of = p /\ r.kind = "coinflow"
    BY DEF OnCoinflow
  <2>3. second = Set(r, "looks", "sweep", Package[p]["sweep"])
    BY DEF Set
  <2> HIDE DEF second
  <2> QED BY <2>1, <2>2, <2>3, SetFields
<1>5. /\ last \in Requests /\ last.at = "answers"
      /\ last.of = p /\ last.kind = "coinflow"
  BY <1>1 DEF OnCoinflow, Requests, Labels, Kinds, Currencies
<1> HIDE DEF first, second, last
<1>6. CASE Package[p][c] > 0
  <2>1. Turn(p, r, c) = first
    BY <1>6 DEF Turn, first
  <2> QED BY <1>1, <1>3, <2>1 DEF RequestAgrees, RequestCredited, OnCoinflow
<1>7. CASE ~(Package[p][c] > 0) /\ c = "gold" /\ Package[p]["sweep"] > 0
  <2>1. Turn(p, r, c) = second
    BY <1>7 DEF Turn, second
  <2>2. IsCredited(cr, p, "gold")
    BY <1>7 DEF IsCredited
  <2> QED BY <1>1, <1>4, <2>1, <2>2 DEF RequestAgrees, RequestCredited, OnCoinflow
<1>8. CASE ~(Package[p][c] > 0) /\ ~(c = "gold" /\ Package[p]["sweep"] > 0)
  <2>1. Turn(p, r, c) = last
    BY <1>8 DEF Turn, last
  <2>2. IsCredited(cr, p, "gold") /\ IsCredited(cr, p, "sweep")
    BY <1>1, <1>2, <1>8 DEF IsCredited
  <2>3. \A k \in Currencies : IsCredited(cr, p, k)
    BY <2>2 DEF Currencies
  <2> QED BY <1>1, <1>5, <2>1, <2>3 DEF RequestAgrees, RequestCredited, OnCoinflow
<1> QED BY <1>6, <1>7, <1>8

\* After a currency that is credited comes the next, or the answer.
LEMMA AfterAgrees ==
  ASSUME NEW cr, NEW r \in Requests, r.of # NoPurchase,
         RequestAgrees(r), RequestCredited(cr, r),
         r.at \in {"looks", "locks", "holds"},
         r.kind = "coinflow" => IsCredited(cr, r.of, r.c)
  PROVE  /\ After(r.of, r) \in Requests
         /\ After(r.of, r).at \in {"looks", "answers"}
         /\ RequestAgrees(After(r.of, r))
         /\ RequestCredited(cr, After(r.of, r))
<1> DEFINE last == [r EXCEPT !.at = "answers"]
<1>1. r.c \in {"gold", "sweep"}
  BY DEF Requests, Currencies
<1>2. /\ last \in Requests /\ last.at = "answers" /\ last.kind = r.kind
      /\ last.of = r.of
  BY DEF Requests, Labels
<1> HIDE DEF last
<1>3. CASE r.kind = "coinflow" /\ r.c = "gold"
  <2>1. OnCoinflow(r, r.of) /\ IsCredited(cr, r.of, "gold")
    BY <1>3 DEF OnCoinflow, RequestAgrees
  <2>2. After(r.of, r) = Turn(r.of, r, "sweep") /\ "sweep" \in Currencies
    BY <1>3 DEF After, Currencies
  <2> QED BY <2>1, <2>2, TurnAgrees
<1>4. CASE ~(r.kind = "coinflow" /\ r.c = "gold")
  <2>1. After(r.of, r) = last
    BY <1>4 DEF After, last
  <2>2. r.kind = "coinflow" => IsCredited(cr, r.of, "gold") /\ IsCredited(cr, r.of, "sweep")
    BY <1>1, <1>4 DEF RequestCredited
  <2>3. r.kind = "coinflow" => \A k \in Currencies : IsCredited(cr, r.of, k)
    BY <2>2 DEF Currencies
  <2>4. RequestCredited(cr, last)
    BY <1>2, <2>3 DEF RequestCredited
  <2>5. RequestAgrees(last)
    BY <1>2 DEF RequestAgrees
  <2> QED BY <1>2, <2>1, <2>4, <2>5
<1> QED BY <1>3, <1>4

\* A report begins with the first currency of the package.
LEMMA BegunAgrees ==
  ASSUME NEW cr, NEW p \in Purchases
  PROVE  /\ Begun(p) \in Requests
         /\ Begun(p).at \in {"looks", "locks", "answers"}
         /\ RequestAgrees(Begun(p))
         /\ RequestCredited(cr, Begun(p))
<1> DEFINE r == [Idle EXCEPT !.of = p]
           flow == [r EXCEPT !.kind = "coinflow"]
           paid == [r EXCEPT !.kind = "stripe"]
           card == [paid EXCEPT !.at = "locks", !.c = "sweep",
                                !.amount = Package[p]["sweep"]]
<1>1. p # NoPurchase /\ Package[p]["sweep"] \in Int
  BY PurchasesAssumption DEF Currencies
<1>2. r \in Requests /\ r.of = p
  BY DEF Idle, Requests, Labels, Kinds, Currencies
<1>3. Begun(p) = IF p \in Coinflow THEN Turn(p, flow, "gold") ELSE card
  BY DEF Begun
<1>4. /\ "coinflow" \in Kinds /\ "stripe" \in Kinds
      /\ "locks" \in Labels /\ "sweep" \in Currencies
  BY DEF Kinds, Labels, Currencies
<1> HIDE DEF r
<1>5. flow \in Requests /\ flow.of = p /\ flow.kind = "coinflow"
  BY <1>2, <1>4, SetKind
<1>6. paid \in Requests /\ paid.of = p /\ paid.kind = "stripe"
  BY <1>2, <1>4, SetKind
<1> HIDE DEF flow, paid
<1>7. /\ card \in Requests /\ card.at = "locks"
      /\ card.of = p /\ card.kind = "stripe"
  <2>1. card = Set(paid, "locks", "sweep", Package[p]["sweep"])
    BY DEF Set
  <2> HIDE DEF card
  <2> QED BY <1>1, <1>4, <1>6, <2>1, SetFields
<1> HIDE DEF card
<1>8. CASE p \in Coinflow
  <2>1. OnCoinflow(flow, p) /\ "gold" \in Currencies
    BY <1>5, <1>8 DEF OnCoinflow, Currencies
  <2>2. "gold" # "sweep"
    OBVIOUS
  <2> QED BY <1>3, <1>8, <2>1, <2>2, TurnAgrees
<1>9. CASE p \notin Coinflow
  BY <1>1, <1>3, <1>7, <1>9 DEF RequestAgrees, RequestCredited
<1> QED BY <1>8, <1>9

----------------------------------------------------------------------------
(***************************************************************************)
(* Steps of one worker.                                                    *)
(***************************************************************************)
LEMMA InitInvariant == Init => IInv
<1> SUFFICES ASSUME Init PROVE IInv
  OBVIOUS
<1> USE DEF Init
<1>1. \A w \in Workers : worker[w] = Idle
  OBVIOUS
<1>2. TypeOK
  <2>1. /\ wallet \in [Currencies -> Nat] /\ ledger \in [Currencies -> Int]
        /\ lost \in [Currencies -> Nat] /\ staked \in [Currencies -> Nat]
        /\ credits \in [Purchases -> [Currencies -> Nat]]
    OBVIOUS
  <2>2. worker \in [Workers -> Requests]
    BY IdleAgrees
  <2> QED BY <2>1, <2>2 DEF TypeOK
<1>3. RequestsAgree /\ AnsweringIsCredited
  BY <1>1, IdleAgrees DEF RequestsAgree, AnsweringIsCredited
<1>4. LockAgrees
  BY <1>1, IdleAgrees DEF LockAgrees, At, Currencies
<1>5. SweepLedgerExplained
  BY DEF SweepLedgerExplained, Currencies
<1>6. AnsweredIsCredited
  BY DEF AnsweredIsCredited
<1>7. CreditedOnce
  <2>1. \A p \in Identified, c \in Currencies : credits[p][c] = 0
    BY PurchasesAssumption DEF Purchases
  <2> QED BY <2>1 DEF CreditedOnce
<1> QED BY <1>2, <1>3, <1>4, <1>5, <1>6, <1>7 DEF IInv

\* What worker w does becomes r.
LEMMA Becoming ==
  ASSUME TypeOK, NEW w \in Workers, NEW r \in Requests, Becomes(w, r)
  PROVE  /\ worker' \in [Workers -> Requests]
         /\ worker'[w] = r
         /\ \A v \in Workers \ {w} : worker'[v] = worker[v]
BY DEF TypeOK, Becomes

\* A worker moves on, and no row is changed.
LEMMA WorkerMoves ==
  ASSUME IInv, NEW w \in Workers, NEW r \in Requests, Becomes(w, r),
         RequestAgrees(r), RequestCredited(credits, r),
         UNCHANGED <<rows, acked>>,
         registered' \in BOOLEAN, holder' \in Workers \cup {NoWorker},
         harm' \subseteq {"overwritten", "unrecorded"},
         LockAgrees'
  PROVE  IInv'
<1>1. /\ worker' \in [Workers -> Requests] /\ worker'[w] = r
      /\ \A v \in Workers \ {w} : worker'[v] = worker[v]
  BY Becoming DEF IInv
<1>2. /\ hasWallet' = hasWallet /\ wallet' = wallet /\ ledger' = ledger
      /\ lost' = lost /\ staked' = staked
      /\ credits' = credits /\ acked' = acked
  BY DEF rows
<1>3. TypeOK'
  BY <1>1, <1>2 DEF IInv, TypeOK
<1>4. RequestsAgree'
  BY <1>1 DEF IInv, RequestsAgree
<1>5. AnsweringIsCredited'
  BY <1>1, <1>2 DEF IInv, AnsweringIsCredited
<1>6. CreditedOnce' /\ AnsweredIsCredited' /\ SweepLedgerExplained'
  BY <1>2 DEF IInv, CreditedOnce, AnsweredIsCredited, SweepLedgerExplained
<1> QED BY <1>3, <1>4, <1>5, <1>6 DEF IInv

\* A worker that takes no lock, and at most gives up its own.
LEMMA LockStays ==
  ASSUME IInv, NEW w \in Workers, NEW r \in Requests, Becomes(w, r),
         UNCHANGED <<hasWallet, wallet, registered>>,
         r.at \notin {"holds", "writes"},
         holder' = holder \/ holder = w
  PROVE  LockAgrees'
<1>1. /\ worker'[w] = r
      /\ \A v \in Workers \ {w} : worker'[v] = worker[v]
  BY Becoming DEF IInv
<1>2. ASSUME NEW v \in Workers, At(v, "holds")'
      PROVE  holder' = v /\ hasWallet /\ worker'[v].seen = wallet[worker'[v].c]
  <2>1. v # w /\ At(v, "holds") /\ worker'[v] = worker[v]
    BY <1>1, <1>2 DEF At
  <2> QED BY <2>1 DEF IInv, LockAgrees
<1>3. ASSUME NEW v \in Workers, At(v, "writes")'
      PROVE  At(v, "writes") /\ worker'[v] = worker[v]
  BY <1>1, <1>3 DEF At
<1>4. /\ \A v \in Workers : At(v, "writes") /\ worker[v].kind = "register" =>
            registered /\ ~hasWallet /\ worker[v].seen = 0
      /\ \A v \in Workers : At(v, "writes") /\ worker[v].kind = "admin" => hasWallet
      /\ \A u, v \in Workers :
            At(u, "writes") /\ At(v, "writes")
              /\ worker[u].kind = "register" /\ worker[v].kind = "register" => u = v
      /\ hasWallet => registered
      /\ ~hasWallet => wallet["gold"] = 0
  BY DEF IInv, LockAgrees
<1> QED BY <1>2, <1>3, <1>4 DEF LockAgrees

\* A worker that moves on so, and changes neither a row nor an answer.
LEMMA WorkerMovesOn ==
  ASSUME IInv, NEW w \in Workers, NEW r \in Requests, Becomes(w, r),
         RequestAgrees(r), RequestCredited(credits, r),
         UNCHANGED <<rows, acked, registered>>,
         r.at \notin {"holds", "writes"},
         holder' = holder \/ (holder = w /\ holder' = NoWorker),
         harm' \subseteq {"overwritten", "unrecorded"}
  PROVE  IInv'
<1>1. LockAgrees'
  BY LockStays DEF rows
<1>2. registered' \in BOOLEAN /\ holder' \in Workers \cup {NoWorker}
  BY DEF IInv, TypeOK
<1> QED BY <1>1, <1>2, WorkerMoves

----------------------------------------------------------------------------
(***************************************************************************)
(* The actions.                                                            *)
(***************************************************************************)
LEMMA DeliverKeeps ==
  ASSUME IInv, NEW w \in Workers, NEW p \in Purchases,
         Deliver(w, p) \/ DeliverAgain(w, p)
  PROVE  IInv'
<1>1. /\ Becomes(w, Begun(p))
      /\ UNCHANGED <<rows, registered, holder, acked, harm>>
  BY DEF Deliver, DeliverAgain
<1>2. /\ Begun(p) \in Requests /\ RequestAgrees(Begun(p))
      /\ Begun(p).at \in {"looks", "locks", "answers"}
      /\ RequestCredited(credits, Begun(p))
  BY BegunAgrees
<1>3. harm' \subseteq {"overwritten", "unrecorded"}
  BY <1>1 DEF IInv, TypeOK
<1> QED BY <1>1, <1>2, <1>3, WorkerMovesOn

\* What is known of the request that a worker handles.
LEMMA RequestOf ==
  ASSUME IInv, NEW w \in Workers
  PROVE  /\ worker[w] \in Requests
         /\ RequestAgrees(worker[w])
         /\ RequestCredited(credits, worker[w])
BY DEF IInv, TypeOK, RequestsAgree, AnsweringIsCredited

LEMMA LookKeeps ==
  ASSUME IInv, NEW w \in Workers, Look(w) PROVE IInv'
<1> DEFINE r == worker[w]
           next == IF HasTransaction(r.of, r.c) THEN After(r.of, r)
                     ELSE [r EXCEPT !.at = "locks"]
<1>1. /\ r \in Requests /\ RequestAgrees(r) /\ RequestCredited(credits, r)
  BY RequestOf
<1>2. /\ r.at = "looks" /\ Becomes(w, next)
      /\ UNCHANGED <<rows, registered, holder, acked, harm>>
  BY DEF Look, At
<1>3. r.kind = "coinflow" /\ r.of # NoPurchase
  BY <1>1, <1>2 DEF RequestAgrees
<1>4. /\ next \in Requests /\ next.at \notin {"holds", "writes"}
      /\ RequestAgrees(next) /\ RequestCredited(credits, next)
  <2>1. CASE HasTransaction(r.of, r.c)
    <3>1. IsCredited(credits, r.of, r.c)
      BY <2>1 DEF HasTransaction, IsCredited
    <3>2. next = After(r.of, r)
      BY <2>1
    <3> HIDE DEF r, next
    <3> QED BY <1>1, <1>2, <1>3, <3>1, <3>2, AfterAgrees
  <2>2. CASE ~HasTransaction(r.of, r.c)
    <3>1. next = [r EXCEPT !.at = "locks"] /\ "locks" \in Labels
      BY <2>2 DEF Labels
    <3> HIDE DEF r, next
    <3>2. /\ next \in Requests /\ next.at = "locks" /\ next.of = r.of
          /\ next.kind = r.kind /\ next.c = r.c
      BY <1>1, <3>1, SetAt
    <3> QED BY <1>1, <1>2, <1>3, <3>2 DEF RequestAgrees, RequestCredited
  <2> QED BY <2>1, <2>2
<1>5. harm' \subseteq {"overwritten", "unrecorded"}
  BY <1>2 DEF IInv, TypeOK
<1> HIDE DEF next
<1> QED BY <1>2, <1>4, <1>5, WorkerMovesOn

LEMMA AnswerKeeps ==
  ASSUME IInv, NEW w \in Workers, Answer(w) PROVE IInv'
<1> DEFINE p == worker[w].of
<1>1. /\ worker[w].at = "answers" /\ acked' = acked \cup {p} /\ Becomes(w, Idle)
      /\ UNCHANGED <<rows, registered, holder, harm>>
  BY DEF Answer, At, Ends
<1>2. /\ hasWallet' = hasWallet /\ wallet' = wallet /\ ledger' = ledger
      /\ lost' = lost /\ staked' = staked /\ credits' = credits
  BY <1>1 DEF rows
<1>3. p \in Purchases
  BY <1>1, RequestOf DEF RequestAgrees, Requests
<1>4. p \in Coinflow => \A c \in Currencies : IsCredited(credits, p, c)
  BY <1>1, RequestOf DEF RequestAgrees, RequestCredited
<1>5. AnsweredIsCredited'
  BY <1>1, <1>2, <1>4 DEF IInv, AnsweredIsCredited, IsCredited
<1>6. LockAgrees'
  BY <1>1, <1>2, IdleAgrees, LockStays
<1>7. /\ worker' \in [Workers -> Requests] /\ worker'[w] = Idle
      /\ \A v \in Workers \ {w} : worker'[v] = worker[v]
  BY <1>1, IdleAgrees, Becoming DEF IInv
<1>8. TypeOK'
  BY <1>1, <1>2, <1>3, <1>7 DEF IInv, TypeOK
<1>9. RequestsAgree' /\ AnsweringIsCredited'
  BY <1>2, <1>7, IdleAgrees DEF IInv, RequestsAgree, AnsweringIsCredited
<1>10. CreditedOnce' /\ SweepLedgerExplained'
  BY <1>2 DEF IInv, CreditedOnce, SweepLedgerExplained
<1> QED BY <1>5, <1>6, <1>8, <1>9, <1>10 DEF IInv

\* Requests that are begun at a step with no purchase behind them.
LEMMA BetKeeps ==
  ASSUME IInv, NEW w \in Workers, NEW c \in Currencies, NEW m \in Moves, Bet(w, c, m)
  PROVE  IInv'
<1> DEFINE r == [at |-> "locks", kind |-> "bet", of |-> NoPurchase,
                 c |-> c, amount |-> m, seen |-> 0]
<1>1. Becomes(w, r) /\ UNCHANGED <<rows, registered, holder, acked, harm>>
  BY DEF Bet
<1>3. r \in Requests
  BY AmountsAssumption DEF Requests, Labels, Kinds
<1>4. RequestAgrees(r) /\ RequestCredited(credits, r) /\ r.at = "locks"
  BY PurchasesAssumption DEF RequestAgrees, RequestCredited, Purchases
<1>5. harm' \subseteq {"overwritten", "unrecorded"}
  BY <1>1 DEF IInv, TypeOK
<1> HIDE DEF r
<1> QED BY <1>1, <1>3, <1>4, <1>5, WorkerMovesOn

LEMMA RegisterKeeps ==
  ASSUME IInv, NEW w \in Workers, Register(w) PROVE IInv'
<1> DEFINE r == [at |-> "writes", kind |-> "register", of |-> NoPurchase,
                 c |-> "gold", amount |-> InitialGold, seen |-> 0]
<1>1. /\ worker[w].at = "idle" /\ ~registered /\ registered' = TRUE /\ Becomes(w, r)
      /\ UNCHANGED <<rows, holder, acked, harm>>
  BY DEF Register, At
<1>3. r \in Requests
  BY AmountsAssumption DEF Requests, Labels, Kinds, Currencies
<1>4. RequestAgrees(r) /\ RequestCredited(credits, r)
  BY PurchasesAssumption, AmountsAssumption DEF RequestAgrees, RequestCredited, Purchases
<1>5. /\ worker'[w] = r
      /\ \A v \in Workers \ {w} : worker'[v] = worker[v]
  BY <1>1, <1>3, Becoming DEF IInv
<1>6. ~hasWallet /\ wallet["gold"] = 0 /\ hasWallet' = hasWallet /\ wallet' = wallet
  BY <1>1 DEF IInv, LockAgrees, rows
<1>7. ASSUME NEW v \in Workers, At(v, "holds")' PROVE FALSE
  BY <1>5, <1>6, <1>7 DEF IInv, LockAgrees, At
<1>8. ASSUME NEW v \in Workers, At(v, "writes")', worker'[v].kind = "register"
      PROVE  v = w
  BY <1>1, <1>5, <1>8 DEF IInv, LockAgrees, At
<1>9. ASSUME NEW v \in Workers, At(v, "writes")', worker'[v].kind = "admin"
      PROVE  FALSE
  BY <1>5, <1>6, <1>9 DEF IInv, LockAgrees, At
<1>10. LockAgrees'
  BY <1>1, <1>5, <1>6, <1>7, <1>8, <1>9 DEF LockAgrees
<1>11. /\ registered' \in BOOLEAN /\ holder' \in Workers \cup {NoWorker}
       /\ harm' \subseteq {"overwritten", "unrecorded"}
  BY <1>1 DEF IInv, TypeOK
<1> HIDE DEF r
<1> QED BY <1>1, <1>3, <1>4, <1>10, <1>11, WorkerMoves

LEMMA AdminReadsKeeps ==
  ASSUME IInv, NEW w \in Workers, NEW a \in AdminAmounts, AdminReads(w, a)
  PROVE  IInv'
<1> DEFINE r == [at |-> "writes", kind |-> "admin", of |-> NoPurchase,
                 c |-> "gold", amount |-> a, seen |-> wallet["gold"]]
<1>1. hasWallet /\ Becomes(w, r) /\ UNCHANGED <<rows, registered, holder, acked, harm>>
  BY DEF AdminReads
<1>3. r \in Requests
  BY AmountsAssumption DEF Requests, Labels, Kinds, Currencies, IInv, TypeOK
<1>4. RequestAgrees(r) /\ RequestCredited(credits, r)
  BY PurchasesAssumption, AmountsAssumption DEF RequestAgrees, RequestCredited, Purchases
<1>5. /\ worker'[w] = r
      /\ \A v \in Workers \ {w} : worker'[v] = worker[v]
  BY <1>1, <1>3, Becoming DEF IInv
<1>6. hasWallet' = hasWallet /\ wallet' = wallet
  BY <1>1 DEF rows
<1>7. ASSUME NEW v \in Workers, At(v, "holds")'
      PROVE  v # w
  BY <1>5, <1>7 DEF At
<1>8. ASSUME NEW v \in Workers, At(v, "writes")', worker'[v].kind = "register"
      PROVE  v # w
  BY <1>5, <1>8 DEF At
<1>9. LockAgrees'
  <2>1. ASSUME NEW v \in Workers, At(v, "holds")'
        PROVE  holder' = v /\ hasWallet' /\ worker'[v].seen = wallet'[worker'[v].c]
    BY <1>1, <1>5, <1>6, <1>7, <2>1 DEF IInv, LockAgrees, At
  <2>2. ASSUME NEW v \in Workers, At(v, "writes")', worker'[v].kind = "register"
        PROVE  /\ At(v, "writes") /\ worker'[v] = worker[v]
               /\ registered' /\ ~hasWallet' /\ worker'[v].seen = 0
    <3>1. At(v, "writes") /\ worker'[v] = worker[v]
      BY <1>5, <1>8, <2>2 DEF At
    <3> QED BY <1>1, <1>6, <2>2, <3>1 DEF IInv, LockAgrees
  <2>3. ASSUME NEW u \in Workers, NEW v \in Workers,
               At(u, "writes")', worker'[u].kind = "register",
               At(v, "writes")', worker'[v].kind = "register"
        PROVE  u = v
    BY <2>2, <2>3 DEF IInv, LockAgrees
  <2>4. (hasWallet => registered)' /\ (~hasWallet => wallet["gold"] = 0)'
    BY <1>1, <1>6 DEF IInv, LockAgrees
  <2> QED BY <1>1, <1>6, <2>1, <2>2, <2>3, <2>4 DEF LockAgrees
<1>10. /\ registered' \in BOOLEAN /\ holder' \in Workers \cup {NoWorker}
       /\ harm' \subseteq {"overwritten", "unrecorded"}
  BY <1>1 DEF IInv, TypeOK
<1> HIDE DEF r
<1> QED BY <1>1, <1>3, <1>4, <1>9, <1>10, WorkerMoves

\* Only one worker has the lock, and it reads what the balance is.
LEMMA LockWalletKeeps ==
  ASSUME IInv, NEW w \in Workers, LockWallet(w) PROVE IInv'
<1> DEFINE q == worker[w]
           r == [q EXCEPT !.at = "holds", !.seen = wallet[q.c]]
<1>1. /\ q.at = "locks" /\ hasWallet /\ holder = NoWorker /\ holder' = w
      /\ Becomes(w, r) /\ UNCHANGED <<rows, registered, acked, harm>>
  BY DEF LockWallet, At
<1>2. q \in Requests /\ RequestAgrees(q) /\ RequestCredited(credits, q)
  BY RequestOf
<1>3. wallet[q.c] \in Nat
  BY <1>2 DEF IInv, TypeOK, Requests
<1> HIDE DEF q
<1>4. /\ r.at = "holds" /\ r.kind = q.kind /\ r.of = q.of /\ r.c = q.c
      /\ r.seen = wallet[q.c]
  BY <1>2 DEF Requests
<1>5. r \in Requests
  <2> DEFINE s == [q EXCEPT !.at = "holds"]
  <2>1. s \in Requests
    BY <1>2 DEF Requests, Labels
  <2>2. r = [s EXCEPT !.seen = wallet[q.c]]
    OBVIOUS
  <2> HIDE DEF s, r
  <2> QED BY <1>3, <2>1, <2>2 DEF Requests
<1> HIDE DEF r
<1>6. RequestAgrees(r) /\ RequestCredited(credits, r)
  BY <1>1, <1>2, <1>4 DEF RequestAgrees, RequestCredited
<1>7. /\ worker'[w] = r
      /\ \A v \in Workers \ {w} : worker'[v] = worker[v]
  BY <1>1, <1>5, Becoming DEF IInv
<1>8. hasWallet' = hasWallet /\ wallet' = wallet
  BY <1>1 DEF rows
<1>9. \A v \in Workers : ~At(v, "holds")
  BY <1>1, WorkersAssumption DEF IInv, LockAgrees
<1>10. ASSUME NEW v \in Workers, At(v, "writes")'
       PROVE  At(v, "writes") /\ worker'[v] = worker[v]
  BY <1>4, <1>7, <1>10 DEF At
<1>11. LockAgrees'
  <2>1. ASSUME NEW v \in Workers, At(v, "holds")'
        PROVE  holder' = v /\ hasWallet' /\ worker'[v].seen = wallet'[worker'[v].c]
    <3>1. v = w
      BY <1>7, <1>9, <2>1 DEF At
    <3> QED BY <1>1, <1>4, <1>7, <1>8, <3>1
  <2>2. \A v \in Workers : At(v, "writes") /\ worker[v].kind = "register" => FALSE
    BY <1>1 DEF IInv, LockAgrees
  <2>3. (hasWallet => registered)' /\ (~hasWallet => wallet["gold"] = 0)'
    BY <1>1, <1>8 DEF IInv, LockAgrees
  <2> QED BY <1>1, <1>8, <1>10, <2>1, <2>2, <2>3 DEF LockAgrees
<1>12. /\ registered' \in BOOLEAN /\ holder' \in Workers \cup {NoWorker}
       /\ harm' \subseteq {"overwritten", "unrecorded"}
  BY <1>1 DEF IInv, TypeOK
<1> QED BY <1>1, <1>5, <1>6, <1>11, <1>12, WorkerMoves

\* A request that ends, or fails, gives up its lock.
LEMMA EndingKeeps ==
  ASSUME IInv, NEW w \in Workers, NotFound(w) \/ Refuse(w) \/ Fail(w) PROVE IInv'
<1>1. /\ Becomes(w, Idle) /\ UNCHANGED <<rows, registered, acked>>
      /\ holder' = holder \/ (holder = w /\ holder' = NoWorker)
      /\ harm' \subseteq harm \cup {"unrecorded"}
  <2>1. CASE NotFound(w)
    BY <2>1 DEF NotFound, Ends
  <2>2. CASE Refuse(w)
    BY <2>2 DEF Refuse, Ends, IInv, LockAgrees
  <2>3. CASE Fail(w)
    BY <2>3 DEF Fail, Ends, HarmOf
  <2> QED BY <2>1, <2>2, <2>3
<1>2. harm' \subseteq {"overwritten", "unrecorded"}
  BY <1>1 DEF IInv, TypeOK
<1> QED BY <1>1, <1>2, IdleAgrees, WorkerMovesOn

\* What a worker does when the currency it handles is credited.
LEMMA UpdatedAgrees ==
  ASSUME NEW cr, NEW r \in Requests, RequestAgrees(r), RequestCredited(cr, r),
         r.at = "holds", r.kind = "coinflow" => IsCredited(cr, r.of, r.c)
  PROVE  /\ Updated(r) \in Requests
         /\ Updated(r).at \notin {"holds", "writes"}
         /\ RequestAgrees(Updated(r))
         /\ RequestCredited(cr, Updated(r))
<1>1. CASE r.kind = "bet"
  BY <1>1, IdleAgrees DEF Updated
<1>2. CASE r.kind # "bet"
  <2>1. r.of # NoPurchase /\ Updated(r) = After(r.of, r)
    BY <1>2 DEF RequestAgrees, Updated
  <2> QED BY <2>1, AfterAgrees
<1> QED BY <1>1, <1>2

LEMMA SkipKeeps ==
  ASSUME IInv, NEW w \in Workers, Skip(w) PROVE IInv'
<1> DEFINE r == worker[w]
<1>1. /\ r.at = "holds" /\ Existing(r) /\ holder' = NoWorker
      /\ Becomes(w, Updated(r)) /\ UNCHANGED <<rows, registered, acked, harm>>
  BY DEF Skip, At
<1>2. r \in Requests /\ RequestAgrees(r) /\ RequestCredited(credits, r)
  BY RequestOf
<1>3. IsCredited(credits, r.of, r.c)
  BY <1>1 DEF Existing, IsCredited
<1>4. holder = w
  BY <1>1 DEF IInv, LockAgrees, At
<1>5. harm' \subseteq {"overwritten", "unrecorded"}
  BY <1>1 DEF IInv, TypeOK
<1> HIDE DEF r
<1> QED BY <1>1, <1>2, <1>3, <1>4, <1>5, UpdatedAgrees, WorkerMovesOn

\* More credits take nothing from what is credited.
LEMMA CreditedStays ==
  ASSUME NEW r \in Requests, NEW cr, NEW more, RequestAgrees(r), RequestCredited(cr, r),
         \A p \in Purchases, c \in Currencies : cr[p][c] > 0 => more[p][c] > 0
  PROVE  RequestCredited(more, r)
<1>1. \A p \in Purchases, c \in Currencies : IsCredited(cr, p, c) => IsCredited(more, p, c)
  BY DEF IsCredited
<1>2. r.kind = "coinflow" => r.of \in Purchases
  BY DEF RequestAgrees, Purchases
<1>3. "gold" \in Currencies
  BY DEF Currencies
<1> QED BY <1>1, <1>2, <1>3 DEF RequestCredited

LEMMA CommitKeeps ==
  ASSUME IInv, NEW w \in Workers, Commit(w) PROVE IInv'
<1> DEFINE r == worker[w]
<1>1. /\ r.at = "holds" /\ ~Existing(r) /\ ~Insufficient(r) /\ holder' = NoWorker
      /\ wallet' = [wallet EXCEPT ![r.c] = r.seen + r.amount]
      /\ ledger' = [ledger EXCEPT ![r.c] = @ + r.amount]
      /\ credits' = IF r.of = NoPurchase THEN credits
                      ELSE [credits EXCEPT ![r.of][r.c] = @ + 1]
      /\ staked' = StakedBy(r)
      /\ Becomes(w, Updated(r))
      /\ UNCHANGED <<hasWallet, lost, registered, acked, harm>>
  BY DEF Commit, At
<1>2. r \in Requests /\ RequestAgrees(r) /\ RequestCredited(credits, r)
  BY RequestOf
<1>3. holder = w /\ hasWallet /\ r.seen = wallet[r.c]
  BY <1>1 DEF IInv, LockAgrees, At
<1>4. r.c \in Currencies /\ r.amount \in Int /\ r.of \in Purchases \cup {NoPurchase}
  BY <1>2 DEF Requests
<1> HIDE DEF r
<1>5. /\ wallet \in [Currencies -> Nat] /\ ledger \in [Currencies -> Int]
      /\ lost \in [Currencies -> Nat] /\ staked \in [Currencies -> Nat]
      /\ credits \in [Purchases -> [Currencies -> Nat]]
  BY DEF IInv, TypeOK
<1>6. r.seen + r.amount \in Nat
  BY <1>1, <1>3, <1>4, <1>5 DEF Insufficient
<1>7. /\ wallet' \in [Currencies -> Nat] /\ ledger' \in [Currencies -> Int]
      /\ staked' \in [Currencies -> Nat]
  <2>1. wallet' \in [Currencies -> Nat] /\ ledger' \in [Currencies -> Int]
    BY <1>1, <1>4, <1>5, <1>6
  <2>2. StakedBy(r) \in [Currencies -> Nat]
    BY <1>4, <1>5 DEF StakedBy
  <2> QED BY <1>1, <2>1, <2>2
<1>8. credits' \in [Purchases -> [Currencies -> Nat]]
  <2>1. CASE r.of = NoPurchase
    BY <1>1, <1>5, <2>1
  <2>2. CASE r.of # NoPurchase
    <3>1. r.of \in Purchases /\ credits[r.of] \in [Currencies -> Nat]
      BY <1>4, <1>5, <2>2
    <3>2. [credits[r.of] EXCEPT ![r.c] = @ + 1] \in [Currencies -> Nat]
      BY <1>4, <3>1
    <3> QED BY <1>1, <1>5, <2>2, <3>1, <3>2
  <2> QED BY <2>1, <2>2
<1>9. \A p \in Purchases, c \in Currencies :
        credits'[p][c] = IF p = r.of /\ c = r.c THEN credits[p][c] + 1 ELSE credits[p][c]
  <2>1. CASE r.of = NoPurchase
    BY <1>1, <2>1, PurchasesAssumption
  <2>2. CASE r.of # NoPurchase
    BY <1>1, <1>4, <1>5, <2>2
  <2> QED BY <2>1, <2>2
<1>10. \A p \in Purchases, c \in Currencies : credits[p][c] > 0 => credits'[p][c] > 0
  BY <1>5, <1>9
<1>11. RequestCredited(credits', r)
  BY <1>2, <1>10, CreditedStays
<1>12. r.kind = "coinflow" => IsCredited(credits', r.of, r.c)
  <2>1. SUFFICES ASSUME r.kind = "coinflow" PROVE credits'[r.of][r.c] > 0
    BY DEF IsCredited
  <2>2. r.of \in Purchases /\ credits[r.of][r.c] \in Nat
    BY <1>2, <1>4, <1>5, <2>1 DEF RequestAgrees, Purchases
  <2> QED BY <1>4, <1>9, <2>2
<1> DEFINE next == Updated(r)
<1>13. /\ next \in Requests /\ next.at \notin {"holds", "writes"}
       /\ RequestAgrees(next) /\ RequestCredited(credits', next)
  BY <1>1, <1>2, <1>11, <1>12, UpdatedAgrees
<1> HIDE DEF next
<1>14. /\ worker' \in [Workers -> Requests] /\ worker'[w] = next
       /\ \A v \in Workers \ {w} : worker'[v] = worker[v]
  BY <1>1, <1>13, Becoming DEF IInv, next
<1>15. TypeOK'
  BY <1>1, <1>7, <1>8, <1>14 DEF IInv, TypeOK
<1>16. RequestsAgree'
  BY <1>13, <1>14 DEF IInv, RequestsAgree
<1>17. AnsweringIsCredited'
  <2>1. ASSUME NEW v \in Workers \ {w} PROVE RequestCredited(credits', worker'[v])
    <3>1. worker'[v] = worker[v]
      BY <1>14
    <3>2. RequestCredited(credits', worker[v])
      BY <1>10, RequestOf, CreditedStays
    <3> QED BY <3>1, <3>2
  <2> QED BY <1>13, <1>14, <2>1 DEF AnsweringIsCredited
<1>18. LockAgrees'
  <2>1. \A v \in Workers : ~At(v, "holds")'
    BY <1>3, <1>13, <1>14 DEF At, IInv, LockAgrees
  <2>2. \A v \in Workers : At(v, "writes")' => worker'[v].kind # "register"
    BY <1>3, <1>13, <1>14 DEF At, IInv, LockAgrees
  <2>3. hasWallet' /\ registered'
    BY <1>1, <1>3 DEF IInv, LockAgrees
  <2> QED BY <2>1, <2>2, <2>3 DEF LockAgrees
<1>19. CreditedOnce'
  <2>1. SUFFICES ASSUME NEW p \in Identified, NEW c \in Currencies
                 PROVE  credits'[p][c] <= 1
    BY DEF CreditedOnce
  <2>2. p \in Coinflow /\ p \in Purchases
    BY PurchasesAssumption DEF Purchases
  <2>3. CASE p = r.of /\ c = r.c
    <3>1. r.kind = "coinflow" /\ credits[p][c] \in Nat
      BY <1>2, <1>5, <2>2, <2>3 DEF RequestAgrees
    <3>2. credits[p][c] = 0
      BY <1>1, <2>3, <3>1 DEF Existing
    <3> QED BY <1>9, <2>2, <2>3, <3>2
  <2>4. CASE ~(p = r.of /\ c = r.c)
    BY <1>9, <2>2, <2>4 DEF IInv, CreditedOnce
  <2> QED BY <2>3, <2>4
<1>20. AnsweredIsCredited'
  BY <1>1, <1>10 DEF IInv, TypeOK, AnsweredIsCredited
<1>21. SweepLedgerExplained'
  BY <1>1, <1>3, <1>4, <1>5 DEF IInv, SweepLedgerExplained, Currencies
<1> QED BY <1>15, <1>16, <1>17, <1>18, <1>19, <1>20, <1>21 DEF IInv

\* A balance that is set: only the gold is, and nobody holds the lock.
LEMMA WriteKeeps ==
  ASSUME IInv, NEW w \in Workers, CreateWallet(w) \/ AdminWrites(w) PROVE IInv'
<1> DEFINE q == worker[w]
           r == [q EXCEPT !.at = "records"]
<1>1. /\ q.at = "writes" /\ Becomes(w, r)
      /\ wallet' = [wallet EXCEPT !["gold"] = q.amount]
      /\ UNCHANGED <<ledger, lost, staked, credits, registered, holder, acked>>
      /\ harm' \subseteq harm \cup {"overwritten"}
      /\ hasWallet' \in BOOLEAN
      /\ \/ q.kind = "register" /\ hasWallet'
         \/ q.kind = "admin" /\ hasWallet' = hasWallet /\ holder = NoWorker
  BY DEF CreateWallet, AdminWrites, At, IInv, TypeOK
<1>2. q \in Requests /\ RequestAgrees(q) /\ RequestCredited(credits, q)
  BY RequestOf
<1>3. q.amount \in Nat /\ "records" \in Labels /\ "gold" \in Currencies
  BY <1>1, <1>2 DEF RequestAgrees, Labels, Currencies
<1>4. \/ q.kind = "register" /\ registered /\ ~hasWallet
      \/ q.kind = "admin" /\ hasWallet
  BY <1>1 DEF IInv, LockAgrees, At
<1>5. hasWallet' /\ \A v \in Workers : ~At(v, "holds")
  BY <1>1, <1>4, WorkersAssumption DEF IInv, LockAgrees
<1>6. \A v \in Workers \ {w} : At(v, "writes") => worker[v].kind # "register"
  BY <1>1, <1>4 DEF IInv, LockAgrees, At
<1> HIDE DEF q
<1>7. /\ r \in Requests /\ r.at = "records" /\ r.of = q.of
      /\ r.kind = q.kind /\ r.amount = q.amount
  BY <1>2, <1>3 DEF Requests
<1> HIDE DEF r
<1>8. RequestAgrees(r) /\ RequestCredited(credits, r)
  BY <1>1, <1>2, <1>7 DEF RequestAgrees, RequestCredited
<1>9. /\ worker' \in [Workers -> Requests] /\ worker'[w] = r
      /\ \A v \in Workers \ {w} : worker'[v] = worker[v]
  BY <1>1, <1>7, Becoming DEF IInv
<1>10. wallet' \in [Currencies -> Nat] /\ wallet'["sweep"] = wallet["sweep"]
  BY <1>1, <1>3 DEF IInv, TypeOK, Currencies
<1>11. TypeOK'
  BY <1>1, <1>9, <1>10 DEF IInv, TypeOK
<1>12. RequestsAgree' /\ AnsweringIsCredited'
  BY <1>1, <1>8, <1>9 DEF IInv, RequestsAgree, AnsweringIsCredited
<1>13. LockAgrees'
  <2>1. \A v \in Workers : ~At(v, "holds")'
    BY <1>5, <1>7, <1>9 DEF At
  <2>2. \A v \in Workers : At(v, "writes")' => worker'[v].kind # "register"
    BY <1>6, <1>7, <1>9 DEF At
  <2>3. hasWallet' /\ registered'
    BY <1>1, <1>4, <1>5 DEF IInv, LockAgrees
  <2> QED BY <2>1, <2>2, <2>3 DEF LockAgrees
<1>14. CreditedOnce' /\ AnsweredIsCredited' /\ SweepLedgerExplained'
  BY <1>1, <1>10 DEF IInv, CreditedOnce, AnsweredIsCredited, SweepLedgerExplained
<1> QED BY <1>11, <1>12, <1>13, <1>14 DEF IInv

\* The transaction of a balance that was set.
LEMMA RecordKeeps ==
  ASSUME IInv, NEW w \in Workers, Record(w) PROVE IInv'
<1>1. /\ worker[w].at = "records" /\ Becomes(w, Idle)
      /\ ledger' = [ledger EXCEPT !["gold"] = @ + Recorded(worker[w])]
      /\ UNCHANGED <<hasWallet, wallet, lost, staked, credits, registered, holder,
                     acked, harm>>
  BY DEF Record, At, Ends
<1>2. worker[w].amount \in Int /\ worker[w].seen \in Int /\ "gold" \in Currencies
  BY RequestOf DEF Requests, Currencies
<1>3. ledger' \in [Currencies -> Int] /\ ledger'["sweep"] = ledger["sweep"]
  BY <1>1, <1>2 DEF IInv, TypeOK, Currencies, Recorded
<1>4. /\ worker' \in [Workers -> Requests] /\ worker'[w] = Idle
      /\ \A v \in Workers \ {w} : worker'[v] = worker[v]
  BY <1>1, IdleAgrees, Becoming DEF IInv
<1>5. TypeOK'
  BY <1>1, <1>3, <1>4 DEF IInv, TypeOK
<1>6. RequestsAgree' /\ AnsweringIsCredited'
  BY <1>1, <1>4, IdleAgrees DEF IInv, RequestsAgree, AnsweringIsCredited
<1>7. LockAgrees'
  BY <1>1, IdleAgrees, LockStays
<1>8. CreditedOnce' /\ AnsweredIsCredited' /\ SweepLedgerExplained'
  BY <1>1, <1>3 DEF IInv, CreditedOnce, AnsweredIsCredited, SweepLedgerExplained
<1> QED BY <1>5, <1>6, <1>7, <1>8 DEF IInv

\* A lost bet is recorded: what the ledger loses, the losses gain.
LEMMA LoseKeeps ==
  ASSUME IInv, NEW c \in Currencies, NEW a, Lose(c, a) PROVE IInv'
<1>1. /\ ledger' = [ledger EXCEPT ![c] = @ - a] /\ lost' = [lost EXCEPT ![c] = @ + a]
      /\ staked' = [staked EXCEPT ![c] = @ - a] /\ a \in 1..staked[c]
      /\ UNCHANGED <<hasWallet, wallet, credits, registered, holder, worker, acked, harm>>
  BY DEF Lose
<1>2. /\ ledger \in [Currencies -> Int] /\ lost \in [Currencies -> Nat]
      /\ staked \in [Currencies -> Nat] /\ wallet \in [Currencies -> Nat]
  BY DEF IInv, TypeOK
<1>3. a \in Nat /\ staked[c] - a \in Nat
  BY <1>1, <1>2
<1>4. /\ ledger' \in [Currencies -> Int] /\ lost' \in [Currencies -> Nat]
      /\ staked' \in [Currencies -> Nat]
  BY <1>1, <1>2, <1>3
<1>5. TypeOK'
  BY <1>1, <1>4 DEF IInv, TypeOK
<1>6. SweepLedgerExplained'
  BY <1>1, <1>2, <1>3 DEF IInv, SweepLedgerExplained, Currencies
<1>7. /\ RequestsAgree' /\ LockAgrees' /\ AnsweringIsCredited'
      /\ CreditedOnce' /\ AnsweredIsCredited'
  BY <1>1 DEF IInv, RequestsAgree, LockAgrees, AnsweringIsCredited, CreditedOnce,
              AnsweredIsCredited, At
<1> QED BY <1>5, <1>6, <1>7 DEF IInv

\* The process stops: every worker is idle, and no row has changed.
LEMMA StopKeeps == ASSUME IInv, Stop PROVE IInv'
<1>1. /\ holder' = NoWorker /\ harm' \subseteq harm \cup {"unrecorded"}
      /\ worker' = [w \in Workers |-> Idle]
      /\ UNCHANGED <<rows, registered, acked>>
  BY DEF Stop, HarmOf
<1>2. /\ hasWallet' = hasWallet /\ wallet' = wallet /\ ledger' = ledger
      /\ lost' = lost /\ staked' = staked /\ credits' = credits
  BY <1>1 DEF rows
<1>3. \A w \in Workers : worker'[w] = Idle
  BY <1>1
<1>4. worker' \in [Workers -> Requests]
  BY <1>1, IdleAgrees
<1>5. TypeOK'
  BY <1>1, <1>2, <1>4 DEF IInv, TypeOK
<1>6. RequestsAgree' /\ AnsweringIsCredited'
  BY <1>3, IdleAgrees DEF RequestsAgree, AnsweringIsCredited
<1>7. LockAgrees'
  BY <1>1, <1>2, <1>3, IdleAgrees DEF IInv, LockAgrees, At
<1>8. CreditedOnce' /\ AnsweredIsCredited' /\ SweepLedgerExplained'
  BY <1>1, <1>2 DEF IInv, CreditedOnce, AnsweredIsCredited, SweepLedgerExplained
<1> QED BY <1>5, <1>6, <1>7, <1>8 DEF IInv

\* No step changes anything: the invariant stays.
LEMMA StutterKeeps == ASSUME IInv, UNCHANGED vars PROVE IInv'
BY DEF IInv, vars, rows, TypeOK, RequestsAgree, LockAgrees, AnsweringIsCredited,
       CreditedOnce, AnsweredIsCredited, SweepLedgerExplained, At

LEMMA NextKeeps == IInv /\ [Next]_vars => IInv'
<1> SUFFICES ASSUME IInv, Next PROVE IInv'
  BY StutterKeeps
<1>1. CASE Stop
  BY <1>1, StopKeeps
<1>3. CASE \E c \in Currencies, m \in Moves : Lose(c, -m)
  BY <1>3, LoseKeeps
<1>2. ASSUME NEW w \in Workers,
             \/ Works(w)
             \/ \E p \in Purchases : Deliver(w, p)
             \/ \E p \in Purchases : DeliverAgain(w, p)
             \/ \E c \in Currencies, m \in Moves : Bet(w, c, m)
             \/ Register(w)
             \/ \E a \in AdminAmounts : AdminReads(w, a)
             \/ Fail(w)
      PROVE  IInv'
  <2>1. CASE Works(w)
    BY <2>1, LookKeeps, AnswerKeeps, LockWalletKeeps, EndingKeeps, SkipKeeps,
       CommitKeeps, WriteKeeps, RecordKeeps DEF Works
  <2>2. CASE \E p \in Purchases : Deliver(w, p) \/ DeliverAgain(w, p)
    BY <2>2, DeliverKeeps
  <2>3. CASE \E c \in Currencies, m \in Moves : Bet(w, c, m)
    BY <2>3, BetKeeps
  <2>4. CASE Register(w)
    BY <2>4, RegisterKeeps
  <2>5. CASE \E a \in AdminAmounts : AdminReads(w, a)
    BY <2>5, AdminReadsKeeps
  <2>6. CASE Fail(w)
    BY <2>6, EndingKeeps
  <2> QED BY <1>2, <2>1, <2>2, <2>3, <2>4, <2>5, <2>6
<1> QED BY <1>1, <1>2, <1>3 DEF Next

LEMMA Invariance == Spec => []IInv
BY InitInvariant, NextKeeps, PTL DEF Spec

----------------------------------------------------------------------------
\* Every variable keeps its type: the balances are never negative.
THEOREM WalletTypeCorrect == Spec => []TypeOK
<1>1. IInv => TypeOK
  BY DEF IInv
<1> QED BY <1>1, Invariance, PTL

\* For any purchases, any number of overlapping reports and any failures, a
\* purchase with an identifier is credited at most once in each currency: the
\* search for an earlier transaction is made again under the lock.
THEOREM PurchaseCreditedOnce == Spec => []CreditedOnce
<1>1. IInv => CreditedOnce
  BY DEF IInv
<1> QED BY <1>1, Invariance, PTL

\* No report of Coinflow is answered with success before every currency of
\* the package is credited, so what is missing is reported again.
THEOREM AnswerFollowsCredit == Spec => []AnsweredIsCredited
<1>1. IInv => AnsweredIsCredited
  BY DEF IInv
<1> QED BY <1>1, Invariance, PTL

\* The lock makes the balance that is written the one that was read plus what
\* the transaction says: the sweep coins always are the sum of their
\* transactions, those of lost bets left out.
THEOREM SweepLedgerIsExplained == Spec => []SweepLedgerExplained
<1>1. IInv => SweepLedgerExplained
  BY DEF IInv
<1> QED BY <1>1, Invariance, PTL

----------------------------------------------------------------------------
(***************************************************************************)
(* The gold coins.  A balance that was set is owed a transaction until the *)
(* transaction is written; the ledger and what it is owed explain the      *)
(* balance.                                                                *)
(***************************************************************************)
Owed(W) == [w \in Workers |-> IF W[w].at = "records" THEN Recorded(W[w]) ELSE 0]

AllOwed(W) == SumFunctionOnSet(Owed(W), Workers)

GoldExplained ==
  harm = {} => wallet["gold"] = ledger["gold"] + lost["gold"] + AllOwed(worker)

LEMMA OwedType ==
  ASSUME NEW W \in [Workers -> Requests]
  PROVE  AllOwed(W) \in Int /\ \A w \in Workers : Owed(W)[w] \in Int
<1>1. \A w \in Workers : Owed(W)[w] \in Int
  BY DEF Owed, Recorded, Requests
<1> QED BY <1>1, WorkersAssumption, SumType DEF AllOwed

\* One worker moves on.
LEMMA OwedChanges ==
  ASSUME NEW V \in [Workers -> Requests], NEW W \in [Workers -> Requests],
         NEW w \in Workers, \A v \in Workers \ {w} : W[v] = V[v]
  PROVE  AllOwed(W) = AllOwed(V) - Owed(V)[w] + Owed(W)[w]
<1>1. \A v \in Workers : Owed(V)[v] \in Int /\ Owed(W)[v] \in Int
  BY OwedType
<1>2. \A v \in Workers \ {w} : Owed(V)[v] = Owed(W)[v]
  BY DEF Owed
<1> QED BY <1>1, <1>2, WorkersAssumption, SumChange DEF AllOwed

LEMMA NothingOwed ==
  ASSUME NEW W \in [Workers -> Requests], \A w \in Workers : W[w].at # "records"
  PROVE  AllOwed(W) = 0
<1> DEFINE f == Owed(W)
           zero == 0
<1>1. zero \in Int /\ \A w \in Workers : f[w] = zero
  BY DEF Owed
<1> HIDE DEF f, zero
<1>2. SumFunctionOnSet(f, Workers) = zero * Cardinality(Workers)
  BY <1>1, WorkersAssumption, SumConstant
<1>3. Cardinality(Workers) \in Nat
  BY WorkersAssumption, FS_CardinalityType
<1> QED BY <1>2, <1>3 DEF AllOwed, f, zero

\* A worker that has no balance to record, before and after.
LEMMA NothingRecorded ==
  ASSUME TypeOK, TypeOK', NEW w \in Workers, NEW r, Becomes(w, r),
         ~At(w, "records"), ~At(w, "records")'
  PROVE  AllOwed(worker') = AllOwed(worker)
<1>1. /\ worker \in [Workers -> Requests] /\ worker' \in [Workers -> Requests]
      /\ \A v \in Workers \ {w} : worker'[v] = worker[v]
  BY DEF TypeOK, Becomes
<1>2. Owed(worker)[w] = 0 /\ Owed(worker')[w] = 0
  BY DEF Owed, At
<1>3. AllOwed(worker) \in Int
  BY <1>1, OwedType
<1> QED BY <1>1, <1>2, <1>3, OwedChanges

\* Where a worker is after a currency.
LEMMA AfterLabel ==
  ASSUME NEW r \in Requests, NEW p
  PROVE  /\ \A c : Turn(p, r, c).at \in {"looks", "answers"}
         /\ After(p, r).at \in {"looks", "answers"}
         /\ Updated(r).at \in {"idle", "looks", "answers"}
<1>1. ASSUME NEW q, NEW c PROVE Turn(q, r, c).at \in {"looks", "answers"}
  BY DEF Turn, Requests
<1>2. ASSUME NEW q PROVE After(q, r).at \in {"looks", "answers"}
  BY <1>1 DEF After, Requests
<1>3. Updated(r).at \in {"idle", "looks", "answers"}
  BY <1>2 DEF Updated, Idle
<1> QED BY <1>1, <1>2, <1>3

\* Steps that leave the gold and what is owed alone.
LEMMA GoldStays ==
  ASSUME IInv, GoldExplained, NEW w \in Workers,
         \/ Look(w) \/ Answer(w) \/ LockWallet(w) \/ NotFound(w) \/ Skip(w)
         \/ Refuse(w)
         \/ \E p \in Purchases : Deliver(w, p) \/ DeliverAgain(w, p)
         \/ \E c \in Currencies, m \in Moves : Bet(w, c, m)
         \/ Register(w)
         \/ \E a \in AdminAmounts : AdminReads(w, a)
  PROVE  GoldExplained'
<1>1. IInv'
  BY LookKeeps, AnswerKeeps, LockWalletKeeps, EndingKeeps, SkipKeeps, DeliverKeeps,
     BetKeeps, RegisterKeeps, AdminReadsKeeps
<1>2. UNCHANGED <<rows, harm>> /\ ~At(w, "records")
  BY DEF Look, Answer, LockWallet, NotFound, Skip, Refuse, Deliver, DeliverAgain,
         Bet, Register, AdminReads, At
<1>3. worker[w] \in Requests
  BY RequestOf
<1>4. \E r : Becomes(w, r) /\ r.at # "records"
  <2>1. ASSUME Look(w) PROVE \E r : Becomes(w, r) /\ r.at # "records"
    <3> DEFINE next == IF HasTransaction(worker[w].of, worker[w].c)
                         THEN After(worker[w].of, worker[w])
                         ELSE [worker[w] EXCEPT !.at = "locks"]
    <3>1. Becomes(w, next)
      BY <2>1 DEF Look
    <3>2. next.at # "records"
      BY <1>3, AfterLabel DEF Requests
    <3> HIDE DEF next
    <3> QED BY <3>1, <3>2
  <2>2. ASSUME Skip(w) PROVE \E r : Becomes(w, r) /\ r.at # "records"
    BY <2>2, <1>3, AfterLabel DEF Skip
  <2>3. ASSUME NEW p \in Purchases, Deliver(w, p) \/ DeliverAgain(w, p)
        PROVE  \E r : Becomes(w, r) /\ r.at # "records"
    BY <2>3, BegunAgrees DEF Deliver, DeliverAgain
  <2>4. ASSUME Answer(w) \/ NotFound(w) \/ Refuse(w)
        PROVE  \E r : Becomes(w, r) /\ r.at # "records"
    BY <2>4, IdleAgrees DEF Answer, NotFound, Refuse, Ends
  <2>5. ASSUME LockWallet(w) PROVE \E r : Becomes(w, r) /\ r.at # "records"
    <3> DEFINE next == [worker[w] EXCEPT !.at = "holds", !.seen = wallet[worker[w].c]]
    <3>1. Becomes(w, next)
      BY <2>5 DEF LockWallet
    <3>2. next.at # "records"
      BY <1>3 DEF Requests
    <3> HIDE DEF next
    <3> QED BY <3>1, <3>2
  <2>6. ASSUME Register(w) PROVE \E r : Becomes(w, r) /\ r.at # "records"
    BY <2>6 DEF Register
  <2>7. ASSUME NEW c \in Currencies, NEW m \in Moves, Bet(w, c, m)
        PROVE  \E r : Becomes(w, r) /\ r.at # "records"
    BY <2>7 DEF Bet
  <2>8. ASSUME NEW a \in AdminAmounts, AdminReads(w, a)
        PROVE  \E r : Becomes(w, r) /\ r.at # "records"
    BY <2>8 DEF AdminReads
  <2> QED BY <2>1, <2>2, <2>3, <2>4, <2>5, <2>6, <2>7, <2>8
<1>5. ~At(w, "records")'
  BY <1>4 DEF Becomes, At, IInv, TypeOK
<1>6. AllOwed(worker') = AllOwed(worker)
  BY <1>1, <1>2, <1>4, <1>5, NothingRecorded DEF IInv
<1> QED BY <1>2, <1>6 DEF GoldExplained, rows

\* A committed change is in the balance and in the ledger.
LEMMA GoldCommitted ==
  ASSUME IInv, GoldExplained, NEW w \in Workers, Commit(w) PROVE GoldExplained'
<1> DEFINE r == worker[w]
<1>1. /\ r.at = "holds" /\ Becomes(w, Updated(r)) /\ harm' = harm
      /\ lost' = lost
      /\ wallet' = [wallet EXCEPT ![r.c] = r.seen + r.amount]
      /\ ledger' = [ledger EXCEPT ![r.c] = @ + r.amount]
  BY DEF Commit, At
<1>2. r \in Requests /\ r.c \in Currencies /\ r.amount \in Int /\ r.seen = wallet[r.c]
  BY <1>1, RequestOf DEF Requests, IInv, LockAgrees, At
<1>3. Updated(r).at # "records"
  BY <1>2, AfterLabel
<1>4. ~At(w, "records") /\ ~At(w, "records")'
  BY <1>1, <1>3 DEF Becomes, At, IInv, TypeOK
<1>5. AllOwed(worker') = AllOwed(worker) /\ AllOwed(worker) \in Int
  <2>1. IInv'
    BY CommitKeeps
  <2> QED BY <1>1, <1>4, <2>1, NothingRecorded, OwedType DEF IInv, TypeOK
<1>6. /\ wallet \in [Currencies -> Nat] /\ ledger \in [Currencies -> Int]
      /\ lost \in [Currencies -> Nat]
  BY DEF IInv, TypeOK
<1> HIDE DEF r
<1>7. "gold" \in Currencies
  BY DEF Currencies
<1>8. wallet'["gold"] - ledger'["gold"] = wallet["gold"] - ledger["gold"]
  BY <1>1, <1>2, <1>6, <1>7
<1>9. wallet'["gold"] \in Int /\ ledger'["gold"] \in Int /\ lost["gold"] \in Int
  BY <1>1, <1>2, <1>6, <1>7
<1> QED BY <1>1, <1>5, <1>6, <1>7, <1>8, <1>9 DEF GoldExplained

\* A balance that is set over the one that was read owes the difference.
LEMMA GoldSet ==
  ASSUME IInv, GoldExplained, NEW w \in Workers, CreateWallet(w) \/ AdminWrites(w)
  PROVE  GoldExplained'
<1> DEFINE q == worker[w]
           r == [q EXCEPT !.at = "records"]
<1>1. SUFFICES ASSUME harm' = {}
               PROVE  wallet'["gold"] = ledger'["gold"] + lost'["gold"] + AllOwed(worker')
  BY DEF GoldExplained
<1>2. /\ q.at = "writes" /\ Becomes(w, r) /\ harm = {}
      /\ ledger' = ledger /\ lost' = lost
      /\ wallet' = [wallet EXCEPT !["gold"] = q.amount]
      /\ q.seen = wallet["gold"]
  <2>1. CASE CreateWallet(w)
    BY <1>1, <2>1 DEF CreateWallet, At, IInv, LockAgrees
  <2>2. CASE AdminWrites(w)
    BY <1>1, <2>2 DEF AdminWrites, At
  <2> QED BY <2>1, <2>2
<1>3. q \in Requests /\ q.amount \in Int /\ q.seen \in Int
  BY RequestOf DEF Requests
<1> HIDE DEF q
<1>4. r \in Requests /\ r.at = "records" /\ r.amount = q.amount /\ r.seen = q.seen
  BY <1>3 DEF Requests, Labels
<1> HIDE DEF r
<1>5. /\ worker' \in [Workers -> Requests] /\ worker'[w] = r
      /\ \A v \in Workers \ {w} : worker'[v] = worker[v]
  BY <1>2, <1>4, Becoming DEF IInv
<1>6. worker \in [Workers -> Requests]
  BY DEF IInv, TypeOK
<1>7. Owed(worker)[w] = 0 /\ Owed(worker')[w] = q.amount - q.seen
  BY <1>2, <1>4, <1>5 DEF Owed, Recorded, q
<1>8. AllOwed(worker') = AllOwed(worker) - 0 + (q.amount - q.seen)
  BY <1>5, <1>6, <1>7, OwedChanges
<1>9. AllOwed(worker) \in Int
  BY <1>6, OwedType
<1>10. /\ wallet \in [Currencies -> Nat] /\ ledger \in [Currencies -> Int]
       /\ lost \in [Currencies -> Nat] /\ "gold" \in Currencies
  BY DEF IInv, TypeOK, Currencies
<1>11. wallet["gold"] = ledger["gold"] + lost["gold"] + AllOwed(worker)
  BY <1>2 DEF GoldExplained
<1> QED BY <1>2, <1>3, <1>8, <1>9, <1>10, <1>11

\* The transaction pays what is owed.
LEMMA GoldRecorded ==
  ASSUME IInv, GoldExplained, NEW w \in Workers, Record(w) PROVE GoldExplained'
<1> DEFINE q == worker[w]
           d == Recorded(q)
<1>1. /\ q.at = "records" /\ Becomes(w, Idle) /\ harm' = harm /\ wallet' = wallet
      /\ lost' = lost
      /\ ledger' = [ledger EXCEPT !["gold"] = @ + d]
  BY DEF Record, At, Ends
<1>2. d \in Int
  BY RequestOf DEF Requests, Recorded
<1>3. /\ worker' \in [Workers -> Requests] /\ worker'[w] = Idle
      /\ \A v \in Workers \ {w} : worker'[v] = worker[v]
  BY <1>1, IdleAgrees, Becoming DEF IInv
<1>4. worker \in [Workers -> Requests]
  BY DEF IInv, TypeOK
<1>5. Owed(worker)[w] = d /\ Owed(worker')[w] = 0
  BY <1>1, <1>3, IdleAgrees DEF Owed
<1> HIDE DEF q, d
<1>6. AllOwed(worker') = AllOwed(worker) - d + 0
  BY <1>3, <1>4, <1>5, OwedChanges
<1>7. AllOwed(worker) \in Int
  BY <1>4, OwedType
<1>8. /\ wallet \in [Currencies -> Nat] /\ ledger \in [Currencies -> Int]
      /\ lost \in [Currencies -> Nat] /\ "gold" \in Currencies
  BY DEF IInv, TypeOK, Currencies
<1>9. ledger'["gold"] = ledger["gold"] + d
  BY <1>1, <1>8
<1>10. ledger["gold"] \in Int /\ wallet["gold"] \in Int /\ lost["gold"] \in Int
  BY <1>8
<1> QED BY <1>1, <1>2, <1>6, <1>7, <1>9, <1>10 DEF GoldExplained

\* A worker that fails with a balance to record does harm; one that fails
\* elsewhere owes nothing.
LEMMA GoldFailed ==
  ASSUME IInv, GoldExplained, NEW w \in Workers, Fail(w) PROVE GoldExplained'
<1>1. SUFFICES ASSUME harm' = {}
               PROVE  wallet'["gold"] = ledger'["gold"] + lost'["gold"] + AllOwed(worker')
  BY DEF GoldExplained
<1>2. /\ Becomes(w, Idle) /\ harm' = HarmOf({w}) /\ wallet' = wallet
      /\ ledger' = ledger /\ lost' = lost
  BY DEF Fail, Ends, rows
<1>3. ~At(w, "records") /\ harm = {}
  BY <1>1, <1>2 DEF HarmOf
<1>4. ~At(w, "records")'
  BY <1>2, IdleAgrees DEF Becomes, At, IInv, TypeOK
<1>5. IInv'
  BY EndingKeeps
<1>6. AllOwed(worker') = AllOwed(worker)
  BY <1>2, <1>3, <1>4, <1>5, NothingRecorded DEF IInv
<1> QED BY <1>2, <1>3, <1>6 DEF GoldExplained

LEMMA GoldStopped == ASSUME IInv, GoldExplained, Stop PROVE GoldExplained'
<1>1. SUFFICES ASSUME harm' = {}
               PROVE  wallet'["gold"] = ledger'["gold"] + lost'["gold"] + AllOwed(worker')
  BY DEF GoldExplained
<1>2. /\ worker' = [w \in Workers |-> Idle] /\ harm' = HarmOf(Workers)
      /\ wallet' = wallet /\ ledger' = ledger /\ lost' = lost
  BY DEF Stop, rows
<1>3. (\A w \in Workers : worker[w].at # "records") /\ harm = {}
  BY <1>1, <1>2 DEF HarmOf, At
<1>4. \A w \in Workers : worker'[w].at # "records"
  BY <1>2, IdleAgrees
<1>5. worker \in [Workers -> Requests] /\ worker' \in [Workers -> Requests]
  BY <1>2, IdleAgrees DEF IInv, TypeOK
<1>6. AllOwed(worker) = 0 /\ AllOwed(worker') = 0
  BY <1>3, <1>4, <1>5, NothingOwed
<1> QED BY <1>2, <1>3, <1>6 DEF GoldExplained

\* A lost bet is in the ledger and in the losses.
LEMMA GoldLost ==
  ASSUME IInv, GoldExplained, NEW c \in Currencies, NEW a, Lose(c, a)
  PROVE  GoldExplained'
<1>1. /\ ledger' = [ledger EXCEPT ![c] = @ - a] /\ lost' = [lost EXCEPT ![c] = @ + a]
      /\ a \in 1..staked[c] /\ UNCHANGED <<wallet, worker, harm>>
  BY DEF Lose
<1>2. /\ ledger \in [Currencies -> Int] /\ lost \in [Currencies -> Nat]
      /\ staked \in [Currencies -> Nat] /\ "gold" \in Currencies
  BY DEF IInv, TypeOK, Currencies
<1>3. a \in Nat
  BY <1>1, <1>2
<1>4. /\ ledger'["gold"] + lost'["gold"] = ledger["gold"] + lost["gold"]
      /\ ledger'["gold"] \in Int /\ lost'["gold"] \in Int
  BY <1>1, <1>2, <1>3
<1>5. AllOwed(worker) \in Int
  BY OwedType DEF IInv, TypeOK
<1> QED BY <1>1, <1>4, <1>5 DEF GoldExplained

LEMMA InitGold == Init => GoldExplained
<1> SUFFICES ASSUME Init PROVE GoldExplained
  OBVIOUS
<1>1. worker \in [Workers -> Requests] /\ \A w \in Workers : worker[w].at # "records"
  BY IdleAgrees DEF Init
<1>2. AllOwed(worker) = 0
  BY <1>1, NothingOwed
<1>3. wallet["gold"] = 0 /\ ledger["gold"] = 0 /\ lost["gold"] = 0
  BY DEF Init, Currencies
<1> QED BY <1>2, <1>3 DEF GoldExplained

LEMMA NextGold == IInv /\ GoldExplained /\ [Next]_vars => GoldExplained'
<1> SUFFICES ASSUME IInv, GoldExplained, [Next]_vars PROVE GoldExplained'
  OBVIOUS
<1>1. CASE UNCHANGED vars
  BY <1>1 DEF vars, rows, GoldExplained
<1>2. CASE Stop
  BY <1>2, GoldStopped
<1>4. CASE \E c \in Currencies, m \in Moves : Lose(c, -m)
  BY <1>4, GoldLost
<1>3. ASSUME NEW w \in Workers,
             \/ Works(w)
             \/ \E p \in Purchases : Deliver(w, p)
             \/ \E p \in Purchases : DeliverAgain(w, p)
             \/ \E c \in Currencies, m \in Moves : Bet(w, c, m)
             \/ Register(w)
             \/ \E a \in AdminAmounts : AdminReads(w, a)
             \/ Fail(w)
      PROVE  GoldExplained'
  <2>1. CASE Works(w)
    BY <2>1, GoldStays, GoldCommitted, GoldSet, GoldRecorded DEF Works
  <2>2. CASE Fail(w)
    BY <2>2, GoldFailed
  <2>3. CASE ~Works(w) /\ ~Fail(w)
    BY <1>3, <2>3, GoldStays
  <2> QED BY <2>1, <2>2, <2>3
<1> QED BY <1>1, <1>2, <1>3, <1>4 DEF Next

\* The gold coins are the sum of their transactions, those of lost bets left
\* out, once no balance is being set, unless one was set over a change or left
\* without its transaction: for any number of administrators and workers at
\* once.
THEOREM GoldLedgerIsExplained == Spec => []GoldLedgerExplained
<1>1. IInv /\ GoldExplained => GoldLedgerExplained
  <2> SUFFICES ASSUME IInv, GoldExplained, harm = {},
                      \A w \in Workers : ~At(w, "records")
               PROVE  wallet["gold"] = ledger["gold"] + lost["gold"]
    BY DEF GoldLedgerExplained
  <2>1. AllOwed(worker) = 0
    BY NothingOwed DEF At, IInv, TypeOK
  <2>2. wallet["gold"] \in Int /\ ledger["gold"] \in Int /\ lost["gold"] \in Int
    BY DEF IInv, TypeOK, Currencies
  <2> QED BY <2>1, <2>2 DEF GoldExplained
<1> QED BY <1>1, Invariance, InitGold, NextGold, PTL DEF Spec
=============================================================================
