-------------------------- MODULE RoundAdminProofs --------------------------
(***************************************************************************)
(* Proofs about RoundAdmin: when a stake is given back once, when none is  *)
(* lost, when a cancelled round has no active bet and when totals match    *)
(* bets, for any bets and options and any number of requests.              *)
(***************************************************************************)
EXTENDS RoundAdmin, FiniteSetTheorems, TLAPS

\* What the request of the administrator still has to do, and has done.
AdminAgrees ==
  /\ admin.at # "cancelling" => admin.refunded = {} /\ admin.saved = {}
  /\ admin.between \subseteq admin.refunded
  /\ \A o \in admin.create : option[o] # "there"
  /\ admin.at = "cancelling" => There = admin.save \cup admin.saved

\* What it has read, and what became of it.
ReadAgrees ==
  /\ \A b \in Bets : admin.bets[b].status = "none" => admin.bets[b] = NoBet
  /\ \A b \in Bets : admin.bets[b].status # "none" =>
       bet[b].status # "none" /\ bet[b].option = admin.bets[b].option
  /\ \A b \in Bets :
       admin.bets[b].status \in {"cancelled", "gone"} => bet[b].status # "active"
  /\ \A b \in admin.refunded : admin.bets[b].status = "active"
  /\ \A o \in admin.saved :
       /\ ToRefund(o) \subseteq admin.refunded
       /\ \A b \in Bets : bet[b].option = o => admin.bets[b].option = o

\* The bets, and what their users have asked for.
BetsAgree ==
  /\ \A b \in Bets : bet[b].status = "none" => bet[b] = NoBet
  /\ \A b \in Bets : bet[b].status # "none" => bet[b].option \in Options
  /\ \A b \in Bets : asked[b][1] = "place" => bet[b] = NoBet
  /\ \A b \in Bets : asked[b][1] = "cancel" =>
       bet[b].status # "none" /\ asked[b][2] = bet[b].option

\* The refunds: those of a cancellation that goes on come before the status.
RefundsAgree ==
  /\ "stale refund" \in harm => "stale total" \in harm
  /\ \A b \in admin.refunded : refunds[b] > 0
  /\ "stale refund" \notin harm => \A b \in admin.refunded : bet[b].status = "active"
  /\ harm \cap {"refund kept", "stale refund"} = {} =>
       \A b \in Bets :
         /\ refunds[b] <= 1
         /\ bet[b].status \in {"none", "active"} /\ b \notin admin.refunded =>
              refunds[b] = 0

IInv ==
  /\ TypeOK /\ AdminAgrees /\ ReadAgrees /\ BetsAgree /\ RefundsAgree
  /\ NoStakeLost /\ CancelledRoundIsSettled /\ TotalsMatchBets

----------------------------------------------------------------------------
LEMMA NothingReadType ==
  /\ NothingRead \in Table /\ NothingCounted \in [Options -> Int]
  /\ \A b \in Bets : NothingRead[b] = NoBet
<1>1. NoBet \in [status : {"none", "active", "cancelled", "gone"},
                 option : Options \cup {NoOption}]
  BY DEF NoBet
<1> QED BY <1>1 DEF Table, NothingRead, NothingCounted

LEMMA RestingType ==
  /\ Resting \in Work /\ Resting.at = "rest"
  /\ Resting.create = {} /\ Resting.save = {} /\ Resting.remove = {}
  /\ Resting.refunded = {} /\ Resting.between = {} /\ Resting.saved = {}
  /\ \A b \in Bets : Resting.bets[b] = NoBet
BY NothingReadType DEF Resting, Asking, Request, Work, Steps

LEMMA InitInvariant == Init => IInv
<1> SUFFICES ASSUME Init PROVE IInv
  OBVIOUS
<1>1. \A b \in Bets : bet[b] = NoBet /\ asked[b] = Nothing /\ refunds[b] = 0
  BY DEF Init
<1>2. There = {} /\ harm = {} /\ round = "none" /\ admin = Resting
  BY DEF Init, There
<1>3. TypeOK
  <2>1. bet \in Table
    BY DEF Init, Table, NoBet
  <2>2. asked \in [Bets -> {"nothing", "place", "cancel"} \X (Options \cup {NoOption})]
    BY DEF Init, Nothing
  <2>3. \A b \in Bets : bet[b].status # "active"
    BY <1>1 DEF NoBet
  <2> QED BY <1>2, <2>1, <2>2, <2>3, RestingType DEF Init, TypeOK
<1>4. AdminAgrees
  BY <1>2, RestingType DEF AdminAgrees
<1>9. ReadAgrees
  <2>1. \A b \in Bets : admin.bets[b] = NoBet /\ NoBet.status = "none"
    BY <1>2, RestingType DEF NoBet
  <2> QED BY <1>2, <2>1, RestingType DEF ReadAgrees
<1>5. BetsAgree
  BY <1>1 DEF BetsAgree, NoBet, Nothing
<1>6. RefundsAgree
  BY <1>1, <1>2, RestingType DEF RefundsAgree
<1>7. NoStakeLost
  <2>1. \A b \in Bets : bet[b].status = "none"
    BY <1>1 DEF NoBet
  <2> QED BY <2>1 DEF NoStakeLost
<1>8. CancelledRoundIsSettled /\ TotalsMatchBets
  BY <1>2 DEF CancelledRoundIsSettled, TotalsMatchBets
<1> QED BY <1>3, <1>4, <1>5, <1>6, <1>7, <1>8, <1>9 DEF IInv

----------------------------------------------------------------------------
(***************************************************************************)
(* Steps of the administrator that leave bets, options and totals alone.   *)
(***************************************************************************)
\* What speaks of the tables alone.
LEMMA TablesStay ==
  ASSUME IInv, UNCHANGED <<option, total, bet, refunds, asked>>,
         round' = round \/ round' \in {"none", "created", "open"},
         harm \subseteq harm'
  PROVE  BetsAgree' /\ NoStakeLost' /\ CancelledRoundIsSettled' /\ TotalsMatchBets'
<1>1. There' = There /\ Active' = Active /\ \A o \in Options : ActiveOn(o)' = ActiveOn(o)
  BY DEF There, Active, ActiveOn
<1>2. BetsAgree'
  BY DEF IInv, BetsAgree
<1>3. NoStakeLost'
  BY DEF IInv, NoStakeLost
<1>4. CancelledRoundIsSettled'
  BY <1>1 DEF IInv, CancelledRoundIsSettled
<1>5. TotalsMatchBets'
  BY <1>1 DEF IInv, TotalsMatchBets, There
<1> QED BY <1>2, <1>3, <1>4, <1>5

\* A step to a request, or from a request, that refunds nothing.
LEMMA AdminMoves ==
  ASSUME IInv, UNCHANGED <<option, total, bet, refunds, asked>>,
         round' = round \/ round' \in {"none", "created", "open"},
         admin' \in Work, admin'.at # "cancelling",
         admin'.refunded = {}, admin'.between = {}, admin'.saved = {},
         \A o \in admin'.create : option[o] # "there",
         \/ admin'.bets = admin.bets
         \/ \A b \in Bets : admin'.bets[b] = NoBet,
         \/ harm' = harm /\ admin.refunded = {}
         \/ harm' = harm \cup {"refund kept"}
  PROVE  IInv'
<1>1. harm \subseteq harm' /\ harm' \subseteq Harms
  BY DEF IInv, TypeOK, Harms
<1>2. TypeOK'
  BY <1>1 DEF IInv, TypeOK
<1>3. AdminAgrees'
  BY DEF AdminAgrees
<1>4. ReadAgrees'
  <2>1. CASE admin'.bets = admin.bets
    BY <2>1 DEF IInv, ReadAgrees
  <2>2. CASE \A b \in Bets : admin'.bets[b] = NoBet
    <3>1. NoBet.status = "none"
      BY DEF NoBet
    <3> QED BY <2>2, <3>1 DEF ReadAgrees
  <2> QED BY <2>1, <2>2
<1>5. RefundsAgree'
  BY DEF IInv, RefundsAgree
<1> QED BY <1>1, <1>2, <1>3, <1>4, <1>5, TablesStay DEF IInv

LEMMA OpenInvariant == IInv /\ Open => IInv'
<1> SUFFICES ASSUME IInv, Open PROVE IInv'
  OBVIOUS
<1>1. /\ UNCHANGED <<option, total, bet, refunds, asked, admin, harm>>
      /\ round' = "open" /\ admin.at = "rest"
  BY DEF Open, At
<1>2. /\ admin' \in Work /\ admin'.at # "cancelling" /\ admin.refunded = {}
      /\ admin'.refunded = {} /\ admin'.between = {} /\ admin'.saved = {}
      /\ \A o \in admin'.create : option[o] # "there"
  BY <1>1 DEF IInv, TypeOK, AdminAgrees
<1> QED BY <1>1, <1>2, AdminMoves

LEMMA AsksInvariant ==
  ASSUME IInv, admin.at \in {"rest", "fetching", "creating", "editing"},
         UNCHANGED <<option, total, bet, refunds, asked, harm>>,
         round' = round \/ round' = "created",
         NEW step \in Steps \ {"cancelling"}, NEW create \in SUBSET Options,
         NEW save \in SUBSET Options, NEW remove \in SUBSET Options,
         \A o \in create : option[o] # "there",
         admin' = Asking(step, create, save, remove)
  PROVE  IInv'
<1>1. /\ admin' \in Work /\ admin'.at = step /\ admin'.create = create
      /\ admin'.refunded = {} /\ admin'.between = {} /\ admin'.saved = {}
      /\ \A b \in Bets : admin'.bets[b] = NoBet
  BY NothingReadType DEF Asking, Request, Work
<1>2. admin.refunded = {}
  BY DEF IInv, AdminAgrees
<1> QED BY <1>1, <1>2, AdminMoves

\* The steps with which a request begins, and its answer.
LEMMA CreateInvariant ==
  ASSUME IInv, NEW os \in SUBSET Options, Create(os)
  PROVE  IInv'
<1>1. /\ UNCHANGED <<option, total, bet, refunds, asked, harm>>
      /\ round' = "created" /\ admin.at = "rest"
      /\ \A o \in os : option[o] = "new"
      /\ admin' = Asking("creating", os, {}, {})
  BY DEF Create, At
<1>2. "creating" \in Steps \ {"cancelling"} /\ {} \in SUBSET Options
  BY DEF Steps
<1>3. \A o \in os : option[o] # "there"
  BY <1>1
<1> QED BY <1>1, <1>2, <1>3, AsksInvariant

LEMMA EditInvariant ==
  ASSUME IInv, NEW keep \in SUBSET Options, NEW add \in SUBSET Options,
         Edit(keep, add)
  PROVE  IInv'
<1>1. /\ UNCHANGED <<round, option, total, bet, refunds, asked, harm>>
      /\ admin.at = "rest" /\ \A o \in add : option[o] = "new"
      /\ admin' = Asking("fetching", add, keep, {})
  BY DEF Edit, Sends, At, tables
<1>2. "fetching" \in Steps \ {"cancelling"} /\ {} \in SUBSET Options
  BY DEF Steps
<1>3. \A o \in add : option[o] # "there"
  BY <1>1
<1> QED BY <1>1, <1>2, <1>3, AsksInvariant

LEMMA DropInvariant == IInv /\ Drop => IInv'
<1> SUFFICES ASSUME IInv, Drop PROVE IInv'
  OBVIOUS
<1>1. /\ UNCHANGED <<round, option, total, bet, refunds, asked, harm>>
      /\ admin.at = "rest" /\ admin' = Asking("dropping", {}, {}, There)
  BY DEF Drop, Sends, At, tables
<1>2. /\ "dropping" \in Steps \ {"cancelling"} /\ {} \in SUBSET Options
      /\ There \in SUBSET Options
  BY DEF Steps, There
<1> QED BY <1>1, <1>2, AsksInvariant

LEMMA DoneInvariant == IInv /\ Done => IInv'
<1> SUFFICES ASSUME IInv, Done PROVE IInv'
  OBVIOUS
<1>1. /\ UNCHANGED <<round, option, total, bet, refunds, asked, harm>>
      /\ admin.at \in {"creating", "editing"}
      /\ admin' = Asking("rest", {}, {}, {})
  BY DEF Done, At, tables, Resting
<1>2. "rest" \in Steps \ {"cancelling"} /\ {} \in SUBSET Options
  BY DEF Steps
<1> QED BY <1>1, <1>2, AsksInvariant

LEMMA FetchInvariant == IInv /\ Fetch => IInv'
<1> SUFFICES ASSUME IInv, Fetch PROVE IInv'
  OBVIOUS
<1>1. /\ UNCHANGED <<round, option, total, bet, refunds, asked, harm>>
      /\ admin.at = "fetching"
      /\ admin' = Request("editing", admin.create, admin.save,
                          There \ admin.save, NothingRead, total)
  BY DEF Fetch, At, tables
<1>2. /\ "editing" \in Steps /\ admin.create \in SUBSET Options
      /\ admin.save \in SUBSET Options /\ There \ admin.save \in SUBSET Options
      /\ total \in [Options -> Int]
  BY DEF Steps, There, IInv, TypeOK, Work
<1>4. /\ admin' \in Work /\ admin'.at = "editing" /\ admin'.create = admin.create
      /\ admin'.refunded = {} /\ admin'.between = {} /\ admin'.saved = {}
      /\ admin'.bets = NothingRead
  BY <1>1, <1>2, NothingReadType DEF Request, Work
<1>5. admin.refunded = {} /\ \A o \in admin.create : option[o] # "there"
  BY <1>1 DEF IInv, AdminAgrees
<1> QED BY <1>1, <1>4, <1>5, NothingReadType, AdminMoves

\* A request that fails keeps nothing but its refunds.
LEMMA RolledBackInvariant == IInv /\ RolledBack => IInv'
<1> SUFFICES ASSUME IInv, RolledBack PROVE IInv'
  OBVIOUS
<1>1. /\ UNCHANGED <<round, option, total, bet, refunds, asked>>
      /\ admin' = Resting
      /\ harm' = IF admin.refunded = {} THEN harm ELSE harm \cup {"refund kept"}
  BY DEF RolledBack, tables
<1>2. \/ harm' = harm /\ admin.refunded = {}
      \/ harm' = harm \cup {"refund kept"}
  BY <1>1
<1>3. /\ admin' \in Work /\ admin'.at # "cancelling" /\ admin'.create = {}
      /\ admin'.refunded = {} /\ admin'.between = {} /\ admin'.saved = {}
      /\ \A b \in Bets : admin'.bets[b] = NoBet
  BY <1>1, RestingType
<1> QED BY <1>1, <1>2, <1>3, AdminMoves

----------------------------------------------------------------------------
(***************************************************************************)
(* The deletion of options, with the bets that refer to them.              *)
(***************************************************************************)
LEMMA BetsDeleted ==
  ASSUME IInv, NEW os \in SUBSET Options, Deleting(os)
  PROVE  /\ bet' \in Table /\ option' \in [Options -> {"new", "there", "deleted"}]
         /\ \A b \in Bets :
              IF bet[b].option \in os
                THEN bet'[b].status = "gone" /\ bet'[b].option = bet[b].option
                ELSE bet'[b] = bet[b]
         /\ \A o \in Options :
              option'[o] = IF o \in os THEN "deleted" ELSE option[o]
         /\ harm' = harm \/ harm' = harm \cup {"stake deleted"}
         /\ \A b \in Bets : bet[b].status = "active" /\ bet[b].option \in os =>
              "stake deleted" \in harm'
<1>1. \A b \in Bets : bet[b] \in [status : {"none", "active", "cancelled", "gone"},
                                  option : Options \cup {NoOption}]
  BY DEF IInv, TypeOK, Table
<1>2. bet' = [b \in Bets |-> IF bet[b].option \in os
                               THEN [bet[b] EXCEPT !.status = "gone"] ELSE bet[b]]
  BY DEF Deleting
<1>3. bet' \in Table
  BY <1>1, <1>2 DEF Table
<1>4. \A b \in Bets :
        IF bet[b].option \in os
          THEN bet'[b].status = "gone" /\ bet'[b].option = bet[b].option
          ELSE bet'[b] = bet[b]
  BY <1>1, <1>2
<1>5. option' \in [Options -> {"new", "there", "deleted"}]
  BY DEF Deleting, IInv, TypeOK
<1>6. \A o \in Options : option'[o] = IF o \in os THEN "deleted" ELSE option[o]
  BY DEF Deleting
<1>7. harm' = IF \E o \in os : ActiveOn(o) # {}
                THEN harm \cup {"stake deleted"} ELSE harm
  BY DEF Deleting
<1>8. ASSUME NEW b \in Bets, bet[b].status = "active", bet[b].option \in os
      PROVE  "stake deleted" \in harm'
  <2>1. b \in ActiveOn(bet[b].option)
    BY <1>8 DEF ActiveOn
  <2> QED BY <1>7, <1>8, <2>1
<1> QED BY <1>3, <1>4, <1>5, <1>6, <1>7, <1>8

LEMMA DeletingInvariant ==
  ASSUME IInv, NEW os \in SUBSET Options, Deleting(os),
         UNCHANGED <<total, refunds, asked>>,
         round' = round \/ round' = "none", admin.at # "cancelling",
         admin' \in Work, admin'.at # "cancelling",
         admin'.refunded = {}, admin'.between = {}, admin'.saved = {},
         admin'.create \subseteq admin.create,
         \/ admin'.bets = admin.bets
         \/ \A b \in Bets : admin'.bets[b] = NoBet
  PROVE  IInv'
<1>1. /\ bet' \in Table /\ option' \in [Options -> {"new", "there", "deleted"}]
      /\ \A b \in Bets :
           IF bet[b].option \in os
             THEN bet'[b].status = "gone" /\ bet'[b].option = bet[b].option
             ELSE bet'[b] = bet[b]
      /\ \A o \in Options : option'[o] = IF o \in os THEN "deleted" ELSE option[o]
      /\ harm' = harm \/ harm' = harm \cup {"stake deleted"}
      /\ \A b \in Bets : bet[b].status = "active" /\ bet[b].option \in os =>
           "stake deleted" \in harm'
  BY BetsDeleted
<1>2. \A b \in Bets : bet[b].option \in os => bet[b].status # "none"
  <2>1. NoBet.option \notin os
    BY OptionsAssumption DEF NoBet
  <2> QED BY <2>1 DEF IInv, BetsAgree
<1>3. harm' \subseteq Harms
  BY <1>1 DEF IInv, TypeOK, Harms
<1>4. \A b \in Bets : bet'[b].status = "active" => bet[b].status = "active" /\
                        bet'[b] = bet[b] /\ bet[b].option \notin os
  BY <1>1
<1>13. \A b \in Bets :
         /\ bet'[b].option = bet[b].option
         /\ bet'[b].status # "gone" => bet'[b] = bet[b]
         /\ bet[b].status = "none" => bet'[b] = bet[b]
  BY <1>1, <1>2
<1>5. TypeOK'
  <2>1. ASSUME NEW b \in Bets, bet'[b].status = "active"
        PROVE  option'[bet'[b].option] = "there"
    <3>1. bet[b].option \in Options /\ option[bet[b].option] = "there"
      BY <1>4, <2>1 DEF IInv, BetsAgree, TypeOK
    <3> QED BY <1>1, <1>4, <2>1, <3>1
  <2>2. round' \in {"none", "created", "open", "cancelled"}
    BY DEF IInv, TypeOK
  <2> QED BY <1>1, <1>3, <2>1, <2>2 DEF IInv, TypeOK
<1>6. AdminAgrees'
  <2>1. \A o \in admin'.create : option'[o] # "there"
    <3>1. \A o \in admin.create : o \in Options /\ option[o] # "there"
      BY DEF IInv, AdminAgrees, TypeOK, Work
    <3> QED BY <1>1, <3>1
  <2> QED BY <2>1 DEF AdminAgrees
<1>7. ReadAgrees'
  <2>1. CASE admin'.bets = admin.bets
    <3>1. \A b \in Bets : admin.bets[b].status = "none" => admin.bets[b] = NoBet
      BY DEF IInv, ReadAgrees
    <3>2. \A b \in Bets : admin.bets[b].status # "none" =>
            bet'[b].status # "none" /\ bet'[b].option = admin.bets[b].option
      BY <1>13 DEF IInv, ReadAgrees
    <3>3. \A b \in Bets :
            admin.bets[b].status \in {"cancelled", "gone"} => bet'[b].status # "active"
      BY <1>4 DEF IInv, ReadAgrees
    <3> QED BY <2>1, <3>1, <3>2, <3>3 DEF ReadAgrees
  <2>2. CASE \A b \in Bets : admin'.bets[b] = NoBet
    BY <2>2 DEF ReadAgrees, NoBet
  <2> QED BY <2>1, <2>2
<1>8. BetsAgree'
  <2>1. /\ \A b \in Bets : bet[b].status = "none" => bet[b] = NoBet
        /\ \A b \in Bets : bet[b].status # "none" => bet[b].option \in Options
        /\ \A b \in Bets : asked[b][1] = "place" => bet[b] = NoBet
        /\ \A b \in Bets : asked[b][1] = "cancel" =>
             bet[b].status # "none" /\ asked[b][2] = bet[b].option
    BY DEF IInv, BetsAgree
  <2>2. \A b \in Bets : bet'[b].status = "none" => bet[b].status = "none"
    BY <1>1
  <2>3. NoBet.status = "none"
    BY DEF NoBet
  <2>4. \A b \in Bets : bet[b] = NoBet => bet'[b] = NoBet
    BY <1>13, <2>3
  <2>5. \A b \in Bets : bet'[b].status = "none" => bet'[b] = NoBet
    BY <2>1, <2>2, <2>4
  <2>6. \A b \in Bets : bet'[b].status # "none" => bet[b].status # "none"
    BY <2>1, <2>3, <2>4
  <2>7. \A b \in Bets : bet'[b].status # "none" => bet'[b].option \in Options
    BY <1>13, <2>1, <2>6
  <2>8. \A b \in Bets : asked[b][1] = "cancel" =>
          bet'[b].status # "none" /\ asked[b][2] = bet'[b].option
    BY <1>13, <2>1, <2>2
  <2> QED BY <2>1, <2>4, <2>5, <2>7, <2>8 DEF BetsAgree
<1>9. RefundsAgree'
  <2>1. \A b \in Bets : bet'[b].status \in {"none", "active"} =>
          bet[b].status \in {"none", "active"}
    BY <1>1
  <2>2. admin.refunded = {}
    BY DEF IInv, AdminAgrees
  <2> QED BY <1>1, <2>1, <2>2 DEF IInv, RefundsAgree
<1>10. NoStakeLost'
  <2> SUFFICES ASSUME NEW b \in Bets
               PROVE  /\ bet'[b].status = "cancelled" => refunds'[b] > 0
                      /\ bet'[b].status = "gone" =>
                           refunds'[b] > 0 \/ "stake deleted" \in harm'
    BY DEF NoStakeLost
  <2>1. bet[b].status \in {"none", "active", "cancelled", "gone"}
    BY DEF IInv, TypeOK, Table
  <2>2. CASE bet[b].option \in os
    BY <1>1, <1>2, <2>1, <2>2 DEF IInv, NoStakeLost
  <2>3. CASE bet[b].option \notin os
    BY <1>1, <2>3 DEF IInv, NoStakeLost
  <2> QED BY <2>2, <2>3
<1>11. CancelledRoundIsSettled'
  <2>1. Active' \subseteq Active
    <3>1. \A o \in Options : ActiveOn(o)' \subseteq ActiveOn(o)
      BY <1>4 DEF ActiveOn
    <3> QED BY <3>1 DEF Active
  <2> QED BY <1>1, <2>1 DEF IInv, CancelledRoundIsSettled
<1>12. TotalsMatchBets'
  <2>1. \A o \in There' : o \in There /\ o \notin os
    BY <1>1 DEF There
  <2>2. \A o \in There' : ActiveOn(o)' = ActiveOn(o)
    BY <1>1, <2>1 DEF ActiveOn
  <2> QED BY <1>1, <2>1, <2>2 DEF IInv, TotalsMatchBets
<1> QED BY <1>5, <1>6, <1>7, <1>8, <1>9, <1>10, <1>11, <1>12 DEF IInv

LEMMA RemoveInvariant ==
  ASSUME IInv, NEW o \in Options, Remove(o)
  PROVE  IInv'
<1>1. /\ Deleting({o}) /\ UNCHANGED <<round, total, refunds, asked>>
      /\ admin.at = "editing" /\ admin' = [admin EXCEPT !.remove = @ \ {o}]
  BY DEF Remove, At
<1>2. admin \in Work
  BY DEF IInv, TypeOK
<1>3. /\ admin' \in Work /\ admin'.at = "editing" /\ admin'.create = admin.create
      /\ admin'.bets = admin.bets /\ admin'.refunded = admin.refunded
      /\ admin'.between = admin.between /\ admin'.saved = admin.saved
  BY <1>1, <1>2 DEF Work
<1>4. admin.refunded = {} /\ admin.saved = {} /\ admin.between = {}
  BY <1>1 DEF IInv, AdminAgrees
<1>5. {o} \in SUBSET Options
  OBVIOUS
<1> QED BY <1>1, <1>3, <1>4, <1>5, DeletingInvariant

LEMMA DropOptionsInvariant == IInv /\ DropOptions => IInv'
<1> SUFFICES ASSUME IInv, DropOptions PROVE IInv'
  OBVIOUS
<1>1. /\ Deleting(admin.remove) /\ UNCHANGED <<round, total, refunds, asked>>
      /\ admin.at = "dropping" /\ admin' = [admin EXCEPT !.at = "dropped"]
  BY DEF DropOptions, At
<1>2. admin \in Work
  BY DEF IInv, TypeOK
<1>3. /\ admin' \in Work /\ admin'.at = "dropped" /\ admin'.create = admin.create
      /\ admin'.bets = admin.bets /\ admin'.refunded = admin.refunded
      /\ admin'.between = admin.between /\ admin'.saved = admin.saved
  BY <1>1, <1>2 DEF Work, Steps
<1>4. admin.refunded = {} /\ admin.saved = {} /\ admin.between = {}
  BY <1>1 DEF IInv, AdminAgrees
<1>5. admin.remove \in SUBSET Options
  BY <1>2 DEF Work
<1> QED BY <1>1, <1>3, <1>4, <1>5, DeletingInvariant

LEMMA DropRoundInvariant == IInv /\ DropRound => IInv'
<1> SUFFICES ASSUME IInv, DropRound PROVE IInv'
  OBVIOUS
<1>1. /\ Deleting(There) /\ UNCHANGED <<total, refunds, asked>>
      /\ round' = "none" /\ admin.at = "dropped" /\ admin' = Resting
  BY DEF DropRound, At
<1>2. There \in SUBSET Options
  BY DEF There
<1>3. /\ admin' \in Work /\ admin'.at = "rest" /\ admin'.create = {}
      /\ admin'.refunded = {} /\ admin'.between = {} /\ admin'.saved = {}
      /\ \A b \in Bets : admin'.bets[b] = NoBet
  BY <1>1, RestingType
<1> QED BY <1>1, <1>2, <1>3, DeletingInvariant

----------------------------------------------------------------------------
(***************************************************************************)
(* What users ask for, and the commits of their requests.                  *)
(***************************************************************************)
LEMMA AskedInvariant ==
  ASSUME IInv, UNCHANGED <<tables, admin, harm>>,
         asked' \in [Bets -> {"nothing", "place", "cancel"} \X (Options \cup {NoOption})],
         \A b \in Bets : asked'[b][1] = "place" => bet[b] = NoBet,
         \A b \in Bets : asked'[b][1] = "cancel" =>
           bet[b].status # "none" /\ asked'[b][2] = bet[b].option
  PROVE  IInv'
<1>1. UNCHANGED <<round, option, total, bet, refunds, admin, harm>>
  BY DEF tables
<1>2. There' = There /\ Active' = Active /\ \A o \in Options : ActiveOn(o)' = ActiveOn(o)
  BY <1>1 DEF There, Active, ActiveOn
<1>3. \A o \in Options : ToRefund(o)' = ToRefund(o)
  BY <1>1 DEF ToRefund
<1>4. TypeOK'
  BY <1>1 DEF IInv, TypeOK
<1>5. AdminAgrees'
  BY <1>1, <1>2 DEF IInv, AdminAgrees
<1>6. ReadAgrees'
  BY <1>1, <1>3 DEF IInv, ReadAgrees, ToRefund
<1>7. BetsAgree'
  BY <1>1 DEF IInv, BetsAgree
<1>8. RefundsAgree' /\ NoStakeLost'
  BY <1>1 DEF IInv, RefundsAgree, NoStakeLost
<1>9. CancelledRoundIsSettled' /\ TotalsMatchBets'
  BY <1>1, <1>2 DEF IInv, CancelledRoundIsSettled, TotalsMatchBets, There
<1> QED BY <1>4, <1>5, <1>6, <1>7, <1>8, <1>9 DEF IInv

LEMMA PlaceInvariant ==
  ASSUME IInv, NEW b \in Bets, NEW o \in Options, Place(b, o)
  PROVE  IInv'
<1>1. /\ UNCHANGED <<tables, admin, harm>> /\ bet[b] = NoBet
      /\ asked' = [asked EXCEPT ![b] = <<"place", o>>]
  BY DEF Place
<1>2. asked \in [Bets -> {"nothing", "place", "cancel"} \X (Options \cup {NoOption})]
  BY DEF IInv, TypeOK
<1>3. asked' \in [Bets -> {"nothing", "place", "cancel"} \X (Options \cup {NoOption})]
  BY <1>1, <1>2
<1>4. \A c \in Bets : asked'[c] = IF c = b THEN <<"place", o>> ELSE asked[c]
  BY <1>1, <1>2
<1>5. /\ \A c \in Bets : asked'[c][1] = "place" => bet[c] = NoBet
      /\ \A c \in Bets : asked'[c][1] = "cancel" =>
           bet[c].status # "none" /\ asked'[c][2] = bet[c].option
  BY <1>1, <1>4 DEF IInv, BetsAgree
<1> QED BY <1>1, <1>3, <1>5, AskedInvariant

LEMMA CancelInvariant ==
  ASSUME IInv, NEW b \in Bets, Cancel(b)
  PROVE  IInv'
<1>1. /\ UNCHANGED <<tables, admin, harm>> /\ bet[b].status = "active"
      /\ asked' = [asked EXCEPT ![b] = <<"cancel", bet[b].option>>]
  BY DEF Cancel
<1>2. asked \in [Bets -> {"nothing", "place", "cancel"} \X (Options \cup {NoOption})]
  BY DEF IInv, TypeOK
<1>6. bet[b].option \in Options
  BY <1>1 DEF IInv, BetsAgree
<1>3. asked' \in [Bets -> {"nothing", "place", "cancel"} \X (Options \cup {NoOption})]
  BY <1>1, <1>2, <1>6
<1>4. \A c \in Bets :
        asked'[c] = IF c = b THEN <<"cancel", bet[b].option>> ELSE asked[c]
  BY <1>1, <1>2
<1>5. /\ \A c \in Bets : asked'[c][1] = "place" => bet[c] = NoBet
      /\ \A c \in Bets : asked'[c][1] = "cancel" =>
           bet[c].status # "none" /\ asked'[c][2] = bet[c].option
  BY <1>1, <1>4 DEF IInv, BetsAgree
<1> QED BY <1>1, <1>3, <1>5, AskedInvariant

LEMMA NothingType ==
  /\ Nothing \in {"nothing", "place", "cancel"} \X (Options \cup {NoOption})
  /\ Nothing[1] = "nothing"
BY DEF Nothing

LEMMA RefusedInvariant ==
  ASSUME IInv, NEW b \in Bets, Refused(b)
  PROVE  IInv'
<1>1. /\ UNCHANGED <<tables, admin, harm>>
      /\ asked' = [asked EXCEPT ![b] = Nothing]
  BY DEF Refused
<1>2. asked \in [Bets -> {"nothing", "place", "cancel"} \X (Options \cup {NoOption})]
  BY DEF IInv, TypeOK
<1>3. asked' \in [Bets -> {"nothing", "place", "cancel"} \X (Options \cup {NoOption})]
  BY <1>1, <1>2, NothingType
<1>4. \A c \in Bets : asked'[c] = IF c = b THEN Nothing ELSE asked[c]
  BY <1>1, <1>2
<1>5. /\ \A c \in Bets : asked'[c][1] = "place" => bet[c] = NoBet
      /\ \A c \in Bets : asked'[c][1] = "cancel" =>
           bet[c].status # "none" /\ asked'[c][2] = bet[c].option
  BY <1>4, NothingType DEF IInv, BetsAgree
<1> QED BY <1>1, <1>3, <1>5, AskedInvariant

\* A bet is placed: there was none, and its option was not saved.
LEMMA PlaceCommitsInvariant ==
  ASSUME IInv, NEW b \in Bets, PlaceCommits(b)
  PROVE  IInv'
<1> DEFINE o == asked[b][2]
<1> DEFINE placed == [status |-> "active", option |-> o]
<1>1. /\ asked[b][1] = "place" /\ o \in There /\ o \notin admin.saved
      /\ bet' = [bet EXCEPT ![b] = placed]
      /\ total' = [total EXCEPT ![o] = @ + 1]
      /\ harm' = IF round = "cancelled" THEN harm \cup {"late bet"} ELSE harm
      /\ asked' = [asked EXCEPT ![b] = Nothing]
      /\ UNCHANGED <<round, option, refunds, admin>>
  BY DEF PlaceCommits, Locked
<1>2. /\ o \in Options /\ option[o] = "there"
      /\ bet \in Table /\ total \in [Options -> Int]
      /\ asked \in [Bets -> {"nothing", "place", "cancel"} \X (Options \cup {NoOption})]
  BY <1>1 DEF There, IInv, TypeOK
<1>3. bet[b] = NoBet /\ bet[b].status = "none"
  <2>1. bet[b] = NoBet
    BY <1>1 DEF IInv, BetsAgree
  <2> QED BY <2>1 DEF NoBet
<1>8. placed.status = "active" /\ placed.option = o
  OBVIOUS
<1>4. placed \in [status : {"none", "active", "cancelled", "gone"},
                  option : Options \cup {NoOption}]
  BY <1>2
<1> HIDE DEF o, placed
<1>5. /\ bet' \in Table
      /\ \A c \in Bets : bet'[c] = IF c = b THEN placed ELSE bet[c]
  BY <1>1, <1>2, <1>4 DEF Table
<1>6. /\ asked' \in [Bets -> {"nothing", "place", "cancel"} \X (Options \cup {NoOption})]
      /\ \A c \in Bets : asked'[c] = IF c = b THEN Nothing ELSE asked[c]
  BY <1>1, <1>2, NothingType
<1>7. /\ total' \in [Options -> Int]
      /\ \A p \in Options : total'[p] = IF p = o THEN total[o] + 1 ELSE total[p]
  <2>1. total[o] \in Int
    BY <1>2
  <2>2. total[o] + 1 \in Int
    BY <2>1
  <2>3. total' = [total EXCEPT ![o] = total[o] + 1]
    BY <1>1
  <2> QED BY <1>2, <2>2, <2>3
<1>9. harm \subseteq harm' /\ harm' \subseteq harm \cup {"late bet"} /\ harm' \subseteq Harms
  BY <1>1 DEF IInv, TypeOK, Harms
<1>10. admin.bets[b].status = "none" /\ b \notin admin.refunded
  BY <1>3 DEF IInv, ReadAgrees
<1>11. TypeOK'
  <2>1. \A c \in Bets : bet'[c].status = "active" => option[bet'[c].option] = "there"
    BY <1>2, <1>5, <1>8 DEF IInv, TypeOK
  <2> QED BY <1>1, <1>5, <1>6, <1>7, <1>9, <2>1 DEF IInv, TypeOK
<1>12. There' = There /\ \A p \in Options : ToRefund(p)' = ToRefund(p)
  BY <1>1 DEF There, ToRefund
<1>13. AdminAgrees'
  BY <1>1, <1>12 DEF IInv, AdminAgrees
<1>14. ReadAgrees'
  <2>1. \A c \in Bets : admin.bets[c].status = "none" => admin.bets[c] = NoBet
    BY DEF IInv, ReadAgrees
  <2>2. \A c \in Bets : admin.bets[c].status # "none" =>
          bet'[c].status # "none" /\ bet'[c].option = admin.bets[c].option
    BY <1>5, <1>10 DEF IInv, ReadAgrees
  <2>3. \A c \in Bets :
          admin.bets[c].status \in {"cancelled", "gone"} => bet'[c].status # "active"
    BY <1>5, <1>10 DEF IInv, ReadAgrees
  <2>4. \A p \in admin.saved : \A c \in Bets :
          bet'[c].option = p => admin.bets[c].option = p
    <3> SUFFICES ASSUME NEW p \in admin.saved, NEW c \in Bets, bet'[c].option = p
                 PROVE  admin.bets[c].option = p
      OBVIOUS
    <3>1. c # b
      BY <1>1, <1>5, <1>8
    <3> QED BY <1>5, <3>1 DEF IInv, ReadAgrees
  <2>5. /\ \A c \in admin.refunded : admin.bets[c].status = "active"
        /\ \A p \in admin.saved : ToRefund(p) \subseteq admin.refunded
    BY DEF IInv, ReadAgrees
  <2> QED BY <1>1, <2>1, <2>2, <2>3, <2>4, <2>5 DEF ReadAgrees, ToRefund
<1>15. BetsAgree'
  BY <1>2, <1>5, <1>6, <1>8, NothingType DEF IInv, BetsAgree
<1>16. RefundsAgree'
  <2>1. \A harmed \in {"stale refund", "stale total", "refund kept"} :
          harmed \in harm' <=> harmed \in harm
    BY <1>9
  <2>2. "stale refund" \in harm' => "stale total" \in harm'
    BY <2>1 DEF IInv, RefundsAgree
  <2>3. \A c \in admin.refunded : refunds[c] > 0
    BY DEF IInv, RefundsAgree
  <2>4. ASSUME "stale refund" \notin harm', NEW c \in admin.refunded
        PROVE  bet'[c].status = "active"
    <3>1. c # b /\ c \in Bets /\ bet[c].status = "active"
      BY <1>10, <2>1, <2>4 DEF IInv, RefundsAgree, TypeOK, Work
    <3> QED BY <1>5, <3>1
  <2>5. ASSUME harm' \cap {"refund kept", "stale refund"} = {}, NEW c \in Bets
        PROVE  /\ refunds[c] <= 1
               /\ bet'[c].status \in {"none", "active"} /\ c \notin admin.refunded =>
                    refunds[c] = 0
    <3>1. harm \cap {"refund kept", "stale refund"} = {}
      BY <1>9, <2>5
    <3>2. /\ refunds[c] <= 1
          /\ bet[c].status \in {"none", "active"} /\ c \notin admin.refunded =>
               refunds[c] = 0
      BY <3>1 DEF IInv, RefundsAgree
    <3> QED BY <1>3, <1>5, <3>2
  <2> QED BY <1>1, <2>2, <2>3, <2>4, <2>5 DEF RefundsAgree
<1>17. NoStakeLost'
  BY <1>1, <1>5, <1>8, <1>9 DEF IInv, NoStakeLost
<1>18. CancelledRoundIsSettled'
  BY <1>1 DEF CancelledRoundIsSettled
<1>19. TotalsMatchBets'
  <2> SUFFICES ASSUME "stale total" \notin harm', NEW p \in There
               PROVE  total'[p] = Cardinality(ActiveOn(p)')
    BY <1>12 DEF TotalsMatchBets
  <2>1. p \in Options /\ total[p] = Cardinality(ActiveOn(p))
    BY <1>9 DEF IInv, TotalsMatchBets, There
  <2>2. CASE p # o
    <3>1. ActiveOn(p)' = ActiveOn(p)
      BY <1>3, <1>5, <1>8, <2>2 DEF ActiveOn
    <3> QED BY <1>7, <2>1, <2>2, <3>1
  <2>3. CASE p = o
    <3>1. ActiveOn(p)' = ActiveOn(p) \cup {b} /\ b \notin ActiveOn(p)
      BY <1>3, <1>5, <1>8, <2>3 DEF ActiveOn
    <3>2. IsFiniteSet(ActiveOn(p))
      BY BetsAssumption, FS_Subset DEF ActiveOn
    <3>3. Cardinality(ActiveOn(p) \cup {b}) = Cardinality(ActiveOn(p)) + 1
      BY <3>1, <3>2, FS_AddElement
    <3> QED BY <1>7, <2>1, <2>3, <3>1, <3>3
  <2> QED BY <2>2, <2>3
<1> QED BY <1>11, <1>13, <1>14, <1>15, <1>16, <1>17, <1>18, <1>19 DEF IInv

\* A bet is cancelled: one that counts, or one that was refunded already.
LEMMA CancelCommitsInvariant ==
  ASSUME IInv, NEW b \in Bets, CancelCommits(b)
  PROVE  IInv'
<1> DEFINE o == asked[b][2]
<1> DEFINE counts == bet[b].status = "active" /\ b \notin admin.between
<1>1. /\ asked[b][1] = "cancel" /\ o \in There /\ o \notin admin.saved
      /\ b \notin admin.refunded \ admin.between
      /\ bet' = [bet EXCEPT ![b].status = "cancelled"]
      /\ total' = [total EXCEPT ![o] = @ - 1]
      /\ refunds' = [refunds EXCEPT ![b] = @ + 1]
      /\ harm' = IF counts THEN harm ELSE harm \cup {"stale refund", "stale total"}
      /\ asked' = [asked EXCEPT ![b] = Nothing]
      /\ UNCHANGED <<round, option, admin>>
  BY DEF CancelCommits, Locked
<1>2. /\ o \in Options /\ option[o] = "there"
      /\ bet \in Table /\ total \in [Options -> Int] /\ refunds \in [Bets -> Nat]
      /\ asked \in [Bets -> {"nothing", "place", "cancel"} \X (Options \cup {NoOption})]
  BY <1>1 DEF There, IInv, TypeOK
<1>3. bet[b].status # "none" /\ bet[b].option = o
  BY <1>1 DEF IInv, BetsAgree
<1>4. counts => b \notin admin.refunded
  BY <1>1
<1> HIDE DEF o
<1>5. /\ bet' \in Table
      /\ \A c \in Bets : c # b => bet'[c] = bet[c]
      /\ bet'[b].status = "cancelled" /\ bet'[b].option = o
  BY <1>1, <1>2, <1>3 DEF Table
<1>6. /\ asked' \in [Bets -> {"nothing", "place", "cancel"} \X (Options \cup {NoOption})]
      /\ \A c \in Bets : asked'[c] = IF c = b THEN Nothing ELSE asked[c]
  BY <1>1, <1>2, NothingType
<1>7. /\ total' \in [Options -> Int]
      /\ \A p \in Options : total'[p] = IF p = o THEN total[o] - 1 ELSE total[p]
  <2>1. total[o] \in Int
    BY <1>2
  <2>2. total[o] - 1 \in Int
    BY <2>1
  <2>3. total' = [total EXCEPT ![o] = total[o] - 1]
    BY <1>1
  <2> QED BY <1>2, <2>2, <2>3
<1>8. /\ refunds' \in [Bets -> Nat]
      /\ \A c \in Bets : refunds'[c] = IF c = b THEN refunds[b] + 1 ELSE refunds[c]
  <2>1. refunds[b] \in Nat
    BY <1>2
  <2>2. refunds[b] + 1 \in Nat
    BY <2>1
  <2>3. refunds' = [refunds EXCEPT ![b] = refunds[b] + 1]
    BY <1>1
  <2> QED BY <1>2, <2>2, <2>3
<1>9. harm \subseteq harm' /\ harm' \subseteq Harms
  BY <1>1 DEF IInv, TypeOK, Harms
<1> HIDE DEF counts
<1>11. TypeOK'
  <2>1. \A c \in Bets : bet'[c].status = "active" => option[bet'[c].option] = "there"
    BY <1>5 DEF IInv, TypeOK
  <2> QED BY <1>1, <1>5, <1>6, <1>7, <1>8, <1>9, <2>1 DEF IInv, TypeOK
<1>12. There' = There /\ \A p \in Options : ToRefund(p)' = ToRefund(p)
  BY <1>1 DEF There, ToRefund
<1>13. AdminAgrees'
  BY <1>1, <1>12 DEF IInv, AdminAgrees
<1>14. ReadAgrees'
  <2>1. \A c \in Bets : admin.bets[c].status = "none" => admin.bets[c] = NoBet
    BY DEF IInv, ReadAgrees
  <2>2. \A c \in Bets : admin.bets[c].status # "none" =>
          bet'[c].status # "none" /\ bet'[c].option = admin.bets[c].option
    BY <1>3, <1>5 DEF IInv, ReadAgrees
  <2>3. \A c \in Bets :
          admin.bets[c].status \in {"cancelled", "gone"} => bet'[c].status # "active"
    BY <1>5 DEF IInv, ReadAgrees
  <2>4. ASSUME NEW p \in admin.saved, NEW c \in Bets, bet'[c].option = p
        PROVE  admin.bets[c].option = p
    <3>1. c # b
      BY <1>1, <1>5, <2>4
    <3> QED BY <1>5, <2>4, <3>1 DEF IInv, ReadAgrees
  <2>5. /\ \A c \in admin.refunded : admin.bets[c].status = "active"
        /\ \A p \in admin.saved : ToRefund(p) \subseteq admin.refunded
    BY DEF IInv, ReadAgrees
  <2> QED BY <1>1, <2>1, <2>2, <2>3, <2>4, <2>5 DEF ReadAgrees, ToRefund
<1>15. BetsAgree'
  <2>1. bet[b] # NoBet
    BY <1>3 DEF NoBet
  <2>2. \A c \in Bets : asked'[c][1] = "place" => bet'[c] = NoBet
    BY <1>5, <1>6, NothingType DEF IInv, BetsAgree
  <2>3. \A c \in Bets : asked'[c][1] = "cancel" =>
          bet'[c].status # "none" /\ asked'[c][2] = bet'[c].option
    BY <1>5, <1>6, NothingType DEF IInv, BetsAgree
  <2>4. /\ \A c \in Bets : bet'[c].status = "none" => bet'[c] = NoBet
        /\ \A c \in Bets : bet'[c].status # "none" => bet'[c].option \in Options
    BY <1>2, <1>5 DEF IInv, BetsAgree
  <2> QED BY <2>2, <2>3, <2>4 DEF BetsAgree
<1>16. RefundsAgree'
  <2>1. "stale refund" \in harm' => "stale total" \in harm'
    BY <1>1 DEF IInv, RefundsAgree
  <2>2. \A c \in admin.refunded : c \in Bets /\ refunds'[c] > 0
    <3>1. admin.refunded \subseteq Bets
      BY DEF IInv, TypeOK, Work
    <3>2. \A c \in admin.refunded : refunds[c] > 0
      BY DEF IInv, RefundsAgree
    <3>3. refunds[b] \in Nat
      BY <1>2
    <3> QED BY <1>8, <3>1, <3>2, <3>3
  <2>3. ASSUME "stale refund" \notin harm', NEW c \in admin.refunded
        PROVE  bet'[c].status = "active"
    <3>1. counts /\ "stale refund" \notin harm
      BY <1>1, <1>9, <2>3
    <3>2. c # b /\ c \in Bets /\ bet[c].status = "active"
      BY <1>4, <2>2, <2>3, <3>1 DEF IInv, RefundsAgree
    <3> QED BY <1>5, <3>2
  <2>4. ASSUME harm' \cap {"refund kept", "stale refund"} = {}, NEW c \in Bets
        PROVE  /\ refunds'[c] <= 1
               /\ bet'[c].status \in {"none", "active"} /\ c \notin admin.refunded =>
                    refunds'[c] = 0
    <3>1. counts /\ harm \cap {"refund kept", "stale refund"} = {}
      BY <1>1, <1>9, <2>4
    <3>2. \A d \in Bets :
            /\ refunds[d] <= 1
            /\ bet[d].status \in {"none", "active"} /\ d \notin admin.refunded =>
                 refunds[d] = 0
      BY <3>1 DEF IInv, RefundsAgree
    <3>3. refunds[b] = 0
      BY <1>4, <3>1, <3>2 DEF counts
    <3> QED BY <1>5, <1>8, <3>2, <3>3
  <2> QED BY <1>1, <2>1, <2>2, <2>3, <2>4 DEF RefundsAgree
<1>17. NoStakeLost'
  <2>1. refunds'[b] > 0
    BY <1>2, <1>8
  <2> QED BY <1>5, <1>8, <1>9, <2>1 DEF IInv, NoStakeLost
<1>18. CancelledRoundIsSettled'
  <2>1. \A p \in Options : ActiveOn(p)' \subseteq ActiveOn(p)
    BY <1>5 DEF ActiveOn
  <2>2. Active' \subseteq Active
    BY <2>1 DEF Active
  <2> QED BY <1>1, <1>9, <2>2 DEF IInv, CancelledRoundIsSettled
<1>19. TotalsMatchBets'
  <2> SUFFICES ASSUME "stale total" \notin harm', NEW p \in There
               PROVE  total'[p] = Cardinality(ActiveOn(p)')
    BY <1>12 DEF TotalsMatchBets
  <2>1. p \in Options /\ total[p] = Cardinality(ActiveOn(p))
    BY <1>9 DEF IInv, TotalsMatchBets, There
  <2>2. CASE p # o
    <3>1. ActiveOn(p)' = ActiveOn(p)
      BY <1>3, <1>5, <2>2 DEF ActiveOn
    <3> QED BY <1>7, <2>1, <2>2, <3>1
  <2>3. CASE p = o
    <3>1. bet[b].status = "active"
      BY <1>1 DEF counts
    <3>2. ActiveOn(p)' = ActiveOn(p) \ {b} /\ b \in ActiveOn(p)
      BY <1>3, <1>5, <2>3, <3>1 DEF ActiveOn
    <3>3. IsFiniteSet(ActiveOn(p))
      BY BetsAssumption, FS_Subset DEF ActiveOn
    <3>4. Cardinality(ActiveOn(p) \ {b}) = Cardinality(ActiveOn(p)) - 1
      BY <3>2, <3>3, FS_RemoveElement
    <3> QED BY <1>7, <2>1, <2>3, <3>2, <3>4
  <2> QED BY <2>2, <2>3
<1> QED BY <1>11, <1>13, <1>14, <1>15, <1>16, <1>17, <1>18, <1>19 DEF IInv

----------------------------------------------------------------------------
(***************************************************************************)
(* Options that are created and saved.                                     *)
(***************************************************************************)
LEMMA NewOptionInvariant ==
  ASSUME IInv, NEW o \in Options, NewOption(o)
  PROVE  IInv'
<1>1. /\ admin.at \in {"creating", "editing"} /\ o \in admin.create
      /\ option' = [option EXCEPT ![o] = "there"]
      /\ total' = [total EXCEPT ![o] = 0]
      /\ admin' = [admin EXCEPT !.create = @ \ {o}]
      /\ UNCHANGED <<round, bet, refunds, asked, harm>>
  BY DEF NewOption, At
<1>2. /\ admin \in Work /\ bet \in Table /\ total \in [Options -> Int]
      /\ option \in [Options -> {"new", "there", "deleted"}]
  BY DEF IInv, TypeOK
<1>3. /\ admin' \in Work /\ admin'.at = admin.at /\ admin'.create = admin.create \ {o}
      /\ admin'.bets = admin.bets /\ admin'.refunded = admin.refunded
      /\ admin'.between = admin.between /\ admin'.saved = admin.saved
  BY <1>1, <1>2 DEF Work
<1>4. /\ admin.refunded = {} /\ admin.saved = {} /\ admin.between = {}
      /\ option[o] # "there" /\ admin.create \subseteq Options
      /\ \A p \in admin.create : option[p] # "there"
  BY <1>1, <1>2 DEF IInv, AdminAgrees, Work
<1>5. /\ option' \in [Options -> {"new", "there", "deleted"}]
      /\ \A p \in Options : option'[p] = IF p = o THEN "there" ELSE option[p]
  BY <1>1, <1>2
<1>6. /\ total' \in [Options -> Int]
      /\ \A p \in Options : total'[p] = IF p = o THEN 0 ELSE total[p]
  BY <1>1, <1>2
<1>7. \A p \in Options : ActiveOn(p)' = ActiveOn(p)
  BY <1>1 DEF ActiveOn
<1>8. TypeOK'
  <2>1. ASSUME NEW b \in Bets, bet[b].status = "active"
        PROVE  option'[bet[b].option] = "there"
    <3>1. option[bet[b].option] = "there" /\ bet[b].option \in Options
      BY <2>1 DEF IInv, TypeOK, BetsAgree
    <3> QED BY <1>5, <3>1
  <2> QED BY <1>1, <1>3, <1>5, <1>6, <2>1 DEF IInv, TypeOK
<1>9. AdminAgrees'
  BY <1>1, <1>3, <1>4, <1>5 DEF AdminAgrees
<1>10. ReadAgrees'
  BY <1>1, <1>3, <1>4 DEF IInv, ReadAgrees
<1>11. BetsAgree' /\ NoStakeLost'
  BY <1>1 DEF IInv, BetsAgree, NoStakeLost
<1>12. RefundsAgree'
  BY <1>1, <1>3 DEF IInv, RefundsAgree
<1>13. CancelledRoundIsSettled'
  BY <1>1, <1>7 DEF IInv, CancelledRoundIsSettled, Active
<1>14. TotalsMatchBets'
  <2> SUFFICES ASSUME "stale total" \notin harm, NEW p \in There'
               PROVE  total'[p] = Cardinality(ActiveOn(p)')
    BY <1>1 DEF TotalsMatchBets
  <2>0. p \in Options
    BY DEF There
  <2>1. CASE p # o
    <3>1. p \in There
      BY <1>5, <2>1 DEF There
    <3>2. total[p] = Cardinality(ActiveOn(p))
      BY <3>1 DEF IInv, TotalsMatchBets
    <3> QED BY <1>6, <1>7, <2>0, <2>1, <3>2
  <2>2. CASE p = o
    <3>1. ActiveOn(o) = {}
      BY <1>4 DEF ActiveOn, IInv, TypeOK
    <3>2. ActiveOn(p)' = {}
      BY <1>7, <2>2, <3>1
    <3>3. Cardinality({}) = 0
      BY FS_EmptySet
    <3> QED BY <1>6, <2>2, <3>2, <3>3
  <2> QED BY <2>1, <2>2
<1> QED BY <1>8, <1>9, <1>10, <1>11, <1>12, <1>13, <1>14 DEF IInv

LEMMA SaveEditedInvariant ==
  ASSUME IInv, NEW o \in Options, SaveEdited(o)
  PROVE  IInv'
<1>1. /\ admin.at = "editing"
      /\ total' = [total EXCEPT ![o] = admin.total[o]]
      /\ harm' = IF total[o] = admin.total[o] THEN harm
                   ELSE harm \cup {"stale total"}
      /\ admin' = [admin EXCEPT !.save = @ \ {o}]
      /\ UNCHANGED <<round, option, bet, refunds, asked>>
  BY DEF SaveEdited, At
<1>2. /\ admin \in Work /\ total \in [Options -> Int]
  BY DEF IInv, TypeOK
<1>3. /\ admin' \in Work /\ admin'.at = admin.at /\ admin'.create = admin.create
      /\ admin'.bets = admin.bets /\ admin'.refunded = admin.refunded
      /\ admin'.between = admin.between /\ admin'.saved = admin.saved
  BY <1>1, <1>2 DEF Work
<1>4. total' \in [Options -> Int]
  <2>1. admin.total[o] \in Int
    BY <1>2 DEF Work
  <2> QED BY <1>1, <1>2, <2>1
<1>5. harm \subseteq harm' /\ harm' \subseteq harm \cup {"stale total"} /\ harm' \subseteq Harms
  BY <1>1 DEF IInv, TypeOK, Harms
<1>6. "stale total" \notin harm' => total' = total /\ harm' = harm
  BY <1>1, <1>2
<1>7. There' = There /\ Active' = Active /\ \A p \in Options : ActiveOn(p)' = ActiveOn(p)
  <2>1. \A p \in Options : ActiveOn(p)' = ActiveOn(p)
    BY <1>1 DEF ActiveOn
  <2>2. Active' = Active
    BY <2>1 DEF Active
  <2>3. There' = There
    BY <1>1 DEF There
  <2> QED BY <2>1, <2>2, <2>3
<1>8. TypeOK'
  BY <1>1, <1>3, <1>4, <1>5 DEF IInv, TypeOK
<1>9. AdminAgrees'
  BY <1>1, <1>3 DEF IInv, AdminAgrees
<1>10. ReadAgrees'
  <2>1. admin.refunded = {} /\ admin.saved = {}
    BY <1>1 DEF IInv, AdminAgrees
  <2> QED BY <1>1, <1>3, <2>1 DEF IInv, ReadAgrees
<1>11. BetsAgree' /\ NoStakeLost'
  BY <1>1, <1>5 DEF IInv, BetsAgree, NoStakeLost
<1>12. RefundsAgree'
  BY <1>1, <1>3, <1>5 DEF IInv, RefundsAgree
<1>13. CancelledRoundIsSettled'
  BY <1>1, <1>5, <1>7 DEF IInv, CancelledRoundIsSettled
<1>14. TotalsMatchBets'
  BY <1>6, <1>7 DEF IInv, TotalsMatchBets, There
<1> QED BY <1>8, <1>9, <1>10, <1>11, <1>12, <1>13, <1>14 DEF IInv

----------------------------------------------------------------------------
(***************************************************************************)
(* The cancellation of the round.                                          *)
(***************************************************************************)
LEMMA CancelRoundInvariant == IInv /\ CancelRound => IInv'
<1> SUFFICES ASSUME IInv, CancelRound PROVE IInv'
  OBVIOUS
<1>1. /\ UNCHANGED <<round, option, total, bet, refunds, asked, harm>>
      /\ admin.at = "rest"
      /\ admin' = Request("cancelling", {}, There, {}, bet, total)
  BY DEF CancelRound, Sends, At, tables
<1>2. /\ "cancelling" \in Steps /\ There \in SUBSET Options
      /\ bet \in Table /\ total \in [Options -> Int]
  BY DEF Steps, There, IInv, TypeOK
<1>3. /\ admin' \in Work /\ admin'.at = "cancelling" /\ admin'.create = {}
      /\ admin'.save = There /\ admin'.bets = bet
      /\ admin'.refunded = {} /\ admin'.between = {} /\ admin'.saved = {}
  BY <1>1, <1>2 DEF Request, Work
<1>4. There' = There
  BY <1>1 DEF There
<1>5. TypeOK'
  BY <1>1, <1>3 DEF IInv, TypeOK
<1>6. AdminAgrees'
  BY <1>3, <1>4 DEF AdminAgrees
<1>7. ReadAgrees'
  BY <1>1, <1>3 DEF ReadAgrees, IInv, BetsAgree
<1>8. RefundsAgree'
  BY <1>1, <1>3 DEF IInv, RefundsAgree, AdminAgrees
<1> QED BY <1>1, <1>5, <1>6, <1>7, <1>8, TablesStay DEF IInv

LEMMA RefundInvariant ==
  ASSUME IInv, NEW o \in Options, NEW b \in Bets, Refund(o, b)
  PROVE  IInv'
<1>1. /\ admin.at = "cancelling" /\ admin.bets[b].status = "active"
      /\ b \notin admin.refunded
      /\ refunds' = [refunds EXCEPT ![b] = @ + 1]
      /\ harm' = IF bet[b].status = admin.bets[b].status THEN harm
                   ELSE harm \cup {"stale refund", "stale total"}
      /\ admin' = [admin EXCEPT !.refunded = @ \cup {b}, !.between = {b}]
      /\ UNCHANGED <<round, option, total, bet, asked>>
  BY DEF Refund, At, ToRefund
<1>2. admin \in Work /\ refunds \in [Bets -> Nat]
  BY DEF IInv, TypeOK
<1>3. /\ admin' \in Work /\ admin'.at = admin.at /\ admin'.create = admin.create
      /\ admin'.bets = admin.bets /\ admin'.refunded = admin.refunded \cup {b}
      /\ admin'.between = {b} /\ admin'.saved = admin.saved /\ admin'.save = admin.save
  <2> DEFINE r == [admin EXCEPT !.refunded = @ \cup {b}]
  <2>1. /\ r \in Work /\ r.at = admin.at /\ r.create = admin.create
        /\ r.bets = admin.bets /\ r.refunded = admin.refunded \cup {b}
        /\ r.saved = admin.saved /\ r.save = admin.save
    BY <1>2 DEF Work
  <2>2. admin' = [r EXCEPT !.between = {b}]
    BY <1>1, <1>2 DEF Work
  <2> HIDE DEF r
  <2> QED BY <2>1, <2>2 DEF Work
<1>4. /\ refunds' \in [Bets -> Nat]
      /\ \A c \in Bets : refunds'[c] = IF c = b THEN refunds[b] + 1 ELSE refunds[c]
  <2>1. refunds[b] \in Nat
    BY <1>2
  <2>2. refunds[b] + 1 \in Nat
    BY <2>1
  <2>3. refunds' = [refunds EXCEPT ![b] = refunds[b] + 1]
    BY <1>1
  <2> QED BY <1>2, <2>2, <2>3
<1>5. harm \subseteq harm' /\ harm' \subseteq Harms
  BY <1>1 DEF IInv, TypeOK, Harms
<1>6. "stale refund" \notin harm' => bet[b].status = "active" /\ harm' = harm
  BY <1>1
<1>7. /\ There' = There /\ Active' = Active
      /\ \A p \in Options : ActiveOn(p)' = ActiveOn(p) /\ ToRefund(p)' = ToRefund(p)
  <2>1. \A p \in Options : ActiveOn(p)' = ActiveOn(p) /\ ToRefund(p)' = ToRefund(p)
    BY <1>1, <1>3 DEF ActiveOn, ToRefund
  <2>2. Active' = Active
    BY <2>1 DEF Active
  <2>3. There' = There
    BY <1>1 DEF There
  <2> QED BY <2>1, <2>2, <2>3
<1>8. TypeOK'
  BY <1>1, <1>3, <1>4, <1>5 DEF IInv, TypeOK
<1>9. AdminAgrees'
  BY <1>1, <1>3, <1>7 DEF IInv, AdminAgrees
<1>10. ReadAgrees'
  <2>1. \A c \in admin'.refunded : admin.bets[c].status = "active"
    BY <1>1, <1>3 DEF IInv, ReadAgrees
  <2>2. \A p \in admin.saved :
          /\ ToRefund(p)' \subseteq admin'.refunded
          /\ \A c \in Bets : bet[c].option = p => admin.bets[c].option = p
    <3>1. admin.saved \subseteq Options
      BY <1>2 DEF Work
    <3> QED BY <1>3, <1>7, <3>1 DEF IInv, ReadAgrees
  <2>3. /\ \A c \in Bets : admin.bets[c].status = "none" => admin.bets[c] = NoBet
        /\ \A c \in Bets : admin.bets[c].status # "none" =>
             bet[c].status # "none" /\ bet[c].option = admin.bets[c].option
        /\ \A c \in Bets :
             admin.bets[c].status \in {"cancelled", "gone"} => bet[c].status # "active"
    BY DEF IInv, ReadAgrees
  <2>4. UNCHANGED bet /\ admin'.bets = admin.bets /\ admin'.saved = admin.saved
    BY <1>1, <1>3
  <2> QED BY <2>1, <2>2, <2>3, <2>4 DEF ReadAgrees
<1>11. BetsAgree'
  BY <1>1 DEF IInv, BetsAgree
<1>12. RefundsAgree'
  <2>0. admin.refunded \subseteq Bets /\ refunds[b] \in Nat
    BY <1>2 DEF Work
  <2>1. "stale refund" \in harm' => "stale total" \in harm'
    BY <1>1 DEF IInv, RefundsAgree
  <2>2. \A c \in admin'.refunded : refunds'[c] > 0
    <3>1. \A c \in admin.refunded : refunds[c] > 0
      BY DEF IInv, RefundsAgree
    <3> QED BY <1>3, <1>4, <2>0, <3>1
  <2>3. "stale refund" \notin harm' => \A c \in admin'.refunded : bet'[c].status = "active"
    BY <1>1, <1>3, <1>6 DEF IInv, RefundsAgree
  <2>4. ASSUME harm' \cap {"refund kept", "stale refund"} = {}, NEW c \in Bets
        PROVE  /\ refunds'[c] <= 1
               /\ bet'[c].status \in {"none", "active"} /\ c \notin admin'.refunded =>
                    refunds'[c] = 0
    <3>1. harm \cap {"refund kept", "stale refund"} = {} /\ bet[b].status = "active"
      BY <1>5, <1>6, <2>4
    <3>2. \A d \in Bets :
            /\ refunds[d] <= 1
            /\ bet[d].status \in {"none", "active"} /\ d \notin admin.refunded =>
                 refunds[d] = 0
      BY <3>1 DEF IInv, RefundsAgree
    <3>3. refunds[b] = 0
      BY <1>1, <3>1, <3>2
    <3>4. CASE c = b
      BY <1>3, <1>4, <3>3, <3>4
    <3>5. CASE c # b
      BY <1>1, <1>3, <1>4, <3>2, <3>5
    <3> QED BY <3>4, <3>5
  <2> QED BY <2>1, <2>2, <2>3, <2>4 DEF RefundsAgree
<1>13. NoStakeLost'
  <2>1. \A c \in Bets : refunds[c] > 0 => refunds'[c] > 0
    BY <1>2, <1>4
  <2> QED BY <1>1, <1>5, <2>1 DEF IInv, NoStakeLost
<1>14. CancelledRoundIsSettled' /\ TotalsMatchBets'
  BY <1>1, <1>5, <1>7 DEF IInv, CancelledRoundIsSettled, TotalsMatchBets, There
<1> QED BY <1>8, <1>9, <1>10, <1>11, <1>12, <1>13, <1>14 DEF IInv

LEMMA SaveBetInvariant ==
  ASSUME IInv, NEW b \in Bets, SaveBet(b)
  PROVE  IInv'
<1>1. /\ UNCHANGED <<round, option, total, bet, refunds, asked, harm>>
      /\ admin' = [admin EXCEPT !.between = {}]
  BY DEF SaveBet, tables
<1>2. admin \in Work
  BY DEF IInv, TypeOK
<1>3. /\ admin' \in Work /\ admin'.at = admin.at /\ admin'.create = admin.create
      /\ admin'.bets = admin.bets /\ admin'.refunded = admin.refunded
      /\ admin'.between = {} /\ admin'.saved = admin.saved /\ admin'.save = admin.save
  BY <1>1, <1>2 DEF Work
<1>4. There' = There /\ \A o \in Options : ToRefund(o)' = ToRefund(o)
  BY <1>1, <1>3 DEF There, ToRefund
<1>5. TypeOK'
  BY <1>1, <1>3 DEF IInv, TypeOK
<1>6. AdminAgrees'
  BY <1>1, <1>3, <1>4 DEF IInv, AdminAgrees
<1>7. ReadAgrees'
  BY <1>1, <1>3 DEF IInv, ReadAgrees, ToRefund
<1>8. RefundsAgree'
  BY <1>1, <1>3 DEF IInv, RefundsAgree
<1> QED BY <1>1, <1>5, <1>6, <1>7, <1>8, TablesStay DEF IInv

LEMMA SaveCancelledInvariant ==
  ASSUME IInv, NEW o \in Options, SaveCancelled(o)
  PROVE  IInv'
<1>1. /\ UNCHANGED <<round, option, total, bet, refunds, asked, harm>>
      /\ admin.at = "cancelling" /\ o \in admin.save /\ admin.between = {}
      /\ ToRefund(o) \subseteq admin.refunded /\ Newer(o) = {}
      /\ admin' = [admin EXCEPT !.save = @ \ {o}, !.saved = @ \cup {o}]
  BY DEF SaveCancelled, tables, At
<1>2. admin \in Work
  BY DEF IInv, TypeOK
<1>3. /\ admin' \in Work /\ admin'.at = admin.at /\ admin'.create = admin.create
      /\ admin'.bets = admin.bets /\ admin'.refunded = admin.refunded
      /\ admin'.between = admin.between
      /\ admin'.save = admin.save \ {o} /\ admin'.saved = admin.saved \cup {o}
  <2> DEFINE r == [admin EXCEPT !.save = @ \ {o}]
  <2>1. /\ r \in Work /\ r.at = admin.at /\ r.create = admin.create
        /\ r.bets = admin.bets /\ r.refunded = admin.refunded
        /\ r.between = admin.between
        /\ r.saved = admin.saved /\ r.save = admin.save \ {o}
    BY <1>2 DEF Work
  <2>2. admin' = [r EXCEPT !.saved = @ \cup {o}]
    BY <1>1, <1>2 DEF Work
  <2> HIDE DEF r
  <2> QED BY <2>1, <2>2 DEF Work
<1>4. There' = There
  BY <1>1 DEF There
<1>5. TypeOK'
  BY <1>1, <1>3 DEF IInv, TypeOK
<1>6. AdminAgrees'
  BY <1>1, <1>3, <1>4 DEF IInv, AdminAgrees
<1>7. ReadAgrees'
  <2>1. \A b \in Bets : bet[b].option = o => admin.bets[b].option = o
    BY <1>1 DEF Newer
  <2>2. \A p \in admin'.saved :
          /\ ToRefund(p) \subseteq admin.refunded
          /\ \A b \in Bets : bet[b].option = p => admin.bets[b].option = p
    BY <1>1, <1>3, <2>1 DEF IInv, ReadAgrees
  <2> QED BY <1>1, <1>3, <2>2 DEF IInv, ReadAgrees, ToRefund
<1>8. RefundsAgree'
  BY <1>1, <1>3 DEF IInv, RefundsAgree
<1> QED BY <1>1, <1>5, <1>6, <1>7, <1>8, TablesStay DEF IInv

LEMMA SelfDifference == \A k \in Int : k - k = 0
OBVIOUS

\* The cancellation commits: the bets that were active when they were read
\* are all refunded, and none was placed since.
LEMMA CancelRoundCommitsInvariant == IInv /\ CancelRoundCommits => IInv'
<1> SUFFICES ASSUME IInv, CancelRoundCommits PROVE IInv'
  OBVIOUS
<1>1. /\ admin.at = "cancelling" /\ admin.save = {}
      /\ round' = "cancelled"
      /\ bet' = [b \in Bets |-> IF b \in admin.refunded
                                  THEN [bet[b] EXCEPT !.status = "cancelled"]
                                  ELSE bet[b]]
      /\ total' = [o \in Options |-> IF o \in admin.saved THEN TotalAfter(o)
                                                          ELSE total[o]]
      /\ harm' = IF \E o \in admin.saved : total[o] # admin.total[o]
                   THEN harm \cup {"stale total"} ELSE harm
      /\ admin' = Resting
      /\ UNCHANGED <<option, refunds, asked>>
  BY DEF CancelRoundCommits, At, Cancelled
<1>2. /\ admin \in Work /\ bet \in Table /\ total \in [Options -> Int]
      /\ There = admin.saved
      /\ admin.refunded \subseteq Bets /\ admin.saved \subseteq Options
  BY <1>1 DEF IInv, TypeOK, AdminAgrees, Work
<1>3. /\ bet' \in Table
      /\ \A b \in Bets : b \notin admin.refunded => bet'[b] = bet[b]
      /\ \A b \in admin.refunded :
           bet'[b].status = "cancelled" /\ bet'[b].option = bet[b].option
  <2>1. \A b \in Bets : bet[b] \in [status : {"none", "active", "cancelled", "gone"},
                                    option : Options \cup {NoOption}]
    BY <1>2 DEF Table
  <2> QED BY <1>1, <1>2, <2>1 DEF Table
<1>4. total' \in [Options -> Int]
  <2>1. \A o \in Options : TotalAfter(o) \in Int
    <3> SUFFICES ASSUME NEW o \in Options PROVE TotalAfter(o) \in Int
      OBVIOUS
    <3>1. Cardinality(ToRefund(o) \cap admin.refunded) \in Nat
      <4>1. ToRefund(o) \cap admin.refunded \subseteq Bets
        BY DEF ToRefund
      <4> QED BY <4>1, BetsAssumption, FS_Subset, FS_CardinalityType
    <3>2. admin.total[o] \in Int
      BY <1>2 DEF Work
    <3> QED BY <3>1, <3>2 DEF TotalAfter
  <2> QED BY <1>1, <1>2, <2>1
<1>5. /\ harm \subseteq harm' /\ harm' \subseteq harm \cup {"stale total"}
      /\ harm' \subseteq Harms
  BY <1>1 DEF IInv, TypeOK, Harms
<1>6. /\ admin' \in Work /\ admin'.at = "rest" /\ admin'.create = {}
      /\ admin'.refunded = {} /\ admin'.between = {} /\ admin'.saved = {}
      /\ \A b \in Bets : admin'.bets[b] = NoBet
  BY <1>1, RestingType
<1>7. There' = There
  BY <1>1 DEF There
<1>8. ASSUME NEW o \in Options PROVE ActiveOn(o)' = {}
  <2> SUFFICES ASSUME NEW b \in Bets, bet'[b].status = "active", bet'[b].option = o
               PROVE  FALSE
    BY DEF ActiveOn
  <2>1. b \notin admin.refunded /\ bet[b].status = "active" /\ bet[b].option = o
    BY <1>3
  <2>2. o \in admin.saved
    BY <1>2, <2>1 DEF IInv, TypeOK, There
  <2>3. admin.bets[b].option = o
    BY <2>1, <2>2 DEF IInv, ReadAgrees
  <2>4. admin.bets[b] # NoBet
    BY <2>3, OptionsAssumption DEF NoBet
  <2>5. admin.bets[b].status \in {"none", "active", "cancelled", "gone"}
    BY <1>2 DEF Work, Table
  <2>6. admin.bets[b].status = "active"
    BY <2>1, <2>4, <2>5 DEF IInv, ReadAgrees
  <2>7. b \in ToRefund(o)
    BY <2>3, <2>6 DEF ToRefund
  <2> QED BY <2>1, <2>2, <2>7 DEF IInv, ReadAgrees
<1>9. TypeOK'
  <2>1. \A b \in Bets : bet'[b].status = "active" => option[bet'[b].option] = "there"
    BY <1>3 DEF IInv, TypeOK
  <2> QED BY <1>1, <1>3, <1>4, <1>5, <1>6, <2>1 DEF IInv, TypeOK
<1>10. AdminAgrees'
  BY <1>6 DEF AdminAgrees
<1>11. ReadAgrees'
  BY <1>6 DEF ReadAgrees, NoBet
<1>12. BetsAgree'
  <2>1. \A b \in admin.refunded : bet[b].status # "none"
    BY <1>2 DEF IInv, ReadAgrees
  <2>2. \A b \in Bets : bet[b] = NoBet => b \notin admin.refunded /\ bet'[b] = NoBet
    BY <1>3, <2>1 DEF NoBet
  <2>3. \A b \in Bets : bet'[b].option = bet[b].option
    BY <1>3
  <2>4. \A b \in Bets : bet'[b].status = "none" <=> bet[b].status = "none"
    BY <1>3, <2>1
  <2>5. \A b \in Bets : bet'[b].status = "none" => bet'[b] = NoBet
    BY <2>2, <2>4 DEF IInv, BetsAgree
  <2>6. \A b \in Bets : bet'[b].status # "none" => bet'[b].option \in Options
    BY <2>3, <2>4 DEF IInv, BetsAgree
  <2>7. \A b \in Bets : asked[b][1] = "place" => bet'[b] = NoBet
    BY <2>2 DEF IInv, BetsAgree
  <2>8. \A b \in Bets : asked[b][1] = "cancel" =>
          bet'[b].status # "none" /\ asked[b][2] = bet'[b].option
    BY <2>3, <2>4 DEF IInv, BetsAgree
  <2> QED BY <1>1, <2>5, <2>6, <2>7, <2>8 DEF BetsAgree
<1>13. RefundsAgree'
  <2>1. "stale refund" \in harm' => "stale total" \in harm'
    BY <1>5 DEF IInv, RefundsAgree
  <2>2. ASSUME harm' \cap {"refund kept", "stale refund"} = {}, NEW b \in Bets
        PROVE  /\ refunds[b] <= 1
               /\ bet'[b].status \in {"none", "active"} => refunds[b] = 0
    <3>1. harm \cap {"refund kept", "stale refund"} = {}
      BY <1>5, <2>2
    <3>2. /\ refunds[b] <= 1
          /\ bet[b].status \in {"none", "active"} /\ b \notin admin.refunded =>
               refunds[b] = 0
      BY <3>1 DEF IInv, RefundsAgree
    <3>3. bet'[b].status \in {"none", "active"} =>
            b \notin admin.refunded /\ bet[b].status \in {"none", "active"}
      BY <1>3
    <3> QED BY <3>2, <3>3
  <2> QED BY <1>1, <1>6, <2>1, <2>2 DEF RefundsAgree
<1>14. NoStakeLost'
  <2>1. \A b \in admin.refunded : refunds[b] > 0
    BY DEF IInv, RefundsAgree
  <2>2. \A b \in Bets : b \notin admin.refunded =>
          /\ bet'[b].status = "cancelled" => refunds[b] > 0
          /\ bet'[b].status = "gone" => refunds[b] > 0 \/ "stake deleted" \in harm'
    BY <1>3, <1>5 DEF IInv, NoStakeLost
  <2> QED BY <1>1, <2>1, <2>2 DEF NoStakeLost
<1>15. CancelledRoundIsSettled'
  BY <1>8 DEF CancelledRoundIsSettled, Active
<1>16. TotalsMatchBets'
  <2> SUFFICES ASSUME "stale total" \notin harm', NEW o \in There
               PROVE  total'[o] = Cardinality(ActiveOn(o)')
    BY <1>7 DEF TotalsMatchBets
  <2>1. /\ o \in admin.saved /\ o \in Options
        /\ "stale total" \notin harm /\ "stale refund" \notin harm
        /\ total[o] = admin.total[o]
    BY <1>1, <1>2, <1>5 DEF IInv, RefundsAgree
  <2>2. total[o] = Cardinality(ActiveOn(o))
    BY <2>1 DEF IInv, TotalsMatchBets
  <2>3. ActiveOn(o) = ToRefund(o) \cap admin.refunded
    <3>1. ASSUME NEW b \in ActiveOn(o) PROVE b \in ToRefund(o) \cap admin.refunded
      <4>1. bet[b].status = "active" /\ bet[b].option = o /\ b \in Bets
        BY DEF ActiveOn
      <4>2. admin.bets[b].option = o
        BY <2>1, <4>1 DEF IInv, ReadAgrees
      <4>3. admin.bets[b] # NoBet
        <5>1. o # NoOption
          BY <2>1, OptionsAssumption
        <5>2. NoBet.option = NoOption
          BY DEF NoBet
        <5> QED BY <4>2, <5>1, <5>2
      <4>4. admin.bets[b].status \in {"none", "active", "cancelled", "gone"}
        BY <1>2, <4>1 DEF Work, Table
      <4>5. admin.bets[b].status = "active"
        BY <4>1, <4>3, <4>4 DEF IInv, ReadAgrees
      <4>6. b \in ToRefund(o)
        BY <4>1, <4>2, <4>5 DEF ToRefund
      <4> QED BY <2>1, <4>6 DEF IInv, ReadAgrees
    <3>2. ASSUME NEW b \in ToRefund(o) \cap admin.refunded PROVE b \in ActiveOn(o)
      <4>1. b \in Bets /\ admin.bets[b].option = o /\ admin.bets[b].status = "active"
        BY DEF ToRefund
      <4>2. bet[b].option = o
        BY <4>1 DEF IInv, ReadAgrees
      <4>3. bet[b].status = "active"
        BY <2>1 DEF IInv, RefundsAgree
      <4> QED BY <4>1, <4>2, <4>3 DEF ActiveOn
    <3> QED BY <3>1, <3>2
  <2>4. total'[o] = total[o] - total[o]
    BY <1>1, <2>1, <2>2, <2>3 DEF TotalAfter
  <2>5. total'[o] = 0
    <3>1. total[o] \in Int
      BY <1>2, <2>1
    <3> QED BY <2>4, <3>1, SelfDifference
  <2>6. Cardinality(ActiveOn(o)') = 0
    BY <1>8, <2>1, FS_EmptySet
  <2> QED BY <2>5, <2>6
<1> QED BY <1>9, <1>10, <1>11, <1>12, <1>13, <1>14, <1>15, <1>16 DEF IInv

----------------------------------------------------------------------------
LEMMA NextInvariant == IInv /\ [Next]_vars => IInv'
<1> SUFFICES ASSUME IInv, [Next]_vars PROVE IInv'
  OBVIOUS
<1>1. CASE UNCHANGED vars
  <2>1. UNCHANGED <<tables, admin, asked, harm>>
    BY <1>1 DEF vars
  <2> QED BY <2>1, AskedInvariant DEF IInv, TypeOK, BetsAgree
<1>2. ASSUME NEW b \in Bets,
             \/ Cancel(b) \/ Refused(b) \/ PlaceCommits(b) \/ CancelCommits(b)
             \/ SaveBet(b)
      PROVE  IInv'
  BY <1>2, CancelInvariant, RefusedInvariant, PlaceCommitsInvariant,
     CancelCommitsInvariant, SaveBetInvariant
<1>3. ASSUME NEW b \in Bets, NEW o \in Options, Place(b, o) \/ Refund(o, b)
      PROVE  IInv'
  BY <1>3, PlaceInvariant, RefundInvariant
<1>4. ASSUME NEW o \in Options,
             \/ NewOption(o) \/ SaveEdited(o) \/ Remove(o) \/ SaveCancelled(o)
      PROVE  IInv'
  BY <1>4, NewOptionInvariant, SaveEditedInvariant, RemoveInvariant,
     SaveCancelledInvariant
<1>5. ASSUME NEW o \in Options, SaveRefused(o) PROVE IInv'
  BY <1>5, RolledBackInvariant DEF SaveRefused
<1>6. ASSUME NEW os \in SUBSET Options, Create(os) PROVE IInv'
  BY <1>6, CreateInvariant
<1>7. ASSUME NEW keep \in SUBSET Options, NEW os \in SUBSET Options, Edit(keep, os)
      PROVE  IInv'
  BY <1>7, EditInvariant
<1>8. CASE Open \/ Fetch \/ Drop \/ DropOptions \/ DropRound
  BY <1>8, OpenInvariant, FetchInvariant, DropInvariant, DropOptionsInvariant,
     DropRoundInvariant
<1>9. CASE CancelRound \/ CancelRoundCommits \/ Done
  BY <1>9, CancelRoundInvariant, CancelRoundCommitsInvariant, DoneInvariant
<1>10. CASE Fail
  BY <1>10, RolledBackInvariant DEF Fail
<1> QED BY <1>1, <1>2, <1>3, <1>4, <1>5, <1>6, <1>7, <1>8, <1>9, <1>10 DEF Next

LEMMA Invariant == Spec => []IInv
<1>1. Init => IInv
  BY InitInvariant
<1>2. IInv /\ [Next]_vars => IInv'
  BY NextInvariant
<1> QED BY <1>1, <1>2, PTL DEF Spec

----------------------------------------------------------------------------
(***************************************************************************)
(* The theorems.                                                           *)
(***************************************************************************)
\* The tables and the requests stay within their types.
THEOREM AdminTypeCorrect == Spec => []TypeOK
<1>1. IInv => TypeOK
  BY DEF IInv
<1> QED BY <1>1, Invariant, PTL

\* A stake is given back once, unless a cancellation failed after a refund or
\* refunded a bet that its user cancelled meanwhile.
THEOREM StakeIsRefundedOnce == Spec => []RefundedOnce
<1>1. IInv => RefundedOnce
  BY DEF IInv, RefundsAgree, RefundedOnce
<1> QED BY <1>1, Invariant, PTL

\* A stake is lost only where an option is deleted with the bets on it.
THEOREM StakeIsKeptOrReturned == Spec => []NoStakeLost
<1>1. IInv => NoStakeLost
  BY DEF IInv
<1> QED BY <1>1, Invariant, PTL

\* No active bet is left in a cancelled round, unless it was committed after
\* the cancellation.
THEOREM CancellationIsComplete == Spec => []CancelledRoundIsSettled
<1>1. IInv => CancelledRoundIsSettled
  BY DEF IInv
<1> QED BY <1>1, Invariant, PTL

\* Totals count active bets, unless one was saved as it had been read.
THEOREM TotalsAreKept == Spec => []TotalsMatchBets
<1>1. IInv => TotalsMatchBets
  BY DEF IInv
<1> QED BY <1>1, Invariant, PTL
=============================================================================
