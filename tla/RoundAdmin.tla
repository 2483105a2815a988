----------------------------- MODULE RoundAdmin -----------------------------
(***************************************************************************)
(* What an administrator does to a round in several steps, while users     *)
(* bet: creating it, editing its options, and cancelling it with refunds   *)
(* (createBettingVariable, editBettingVariable, updateRoundOptions and     *)
(* cancelRoundAndRefund of betting.service.ts).                            *)
(*                                                                         *)
(* The first two run without a transaction.  The third reads before its    *)
(* transaction and refunds outside it, each refund in a transaction of its *)
(* own, so that a failure undoes all but the refunds.                      *)
(*                                                                         *)
(* One administrator works at a time.  Users place and cancel bets: each   *)
(* request reads, and commits later.  A bet has one user and one coin, so  *)
(* the total of an option is a number of bets.                             *)
(***************************************************************************)
EXTENDS Integers, FiniteSets

CONSTANTS
  Options,     \* rows of betting_variables that may be created
  Bets,        \* rows of bets that may be created
  NoOption,
  MaxAdmin,    \* how many requests of the administrator: bounds the run
  MaxFaults    \* how many of them fail for an outside reason

ASSUME BetsAssumption == IsFiniteSet(Bets)
ASSUME OptionsAssumption == NoOption \notin Options

VARIABLES
  round,     \* the status of the round
  option,    \* whether each option is new, there or deleted
  total,     \* what each option counts
  bet,       \* the status and the option of each bet
  refunds,   \* how often the stake of each bet was given back
  asked,     \* the request of the user of each bet
  admin,     \* the request of the administrator, with what it has read
  sent,
  faults,
  harm       \* what happened that the properties except

tables == <<round, option, total, bet, refunds>>
vars == <<tables, asked, admin, sent, faults, harm>>

NoBet == [status |-> "none", option |-> NoOption]
Table == [Bets -> [status : {"none", "active", "cancelled", "gone"},
                   option : Options \cup {NoOption}]]

\* A request of the administrator: the options it has still to create, save
\* or remove, the bets and totals it has read, those it has refunded and
\* saved, and the bet whose refund is not followed by its save yet.
Request(step, create, save, remove, bets, counted) ==
  [at |-> step, create |-> create, save |-> save, remove |-> remove,
   bets |-> bets, total |-> counted,
   refunded |-> {}, between |-> {}, saved |-> {}]

NothingRead == [b \in Bets |-> NoBet]
NothingCounted == [o \in Options |-> 0]

Asking(step, create, save, remove) ==
  Request(step, create, save, remove, NothingRead, NothingCounted)

Resting == Asking("rest", {}, {}, {})

Steps == {"rest", "creating", "fetching", "editing", "dropping", "dropped",
          "cancelling"}

Work == [at : Steps, create : SUBSET Options, save : SUBSET Options,
         remove : SUBSET Options, bets : Table, total : [Options -> Int],
         refunded : SUBSET Bets, between : SUBSET Bets, saved : SUBSET Options]

Harms == {"stake deleted", "stale total", "refund kept", "stale refund",
          "late bet"}

TypeOK ==
  /\ round \in {"none", "created", "open", "cancelled"}
  /\ option \in [Options -> {"new", "there", "deleted"}]
  /\ total \in [Options -> Int]
  /\ bet \in Table
  /\ refunds \in [Bets -> Nat]
  /\ asked \in [Bets -> {"nothing", "place", "cancel"} \X (Options \cup {NoOption})]
  /\ admin \in Work
  /\ harm \subseteq Harms
  /\ \A b \in Bets : bet[b].status = "active" => option[bet[b].option] = "there"

Nothing == <<"nothing", NoOption>>

Init ==
  /\ round = "none"
  /\ option = [o \in Options |-> "new"]
  /\ total = [o \in Options |-> 0]
  /\ bet = [b \in Bets |-> NoBet]
  /\ refunds = [b \in Bets |-> 0]
  /\ asked = [b \in Bets |-> Nothing]
  /\ admin = Resting
  /\ sent = 0 /\ faults = 0 /\ harm = {}

----------------------------------------------------------------------------
\* The options that there are.
There == {o \in Options : option[o] = "there"}

ActiveOn(o) == {b \in Bets : bet[b].status = "active" /\ bet[b].option = o}
Active == UNION {ActiveOn(o) : o \in Options}

At(step) == admin.at = step
Sends(request) ==
  /\ At("rest")
  /\ sent < MaxAdmin /\ sent' = sent + 1
  /\ admin' = request
  /\ UNCHANGED <<tables, asked, faults, harm>>

----------------------------------------------------------------------------
(***************************************************************************)
(* Users.  A bet is placed or cancelled where the round is open when it is *)
(* read; the commit waits for an option that a cancellation has saved, and *)
(* for a bet.                                                              *)
(***************************************************************************)
Locked(o) == o \in admin.saved

Place(b, o) ==
  /\ asked[b] = Nothing /\ bet[b] = NoBet
  /\ round = "open" /\ o \in There
  /\ asked' = [asked EXCEPT ![b] = <<"place", o>>]
  /\ UNCHANGED <<tables, admin, sent, faults, harm>>

Cancel(b) ==
  /\ asked[b] = Nothing
  /\ round = "open" /\ bet[b].status = "active"
  /\ asked' = [asked EXCEPT ![b] = <<"cancel", bet[b].option>>]
  /\ UNCHANGED <<tables, admin, sent, faults, harm>>

\* The option that a request refers to was deleted: the request fails.
Refused(b) ==
  /\ asked[b] # Nothing /\ asked[b][2] \notin There
  /\ asked' = [asked EXCEPT ![b] = Nothing]
  /\ UNCHANGED <<tables, admin, sent, faults, harm>>

\* The status of the round is not read again.
PlaceCommits(b) ==
  LET o == asked[b][2]
  IN /\ asked[b][1] = "place" /\ o \in There /\ ~Locked(o)
     /\ bet' = [bet EXCEPT ![b] = [status |-> "active", option |-> o]]
     /\ total' = [total EXCEPT ![o] = @ + 1]
     /\ harm' = IF round = "cancelled" THEN harm \cup {"late bet"} ELSE harm
     /\ asked' = [asked EXCEPT ![b] = Nothing]
     /\ UNCHANGED <<round, option, refunds, admin, sent, faults>>

\* Neither is the status of the bet.
CancelCommits(b) ==
  LET o == asked[b][2]
  IN /\ asked[b][1] = "cancel" /\ o \in There /\ ~Locked(o)
     /\ b \notin admin.refunded \ admin.between
     /\ bet' = [bet EXCEPT ![b].status = "cancelled"]
     /\ total' = [total EXCEPT ![o] = @ - 1]
     /\ refunds' = [refunds EXCEPT ![b] = @ + 1]
     /\ harm' = IF bet[b].status = "active" /\ b \notin admin.between
                  THEN harm ELSE harm \cup {"stale refund", "stale total"}
     /\ asked' = [asked EXCEPT ![b] = Nothing]
     /\ UNCHANGED <<round, option, admin, sent, faults>>

----------------------------------------------------------------------------
(***************************************************************************)
(* createBettingVariable saves the round, then its options one by one.     *)
(***************************************************************************)
Create(os) ==
  /\ round = "none" /\ \A o \in os : option[o] = "new"
  /\ At("rest") /\ sent < MaxAdmin /\ sent' = sent + 1
  /\ round' = "created"
  /\ admin' = Asking("creating", os, {}, {})
  /\ UNCHANGED <<option, total, bet, refunds, asked, faults, harm>>

NewOption(o) ==
  /\ \/ At("creating")
     \/ At("editing") /\ admin.save = {}
  /\ o \in admin.create
  /\ option' = [option EXCEPT ![o] = "there"]
  /\ total' = [total EXCEPT ![o] = 0]
  /\ admin' = [admin EXCEPT !.create = @ \ {o}]
  /\ UNCHANGED <<round, bet, refunds, asked, sent, faults, harm>>

\* updateRoundStatus, one of its two transitions.
Open ==
  /\ At("rest") /\ round = "created"
  /\ round' = "open"
  /\ UNCHANGED <<option, total, bet, refunds, asked, admin, sent, faults, harm>>

(***************************************************************************)
(* editBettingVariable: the request keeps some options and adds others, or *)
(* leaves the round out.  Nothing asks for the status of the round.        *)
(***************************************************************************)
Edit(keep, add) ==
  /\ round # "none"
  /\ keep \subseteq There /\ \A o \in add : option[o] = "new"
  /\ Sends(Asking("fetching", add, keep, {}))

\* updateRoundOptions reads the options, totals and all.
Fetch ==
  /\ At("fetching")
  /\ admin' = Request("editing", admin.create, admin.save, There \ admin.save,
                       NothingRead, total)
  /\ UNCHANGED <<tables, asked, sent, faults, harm>>

\* save() of an option that is renamed writes back what it had read.
SaveEdited(o) ==
  /\ At("editing") /\ o \in admin.save
  /\ total' = [total EXCEPT ![o] = admin.total[o]]
  /\ harm' = IF total[o] = admin.total[o] THEN harm
               ELSE harm \cup {"stale total"}
  /\ admin' = [admin EXCEPT !.save = @ \ {o}]
  /\ UNCHANGED <<round, option, bet, refunds, asked, sent, faults>>

\* Rows of options are deleted, and with them the bets that refer to them.
Deleting(os) ==
  /\ option' = [o \in Options |-> IF o \in os THEN "deleted" ELSE option[o]]
  /\ bet' = [b \in Bets |-> IF bet[b].option \in os
                              THEN [bet[b] EXCEPT !.status = "gone"] ELSE bet[b]]
  /\ harm' = IF \E o \in os : ActiveOn(o) # {}
               THEN harm \cup {"stake deleted"} ELSE harm

Remove(o) ==
  /\ At("editing") /\ admin.save = {} /\ admin.create = {}
  /\ o \in admin.remove
  /\ Deleting({o})
  /\ admin' = [admin EXCEPT !.remove = @ \ {o}]
  /\ UNCHANGED <<round, total, refunds, asked, sent, faults>>

\* The options of a round that was left out are deleted, then the round.
Drop ==
  /\ round # "none"
  /\ Sends(Asking("dropping", {}, {}, There))

DropOptions ==
  /\ At("dropping")
  /\ Deleting(admin.remove)
  /\ admin' = [admin EXCEPT !.at = "dropped"]
  /\ UNCHANGED <<round, total, refunds, asked, sent, faults>>

DropRound ==
  /\ At("dropped")
  /\ round' = "none"
  /\ Deleting(There)
  /\ admin' = Resting
  /\ UNCHANGED <<total, refunds, asked, sent, faults>>

----------------------------------------------------------------------------
(***************************************************************************)
(* cancelRoundAndRefund.  What its transaction writes is seen when it      *)
(* commits; saved holds the options, and refunded the bets, that it locks. *)
(***************************************************************************)
CancelRound ==
  /\ round # "none"
  /\ Sends(Request("cancelling", {}, There, {}, bet, total))

\* Mutation of ToRefund: bets of any status.
ToRefundAll(o) == {b \in Bets : admin.bets[b].option = o}

\* The bets of an option that were active when they were read.
ToRefund(o) ==
  {b \in Bets : admin.bets[b].option = o /\ admin.bets[b].status = "active"}

\* Mutation of Refund: a refund that fails is passed over.
RefundOrNot(o, b) ==
  /\ At("cancelling") /\ o \in admin.save /\ admin.between = {}
  /\ b \in ToRefund(o) \ admin.refunded
  /\ \E paid \in 0..1 : refunds' = [refunds EXCEPT ![b] = @ + paid]
  /\ admin' = [admin EXCEPT !.refunded = @ \cup {b}, !.between = {b}]
  /\ UNCHANGED <<round, option, total, bet, asked, sent, faults, harm>>

\* The refund commits at once, whatever became of the bet.
Refund(o, b) ==
  /\ At("cancelling") /\ o \in admin.save /\ admin.between = {}
  /\ b \in ToRefund(o) \ admin.refunded
  /\ refunds' = [refunds EXCEPT ![b] = @ + 1]
  /\ harm' = IF bet[b].status = admin.bets[b].status THEN harm
               ELSE harm \cup {"stale refund", "stale total"}
  /\ admin' = [admin EXCEPT !.refunded = @ \cup {b}, !.between = {b}]
  /\ UNCHANGED <<round, option, total, bet, asked, sent, faults>>

SaveBet(b) ==
  /\ At("cancelling") /\ b \in admin.between
  /\ admin' = [admin EXCEPT !.between = {}]
  /\ UNCHANGED <<tables, asked, sent, faults, harm>>

\* Mutation of Newer: the option is saved without its bets.
NewerUnseen(o) == {b \in Bets : bet[b].option = o /\ b \in admin.between}

\* The bets of the option in the table that were not there when it was read.
Newer(o) == {b \in Bets : bet[b].option = o /\ admin.bets[b].option # o}

SaveCancelled(o) ==
  /\ At("cancelling") /\ o \in admin.save /\ admin.between = {}
  /\ ToRefund(o) \subseteq admin.refunded
  /\ Newer(o) = {}
  /\ admin' = [admin EXCEPT !.save = @ \ {o}, !.saved = @ \cup {o}]
  /\ UNCHANGED <<tables, asked, sent, faults, harm>>

\* Mutation of TotalAfter: the refunds are not taken off.
TotalAsRead(o) == admin.total[o]

TotalAfter(o) == admin.total[o] - Cardinality(ToRefund(o) \cap admin.refunded)

\* The bets that the transaction cancels: those it has refunded.
Cancelled == admin.refunded

CancelRoundCommits ==
  /\ At("cancelling") /\ admin.save = {} /\ admin.between = {}
  /\ round' = "cancelled"
  /\ bet' = [b \in Bets |-> IF b \in Cancelled
                              THEN [bet[b] EXCEPT !.status = "cancelled"] ELSE bet[b]]
  /\ total' = [o \in Options |-> IF o \in admin.saved THEN TotalAfter(o) ELSE total[o]]
  /\ harm' = IF \E o \in admin.saved :
                  total[o] # admin.total[o] THEN harm \cup {"stale total"} ELSE harm
  /\ admin' = Resting
  /\ UNCHANGED <<option, refunds, asked, sent, faults>>

RolledBack ==
  /\ admin' = Resting
  /\ harm' = IF admin.refunded = {} THEN harm ELSE harm \cup {"refund kept"}
  /\ UNCHANGED <<tables, asked, sent>>

\* save() would take a newer bet away from its option: the database refuses.
SaveRefused(o) ==
  /\ At("cancelling") /\ o \in admin.save /\ admin.between = {}
  /\ ToRefund(o) \subseteq admin.refunded
  /\ Newer(o) # {}
  /\ RolledBack
  /\ UNCHANGED faults

Fail ==
  /\ ~At("rest")
  /\ faults < MaxFaults /\ faults' = faults + 1
  /\ RolledBack

\* A request that has nothing left to do is answered.
Done ==
  /\ At("creating") \/ At("editing")
  /\ admin.create = {} /\ admin.save = {} /\ admin.remove = {}
  /\ admin' = Resting
  /\ UNCHANGED <<tables, asked, sent, faults, harm>>

----------------------------------------------------------------------------
Next ==
  \/ \E b \in Bets :
       \/ Cancel(b) \/ Refused(b) \/ PlaceCommits(b) \/ CancelCommits(b)
       \/ SaveBet(b)
       \/ \E o \in Options : Place(b, o) \/ Refund(o, b)
  \/ \E o \in Options :
       \/ NewOption(o) \/ SaveEdited(o) \/ Remove(o)
       \/ SaveCancelled(o) \/ SaveRefused(o)
  \/ \E os \in SUBSET Options :
       Create(os) \/ \E keep \in SUBSET Options : Edit(keep, os)
  \/ Open \/ Fetch \/ Drop \/ DropOptions \/ DropRound
  \/ CancelRound \/ CancelRoundCommits \/ Fail \/ Done

Spec == Init /\ [][Next]_vars

----------------------------------------------------------------------------
(***************************************************************************)
(* Properties.                                                             *)
(***************************************************************************)
\* A stake is given back once, though the refunds and the statuses they
\* belong to are not written together, unless a cancellation failed after a
\* refund, or refunded a bet that its user cancelled meanwhile.
RefundedOnce ==
  harm \cap {"refund kept", "stale refund"} = {}
    => \A b \in Bets : refunds[b] <= 1

\* A bet is active and its stake not given back, or it is cancelled and the
\* stake was; a stake is lost only where an option is deleted with its bets.
NoStakeLost ==
  \A b \in Bets :
    /\ bet[b].status = "cancelled" => refunds[b] > 0
    /\ bet[b].status = "gone" => refunds[b] > 0 \/ "stake deleted" \in harm

\* A round that was cancelled has no active bet, unless one was committed
\* after the cancellation that had read the round as open.
CancelledRoundIsSettled ==
  round = "cancelled" /\ "late bet" \notin harm => Active = {}

\* An option counts its active bets, unless a request saved the total it had
\* read over one that had changed.
TotalsMatchBets ==
  "stale total" \notin harm
    => \A o \in There : total[o] = Cardinality(ActiveOn(o))
=============================================================================
