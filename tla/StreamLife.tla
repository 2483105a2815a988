----------------------------- MODULE StreamLife -----------------------------
(***************************************************************************)
(* What the life of a scheduled stream promises, whatever the queue, the   *)
(* worker and the administrators' requests do in between: it goes live     *)
(* once, when its start has come, or it is called off for good, and then   *)
(* its rounds are cancelled.                                               *)
(***************************************************************************)
EXTENDS Naturals

CONSTANT Rounds  \* the betting rounds of the stream

VARIABLES
  clock,
  status,    \* "none" until the stream is created
  start,     \* its scheduled start
  cancelled  \* the rounds of the stream that were cancelled

lifeVars == <<clock, status, start, cancelled>>

CalledOff == {"cancelled", "deleted"}

LifeInit == clock = 0 /\ status = "none" /\ start = 0 /\ cancelled = {}

Pass == clock' = clock + 1 /\ UNCHANGED <<status, start, cancelled>>

Announce ==
  /\ status = "none"
  /\ start' \in Nat
  /\ status' = IF start' <= clock THEN "live" ELSE "scheduled"
  /\ UNCHANGED <<clock, cancelled>>

GoLive ==
  /\ status = "scheduled" /\ start <= clock
  /\ status' = "live"
  /\ UNCHANGED <<clock, start, cancelled>>

CallOff ==
  /\ status # "none"
  /\ status' \in CalledOff
  /\ UNCHANGED <<clock, start, cancelled>>

CancelOneRound ==
  /\ status \in CalledOff
  /\ \E r \in Rounds \ cancelled : cancelled' = cancelled \cup {r}
  /\ UNCHANGED <<clock, status, start>>

LifeNext == Pass \/ Announce \/ GoLive \/ CallOff \/ CancelOneRound

LifeSpec == LifeInit /\ [][LifeNext]_lifeVars
=============================================================================
