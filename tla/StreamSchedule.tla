--------------------------- MODULE StreamSchedule ---------------------------
(***************************************************************************)
(* One scheduled stream: its row in the table streams, the delayed job     *)
(* that takes it live, the worker that runs the job, and the requests of   *)
(* the administrators.  Every await is a step: a handler reads the row,    *)
(* changes what it has read, and save() of TypeORM writes back every       *)
(* column in which that differs from the row of the moment.                *)
(*                                                                         *)
(* The queue is BullMQ over Redis: the id of the job is the id of the      *)
(* stream, so that add does nothing while a job of that id is kept; remove *)
(* throws when a worker holds the job and does nothing when it is gone.    *)
(***************************************************************************)
EXTENDS Integers, FiniteSets, TLC

CONSTANTS
  Admins,       \* administrators, each with one request at a time
  Kinds,        \* the requests they send
  Rounds,       \* the betting rounds of the stream
  Edits,        \* what an update asks for: new values of some columns
  MaxClock,     \* the last instant of the run
  MaxRequests,  \* how many requests arrive
  MaxFaults,    \* how many outside failures: bounds the run
  MaxStops,     \* how many times the process stops: bounds the run
  Attempts      \* attempts of the job: queue.config.ts says 3

ASSUME AttemptsAssumption == Attempts \in Nat \ {0}
ASSUME MaxClockAssumption == MaxClock \in Nat

VARIABLES
  stream,     \* the row: its status and scheduled start
  cancelled,  \* the rounds that were cancelled
  job,        \* the job of the stream in the queue
  worker,     \* what the worker that runs the job has read
  req,        \* of each administrator, the request in flight
  clock,
  sent,       \* how many requests have arrived
  faults,     \* how many outside failures there were
  stops,      \* how many times the process stopped
  harm        \* what happened that may leave the schedule broken

vars == <<stream, cancelled, job, worker, req, clock, sent, faults, stops, harm>>

Statuses == {"scheduled", "live", "ended", "cancelled", "deleted"}
Instants == 0 .. MaxClock
Rows == [status : Statuses \cup {"none"}, start : Instants]

\* The DTO of an update lets pass some of the columns, and a status that is
\* one of the enumeration.
ASSUME EditsAssumption ==
  \A edit \in Edits :
    /\ DOMAIN edit \subseteq {"status", "start"}
    /\ "status" \in DOMAIN edit => edit.status \in Statuses
    /\ "start" \in DOMAIN edit => edit.start \in Instants

JobStates == {"none", "delayed", "active", "done", "failed"}
NoJob == [state |-> "none", due |-> 0, tries |-> 0, stalled |-> FALSE]
Idle == [pc |-> "idle"]
Harms == {"overwritten", "halfway", "stopped", "exhausted", "unqueued", "crossed"}

Started(t) == t <= clock

TypeOK ==
  /\ stream \in Rows
  /\ cancelled \subseteq Rounds
  /\ job \in [state : JobStates, due : Instants, tries : 0 .. Attempts,
              stalled : BOOLEAN]
  /\ \/ worker \in [pc : {"idle", "read"}]
     \/ worker \in [pc : {"save"}, row : Rows, seen : Rows]
  /\ DOMAIN req = Admins
  /\ clock \in Instants
  /\ harm \subseteq Harms

Init ==
  /\ stream = [status |-> "none", start |-> 0]
  /\ cancelled = {}
  /\ job = NoJob
  /\ worker = Idle
  /\ req = [a \in Admins |-> Idle]
  /\ clock = 0 /\ sent = 0 /\ faults = 0 /\ stops = 0
  /\ harm = {}

Tick ==
  /\ clock < MaxClock
  /\ clock' = clock + 1
  /\ UNCHANGED <<stream, cancelled, job, worker, req, sent, faults, stops, harm>>

----------------------------------------------------------------------------
(***************************************************************************)
(* The queue and its worker.                                               *)
(***************************************************************************)
Delayed(t) == [state |-> "delayed", due |-> t, tries |-> 0, stalled |-> FALSE]

\* The id of the job is the id of the stream: one that is kept, whatever
\* its state, makes add do nothing.
Enqueue(t) == job' = IF job.state = "none" THEN Delayed(t) ELSE job

\* Mutation of Remove: a job that a worker holds is removed as well.
RemoveAnyway(removed, locked) == removed /\ job' = NoJob

\* job.remove(): it throws when a worker holds the job.
Remove(removed, locked) ==
  \/ job.state # "active" /\ removed /\ job' = NoJob
  \/ job.state = "active" /\ locked /\ UNCHANGED job

\* removeOnComplete and removeOnFail: only so many ended jobs are kept.
EvictJob ==
  /\ job.state \in {"done", "failed"}
  /\ job' = NoJob
  /\ UNCHANGED <<stream, cancelled, worker, req, clock, sent, faults, stops, harm>>

TakeJob ==
  /\ job.state = "delayed" /\ job.due <= clock
  /\ job' = [job EXCEPT !.state = "active"]
  /\ worker' = [pc |-> "read"]
  /\ UNCHANGED <<stream, cancelled, req, clock, sent, faults, stops, harm>>

\* Mutation of GoneLive: the start is compared with < instead of <=.
GoneLiveLater(row) ==
  IF row.status = "scheduled" /\ row.start < clock
    THEN [row EXCEPT !.status = "live"] ELSE row

\* What updateStreamStatus makes of the row it has read.
GoneLive(row) ==
  IF row.status = "scheduled" /\ Started(row.start)
    THEN [row EXCEPT !.status = "live"] ELSE row

JobRead ==
  /\ worker.pc = "read"
  /\ \/ /\ stream.status = "live"    \* it returns at once
        /\ worker' = Idle
        /\ job' = [job EXCEPT !.state = "done"]
     \/ /\ stream.status # "live"
        /\ worker' = [pc |-> "save", row |-> GoneLive(stream), seen |-> stream]
        /\ UNCHANGED job
  /\ UNCHANGED <<stream, cancelled, req, clock, sent, faults, stops, harm>>

\* A save writes over what others wrote since its row was read.
Overwriting(seen) == IF stream = seen THEN {} ELSE {"overwritten"}

JobSave ==
  /\ worker.pc = "save"
  /\ stream' = worker.row
  /\ harm' = harm \cup Overwriting(worker.seen)
  /\ worker' = Idle
  /\ job' = [job EXCEPT !.state = "done"]
  /\ UNCHANGED <<cancelled, req, clock, sent, faults, stops>>

\* Mutation of Retried: a failed attempt is not tried again.
NotRetried == [job EXCEPT !.tries = @ + 1, !.state = "done"]

\* An attempt failed: the job waits for the next one, or has failed.
Retried ==
  IF job.tries + 1 < Attempts
    THEN [job EXCEPT !.tries = @ + 1, !.state = "delayed", !.due = clock]
    ELSE [job EXCEPT !.tries = @ + 1, !.state = "failed"]

\* The database refuses the read or the save of the worker.
JobFails ==
  /\ worker.pc \in {"read", "save"}
  /\ faults < MaxFaults
  /\ faults' = faults + 1
  /\ worker' = Idle
  /\ job' = Retried
  /\ harm' = IF job'.state = "failed" THEN harm \cup {"exhausted"} ELSE harm
  /\ UNCHANGED <<stream, cancelled, req, clock, sent, stops>>

----------------------------------------------------------------------------
(***************************************************************************)
(* Requests.                                                               *)
(***************************************************************************)
Answer(a) == req' = [req EXCEPT ![a] = Idle]
Go(a, next) == req' = [req EXCEPT ![a] = next]
At(a, kind, pc) == req[a].pc = pc /\ req[a].kind = kind

Arrive(a, kind) ==
  /\ req[a].pc = "idle"
  /\ kind \in Kinds
  /\ sent < MaxRequests
  /\ sent' = sent + 1

\* The process stops: requests and worker are gone.  Of the job that was
\* running BullMQ makes a waiting one, once; the next time it has failed.
Stopped ==
  /\ stops < MaxStops
  /\ stops' = stops + 1
  /\ req' = [a \in Admins |-> Idle]
  /\ worker' = Idle
  /\ job' = CASE job.state # "active" -> job
              [] job.state = "active" /\ ~job.stalled ->
                   [job EXCEPT !.state = "delayed", !.due = clock, !.stalled = TRUE]
              [] job.state = "active" /\ job.stalled ->
                   [job EXCEPT !.state = "failed"]
  /\ harm' = harm \cup {"stopped"}

Stop ==
  /\ Stopped
  /\ stream.status # "none"
  /\ UNCHANGED <<stream, cancelled, clock, sent, faults>>

\* BettingService.createStream: live at once when the start has come.
CreateStream(a) == \E t \in Instants :
  /\ Arrive(a, "create")
  /\ stream.status = "none"
  /\ \/ /\ Started(t)
        /\ stream' = [status |-> "live", start |-> t]
        /\ UNCHANGED req
     \/ /\ ~Started(t)
        /\ stream' = [status |-> "scheduled", start |-> t]
        /\ Go(a, [pc |-> "schedule", kind |-> "create", start |-> t])
  /\ UNCHANGED <<cancelled, job, worker, clock, faults, stops, harm>>

\* scheduleStream, which its callers do not await: a start that has passed
\* by then is refused by an exception that nothing handles, and the process
\* stops.
ScheduleStream(a) ==
  /\ req[a].pc = "schedule"
  /\ \/ /\ req[a].start >= clock
        /\ Enqueue(req[a].start)
        /\ Answer(a)
        /\ harm' = IF job.state = "none" THEN harm ELSE harm \cup {"crossed"}
        /\ UNCHANGED <<worker, stops>>
     \/ req[a].start < clock /\ Stopped
  /\ UNCHANGED <<stream, cancelled, clock, sent, faults>>

----------------------------------------------------------------------------
\* Mutation of Edited: what the request leaves out is emptied.
EditedOnly(row, edit) == edit @@ [status |-> "", start |-> row.start]

\* updateStream reads the row and changes the columns it was given.
Edited(row, edit) ==
  [c \in DOMAIN row |-> IF c \in DOMAIN edit THEN edit[c] ELSE row[c]]

UpdateStream(a) == \E edit \in Edits :
  /\ Arrive(a, "update")
  /\ stream.status # "none"
  /\ Go(a, [pc |-> "save", kind |-> "update", seen |-> stream,
            row |-> Edited(stream, edit), moved |-> "start" \in DOMAIN edit])
  /\ UNCHANGED <<stream, cancelled, job, worker, clock, faults, stops, harm>>

\* BettingService.updateStreamStatus and endStreamIfAllRoundsClosedOrCancelled
\* read the row and set its status.
SetStreamStatus(a) == \E status \in {"live", "ended"} :
  /\ Arrive(a, "status")
  /\ stream.status # "none"
  /\ Go(a, [pc |-> "save", kind |-> "status", seen |-> stream,
            row |-> [stream EXCEPT !.status = status], moved |-> FALSE])
  /\ UNCHANGED <<stream, cancelled, job, worker, clock, faults, stops, harm>>

\* A stream is scheduled and no job was asked for.
Unqueued(q) ==
  IF q.row.status = "scheduled" /\ q.seen.status # "scheduled" /\ ~q.moved
    THEN {"unqueued"} ELSE {}

SaveStream(a) ==
  /\ req[a].pc = "save"
  /\ stream' = req[a].row
  /\ harm' = harm \cup Overwriting(req[a].seen) \cup Unqueued(req[a])
  /\ \/ req[a].moved /\ Go(a, [req[a] EXCEPT !.pc = "job"])
     \/ ~req[a].moved /\ Answer(a)
  /\ UNCHANGED <<cancelled, job, worker, clock, sent, faults, stops>>

\* What updateStream does once the old job is gone.
AfterRemoval(a, row) ==
  IF row.status = "scheduled"
    THEN Go(a, [pc |-> "schedule", kind |-> "update", start |-> row.start])
    ELSE Answer(a)

FindMovedJob(a) ==
  /\ At(a, "update", "job")
  /\ \/ job.state # "none" /\ Go(a, [req[a] EXCEPT !.pc = "remove"])
     \/ job.state = "none" /\ AfterRemoval(a, req[a].row)
  /\ UNCHANGED <<stream, cancelled, job, worker, clock, sent, faults, stops, harm>>

RemoveMovedJob(a) ==
  /\ At(a, "update", "remove")
  /\ Remove(/\ AfterRemoval(a, req[a].row)
            /\ harm' = IF stream = req[a].row THEN harm
                       ELSE harm \cup {"crossed"},
            /\ Answer(a) /\ harm' = harm \cup {"halfway"})
  /\ UNCHANGED <<stream, cancelled, worker, clock, sent, faults, stops>>

----------------------------------------------------------------------------
\* cancelScheduledStream and deleteScheduledStream: both read the stream if
\* it is scheduled, with its active rounds; both remove the job, set the
\* status and then cancel the rounds they have read.
StatusOf(kind) == IF kind = "cancel" THEN "cancelled" ELSE "deleted"

CallOffStream(a) == \E kind \in {"cancel", "delete"} :
  /\ Arrive(a, kind)
  /\ stream.status = "scheduled"
  /\ Go(a, [pc |-> "job", kind |-> kind, rounds |-> Rounds \ cancelled])
  /\ UNCHANGED <<stream, cancelled, job, worker, clock, faults, stops, harm>>

CallingOff(a, pc) == At(a, "cancel", pc) \/ At(a, "delete", pc)

FindScheduledJob(a) ==
  /\ CallingOff(a, "job")
  /\ \/ job.state # "none" /\ Go(a, [req[a] EXCEPT !.pc = "remove"])
     \/ job.state = "none" /\ Answer(a)
  /\ UNCHANGED <<stream, cancelled, job, worker, clock, sent, faults, stops, harm>>

RemoveScheduledJob(a) ==
  /\ CallingOff(a, "remove")
  /\ Remove(Go(a, [req[a] EXCEPT !.pc = "status"]), Answer(a))
  /\ UNCHANGED <<stream, cancelled, worker, clock, sent, faults, stops, harm>>

\* Mutation of WriteCalledOff: the rounds are left as they are.
WriteCalledOffOnly(a) ==
  /\ CallingOff(a, "status")
  /\ stream' = [stream EXCEPT !.status = StatusOf(req[a].kind)]
  /\ Answer(a)
  /\ UNCHANGED <<cancelled, job, worker, clock, sent, faults, stops, harm>>

WriteCalledOff(a) ==
  /\ CallingOff(a, "status")
  /\ stream' = [stream EXCEPT !.status = StatusOf(req[a].kind)]
  /\ Go(a, [req[a] EXCEPT !.pc = "rounds"])
  /\ UNCHANGED <<cancelled, job, worker, clock, sent, faults, stops, harm>>

\* cancelRoundAndRefund of one round after the other; when it throws, the
\* rounds that are left keep their bets.
CancelNextRound(a) ==
  /\ CallingOff(a, "rounds")
  /\ \/ /\ req[a].rounds = {}
        /\ Answer(a)
        /\ UNCHANGED <<cancelled, faults, harm>>
     \/ /\ \E r \in req[a].rounds :
             /\ cancelled' = cancelled \cup {r}
             /\ Go(a, [req[a] EXCEPT !.rounds = @ \ {r}])
        /\ UNCHANGED <<faults, harm>>
     \/ /\ req[a].rounds # {}
        /\ faults < MaxFaults
        /\ faults' = faults + 1
        /\ Answer(a)
        /\ harm' = harm \cup {"halfway"}
        /\ UNCHANGED cancelled
  /\ UNCHANGED <<stream, job, worker, clock, sent, stops>>

----------------------------------------------------------------------------
WorkerStep == TakeJob \/ JobRead \/ JobSave

RequestStep(a) ==
  \/ ScheduleStream(a) \/ SaveStream(a)
  \/ FindMovedJob(a) \/ RemoveMovedJob(a)
  \/ FindScheduledJob(a) \/ RemoveScheduledJob(a)
  \/ WriteCalledOff(a) \/ CancelNextRound(a)

Next ==
  \/ Tick \/ EvictJob \/ WorkerStep \/ JobFails \/ Stop
  \/ \E a \in Admins :
       \/ CreateStream(a) \/ UpdateStream(a) \/ SetStreamStatus(a)
       \/ CallOffStream(a)
       \/ RequestStep(a)

Spec == Init /\ [][Next]_vars

\* Time passes, the worker polls the queue, and the event loop runs the
\* continuation of every await.
Fairness ==
  /\ WF_vars(Tick) /\ WF_vars(WorkerStep)
  /\ \A a \in Admins : WF_vars(RequestStep(a))

LiveSpec == Spec /\ Fairness

----------------------------------------------------------------------------
(***************************************************************************)
(* Properties.                                                             *)
(***************************************************************************)
Quiet == worker = Idle /\ \A a \in Admins : req[a] = Idle

\* A stream that is scheduled when nothing is in flight has a job that will
\* take it live, due at its start unless an attempt failed, or one of the six
\* ways to lose it has happened: a save over a row that changed since it was
\* read, a request that ended halfway, a stop of the process, three failed
\* attempts, an edit that asks for the status alone, or two requests that add
\* and remove the job across each other.
ScheduledHasJob ==
  Quiet /\ stream.status = "scheduled" /\ harm = {}
    => job.state = "delayed" /\ (job.tries = 0 => job.due = stream.start)

\* Calling a stream off leaves none of its rounds open, unless a refund
\* failed or the process stopped: then the rest stay as they are, and the
\* stream, no longer scheduled, cannot be called off again.
RoundsFollowStream ==
  /\ Quiet /\ harm \cap {"halfway", "stopped", "overwritten"} = {}
  /\ stream.status \in {"cancelled", "deleted"}
  => cancelled = Rounds

\* With create, cancel and delete alone no job is left to run, and none is
\* running, for a stream that was called off: remove gives way to a worker
\* that holds the job, and a worker finds no job that was removed.
CalledOffHasNoJob ==
  stream.status \in {"cancelled", "deleted"} => worker = Idle /\ job = NoJob

\* With create, cancel and delete alone the stream behaves as StreamLife
\* says: it goes live when its start has come or is called off for good,
\* however requests, worker, failures and stops interleave.
Life == INSTANCE StreamLife WITH status <- stream.status, start <- stream.start
LifeOfStream == Life!LifeSpec

\* A stream whose job is queued leaves the schedule, unless the job is
\* removed by a request or fails for good.
QueuedStreamLeavesSchedule ==
  (stream.status = "scheduled" /\ job.state \in {"delayed", "active"})
    ~> (stream.status # "scheduled" \/ job.state \in {"none", "failed"})
=============================================================================
