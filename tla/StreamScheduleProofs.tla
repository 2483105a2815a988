------------------------ MODULE StreamScheduleProofs ------------------------
(***************************************************************************)
(* Proofs about StreamSchedule, for any number of administrators, rounds,  *)
(* attempts, failures and stops.                                           *)
(*                                                                         *)
(* First: a stream that is created, called off and taken live by its job,  *)
(* and neither edited nor ended, behaves as StreamLife says.  It is        *)
(* created once, so that one job is queued for it, once.  Whoever calls it *)
(* off finds that job and removes it, which it cannot while the worker     *)
(* holds it: afterwards there never is a job, nor a worker, and whoever    *)
(* holds the job sees the row it has read unchanged.                       *)
(*                                                                         *)
(* Then, for every kind of request: a scheduled stream has its job, or a   *)
(* request that is about to give it one.                                   *)
(***************************************************************************)
EXTENDS StreamSchedule, TLAPS

OnlyCalledOff == Kinds \subseteq {"create", "cancel", "delete"}

Requests ==
  [pc : {"idle"}]
    \cup [pc : {"schedule"}, kind : {"create"}, start : Instants]
    \cup [pc : {"job", "remove", "status", "rounds"},
          kind : {"cancel", "delete"}, rounds : SUBSET Rounds]

Jobs == [state : JobStates, due : Int, tries : Int, stalled : BOOLEAN]

Typed ==
  /\ stream \in Rows
  /\ cancelled \subseteq Rounds
  /\ job \in Jobs
  /\ \/ worker = Idle
     \/ worker = [pc |-> "read"]
     \/ worker \in [pc : {"save"}, row : Rows, seen : Rows]
  /\ req \in [Admins -> Requests]
  /\ clock \in Nat

\* No job is kept and none is run.
Gone == job = NoJob /\ worker = Idle

IsCalledOff == stream.status \in {"cancelled", "deleted"}

\* Before its job is queued a stream has none, and nobody has found one.
QueuedOnce ==
  /\ stream.status = "none" => Gone /\ \A a \in Admins : req[a].pc = "idle"
  /\ \A a \in Admins : req[a].pc = "schedule" =>
       /\ Gone /\ stream.status = "scheduled"
       /\ \A b \in Admins \ {a} : req[b].pc \in {"idle", "job"}

\* The worker holds the active job, and sees the row as it is.
WorkerAgrees ==
  /\ worker.pc # "idle" => job.state = "active"
  /\ worker.pc = "save" =>
       \/ worker.row = stream
       \/ /\ stream.status = "scheduled" /\ Started(stream.start)
          /\ worker.row = [stream EXCEPT !.status = "live"]

\* Once its job is removed a stream never has one again.
RemovedForGood ==
  /\ \A a \in Admins : req[a].pc \in {"status", "rounds"} => Gone
  /\ \A a \in Admins : req[a].pc = "rounds" => IsCalledOff
  /\ IsCalledOff => Gone /\ \A a \in Admins : req[a].pc # "schedule"

IInv == Typed /\ QueuedOnce /\ WorkerAgrees /\ RemovedForGood

----------------------------------------------------------------------------
(***************************************************************************)
(* The steps of the requests.                                              *)
(***************************************************************************)
LEMMA InitInvariant == Init => IInv
<1> SUFFICES ASSUME Init PROVE IInv
  OBVIOUS
<1>1. Typed
  BY MaxClockAssumption
     DEF Init, Typed, Rows, Statuses, Instants, Jobs, JobStates, NoJob, Requests, Idle
<1>2. QueuedOnce /\ WorkerAgrees /\ RemovedForGood
  BY DEF Init, QueuedOnce, WorkerAgrees, RemovedForGood, Gone, IsCalledOff, Idle
<1> QED BY <1>1, <1>2 DEF IInv

\* What administrator a waits for becomes r.
LEMMA Going ==
  ASSUME Typed, NEW a \in Admins, NEW r \in Requests, Go(a, r)
  PROVE  /\ req' \in [Admins -> Requests] /\ req'[a] = r
         /\ \A b \in Admins \ {a} : req'[b] = req[b]
BY DEF Typed, Go

LEMMA IdleIsRequest == Idle \in Requests /\ Idle.pc = "idle"
BY DEF Idle, Requests

\* A request that calls off a stream, as it moves from step to step.
LEMMA CallingOffType ==
  ASSUME Typed, NEW a \in Admins, NEW pc \in {"job", "remove", "status", "rounds"},
         req[a].pc = pc
  PROVE  /\ req[a] \in [pc : {"job", "remove", "status", "rounds"},
                        kind : {"cancel", "delete"}, rounds : SUBSET Rounds]
         /\ \A next \in {"job", "remove", "status", "rounds"} :
              /\ [req[a] EXCEPT !.pc = next] \in Requests
              /\ [req[a] EXCEPT !.pc = next].pc = next
BY DEF Typed, Requests

LEMMA CreateKeeps ==
  ASSUME IInv, NEW a \in Admins, CreateStream(a) PROVE IInv'
<1>1. PICK t \in Instants :
        /\ stream.status = "none"
        /\ \/ /\ Started(t) /\ req' = req
              /\ stream' = [status |-> "live", start |-> t]
           \/ /\ ~Started(t)
              /\ stream' = [status |-> "scheduled", start |-> t]
              /\ Go(a, [pc |-> "schedule", kind |-> "create", start |-> t])
        /\ UNCHANGED <<cancelled, job, worker, clock>>
  BY DEF CreateStream
<1>2. Gone /\ Gone' /\ \A b \in Admins : req[b].pc = "idle"
  BY <1>1 DEF IInv, QueuedOnce, Gone
<1>3. worker'.pc = "idle"
  BY <1>2 DEF Gone, Idle
<1>4. stream' \in Rows /\ ~IsCalledOff' /\ stream'.status # "none"
  BY <1>1 DEF Rows, Statuses, IsCalledOff
<1>5. CASE req' = req
  <2>1. Typed'
    BY <1>1, <1>4, <1>5 DEF IInv, Typed
  <2> QED BY <1>2, <1>3, <1>4, <1>5, <2>1
          DEF IInv, QueuedOnce, WorkerAgrees, RemovedForGood
<1>6. CASE /\ stream'.status = "scheduled"
           /\ Go(a, [pc |-> "schedule", kind |-> "create", start |-> t])
  <2> DEFINE r == [pc |-> "schedule", kind |-> "create", start |-> t]
  <2>1. r \in Requests /\ r.pc = "schedule"
    BY DEF Requests
  <2> HIDE DEF r
  <2>2. /\ req' \in [Admins -> Requests] /\ req'[a] = r
        /\ \A b \in Admins \ {a} : req'[b] = req[b]
    BY <1>6, <2>1, Going DEF IInv, r
  <2>3. Typed'
    BY <1>1, <1>4, <2>2 DEF IInv, Typed
  <2>4. QueuedOnce'
    BY <1>2, <1>4, <1>6, <2>1, <2>2 DEF QueuedOnce
  <2>5. WorkerAgrees' /\ RemovedForGood'
    BY <1>2, <1>3, <1>4, <2>1, <2>2 DEF WorkerAgrees, RemovedForGood
  <2> QED BY <2>3, <2>4, <2>5 DEF IInv
<1> QED BY <1>1, <1>5, <1>6

\* The process stops: nobody waits for anything.
LEMMA StoppedKeeps ==
  ASSUME IInv, Stopped, UNCHANGED <<stream, cancelled, clock>> PROVE IInv'
<1>1. /\ req' = [b \in Admins |-> Idle] /\ worker' = Idle
      /\ job.state # "active" => job' = job
  BY DEF Stopped
<1> DEFINE waiting == [job EXCEPT !.state = "delayed"]
           now == [waiting EXCEPT !.due = clock]
           again == [now EXCEPT !.stalled = TRUE]
           failed == [job EXCEPT !.state = "failed"]
<1>2. job' = job \/ job' = again \/ job' = failed
  BY DEF Stopped
<1>3. job \in Jobs /\ clock \in Int
  BY DEF IInv, Typed
<1>4. job' \in Jobs
  <2>1. waiting \in Jobs /\ failed \in Jobs
    BY <1>3 DEF Jobs, JobStates
  <2> HIDE DEF waiting, failed
  <2>2. now \in Jobs
    BY <1>3, <2>1 DEF Jobs
  <2> HIDE DEF now
  <2>3. again \in Jobs
    BY <2>2 DEF Jobs
  <2> HIDE DEF again
  <2> QED BY <1>2, <1>3, <2>1, <2>3
<1>5. Gone => Gone'
  BY <1>1 DEF Gone, NoJob
<1>6. \A b \in Admins : req'[b].pc = "idle"
  BY <1>1 DEF Idle
<1>7. Typed'
  BY <1>1, <1>4, IdleIsRequest DEF IInv, Typed
<1>8. QueuedOnce' /\ RemovedForGood'
  BY <1>5, <1>6 DEF IInv, QueuedOnce, RemovedForGood, IsCalledOff
<1>9. WorkerAgrees'
  BY <1>1 DEF WorkerAgrees, Idle
<1> QED BY <1>7, <1>8, <1>9 DEF IInv

\* The job is queued, once, or the start has passed and the process stops.
LEMMA ScheduleKeeps ==
  ASSUME IInv, NEW a \in Admins, ScheduleStream(a) PROVE IInv'
<1>1. CASE Stopped
  BY <1>1, StoppedKeeps DEF ScheduleStream
<1>2. CASE ~Stopped
  <2>1. /\ req[a].pc = "schedule" /\ Enqueue(req[a].start) /\ Go(a, Idle)
        /\ UNCHANGED <<stream, cancelled, worker, clock>>
    BY <1>2 DEF ScheduleStream, Answer, Go
  <2>2. /\ Gone /\ stream.status = "scheduled" /\ ~IsCalledOff
        /\ \A b \in Admins \ {a} : req[b].pc \in {"idle", "job"}
    BY <2>1 DEF IInv, QueuedOnce, IsCalledOff
  <2>3. /\ req' \in [Admins -> Requests] /\ req'[a] = Idle
        /\ \A b \in Admins \ {a} : req'[b] = req[b]
    BY <2>1, IdleIsRequest, Going DEF IInv
  <2>4. req[a].start \in Int
    BY <2>1 DEF IInv, Typed, Requests, Instants
  <2>5. job' = Delayed(req[a].start)
    BY <2>1, <2>2 DEF Enqueue, Gone, NoJob
  <2>6. job' \in Jobs
    BY <2>4, <2>5 DEF Delayed, Jobs, JobStates
  <2>7. Typed'
    BY <2>1, <2>3, <2>6 DEF IInv, Typed
  <2>8. \A b \in Admins : req'[b].pc \in {"idle", "job"}
    BY <2>2, <2>3, IdleIsRequest
  <2>9. worker' = Idle /\ worker'.pc = "idle" /\ stream' = stream
    BY <2>1, <2>2 DEF Gone, Idle
  <2> QED BY <2>2, <2>7, <2>8, <2>9
          DEF IInv, QueuedOnce, WorkerAgrees, RemovedForGood, IsCalledOff
<1> QED BY <1>1, <1>2

\* A request that looks for a job and removes it, without writing the row.
LEMMA CallOffKeeps ==
  ASSUME IInv, NEW a \in Admins, CallOffStream(a) PROVE IInv'
<1>1. PICK kind \in {"cancel", "delete"} :
        /\ req[a].pc = "idle" /\ stream.status = "scheduled"
        /\ Go(a, [pc |-> "job", kind |-> kind, rounds |-> Rounds \ cancelled])
        /\ UNCHANGED <<stream, cancelled, job, worker, clock>>
  BY DEF CallOffStream, Arrive
<1> DEFINE r == [pc |-> "job", kind |-> kind, rounds |-> Rounds \ cancelled]
<1>2. r \in Requests /\ r.pc = "job"
  BY DEF Requests
<1>3. Go(a, r)
  BY <1>1
<1> HIDE DEF r
<1>4. /\ req' \in [Admins -> Requests] /\ req'[a] = r
      /\ \A b \in Admins \ {a} : req'[b] = req[b]
  BY <1>2, <1>3, Going DEF IInv
<1>5. Typed'
  BY <1>1, <1>4 DEF IInv, Typed
<1>6. QueuedOnce'
  BY <1>1, <1>2, <1>4 DEF IInv, QueuedOnce, Gone
<1>7. WorkerAgrees'
  BY <1>1 DEF IInv, WorkerAgrees, Started
<1>8. RemovedForGood'
  BY <1>1, <1>2, <1>4 DEF IInv, RemovedForGood, Gone, IsCalledOff
<1> QED BY <1>5, <1>6, <1>7, <1>8 DEF IInv

LEMMA FindKeeps ==
  ASSUME IInv, NEW a \in Admins, FindScheduledJob(a) PROVE IInv'
<1>1. /\ req[a].pc = "job" /\ UNCHANGED <<stream, cancelled, job, worker, clock>>
      /\ \/ job.state # "none" /\ Go(a, [req[a] EXCEPT !.pc = "remove"])
         \/ Go(a, Idle)
  BY DEF FindScheduledJob, CallingOff, At, Answer, Go
<1>2. PICK r \in Requests : /\ Go(a, r)
                            /\ \/ job.state # "none" /\ r.pc = "remove"
                               \/ r.pc = "idle"
  BY <1>1, IdleIsRequest, CallingOffType DEF IInv
<1>3. /\ req' \in [Admins -> Requests] /\ req'[a] = r
      /\ \A b \in Admins \ {a} : req'[b] = req[b]
  BY <1>2, Going DEF IInv
<1>4. Typed'
  BY <1>1, <1>3 DEF IInv, Typed
<1>5. QueuedOnce'
  BY <1>1, <1>2, <1>3 DEF IInv, QueuedOnce, Gone, NoJob
<1>6. WorkerAgrees'
  BY <1>1 DEF IInv, WorkerAgrees, Started
<1>7. RemovedForGood'
  BY <1>1, <1>2, <1>3 DEF IInv, RemovedForGood, Gone, IsCalledOff
<1> QED BY <1>4, <1>5, <1>6, <1>7 DEF IInv

\* The job is removed, for good, unless the worker holds it.
LEMMA RemoveKeeps ==
  ASSUME IInv, NEW a \in Admins, RemoveScheduledJob(a) PROVE IInv'
<1>1. /\ req[a].pc = "remove" /\ UNCHANGED <<stream, cancelled, worker, clock>>
      /\ \/ /\ job.state # "active" /\ job' = NoJob
            /\ Go(a, [req[a] EXCEPT !.pc = "status"])
         \/ job' = job /\ Go(a, Idle)
  BY DEF RemoveScheduledJob, CallingOff, At, Remove, Answer, Go
<1>2. PICK r \in Requests : /\ Go(a, r)
                            /\ \/ /\ job.state # "active" /\ job' = NoJob
                                  /\ r.pc = "status"
                               \/ job' = job /\ r.pc = "idle"
  BY <1>1, IdleIsRequest, CallingOffType DEF IInv
<1>3. /\ req' \in [Admins -> Requests] /\ req'[a] = r
      /\ \A b \in Admins \ {a} : req'[b] = req[b]
  BY <1>2, Going DEF IInv
<1>4. \A b \in Admins : req[b].pc # "schedule" /\ stream.status # "none"
  BY <1>1 DEF IInv, QueuedOnce
<1>5. job.state # "active" => worker = Idle
  BY DEF IInv, Typed, WorkerAgrees, Idle
<1>6. NoJob \in Jobs /\ NoJob.state = "none"
  BY DEF NoJob, Jobs, JobStates
<1>7. Typed'
  BY <1>1, <1>2, <1>3, <1>6 DEF IInv, Typed
<1>8. QueuedOnce'
  BY <1>1, <1>2, <1>3, <1>4 DEF QueuedOnce
<1>9. WorkerAgrees'
  BY <1>1, <1>2, <1>5, Zenon DEF IInv, WorkerAgrees, Started, Idle
<1>10. Gone => Gone'
  BY <1>1, <1>2 DEF Gone
<1>11. RemovedForGood'
  BY <1>1, <1>2, <1>3, <1>4, <1>5, <1>10 DEF IInv, RemovedForGood, IsCalledOff, Gone
<1> QED BY <1>7, <1>8, <1>9, <1>11 DEF IInv

LEMMA WriteKeeps ==
  ASSUME IInv, NEW a \in Admins, WriteCalledOff(a) PROVE IInv'
<1>1. /\ req[a].pc = "status" /\ UNCHANGED <<cancelled, job, worker, clock>>
      /\ Go(a, [req[a] EXCEPT !.pc = "rounds"])
      /\ stream' = [stream EXCEPT !.status = StatusOf(req[a].kind)]
  BY DEF WriteCalledOff, CallingOff, At
<1>2. PICK r \in Requests : Go(a, r) /\ r.pc = "rounds"
  BY <1>1, CallingOffType DEF IInv
<1>3. /\ req' \in [Admins -> Requests] /\ req'[a] = r
      /\ \A b \in Admins \ {a} : req'[b] = req[b]
  BY <1>2, Going DEF IInv
<1>4. Gone /\ Gone' /\ worker'.pc = "idle"
  BY <1>1 DEF IInv, RemovedForGood, Gone, Idle
<1>5. \A b \in Admins : req[b].pc # "schedule"
  BY <1>1 DEF IInv, QueuedOnce
<1>6. stream' \in Rows /\ IsCalledOff'
  BY <1>1 DEF IInv, Typed, Rows, Statuses, StatusOf, IsCalledOff
<1>7. Typed'
  BY <1>1, <1>3, <1>6 DEF IInv, Typed
<1>8. QueuedOnce' /\ WorkerAgrees' /\ RemovedForGood'
  BY <1>2, <1>3, <1>4, <1>5, <1>6
     DEF QueuedOnce, WorkerAgrees, RemovedForGood, IsCalledOff
<1> QED BY <1>7, <1>8 DEF IInv

LEMMA CancelKeeps ==
  ASSUME IInv, NEW a \in Admins, CancelNextRound(a) PROVE IInv'
<1>1. /\ req[a].pc = "rounds" /\ UNCHANGED <<stream, job, worker, clock>>
      /\ \/ cancelled' = cancelled /\ Go(a, Idle)
         \/ \E c \in req[a].rounds : /\ cancelled' = cancelled \cup {c}
                                     /\ Go(a, [req[a] EXCEPT !.rounds = @ \ {c}])
  BY DEF CancelNextRound, CallingOff, At, Answer, Go
<1>2. /\ req[a] \in [pc : {"job", "remove", "status", "rounds"},
                      kind : {"cancel", "delete"}, rounds : SUBSET Rounds]
  BY <1>1, CallingOffType DEF IInv
<1>3. ASSUME NEW c \in req[a].rounds
      PROVE  /\ [req[a] EXCEPT !.rounds = @ \ {c}] \in Requests
             /\ [req[a] EXCEPT !.rounds = @ \ {c}].pc = req[a].pc
             /\ c \in Rounds
  BY <1>2 DEF Requests
<1>4. /\ cancelled' \subseteq Rounds
      /\ \E r \in Requests : Go(a, r) /\ r.pc \in {"idle", "rounds"}
  BY <1>1, <1>3, IdleIsRequest DEF IInv, Typed
<1>5. PICK r \in Requests : Go(a, r) /\ r.pc \in {"idle", "rounds"}
  BY <1>4
<1>6. /\ req' \in [Admins -> Requests] /\ req'[a] = r
      /\ \A b \in Admins \ {a} : req'[b] = req[b]
  BY <1>5, Going DEF IInv
<1>7. Typed'
  BY <1>1, <1>4, <1>6 DEF IInv, Typed
<1>8. QueuedOnce'
  BY <1>1, <1>5, <1>6 DEF IInv, QueuedOnce, Gone
<1>9. WorkerAgrees'
  BY <1>1 DEF IInv, WorkerAgrees, Started
<1>10. RemovedForGood'
  BY <1>1, <1>5, <1>6 DEF IInv, RemovedForGood, Gone, IsCalledOff
<1> QED BY <1>7, <1>8, <1>9, <1>10 DEF IInv

----------------------------------------------------------------------------
(***************************************************************************)
(* The steps of the queue, of its worker and of the clock.                 *)
(***************************************************************************)
\* The job is taken, run, tried again or evicted: nobody's request changes.
LEMMA JobKeeps ==
  ASSUME IInv, UNCHANGED <<stream, cancelled, req, clock>>,
         job' \in Jobs,
         \/ worker' = Idle
         \/ worker' = [pc |-> "read"]
         \/ worker' \in [pc : {"save"}, row : Rows, seen : Rows],
         job.state # "none",
         WorkerAgrees'
  PROVE  IInv'
<1>1. ~Gone
  BY DEF Gone, NoJob
<1>2. Typed'
  BY DEF IInv, Typed
<1>3. /\ ~IsCalledOff /\ stream.status # "none"
      /\ \A a \in Admins : req[a].pc \notin {"schedule", "status", "rounds"}
  BY <1>1 DEF IInv, QueuedOnce, RemovedForGood
<1>4. QueuedOnce' /\ RemovedForGood'
  BY <1>3 DEF QueuedOnce, RemovedForGood, IsCalledOff
<1> QED BY <1>2, <1>4 DEF IInv

LEMMA EvictKeeps == ASSUME IInv, EvictJob PROVE IInv'
<1>1. /\ job.state \in {"done", "failed"} /\ job' = NoJob
      /\ UNCHANGED <<stream, cancelled, worker, req, clock>>
  BY DEF EvictJob
<1>2. worker = Idle
  BY <1>1 DEF IInv, Typed, WorkerAgrees
<1>3. NoJob \in Jobs /\ NoJob.state = "none"
  BY DEF NoJob, Jobs, JobStates
<1>4. WorkerAgrees'
  BY <1>1, <1>2 DEF WorkerAgrees, Idle
<1> QED BY <1>1, <1>2, <1>3, <1>4, JobKeeps

LEMMA TakeKeeps == ASSUME IInv, TakeJob PROVE IInv'
<1>1. /\ job.state = "delayed" /\ job' = [job EXCEPT !.state = "active"]
      /\ worker' = [pc |-> "read"] /\ UNCHANGED <<stream, cancelled, req, clock>>
  BY DEF TakeJob
<1>2. job' \in Jobs /\ job'.state = "active"
  BY <1>1 DEF IInv, Typed, Jobs, JobStates
<1>3. WorkerAgrees'
  BY <1>1, <1>2 DEF WorkerAgrees
<1> QED BY <1>1, <1>2, <1>3, JobKeeps

LEMMA ReadKeeps == ASSUME IInv, JobRead PROVE IInv'
<1>1. job.state = "active"
  BY DEF JobRead, IInv, WorkerAgrees
<1>2. CASE worker' = Idle /\ job' = [job EXCEPT !.state = "done"]
  <2>1. job' \in Jobs
    BY <1>2 DEF IInv, Typed, Jobs, JobStates
  <2>2. WorkerAgrees'
    BY <1>2 DEF WorkerAgrees, Idle
  <2> QED BY <1>1, <1>2, <2>1, <2>2, JobKeeps DEF JobRead
<1>3. CASE /\ worker' = [pc |-> "save", row |-> GoneLive(stream), seen |-> stream]
           /\ job' = job
  <2> DEFINE row == GoneLive(stream)
  <2>1. \/ row = stream
        \/ /\ stream.status = "scheduled" /\ Started(stream.start)
           /\ row = [stream EXCEPT !.status = "live"]
    BY DEF GoneLive
  <2>2. row \in Rows /\ stream \in Rows
    BY <2>1 DEF IInv, Typed, Rows, Statuses
  <2> HIDE DEF row
  <2>3. /\ worker' = [pc |-> "save", row |-> row, seen |-> stream]
        /\ UNCHANGED <<stream, cancelled, req, clock>>
    BY <1>3 DEF JobRead, row
  <2>4. /\ worker' \in [pc : {"save"}, row : Rows, seen : Rows]
        /\ worker'.pc = "save" /\ worker'.row = row
    BY <2>2, <2>3
  <2>5. WorkerAgrees'
    BY <1>1, <1>3, <2>1, <2>3, <2>4 DEF WorkerAgrees, Started
  <2>6. job' \in Jobs
    BY <1>3 DEF IInv, Typed
  <2> QED BY <1>1, <2>3, <2>4, <2>5, <2>6, JobKeeps
<1> QED BY <1>2, <1>3 DEF JobRead

\* What a save of the worker makes of the row.
LEMMA SaveWrites ==
  ASSUME IInv, JobSave
  PROVE  /\ job.state = "active"
         /\ \/ stream' = stream
            \/ /\ stream.status = "scheduled" /\ Started(stream.start)
               /\ stream' = [stream EXCEPT !.status = "live"]
BY DEF JobSave, IInv, WorkerAgrees

LEMMA SaveKeeps == ASSUME IInv, JobSave PROVE IInv'
<1>1. /\ worker' = Idle /\ job' = [job EXCEPT !.state = "done"]
      /\ UNCHANGED <<cancelled, req, clock>>
  BY DEF JobSave
<1>2. job.state = "active" /\ ~Gone
  BY SaveWrites DEF Gone, NoJob
<1>3. /\ ~IsCalledOff /\ stream.status # "none"
      /\ \A a \in Admins : req[a].pc \notin {"schedule", "status", "rounds"}
  BY <1>2 DEF IInv, QueuedOnce, RemovedForGood
<1>4. stream' \in Rows /\ ~IsCalledOff' /\ stream'.status # "none"
  BY <1>3, SaveWrites DEF IInv, Typed, Rows, Statuses, IsCalledOff
<1>5. job' \in Jobs
  BY <1>1 DEF IInv, Typed, Jobs, JobStates
<1>6. Typed'
  BY <1>1, <1>4, <1>5 DEF IInv, Typed
<1>7. QueuedOnce' /\ RemovedForGood' /\ WorkerAgrees'
  BY <1>1, <1>3, <1>4 DEF QueuedOnce, RemovedForGood, WorkerAgrees, Idle
<1> QED BY <1>6, <1>7 DEF IInv

LEMMA JobFailsKeeps == ASSUME IInv, JobFails PROVE IInv'
<1>1. /\ worker.pc \in {"read", "save"} /\ worker' = Idle /\ job' = Retried
      /\ UNCHANGED <<stream, cancelled, req, clock>>
  BY DEF JobFails
<1>2. job.state = "active"
  BY <1>1 DEF IInv, WorkerAgrees
<1> DEFINE tried == [job EXCEPT !.tries = @ + 1]
           waiting == [tried EXCEPT !.state = "delayed"]
           now == [waiting EXCEPT !.due = clock]
           failed == [tried EXCEPT !.state = "failed"]
<1>3. job' = now \/ job' = failed
  BY <1>1 DEF Retried
<1>4. job \in Jobs /\ clock \in Int
  BY DEF IInv, Typed
<1>5. tried \in Jobs
  BY <1>4 DEF Jobs
<1> HIDE DEF tried
<1>6. waiting \in Jobs /\ failed \in Jobs
  BY <1>5 DEF Jobs, JobStates
<1> HIDE DEF waiting, failed
<1>7. now \in Jobs
  BY <1>4, <1>6 DEF Jobs
<1> HIDE DEF now
<1>8. WorkerAgrees'
  BY <1>1 DEF WorkerAgrees, Idle
<1> QED BY <1>1, <1>2, <1>3, <1>6, <1>7, <1>8, JobKeeps

LEMMA TickKeeps == ASSUME IInv, Tick PROVE IInv'
<1>1. clock' = clock + 1 /\ UNCHANGED <<stream, cancelled, job, worker, req>>
  BY DEF Tick
<1>2. clock \in Nat /\ stream.start \in Int
  BY DEF IInv, Typed, Rows, Instants
<1>3. Started(stream.start) => Started(stream.start)'
  BY <1>1, <1>2 DEF Started
<1>4. Typed'
  BY <1>1, <1>2 DEF IInv, Typed
<1>5. WorkerAgrees'
  BY <1>1, <1>3 DEF IInv, WorkerAgrees
<1>6. QueuedOnce' /\ RemovedForGood'
  BY <1>1 DEF IInv, QueuedOnce, RemovedForGood, Gone, IsCalledOff
<1> QED BY <1>4, <1>5, <1>6 DEF IInv

----------------------------------------------------------------------------
\* With create, cancel and delete alone, the other steps do not occur.
LEMMA OtherSteps ==
  ASSUME OnlyCalledOff, IInv, NEW a \in Admins
  PROVE  /\ ~UpdateStream(a) /\ ~SetStreamStatus(a) /\ ~SaveStream(a)
         /\ ~FindMovedJob(a) /\ ~RemoveMovedJob(a)
<1>1. ~UpdateStream(a) /\ ~SetStreamStatus(a)
  BY DEF OnlyCalledOff, UpdateStream, SetStreamStatus, Arrive
<1>2. req[a].pc # "save"
  BY DEF IInv, Typed, Requests
<1>3. req[a].pc \in {"job", "remove"} => req[a].kind \in {"cancel", "delete"}
  BY CallingOffType DEF IInv
<1> QED BY <1>1, <1>2, <1>3 DEF SaveStream, FindMovedJob, RemoveMovedJob, At

LEMMA NextKeeps ==
  ASSUME OnlyCalledOff, IInv, [Next]_vars PROVE IInv'
<1>1. CASE UNCHANGED vars
  BY <1>1 DEF vars, IInv, Typed, QueuedOnce, WorkerAgrees, RemovedForGood, Gone,
              IsCalledOff, Started
<1>2. CASE Stop
  BY <1>2, StoppedKeeps DEF Stop
<1>3. CASE Tick \/ EvictJob \/ WorkerStep \/ JobFails
  BY <1>3, TickKeeps, EvictKeeps, TakeKeeps, ReadKeeps, SaveKeeps, JobFailsKeeps
     DEF WorkerStep
<1>4. ASSUME NEW a \in Admins,
             \/ CreateStream(a) \/ UpdateStream(a) \/ SetStreamStatus(a)
             \/ CallOffStream(a) \/ RequestStep(a)
      PROVE  IInv'
  <2>1. CASE CreateStream(a) \/ CallOffStream(a)
    BY <2>1, CreateKeeps, CallOffKeeps
  <2>2. CASE RequestStep(a)
    BY <2>2, OtherSteps, ScheduleKeeps, FindKeeps, RemoveKeeps, WriteKeeps,
       CancelKeeps DEF RequestStep
  <2> QED BY <1>4, <2>1, <2>2, OtherSteps
<1> QED BY <1>1, <1>2, <1>3, <1>4 DEF Next

LEMMA Invariance == OnlyCalledOff => (Spec => []IInv)
<1> SUFFICES ASSUME OnlyCalledOff PROVE Spec => []IInv
  OBVIOUS
<1>1. IInv /\ [Next]_vars => IInv'
  BY NextKeeps
<1> QED BY <1>1, InitInvariant, PTL DEF Spec

\* With create, cancel and delete alone, a stream that was called off has no
\* job left to take it live, and no worker about to: for any number of
\* administrators, attempts, failures and stops.
THEOREM CalledOffStaysOff == OnlyCalledOff => (Spec => []CalledOffHasNoJob)
<1> SUFFICES ASSUME OnlyCalledOff PROVE Spec => []CalledOffHasNoJob
  OBVIOUS
<1>1. IInv => CalledOffHasNoJob
  BY DEF IInv, RemovedForGood, IsCalledOff, Gone, CalledOffHasNoJob
<1> QED BY <1>1, Invariance, PTL

----------------------------------------------------------------------------
(***************************************************************************)
(* The rounds.  A request that calls the stream off holds every round that *)
(* is not cancelled, and is still there unless it or the process failed.   *)
(***************************************************************************)
RoundsHeld ==
  \A a \in Admins : req[a].pc \in {"job", "remove", "status", "rounds"} =>
    req[a].rounds \cup cancelled = Rounds

FollowedUp ==
  IsCalledOff /\ harm \cap {"halfway", "stopped"} = {} =>
    cancelled = Rounds \/ \E a \in Admins : req[a].pc = "rounds"

RoundsFollowed == RoundsHeld /\ FollowedUp

\* A request moves on with the rounds it holds, or ends.
LEMMA HoldsOn ==
  ASSUME IInv, RoundsFollowed, NEW a \in Admins, NEW r \in Requests, Go(a, r),
         UNCHANGED <<stream, cancelled>>, harm \subseteq harm',
         req[a].pc # "rounds",
         r.pc \in {"job", "remove", "status", "rounds"} => r.rounds \cup cancelled = Rounds
  PROVE  RoundsFollowed'
<1>1. /\ req'[a] = r /\ \A b \in Admins \ {a} : req'[b] = req[b]
  BY Going DEF IInv
<1>2. RoundsHeld'
  BY <1>1 DEF RoundsFollowed, RoundsHeld
<1>3. FollowedUp'
  BY <1>1 DEF RoundsFollowed, FollowedUp, IsCalledOff
<1> QED BY <1>2, <1>3 DEF RoundsFollowed

LEMMA RequestFollowed ==
  ASSUME IInv, RoundsFollowed, NEW a \in Admins,
         CallOffStream(a) \/ FindScheduledJob(a) \/ RemoveScheduledJob(a)
  PROVE  RoundsFollowed'
<1>1. CASE CallOffStream(a)
  <2>1. PICK kind \in {"cancel", "delete"} :
          /\ req[a].pc = "idle"
          /\ Go(a, [pc |-> "job", kind |-> kind, rounds |-> Rounds \ cancelled])
          /\ UNCHANGED <<stream, cancelled, harm>>
    BY <1>1 DEF CallOffStream, Arrive
  <2> DEFINE r == [pc |-> "job", kind |-> kind, rounds |-> Rounds \ cancelled]
  <2>2. r \in Requests /\ r.rounds \cup cancelled = Rounds /\ Go(a, r)
    BY <2>1 DEF Requests, IInv, Typed
  <2> HIDE DEF r
  <2> QED BY <2>1, <2>2, HoldsOn
<1>2. CASE FindScheduledJob(a) \/ RemoveScheduledJob(a)
  <2>1. /\ req[a].pc \in {"job", "remove"}
        /\ UNCHANGED <<stream, cancelled, harm>>
        /\ \/ \E next \in {"remove", "status"} : Go(a, [req[a] EXCEPT !.pc = next])
           \/ Go(a, Idle)
    BY <1>2 DEF FindScheduledJob, RemoveScheduledJob, CallingOff, At, Remove, Answer, Go
  <2>2. CASE Go(a, Idle)
    BY <2>1, <2>2, IdleIsRequest, HoldsOn
  <2>3. ASSUME NEW next \in {"remove", "status"}, Go(a, [req[a] EXCEPT !.pc = next])
        PROVE  RoundsFollowed'
    <3> DEFINE r == [req[a] EXCEPT !.pc = next]
    <3>1. r \in Requests /\ r.rounds = req[a].rounds
      BY <2>1, CallingOffType DEF IInv
    <3>2. req[a].rounds \cup cancelled = Rounds
      BY <2>1 DEF RoundsFollowed, RoundsHeld
    <3>3. Go(a, r)
      BY <2>3
    <3> HIDE DEF r
    <3> QED BY <2>1, <3>1, <3>2, <3>3, HoldsOn
  <2> QED BY <2>1, <2>2, <2>3
<1> QED BY <1>1, <1>2

LEMMA WriteFollowed ==
  ASSUME IInv, RoundsFollowed, NEW a \in Admins, WriteCalledOff(a) PROVE RoundsFollowed'
<1> DEFINE r == [req[a] EXCEPT !.pc = "rounds"]
<1>1. req[a].pc = "status" /\ Go(a, r) /\ cancelled' = cancelled
  BY DEF WriteCalledOff, CallingOff, At
<1>2. r \in Requests /\ r.pc = "rounds" /\ r.rounds = req[a].rounds
  BY <1>1, CallingOffType DEF IInv
<1> HIDE DEF r
<1>3. req'[a] = r /\ \A b \in Admins \ {a} : req'[b] = req[b]
  BY <1>1, <1>2, Going DEF IInv
<1> QED BY <1>1, <1>2, <1>3 DEF RoundsFollowed, RoundsHeld, FollowedUp

LEMMA CancelFollowed ==
  ASSUME IInv, RoundsFollowed, NEW a \in Admins, CancelNextRound(a)
  PROVE  RoundsFollowed'
<1>1. req[a].pc = "rounds" /\ stream' = stream
  BY DEF CancelNextRound, CallingOff, At
<1>2. /\ req[a] \in [pc : {"job", "remove", "status", "rounds"},
                      kind : {"cancel", "delete"}, rounds : SUBSET Rounds]
      /\ req[a].rounds \cup cancelled = Rounds
  BY <1>1, CallingOffType DEF IInv, RoundsFollowed, RoundsHeld
<1>3. CASE req[a].rounds = {} /\ Go(a, Idle) /\ cancelled' = cancelled
  <2>1. req'[a] = Idle /\ \A b \in Admins \ {a} : req'[b] = req[b]
    BY <1>3, IdleIsRequest, Going DEF IInv
  <2> QED BY <1>2, <1>3, <2>1, IdleIsRequest DEF RoundsFollowed, RoundsHeld, FollowedUp
<1>4. CASE Go(a, Idle) /\ cancelled' = cancelled /\ harm' = harm \cup {"halfway"}
  <2>1. req'[a] = Idle /\ \A b \in Admins \ {a} : req'[b] = req[b]
    BY <1>4, IdleIsRequest, Going DEF IInv
  <2> QED BY <1>4, <2>1, IdleIsRequest DEF RoundsFollowed, RoundsHeld, FollowedUp
<1>5. ASSUME NEW c \in req[a].rounds, cancelled' = cancelled \cup {c},
             Go(a, [req[a] EXCEPT !.rounds = @ \ {c}])
      PROVE  RoundsFollowed'
  <2> DEFINE r == [req[a] EXCEPT !.rounds = @ \ {c}]
  <2>1. /\ r \in Requests /\ r.pc = "rounds" /\ r.rounds = req[a].rounds \ {c}
        /\ c \in Rounds /\ Go(a, r)
    BY <1>1, <1>2, <1>5 DEF Requests
  <2> HIDE DEF r
  <2>2. req'[a] = r /\ \A b \in Admins \ {a} : req'[b] = req[b]
    BY <2>1, Going DEF IInv
  <2>3. RoundsHeld'
    <3>1. r.rounds \cup cancelled' = Rounds
      BY <1>2, <1>5, <2>1
    <3> QED BY <1>5, <2>1, <2>2, <3>1 DEF RoundsFollowed, RoundsHeld
  <2>4. FollowedUp'
    BY <2>1, <2>2 DEF FollowedUp
  <2> QED BY <2>3, <2>4 DEF RoundsFollowed
<1> QED BY <1>3, <1>4, <1>5 DEF CancelNextRound, Answer, Go

LEMMA NextFollowed ==
  ASSUME OnlyCalledOff, IInv, RoundsFollowed, [Next]_vars PROVE RoundsFollowed'
<1>1. CASE \/ UNCHANGED vars \/ Tick \/ EvictJob \/ TakeJob \/ JobRead \/ JobFails
  <2>1. UNCHANGED <<stream, cancelled, req>> /\ harm \subseteq harm'
    BY <1>1 DEF vars, Tick, EvictJob, TakeJob, JobRead, JobFails
  <2> QED BY <2>1 DEF RoundsFollowed, RoundsHeld, FollowedUp, IsCalledOff
<1>2. CASE JobSave
  <2>1. UNCHANGED <<cancelled, req>> /\ job.state = "active"
    BY <1>2, SaveWrites DEF JobSave
  <2>2. ~IsCalledOff'
    <3>1. ~IsCalledOff
      BY <2>1 DEF IInv, RemovedForGood, Gone, NoJob
    <3> QED BY <1>2, <3>1, SaveWrites DEF IsCalledOff, IInv, Typed, Rows
  <2> QED BY <2>1, <2>2 DEF RoundsFollowed, RoundsHeld, FollowedUp
<1>3. ASSUME Stopped PROVE RoundsFollowed'
  <2>1. "stopped" \in harm' /\ \A a \in Admins : req'[a] = Idle
    BY <1>3 DEF Stopped
  <2> QED BY <2>1, IdleIsRequest DEF RoundsFollowed, RoundsHeld, FollowedUp
<1>4. ASSUME NEW a \in Admins,
             \/ CreateStream(a) \/ UpdateStream(a) \/ SetStreamStatus(a)
             \/ CallOffStream(a) \/ RequestStep(a)
      PROVE  RoundsFollowed'
  <2>1. CASE CreateStream(a)
    <3>1. /\ stream.status = "none" /\ ~IsCalledOff' /\ cancelled' = cancelled
      BY <2>1 DEF CreateStream, IsCalledOff
    <3>2. \A b \in Admins : req[b].pc = "idle"
      BY <3>1 DEF IInv, QueuedOnce
    <3>3. \A b \in Admins : req'[b].pc \in {"idle", "schedule"}
      BY <2>1, <3>2 DEF CreateStream, Go, IInv, Typed
    <3> QED BY <3>1, <3>3 DEF RoundsFollowed, RoundsHeld, FollowedUp
  <2>2. CASE ScheduleStream(a) /\ ~Stopped
    <3>1. /\ req[a].pc = "schedule" /\ Go(a, Idle) /\ harm \subseteq harm'
          /\ UNCHANGED <<stream, cancelled>>
      BY <2>2 DEF ScheduleStream, Answer, Go
    <3> QED BY <3>1, IdleIsRequest, HoldsOn
  <2> QED BY <1>3, <1>4, <2>1, <2>2, OtherSteps, RequestFollowed, WriteFollowed,
             CancelFollowed DEF RequestStep
<1> QED BY <1>1, <1>2, <1>3, <1>4 DEF Next, WorkerStep, Stop

\* With create, cancel and delete alone, no round of a stream that was called
\* off is left open when nothing is in flight, unless a refund failed or the
\* process stopped: for any number of administrators who call it off at once.
THEOREM RoundsAreFollowed == OnlyCalledOff => (Spec => []RoundsFollowStream)
<1> SUFFICES ASSUME OnlyCalledOff PROVE Spec => []RoundsFollowStream
  OBVIOUS
<1>1. Init => RoundsFollowed
  BY DEF Init, RoundsFollowed, RoundsHeld, FollowedUp, IsCalledOff, Idle
<1>2. IInv /\ RoundsFollowed /\ [Next]_vars => RoundsFollowed'
  BY NextFollowed
<1>3. RoundsFollowed => RoundsFollowStream
  BY IdleIsRequest DEF RoundsFollowed, FollowedUp, IsCalledOff, RoundsFollowStream, Quiet
<1> QED BY <1>1, <1>2, <1>3, Invariance, PTL DEF Spec

----------------------------------------------------------------------------
(***************************************************************************)
(* Every step is a step of StreamLife, or leaves what it speaks of alone.  *)
(***************************************************************************)
LEMMA InitLife == Init => Life!LifeInit
BY DEF Init, Life!LifeInit

LEMMA CreateAnnounces ==
  ASSUME NEW a \in Admins, CreateStream(a) PROVE Life!Announce
<1>1. PICK t \in Instants :
        /\ stream.status = "none"
        /\ \/ Started(t) /\ stream' = [status |-> "live", start |-> t]
           \/ ~Started(t) /\ stream' = [status |-> "scheduled", start |-> t]
        /\ UNCHANGED <<cancelled, clock>>
  BY DEF CreateStream
<1>2. t \in Nat
  BY MaxClockAssumption DEF Instants
<1>3. /\ stream'.start = t
      /\ stream'.status = IF stream'.start <= clock THEN "live" ELSE "scheduled"
  BY <1>1 DEF Started
<1> QED BY <1>1, <1>2, <1>3 DEF Life!Announce

LEMMA SaveGoesLive ==
  ASSUME IInv, JobSave PROVE Life!GoLive \/ UNCHANGED Life!lifeVars
<1>1. UNCHANGED <<cancelled, clock>>
  BY DEF JobSave
<1>2. CASE stream' = stream
  BY <1>1, <1>2 DEF Life!lifeVars
<1>3. CASE /\ stream.status = "scheduled" /\ Started(stream.start)
           /\ stream' = [stream EXCEPT !.status = "live"]
  <2>1. stream'.status = "live" /\ stream'.start = stream.start
    BY <1>3 DEF IInv, Typed, Rows
  <2> QED BY <1>1, <1>3, <2>1 DEF Life!GoLive, Started
<1> QED BY <1>2, <1>3, SaveWrites

LEMMA WriteCallsOff ==
  ASSUME IInv, NEW a \in Admins, WriteCalledOff(a) PROVE Life!CallOff
<1>1. /\ req[a].pc = "status" /\ UNCHANGED <<cancelled, clock>>
      /\ stream' = [stream EXCEPT !.status = StatusOf(req[a].kind)]
  BY DEF WriteCalledOff, CallingOff, At
<1>2. stream.status # "none"
  BY <1>1 DEF IInv, QueuedOnce
<1>3. /\ stream'.status = StatusOf(req[a].kind) /\ stream'.start = stream.start
  BY <1>1 DEF IInv, Typed, Rows
<1>4. StatusOf(req[a].kind) \in Life!CalledOff
  BY DEF StatusOf, Life!CalledOff
<1> QED BY <1>1, <1>2, <1>3, <1>4 DEF Life!CallOff

LEMMA RoundIsCancelled ==
  ASSUME IInv, NEW a \in Admins, CancelNextRound(a)
  PROVE  Life!CancelOneRound \/ UNCHANGED Life!lifeVars
<1>1. /\ req[a].pc = "rounds" /\ UNCHANGED <<stream, clock>>
      /\ \/ cancelled' = cancelled
         \/ \E c \in req[a].rounds : cancelled' = cancelled \cup {c}
  BY DEF CancelNextRound, CallingOff, At
<1>2. stream.status \in Life!CalledOff
  BY <1>1 DEF IInv, RemovedForGood, IsCalledOff, Life!CalledOff
<1>3. req[a].rounds \subseteq Rounds
  BY <1>1, CallingOffType DEF IInv
<1>4. CASE cancelled' = cancelled
  BY <1>1, <1>4 DEF Life!lifeVars
<1>5. ASSUME NEW c \in req[a].rounds, cancelled' = cancelled \cup {c}
      PROVE  Life!CancelOneRound \/ UNCHANGED Life!lifeVars
  <2>1. CASE c \in cancelled
    <3>1. cancelled' = cancelled
      BY <1>5, <2>1
    <3> QED BY <1>1, <3>1 DEF Life!lifeVars
  <2>2. CASE c \notin cancelled
    BY <1>1, <1>2, <1>3, <1>5, <2>2 DEF Life!CancelOneRound
  <2> QED BY <2>1, <2>2
<1> QED BY <1>1, <1>4, <1>5

LEMMA NextLife ==
  ASSUME OnlyCalledOff, IInv, [Next]_vars PROVE [Life!LifeNext]_(Life!lifeVars)
<1>1. CASE Tick
  BY <1>1 DEF Tick, Life!LifeNext, Life!Pass
<1>2. CASE \/ UNCHANGED vars \/ EvictJob \/ TakeJob \/ JobRead \/ JobFails \/ Stop
  BY <1>2 DEF vars, EvictJob, TakeJob, JobRead, JobFails, Stop, Life!lifeVars
<1>3. CASE JobSave
  BY <1>3, SaveGoesLive DEF Life!LifeNext
<1>4. ASSUME NEW a \in Admins,
             \/ CreateStream(a) \/ UpdateStream(a) \/ SetStreamStatus(a)
             \/ CallOffStream(a) \/ RequestStep(a)
      PROVE  [Life!LifeNext]_(Life!lifeVars)
  <2>1. CASE CreateStream(a)
    BY <2>1, CreateAnnounces DEF Life!LifeNext
  <2>2. CASE WriteCalledOff(a)
    BY <2>2, WriteCallsOff DEF Life!LifeNext
  <2>3. CASE CancelNextRound(a)
    BY <2>3, RoundIsCancelled DEF Life!LifeNext
  <2>4. CASE \/ CallOffStream(a) \/ ScheduleStream(a) \/ FindScheduledJob(a)
             \/ RemoveScheduledJob(a)
    BY <2>4 DEF CallOffStream, ScheduleStream, FindScheduledJob,
                RemoveScheduledJob, Life!lifeVars
  <2> QED BY <1>4, <2>1, <2>2, <2>3, <2>4, OtherSteps DEF RequestStep
<1> QED BY <1>1, <1>2, <1>3, <1>4 DEF Next, WorkerStep

\* With create, cancel and delete alone, a stream is announced once, goes
\* live when its start has come or is called off for good, and only then are
\* its rounds cancelled.
THEOREM ScheduleImplementsLife == OnlyCalledOff => (Spec => LifeOfStream)
<1> SUFFICES ASSUME OnlyCalledOff PROVE Spec => LifeOfStream
  OBVIOUS
<1>1. IInv /\ [Next]_vars => [Life!LifeNext]_(Life!lifeVars)
  BY NextLife
<1> QED BY <1>1, InitLife, Invariance, PTL DEF Spec, LifeOfStream, Life!LifeSpec

----------------------------------------------------------------------------
(***************************************************************************)
(* All kinds of requests.  A stream that is scheduled, and to which nothing *)
(* has happened that loses its job, has a job that will take it live, or a *)
(* request in flight that is about to give it one or to call it off.       *)
(***************************************************************************)
AllRequests ==
  [pc : {"idle"}]
    \cup [pc : {"schedule"}, kind : {"create", "update"}, start : Instants]
    \cup [pc : {"save", "job", "remove"}, kind : {"update", "status"},
          seen : Rows, row : Rows, moved : BOOLEAN]
    \cup [pc : {"job", "remove", "status", "rounds"},
          kind : {"cancel", "delete"}, rounds : SUBSET Rounds]

AllTyped == TypeOK /\ req \in [Admins -> AllRequests]

\* The worker holds the active job, and an attempt is left for a job that is
\* not over.
WorkerHolds ==
  /\ worker.pc # "idle" <=> job.state = "active"
  /\ job.state \in {"delayed", "active"} => job.tries < Attempts
  /\ worker.pc = "save" =>
       \/ worker.row = worker.seen
       \/ worker.row = [worker.seen EXCEPT !.status = "live"]

\* An edit that moves nothing keeps the start it has read, and only an update
\* moves it.
EditsKeep ==
  \A a \in Admins : req[a].pc = "save" =>
    /\ ~req[a].moved => req[a].row.start = req[a].seen.start
    /\ req[a].moved => req[a].kind = "update"

\* The job will take the stream live, and a worker that has read the stream
\* as it is does.
JobIsGood ==
  /\ job.state \in {"delayed", "active"}
  /\ job.tries = 0 => job.due = stream.start
  /\ job.tries > 0 \/ job.state = "active" => Started(stream.start)
  /\ worker.pc = "save" /\ worker.seen = stream => worker.row.status = "live"

\* A request will queue the job of the stream as it is, or call it off.
Fixes(a) ==
  \/ req[a].pc = "schedule" /\ req[a].start = stream.start
  \/ /\ req[a].pc \in {"job", "remove"} /\ req[a].kind = "update"
     /\ req[a].row = stream
  \/ req[a].pc = "status"

Scheduled ==
  stream.status = "scheduled" /\ harm = {}
    => JobIsGood \/ \E a \in Admins : Fixes(a)

SInv == AllTyped /\ WorkerHolds /\ EditsKeep /\ Scheduled

\* What an edit makes of a row is a row.
LEMMA EditedType ==
  ASSUME NEW edit \in Edits, NEW row \in Rows
  PROVE  /\ Edited(row, edit) \in Rows
         /\ "start" \notin DOMAIN edit => Edited(row, edit).start = row.start
<1> DEFINE e == Edited(row, edit)
<1>1. DOMAIN row = {"status", "start"}
  BY DEF Rows
<1>2. e = [x \in {"status", "start"} |-> IF x \in DOMAIN edit THEN edit[x] ELSE row[x]]
  BY <1>1 DEF Edited
<1>3. e.status \in Statuses \cup {"none"} /\ e.start \in Instants
  BY <1>2, EditsAssumption DEF Rows
<1>4. "start" \notin DOMAIN edit => e.start = row.start
  BY <1>2
<1>5. e \in Rows
  BY <1>2, <1>3 DEF Rows
<1> QED BY <1>4, <1>5

----------------------------------------------------------------------------
\* What administrator a waits for becomes r.
LEMMA GoingOn ==
  ASSUME AllTyped, NEW a \in Admins, NEW r \in AllRequests, Go(a, r)
  PROVE  /\ req' \in [Admins -> AllRequests] /\ DOMAIN req' = Admins /\ req'[a] = r
         /\ \A b \in Admins \ {a} : req'[b] = req[b]
BY DEF AllTyped, Go

LEMMA Answered ==
  ASSUME AllTyped, NEW a \in Admins, Answer(a)
  PROVE  /\ req' \in [Admins -> AllRequests] /\ DOMAIN req' = Admins
         /\ req'[a].pc = "idle"
         /\ \A b \in Admins \ {a} : req'[b] = req[b]
<1>1. Idle \in AllRequests /\ Idle.pc = "idle"
  BY DEF Idle, AllRequests
<1> QED BY <1>1 DEF AllTyped, Answer

\* A request, at the steps of each kind.
LEMMA RequestType ==
  ASSUME AllTyped, NEW a \in Admins
  PROVE  /\ req[a].pc = "schedule" => req[a].start \in Instants
         /\ req[a].pc = "save" =>
              req[a] \in [pc : {"save"}, kind : {"update", "status"},
                          seen : Rows, row : Rows, moved : BOOLEAN]
         /\ req[a].pc \in {"job", "remove"} /\ req[a].kind = "update" =>
              req[a] \in [pc : {"job", "remove"}, kind : {"update"},
                          seen : Rows, row : Rows, moved : BOOLEAN]
         /\ req[a].pc \in {"job", "remove", "status", "rounds"}
              /\ req[a].kind \in {"cancel", "delete"} =>
              req[a] \in [pc : {"job", "remove", "status", "rounds"},
                          kind : {"cancel", "delete"}, rounds : SUBSET Rounds]
<1>1. req[a] \in AllRequests
  BY DEF AllTyped
<1> QED BY <1>1 DEF AllRequests

\* A job that is good stays so while neither the job, the worker nor the
\* stream changes.
LEMMA GoodStays ==
  ASSUME TypeOK, JobIsGood, UNCHANGED <<stream, job, worker>>, clock' >= clock,
         clock' \in Nat
  PROVE  JobIsGood'
<1>1. stream.start \in Nat /\ clock \in Nat
  BY MaxClockAssumption DEF TypeOK, Rows, Instants
<1> QED BY <1>1 DEF JobIsGood, Started

\* A request that is about to queue the job still is while the stream is left
\* alone and so is the request.
LEMMA FixesStays ==
  ASSUME NEW a \in Admins, Fixes(a), stream' = stream, req'[a] = req[a]
  PROVE  Fixes(a)'
BY DEF Fixes

\* A request moves on, and nothing else than requests, rounds and what may
\* leave the schedule broken changes.
LEMMA RequestMoves ==
  ASSUME SInv, NEW a \in Admins, req' \in [Admins -> AllRequests], DOMAIN req' = Admins,
         \A b \in Admins \ {a} : req'[b] = req[b],
         UNCHANGED <<stream, job, worker, clock>>,
         cancelled' \subseteq Rounds, harm' \subseteq Harms, harm \subseteq harm',
         req'[a].pc = "save" =>
           /\ ~req'[a].moved => req'[a].row.start = req'[a].seen.start
           /\ req'[a].moved => req'[a].kind = "update",
         harm' = {} /\ Fixes(a) => Fixes(a)'
  PROVE  SInv'
<1>1. AllTyped'
  BY DEF SInv, AllTyped, TypeOK
<1>2. WorkerHolds'
  BY DEF SInv, WorkerHolds
<1>3. EditsKeep'
  BY DEF SInv, EditsKeep
<1>4. Scheduled'
  <2> SUFFICES ASSUME stream'.status = "scheduled", harm' = {}
               PROVE  JobIsGood' \/ \E b \in Admins : Fixes(b)'
    BY DEF Scheduled
  <2>1. JobIsGood \/ \E b \in Admins : Fixes(b)
    BY DEF SInv, Scheduled
  <2>2. CASE JobIsGood
    BY <2>2 DEF JobIsGood, Started
  <2>3. ASSUME NEW b \in Admins, Fixes(b) PROVE Fixes(b)'
    BY <2>3, FixesStays
  <2> QED BY <2>1, <2>2, <2>3
<1> QED BY <1>1, <1>2, <1>3, <1>4 DEF SInv

LEMMA SInitial == Init => SInv
<1> SUFFICES ASSUME Init PROVE SInv
  OBVIOUS
<1>1. Idle \in AllRequests /\ Idle.pc = "idle"
  BY DEF Idle, AllRequests
<1>2. AllTyped
  BY <1>1, MaxClockAssumption, AttemptsAssumption
     DEF Init, AllTyped, TypeOK, Rows, Statuses, Instants, JobStates, NoJob, Idle
<1>3. WorkerHolds /\ EditsKeep /\ Scheduled
  BY <1>1 DEF Init, WorkerHolds, EditsKeep, Scheduled, NoJob
<1> QED BY <1>2, <1>3 DEF SInv

\* Requests that read the stream, which nobody else notices.
LEMMA RequestReadsSafe ==
  ASSUME SInv, NEW a \in Admins,
         UpdateStream(a) \/ SetStreamStatus(a) \/ CallOffStream(a)
  PROVE  SInv'
<1>1. /\ req[a].pc = "idle"
      /\ UNCHANGED <<stream, cancelled, job, worker, clock, harm>>
  BY DEF UpdateStream, SetStreamStatus, CallOffStream, Arrive
<1>2. ~Fixes(a) /\ stream \in Rows
  BY <1>1 DEF Fixes, SInv, AllTyped, TypeOK
<1>3. PICK r \in AllRequests :
        /\ Go(a, r)
        /\ r.pc = "save" =>
             /\ ~r.moved => r.row.start = r.seen.start
             /\ r.moved => r.kind = "update"
  <2>1. CASE UpdateStream(a)
    <3>1. PICK edit \in Edits :
            Go(a, [pc |-> "save", kind |-> "update", seen |-> stream,
                   row |-> Edited(stream, edit), moved |-> "start" \in DOMAIN edit])
      BY <2>1 DEF UpdateStream
    <3> DEFINE moved == "start" \in DOMAIN edit
               row == Edited(stream, edit)
               r == [pc |-> "save", kind |-> "update", seen |-> stream,
                     row |-> row, moved |-> moved]
    <3>2. row \in Rows /\ moved \in BOOLEAN /\ (~moved => row.start = stream.start)
      BY <1>2, EditedType
    <3> HIDE DEF row, moved
    <3>3. /\ r \in AllRequests /\ r.row = row /\ r.seen = stream /\ r.kind = "update"
          /\ r.moved <=> moved
      BY <1>2, <3>2 DEF AllRequests
    <3>4. Go(a, r)
      BY <3>1 DEF row, moved
    <3> HIDE DEF r
    <3> QED BY <3>2, <3>3, <3>4
  <2>2. CASE SetStreamStatus(a)
    <3>1. PICK status \in {"live", "ended"} :
            Go(a, [pc |-> "save", kind |-> "status", seen |-> stream,
                   row |-> [stream EXCEPT !.status = status], moved |-> FALSE])
      BY <2>2 DEF SetStreamStatus
    <3> DEFINE row == [stream EXCEPT !.status = status]
               r == [pc |-> "save", kind |-> "status", seen |-> stream,
                     row |-> row, moved |-> FALSE]
    <3>2. row \in Rows /\ row.start = stream.start
      BY <1>2 DEF Rows, Statuses
    <3> HIDE DEF row
    <3>3. r \in AllRequests /\ r.row = row /\ r.seen = stream /\ ~r.moved
      BY <1>2, <3>2 DEF AllRequests
    <3>4. Go(a, r)
      BY <3>1 DEF row
    <3> HIDE DEF r
    <3> QED BY <3>2, <3>3, <3>4
  <2>3. CASE CallOffStream(a)
    <3>1. PICK kind \in {"cancel", "delete"} :
            Go(a, [pc |-> "job", kind |-> kind, rounds |-> Rounds \ cancelled])
      BY <2>3 DEF CallOffStream
    <3> DEFINE r == [pc |-> "job", kind |-> kind, rounds |-> Rounds \ cancelled]
    <3>2. r \in AllRequests /\ r.pc = "job"
      BY DEF AllRequests
    <3> QED BY <3>1, <3>2
  <2> QED BY <2>1, <2>2, <2>3
<1>4. /\ req' \in [Admins -> AllRequests] /\ DOMAIN req' = Admins /\ req'[a] = r
      /\ \A b \in Admins \ {a} : req'[b] = req[b]
  BY <1>3, GoingOn DEF SInv
<1>5. cancelled' \subseteq Rounds /\ harm' \subseteq Harms
  BY <1>1 DEF SInv, AllTyped, TypeOK
<1> QED BY <1>1, <1>2, <1>3, <1>4, <1>5, RequestMoves

\* Requests that look for the job, and those that cancel a round.
LEMMA FindsSafe ==
  ASSUME SInv, NEW a \in Admins, FindMovedJob(a) \/ FindScheduledJob(a)
  PROVE  SInv'
<1>1. /\ req[a].pc = "job"
      /\ UNCHANGED <<stream, cancelled, job, worker, clock, harm>>
  BY DEF FindMovedJob, FindScheduledJob, CallingOff, At
<1>2. cancelled' \subseteq Rounds /\ harm' \subseteq Harms
  BY <1>1 DEF SInv, AllTyped, TypeOK
<1>3. CASE FindMovedJob(a)
  <2>1. /\ req[a].kind = "update"
        /\ \/ Go(a, [req[a] EXCEPT !.pc = "remove"])
           \/ AfterRemoval(a, req[a].row)
    BY <1>3 DEF FindMovedJob, At
  <2>2. req[a] \in [pc : {"job", "remove"}, kind : {"update"},
                    seen : Rows, row : Rows, moved : BOOLEAN]
    BY <1>1, <2>1, RequestType DEF SInv
  <2>3. CASE Go(a, [req[a] EXCEPT !.pc = "remove"])
    <3> DEFINE r == [req[a] EXCEPT !.pc = "remove"]
    <3>1. /\ r \in AllRequests /\ r.pc = "remove" /\ r.kind = "update"
          /\ r.row = req[a].row
      BY <2>2 DEF AllRequests
    <3> HIDE DEF r
    <3>2. /\ req' \in [Admins -> AllRequests] /\ DOMAIN req' = Admins /\ req'[a] = r
          /\ \A b \in Admins \ {a} : req'[b] = req[b]
      BY <2>3, <3>1, GoingOn DEF SInv, r
    <3>3. Fixes(a) => Fixes(a)'
      BY <1>1, <2>1, <3>1, <3>2 DEF Fixes
    <3> QED BY <1>1, <1>2, <3>1, <3>2, <3>3, RequestMoves
  <2>4. CASE AfterRemoval(a, req[a].row) /\ req[a].row.status = "scheduled"
    <3> DEFINE r == [pc |-> "schedule", kind |-> "update", start |-> req[a].row.start]
    <3>1. r \in AllRequests /\ r.pc = "schedule" /\ r.start = req[a].row.start
      BY <2>2 DEF AllRequests, Rows
    <3>2. Go(a, r)
      BY <2>4 DEF AfterRemoval
    <3> HIDE DEF r
    <3>3. /\ req' \in [Admins -> AllRequests] /\ DOMAIN req' = Admins /\ req'[a] = r
          /\ \A b \in Admins \ {a} : req'[b] = req[b]
      BY <3>1, <3>2, GoingOn DEF SInv
    <3>4. Fixes(a) => Fixes(a)'
      BY <1>1, <3>1, <3>3 DEF Fixes
    <3> QED BY <1>1, <1>2, <3>1, <3>3, <3>4, RequestMoves
  <2>5. CASE AfterRemoval(a, req[a].row) /\ req[a].row.status # "scheduled"
    <3>1. Answer(a)
      BY <2>5 DEF AfterRemoval
    <3>2. /\ req' \in [Admins -> AllRequests] /\ DOMAIN req' = Admins
          /\ req'[a].pc = "idle" /\ \A b \in Admins \ {a} : req'[b] = req[b]
      BY <3>1, Answered DEF SInv
    <3>3. stream.status = "scheduled" => ~Fixes(a)
      BY <1>1, <2>5 DEF Fixes
    <3>4. CASE stream.status = "scheduled"
      BY <1>1, <1>2, <3>2, <3>3, <3>4, RequestMoves
    <3>5. CASE stream.status # "scheduled"
      <4>1. AllTyped'
        BY <1>1, <1>2, <3>2 DEF SInv, AllTyped, TypeOK
      <4>2. WorkerHolds' /\ EditsKeep' /\ Scheduled'
        BY <1>1, <3>2, <3>5 DEF SInv, WorkerHolds, EditsKeep, Scheduled
      <4> QED BY <4>1, <4>2 DEF SInv
    <3> QED BY <3>4, <3>5
  <2> QED BY <2>1, <2>3, <2>4, <2>5
<1>4. CASE FindScheduledJob(a)
  <2>1. /\ req[a].kind \in {"cancel", "delete"}
        /\ Go(a, [req[a] EXCEPT !.pc = "remove"]) \/ Answer(a)
    BY <1>4 DEF FindScheduledJob, CallingOff, At
  <2>2. req[a] \in [pc : {"job", "remove", "status", "rounds"},
                    kind : {"cancel", "delete"}, rounds : SUBSET Rounds]
    BY <1>1, <2>1, RequestType DEF SInv
  <2>3. ~Fixes(a)
    BY <1>1, <2>1 DEF Fixes
  <2>4. /\ req' \in [Admins -> AllRequests] /\ DOMAIN req' = Admins
        /\ req'[a].pc # "save" /\ \A b \in Admins \ {a} : req'[b] = req[b]
    <3>1. CASE Answer(a)
      BY <3>1, Answered DEF SInv
    <3>2. CASE Go(a, [req[a] EXCEPT !.pc = "remove"])
      <4> DEFINE r == [req[a] EXCEPT !.pc = "remove"]
      <4>1. r \in AllRequests /\ r.pc = "remove"
        BY <2>2 DEF AllRequests
      <4> HIDE DEF r
      <4> QED BY <3>2, <4>1, GoingOn DEF SInv, r
    <3> QED BY <2>1, <3>1, <3>2
  <2> QED BY <1>1, <1>2, <2>3, <2>4, RequestMoves
<1> QED BY <1>3, <1>4

LEMMA CancelsSafe ==
  ASSUME SInv, NEW a \in Admins, CancelNextRound(a) PROVE SInv'
<1>1. /\ req[a].pc = "rounds" /\ req[a].kind \in {"cancel", "delete"}
      /\ UNCHANGED <<stream, job, worker, clock>>
      /\ \/ Answer(a) /\ UNCHANGED cancelled /\ harm' \in {harm, harm \cup {"halfway"}}
         \/ \E c \in req[a].rounds : /\ cancelled' = cancelled \cup {c}
                                     /\ Go(a, [req[a] EXCEPT !.rounds = @ \ {c}])
                                     /\ UNCHANGED harm
  BY DEF CancelNextRound, CallingOff, At
<1>2. req[a] \in [pc : {"job", "remove", "status", "rounds"},
                  kind : {"cancel", "delete"}, rounds : SUBSET Rounds]
  BY <1>1, RequestType DEF SInv
<1>3. cancelled' \subseteq Rounds /\ harm' \subseteq Harms /\ harm \subseteq harm'
  BY <1>1, <1>2 DEF SInv, AllTyped, TypeOK, Harms
<1>4. /\ req' \in [Admins -> AllRequests] /\ DOMAIN req' = Admins
      /\ req'[a].pc # "save" /\ \A b \in Admins \ {a} : req'[b] = req[b]
  <2>1. CASE Answer(a)
    BY <2>1, Answered DEF SInv
  <2>2. ASSUME NEW c \in req[a].rounds, Go(a, [req[a] EXCEPT !.rounds = @ \ {c}])
        PROVE  /\ req' \in [Admins -> AllRequests] /\ DOMAIN req' = Admins
               /\ req'[a].pc # "save" /\ \A b \in Admins \ {a} : req'[b] = req[b]
    <3> DEFINE r == [req[a] EXCEPT !.rounds = @ \ {c}]
    <3>1. r \in AllRequests /\ r.pc = "rounds"
      BY <1>1, <1>2 DEF AllRequests
    <3> HIDE DEF r
    <3> QED BY <2>2, <3>1, GoingOn DEF SInv, r
  <2> QED BY <1>1, <2>1, <2>2
<1>5. ~Fixes(a)
  BY <1>1 DEF Fixes
<1> QED BY <1>1, <1>3, <1>4, <1>5, RequestMoves

----------------------------------------------------------------------------
(***************************************************************************)
(* The steps of the queue, and the requests that write.                    *)
(***************************************************************************)
\* The job and its worker move on, and no request does.
LEMMA QueueMoves ==
  ASSUME SInv, UNCHANGED <<stream, req>>, cancelled' = cancelled,
         job' \in [state : JobStates, due : Instants, tries : 0 .. Attempts,
                   stalled : BOOLEAN],
         \/ worker' \in [pc : {"idle", "read"}]
         \/ worker' \in [pc : {"save"}, row : Rows, seen : Rows],
         clock' \in Instants, harm' \subseteq Harms, harm \subseteq harm',
         WorkerHolds', harm' = {} /\ JobIsGood /\ stream.status = "scheduled" => JobIsGood'
  PROVE  SInv'
<1>1. AllTyped'
  BY DEF SInv, AllTyped, TypeOK
<1>2. EditsKeep'
  BY DEF SInv, EditsKeep
<1>3. Scheduled'
  <2> SUFFICES ASSUME stream'.status = "scheduled", harm' = {}
               PROVE  JobIsGood' \/ \E b \in Admins : Fixes(b)'
    BY DEF Scheduled
  <2>1. JobIsGood \/ \E b \in Admins : Fixes(b)
    BY DEF SInv, Scheduled
  <2>2. ASSUME NEW b \in Admins, Fixes(b) PROVE Fixes(b)'
    BY <2>2, FixesStays
  <2> QED BY <2>1, <2>2
<1> QED BY <1>1, <1>2, <1>3 DEF SInv

\* The types of what a step of the queue leaves alone.
LEMMA QueueTypes ==
  ASSUME SInv
  PROVE  /\ job \in [state : JobStates, due : Instants, tries : 0 .. Attempts,
                     stalled : BOOLEAN]
         /\ \/ worker \in [pc : {"idle", "read"}]
            \/ worker \in [pc : {"save"}, row : Rows, seen : Rows]
         /\ clock \in Instants /\ harm \subseteq Harms
BY DEF SInv, AllTyped, TypeOK

LEMMA TickSafe == ASSUME SInv, Tick PROVE SInv'
<1>1. clock < MaxClock /\ clock' = clock + 1 /\ clock \in Instants
      /\ UNCHANGED <<stream, cancelled, job, worker, req, harm>>
  BY DEF Tick, SInv, AllTyped, TypeOK
<1>2. clock' \in Instants /\ clock' \in Nat /\ clock' >= clock
  BY <1>1, MaxClockAssumption DEF Instants
<1>3. JobIsGood => JobIsGood'
  BY <1>1, <1>2, GoodStays DEF SInv, AllTyped
<1>4. WorkerHolds'
  BY <1>1 DEF SInv, WorkerHolds
<1> QED BY <1>1, <1>2, <1>3, <1>4, QueueTypes, QueueMoves

LEMMA EvictSafe == ASSUME SInv, EvictJob PROVE SInv'
<1>1. /\ job.state \in {"done", "failed"} /\ job' = NoJob
      /\ UNCHANGED <<stream, cancelled, worker, req, clock, harm>>
  BY DEF EvictJob
<1>2. ~JobIsGood
  BY <1>1 DEF JobIsGood
<1>3. job' \in [state : JobStates, due : Instants, tries : 0 .. Attempts,
                stalled : BOOLEAN]
      /\ job'.state = "none"
  BY <1>1, MaxClockAssumption, AttemptsAssumption DEF NoJob, JobStates, Instants
<1>4. WorkerHolds'
  BY <1>1, <1>3 DEF SInv, WorkerHolds
<1> QED BY <1>1, <1>2, <1>3, <1>4, QueueTypes, QueueMoves

LEMMA TakeSafe == ASSUME SInv, TakeJob PROVE SInv'
<1>1. /\ job.state = "delayed" /\ job.due <= clock
      /\ job' = [job EXCEPT !.state = "active"] /\ worker' = [pc |-> "read"]
      /\ UNCHANGED <<stream, cancelled, req, clock, harm>>
  BY DEF TakeJob
<1>2. job \in [state : JobStates, due : Instants, tries : 0 .. Attempts,
               stalled : BOOLEAN]
  BY DEF SInv, AllTyped, TypeOK
<1>3. /\ job' \in [state : JobStates, due : Instants, tries : 0 .. Attempts,
                   stalled : BOOLEAN]
      /\ job'.state = "active" /\ job'.due = job.due /\ job'.tries = job.tries
  BY <1>1, <1>2 DEF JobStates
<1>4. worker' \in [pc : {"idle", "read"}] /\ worker'.pc = "read"
  BY <1>1
<1>5. WorkerHolds'
  BY <1>1, <1>3, <1>4 DEF SInv, WorkerHolds
<1>6. JobIsGood => JobIsGood'
  <2> SUFFICES ASSUME JobIsGood PROVE JobIsGood'
    OBVIOUS
  <2>1. Started(stream.start)
    <3>1. CASE job.tries = 0
      BY <1>1, <3>1 DEF JobIsGood, Started
    <3>2. CASE job.tries > 0
      BY <3>2 DEF JobIsGood
    <3>3. job.tries \in Nat
      BY <1>2, AttemptsAssumption
    <3> QED BY <3>1, <3>2, <3>3
  <2> QED BY <1>1, <1>3, <1>4, <2>1 DEF JobIsGood, Started
<1> QED BY <1>1, <1>3, <1>4, <1>5, <1>6, QueueTypes, QueueMoves

LEMMA ReadSafe == ASSUME SInv, JobRead PROVE SInv'
<1>1. /\ worker.pc = "read"
      /\ UNCHANGED <<stream, cancelled, req, clock, harm>>
      /\ \/ /\ stream.status = "live" /\ worker' = Idle
            /\ job' = [job EXCEPT !.state = "done"]
         \/ /\ worker' = [pc |-> "save", row |-> GoneLive(stream), seen |-> stream]
            /\ job' = job
  BY DEF JobRead
<1>0. \/ stream.status = "live" /\ worker' = Idle /\ job' = [job EXCEPT !.state = "done"]
      \/ /\ worker' = [pc |-> "save", row |-> GoneLive(stream), seen |-> stream]
         /\ job' = job
  BY DEF JobRead
<1>2. /\ job \in [state : JobStates, due : Instants, tries : 0 .. Attempts,
                  stalled : BOOLEAN]
      /\ job.state = "active" /\ job.tries < Attempts /\ stream \in Rows
  BY <1>1 DEF SInv, AllTyped, TypeOK, WorkerHolds
<1>3. CASE stream.status = "live" /\ worker' = Idle /\ job' = [job EXCEPT !.state = "done"]
  <2>1. worker' \in [pc : {"idle", "read"}] /\ worker'.pc = "idle"
    BY <1>3 DEF Idle
  <2>2. job' \in [state : JobStates, due : Instants, tries : 0 .. Attempts,
                  stalled : BOOLEAN] /\ job'.state = "done"
    BY <1>2, <1>3 DEF JobStates
  <2>3. WorkerHolds'
    BY <2>1, <2>2 DEF WorkerHolds
  <2> QED BY <1>1, <1>3, <2>1, <2>2, <2>3, QueueTypes, QueueMoves
<1>4. CASE /\ worker' = [pc |-> "save", row |-> GoneLive(stream), seen |-> stream]
           /\ job' = job
  <2>1. /\ GoneLive(stream) \in Rows
        /\ GoneLive(stream) \in {stream, [stream EXCEPT !.status = "live"]}
        /\ stream.status = "scheduled" /\ Started(stream.start)
             => GoneLive(stream).status = "live"
    BY <1>2 DEF GoneLive, Rows, Statuses
  <2>2. /\ worker' \in [pc : {"save"}, row : Rows, seen : Rows] /\ worker'.pc = "save"
        /\ worker'.row = GoneLive(stream) /\ worker'.seen = stream
    BY <1>2, <1>4, <2>1
  <2>3. WorkerHolds'
    BY <1>2, <1>4, <2>1, <2>2 DEF WorkerHolds
  <2>4. JobIsGood /\ stream.status = "scheduled" => JobIsGood'
    BY <1>1, <1>2, <1>4, <2>1, <2>2 DEF JobIsGood, Started
  <2> QED BY <1>1, <1>2, <1>4, <2>2, <2>3, <2>4, QueueTypes, QueueMoves
<1> QED BY <1>0, <1>3, <1>4

LEMMA FailsSafe == ASSUME SInv, JobFails PROVE SInv'
<1>1. /\ worker.pc \in {"read", "save"} /\ worker' = Idle /\ job' = Retried
      /\ harm' = IF job'.state = "failed" THEN harm \cup {"exhausted"} ELSE harm
      /\ UNCHANGED <<stream, cancelled, req, clock>>
  BY DEF JobFails
<1>2. /\ job \in [state : JobStates, due : Instants, tries : 0 .. Attempts,
                  stalled : BOOLEAN]
      /\ job.state = "active" /\ job.tries < Attempts /\ clock \in Instants
  BY <1>1 DEF SInv, AllTyped, TypeOK, WorkerHolds
<1>3. job.tries \in Nat /\ job.tries + 1 \in 0 .. Attempts
  BY <1>2, AttemptsAssumption
<1>4. /\ job' \in [state : JobStates, due : Instants, tries : 0 .. Attempts,
                   stalled : BOOLEAN]
      /\ job'.tries = job.tries + 1
      /\ \/ job'.state = "delayed" /\ job'.tries < Attempts
         \/ job'.state = "failed"
  <2>1. CASE job.tries + 1 < Attempts
    <3>1. job' = [job EXCEPT !.tries = job.tries + 1, !.state = "delayed", !.due = clock]
      BY <1>1, <2>1 DEF Retried
    <3> QED BY <1>2, <1>3, <2>1, <3>1 DEF JobStates
  <2>2. CASE ~(job.tries + 1 < Attempts)
    <3>1. job' = [job EXCEPT !.tries = job.tries + 1, !.state = "failed"]
      BY <1>1, <2>2 DEF Retried
    <3> QED BY <1>2, <1>3, <3>1 DEF JobStates
  <2> QED BY <2>1, <2>2
<1>5. worker' \in [pc : {"idle", "read"}] /\ worker'.pc = "idle"
  BY <1>1 DEF Idle
<1>6. WorkerHolds'
  BY <1>4, <1>5 DEF WorkerHolds
<1>7. harm' \subseteq Harms /\ harm \subseteq harm'
  BY <1>1 DEF SInv, AllTyped, TypeOK, Harms
<1>8. harm' = {} /\ JobIsGood => JobIsGood'
  BY <1>1, <1>2, <1>3, <1>4, <1>5 DEF JobIsGood, Started
<1> QED BY <1>1, <1>2, <1>4, <1>5, <1>6, <1>7, <1>8, QueueMoves

\* The process stops, which may leave the schedule broken.
LEMMA StoppedSafe ==
  ASSUME SInv, Stopped, UNCHANGED <<stream, cancelled, clock>> PROVE SInv'
<1>1. /\ req' = [b \in Admins |-> Idle] /\ worker' = Idle
      /\ harm' = harm \cup {"stopped"}
      /\ job' = CASE job.state # "active" -> job
              [] job.state = "active" /\ ~job.stalled ->
                   [job EXCEPT !.state = "delayed", !.due = clock, !.stalled = TRUE]
              [] job.state = "active" /\ job.stalled ->
                   [job EXCEPT !.state = "failed"]
  BY DEF Stopped
<1>2. /\ job \in [state : JobStates, due : Instants, tries : 0 .. Attempts,
                  stalled : BOOLEAN]
      /\ clock \in Instants
  BY DEF SInv, AllTyped, TypeOK
<1>3. /\ job' \in [state : JobStates, due : Instants, tries : 0 .. Attempts,
                   stalled : BOOLEAN]
      /\ job'.state # "active"
      /\ job'.state = "delayed" => job'.tries < Attempts
  <2>1. CASE job.state # "active"
    <3>1. job' = job
      BY <1>1, <2>1
    <3> QED BY <1>2, <2>1, <3>1 DEF SInv, WorkerHolds
  <2>2. CASE job.state = "active" /\ ~job.stalled
    <3>1. job' = [job EXCEPT !.state = "delayed", !.due = clock, !.stalled = TRUE]
      BY <1>1, <2>2
    <3>2. job.tries < Attempts
      BY <2>2 DEF SInv, WorkerHolds
    <3> QED BY <1>2, <3>1, <3>2 DEF JobStates
  <2>3. CASE job.state = "active" /\ job.stalled
    <3>1. job' = [job EXCEPT !.state = "failed"]
      BY <1>1, <2>3
    <3> QED BY <1>2, <3>1 DEF JobStates
  <2> QED BY <2>1, <2>2, <2>3
<1>4. /\ Idle \in AllRequests /\ Idle.pc = "idle" /\ worker'.pc = "idle"
      /\ worker' \in [pc : {"idle", "read"}]
  BY <1>1 DEF Idle, AllRequests
<1>5. AllTyped'
  BY <1>1, <1>2, <1>3, <1>4 DEF SInv, AllTyped, TypeOK, Harms
<1>6. WorkerHolds' /\ EditsKeep' /\ Scheduled'
  BY <1>1, <1>3, <1>4 DEF WorkerHolds, EditsKeep, Scheduled
<1> QED BY <1>5, <1>6 DEF SInv

\* The worker saves what it has read, gone live if that was due.
LEMMA JobSaveSafe == ASSUME SInv, JobSave PROVE SInv'
<1>1. /\ worker.pc = "save" /\ stream' = worker.row
      /\ harm' = harm \cup Overwriting(worker.seen)
      /\ worker' = Idle /\ job' = [job EXCEPT !.state = "done"]
      /\ UNCHANGED <<cancelled, req, clock>>
  BY DEF JobSave
<1>2. worker \in [pc : {"save"}, row : Rows, seen : Rows]
  BY <1>1 DEF SInv, AllTyped, TypeOK
<1>3. job' \in [state : JobStates, due : Instants, tries : 0 .. Attempts,
                stalled : BOOLEAN] /\ job'.state = "done"
  BY <1>1 DEF SInv, AllTyped, TypeOK, JobStates
<1>4. worker' \in [pc : {"idle", "read"}] /\ worker'.pc = "idle"
  BY <1>1 DEF Idle
<1>5. AllTyped'
  BY <1>1, <1>2, <1>3, <1>4 DEF SInv, AllTyped, TypeOK, Overwriting, Harms
<1>6. WorkerHolds' /\ EditsKeep'
  BY <1>1, <1>3, <1>4 DEF SInv, WorkerHolds, EditsKeep
<1>7. Scheduled'
  <2> SUFFICES ASSUME stream'.status = "scheduled", harm' = {}
               PROVE  \E b \in Admins : Fixes(b)'
    BY DEF Scheduled
  <2>1. stream = worker.seen /\ harm = {}
    BY <1>1 DEF Overwriting
  <2>2. stream' = stream
    <3>1. worker.row # [worker.seen EXCEPT !.status = "live"]
      BY <1>1, <1>2 DEF Rows
    <3> QED BY <1>1, <2>1, <3>1 DEF SInv, WorkerHolds
  <2>3. ~JobIsGood
    BY <1>1, <2>1 DEF JobIsGood
  <2>4. PICK b \in Admins : Fixes(b)
    BY <2>1, <2>2, <2>3 DEF SInv, Scheduled
  <2>5. Fixes(b)'
    BY <1>1, <2>2, <2>4, FixesStays
  <2> QED BY <2>5
<1> QED BY <1>5, <1>6, <1>7 DEF SInv

\* A stream that is created is queued next.
LEMMA CreateSafe ==
  ASSUME SInv, NEW a \in Admins, CreateStream(a) PROVE SInv'
<1>1. PICK t \in Instants :
        /\ UNCHANGED <<cancelled, job, worker, clock, harm>>
        /\ \/ stream' = [status |-> "live", start |-> t] /\ req' = req
           \/ /\ stream' = [status |-> "scheduled", start |-> t]
              /\ Go(a, [pc |-> "schedule", kind |-> "create", start |-> t])
  BY DEF CreateStream
<1>2. WorkerHolds'
  BY <1>1 DEF SInv, WorkerHolds
<1>3. CASE stream' = [status |-> "live", start |-> t] /\ req' = req
  <2>1. stream' \in Rows /\ stream'.status # "scheduled"
    BY <1>3 DEF Rows, Statuses
  <2>2. AllTyped'
    BY <1>1, <1>3, <2>1 DEF SInv, AllTyped, TypeOK
  <2>3. EditsKeep' /\ Scheduled'
    BY <1>3, <2>1 DEF SInv, EditsKeep, Scheduled
  <2> QED BY <1>2, <2>2, <2>3 DEF SInv
<1>4. CASE /\ stream' = [status |-> "scheduled", start |-> t]
           /\ Go(a, [pc |-> "schedule", kind |-> "create", start |-> t])
  <2> DEFINE r == [pc |-> "schedule", kind |-> "create", start |-> t]
  <2>1. r \in AllRequests /\ r.pc = "schedule" /\ r.start = t
    BY DEF AllRequests
  <2> HIDE DEF r
  <2>2. /\ req' \in [Admins -> AllRequests] /\ DOMAIN req' = Admins /\ req'[a] = r
        /\ \A b \in Admins \ {a} : req'[b] = req[b]
    BY <1>4, <2>1, GoingOn DEF SInv, r
  <2>3. stream' \in Rows /\ stream'.start = t
    BY <1>4 DEF Rows, Statuses
  <2>4. AllTyped'
    BY <1>1, <2>2, <2>3 DEF SInv, AllTyped, TypeOK
  <2>5. EditsKeep'
    BY <2>1, <2>2 DEF SInv, EditsKeep
  <2>6. Fixes(a)'
    BY <2>1, <2>2, <2>3 DEF Fixes
  <2> QED BY <1>2, <2>4, <2>5, <2>6 DEF SInv, Scheduled
<1> QED BY <1>1, <1>3, <1>4

\* The job is queued: for the start the stream has, or it is not for the
\* last start the stream was given.
LEMMA ScheduleSafe ==
  ASSUME SInv, NEW a \in Admins, ScheduleStream(a) PROVE SInv'
<1>1. /\ req[a].pc = "schedule" /\ UNCHANGED <<stream, cancelled, clock>>
      /\ \/ /\ req[a].start >= clock /\ Enqueue(req[a].start) /\ Answer(a)
            /\ harm' = IF job.state = "none" THEN harm ELSE harm \cup {"crossed"}
            /\ worker' = worker
         \/ Stopped
  BY DEF ScheduleStream
<1>2. CASE Stopped
  BY <1>1, <1>2, StoppedSafe
<1>3. CASE /\ req[a].start >= clock /\ Enqueue(req[a].start) /\ Answer(a)
           /\ harm' = IF job.state = "none" THEN harm ELSE harm \cup {"crossed"}
           /\ worker' = worker
  <2>1. req[a].start \in Instants
    BY <1>1, RequestType DEF SInv
  <2>2. /\ req' \in [Admins -> AllRequests] /\ DOMAIN req' = Admins
        /\ req'[a].pc = "idle" /\ \A b \in Admins \ {a} : req'[b] = req[b]
    BY <1>3, Answered DEF SInv
  <2>3. EditsKeep'
    BY <2>2 DEF SInv, EditsKeep
  <2>4. harm' \subseteq Harms
    BY <1>3 DEF SInv, AllTyped, TypeOK, Harms
  <2>5. CASE job.state = "none"
    <3>1. /\ job' = [state |-> "delayed", due |-> req[a].start, tries |-> 0,
                     stalled |-> FALSE]
      BY <1>3, <2>5 DEF Enqueue, Delayed
    <3>2. /\ job' \in [state : JobStates, due : Instants, tries : 0 .. Attempts,
                       stalled : BOOLEAN]
          /\ job'.state = "delayed" /\ job'.due = req[a].start /\ job'.tries = 0
      BY <2>1, <3>1, AttemptsAssumption DEF JobStates
    <3>3. AllTyped'
      BY <1>1, <1>3, <2>2, <2>4, <3>2 DEF SInv, AllTyped, TypeOK
    <3>4. worker'.pc = "idle" /\ WorkerHolds'
      <4>1. worker.pc = "idle"
        BY <2>5 DEF SInv, WorkerHolds, AllTyped, TypeOK
      <4> QED BY <1>3, <3>2, <4>1, AttemptsAssumption DEF WorkerHolds
    <3>5. Scheduled'
      <4> SUFFICES ASSUME stream'.status = "scheduled", harm' = {}
                   PROVE  JobIsGood' \/ \E b \in Admins : Fixes(b)'
        BY DEF Scheduled
      <4>1. CASE req[a].start = stream.start
        BY <1>1, <3>2, <3>4, <4>1 DEF JobIsGood
      <4>2. CASE req[a].start # stream.start
        <5>1. ~Fixes(a) /\ ~JobIsGood
          BY <1>1, <2>5, <4>2 DEF Fixes, JobIsGood
        <5>2. PICK b \in Admins \ {a} : Fixes(b)
          BY <1>1, <1>3, <2>5, <5>1 DEF SInv, Scheduled
        <5>3. Fixes(b)'
          BY <1>1, <2>2, <5>2, FixesStays
        <5> QED BY <5>3
      <4> QED BY <4>1, <4>2
    <3> QED BY <2>3, <3>3, <3>4, <3>5 DEF SInv
  <2>6. CASE job.state # "none"
    <3>1. job' = job /\ harm' # {}
      BY <1>3, <2>6 DEF Enqueue
    <3>2. AllTyped'
      BY <1>1, <1>3, <2>2, <2>4, <3>1 DEF SInv, AllTyped, TypeOK
    <3>3. WorkerHolds' /\ Scheduled'
      BY <1>3, <3>1 DEF SInv, WorkerHolds, Scheduled
    <3> QED BY <2>3, <3>2, <3>3 DEF SInv
  <2> QED BY <2>5, <2>6
<1> QED BY <1>1, <1>2, <1>3

\* An edit is saved: it leaves the schedule alone, takes the stream off it,
\* or is followed by the job.
LEMMA SaveSafe ==
  ASSUME SInv, NEW a \in Admins, SaveStream(a) PROVE SInv'
<1>1. /\ req[a].pc = "save" /\ stream' = req[a].row
      /\ harm' = harm \cup Overwriting(req[a].seen) \cup Unqueued(req[a])
      /\ UNCHANGED <<cancelled, job, worker, clock>>
  BY DEF SaveStream
<1>2. \/ req[a].moved /\ Go(a, [req[a] EXCEPT !.pc = "job"])
      \/ ~req[a].moved /\ Answer(a)
  BY DEF SaveStream
<1>3. req[a] \in [pc : {"save"}, kind : {"update", "status"},
                  seen : Rows, row : Rows, moved : BOOLEAN]
  BY <1>1, RequestType DEF SInv
<1>4. /\ stream' \in Rows /\ stream \in Rows /\ harm' \subseteq Harms
      /\ cancelled' \subseteq Rounds
  BY <1>1, <1>3 DEF SInv, AllTyped, TypeOK, Harms, Overwriting, Unqueued
<1>5. WorkerHolds'
  BY <1>1 DEF SInv, WorkerHolds
<1>6. CASE req[a].moved /\ Go(a, [req[a] EXCEPT !.pc = "job"])
  <2> DEFINE r == [req[a] EXCEPT !.pc = "job"]
  <2>1. r \in AllRequests /\ r.pc = "job" /\ r.kind = req[a].kind /\ r.row = req[a].row
    BY <1>3 DEF AllRequests
  <2> HIDE DEF r
  <2>2. /\ req' \in [Admins -> AllRequests] /\ DOMAIN req' = Admins /\ req'[a] = r
        /\ \A b \in Admins \ {a} : req'[b] = req[b]
    BY <1>6, <2>1, GoingOn DEF SInv, r
  <2>3. AllTyped'
    BY <1>1, <1>4, <2>2 DEF SInv, AllTyped, TypeOK
  <2>4. EditsKeep'
    BY <2>1, <2>2 DEF SInv, EditsKeep
  <2>5. req[a].kind = "update"
    BY <1>1, <1>6 DEF SInv, EditsKeep
  <2>6. Fixes(a)'
    BY <1>1, <2>1, <2>2, <2>5 DEF Fixes
  <2> QED BY <1>5, <2>3, <2>4, <2>6 DEF SInv, Scheduled
<1>7. CASE ~req[a].moved /\ Answer(a)
  <2>1. /\ req' \in [Admins -> AllRequests] /\ DOMAIN req' = Admins
        /\ req'[a].pc = "idle" /\ \A b \in Admins \ {a} : req'[b] = req[b]
    BY <1>7, Answered DEF SInv
  <2>2. AllTyped'
    BY <1>1, <1>4, <2>1 DEF SInv, AllTyped, TypeOK
  <2>3. EditsKeep'
    BY <2>1 DEF SInv, EditsKeep
  <2>4. Scheduled'
    <3> SUFFICES ASSUME stream'.status = "scheduled", harm' = {}
                 PROVE  JobIsGood' \/ \E b \in Admins : Fixes(b)'
      BY DEF Scheduled
    <3>1. stream = req[a].seen /\ harm = {} /\ Unqueued(req[a]) = {}
      BY <1>1 DEF Overwriting
    <3>2. req[a].seen.status = "scheduled"
      BY <1>1, <1>7, <3>1 DEF Unqueued
    <3>3. req[a].row.start = req[a].seen.start
      BY <1>1, <1>7 DEF SInv, EditsKeep
    <3>4. stream' = stream
      BY <1>1, <1>4, <3>1, <3>2, <3>3 DEF Rows
    <3>5. JobIsGood \/ \E b \in Admins : Fixes(b)
      BY <3>1, <3>2 DEF SInv, Scheduled
    <3>6. CASE JobIsGood
      BY <1>1, <3>4, <3>6 DEF JobIsGood, Started
    <3>7. ASSUME NEW b \in Admins, Fixes(b) PROVE Fixes(b)'
      <4>1. b # a
        BY <1>1, <3>7 DEF Fixes
      <4> QED BY <2>1, <3>4, <3>7, <4>1, FixesStays
    <3> QED BY <3>5, <3>6, <3>7
  <2> QED BY <1>5, <2>2, <2>3, <2>4 DEF SInv
<1> QED BY <1>2, <1>6, <1>7

\* A job is gone, and whoever removed it queues the stream or calls it off.
LEMMA RemovalSafe ==
  ASSUME SInv, NEW a \in Admins, job.state # "active", job' = NoJob,
         req' \in [Admins -> AllRequests], DOMAIN req' = Admins,
         req'[a].pc # "save", \A b \in Admins \ {a} : req'[b] = req[b],
         UNCHANGED <<stream, cancelled, worker, clock>>,
         harm' \subseteq Harms, harm \subseteq harm',
         stream.status = "scheduled" /\ harm' = {} => Fixes(a)'
  PROVE  SInv'
<1>1. job' \in [state : JobStates, due : Instants, tries : 0 .. Attempts,
                stalled : BOOLEAN]
      /\ job'.state = "none"
  BY MaxClockAssumption, AttemptsAssumption DEF NoJob, JobStates, Instants
<1>2. AllTyped'
  BY <1>1 DEF SInv, AllTyped, TypeOK
<1>3. WorkerHolds'
  BY <1>1 DEF SInv, WorkerHolds
<1>4. EditsKeep' /\ Scheduled'
  BY DEF SInv, EditsKeep, Scheduled
<1> QED BY <1>2, <1>3, <1>4 DEF SInv

LEMMA RemoveMovedSafe ==
  ASSUME SInv, NEW a \in Admins, RemoveMovedJob(a) PROVE SInv'
<1>1. /\ req[a].pc = "remove" /\ req[a].kind = "update"
      /\ UNCHANGED <<stream, cancelled, worker, clock>>
  BY DEF RemoveMovedJob, At
<1>2. req[a] \in [pc : {"job", "remove"}, kind : {"update"},
                  seen : Rows, row : Rows, moved : BOOLEAN]
  BY <1>1, RequestType DEF SInv
<1>3. \/ /\ job.state # "active" /\ AfterRemoval(a, req[a].row) /\ job' = NoJob
         /\ harm' = IF stream = req[a].row THEN harm ELSE harm \cup {"crossed"}
      \/ Answer(a) /\ harm' = harm \cup {"halfway"} /\ job' = job
  BY DEF RemoveMovedJob, Remove
<1>4. harm' \subseteq Harms /\ harm \subseteq harm'
  BY <1>3 DEF SInv, AllTyped, TypeOK, Harms
<1>5. CASE /\ job.state # "active" /\ AfterRemoval(a, req[a].row) /\ job' = NoJob
           /\ harm' = IF stream = req[a].row THEN harm ELSE harm \cup {"crossed"}
  <2>1. CASE req[a].row.status = "scheduled"
    <3> DEFINE r == [pc |-> "schedule", kind |-> "update", start |-> req[a].row.start]
    <3>1. r \in AllRequests /\ r.pc = "schedule" /\ r.start = req[a].row.start
      BY <1>2 DEF AllRequests, Rows
    <3>2. Go(a, r)
      BY <1>5, <2>1 DEF AfterRemoval
    <3> HIDE DEF r
    <3>3. /\ req' \in [Admins -> AllRequests] /\ DOMAIN req' = Admins /\ req'[a] = r
          /\ \A b \in Admins \ {a} : req'[b] = req[b]
      BY <3>1, <3>2, GoingOn DEF SInv
    <3>4. harm' = {} => Fixes(a)'
      BY <1>1, <1>5, <3>1, <3>3 DEF Fixes
    <3> QED BY <1>1, <1>4, <1>5, <3>1, <3>3, <3>4, RemovalSafe
  <2>2. CASE req[a].row.status # "scheduled"
    <3>1. Answer(a)
      BY <1>5, <2>2 DEF AfterRemoval
    <3>2. /\ req' \in [Admins -> AllRequests] /\ DOMAIN req' = Admins
          /\ req'[a].pc = "idle" /\ \A b \in Admins \ {a} : req'[b] = req[b]
      BY <3>1, Answered DEF SInv
    <3>3. stream.status # "scheduled" \/ harm' # {}
      BY <1>5, <2>2
    <3> QED BY <1>1, <1>4, <1>5, <3>2, <3>3, RemovalSafe
  <2> QED BY <2>1, <2>2
<1>6. CASE Answer(a) /\ harm' = harm \cup {"halfway"} /\ job' = job
  <2>1. /\ req' \in [Admins -> AllRequests] /\ DOMAIN req' = Admins
        /\ req'[a].pc = "idle" /\ \A b \in Admins \ {a} : req'[b] = req[b]
    BY <1>6, Answered DEF SInv
  <2>2. cancelled' \subseteq Rounds /\ harm' # {}
    BY <1>1, <1>6 DEF SInv, AllTyped, TypeOK
  <2> QED BY <1>1, <1>4, <1>6, <2>1, <2>2, RequestMoves
<1> QED BY <1>3, <1>5, <1>6

LEMMA RemoveScheduledSafe ==
  ASSUME SInv, NEW a \in Admins, RemoveScheduledJob(a) PROVE SInv'
<1>1. /\ req[a].pc = "remove" /\ req[a].kind \in {"cancel", "delete"}
      /\ UNCHANGED <<stream, cancelled, worker, clock, harm>>
  BY DEF RemoveScheduledJob, CallingOff, At
<1>2. req[a] \in [pc : {"job", "remove", "status", "rounds"},
                  kind : {"cancel", "delete"}, rounds : SUBSET Rounds]
  BY <1>1, RequestType DEF SInv
<1>3. \/ job.state # "active" /\ Go(a, [req[a] EXCEPT !.pc = "status"]) /\ job' = NoJob
      \/ Answer(a) /\ job' = job
  BY DEF RemoveScheduledJob, Remove
<1>4. cancelled' \subseteq Rounds /\ harm' \subseteq Harms
  BY <1>1 DEF SInv, AllTyped, TypeOK
<1>5. CASE job.state # "active" /\ Go(a, [req[a] EXCEPT !.pc = "status"]) /\ job' = NoJob
  <2> DEFINE r == [req[a] EXCEPT !.pc = "status"]
  <2>1. r \in AllRequests /\ r.pc = "status"
    BY <1>2 DEF AllRequests
  <2> HIDE DEF r
  <2>2. /\ req' \in [Admins -> AllRequests] /\ DOMAIN req' = Admins /\ req'[a] = r
        /\ \A b \in Admins \ {a} : req'[b] = req[b]
    BY <1>5, <2>1, GoingOn DEF SInv, r
  <2>3. Fixes(a)'
    BY <2>1, <2>2 DEF Fixes
  <2> QED BY <1>1, <1>4, <1>5, <2>1, <2>2, <2>3, RemovalSafe
<1>6. CASE Answer(a) /\ job' = job
  <2>1. /\ req' \in [Admins -> AllRequests] /\ DOMAIN req' = Admins
        /\ req'[a].pc = "idle" /\ \A b \in Admins \ {a} : req'[b] = req[b]
    BY <1>6, Answered DEF SInv
  <2>2. ~Fixes(a)
    BY <1>1 DEF Fixes
  <2> QED BY <1>1, <1>4, <1>6, <2>1, <2>2, RequestMoves
<1> QED BY <1>3, <1>5, <1>6

\* A stream that is called off is scheduled no more.
LEMMA WriteSafe ==
  ASSUME SInv, NEW a \in Admins, WriteCalledOff(a) PROVE SInv'
<1>1. /\ req[a].pc = "status" /\ req[a].kind \in {"cancel", "delete"}
      /\ stream' = [stream EXCEPT !.status = StatusOf(req[a].kind)]
      /\ Go(a, [req[a] EXCEPT !.pc = "rounds"])
      /\ UNCHANGED <<cancelled, job, worker, clock, harm>>
  BY DEF WriteCalledOff, CallingOff, At
<1>2. req[a] \in [pc : {"job", "remove", "status", "rounds"},
                  kind : {"cancel", "delete"}, rounds : SUBSET Rounds]
  BY <1>1, RequestType DEF SInv
<1>3. StatusOf(req[a].kind) \in {"cancelled", "deleted"}
  BY DEF StatusOf
<1>4. stream' \in Rows /\ stream'.status # "scheduled"
  BY <1>1, <1>3 DEF SInv, AllTyped, TypeOK, Rows, Statuses
<1> DEFINE r == [req[a] EXCEPT !.pc = "rounds"]
<1>5. r \in AllRequests /\ r.pc = "rounds"
  BY <1>2 DEF AllRequests
<1> HIDE DEF r
<1>6. /\ req' \in [Admins -> AllRequests] /\ DOMAIN req' = Admins /\ req'[a] = r
      /\ \A b \in Admins \ {a} : req'[b] = req[b]
  BY <1>1, <1>5, GoingOn DEF SInv, r
<1>7. AllTyped'
  BY <1>1, <1>4, <1>6 DEF SInv, AllTyped, TypeOK
<1>8. WorkerHolds' /\ EditsKeep' /\ Scheduled'
  BY <1>1, <1>4, <1>5, <1>6 DEF SInv, WorkerHolds, EditsKeep, Scheduled
<1> QED BY <1>7, <1>8 DEF SInv

LEMMA NextSafe == SInv /\ [Next]_vars => SInv'
<1> SUFFICES ASSUME SInv, [Next]_vars PROVE SInv'
  OBVIOUS
<1>1. CASE UNCHANGED vars
  <2>1. UNCHANGED <<stream, cancelled, job, worker, req, clock, harm>>
    BY <1>1 DEF vars
  <2>2. WorkerHolds' /\ (JobIsGood => JobIsGood')
    BY <2>1 DEF SInv, WorkerHolds, JobIsGood, Started
  <2> QED BY <2>1, <2>2, QueueTypes, QueueMoves
<1>2. CASE Tick \/ EvictJob \/ WorkerStep \/ JobFails
  BY <1>2, TickSafe, EvictSafe, TakeSafe, ReadSafe, JobSaveSafe, FailsSafe DEF WorkerStep
<1>3. CASE Stop
  <2>1. Stopped /\ UNCHANGED <<stream, cancelled, clock>>
    BY <1>3 DEF Stop
  <2> QED BY <2>1, StoppedSafe
<1>4. ASSUME NEW a \in Admins,
             \/ CreateStream(a) \/ UpdateStream(a) \/ SetStreamStatus(a)
             \/ CallOffStream(a) \/ RequestStep(a)
      PROVE  SInv'
  <2>1. CASE CreateStream(a)
    BY <2>1, CreateSafe
  <2>2. CASE UpdateStream(a) \/ SetStreamStatus(a) \/ CallOffStream(a)
    BY <2>2, RequestReadsSafe
  <2>3. CASE ScheduleStream(a) \/ SaveStream(a)
    BY <2>3, ScheduleSafe, SaveSafe
  <2>4. CASE FindMovedJob(a) \/ FindScheduledJob(a) \/ CancelNextRound(a)
    BY <2>4, FindsSafe, CancelsSafe
  <2>5. CASE RemoveMovedJob(a) \/ RemoveScheduledJob(a) \/ WriteCalledOff(a)
    BY <2>5, RemoveMovedSafe, RemoveScheduledSafe, WriteSafe
  <2> QED BY <1>4, <2>1, <2>2, <2>3, <2>4, <2>5 DEF RequestStep
<1> QED BY <1>1, <1>2, <1>3, <1>4 DEF Next

LEMMA Safe == Spec => []SInv
BY SInitial, NextSafe, PTL DEF Spec

\* The row, the job, the worker and the clock are of their types, for every
\* kind of request: the job never has more attempts than are configured, and
\* is never due at an instant no stream has.
THEOREM ScheduleTypeCorrect == Spec => []TypeOK
<1>1. SInv => TypeOK
  BY DEF SInv, AllTyped
<1> QED BY <1>1, Safe, PTL

\* A stream that is scheduled when nothing is in flight has a job that will
\* take it live, unless one of the six ways to lose it has happened: for every
\* kind of request, any number of administrators and any edits.
THEOREM ScheduledStreamHasJob == Spec => []ScheduledHasJob
<1>1. SInv => ScheduledHasJob
  <2> SUFFICES ASSUME SInv, Quiet, stream.status = "scheduled", harm = {}
               PROVE  job.state = "delayed" /\ (job.tries = 0 => job.due = stream.start)
    BY DEF ScheduledHasJob
  <2>1. Idle.pc = "idle"
    BY DEF Idle
  <2>2. \A a \in Admins : ~Fixes(a)
    BY <2>1 DEF Quiet, Fixes
  <2>3. JobIsGood
    BY <2>2 DEF SInv, Scheduled
  <2>4. job.state # "active"
    BY <2>1 DEF Quiet, SInv, WorkerHolds
  <2> QED BY <2>3, <2>4 DEF JobIsGood
<1> QED BY <1>1, Safe, PTL
=============================================================================
