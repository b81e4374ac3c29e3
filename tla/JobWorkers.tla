----------------------------- MODULE JobWorkers -----------------------------
(***************************************************************************)
(* The processes that run breeding jobs: JobWorker and the Phase 6 handler *)
(* of the Agent, over the database functions of BreedingJobs.              *)
(*                                                                         *)
(* A worker claims a job, runs its handler (load the facts, search, store  *)
(* the plan, explain, store the explanation) while a second task renews    *)
(* the lease, and reports the result.  Every call is three steps, sent,    *)
(* executed by the database and answered; its client may give up on it at  *)
(* any moment and at the latest after RequestTimeout, and the request it   *)
(* leaves behind (a stray) is executed later or never.  Workers of one     *)
(* host are tasks of one asyncio.TaskGroup: an error that ends one of them *)
(* ends the process, and docker starts it again.                           *)
(*                                                                         *)
(* Time is counted in ticks.  What a timer orders happens at its tick: a   *)
(* tick does not pass while a task is due (the event loop is taken to be   *)
(* faster than a tick; the search runs in a thread of its own).            *)
(***************************************************************************)
EXTENDS BreedingJobs

CONSTANTS Hosts,             \* Agent processes
          HostOf,            \* the host of each worker
          Reapers,           \* worker 0 of each host, which runs the reaper
          HeartbeatInterval, \* JOB_HEARTBEAT_INTERVAL_SECONDS
          RequestTimeout,    \* DATABASE_REQUEST_TIMEOUT_SECONDS
          Margin,            \* JOB_LEASE_SAFETY_MARGIN_SECONDS
          Lease,             \* JOB_LEASE_TIMEOUT_SECONDS
          Grace,             \* JOB_SHUTDOWN_GRACE_SECONDS
          Skew,              \* how far a reaper's clock may run ahead
          MaxStrays,         \* bound: requests left behind at one time
          MaxCrashes,        \* bound: processes that die on their own
          MaxStops,          \* bound: SIGTERMs
          MaxAdmin           \* bound: interventions from outside the workers

\* validate_worker_timing, checked again by JobWorker
ASSUME TimingAssumption ==
  /\ HeartbeatInterval \in Nat /\ RequestTimeout \in Nat /\ Margin \in Nat
  /\ Lease \in Nat /\ Grace \in Nat /\ Skew \in 0..Lease
  /\ HeartbeatInterval + RequestTimeout + Margin < Lease
  /\ AgeCap = Lease + 1
ASSUME BoundsAssumption ==
  MaxStrays \in Nat /\ MaxCrashes \in Nat /\ MaxStops \in Nat /\ MaxAdmin \in Nat
ASSUME HostAssumption == HostOf \in [Workers -> Hosts] /\ Reapers \subseteq Workers

Safe == Lease - Margin   \* safe_window_seconds

VARIABLES doing,    \* what the main task of each worker is at
          claim,    \* the job and lease of its last claim
          call,     \* its outstanding call: where it is and since when
          beat,     \* its heartbeat task
          sinceOk,  \* time since last_success in the heartbeat task
          grace,    \* time since the stop was noticed
          stopping, \* the hosts that received SIGTERM
          strays,   \* requests whose client has given up
          budget    \* what the bounds have left

workerVars == <<doing, claim, call, beat, sinceOk, grace>>
vars == <<jobVars, workerVars, stopping, strays, budget>>

Executing == {"work", "algorithm", "explain", "ai"}     \* the handler runs
Reporting == {"complete", "retry", "fail", "release"}   \* its result is sent
Leased    == Executing \cup Reporting                    \* the heartbeat task runs
Calling   == {"claim", "algorithm", "ai"} \cup Reporting

NoCall  == [at |-> "none", age |-> 0]
Sent    == [at |-> "sent", age |-> 0]
NoBeat  == [at |-> "off", age |-> 0, wait |-> 0]
NoClaim == [job |-> None, lease |-> NoLease]

WorkerInit ==
  /\ JobInit
  /\ doing = [w \in Workers |-> "idle"]
  /\ claim = [w \in Workers |-> NoClaim]
  /\ call = [w \in Workers |-> NoCall]
  /\ beat = [w \in Workers |-> NoBeat]
  /\ sinceOk = [w \in Workers |-> 0]
  /\ grace = [w \in Workers |-> 0]
  /\ stopping = {}
  /\ strays = {}
  /\ budget = [crashes |-> MaxCrashes, stops |-> MaxStops, admin |-> MaxAdmin]

-----------------------------------------------------------------------------
\* The request of an operation a worker has sent, and its execution.
Request(w, op) == [op |-> op, worker |-> w, job |-> claim[w].job, lease |-> claim[w].lease]

Execute(op, j, w, t) ==
  \/ op = "heartbeat" /\ Heartbeat(j, w, t)
  \/ op = "algorithm" /\ PersistAlgorithm(j, w, t)
  \/ op = "ai"        /\ PersistAi(j, w, t)
  \/ op = "complete"  /\ Complete(j, w, t)
  \/ op = "retry"     /\ Fail(j, w, t, TRUE)
  \/ op = "fail"      /\ Fail(j, w, t, FALSE)
  \/ op = "release"   /\ Release(j, w, t)

\* What the database refuses it has not changed: the guards of Execute.
Accepted(op, j, w, t) ==
  /\ Owns(j, w, t)
  /\ op = "algorithm" => jobs[j].status \in {"processing", "algorithm_completed"}
  /\ op = "ai" => /\ jobs[j].status \in {"algorithm_completed", "ai_enriching"}
                  /\ plans[j]["algorithm"] # NoLease

\* Completing a job that is completed succeeds, whoever asks, and changes nothing.
EndedAlready(op, j) == op = "complete" /\ jobs[j].status = "completed"

\* A plan whose routes differ from those an earlier attempt left at their ranks breaks
\* the unique constraint on plan and rank, and is refused with all it would have changed.
MayMisfit(op, j, t) == op = "algorithm" /\ plans[j]["algorithm"] \notin {NoLease, t}

\* What the workers of W leave on the network when they let go of what they
\* have sent: requests that are lost or still travel.
OpenCalls(W) == {Request(w, doing[w]) : w \in {v \in W : call[v].at = "sent"}}
OpenBeats(W) == {Request(w, "heartbeat") : w \in {v \in W : beat[v].at = "sent"}}

LeaveBehind(requests) ==
  \E kept \in SUBSET requests :
    /\ Cardinality(strays \cup kept) <= MaxStrays
    /\ strays' = strays \cup kept

\* The worker is done with its claim, or has none.
Settle(W, to) ==
  /\ doing' = [w \in Workers |-> IF w \in W THEN to ELSE doing[w]]
  /\ claim' = [w \in Workers |-> IF w \in W THEN NoClaim ELSE claim[w]]
  /\ call' = [w \in Workers |-> IF w \in W THEN NoCall ELSE call[w]]
  /\ beat' = [w \in Workers |-> IF w \in W THEN NoBeat ELSE beat[w]]
  /\ sinceOk' = [w \in Workers |-> IF w \in W THEN 0 ELSE sinceOk[w]]
  /\ grace' = [w \in Workers |-> IF w \in W THEN 0 ELSE grace[w]]
  /\ LeaveBehind(OpenCalls(W) \cup OpenBeats(W))

WorkersOf(h) == {w \in Workers : HostOf[w] = h}
Stopping(w) == HostOf[w] \in stopping

\* The process ends; whatever its tasks were at is cancelled.
HostDies(h) ==
  /\ Settle(WorkersOf(h), "off")
  /\ stopping' = stopping \ {h}

-----------------------------------------------------------------------------
\* Mutation: the stop is not looked at between two jobs.
SendClaimWhileStopping(w) ==
  /\ doing[w] = "idle"
  /\ doing' = [doing EXCEPT ![w] = "claim"]
  /\ call' = [call EXCEPT ![w] = Sent]
  /\ UNCHANGED <<jobVars, claim, beat, sinceOk, grace, stopping, strays, budget>>

\* run, run_once: a claim is sent while no stop is requested.
SendClaim(w) ==
  /\ doing[w] = "idle"
  /\ ~Stopping(w)
  /\ doing' = [doing EXCEPT ![w] = "claim"]
  /\ call' = [call EXCEPT ![w] = Sent]
  /\ UNCHANGED <<jobVars, claim, beat, sinceOk, grace, stopping, strays, budget>>

\* A row is claimed, or none is free; a locked row is passed over.
ExecuteClaim(w) ==
  /\ doing[w] = "claim"
  /\ call[w].at = "sent"
  /\ \E j \in JobIds :
       /\ Claim(j, w)
       /\ claim' = [claim EXCEPT ![w] = [job |-> j, lease |-> lastLease']]
  /\ call' = [call EXCEPT ![w].at = "ok"]
  /\ UNCHANGED <<doing, beat, sinceOk, grace, stopping, strays, budget>>

NothingToClaim(w) ==
  /\ doing[w] = "claim"
  /\ call[w].at = "sent"
  /\ doing' = [doing EXCEPT ![w] = "idle"]
  /\ call' = [call EXCEPT ![w] = NoCall]
  /\ UNCHANGED <<jobVars, claim, beat, sinceOk, grace, stopping, strays, budget>>

\* _execute_claim: the handler and the heartbeat task start.
ReceiveClaim(w) ==
  /\ doing[w] = "claim"
  /\ call[w].at = "ok"
  /\ doing' = [doing EXCEPT ![w] = "work"]
  /\ call' = [call EXCEPT ![w] = NoCall]
  /\ beat' = [beat EXCEPT ![w] = [at |-> "waiting", age |-> 0, wait |-> HeartbeatInterval]]
  /\ UNCHANGED <<jobVars, claim, sinceOk, grace, stopping, strays, budget>>

\* Mutation: the reaper keeps the safety margin of the workers.
ReapEarly(w) ==
  /\ w \in Reapers
  /\ doing[w] = "idle"
  /\ ~Stopping(w)
  /\ ReleaseStale(Safe)
  /\ UNCHANGED <<workerVars, stopping, strays, budget>>

\* _reap_if_due, between two claims.
Reap(w) ==
  /\ w \in Reapers
  /\ doing[w] = "idle"
  /\ ~Stopping(w)
  /\ \E cutoff \in (Lease - Skew)..Lease : ReleaseStale(cutoff)
  /\ UNCHANGED <<workerVars, stopping, strays, budget>>

-----------------------------------------------------------------------------
\* The handler.  A step of it that ends in a call sends it.
Call(w, from, op) ==
  /\ doing[w] = from
  /\ doing' = [doing EXCEPT ![w] = op]
  /\ call' = [call EXCEPT ![w] = Sent]
  /\ UNCHANGED <<jobVars, claim, beat, sinceOk, grace, stopping, strays, budget>>

\* load_facts and the search give a result, or an error (JobExecutionResult.failed).
Work(w) == \E op \in {"algorithm", "retry", "fail"} : Call(w, "work", op)

\* An explanation is always found, the template provider being the last resort; but the
\* request for it may not be built (ValueError), a retryable failure of the handler.
Explain(w) == \E op \in {"ai", "retry"} : Call(w, "explain", op)

\* The database executes the outstanding call of w.
ExecuteCall(w) ==
  /\ doing[w] \in Calling \ {"claim"}
  /\ call[w].at = "sent"
  /\ \/ /\ Execute(doing[w], claim[w].job, w, claim[w].lease)
        /\ call' = [call EXCEPT ![w].at = "ok"]
     \/ /\ EndedAlready(doing[w], claim[w].job)
        /\ call' = [call EXCEPT ![w].at = "ok"]
        /\ UNCHANGED jobVars
     \/ /\ ~Accepted(doing[w], claim[w].job, w, claim[w].lease)
        /\ ~EndedAlready(doing[w], claim[w].job)
        /\ call' = [call EXCEPT ![w].at = "refused"]
        /\ UNCHANGED jobVars
     \/ /\ Accepted(doing[w], claim[w].job, w, claim[w].lease)
        /\ MayMisfit(doing[w], claim[w].job, claim[w].lease)
        /\ call' = [call EXCEPT ![w].at = "misfit"]
        /\ UNCHANGED jobVars
  /\ UNCHANGED <<doing, claim, beat, sinceOk, grace, stopping, strays, budget>>

\* The answer of a call the handler made.
ReceivePersisted(w) ==
  /\ doing[w] \in {"algorithm", "ai"}
  /\ \/ /\ call[w].at = "ok"
        /\ doing' = [doing EXCEPT ![w] = IF @ = "algorithm" THEN "explain" ELSE "complete"]
     \/ /\ call[w].at \in {"refused", "misfit"}       \* not retryable
        /\ doing' = [doing EXCEPT ![w] = "fail"]
  /\ call' = [call EXCEPT ![w] = IF doing'[w] = "explain" THEN NoCall ELSE Sent]
  /\ UNCHANGED <<jobVars, claim, beat, sinceOk, grace, stopping, strays, budget>>

\* Mutation: a call nobody answered is taken for done.
PersistUnansweredIsDone(w) ==
  /\ doing[w] \in {"algorithm", "ai"}
  /\ call[w].at # "none"
  /\ LeaveBehind(OpenCalls({w}))
  /\ doing' = [doing EXCEPT ![w] = IF @ = "algorithm" THEN "explain" ELSE "complete"]
  /\ call' = [call EXCEPT ![w] = IF doing'[w] = "explain" THEN NoCall ELSE Sent]
  /\ UNCHANGED <<jobVars, claim, beat, sinceOk, grace, stopping, budget>>

\* A call of the handler is not answered: a retryable failure is reported.
PersistUnanswered(w) ==
  /\ doing[w] \in {"algorithm", "ai"}
  /\ call[w].at # "none"
  /\ LeaveBehind(OpenCalls({w}))
  /\ doing' = [doing EXCEPT ![w] = "retry"]
  /\ call' = [call EXCEPT ![w] = Sent]
  /\ UNCHANGED <<jobVars, claim, beat, sinceOk, grace, stopping, budget>>

\* _persist_result or release is answered; a refusal is not retryable: run
\* raises it and the process ends.
ReceiveReported(w) ==
  /\ doing[w] \in Reporting
  /\ \/ /\ call[w].at = "ok"
        /\ Settle({w}, "idle")
        /\ UNCHANGED stopping
     \/ /\ call[w].at = "refused"
        /\ HostDies(HostOf[w])
  /\ UNCHANGED <<jobVars, budget>>

\* A claim or a report is not answered: run backs off and goes on.
Unanswered(w) ==
  /\ doing[w] \in Reporting \cup {"claim"}
  /\ call[w].at # "none"
  /\ Settle({w}, "idle")
  /\ UNCHANGED <<jobVars, stopping, budget>>

-----------------------------------------------------------------------------
\* _heartbeat_loop.  A beat waits, is sent, executed and answered like a call.
SendBeat(w) ==
  /\ beat[w].at = "waiting"
  /\ beat[w].wait = 0
  /\ sinceOk[w] < Safe
  /\ beat' = [beat EXCEPT ![w] = [at |-> "sent", age |-> 0, wait |-> 0]]
  /\ UNCHANGED <<jobVars, doing, claim, call, sinceOk, grace, stopping, strays, budget>>

ExecuteBeat(w) ==
  /\ beat[w].at = "sent"
  /\ IF Owns(claim[w].job, w, claim[w].lease)
       THEN /\ Heartbeat(claim[w].job, w, claim[w].lease)
            /\ beat' = [beat EXCEPT ![w].at = "ok"]
       ELSE /\ beat' = [beat EXCEPT ![w].at = "refused"]
            /\ UNCHANGED jobVars
  /\ UNCHANGED <<doing, claim, call, sinceOk, grace, stopping, strays, budget>>

\* last_success is the time of the answer, not of the beat.
BeatAnswered(w) ==
  /\ beat[w].at = "ok"
  /\ sinceOk' = [sinceOk EXCEPT ![w] = 0]
  /\ beat' = [beat EXCEPT ![w] = [at |-> "waiting", age |-> 0, wait |-> HeartbeatInterval]]
  /\ UNCHANGED <<jobVars, doing, claim, call, grace, stopping, strays, budget>>

InFlight(b) == b.at \in {"sent", "ok", "refused"}

\* Mutation: an attempt counts as a success.
BeatUnansweredCounts(w) ==
  /\ InFlight(beat[w])
  /\ sinceOk[w] < Safe
  /\ LeaveBehind(OpenBeats({w}))
  /\ beat' = [beat EXCEPT ![w] = [at |-> "waiting", age |-> 0, wait |-> 1]]
  /\ sinceOk' = [sinceOk EXCEPT ![w] = 0]
  /\ UNCHANGED <<jobVars, doing, claim, call, grace, stopping, budget>>

\* The client gives up on a beat and pauses for a second, here a tick.
BeatUnanswered(w) ==
  /\ InFlight(beat[w])
  /\ sinceOk[w] < Safe
  /\ LeaveBehind(OpenBeats({w}))
  /\ beat' = [beat EXCEPT ![w] = [at |-> "waiting", age |-> 0, wait |-> 1]]
  /\ UNCHANGED <<jobVars, doing, claim, call, sinceOk, grace, stopping, budget>>

\* The heartbeat task raises: the lease is lost, or may be soon.
MustEnd(w) ==
  \/ beat[w].at = "refused"
  \/ beat[w].at \in {"waiting", "sent", "ok"} /\ sinceOk[w] >= Safe

\* Mutation: nobody cancels the handler.
BeatEndsAlone(w) ==
  /\ MustEnd(w)
  /\ LeaveBehind(OpenBeats({w}))
  /\ beat' = [beat EXCEPT ![w] = [NoBeat EXCEPT !.at = "ended"]]
  /\ sinceOk' = [sinceOk EXCEPT ![w] = 0]
  /\ UNCHANGED <<jobVars, doing, claim, call, grace, stopping, budget>>

\* _execute_claim cancels the handler, if it is still waiting for the first
\* of its three tasks.  Once it waits for the handler alone (during the
\* shutdown grace) or reports, nobody looks at the heartbeat task any more.
BeatEnds(w) ==
  /\ MustEnd(w)
  /\ IF doing[w] \in Executing /\ ~Stopping(w)
       THEN Settle({w}, "idle")
       ELSE /\ LeaveBehind(OpenBeats({w}))
            /\ beat' = [beat EXCEPT ![w] = [NoBeat EXCEPT !.at = "ended"]]
            /\ sinceOk' = [sinceOk EXCEPT ![w] = 0]
            /\ UNCHANGED <<doing, claim, call, grace>>
  /\ UNCHANGED <<jobVars, stopping, budget>>

-----------------------------------------------------------------------------
\* handle_signal on every worker of the process.
SigTerm(h) ==
  /\ budget.stops > 0
  /\ h \notin stopping
  /\ \E w \in WorkersOf(h) : doing[w] # "off"
  /\ stopping' = stopping \cup {h}
  /\ budget' = [budget EXCEPT !.stops = @ - 1]
  /\ UNCHANGED <<jobVars, workerVars, strays>>

\* run returns.
Quit(w) ==
  /\ doing[w] = "idle"
  /\ Stopping(w)
  /\ doing' = [doing EXCEPT ![w] = "off"]
  /\ UNCHANGED <<jobVars, claim, call, beat, sinceOk, grace, stopping, strays, budget>>

\* _finish_during_shutdown gives up: the handler is cancelled, the job released.
GraceIsOver(w) == doing[w] \in Executing /\ Stopping(w) /\ grace[w] >= Grace

GraceOver(w) ==
  /\ GraceIsOver(w)
  /\ LeaveBehind(OpenCalls({w}))
  /\ doing' = [doing EXCEPT ![w] = "release"]
  /\ call' = [call EXCEPT ![w] = Sent]
  /\ UNCHANGED <<jobVars, claim, beat, sinceOk, grace, stopping, budget>>

\* The container is started again once the process is gone.
Start(h) ==
  /\ \A w \in WorkersOf(h) : doing[w] = "off"
  /\ doing' = [w \in Workers |-> IF HostOf[w] = h THEN "idle" ELSE doing[w]]
  /\ stopping' = stopping \ {h}
  /\ UNCHANGED <<jobVars, claim, call, beat, sinceOk, grace, strays, budget>>

\* The process is killed, at any moment (docker kills it 35 s after SIGTERM).
Crash(h) ==
  /\ budget.crashes > 0
  /\ \E w \in WorkersOf(h) : doing[w] # "off"
  /\ HostDies(h)
  /\ budget' = [budget EXCEPT !.crashes = @ - 1]
  /\ UNCHANGED jobVars

\* A request whose client has given up reaches the database, or is lost.
ExecuteStray(r) ==
  /\ IF r.op = "claim" THEN \E j \in JobIds : Claim(j, r.worker)
                       ELSE Execute(r.op, r.job, r.worker, r.lease)
  /\ strays' = strays \ {r}
  /\ UNCHANGED <<workerVars, stopping, budget>>

LoseStray(r) ==
  /\ strays' = strays \ {r}
  /\ UNCHANGED <<jobVars, workerVars, stopping, budget>>

\* The web site creates jobs; administrators and the retention of inputs
\* reach into them.
Create(j, r) ==
  /\ Insert(j, r)
  /\ UNCHANGED <<workerVars, stopping, strays, budget>>

Intervene ==
  /\ budget.admin > 0
  /\ budget' = [budget EXCEPT !.admin = @ - 1]
  /\ (\E j \in JobIds : AdminCall(j)) \/ (\E r \in Requests : ExpireInputs({r}))
  /\ UNCHANGED <<workerVars, stopping, strays>>

-----------------------------------------------------------------------------
\* What a timer has made due and the event loop has not done yet.
Due(w) ==
  \/ call[w].age >= RequestTimeout
  \/ InFlight(beat[w]) /\ beat[w].age >= RequestTimeout
  \/ beat[w].at = "waiting" /\ beat[w].wait = 0
  \/ MustEnd(w)
  \/ GraceIsOver(w)

Beating(w) == beat[w].at \notin {"off", "ended"}

Passed(b) == [at |-> b.at, age |-> IF InFlight(b) THEN b.age + 1 ELSE 0,
              wait |-> IF b.at = "waiting" THEN b.wait - 1 ELSE 0]

TimePasses ==
  /\ \A w \in Workers : ~Due(w)
  /\ Tick
  /\ call' = [w \in Workers |-> IF call[w].at = "none" THEN NoCall
                                ELSE [call[w] EXCEPT !.age = @ + 1]]
  /\ beat' = [w \in Workers |-> Passed(beat[w])]
  /\ sinceOk' = [w \in Workers |-> IF Beating(w) THEN sinceOk[w] + 1 ELSE 0]
  /\ grace' = [w \in Workers |-> IF doing[w] \in Executing /\ Stopping(w)
                                 THEN grace[w] + 1 ELSE grace[w]]
  /\ UNCHANGED <<doing, claim, stopping, strays, budget>>

\* What the main task of a worker does by itself.
Proceed(w) ==
  \/ SendClaim(w) \/ ReceiveClaim(w) \/ Work(w) \/ Explain(w)
  \/ Quit(w) \/ GraceOver(w)

\* A call is answered, or given up.
EndCall(w) ==
  \/ NothingToClaim(w) \/ ReceivePersisted(w) \/ PersistUnanswered(w)
  \/ ReceiveReported(w) \/ Unanswered(w)

EndBeat(w) == BeatAnswered(w) \/ BeatUnanswered(w) \/ BeatEnds(w)

WorkerNext ==
  \/ \E w \in Workers :
       \/ Proceed(w) \/ EndCall(w) \/ SendBeat(w) \/ EndBeat(w)
       \/ ExecuteClaim(w) \/ ExecuteCall(w) \/ ExecuteBeat(w)
       \/ Reap(w)
  \/ \E h \in Hosts : SigTerm(h) \/ Start(h) \/ Crash(h)
  \/ \E r \in strays : ExecuteStray(r) \/ LoseStray(r)
  \/ \E j \in JobIds, r \in Requests : Create(j, r)
  \/ Intervene
  \/ TimePasses

WorkerSpec == WorkerInit /\ [][WorkerNext]_vars

\* The event loop runs what is ready, calls end, docker restarts what stopped,
\* the clock goes on.  A claim or a reaper that is tried again and again is
\* not refused forever; single requests may be lost.
Fairness ==
  /\ WF_vars(TimePasses)
  /\ \A w \in Workers :
       /\ WF_vars(Proceed(w)) /\ WF_vars(EndCall(w))
       /\ WF_vars(SendBeat(w)) /\ WF_vars(EndBeat(w))
       /\ SF_vars(ExecuteClaim(w)) /\ SF_vars(Reap(w))
  /\ \A h \in Hosts : WF_vars(Start(h))

FairWorkerSpec == WorkerSpec /\ Fairness

-----------------------------------------------------------------------------
\* Where a worker can be, and what its tasks have to do with it.
WorkersOK ==
  /\ doing \in [Workers -> {"off", "idle", "claim", "work", "explain"} \cup Calling]
  /\ \A w \in Workers :
       /\ call[w].at # "none" <=> doing[w] \in Calling
       /\ call[w].age <= RequestTimeout
       /\ beat[w].at # "off" <=> doing[w] \in Leased
       /\ claim[w].job # None <=>
            doing[w] \in Leased \/ (doing[w] = "claim" /\ call[w].at = "ok")
       /\ sinceOk[w] <= Safe
  /\ Cardinality(strays) <= MaxStrays

\* While a handler runs under a lease that is still in the row, no reaper can
\* take that lease away: the heartbeat task stops the handler first.
HandlerStopsBeforeLease ==
  \A w \in Workers :
    doing[w] \in Executing /\ jobs[claim[w].job].lease = claim[w].lease =>
      jobs[claim[w].job].age <= Lease - Skew

Untouched == budget.admin = MaxAdmin   \* nobody has intervened from outside

\* No two workers calculate one job at the same time: only an administrator can
\* take a job from a worker that goes on with it.
OneHandlerPerJob ==
  Untouched => \A v, w \in Workers :
    v # w /\ doing[v] \in Executing /\ doing[w] \in Executing =>
      claim[v].job # claim[w].job

\* As long as nobody intervenes, no call of a main task is refused for its lease.  A refused
\* report ends the whole process, with the work of every other worker in it.
NeverFenced == Untouched => \A w \in Workers : call[w].at # "refused"

\* Two handlers never meet, in the worker or at the database.
NoCollision == OneHandlerPerJob /\ NeverFenced

\* A job is completed only with a plan and an explanation of the very attempt
\* that completes it.  complete_breeding_job checks nothing but the lease: that
\* both were stored is up to the worker, over calls that may be lost or late.
CompletionIsWhole ==
  \A j \in JobIds :
    jobs[j].status # "completed" /\ jobs'[j].status = "completed" =>
      \A r \in Results : plans'[j][r] = jobs[j].lease

CompletedIsWhole == [][CompletionIsWhole]_vars

\* Every job ends, whatever is lost and whoever dies.
EveryJobEnds == \A j \in JobIds : Live(j) ~> ~Live(j)

\* A process that is told to stop does so, with all its workers.
StopEnds == \A h \in Hosts : h \in stopping ~> h \notin stopping
=============================================================================
