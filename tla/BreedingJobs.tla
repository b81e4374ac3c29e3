---------------------------- MODULE BreedingJobs ----------------------------
(***************************************************************************)
(* The rows of public.breeding_jobs and public.breeding_plans and the      *)
(* database functions that change them.  Every function is one             *)
(* transaction that locks the rows it changes, so it is one action here.   *)
(* Who calls a function, and when, is left open: BreedingJobs is what the  *)
(* database guarantees whatever its callers do.  JobWorkers adds the       *)
(* processes that call it.                                                 *)
(*                                                                         *)
(* A lease token (gen_random_uuid) is the number of the claim that drew    *)
(* it: fresh, and never compared otherwise than for equality by the code.  *)
(* heartbeat_at is kept as the age of the last heartbeat; ages of AgeCap   *)
(* and above are not told apart, no threshold is that large.  A request    *)
(* stands for (requester_user_id, request_fingerprint); the fingerprint    *)
(* covers the pinned inventory snapshot, so a request determines it.       *)
(* Error codes and texts are left out: no function reads them but for its  *)
(* reply.                                                                  *)
(***************************************************************************)
EXTENDS Integers, FiniteSets

CONSTANTS JobIds,        \* primary keys the table may use
          Workers,       \* worker identifiers (locked_by)
          Requests,      \* requester and fingerprint of a job
          MaxAttempts,   \* max_attempts of every row
          AgeCap,        \* ages are counted up to this bound
          AdminStaleAge, \* the two minutes of reap_stale_job_lock
          None           \* SQL null

NoLease == 0

ASSUME AttemptsAssumption == MaxAttempts \in 1..20
ASSUME AgeAssumption == AgeCap \in Nat /\ AdminStaleAge \in Nat
ASSUME NullAssumption == None \notin Workers /\ None \notin Requests

VARIABLES jobs,       \* the row of each job
          plans,      \* for each job, the lease that last wrote each result
          lastLease   \* how many leases claim_breeding_job has drawn

jobVars == <<jobs, plans, lastLease>>

Queued   == {"pending", "retry_pending"}
Active   == {"processing", "algorithm_completed", "ai_enriching"}
Terminal == {"completed", "failed", "cancelled"}
Statuses == Queued \cup Active \cup Terminal \cup {"none"}  \* "none": no row yet

Results == {"algorithm", "ai"}

Rows == [status   : Statuses,
         request  : Requests \cup {None},
         lockedBy : Workers \cup {None},
         lease    : Nat,
         age      : 0..AgeCap,
         attempts : 0..MaxAttempts]

NoRow == [status |-> "none", request |-> None, lockedBy |-> None,
          lease |-> NoLease, age |-> 0, attempts |-> 0]

JobInit ==
  /\ jobs = [j \in JobIds |-> NoRow]
  /\ plans = [j \in JobIds |-> [r \in Results |-> NoLease]]
  /\ lastLease = 0

-----------------------------------------------------------------------------
\* breeding_jobs_active_fingerprint_idx: is there a live row for this request?
Live(j) == jobs[j].status \in Queued \cup Active
HasLiveJob(r) == \E j \in JobIds : Live(j) /\ jobs[j].request = r

\* Mutation: the fence of phase 1, the worker's name without the token.
OwnsByName(j, w, t) ==
  /\ jobs[j].status \in Active
  /\ jobs[j].lockedBy = w

\* The guard of every function a worker calls on its job.
Owns(j, w, t) ==
  /\ jobs[j].status \in Active
  /\ jobs[j].lockedBy = w
  /\ jobs[j].lease = t

\* Mutation: the token survives the lock.
UnlockedKeepingLease(row, status) ==
  [row EXCEPT !.status = status, !.lockedBy = None, !.age = 0]

\* The row once its lease is gone.
Unlocked(row, status) ==
  [status |-> status, request |-> row.request, lockedBy |-> None,
   lease |-> NoLease, age |-> 0, attempts |-> row.attempts]

\* Mutation: one attempt too many.
AfterAttemptOffByOne(row, retryable) ==
  IF retryable /\ row.attempts <= MaxAttempts THEN "retry_pending" ELSE "failed"

\* The row at another stage of its lease; its heartbeat is renewed.
Staged(row, status) ==
  [status |-> status, request |-> row.request, lockedBy |-> row.lockedBy,
   lease |-> row.lease, age |-> 0, attempts |-> row.attempts]

\* Where a job goes when its attempt did not succeed.
AfterAttempt(row, retryable) ==
  IF retryable /\ row.attempts < MaxAttempts THEN "retry_pending" ELSE "failed"

\* Every row of S ends its attempt.
EndAttempts(S) ==
  jobs' = [j \in JobIds |-> IF j \in S THEN Unlocked(jobs[j], AfterAttempt(jobs[j], TRUE))
                                       ELSE jobs[j]]

-----------------------------------------------------------------------------
\* The insert of create_breeding_job_v2.
NewRow(r) ==
  [status |-> "pending", request |-> r, lockedBy |-> None,
   lease |-> NoLease, age |-> 0, attempts |-> 0]

Insert(j, r) ==
  /\ jobs[j].status = "none"
  /\ ~HasLiveJob(r)
  /\ jobs' = [jobs EXCEPT ![j] = NewRow(r)]
  /\ UNCHANGED <<plans, lastLease>>

\* claim_breeding_job.  The oldest queued row that no other transaction has
\* locked is taken; which rows are locked is not known, so any may be it.
Claimable(j) ==
  /\ jobs[j].status \in Queued
  /\ jobs[j].attempts < MaxAttempts

ClaimedRow(row, w, t) ==
  [status |-> "processing", request |-> row.request, lockedBy |-> w,
   lease |-> t, age |-> 0, attempts |-> row.attempts + 1]

\* Mutation: the claim does not count the attempt.
ClaimUncounted(j, w) ==
  /\ Claimable(j)
  /\ lastLease' = lastLease + 1
  /\ jobs' = [jobs EXCEPT ![j] =
       [ClaimedRow(jobs[j], w, lastLease + 1) EXCEPT !.attempts = jobs[j].attempts]]
  /\ UNCHANGED plans

Claim(j, w) ==
  /\ Claimable(j)
  /\ lastLease' = lastLease + 1
  /\ jobs' = [jobs EXCEPT ![j] = ClaimedRow(jobs[j], w, lastLease + 1)]
  /\ UNCHANGED plans

\* heartbeat_breeding_job
Heartbeat(j, w, t) ==
  /\ Owns(j, w, t)
  /\ jobs' = [jobs EXCEPT ![j].age = 0]
  /\ UNCHANGED <<plans, lastLease>>

\* Mutation: a repeated call is accepted at any stage.
PersistAlgorithmAnyStage(j, w, t) ==
  /\ Owns(j, w, t)
  /\ plans' = [plans EXCEPT ![j]["algorithm"] = t]
  /\ jobs' = [jobs EXCEPT ![j] = Staged(jobs[j], "algorithm_completed")]
  /\ UNCHANGED lastLease

\* persist_breeding_algorithm_result: plan and routes are replaced, the
\* explanation of an earlier attempt stays until the next one is persisted.
\* Routes that break a constraint are refused: that changes nothing (see JobWorkers).
PersistAlgorithm(j, w, t) ==
  /\ Owns(j, w, t)
  /\ jobs[j].status \in {"processing", "algorithm_completed"}
  /\ plans' = [plans EXCEPT ![j]["algorithm"] = t]
  /\ jobs' = [jobs EXCEPT ![j] = Staged(jobs[j], "algorithm_completed")]
  /\ UNCHANGED lastLease

\* Mutation: the explanation is accepted before this attempt's plan.
PersistAiAnyStage(j, w, t) ==
  /\ Owns(j, w, t)
  /\ plans[j]["algorithm"] # NoLease
  /\ plans' = [plans EXCEPT ![j]["ai"] = t]
  /\ jobs' = [jobs EXCEPT ![j] = Staged(jobs[j], "ai_enriching")]
  /\ UNCHANGED lastLease

\* persist_breeding_ai_result: the plan it joins must exist.
PersistAi(j, w, t) ==
  /\ Owns(j, w, t)
  /\ jobs[j].status \in {"algorithm_completed", "ai_enriching"}
  /\ plans[j]["algorithm"] # NoLease
  /\ plans' = [plans EXCEPT ![j]["ai"] = t]
  /\ jobs' = [jobs EXCEPT ![j] = Staged(jobs[j], "ai_enriching")]
  /\ UNCHANGED lastLease

\* complete_breeding_job
Complete(j, w, t) ==
  /\ Owns(j, w, t)
  /\ jobs' = [jobs EXCEPT ![j] = Unlocked(jobs[j], "completed")]
  /\ UNCHANGED <<plans, lastLease>>

\* fail_breeding_job
Fail(j, w, t, retryable) ==
  /\ Owns(j, w, t)
  /\ jobs' = [jobs EXCEPT ![j] = Unlocked(jobs[j], AfterAttempt(jobs[j], retryable))]
  /\ UNCHANGED <<plans, lastLease>>

\* cancel_breeding_job
Cancel(j, w, t) ==
  /\ Owns(j, w, t)
  /\ jobs' = [jobs EXCEPT ![j] = Unlocked(jobs[j], "cancelled")]
  /\ UNCHANGED <<plans, lastLease>>

\* release_breeding_job: the attempt is given back.
GivenBack(attempts) == IF attempts > 0 THEN attempts - 1 ELSE 0

Released(row) ==
  [status |-> "retry_pending", request |-> row.request, lockedBy |-> None,
   lease |-> NoLease, age |-> 0, attempts |-> GivenBack(row.attempts)]

Release(j, w, t) ==
  /\ Owns(j, w, t)
  /\ jobs' = [jobs EXCEPT ![j] = Released(jobs[j])]
  /\ UNCHANGED <<plans, lastLease>>

\* release_stale_breeding_jobs: every lease whose heartbeat is older than age.
Stale(age) == {j \in JobIds : jobs[j].status \in Active /\ jobs[j].age > age}

ReleaseStale(age) ==
  /\ Stale(age) # {}
  /\ EndAttempts(Stale(age))
  /\ UNCHANGED <<plans, lastLease>>

-----------------------------------------------------------------------------
\* Mutation: no unique index behind the retry.
AdminRetryNoIndex(j) ==
  /\ jobs[j].status \in {"failed", "retry_pending"}
  /\ jobs[j].attempts < MaxAttempts
  /\ jobs' = [jobs EXCEPT ![j].status = "retry_pending"]
  /\ UNCHANGED <<plans, lastLease>>

\* execute_agent_command_database_action, one action per command type.
\* A retry of a failed job must not meet a live job for the same request:
\* the unique index rejects the update.
AdminRetry(j) ==
  /\ jobs[j].status \in {"failed", "retry_pending"}
  /\ jobs[j].attempts < MaxAttempts
  /\ jobs[j].status = "failed" => ~HasLiveJob(jobs[j].request)
  /\ jobs' = [jobs EXCEPT ![j].status = "retry_pending"]
  /\ UNCHANGED <<plans, lastLease>>

AdminCancel(j) ==
  /\ Live(j)
  /\ jobs' = [jobs EXCEPT ![j] = Unlocked(jobs[j], "cancelled")]
  /\ UNCHANGED <<plans, lastLease>>

AdminReap(j) ==
  /\ j \in Stale(AdminStaleAge)
  /\ EndAttempts({j})
  /\ UNCHANGED <<plans, lastLease>>

\* Mutation: finished jobs are failed with the rest.
ExpireInputsOfAll(gone) ==
  /\ jobs' = [j \in JobIds |-> IF jobs[j].request \in gone
                               THEN Unlocked(jobs[j], "failed") ELSE jobs[j]]
  /\ UNCHANGED <<plans, lastLease>>

\* cleanup_expired_inventory_snapshot_payloads, on the jobs whose request is
\* pinned to an expired snapshot.
ExpireInputs(gone) ==
  /\ jobs' = [j \in JobIds |-> IF Live(j) /\ jobs[j].request \in gone
                               THEN Unlocked(jobs[j], "failed") ELSE jobs[j]]
  /\ UNCHANGED <<plans, lastLease>>

\* The database clock.
Older(age) == IF age < AgeCap THEN age + 1 ELSE AgeCap

Tick ==
  /\ jobs' = [j \in JobIds |-> IF jobs[j].status \in Active
                               THEN [jobs[j] EXCEPT !.age = Older(@)] ELSE jobs[j]]
  /\ UNCHANGED <<plans, lastLease>>

-----------------------------------------------------------------------------
\* A call of a worker, with whatever job, name and lease token it holds.
WorkerCall(j, w, t) ==
  \/ Heartbeat(j, w, t)
  \/ PersistAlgorithm(j, w, t)
  \/ PersistAi(j, w, t)
  \/ Complete(j, w, t)
  \/ \E retryable \in BOOLEAN : Fail(j, w, t, retryable)
  \/ Cancel(j, w, t)
  \/ Release(j, w, t)

AdminCall(j) == AdminRetry(j) \/ AdminCancel(j) \/ AdminReap(j)

JobNext ==
  \/ \E j \in JobIds, r \in Requests : Insert(j, r)
  \/ \E j \in JobIds, w \in Workers : Claim(j, w)
  \/ \E j \in JobIds, w \in Workers, t \in 1..lastLease : WorkerCall(j, w, t)
  \/ \E age \in 0..AgeCap : ReleaseStale(age)
  \/ \E j \in JobIds : AdminCall(j)
  \/ \E gone \in SUBSET Requests : ExpireInputs(gone)
  \/ Tick

JobSpec == JobInit /\ [][JobNext]_jobVars

-----------------------------------------------------------------------------
\* breeding_jobs_lock_check and breeding_jobs_lease_token_check: a row has a
\* holder and a lease exactly while it is being processed.
Locked(row) ==
  /\ row.status \in Active <=> row.lease # NoLease
  /\ row.status \in Active <=> row.lockedBy # None
  /\ row.status \notin Active => row.age = 0
  /\ row.status # "none" <=> row.request # None

\* Types, and the check constraints of the table.
TypeOK ==
  /\ jobs \in [JobIds -> Rows]
  /\ plans \in [JobIds -> [Results -> Nat]]
  /\ lastLease \in Nat
  /\ \A j \in JobIds : Locked(jobs[j])

\* A queued job can be claimed.  claim_breeding_job passes over a row that has
\* used its attempts, and nothing else would ever move such a row: a failure,
\* a stale lease, a shutdown or an administrator's retry must not make one.
QueuedIsClaimable ==
  \A j \in JobIds : jobs[j].status \in Queued => jobs[j].attempts < MaxAttempts

\* One live job per request, through retries of old failures too
\* (breeding_jobs_active_fingerprint_idx).
OneLiveJobPerRequest ==
  \A i, j \in JobIds :
    i # j /\ Live(i) /\ Live(j) => jobs[i].request # jobs[j].request

\* A job being processed is on an attempt that was counted, so that giving an
\* attempt back (greatest(attempt_count - 1, 0)) never hides a second give-back.
HeldOnACountedAttempt ==
  \A j \in JobIds : jobs[j].status \in Active => jobs[j].attempts >= 1

\* An explanation is never persisted for a job without a calculated plan, and
\* the stage a row is in says which results its present lease has written.
StageTellsResults ==
  \A j \in JobIds :
    /\ plans[j]["ai"] # NoLease => plans[j]["algorithm"] # NoLease
    /\ jobs[j].status = "processing" => plans[j]["algorithm"] < jobs[j].lease
    /\ jobs[j].status \in {"algorithm_completed", "ai_enriching"} =>
         plans[j]["algorithm"] = jobs[j].lease
    /\ jobs[j].status \in {"processing", "algorithm_completed"} =>
         plans[j]["ai"] < jobs[j].lease
    /\ jobs[j].status = "ai_enriching" => plans[j]["ai"] = jobs[j].lease

\* The rows agree with each other and with the plans, whatever the callers do:
\* what is queued will be claimed, a request is searched for once, attempts are
\* counted, and a stage is what its lease has written.
RowsAreConsistent ==
  QueuedIsClaimable /\ OneLiveJobPerRequest /\ HeldOnACountedAttempt /\ StageTellsResults

\* A finished job is history: a late call, a retry or an expiry of its inputs
\* changes neither its row nor its plan.  A failed job changes only when an
\* administrator queues it again.
FinishedKept ==
  \A j \in JobIds :
    /\ jobs[j].status \in {"completed", "cancelled"} =>
         jobs'[j] = jobs[j] /\ plans'[j] = plans[j]
    /\ jobs[j].status = "failed" =>
         /\ plans'[j] = plans[j]
         /\ jobs'[j] = jobs[j] \/ jobs'[j] = [jobs[j] EXCEPT !.status = "retry_pending"]

FinishedStays == [][FinishedKept]_jobVars

Stage(status) == CASE status = "processing" -> 1
                   [] status = "algorithm_completed" -> 2
                   [] status = "ai_enriching" -> 3
                   [] OTHER -> 0

\* Under one lease a job only goes forward, whatever calls of its holder are
\* repeated or arrive late.
StagesGoForward ==
  \A j \in JobIds :
    jobs[j].lease # NoLease /\ jobs'[j].lease = jobs[j].lease =>
      Stage(jobs'[j].status) >= Stage(jobs[j].status)

ForwardUnderOneLease == [][StagesGoForward]_jobVars

\* No late, repeated or stale call turns a job back: not while a lease lasts,
\* and not after the job has ended.
GoesForward == FinishedStays /\ ForwardUnderOneLease

-----------------------------------------------------------------------------
\* The queue implements fenced leases: the holder of a job is the lease in its
\* row, and completed and cancelled jobs are sealed.
Fence == INSTANCE FencedLease WITH
  Resources <- JobIds,
  Slots     <- Results,
  holder    <- [j \in JobIds |-> jobs[j].lease],
  granted   <- lastLease,
  result    <- plans,
  sealed    <- {j \in JobIds : jobs[j].status \in {"completed", "cancelled"}}

FencedQueue == Fence!Spec
=============================================================================
