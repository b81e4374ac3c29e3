------------------------ MODULE BreedingJobs_proofs ------------------------
(***************************************************************************)
(* What BreedingJobs guarantees for every set of jobs, workers and         *)
(* requests and every number of attempts.                                  *)
(***************************************************************************)
EXTENDS BreedingJobs, TLAPS

\* Every lease and every recorded result comes from a claim.
LeasesDrawn ==
  \A j \in JobIds :
    /\ jobs[j].lease <= lastLease
    /\ \A r \in Results : plans[j][r] <= lastLease

\* The inductive invariant of the queue.
JobInv ==
  /\ TypeOK
  /\ QueuedIsClaimable
  /\ HeldOnACountedAttempt
  /\ LeasesDrawn
  /\ StageTellsResults

USE AttemptsAssumption, AgeAssumption, NullAssumption DEF NoLease

-----------------------------------------------------------------------------
\* The conditions on one row that do not depend on the others.
RowOK(row) ==
  /\ row \in Rows
  /\ Locked(row)
  /\ row.status \in Queued => row.attempts < MaxAttempts
  /\ row.status \in Active => row.attempts >= 1

\* What a row is after its lease ended.
LEMMA UnlockedRow ==
  ASSUME NEW row \in Rows, NEW status \in Statuses
  PROVE  LET u == Unlocked(row, status)
         IN  /\ u \in Rows
             /\ u.status = status /\ u.request = row.request
             /\ u.lockedBy = None /\ u.lease = NoLease
             /\ u.age = 0 /\ u.attempts = row.attempts
  BY DEF Unlocked, Rows

\* Ending a lease keeps a row correct, provided it is queued again only with
\* attempts left.
LEMMA UnlockedOK ==
  ASSUME NEW row, RowOK(row), row.status # "none",
         NEW status \in Queued \cup Terminal,
         status \in Queued => row.attempts < MaxAttempts
  PROVE  RowOK(Unlocked(row, status)) /\ Unlocked(row, status).lease = NoLease
  <1>1. row \in Rows /\ status \in Statuses
    BY DEF RowOK, Statuses
  <1> QED
    BY <1>1, UnlockedRow DEF RowOK, Rows, Locked, Statuses, Queued, Active, Terminal

\* The status a failed attempt leads to is one its attempts allow.
LEMMA AfterAttemptOK ==
  ASSUME NEW row, NEW retryable \in BOOLEAN
  PROVE  /\ AfterAttempt(row, retryable) \in Queued \cup Terminal
         /\ AfterAttempt(row, retryable) \in Queued => row.attempts < MaxAttempts
  BY DEF AfterAttempt, Queued, Terminal

\* The same, with the row invariant stated for the whole table.
LEMMA RowsOK ==
  ASSUME JobInv
  PROVE  \A j \in JobIds : RowOK(jobs[j])
  BY DEF JobInv, TypeOK, QueuedIsClaimable, HeldOnACountedAttempt, RowOK
-----------------------------------------------------------------------------
\* A step that writes no result and draws no lease keeps the invariant if every
\* row stays correct and either has no lease or is at the stage it was at.
LEMMA RowsStep ==
  ASSUME JobInv, UNCHANGED <<plans, lastLease>>,
         jobs' \in [JobIds -> Rows],
         \A j \in JobIds :
           /\ RowOK(jobs'[j])
           /\ \/ jobs'[j].lease = NoLease
              \/ jobs'[j].lease = jobs[j].lease /\ jobs'[j].status = jobs[j].status
  PROVE  JobInv'
  <1>1. TypeOK'
    BY DEF JobInv, TypeOK, RowOK
  <1>2. QueuedIsClaimable' /\ HeldOnACountedAttempt'
    BY DEF QueuedIsClaimable, HeldOnACountedAttempt, RowOK
  <1>3. LeasesDrawn'
    BY DEF JobInv, LeasesDrawn, TypeOK
  <1>4. StageTellsResults'
    BY DEF JobInv, StageTellsResults, RowOK, Locked, Active
  <1> QED
    BY <1>1, <1>2, <1>3, <1>4 DEF JobInv

\* A step that ends the leases of some jobs, each in a status its attempts allow.
LEMMA EndStep ==
  ASSUME JobInv, UNCHANGED <<plans, lastLease>>, NEW S \in SUBSET JobIds,
         NEW next,
         \A j \in S : /\ jobs[j].status # "none"
                      /\ next[j] \in Queued \cup Terminal
                      /\ next[j] \in Queued => jobs[j].attempts < MaxAttempts,
         jobs' = [j \in JobIds |-> IF j \in S THEN Unlocked(jobs[j], next[j])
                                              ELSE jobs[j]]
  PROVE  JobInv'
  <1>1. \A j \in JobIds : RowOK(jobs[j])
    BY RowsOK
  <1>2. \A j \in S : RowOK(jobs'[j]) /\ jobs'[j].lease = NoLease
    BY <1>1, UnlockedOK
  <1>3. \A j \in JobIds \ S : jobs'[j] = jobs[j]
    OBVIOUS
  <1>4. jobs' \in [JobIds -> Rows]
    BY <1>1, <1>2, <1>3 DEF RowOK
  <1> QED
    BY <1>1, <1>2, <1>3, <1>4, RowsStep

LEMMA InitInv == JobInit => JobInv
  BY DEF JobInit, JobInv, TypeOK, QueuedIsClaimable, HeldOnACountedAttempt,
         LeasesDrawn, StageTellsResults, NoRow, Rows, Locked, Statuses, Queued,
         Active, Terminal, Results
\* What owning a job says of its row.
LEMMA OwnedRow ==
  ASSUME JobInv, NEW j \in JobIds, NEW w \in Workers, NEW t \in 1..lastLease,
         Owns(j, w, t)
  PROVE  /\ RowOK(jobs[j]) /\ jobs[j].lease = t
         /\ jobs[j].status \in Active /\ jobs[j].status # "none"
  BY RowsOK DEF Owns, Active

\* Ending the lease of one job.
LEMMA EndOneStep ==
  ASSUME JobInv, UNCHANGED <<plans, lastLease>>, NEW j \in JobIds,
         jobs[j].status # "none", NEW status \in Queued \cup Terminal,
         status \in Queued => jobs[j].attempts < MaxAttempts,
         jobs' = [jobs EXCEPT ![j] = Unlocked(jobs[j], status)]
  PROVE  JobInv'
  <1> DEFINE next == [k \in JobIds |-> status]
  <1>1. jobs' = [k \in JobIds |-> IF k \in {j} THEN Unlocked(jobs[k], next[k]) ELSE jobs[k]]
    BY DEF JobInv, TypeOK
  <1> HIDE DEF next
  <1>2. next[j] = status
    BY DEF next
  <1> QED
    BY <1>1, <1>2, EndStep

\* A row that only gets a new age.
LEMMA AgedRow ==
  ASSUME NEW row, RowOK(row), row.status \in Active, NEW age \in 0..AgeCap
  PROVE  LET u == [row EXCEPT !.age = age]
         IN  RowOK(u) /\ u.lease = row.lease /\ u.status = row.status
  BY DEF RowOK, Rows, Locked, Active, Queued

LEMMA InsertStep ==
  ASSUME JobInv, NEW j \in JobIds, NEW r \in Requests, Insert(j, r)
  PROVE  JobInv'
  <1> DEFINE row == NewRow(r)
  <1>1. RowOK(row) /\ row.lease = NoLease
    BY DEF NewRow, RowOK, Rows, Locked, Statuses, Queued, Active, Terminal
  <1> HIDE DEF row
  <1>2. jobs' = [jobs EXCEPT ![j] = row]
    BY DEF Insert, row
  <1>3. jobs' \in [JobIds -> Rows]
    BY <1>1, <1>2 DEF JobInv, TypeOK, RowOK
  <1>4. \A k \in JobIds : jobs'[k] = IF k = j THEN row ELSE jobs[k]
    BY <1>2 DEF JobInv, TypeOK
  <1> QED
    BY <1>1, <1>3, <1>4, RowsOK, RowsStep DEF Insert

LEMMA ClaimStep ==
  ASSUME JobInv, NEW j \in JobIds, NEW w \in Workers, Claim(j, w)
  PROVE  JobInv'
  <1>1. PICK row : /\ jobs' = [jobs EXCEPT ![j] = row]
                   /\ RowOK(row) /\ row.lease = lastLease + 1
                   /\ row.status = "processing"
    <2>1. RowOK(jobs[j])
      BY RowsOK
    <2> DEFINE row == ClaimedRow(jobs[j], w, lastLease + 1)
    <2>2. RowOK(row) /\ row.lease = lastLease + 1 /\ row.status = "processing"
      BY <2>1 DEF Claim, Claimable, RowOK, Rows, Locked, Statuses, Queued, Active,
                  ClaimedRow, JobInv, TypeOK
    <2>3. jobs' = [jobs EXCEPT ![j] = row]
      BY DEF Claim
    <2> QED
      BY <2>2, <2>3
  <1>2. \A k \in JobIds : jobs'[k] = IF k = j THEN row ELSE jobs[k]
    BY <1>1 DEF JobInv, TypeOK
  <1>3. lastLease' = lastLease + 1 /\ plans' = plans
    BY DEF Claim
  <1>4. TypeOK'
    BY <1>1, <1>2, <1>3 DEF JobInv, TypeOK, RowOK
  <1>5. QueuedIsClaimable' /\ HeldOnACountedAttempt'
    BY <1>1, <1>2 DEF JobInv, QueuedIsClaimable, HeldOnACountedAttempt, RowOK
  <1>6. LeasesDrawn'
    BY <1>1, <1>2, <1>3 DEF JobInv, LeasesDrawn, TypeOK, Results, Rows
  <1>7. StageTellsResults'
    BY <1>1, <1>2, <1>3 DEF JobInv, StageTellsResults, LeasesDrawn, TypeOK, Results
  <1> QED
    BY <1>4, <1>5, <1>6, <1>7 DEF JobInv

LEMMA PersistAlgorithmStep ==
  ASSUME JobInv, NEW j \in JobIds, NEW w \in Workers, NEW t \in 1..lastLease,
         PersistAlgorithm(j, w, t)
  PROVE  JobInv'
  <1> DEFINE row == Staged(jobs[j], "algorithm_completed")
  <1>1. RowOK(row) /\ row.lease = t /\ row.status = "algorithm_completed"
    BY OwnedRow DEF PersistAlgorithm, RowOK, Rows, Locked, Statuses, Queued, Active, Staged
  <1>2. jobs' = [jobs EXCEPT ![j] = row]
    BY DEF PersistAlgorithm
  <1> HIDE DEF row
  <1>3. \A k \in JobIds : jobs'[k] = IF k = j THEN row ELSE jobs[k]
    BY <1>2 DEF JobInv, TypeOK
  <1>4. lastLease' = lastLease /\ plans' = [plans EXCEPT ![j]["algorithm"] = t]
    BY DEF PersistAlgorithm
  <1>5. TypeOK'
    BY <1>1, <1>2, <1>3, <1>4 DEF JobInv, TypeOK, RowOK, Results
  <1>6. QueuedIsClaimable' /\ HeldOnACountedAttempt'
    BY <1>1, <1>3 DEF JobInv, QueuedIsClaimable, HeldOnACountedAttempt, RowOK
  <1>7. LeasesDrawn'
    BY <1>1, <1>3, <1>4 DEF JobInv, LeasesDrawn, TypeOK, Results
  <1>8. plans[j]["ai"] < t
    BY OwnedRow DEF PersistAlgorithm, JobInv, StageTellsResults
  <1>9. StageTellsResults'
    BY <1>1, <1>3, <1>4, <1>8 DEF JobInv, StageTellsResults, TypeOK, Results
  <1> QED
    BY <1>5, <1>6, <1>7, <1>9 DEF JobInv

LEMMA PersistAiStep ==
  ASSUME JobInv, NEW j \in JobIds, NEW w \in Workers, NEW t \in 1..lastLease,
         PersistAi(j, w, t)
  PROVE  JobInv'
  <1> DEFINE row == Staged(jobs[j], "ai_enriching")
  <1>1. RowOK(row) /\ row.lease = t /\ row.status = "ai_enriching"
    BY OwnedRow DEF PersistAi, RowOK, Rows, Locked, Statuses, Queued, Active, Staged
  <1>2. jobs' = [jobs EXCEPT ![j] = row]
    BY DEF PersistAi
  <1> HIDE DEF row
  <1>3. \A k \in JobIds : jobs'[k] = IF k = j THEN row ELSE jobs[k]
    BY <1>2 DEF JobInv, TypeOK
  <1>4. lastLease' = lastLease /\ plans' = [plans EXCEPT ![j]["ai"] = t]
    BY DEF PersistAi
  <1>5. TypeOK'
    BY <1>1, <1>2, <1>3, <1>4 DEF JobInv, TypeOK, RowOK, Results
  <1>6. QueuedIsClaimable' /\ HeldOnACountedAttempt'
    BY <1>1, <1>3 DEF JobInv, QueuedIsClaimable, HeldOnACountedAttempt, RowOK
  <1>7. LeasesDrawn'
    BY <1>1, <1>3, <1>4 DEF JobInv, LeasesDrawn, TypeOK, Results
  <1>8. plans[j]["algorithm"] = t
    BY OwnedRow DEF PersistAi, JobInv, StageTellsResults
  <1>9. StageTellsResults'
    BY <1>1, <1>3, <1>4, <1>8 DEF JobInv, StageTellsResults, TypeOK, Results
  <1> QED
    BY <1>5, <1>6, <1>7, <1>9 DEF JobInv
LEMMA HeartbeatStep ==
  ASSUME JobInv, NEW j \in JobIds, NEW w \in Workers, NEW t \in 1..lastLease,
         Heartbeat(j, w, t)
  PROVE  JobInv'
  <1> DEFINE row == [jobs[j] EXCEPT !.age = 0]
  <1>1. RowOK(row) /\ row.lease = jobs[j].lease /\ row.status = jobs[j].status
    BY OwnedRow, AgedRow DEF Heartbeat
  <1>2. jobs' = [jobs EXCEPT ![j] = row]
    BY DEF Heartbeat
  <1> HIDE DEF row
  <1>3. \A k \in JobIds : jobs'[k] = IF k = j THEN row ELSE jobs[k]
    BY <1>2 DEF JobInv, TypeOK
  <1>4. jobs' \in [JobIds -> Rows]
    BY <1>1, <1>2 DEF JobInv, TypeOK, RowOK
  <1> QED
    BY <1>1, <1>3, <1>4, RowsOK, RowsStep DEF Heartbeat

LEMMA ReleaseStep ==
  ASSUME JobInv, NEW j \in JobIds, NEW w \in Workers, NEW t \in 1..lastLease,
         Release(j, w, t)
  PROVE  JobInv'
  <1> DEFINE row == Released(jobs[j])
  <1>1. RowOK(row) /\ row.lease = NoLease
    BY OwnedRow DEF Release, RowOK, Rows, Locked, Statuses, Queued, Active,
                    Released, GivenBack
  <1>2. jobs' = [jobs EXCEPT ![j] = row]
    BY DEF Release
  <1> HIDE DEF row
  <1>3. \A k \in JobIds : jobs'[k] = IF k = j THEN row ELSE jobs[k]
    BY <1>2 DEF JobInv, TypeOK
  <1>4. jobs' \in [JobIds -> Rows]
    BY <1>1, <1>2 DEF JobInv, TypeOK, RowOK
  <1> QED
    BY <1>1, <1>3, <1>4, RowsOK, RowsStep DEF Release

\* Every call a worker can make, whatever lease it holds.
LEMMA WorkerCallStep ==
  ASSUME JobInv, NEW j \in JobIds, NEW w \in Workers, NEW t \in 1..lastLease,
         WorkerCall(j, w, t)
  PROVE  JobInv'
  <1>1. CASE Heartbeat(j, w, t)
    BY <1>1, HeartbeatStep
  <1>2. CASE PersistAlgorithm(j, w, t)
    BY <1>2, PersistAlgorithmStep
  <1>3. CASE PersistAi(j, w, t)
    BY <1>3, PersistAiStep
  <1>4. CASE Complete(j, w, t)
    BY <1>4, OwnedRow, EndOneStep DEF Complete, Queued, Terminal
  <1>5. ASSUME NEW retryable \in BOOLEAN, Fail(j, w, t, retryable)
        PROVE  JobInv'
    BY <1>5, OwnedRow, AfterAttemptOK, EndOneStep DEF Fail
  <1>6. CASE Cancel(j, w, t)
    BY <1>6, OwnedRow, EndOneStep DEF Cancel, Queued, Terminal
  <1>7. CASE Release(j, w, t)
    BY <1>7, ReleaseStep
  <1> QED
    BY <1>1, <1>2, <1>3, <1>4, <1>5, <1>6, <1>7 DEF WorkerCall

\* Ending the attempts of a set of jobs that are being processed.
LEMMA EndAttemptsStep ==
  ASSUME JobInv, UNCHANGED <<plans, lastLease>>, NEW S \in SUBSET JobIds,
         \A j \in S : jobs[j].status \in Active, EndAttempts(S)
  PROVE  JobInv'
  <1> DEFINE next == [j \in JobIds |-> AfterAttempt(jobs[j], TRUE)]
  <1>1. jobs' = [j \in JobIds |-> IF j \in S THEN Unlocked(jobs[j], next[j]) ELSE jobs[j]]
    BY DEF EndAttempts
  <1>2. \A j \in S : /\ jobs[j].status # "none"
                     /\ next[j] \in Queued \cup Terminal
                     /\ next[j] \in Queued => jobs[j].attempts < MaxAttempts
    BY AfterAttemptOK DEF Active
  <1> HIDE DEF next
  <1> QED
    BY <1>1, <1>2, EndStep

LEMMA RequeuedOK ==
  ASSUME NEW row, RowOK(row), row.status \in {"failed", "retry_pending"},
         row.attempts < MaxAttempts
  PROVE  LET u == [row EXCEPT !.status = "retry_pending"]
         IN  RowOK(u) /\ u.lease = NoLease
  <1>1. [row EXCEPT !.status = "retry_pending"] \in Rows
    BY DEF RowOK, Rows, Statuses, Queued
  <1> QED
    BY <1>1 DEF RowOK, Rows, Locked, Queued, Active

LEMMA AdminCallStep ==
  ASSUME JobInv, NEW j \in JobIds, AdminCall(j)
  PROVE  JobInv'
  <1>1. CASE AdminRetry(j)
    <2> DEFINE row == [jobs[j] EXCEPT !.status = "retry_pending"]
    <2>1. RowOK(row) /\ row.lease = NoLease
      <3>1. /\ RowOK(jobs[j]) /\ jobs[j].status \in {"failed", "retry_pending"}
            /\ jobs[j].attempts < MaxAttempts
        BY <1>1, RowsOK DEF AdminRetry
      <3> QED
        BY <3>1, RequeuedOK
    <2>2. jobs' = [jobs EXCEPT ![j] = row]
      BY <1>1 DEF AdminRetry
    <2> HIDE DEF row
    <2>3. \A k \in JobIds : jobs'[k] = IF k = j THEN row ELSE jobs[k]
      BY <2>2 DEF JobInv, TypeOK
    <2>4. jobs' \in [JobIds -> Rows]
      BY <2>1, <2>2 DEF JobInv, TypeOK, RowOK
    <2> QED
      BY <1>1, <2>1, <2>3, <2>4, RowsOK, RowsStep DEF AdminRetry
  <1>2. CASE AdminCancel(j)
    BY <1>2, EndOneStep DEF AdminCancel, Live, Queued, Active, Terminal
  <1>3. CASE AdminReap(j)
    BY <1>3, EndAttemptsStep DEF AdminReap, Stale
  <1> QED
    BY <1>1, <1>2, <1>3 DEF AdminCall

LEMMA ExpireInputsStep ==
  ASSUME JobInv, NEW gone \in SUBSET Requests, ExpireInputs(gone)
  PROVE  JobInv'
  <1> DEFINE S == {j \in JobIds : Live(j) /\ jobs[j].request \in gone}
             next == [j \in JobIds |-> "failed"]
  <1>1. jobs' = [j \in JobIds |-> IF j \in S THEN Unlocked(jobs[j], next[j]) ELSE jobs[j]]
    BY DEF ExpireInputs
  <1>2. \A j \in S : /\ jobs[j].status # "none"
                     /\ next[j] \in Queued \cup Terminal
                     /\ next[j] \in Queued => jobs[j].attempts < MaxAttempts
    BY DEF Live, Queued, Active, Terminal
  <1>3. UNCHANGED <<plans, lastLease>> /\ S \in SUBSET JobIds
    BY DEF ExpireInputs
  <1> HIDE DEF next, S
  <1> QED
    BY <1>1, <1>2, <1>3, EndStep

LEMMA TickStep ==
  ASSUME JobInv, Tick
  PROVE  JobInv'
  <1>1. \A j \in JobIds :
          /\ RowOK(jobs'[j])
          /\ jobs'[j].lease = jobs[j].lease /\ jobs'[j].status = jobs[j].status
    <2> TAKE j \in JobIds
    <2>1. RowOK(jobs[j])
      BY RowsOK
    <2>2. CASE jobs[j].status \in Active
      <3>1. Older(jobs[j].age) \in 0..AgeCap
        BY <2>1 DEF RowOK, Rows, Older
      <3>2. jobs'[j] = [jobs[j] EXCEPT !.age = Older(jobs[j].age)]
        BY <2>2 DEF Tick
      <3> QED
        BY <2>1, <2>2, <3>1, <3>2, AgedRow
    <2>3. CASE jobs[j].status \notin Active
      BY <2>1, <2>3 DEF Tick
    <2> QED
      BY <2>2, <2>3
  <1>2. jobs' \in [JobIds -> Rows]
    BY <1>1 DEF Tick, RowOK
  <1> QED
    BY <1>1, <1>2, RowsStep DEF Tick
-----------------------------------------------------------------------------
\* Every step keeps the invariant.
LEMMA StepInv ==
  JobInv /\ [JobNext]_jobVars => JobInv'
  <1> SUFFICES ASSUME JobInv, [JobNext]_jobVars PROVE JobInv'
    OBVIOUS
  <1>1. ASSUME NEW j \in JobIds, NEW r \in Requests, Insert(j, r) PROVE JobInv'
    BY <1>1, InsertStep
  <1>2. ASSUME NEW j \in JobIds, NEW w \in Workers, Claim(j, w) PROVE JobInv'
    BY <1>2, ClaimStep
  <1>3. ASSUME NEW j \in JobIds, NEW w \in Workers, NEW t \in 1..lastLease,
               WorkerCall(j, w, t)
        PROVE  JobInv'
    BY <1>3, WorkerCallStep
  <1>4. ASSUME NEW age \in 0..AgeCap, ReleaseStale(age) PROVE JobInv'
    BY <1>4, EndAttemptsStep DEF ReleaseStale, Stale
  <1>5. ASSUME NEW j \in JobIds, AdminCall(j) PROVE JobInv'
    BY <1>5, AdminCallStep
  <1>6. ASSUME NEW gone \in SUBSET Requests, ExpireInputs(gone) PROVE JobInv'
    BY <1>6, ExpireInputsStep
  <1>7. CASE Tick
    BY <1>7, TickStep
  <1>8. CASE UNCHANGED jobVars
    BY <1>8, RowsOK, RowsStep DEF jobVars, JobInv, TypeOK
  <1> QED
    BY <1>1, <1>2, <1>3, <1>4, <1>5, <1>6, <1>7, <1>8 DEF JobNext

\* In every state the rows and plans have their types, satisfy the table's check
\* constraints and carry only leases that were drawn by a claim.
THEOREM JobInvariant == JobSpec => []JobInv
  <1>1. JobInit => JobInv
    BY InitInv
  <1>2. JobInv /\ [JobNext]_jobVars => JobInv'
    BY StepInv
  <1> QED
    BY <1>1, <1>2, PTL DEF JobSpec

\* Rows keep their types and the check constraints of the table.
THEOREM TypeCorrect == JobSpec => []TypeOK
  BY JobInvariant, PTL DEF JobInv

\* No failure, stale lease, shutdown or administrator's retry leaves a queued
\* job that claim_breeding_job would pass over for ever.
THEOREM QueuedJobsStayClaimable == JobSpec => []QueuedIsClaimable
  BY JobInvariant, PTL DEF JobInv

\* greatest(attempt_count - 1, 0) in release_breeding_job never clamps.
THEOREM AttemptsAreCounted == JobSpec => []HeldOnACountedAttempt
  BY JobInvariant, PTL DEF JobInv

\* The stage of a job says which results its present lease has written.
THEOREM StagesAreTrue == JobSpec => []StageTellsResults
  BY JobInvariant, PTL DEF JobInv
-----------------------------------------------------------------------------
\* One live job per request.  Only an insert and a retry make a job live, and
\* both look for a live twin first.

LEMMA NoNewLiveJob ==
  ASSUME OneLiveJobPerRequest,
         \A k \in JobIds : jobs'[k].status \in Queued \cup Active =>
                            Live(k) /\ jobs'[k].request = jobs[k].request
  PROVE  OneLiveJobPerRequest'
  BY DEF OneLiveJobPerRequest, Live

LEMMA OneNewLiveJob ==
  ASSUME OneLiveJobPerRequest, NEW j \in JobIds, NEW r, ~HasLiveJob(r),
         jobs'[j].request = r,
         \A k \in JobIds \ {j} : jobs'[k] = jobs[k]
  PROVE  OneLiveJobPerRequest'
  BY DEF OneLiveJobPerRequest, Live, HasLiveJob

\* An action that changes only the row of one job.
LEMMA WorkerCallFrame ==
  ASSUME JobInv, NEW j \in JobIds, NEW w \in Workers, NEW t \in 1..lastLease,
         WorkerCall(j, w, t)
  PROVE  /\ jobs[j].status \in Active /\ jobs[j].lease = t
         /\ jobs'[j].request = jobs[j].request
         /\ \A k \in JobIds \ {j} : jobs'[k] = jobs[k] /\ plans'[k] = plans[k]
  <1>1. CASE Heartbeat(j, w, t)
    BY <1>1 DEF Heartbeat, Owns, JobInv, TypeOK, Rows
  <1>2. CASE PersistAlgorithm(j, w, t)
    BY <1>2 DEF PersistAlgorithm, Staged, Owns, JobInv, TypeOK
  <1>3. CASE PersistAi(j, w, t)
    BY <1>3 DEF PersistAi, Staged, Owns, JobInv, TypeOK
  <1>4. CASE Complete(j, w, t)
    BY <1>4 DEF Complete, Unlocked, Owns, JobInv, TypeOK
  <1>5. ASSUME NEW retryable \in BOOLEAN, Fail(j, w, t, retryable)
        PROVE  /\ jobs[j].status \in Active /\ jobs[j].lease = t
               /\ jobs'[j].request = jobs[j].request
               /\ \A k \in JobIds \ {j} : jobs'[k] = jobs[k] /\ plans'[k] = plans[k]
    BY <1>5 DEF Fail, Unlocked, Owns, JobInv, TypeOK
  <1>6. CASE Cancel(j, w, t)
    BY <1>6 DEF Cancel, Unlocked, Owns, JobInv, TypeOK
  <1>7. CASE Release(j, w, t)
    BY <1>7 DEF Release, Released, Owns, JobInv, TypeOK
  <1> QED
    BY <1>1, <1>2, <1>3, <1>4, <1>5, <1>6, <1>7 DEF WorkerCall

\* An action that ends the leases of a set of jobs.
LEMMA EndAttemptsFrame ==
  ASSUME JobInv, NEW S \in SUBSET JobIds, EndAttempts(S)
  PROVE  /\ \A k \in S : /\ jobs'[k].request = jobs[k].request
                         /\ jobs'[k].lease = NoLease
                         /\ jobs'[k].status \in {"retry_pending", "failed"}
         /\ \A k \in JobIds \ S : jobs'[k] = jobs[k]
  BY DEF EndAttempts, Unlocked, AfterAttempt

LEMMA TickFrame ==
  ASSUME JobInv, Tick
  PROVE  \A k \in JobIds :
           /\ jobs'[k].request = jobs[k].request
           /\ jobs'[k].status = jobs[k].status /\ jobs'[k].lease = jobs[k].lease
           /\ jobs[k].status \notin Active => jobs'[k] = jobs[k]
  BY DEF Tick, JobInv, TypeOK, Rows

LEMMA OneLiveJobStep ==
  JobInv /\ OneLiveJobPerRequest /\ [JobNext]_jobVars => OneLiveJobPerRequest'
  <1> SUFFICES ASSUME JobInv, OneLiveJobPerRequest, [JobNext]_jobVars
               PROVE  OneLiveJobPerRequest'
    OBVIOUS
  <1>1. ASSUME NEW j \in JobIds, NEW r \in Requests, Insert(j, r)
        PROVE  OneLiveJobPerRequest'
    <2>1. jobs'[j].request = r /\ \A k \in JobIds \ {j} : jobs'[k] = jobs[k]
      BY <1>1 DEF Insert, NewRow, JobInv, TypeOK
    <2> QED
      BY <1>1, <2>1, OneNewLiveJob DEF Insert
  <1>2. ASSUME NEW j \in JobIds, NEW w \in Workers, Claim(j, w)
        PROVE  OneLiveJobPerRequest'
    <2>1. /\ Live(j) /\ jobs'[j].request = jobs[j].request
          /\ \A k \in JobIds \ {j} : jobs'[k] = jobs[k]
      BY <1>2 DEF Claim, Claimable, ClaimedRow, Live, JobInv, TypeOK
    <2> QED
      BY <2>1, NoNewLiveJob DEF Live
  <1>3. ASSUME NEW j \in JobIds, NEW w \in Workers, NEW t \in 1..lastLease,
               WorkerCall(j, w, t)
        PROVE  OneLiveJobPerRequest'
    BY <1>3, WorkerCallFrame, NoNewLiveJob DEF Live
  <1>4. ASSUME NEW age \in 0..AgeCap, ReleaseStale(age)
        PROVE  OneLiveJobPerRequest'
    BY <1>4, EndAttemptsFrame, NoNewLiveJob DEF ReleaseStale, Stale, Live
  <1>5. ASSUME NEW j \in JobIds, AdminCall(j)
        PROVE  OneLiveJobPerRequest'
    <2>1. CASE AdminRetry(j)
      <3>1. /\ jobs'[j].request = jobs[j].request
            /\ \A k \in JobIds \ {j} : jobs'[k] = jobs[k]
        BY <2>1 DEF AdminRetry, JobInv, TypeOK, Rows
      <3>2. CASE jobs[j].status = "failed"
        BY <2>1, <3>1, <3>2, OneNewLiveJob DEF AdminRetry
      <3>3. CASE jobs[j].status = "retry_pending"
        BY <3>1, <3>3, NoNewLiveJob DEF Live, Queued
      <3> QED
        BY <2>1, <3>2, <3>3 DEF AdminRetry
    <2>2. CASE AdminCancel(j)
      BY <2>2, NoNewLiveJob DEF AdminCancel, Unlocked, Live, JobInv, TypeOK
    <2>3. CASE AdminReap(j)
      BY <2>3, EndAttemptsFrame, NoNewLiveJob DEF AdminReap, Stale, Live
    <2> QED
      BY <1>5, <2>1, <2>2, <2>3 DEF AdminCall
  <1>6. ASSUME NEW gone \in SUBSET Requests, ExpireInputs(gone)
        PROVE  OneLiveJobPerRequest'
    BY <1>6, NoNewLiveJob DEF ExpireInputs, Unlocked, Live, Queued, Active
  <1>7. CASE Tick
    BY <1>7, TickFrame, NoNewLiveJob DEF Live
  <1>8. CASE UNCHANGED jobVars
    BY <1>8, NoNewLiveJob DEF jobVars, Live
  <1> QED
    BY <1>1, <1>2, <1>3, <1>4, <1>5, <1>6, <1>7, <1>8 DEF JobNext

\* A requester never has two live jobs with the same inputs, however jobs are
\* created, finished and retried.
THEOREM OneLiveJob == JobSpec => []OneLiveJobPerRequest
  <1>1. JobInit => OneLiveJobPerRequest
    BY DEF JobInit, OneLiveJobPerRequest, Live, NoRow, Queued, Active
  <1> QED
    BY <1>1, JobInvariant, OneLiveJobStep, PTL DEF JobSpec

\* Whatever its callers do, the rows of the queue agree with each other and with
\* the plans.
THEOREM RowsStayConsistent == JobSpec => []RowsAreConsistent
  BY QueuedJobsStayClaimable, OneLiveJob, AttemptsAreCounted, StagesAreTrue, PTL
     DEF RowsAreConsistent
-----------------------------------------------------------------------------
\* The queue implements fenced leases.

Sealed == {j \in JobIds : jobs[j].status \in {"completed", "cancelled"}}

\* A job is finished: its lease, if it had one, ends with it.
LEMMA SealRefines ==
  ASSUME JobInv, UNCHANGED <<plans, lastLease>>, NEW j \in JobIds,
         jobs[j].status \notin {"completed", "cancelled"},
         NEW status \in {"completed", "cancelled"},
         jobs' = [jobs EXCEPT ![j] = Unlocked(jobs[j], status)]
  PROVE  Fence!Next
  <1>1. \A k \in JobIds : jobs'[k] = IF k = j THEN Unlocked(jobs[j], status) ELSE jobs[k]
    BY DEF JobInv, TypeOK
  <1>2. Unlocked(jobs[j], status).lease = NoLease /\ Unlocked(jobs[j], status).status = status
    BY DEF Unlocked
  <1>3. Sealed' = Sealed \cup {j}
    BY <1>1, <1>2 DEF Sealed
  <1>4. [k \in JobIds |-> jobs[k].lease]' =
          [[k \in JobIds |-> jobs[k].lease] EXCEPT ![j] = NoLease]
    <2>1. \A k \in JobIds : jobs'[k].lease = IF k = j THEN NoLease ELSE jobs[k].lease
      BY <1>1, <1>2
    <2> QED
      BY <2>1
  <1> QED
    BY <1>3, <1>4 DEF Fence!Next, Fence!Seal, Fence!NoLease, Sealed

\* Some jobs lose their leases and no job is finished for good.
LEMMA FreeRefines ==
  ASSUME JobInv, UNCHANGED <<plans, lastLease>>, NEW S \in SUBSET JobIds,
         \A k \in JobIds : /\ k \in Sealed <=> jobs'[k].status \in {"completed", "cancelled"}
                           /\ jobs'[k].lease = IF k \in S THEN NoLease ELSE jobs[k].lease
  PROVE  Fence!Next
  <1>1. Sealed' = Sealed
    BY DEF Sealed
  <1>2. [k \in JobIds |-> jobs[k].lease]' =
          [k \in JobIds |-> IF k \in S THEN NoLease
                                      ELSE [i \in JobIds |-> jobs[i].lease][k]]
    OBVIOUS
  <1>3. Fence!Free(S)
    BY <1>1, <1>2 DEF Fence!Free, Fence!NoLease, Sealed
  <1> QED
    BY <1>3 DEF Fence!Next

\* One job loses its lease, and is to be claimed again or failed.
LEMMA LeaseLostRefines ==
  ASSUME JobInv, UNCHANGED <<plans, lastLease>>, NEW j \in JobIds,
         jobs[j].status \in Active,
         \A k \in JobIds : k # j => jobs'[k] = jobs[k],
         jobs'[j].status \in {"retry_pending", "failed"},
         jobs'[j].lease = NoLease
  PROVE  Fence!Next
  <1> DEFINE S == {j}
  <1>1. \A k \in JobIds : /\ k \in Sealed <=> jobs'[k].status \in {"completed", "cancelled"}
                          /\ jobs'[k].lease = IF k \in S THEN NoLease ELSE jobs[k].lease
    BY DEF Sealed, Active
  <1>2. S \in SUBSET JobIds
    OBVIOUS
  <1> HIDE DEF S
  <1> QED
    BY <1>1, <1>2, FreeRefines

\* Nothing the abstract queue knows of changes.
LEMMA SameLeases ==
  ASSUME JobInv, UNCHANGED <<plans, lastLease>>,
         \A k \in JobIds : /\ k \in Sealed <=> jobs'[k].status \in {"completed", "cancelled"}
                           /\ jobs'[k].lease = jobs[k].lease
  PROVE  UNCHANGED Fence!vars
  BY DEF Fence!vars, Sealed

\* A result is written under the lease in the row.
LEMMA WriteRefines ==
  ASSUME JobInv, UNCHANGED lastLease, NEW j \in JobIds, NEW r \in Results,
         jobs[j].status \in Active,
         NEW status \in Active, jobs' = [jobs EXCEPT ![j] = Staged(jobs[j], status)],
         plans' = [plans EXCEPT ![j][r] = jobs[j].lease]
  PROVE  Fence!Next
  <1>1. \A k \in JobIds : jobs'[k] = IF k = j THEN Staged(jobs[j], status) ELSE jobs[k]
    BY DEF JobInv, TypeOK
  <1>2. Staged(jobs[j], status).lease = jobs[j].lease /\ Staged(jobs[j], status).status = status
    BY DEF Staged
  <1>3. Sealed' = Sealed
    BY <1>1, <1>2 DEF Sealed, Active
  <1>4. [k \in JobIds |-> jobs[k].lease]' = [k \in JobIds |-> jobs[k].lease]
    BY <1>1, <1>2
  <1>5. jobs[j].lease # NoLease
    BY DEF JobInv, TypeOK, Locked
  <1> QED
    BY <1>3, <1>4, <1>5 DEF Fence!Next, Fence!Write, Fence!NoLease, Sealed

LEMMA WorkerCallRefines ==
  ASSUME JobInv, NEW j \in JobIds, NEW w \in Workers, NEW t \in 1..lastLease,
         WorkerCall(j, w, t)
  PROVE  Fence!Next \/ UNCHANGED Fence!vars
  <1>1. CASE Heartbeat(j, w, t)
    <2>1. \A k \in JobIds : /\ jobs'[k].status = jobs[k].status
                            /\ jobs'[k].lease = jobs[k].lease
      BY <1>1 DEF Heartbeat, JobInv, TypeOK, Rows
    <2>2. UNCHANGED <<plans, lastLease>>
      BY <1>1 DEF Heartbeat
    <2> QED
      BY <2>1, <2>2, SameLeases DEF Sealed
  <1>2. CASE PersistAlgorithm(j, w, t)
    BY <1>2, WriteRefines DEF PersistAlgorithm, Owns, Results, Active
  <1>3. CASE PersistAi(j, w, t)
    BY <1>3, WriteRefines DEF PersistAi, Owns, Results, Active
  <1>4. CASE Complete(j, w, t)
    BY <1>4, SealRefines DEF Complete, Owns, Active
  <1>5. ASSUME NEW retryable \in BOOLEAN, Fail(j, w, t, retryable)
        PROVE  Fence!Next
    <2>1. /\ \A k \in JobIds : jobs'[k] = IF k = j
                                           THEN Unlocked(jobs[j], AfterAttempt(jobs[j], retryable))
                                           ELSE jobs[k]
          /\ UNCHANGED <<plans, lastLease>>
          /\ jobs[j].status \in Active
      BY <1>5 DEF Fail, Owns, JobInv, TypeOK
    <2>2. AfterAttempt(jobs[j], retryable) \in {"retry_pending", "failed"}
      BY DEF AfterAttempt
    <2> QED
      BY <2>1, <2>2, LeaseLostRefines DEF Unlocked
  <1>6. CASE Cancel(j, w, t)
    BY <1>6, SealRefines DEF Cancel, Owns, Active
  <1>7. CASE Release(j, w, t)
    <2>1. /\ \A k \in JobIds : jobs'[k] = IF k = j THEN Released(jobs[j]) ELSE jobs[k]
          /\ UNCHANGED <<plans, lastLease>>
          /\ jobs[j].status \in Active
      BY <1>7 DEF Release, Owns, JobInv, TypeOK
    <2> QED
      BY <2>1, LeaseLostRefines DEF Released
  <1> QED
    BY <1>1, <1>2, <1>3, <1>4, <1>5, <1>6, <1>7 DEF WorkerCall

LEMMA StepRefines ==
  JobInv /\ [JobNext]_jobVars => [Fence!Next]_(Fence!vars)
  <1> SUFFICES ASSUME JobInv, [JobNext]_jobVars
               PROVE  Fence!Next \/ UNCHANGED Fence!vars
    OBVIOUS
  <1>1. ASSUME NEW j \in JobIds, NEW r \in Requests, Insert(j, r)
        PROVE  UNCHANGED Fence!vars
    <2>1. /\ \A k \in JobIds : jobs'[k] = IF k = j THEN NewRow(r) ELSE jobs[k]
          /\ UNCHANGED <<plans, lastLease>>
          /\ jobs[j].status = "none" /\ jobs[j].lease = NoLease
      BY <1>1 DEF Insert, JobInv, TypeOK, Locked, Active
    <2> QED
      BY <2>1, SameLeases DEF NewRow, Sealed
  <1>2. ASSUME NEW j \in JobIds, NEW w \in Workers, Claim(j, w)
        PROVE  Fence!Next
    <2>1. /\ \A k \in JobIds : jobs'[k] = IF k = j THEN ClaimedRow(jobs[j], w, lastLease + 1)
                                                  ELSE jobs[k]
          /\ jobs[j].status \in Queued /\ jobs[j].lease = NoLease
          /\ lastLease' = lastLease + 1 /\ plans' = plans
      BY <1>2 DEF Claim, Claimable, JobInv, TypeOK, Locked, Queued, Active
    <2>2. /\ ClaimedRow(jobs[j], w, lastLease + 1).lease = lastLease + 1
          /\ ClaimedRow(jobs[j], w, lastLease + 1).status = "processing"
      BY DEF ClaimedRow
    <2>3. Sealed' = Sealed /\ j \notin Sealed
      BY <2>1, <2>2 DEF Sealed, Queued
    <2>4. [k \in JobIds |-> jobs[k].lease]' =
            [[k \in JobIds |-> jobs[k].lease] EXCEPT ![j] = lastLease']
      BY <2>1, <2>2
    <2> QED
      BY <2>1, <2>3, <2>4 DEF Fence!Next, Fence!Grant, Fence!NoLease, Sealed
  <1>3. ASSUME NEW j \in JobIds, NEW w \in Workers, NEW t \in 1..lastLease,
               WorkerCall(j, w, t)
        PROVE  Fence!Next \/ UNCHANGED Fence!vars
    BY <1>3, WorkerCallRefines
  <1>4. ASSUME NEW S \in SUBSET JobIds, \A j \in S : jobs[j].status \in Active,
               EndAttempts(S), UNCHANGED <<plans, lastLease>>
        PROVE  Fence!Next
    <2>1. \A k \in JobIds : /\ k \in Sealed <=> jobs'[k].status \in {"completed", "cancelled"}
                            /\ jobs'[k].lease = IF k \in S THEN NoLease ELSE jobs[k].lease
      BY <1>4, EndAttemptsFrame DEF Sealed, Active
    <2> QED
      BY <1>4, <2>1, FreeRefines
  <1>5. ASSUME NEW j \in JobIds, AdminCall(j)
        PROVE  Fence!Next \/ UNCHANGED Fence!vars
    <2>1. CASE AdminRetry(j)
      <3>1. \A k \in JobIds : /\ k \in Sealed <=> jobs'[k].status \in {"completed", "cancelled"}
                              /\ jobs'[k].lease = jobs[k].lease
        BY <2>1 DEF AdminRetry, Sealed, JobInv, TypeOK, Rows
      <3> QED
        BY <2>1, <3>1, SameLeases DEF AdminRetry
    <2>2. CASE AdminCancel(j)
      BY <2>2, SealRefines DEF AdminCancel, Live, Queued, Active
    <2>3. CASE AdminReap(j)
      BY <2>3, <1>4 DEF AdminReap, Stale
    <2> QED
      BY <1>5, <2>1, <2>2, <2>3 DEF AdminCall
  <1>6. ASSUME NEW gone \in SUBSET Requests, ExpireInputs(gone)
        PROVE  Fence!Next
    <2> DEFINE S == {k \in JobIds : Live(k) /\ jobs[k].request \in gone}
    <2>1. \A k \in JobIds : jobs'[k] = IF k \in S THEN Unlocked(jobs[k], "failed") ELSE jobs[k]
      BY <1>6 DEF ExpireInputs
    <2>2. \A k \in JobIds : /\ k \in Sealed <=> jobs'[k].status \in {"completed", "cancelled"}
                            /\ jobs'[k].lease = IF k \in S THEN NoLease ELSE jobs[k].lease
      <3>1. \A k \in S : k \notin Sealed
        BY DEF Live, Queued, Active, Sealed
      <3>2. ASSUME NEW k \in S
            PROVE  jobs'[k].status = "failed" /\ jobs'[k].lease = NoLease
        <4>1. jobs'[k] = Unlocked(jobs[k], "failed")
          BY <2>1
        <4> QED
          BY <4>1 DEF Unlocked
      <3>3. \A k \in JobIds \ S : jobs'[k] = jobs[k]
        BY <2>1
      <3> HIDE DEF S
      <3> QED
        BY <3>1, <3>2, <3>3 DEF Sealed
    <2>3. S \in SUBSET JobIds /\ UNCHANGED <<plans, lastLease>>
      BY <1>6 DEF ExpireInputs
    <2> HIDE DEF S
    <2> QED
      BY <2>2, <2>3, FreeRefines
  <1>7. CASE Tick
    <2>1. \A k \in JobIds : /\ k \in Sealed <=> jobs'[k].status \in {"completed", "cancelled"}
                            /\ jobs'[k].lease = jobs[k].lease
      BY <1>7, TickFrame DEF Sealed
    <2> QED
      BY <1>7, <2>1, SameLeases DEF Tick
  <1>8. CASE UNCHANGED jobVars
    BY <1>8 DEF jobVars, Fence!vars
  <1>9. ASSUME NEW age \in 0..AgeCap, ReleaseStale(age)
        PROVE  Fence!Next
    BY <1>9, <1>4 DEF ReleaseStale, Stale
  <1> QED
    BY <1>1, <1>2, <1>3, <1>5, <1>6, <1>7, <1>8, <1>9 DEF JobNext

\* The queue keeps what FencedLease promises, whatever its callers do: a job is
\* held by one lease at a time and only that lease writes its results.
THEOREM QueueIsFenced == JobSpec => FencedQueue
  <1>1. JobInit => Fence!Init
    BY DEF JobInit, Fence!Init, NoRow, Fence!NoLease
  <1> QED
    BY <1>1, JobInvariant, StepRefines, PTL DEF JobSpec, FencedQueue, Fence!Spec

-----------------------------------------------------------------------------
\* What FencedLease promises, of the queue that implements it.  These arguments
\* use nothing of the queue but that its steps are those of Fence.
FenceInv == Fence!TypeOK /\ Fence!Fenced

IsSealed(j) == jobs[j].status \in {"completed", "cancelled"}

LEMMA InitFenced == Fence!Init => FenceInv
  BY DEF Fence!Init, FenceInv, Fence!TypeOK, Fence!Fenced, Fence!NoLease

\* A grant draws a lease nobody holds and nothing was written by.
LEMMA GrantKeeps ==
  ASSUME FenceInv, NEW r \in JobIds, Fence!Grant(r)
  PROVE  FenceInv'
  <1>1. lastLease' = lastLease + 1 /\ lastLease \in Nat /\ plans' = plans
    BY DEF FenceInv, Fence!TypeOK, Fence!Grant
  <1>2. \A q \in JobIds : jobs'[q].lease = IF q = r THEN lastLease + 1 ELSE jobs[q].lease
    BY <1>1 DEF Fence!Grant
  <1>3. ~IsSealed(r) /\ \A q \in JobIds : IsSealed(q)' <=> IsSealed(q)
    BY DEF Fence!Grant, IsSealed
  <1>4. Fence!TypeOK'
    BY <1>1, <1>2 DEF FenceInv, Fence!TypeOK, Fence!Grant
  <1>5. Fence!Fenced'
    BY <1>1, <1>2, <1>3 DEF FenceInv, Fence!TypeOK, Fence!Fenced, Fence!NoLease, IsSealed
  <1> QED
    BY <1>4, <1>5 DEF FenceInv

LEMMA WriteKeeps ==
  ASSUME FenceInv, NEW r \in JobIds, NEW s \in Results, Fence!Write(r, s)
  PROVE  FenceInv' /\ \A q \in JobIds, u \in Results : plans'[q][u] >= plans[q][u]
  <1>0. /\ lastLease' = lastLease /\ \A q \in JobIds : jobs'[q].lease = jobs[q].lease
        /\ jobs[r].lease # 0
    BY DEF Fence!Write, Fence!NoLease
  <1>1. \A q \in JobIds, u \in Results :
          plans'[q][u] = IF q = r /\ u = s THEN jobs[r].lease ELSE plans[q][u]
    BY DEF FenceInv, Fence!TypeOK, Fence!Write
  <1>2. Fence!TypeOK'
    BY <1>0 DEF FenceInv, Fence!TypeOK, Fence!Write
  <1>3. Fence!Fenced'
    BY <1>0, <1>1 DEF FenceInv, Fence!TypeOK, Fence!Fenced, Fence!Write, Fence!NoLease
  <1>4. \A q \in JobIds, u \in Results : plans[q][u] \in Nat
    BY DEF FenceInv, Fence!TypeOK
  <1>5. plans[r][s] <= jobs[r].lease
    BY <1>0 DEF FenceInv, Fence!Fenced, Fence!NoLease
  <1>6. \A q \in JobIds, u \in Results : plans'[q][u] >= plans[q][u]
    BY <1>1, <1>4, <1>5
  <1> QED
    BY <1>2, <1>3, <1>6 DEF FenceInv

LEMMA FreeKeeps ==
  ASSUME FenceInv, NEW S \in SUBSET JobIds, Fence!Free(S)
  PROVE  FenceInv'
  <1>1. /\ lastLease' = lastLease /\ plans' = plans
        /\ \A q \in JobIds : jobs'[q].lease = IF q \in S THEN 0 ELSE jobs[q].lease
    BY DEF Fence!Free, Fence!NoLease
  <1>2. Fence!TypeOK'
    BY <1>1 DEF FenceInv, Fence!TypeOK, Fence!Free
  <1>3. Fence!Fenced'
    BY <1>1 DEF FenceInv, Fence!TypeOK, Fence!Fenced, Fence!Free, Fence!NoLease
  <1> QED
    BY <1>2, <1>3 DEF FenceInv

LEMMA SealKeeps ==
  ASSUME FenceInv, NEW r \in JobIds, Fence!Seal(r)
  PROVE  FenceInv'
  <1>1. /\ lastLease' = lastLease /\ plans' = plans
        /\ \A q \in JobIds : jobs'[q].lease = IF q = r THEN 0 ELSE jobs[q].lease
    BY DEF Fence!Seal, Fence!NoLease
  <1>2. \A q \in JobIds : IsSealed(q)' <=> q = r \/ IsSealed(q)
    BY DEF Fence!Seal, IsSealed
  <1>3. Fence!TypeOK'
    BY <1>1 DEF FenceInv, Fence!TypeOK, Fence!Seal
  <1>4. Fence!Fenced'
    BY <1>1, <1>2 DEF FenceInv, Fence!TypeOK, Fence!Fenced, Fence!NoLease, IsSealed
  <1> QED
    BY <1>3, <1>4 DEF FenceInv

LEMMA StepFenced == FenceInv /\ [Fence!Next]_(Fence!vars) => FenceInv'
  <1> SUFFICES ASSUME FenceInv, [Fence!Next]_(Fence!vars) PROVE FenceInv'
    OBVIOUS
  <1>1. CASE Fence!Next
    BY <1>1, GrantKeeps, WriteKeeps, FreeKeeps, SealKeeps DEF Fence!Next
  <1>2. CASE UNCHANGED Fence!vars
    BY <1>2 DEF FenceInv, Fence!TypeOK, Fence!Fenced, Fence!vars
  <1> QED
    BY <1>1, <1>2

\* No two resources are under one lease, nothing is written by a lease newer
\* than the holder's, and what is sealed is not held: what the fencing tokens
\* of claim_breeding_job are for.
THEOREM LeasesAreFenced == FencedQueue => []Fence!Fenced
  <1>1. FenceInv => Fence!Fenced
    BY DEF FenceInv
  <1> QED
    BY <1>1, InitFenced, StepFenced, PTL DEF FencedQueue, Fence!Spec

\* A result is never replaced by that of an older lease: a holder that comes
\* back late has lost.
THEOREM ResultsGrow == FencedQueue => Fence!ResultsOnlyGetNewer
  <1>1. FenceInv /\ [Fence!Next]_(Fence!vars) => [Fence!Newer]_(Fence!vars)
    <2> SUFFICES ASSUME FenceInv, Fence!Next PROVE Fence!Newer
      OBVIOUS
    <2>1. \A r \in JobIds, s \in Results : plans[r][s] \in Nat
      BY DEF FenceInv, Fence!TypeOK
    <2>2. CASE UNCHANGED plans
      BY <2>1, <2>2 DEF Fence!Newer
    <2>3. CASE \E r \in JobIds, s \in Results : Fence!Write(r, s)
      BY <2>3, WriteKeeps DEF Fence!Newer
    <2> QED
      BY <2>2, <2>3 DEF Fence!Next, Fence!Grant, Fence!Free, Fence!Seal
  <1>2. FencedQueue => [][Fence!Newer]_(Fence!vars)
    BY <1>1, InitFenced, StepFenced, PTL DEF FencedQueue, Fence!Spec
  <1> QED
    BY <1>2 DEF Fence!ResultsOnlyGetNewer

\* What is sealed stays sealed, with its results.
THEOREM SealsStay == FencedQueue => Fence!SealedIsFinal
  <1>1. FenceInv /\ [Fence!Next]_(Fence!vars) => [Fence!SealKept]_(Fence!vars)
    <2> SUFFICES ASSUME FenceInv, Fence!Next PROVE Fence!SealKept
      OBVIOUS
    <2>1. CASE UNCHANGED plans
      BY <2>1 DEF Fence!SealKept, Fence!Next, Fence!Grant, Fence!Write, Fence!Free, Fence!Seal
    <2>2. ASSUME NEW r \in JobIds, NEW s \in Results, Fence!Write(r, s) PROVE Fence!SealKept
      <3>1. ~IsSealed(r) /\ \A q \in JobIds : IsSealed(q)' <=> IsSealed(q)
        BY <2>2 DEF FenceInv, Fence!Fenced, Fence!Write, IsSealed
      <3>2. \A q \in JobIds : q # r => plans'[q] = plans[q]
        BY <2>2 DEF FenceInv, Fence!TypeOK, Fence!Write
      <3> QED
        BY <3>1, <3>2 DEF Fence!SealKept, IsSealed
    <2> QED
      BY <2>1, <2>2 DEF Fence!Next, Fence!Grant, Fence!Free, Fence!Seal
  <1>2. FencedQueue => [][Fence!SealKept]_(Fence!vars)
    BY <1>1, InitFenced, StepFenced, PTL DEF FencedQueue, Fence!Spec
  <1> QED
    BY <1>2 DEF Fence!SealedIsFinal

\* Two jobs are never under one lease, and what is recorded for a job was not
\* written under a newer lease than its holder's.
LeasesFence ==
  /\ \A i, j \in JobIds :
       i # j /\ jobs[i].lease # NoLease => jobs[i].lease # jobs[j].lease
  /\ \A j \in JobIds, r \in Results :
       jobs[j].lease # NoLease => plans[j][r] <= jobs[j].lease

\* Lease tokens fence: locked_by and lease_token of claim_breeding_job name one
\* holder of one job.
THEOREM QueueLeasesFence == JobSpec => []LeasesFence
  <1>1. Fence!Fenced => LeasesFence
    BY DEF Fence!Fenced, Fence!NoLease, LeasesFence
  <1> QED
    BY <1>1, QueueIsFenced, LeasesAreFenced, PTL

\* The plan and the explanation of a job are only ever replaced by those of a
\* later attempt (or of the same one, repeated).
THEOREM QueueResultsGrow == JobSpec => Fence!ResultsOnlyGetNewer
  BY QueueIsFenced, ResultsGrow, PTL

-----------------------------------------------------------------------------
\* What a step does to one job, seen from the two action properties: nothing
\* but ageing, losing its lease, being claimed, going forward, being requeued.
KeptJob(k) ==
  /\ plans'[k] = plans[k]
  /\ jobs'[k].status = jobs[k].status /\ jobs'[k].lease = jobs[k].lease
  /\ jobs[k].status \notin Active => jobs'[k] = jobs[k]

EndedJob(k) ==
  /\ plans'[k] = plans[k]
  /\ jobs[k].status \notin Terminal
  /\ jobs'[k].lease = NoLease

ClaimedJob(k) ==
  /\ plans'[k] = plans[k]
  /\ jobs[k].status \notin Terminal
  /\ jobs[k].lease = NoLease

AdvancedJob(k) ==
  /\ jobs[k].status \in Active
  /\ Stage(jobs'[k].status) >= Stage(jobs[k].status)

RequeuedJob(k) ==
  /\ plans'[k] = plans[k]
  /\ jobs[k].status = "failed" /\ jobs[k].lease = NoLease
  /\ jobs'[k] = [jobs[k] EXCEPT !.status = "retry_pending"]

MovedJob(k) == KeptJob(k) \/ EndedJob(k) \/ ClaimedJob(k) \/ AdvancedJob(k) \/ RequeuedJob(k)

LEMMA WorkerCallMoves ==
  ASSUME JobInv, NEW j \in JobIds, NEW w \in Workers, NEW t \in 1..lastLease,
         WorkerCall(j, w, t), NEW k \in JobIds
  PROVE  MovedJob(k)
  <1>0. jobs[j].status \in Active
    BY DEF WorkerCall, Heartbeat, PersistAlgorithm, PersistAi, Complete, Fail, Cancel,
           Release, Owns
  <1>1. CASE k # j
    <2>1. jobs'[k] = jobs[k] /\ plans'[k] = plans[k]
      BY <1>1 DEF WorkerCall, Heartbeat, PersistAlgorithm, PersistAi, Complete, Fail, Cancel,
                  Release, JobInv, TypeOK
    <2> QED
      BY <2>1 DEF MovedJob, KeptJob
  <1>2. ASSUME k = j, Heartbeat(j, w, t)
        PROVE  KeptJob(k)
    BY <1>0, <1>2 DEF Heartbeat, KeptJob, JobInv, TypeOK, Rows
  <1>3. ASSUME k = j, PersistAlgorithm(j, w, t)
        PROVE  AdvancedJob(k)
    <2>1. jobs'[k] = Staged(jobs[j], "algorithm_completed")
      BY <1>3 DEF PersistAlgorithm, JobInv, TypeOK
    <2>2. jobs'[k].status = "algorithm_completed"
      BY <2>1 DEF Staged
    <2>3. jobs[k].status \in {"processing", "algorithm_completed"}
      BY <1>3 DEF PersistAlgorithm
    <2> QED
      BY <1>0, <1>3, <2>2, <2>3 DEF AdvancedJob, Stage
  <1>4. ASSUME k = j, PersistAi(j, w, t)
        PROVE  AdvancedJob(k)
    <2>1. jobs'[k] = Staged(jobs[j], "ai_enriching")
      BY <1>4 DEF PersistAi, JobInv, TypeOK
    <2>2. jobs'[k].status = "ai_enriching"
      BY <2>1 DEF Staged
    <2>3. jobs[k].status \in {"algorithm_completed", "ai_enriching"}
      BY <1>4 DEF PersistAi
    <2> QED
      BY <1>0, <1>4, <2>2, <2>3 DEF AdvancedJob, Stage
  <1>5. ASSUME k = j, Complete(j, w, t) \/ Cancel(j, w, t)
                        \/ \E retryable \in BOOLEAN : Fail(j, w, t, retryable)
        PROVE  EndedJob(k)
    <2>1. \E status \in Statuses : jobs'[k] = Unlocked(jobs[j], status)
      BY <1>5 DEF Complete, Cancel, Fail, AfterAttempt, JobInv, TypeOK, Statuses, Queued,
                  Terminal
    <2>2. plans' = plans
      BY <1>5 DEF Complete, Cancel, Fail
    <2> QED
      BY <1>0, <1>5, <2>1, <2>2 DEF EndedJob, Unlocked, Active, Terminal
  <1>6. ASSUME k = j, Release(j, w, t)
        PROVE  EndedJob(k)
    <2>1. jobs'[k] = Released(jobs[j]) /\ plans' = plans
      BY <1>6 DEF Release, JobInv, TypeOK
    <2> QED
      BY <1>0, <1>6, <2>1 DEF EndedJob, Released, Active, Terminal
  <1> QED
    BY <1>1, <1>2, <1>3, <1>4, <1>5, <1>6 DEF WorkerCall, MovedJob

LEMMA EndAttemptsMoves ==
  ASSUME JobInv, NEW S \in SUBSET JobIds, \A j \in S : jobs[j].status \in Active,
         EndAttempts(S), UNCHANGED plans, NEW k \in JobIds
  PROVE  MovedJob(k)
  <1>1. CASE k \in S
    BY <1>1, EndAttemptsFrame DEF MovedJob, EndedJob, Active, Terminal
  <1>2. CASE k \notin S
    BY <1>2, EndAttemptsFrame DEF MovedJob, KeptJob
  <1> QED
    BY <1>1, <1>2

LEMMA StepMoves ==
  ASSUME JobInv, [JobNext]_jobVars, NEW k \in JobIds
  PROVE  MovedJob(k)
  <1>1. ASSUME NEW j \in JobIds, NEW r \in Requests, Insert(j, r)
        PROVE  MovedJob(k)
    <2>1. /\ jobs'[k] = IF k = j THEN NewRow(r) ELSE jobs[k]
          /\ plans' = plans
          /\ jobs[j].status = "none"
      BY <1>1 DEF Insert, JobInv, TypeOK
    <2> QED
      BY <2>1 DEF NewRow, MovedJob, KeptJob, EndedJob, Terminal
  <1>2. ASSUME NEW j \in JobIds, NEW w \in Workers, Claim(j, w)
        PROVE  MovedJob(k)
    <2>1. /\ k # j => jobs'[k] = jobs[k]
          /\ plans' = plans
          /\ jobs[j].status \in Queued /\ jobs[j].lease = NoLease
      BY <1>2 DEF Claim, Claimable, JobInv, TypeOK, Locked, Queued, Active
    <2> QED
      BY <2>1 DEF MovedJob, KeptJob, ClaimedJob, Queued, Terminal
  <1>3. ASSUME NEW j \in JobIds, NEW w \in Workers, NEW t \in 1..lastLease,
               WorkerCall(j, w, t)
        PROVE  MovedJob(k)
    BY <1>3, WorkerCallMoves
  <1>4. ASSUME NEW age \in 0..AgeCap, ReleaseStale(age)
        PROVE  MovedJob(k)
    BY <1>4, EndAttemptsMoves DEF ReleaseStale, Stale
  <1>5. ASSUME NEW j \in JobIds, AdminCall(j)
        PROVE  MovedJob(k)
    <2>1. CASE AdminRetry(j)
      <3>1. /\ jobs'[k] = IF k = j THEN [jobs[k] EXCEPT !.status = "retry_pending"] ELSE jobs[k]
            /\ plans' = plans
            /\ jobs[j].status \in {"failed", "retry_pending"}
            /\ jobs[j].lease = NoLease
        BY <2>1 DEF AdminRetry, JobInv, TypeOK, Locked, Active
      <3>2. CASE k = j /\ jobs[j].status = "failed"
        BY <3>1, <3>2 DEF MovedJob, RequeuedJob
      <3>3. CASE k = j /\ jobs[j].status = "retry_pending"
        BY <3>1, <3>3 DEF MovedJob, KeptJob, JobInv, TypeOK, Rows, Active
      <3>4. CASE k # j
        BY <3>1, <3>4 DEF MovedJob, KeptJob
      <3> QED
        BY <3>1, <3>2, <3>3, <3>4
    <2>2. CASE AdminCancel(j)
      <3>1. /\ jobs'[k] = IF k = j THEN Unlocked(jobs[j], "cancelled") ELSE jobs[k]
            /\ plans' = plans
            /\ jobs[j].status \notin Terminal
        BY <2>2 DEF AdminCancel, Live, Queued, Active, Terminal, JobInv, TypeOK
      <3> QED
        BY <3>1 DEF MovedJob, KeptJob, EndedJob, Unlocked
    <2>3. CASE AdminReap(j)
      BY <2>3, EndAttemptsMoves DEF AdminReap, Stale
    <2> QED
      BY <1>5, <2>1, <2>2, <2>3 DEF AdminCall
  <1>6. ASSUME NEW gone \in SUBSET Requests, ExpireInputs(gone)
        PROVE  MovedJob(k)
    <2>1. /\ jobs'[k] = jobs[k] \/ (Live(k) /\ jobs'[k] = Unlocked(jobs[k], "failed"))
          /\ plans' = plans
      BY <1>6 DEF ExpireInputs
    <2> QED
      BY <2>1 DEF MovedJob, KeptJob, EndedJob, Unlocked, Live, Queued, Active, Terminal
  <1>7. CASE Tick
    BY <1>7, TickFrame DEF Tick, MovedJob, KeptJob
  <1>8. CASE UNCHANGED jobVars
    BY <1>8 DEF jobVars, MovedJob, KeptJob
  <1> QED
    BY <1>1, <1>2, <1>3, <1>4, <1>5, <1>6, <1>7, <1>8 DEF JobNext

\* Completed and cancelled jobs are never touched again, and a failed one only
\* by an administrator's retry, for any number of jobs, workers and calls.
THEOREM FinishedJobsStay == JobSpec => FinishedStays
  <1>1. ASSUME JobInv, [JobNext]_jobVars
        PROVE  FinishedKept
    <2>1. \A j \in JobIds : MovedJob(j)
      BY <1>1, StepMoves
    <2> QED
      BY <2>1 DEF FinishedKept, MovedJob, KeptJob, EndedJob, ClaimedJob, AdvancedJob, RequeuedJob,
                  Active, Terminal
  <1> QED
    BY <1>1, JobInvariant, PTL DEF JobSpec, FinishedStays

\* While a lease lasts, its job never falls back to an earlier stage, whatever
\* the holder repeats.
THEOREM LeasesGoForward == JobSpec => ForwardUnderOneLease
  <1>1. ASSUME JobInv, [JobNext]_jobVars
        PROVE  StagesGoForward
    <2>1. ASSUME NEW j \in JobIds, jobs[j].lease # NoLease, jobs'[j].lease = jobs[j].lease
          PROVE  Stage(jobs'[j].status) >= Stage(jobs[j].status)
      <3>1. MovedJob(j)
        BY <1>1, StepMoves
      <3>2. Stage(jobs[j].status) \in Nat
        BY DEF Stage
      <3> QED
        BY <2>1, <3>1, <3>2 DEF MovedJob, KeptJob, EndedJob, ClaimedJob, AdvancedJob, RequeuedJob
    <2> QED
      BY <2>1 DEF StagesGoForward
  <1> QED
    BY <1>1, JobInvariant, PTL DEF JobSpec, ForwardUnderOneLease

\* No late, repeated or stale call turns a job back.
THEOREM JobsGoForward == JobSpec => GoesForward
  BY FinishedJobsStay, LeasesGoForward DEF GoesForward
=============================================================================
